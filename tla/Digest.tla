------------------------------- MODULE Digest -------------------------------
(***************************************************************************)
(* compose_digest(): what a turn is given of a mention.  A line is the      *)
(* sequence of its characters' widths in UTF-8; a character of the digest   *)
(* remembers the line it is from, which is all the properties ask of it.    *)
(***************************************************************************)
EXTENDS Integers, FiniteSets, SequencesExt

CONSTANTS
  Texts,              \* bound: room texts, sequences of lines
  DigestMaxLines,     \* DIGEST_MAX_LINES
  DigestMaxBytes,     \* DIGEST_MAX_BYTES
  Size                \* bytes of each of the client's own lines

Kinds == {"name", "dropped", "cut", "note", "hint"}

ASSUME DigestAssumption ==
  /\ Texts \subseteq Seq(Seq(1..4))
  /\ DigestMaxLines \in Nat \ {0} /\ DigestMaxBytes \in Nat
  /\ Size \in [Kinds -> Nat \ {0}]

(* A character of one of the client's own lines, or of room line k.  A line  *)
(* comes after its line break; the client's own are taken for ASCII.        *)
OwnChar(kind)   == [own |-> kind, line |-> 0, w |-> 1]
RoomChar(k, w)  == [own |-> "", line |-> k, w |-> w]
Own(kind)       == <<OwnChar("break")>> \o [i \in 1..Size[kind] |-> OwnChar(kind)]
Chars(text, k)    == [i \in 1..Len(text[k]) |-> RoomChar(k, text[k][i])]
RoomLine(text, k) == <<OwnChar("break")>> \o Chars(text, k)

(* A byte of a text is the character it is of, and which byte of it.        *)
Units(s) == UNION {{i} \X (1..s[i].w) : i \in 1..Len(s)}
Bytes(s) == Cardinality(Units(s))

ASSUME HintFits == Bytes(Own("hint")) <= DigestMaxBytes

(* The non-empty lines, by number; past the cap, the newest.               *)
Body(text) == {k \in 1..Len(text) : text[k] # <<>>}

(* A faulty variant of a definition stands before it, named for its fault;  *)
(* nothing uses one.                                                       *)
Oldest(text) == {k \in Body(text) : Cardinality({j \in Body(text) : j < k}) < DigestMaxLines}

Newest(text) == {k \in Body(text) : Cardinality({j \in Body(text) : j > k}) < DigestMaxLines}
Cut(text) == Cardinality(Body(text)) > DigestMaxLines

Shown(text) == IF Cut(text) THEN Newest(text) ELSE Body(text)
Lines(text) ==
  FlattenSeq([k \in 1..Len(text) |-> IF k \in Shown(text) THEN RoomLine(text, k) ELSE <<>>])

Whole(text, dropped) ==
  Tail(Own("name") \o (IF dropped THEN Own("dropped") ELSE <<>>)
                   \o (IF Cut(text) THEN Own("cut") ELSE <<>>) \o Lines(text))

(* Bytes are cut, and decode("utf-8", "ignore") drops a split character.    *)
Bounded(text, budget) ==
  IF Bytes(text) <= budget THEN text
  ELSE LET fits == {i \in 0..Len(text) : Bytes(SubSeq(text, 1, i)) <= budget}
       IN  SubSeq(text, 1, CHOOSE i \in fits : \A j \in fits : j <= i) \o Own("note")

HintInside(text, dropped) ==
  LET all  == Whole(text, dropped) \o Own("hint")
      fits == {i \in 0..Len(all) : Bytes(SubSeq(all, 1, i)) <= DigestMaxBytes}
  IN  SubSeq(all, 1, CHOOSE i \in fits : \A j \in fits : j <= i)

Compose(text, dropped) ==
  LET hint   == Own("hint")
      budget == IF DigestMaxBytes > Bytes(hint) THEN DigestMaxBytes - Bytes(hint) ELSE 0
  IN  Bounded(Whole(text, dropped), budget) \o hint
-----------------------------------------------------------------------------
Says(digest, kind) == \E i \in 1..Len(digest) : digest[i].own = kind

(* All of line k is in the digest, in one piece, and no more of it.         *)
InFull(digest, text, k) ==
  \E at \in 0..(Len(digest) - Len(text[k])) :
    /\ SubSeq(digest, at + 1, at + Len(text[k])) = Chars(text, k)
    /\ \A i \in 1..Len(digest) : digest[i].line = k => i \in (at + 1)..(at + Len(text[k]))

(* The hint comes whole and last, and all before it is held to the byte cap   *)
(* but for the note that it was.                                           *)
HintLast ==
  \A text \in Texts, dropped \in BOOLEAN :
    LET digest == Compose(text, dropped)
        hint   == Own("hint")
    IN  /\ Len(hint) <= Len(digest)
        /\ SubSeq(digest, Len(digest) - Len(hint) + 1, Len(digest)) = hint
        /\ \/ Bytes(digest) <= DigestMaxBytes
           \/ /\ Says(digest, "note")
              /\ Bytes(digest) <= DigestMaxBytes + Bytes(Own("note"))

(* What is left out is said; and unless the bytes ran out, a line is left    *)
(* out only for a full cap of newer ones, each of them shown whole.         *)
SaysWhatIsOut ==
  \A text \in Texts, dropped \in BOOLEAN :
    LET digest == Compose(text, dropped)
    IN  \/ Says(digest, "note")
        \/ /\ dropped => Says(digest, "dropped")
           /\ \A k \in Body(text) :
                \/ InFull(digest, text, k)
                \/ /\ Says(digest, "cut")
                   /\ Cardinality({j \in Body(text) : j > k /\ InFull(digest, text, j)})
                        >= DigestMaxLines
=============================================================================
