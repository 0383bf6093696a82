--------------------------- MODULE DeliveryProofs ---------------------------
(* The chain cap for any number of sessions, mentions and failures: it holds *)
(* for every session whose count the others leave alone, and whoever writes  *)
(* it, the turns yet possible only fall.  And the digest for every text, of  *)
(* any number of lines of any length.                                      *)
EXTENDS Delivery, FiniteSetTheorems, SequenceTheorems, NaturalsInduction,
        WellFoundedInduction, TLAPS

(* chain.json, or the count the running hook has read, accounts for the      *)
(* automatic turns of a session nobody has mingled with.                    *)
Counted(s) ==
  /\ run[s] <= ChainCap
  /\ driver[s] = "user" => run[s] = 0
  /\ At(s, "off") /\ driver[s] = "chain" => run[s] <= chain
  /\ pc[s] \in {"forget", "rides", "shows"} => driver[s] = "user"
  /\ pc[s] \in {"claim", "hold", "none", "save"} => run[s] <= n[s]
  /\ At(s, "block") => run[s] + 1 <= chain

Kept == \A s \in Sessions : s \notin mingled => Counted(s)

(* What a step of one session leaves alone of another.                      *)
Aside(s, t) == /\ pc'[t] = pc[t] /\ driver'[t] = driver[t] /\ n'[t] = n[t]
               /\ run'[t] = run[t]

LEMMA InitKept == Init => TypeOK /\ Kept
<1> SUFFICES ASSUME Init PROVE TypeOK /\ Kept
  OBVIOUS
<1> USE DeliveryAssumption
<1>1. TypeOK
  BY DEF Init, TypeOK, Labels
<1>2. Kept
  BY DEF Init, Kept, Counted, At
<1> QED
  BY <1>1, <1>2

LEMMA PromptKept ==
  ASSUME TypeOK, Kept, NEW s \in Sessions, Prompt(s) \/ PromptStep(s)
  PROVE  TypeOK' /\ Kept'
<1> USE DeliveryAssumption DEF At, Goto, Step, Drives, Write, hooks
<1>1. TypeOK'
  BY DEF Prompt, PromptStep, Forget, Rides, Shows, TypeOK, Labels
<1>2. ASSUME NEW t \in Sessions, t # s PROVE Aside(s, t)
  BY <1>2 DEF Prompt, PromptStep, Forget, Rides, Shows, TypeOK, Aside
<1>3. CASE Prompt(s)
  <2>1. mingled' = mingled \ {s} /\ chain' = chain
    BY <1>3 DEF Prompt
  <2>2. Counted(s)'
    BY <1>3 DEF Prompt, TypeOK, Counted
  <2> QED
    BY <1>1, <1>2, <2>1, <2>2 DEF Kept, Counted, Aside
<1>4. CASE Forget(s)
  <2>1. mingled' = mingled \cup (Sessions \ {s})
    BY <1>4 DEF Forget
  <2>2. Counted(s) => Counted(s)'
    BY <1>4 DEF Forget, TypeOK, Counted
  <2> QED
    BY <1>1, <2>1, <2>2 DEF Kept
<1>5. CASE Rides(s) \/ Shows(s)
  <2>1. mingled' = mingled /\ chain' = chain
    BY <1>5 DEF Rides, Shows
  <2>2. Counted(s) => Counted(s)'
    BY <1>5 DEF Rides, Shows, TypeOK, Counted
  <2> QED
    BY <1>1, <1>2, <2>1, <2>2 DEF Kept, Counted, Aside
<1> QED
  BY <1>3, <1>4, <1>5 DEF PromptStep

LEMMA StopKept ==
  ASSUME TypeOK, Kept, NEW s \in Sessions, StopStep(s)
  PROVE  TypeOK' /\ Kept'
<1> USE DeliveryAssumption DEF At, Goto, Step, Drives, Write, hooks
<1>1. TypeOK'
  <2>1. CASE Count(s)
    BY <2>1 DEF Count, Capped, TypeOK, Labels
  <2>2. CASE Take(s) \/ Miss(s) \/ HoldEnds(s)
    BY <2>2 DEF Take, Miss, HoldEnds, TypeOK, Labels
  <2>3. CASE Quits(s) \/ Save(s)
    BY <2>3 DEF Quits, Save, TypeOK, Labels
  <2>4. CASE Block(s)
    BY <2>4 DEF Block, TypeOK, Labels
  <2> QED
    BY <2>1, <2>2, <2>3, <2>4 DEF StopStep
<1>2. ASSUME NEW t \in Sessions, t # s PROVE Aside(s, t)
  BY <1>2 DEF StopStep, Count, Take, Miss, HoldEnds, Quits, Save, Block, TypeOK, Aside
<1>3. Counted(s) => Counted(s)'
  <2>1. CASE Count(s)
    BY <2>1 DEF Count, Capped, TypeOK, Counted
  <2>2. CASE Take(s) \/ Miss(s) \/ HoldEnds(s)
    BY <2>2 DEF Take, Miss, HoldEnds, TypeOK, Counted
  <2>3. CASE Quits(s)
    BY <2>3 DEF Quits, TypeOK, Counted
  <2>4. CASE Save(s)
    BY <2>4 DEF Save, TypeOK, Counted
  <2>5. CASE Block(s)
    BY <1>1, <2>5 DEF Block, TypeOK, Counted
  <2> QED
    BY <2>1, <2>2, <2>3, <2>4, <2>5 DEF StopStep
<1>4. \/ mingled' = mingled /\ chain' = chain
      \/ mingled' = mingled \cup (Sessions \ {s})
  BY DEF StopStep, Count, Take, Miss, HoldEnds, Quits, Save, Block
<1> QED
  BY <1>1, <1>2, <1>3, <1>4 DEF Kept, Counted, Aside

LEMMA EndsKept ==
  ASSUME TypeOK, Kept, NEW s \in Sessions, KillHook(s) \/ SaveFails(s) \/ Interrupt(s)
  PROVE  TypeOK' /\ Kept'
<1> USE DeliveryAssumption DEF At, Goto, Step, Drives, hooks
<1>1. TypeOK'
  <2>1. CASE KillHook(s) \/ SaveFails(s)
    <3>1. faults' \in 0..MaxFaults
      BY <2>1 DEF KillHook, SaveFails, Fault, TypeOK
    <3>2. Ends(s)
      BY <2>1 DEF KillHook, SaveFails
    <3> QED
      BY <3>1, <3>2 DEF Ends, TypeOK, Labels
  <2>2. CASE Interrupt(s)
    BY <2>2 DEF Interrupt, TypeOK
  <2> QED
    BY <2>1, <2>2
<1>2. ASSUME NEW t \in Sessions, t # s PROVE Aside(s, t)
  BY <1>2 DEF KillHook, SaveFails, Ends, Interrupt, TypeOK, Aside
<1>3. Counted(s) => Counted(s)'
  BY DEF KillHook, SaveFails, Ends, Interrupt, TypeOK, Counted
<1>4. mingled' = mingled /\ chain' = chain
  BY DEF KillHook, SaveFails, Ends, Interrupt
<1> QED
  BY <1>1, <1>2, <1>3, <1>4 DEF Kept, Counted, Aside

LEMMA StepKept == TypeOK /\ Kept /\ [Next]_vars => TypeOK' /\ Kept'
<1> SUFFICES ASSUME TypeOK, Kept, [Next]_vars PROVE TypeOK' /\ Kept'
  OBVIOUS
<1>1. CASE UNCHANGED vars \/ Heard \/ Sweep
  <2>1. UNCHANGED <<chain, hooks, faults, run, mingled>> /\ inbox' \in Nat /\ stuck' \in Nat
    BY <1>1 DEF vars, Heard, Sweep, TypeOK
  <2> QED
    BY <2>1 DEF hooks, TypeOK, Kept, Counted, At
<1>2. ASSUME NEW s \in Sessions, Prompt(s) \/ PromptStep(s) PROVE TypeOK' /\ Kept'
  BY <1>2, PromptKept
<1>3. ASSUME NEW s \in Sessions, StopStep(s) PROVE TypeOK' /\ Kept'
  BY <1>3, StopKept
<1>4. ASSUME NEW s \in Sessions, KillHook(s) \/ SaveFails(s) \/ Interrupt(s)
      PROVE  TypeOK' /\ Kept'
  BY <1>4, EndsKept
<1> QED
  BY <1>1, <1>2, <1>3, <1>4 DEF Next

(* Every variable keeps its type; chain.json never holds more than CHAIN_CAP. *)
THEOREM DeliveryTypes == Spec => []TypeOK
<1>1. TypeOK /\ Kept /\ [Next]_vars => TypeOK' /\ Kept'
  BY StepKept
<1> QED
  BY InitKept, <1>1, PTL DEF Spec

(* docs/SPEC.md 5: on any host, a session whose count no other session       *)
(* writes has at most CHAIN_CAP turns in a row without its user, whatever    *)
(* hooks are killed, saves fail, and mentions arrive.                       *)
THEOREM ChainIsCapped == Spec => []CapKept
<1>1. TypeOK /\ Kept /\ [Next]_vars => TypeOK' /\ Kept'
  BY StepKept
<1>2. Kept => CapKept
  BY DEF Kept, Counted, CapKept
<1> QED
  BY InitKept, <1>1, <1>2, PTL DEF Spec
-----------------------------------------------------------------------------
Char == [own : Kinds \cup {"", "break"}, line : Nat, w : Nat]

(* Induction: the least element of a set of numbers, and a set that climbs.  *)
LEMMA Least ==
  ASSUME NEW T \in SUBSET Nat, T # {}
  PROVE  \E x \in T : \A y \in T : x <= y
<1> DEFINE R == {p \in Nat \X Nat : p[1] < p[2]}
<1>1. IsWellFoundedOn(R, Nat)
  <2>1. R = OpToRel(<, Nat)
    BY DEF OpToRel
  <2> QED
    BY <2>1, NatLessThanWellFounded
<1>2. PICK x \in T : \A y \in T : ~ (<<y, x>> \in R)
  BY <1>1, WFMin
<1>3. \A y \in T : ~ (y < x)
  BY <1>2
<1> QED
  BY <1>3

LEMMA Climb ==
  ASSUME NEW z \in Nat, NEW S, 0 \in S, \A i \in 1..z : i - 1 \in S => i \in S
  PROVE  \A i \in 0..z : i \in S
<1> DEFINE bad == {i \in 0..z : i \notin S}
<1>1. SUFFICES ASSUME bad # {} PROVE FALSE
  OBVIOUS
<1>2. PICK m \in bad : \A i \in bad : m <= i
  <2>1. bad \in SUBSET Nat
    OBVIOUS
  <2> QED
    BY <1>1, <2>1, Least
<1>3. m \in 1..z /\ m - 1 \in 0..z /\ ~ (m <= m - 1)
  BY <1>2
<1>4. m - 1 \in S
  BY <1>2, <1>3
<1> QED
  BY <1>2, <1>3, <1>4

LEMMA Greatest ==
  ASSUME NEW z \in Nat, NEW T \in SUBSET (0..z), T # {}
  PROVE  \E x \in T : \A y \in T : y <= x
<1> DEFINE U == {z - x : x \in T}
<1>1. PICK u \in U : \A v \in U : u <= v
  <2>1. \A x \in T : x \in 0..z /\ z - x \in Nat
    OBVIOUS
  <2>2. U \in SUBSET Nat
    BY <2>1
  <2>3. U # {}
    OBVIOUS
  <2> QED
    BY <2>2, <2>3, Least
<1>2. PICK x \in T : u = z - x
  BY <1>1
<1>3. ASSUME NEW y \in T PROVE y <= x
  <2>1. z - x <= z - y
    BY <1>1, <1>2
  <2> QED
    BY <2>1
<1> QED
  BY <1>3

(* Bytes are counted character by character.                               *)
LEMMA BytesTyped ==
  ASSUME NEW s \in Seq(Char)
  PROVE  IsFiniteSet(Units(s)) /\ Bytes(s) \in Nat
<1> DEFINE of(i) == {i} \X (1..s[i].w)
           all == {of(i) : i \in 1..Len(s)}
<1>1. ASSUME NEW i \in 1..Len(s) PROVE s[i].w \in Nat
  <2>1. s[i] \in Char
    BY ElementOfSeq
  <2> QED
    BY <2>1 DEF Char
<1>2. ASSUME NEW i \in 1..Len(s) PROVE IsFiniteSet(of(i))
  <2>1. \A m \in Nat : IsFiniteSet(1..m)
    BY FS_Interval
  <2>2. IsFiniteSet(1..s[i].w)
    BY <1>1, <2>1
  <2> QED
    BY <2>2, FS_Singleton, FS_Product
<1>3. IsFiniteSet(all)
  <2>1. IsFiniteSet(1..Len(s))
    BY FS_Interval
  <2>2. [i \in 1..Len(s) |-> of(i)] \in Surjection(1..Len(s), all)
    BY DEF Surjection
  <2> QED
    BY <2>1, <2>2, FS_Surjection
<1>4. IsFiniteSet(UNION all)
  BY <1>2, <1>3, FS_UNION
<1> QED
  BY <1>4, FS_CardinalityType DEF Units, Bytes

LEMMA BytesAdd ==
  ASSUME NEW s \in Seq(Char), NEW t \in Seq(Char)
  PROVE  Bytes(s \o t) = Bytes(s) + Bytes(t)
<1> DEFINE z == Len(s)
           shifted == {<<z + u[1], u[2]>> : u \in Units(t)}
<1>1. /\ s \o t \in Seq(Char) /\ Len(s \o t) = z + Len(t)
      /\ \A i \in 1..(z + Len(t)) : (s \o t)[i] = IF i <= z THEN s[i] ELSE t[i - z]
  BY ConcatProperties
<1>2. Units(s \o t) = Units(s) \cup shifted
  <2>1. ASSUME NEW u \in Units(s \o t) PROVE u \in Units(s) \cup shifted
    <3>1. PICK i \in 1..(z + Len(t)) : u \in {i} \X (1..(s \o t)[i].w)
      BY <1>1 DEF Units
    <3>2. CASE i <= z
      <4>1. i \in 1..Len(s) /\ u \in {i} \X (1..s[i].w)
        BY <1>1, <3>1, <3>2
      <4> QED
        BY <4>1 DEF Units
    <3>3. CASE i > z
      <4>1. i - z \in 1..Len(t) /\ (s \o t)[i] = t[i - z]
        BY <1>1, <3>3
      <4>2. <<i - z, u[2]>> \in {i - z} \X (1..t[i - z].w)
        BY <3>1, <4>1
      <4>3. <<i - z, u[2]>> \in Units(t)
        BY <4>1, <4>2 DEF Units
      <4>4. u = <<z + <<i - z, u[2]>>[1], <<i - z, u[2]>>[2]>>
        BY <3>1
      <4> QED
        BY <4>3, <4>4
    <3> QED
      BY <3>2, <3>3
  <2>2. ASSUME NEW u \in Units(s) PROVE u \in Units(s \o t)
    <3>1. PICK i \in 1..Len(s) : u \in {i} \X (1..s[i].w)
      BY DEF Units
    <3>2. i \in 1..Len(s \o t) /\ (s \o t)[i] = s[i]
      BY <1>1
    <3> QED
      BY <3>1, <3>2 DEF Units
  <2>3. ASSUME NEW u \in Units(t) PROVE <<z + u[1], u[2]>> \in Units(s \o t)
    <3>1. PICK i \in 1..Len(t) : u \in {i} \X (1..t[i].w)
      BY DEF Units
    <3>2. z + i \in 1..Len(s \o t) /\ (s \o t)[z + i] = t[i]
      BY <1>1
    <3>3. <<z + u[1], u[2]>> \in {z + i} \X (1..(s \o t)[z + i].w)
      BY <3>1, <3>2
    <3> QED
      BY <3>2, <3>3 DEF Units
  <2> QED
    BY <2>1, <2>2, <2>3
<1>3. Units(s) \cap shifted = {}
  <2>1. \A u \in Units(s) : u[1] <= z
    BY DEF Units
  <2>2. \A u \in shifted : u[1] > z
    BY DEF Units
  <2>3. \A u \in Units(s) : u[1] \in Int
    BY DEF Units
  <2> QED
    BY <2>1, <2>2, <2>3
<1>4. IsFiniteSet(shifted) /\ Cardinality(shifted) = Cardinality(Units(t))
  <2> DEFINE f == [u \in Units(t) |-> <<z + u[1], u[2]>>]
  <2>1. ASSUME NEW u \in Units(t), NEW v \in Units(t), f[u] = f[v] PROVE u = v
    <3>1. u[1] \in Nat /\ v[1] \in Nat /\ u = <<u[1], u[2]>> /\ v = <<v[1], v[2]>>
      BY DEF Units
    <3>2. z + u[1] = z + v[1] /\ u[2] = v[2]
      BY <2>1
    <3> QED
      BY <3>1, <3>2
  <2>2. f \in Bijection(Units(t), shifted)
    BY <2>1 DEF Bijection, Injection, Surjection, IsInjective
  <2>3. ExistsBijection(Units(t), shifted)
    BY <2>2 DEF ExistsBijection
  <2> QED
    BY <2>3, BytesTyped, FS_Bijection
<1>5. IsFiniteSet(Units(s)) /\ Bytes(s) \in Nat /\ Bytes(t) \in Nat
  BY BytesTyped
<1>6. Cardinality(Units(s) \cup shifted)
        = Cardinality(Units(s)) + Cardinality(shifted) - Cardinality(Units(s) \cap shifted)
  BY <1>4, <1>5, FS_Union
<1>7. Cardinality(Units(s) \cap shifted) = 0
  BY <1>3, FS_EmptySet
<1> QED
  BY <1>2, <1>4, <1>5, <1>6, <1>7 DEF Bytes

(* The library flattens by a recursive function: here is that function.       *)
LEMMA Partials ==
  ASSUME NEW X, NEW seqs \in Seq(Seq(X))
  PROVE  \E f \in [0..Len(seqs) -> Seq(X)] :
           f[0] = <<>> /\ \A i \in 1..Len(seqs) : f[i] = f[i - 1] \o seqs[i]
<1> DEFINE z == Len(seqs)
           Y == Seq(X)
           Given(f, m) == f[0] = <<>> /\ \A i \in 1..m : f[i] = f[i - 1] \o seqs[i]
           Good(m) == \E f \in [0..m -> Y] : Given(f, m)
           good == {m \in 0..z : Good(m)}
<1>1. z \in Nat /\ \A i \in 1..z : seqs[i] \in Y
  BY ElementOfSeq
<1>2. Good(0)
  <2> WITNESS [i \in 0..0 |-> <<>>] \in [0..0 -> Y]
  <2> QED
    OBVIOUS
<1>3. ASSUME NEW m \in 1..z, Good(m - 1) PROVE Good(m)
  <2>1. PICK f \in [0..(m - 1) -> Y] : Given(f, m - 1)
    BY <1>3
  <2> DEFINE g == [i \in 0..m |-> IF i = m THEN f[m - 1] \o seqs[m] ELSE f[i]]
  <2>2. f[m - 1] \in Y
    BY <1>1
  <2>3. f[m - 1] \o seqs[m] \in Y
    BY <1>1, <2>2, ConcatProperties
  <2>4. g \in [0..m -> Y]
    BY <2>3
  <2>5. g[0] = <<>>
    BY <2>1
  <2>6. ASSUME NEW i \in 1..m PROVE g[i] = g[i - 1] \o seqs[i]
    <3>1. CASE i = m
      <4>1. m \in 0..m /\ m - 1 \in 0..m /\ m - 1 # m
        BY <1>1
      <4>2. g[m] = f[m - 1] \o seqs[m] /\ g[m - 1] = f[m - 1]
        BY <4>1
      <4> QED
        BY <3>1, <4>2
    <3>2. CASE i # m
      <4>1. i \in 1..(m - 1) /\ g[i] = f[i] /\ g[i - 1] = f[i - 1]
        BY <3>2
      <4>2. f[i] = f[i - 1] \o seqs[i]
        BY <2>1, <4>1
      <4> QED
        BY <4>1, <4>2
    <3> QED
      BY <3>1, <3>2
  <2>7. Given(g, m)
    BY <2>5, <2>6
  <2> HIDE DEF Given, g
  <2> QED
    BY <2>4, <2>7
<1>4. \A m \in 0..z : m \in good
  <2> HIDE DEF z, Good
  <2>1. 0 \in good
    BY <1>1, <1>2
  <2>2. ASSUME NEW m \in 1..z, m - 1 \in good PROVE m \in good
    BY <1>1, <1>3, <2>2
  <2> HIDE DEF good
  <2> QED
    BY <1>1, <2>1, <2>2, Climb
<1>5. Good(z)
  <2> HIDE DEF z, Good
  <2> QED
    BY <1>1, <1>4
<1> QED
  BY <1>5

LEMMA Flattened ==
  ASSUME NEW X, NEW seqs \in Seq(Seq(X))
  PROVE  \E f \in [0..Len(seqs) -> Seq(X)] :
           /\ f[0] = <<>> /\ \A i \in 1..Len(seqs) : f[i] = f[i - 1] \o seqs[i]
           /\ FlattenSeq(seqs) = f[Len(seqs)]
<1> DEFINE z == Len(seqs)
<1>1. z \in Nat /\ \A i \in 1..z : seqs[i] \in Seq(X)
  BY ElementOfSeq
<1>3. PICK f \in [0..z -> Seq(X)] :
        f[0] = <<>> /\ \A i \in 1..z : f[i] = f[i - 1] \o seqs[i]
  BY Partials
<1>4. ASSUME NEW i \in 1..z PROVE f[i] = f[i - 1] \o seqs[i]
  BY <1>3
<1> DEFINE Given(g) == g = [i \in 1..z |-> IF i = 1 THEN seqs[i] ELSE g[i - 1] \o seqs[i]]
           flat == CHOOSE g : Given(g)
<1>5. FlattenSeq(seqs) = IF z = 0 THEN seqs ELSE flat[z]
  BY DEF FlattenSeq
<1>6. Given([i \in 1..z |-> f[i]])
  <2> DEFINE e == [i \in 1..z |-> f[i]]
  <2>1. ASSUME NEW i \in 1..z PROVE e[i] = IF i = 1 THEN seqs[i] ELSE e[i - 1] \o seqs[i]
    <3>1. CASE i = 1
      <4>1. f[i] = f[i - 1] \o seqs[i]
        BY <1>4
      <4>2. seqs[i] \in Seq(X) /\ f[i - 1] = <<>>
        BY <1>1, <1>3, <3>1
      <4>3. f[i] = seqs[i]
        BY <4>1, <4>2, ConcatEmptySeq
      <4> QED
        BY <3>1, <4>3
    <3>2. CASE i # 1
      <4>1. i - 1 \in 1..z
        BY <1>1, <3>2
      <4> QED
        BY <1>4, <3>2, <4>1
    <3> QED
      BY <3>1, <3>2
  <2> QED
    BY <2>1
<1>7. Given(flat)
  <2> HIDE DEF Given
  <2> QED
    BY <1>6
<1> HIDE DEF flat
<1>8. \A i \in 1..z : flat[i] = IF i = 1 THEN seqs[i] ELSE flat[i - 1] \o seqs[i]
  BY <1>7, Zenon
<1> DEFINE same == {i \in 0..z : i = 0 \/ flat[i] = f[i]}
<1>9. \A i \in 0..z : i \in same
  <2>1. 0 \in same
    BY <1>1
  <2>2. ASSUME NEW i \in 1..z, i - 1 \in same PROVE i \in same
    <3>1. CASE i = 1
      <4>1. f[i] = f[i - 1] \o seqs[i]
        BY <1>4
      <4>2. seqs[i] \in Seq(X) /\ f[i - 1] = <<>>
        BY <1>1, <1>3, <3>1
      <4>3. f[i] = seqs[i]
        BY <4>1, <4>2, ConcatEmptySeq
      <4> QED
        BY <1>8, <3>1, <4>3
    <3>2. CASE i # 1
      <4>1. flat[i - 1] = f[i - 1]
        BY <2>2, <3>2
      <4>2. flat[i] = flat[i - 1] \o seqs[i] /\ f[i] = f[i - 1] \o seqs[i]
        BY <1>4, <1>8, <3>2
      <4>3. flat[i] = f[i] /\ i \in 0..z
        BY <1>1, <4>1, <4>2
      <4> QED
        BY <4>3
    <3> QED
      BY <3>1, <3>2
  <2> HIDE DEF same, z
  <2> QED
    BY <1>1, <2>1, <2>2, Climb
<1>10. FlattenSeq(seqs) = f[z]
  <2>1. CASE z = 0
    BY <1>3, <1>5, <2>1, EmptySeq
  <2>2. CASE z # 0
    BY <1>1, <1>5, <1>9, <2>2
  <2> QED
    BY <2>1, <2>2
<1> QED
  BY <1>3, <1>4, <1>10

LEMMA OwnTyped ==
  ASSUME NEW kind \in Kinds
  PROVE  /\ Own(kind) \in Seq(Char) /\ Len(Own(kind)) \in Nat /\ Len(Own(kind)) >= 2
         /\ Own(kind)[1] = OwnChar("break") /\ Own(kind)[2] = OwnChar(kind)
         /\ \A i \in 1..Len(Own(kind)) : Own(kind)[i].line = 0
<1> DEFINE z == Size[kind]
           c == OwnChar(kind)
           b == OwnChar("break")
           rest == [i \in 1..z |-> c]
<1>1. z \in Nat \ {0}
  BY DigestAssumption DEF Kinds
<1>2. c \in Char /\ b \in Char /\ c.line = 0 /\ b.line = 0
  BY DEF Kinds, Char, OwnChar
<1>3. Own(kind) = <<b>> \o rest
  BY DEF Own
<1> HIDE DEF z, c, b
<1>4. rest \in Seq(Char) /\ Len(rest) = z
  BY <1>1, <1>2
<1>5. <<b>> \in Seq(Char) /\ Len(<<b>>) = 1
  BY <1>2
<1> DEFINE o == <<b>> \o rest
<1>6. /\ o \in Seq(Char) /\ Len(o) = 1 + z
      /\ \A i \in 1..(1 + z) : o[i] = IF i <= 1 THEN <<b>>[i] ELSE rest[i - 1]
  <2> HIDE DEF rest
  <2> QED
    BY <1>4, <1>5, ConcatProperties
<1>7. o[1] = b /\ \A i \in 2..(1 + z) : o[i] = c
  BY <1>1, <1>6
<1>8. ASSUME NEW i \in 1..(1 + z) PROVE o[i].line = 0
  <2>1. o[i] = b \/ o[i] = c
    BY <1>1, <1>7
  <2> QED
    BY <1>2, <2>1
<1> HIDE DEF o
<1>9. Len(o) \in Nat /\ Len(o) >= 2 /\ o[2] = c
  BY <1>1, <1>6, <1>7
<1>10. Own(kind) = o
  BY <1>3 DEF o
<1> QED
  BY <1>6, <1>7, <1>8, <1>9, <1>10 DEF b, c

LEMMA PieceTyped ==
  ASSUME NEW text \in Seq(Seq(1..4)), NEW k \in 1..Len(text)
  PROVE  /\ text[k] \in Seq(1..4) /\ Len(text[k]) \in Nat
         /\ Chars(text, k) \in Seq(Char) /\ Len(Chars(text, k)) = Len(text[k])
         /\ \A i \in 1..Len(text[k]) : /\ Chars(text, k)[i] = RoomChar(k, text[k][i])
                                       /\ RoomChar(k, text[k][i]).line = k
         /\ RoomLine(text, k) \in Seq(Char)
<1>1. text[k] \in Seq(1..4)
  BY ElementOfSeq
<1> DEFINE m == Len(text[k])
<1>2. m \in Nat
  BY <1>1
<1>3. ASSUME NEW i \in 1..m PROVE RoomChar(k, text[k][i]) \in Char /\ RoomChar(k, text[k][i]).line = k
  <2>1. text[k][i] \in 1..4
    BY <1>1, ElementOfSeq
  <2> QED
    BY <2>1 DEF RoomChar, Char
<1>4. Chars(text, k) = [i \in 1..m |-> RoomChar(k, text[k][i])]
  BY DEF Chars
<1> HIDE DEF m
<1>5. Chars(text, k) \in Seq(Char) /\ Len(Chars(text, k)) = m
  BY <1>2, <1>3, <1>4
<1>6. <<OwnChar("break")>> \in Seq(Char)
  BY DEF OwnChar, Char, Kinds
<1>7. RoomLine(text, k) \in Seq(Char)
  BY <1>5, <1>6, ConcatProperties DEF RoomLine
<1> QED
  BY <1>1, <1>2, <1>3, <1>4, <1>5, <1>7 DEF m

(* What a concatenation, or a tail, keeps of a line and of a notice.         *)
LEMMA SaysConcat ==
  ASSUME NEW s \in Seq(Char), NEW t \in Seq(Char), NEW kind, Says(s, kind) \/ Says(t, kind)
  PROVE  Says(s \o t, kind)
<1>1. /\ Len(s) \in Nat /\ Len(t) \in Nat /\ Len(s \o t) = Len(s) + Len(t)
      /\ \A i \in 1..Len(s) + Len(t) :
           (s \o t)[i] = IF i <= Len(s) THEN s[i] ELSE t[i - Len(s)]
  BY ConcatProperties
<1>2. CASE Says(s, kind)
  <2>1. PICK i \in 1..Len(s) : s[i].own = kind
    BY <1>2 DEF Says
  <2>2. i \in 1..Len(s \o t) /\ (s \o t)[i] = s[i]
    BY <1>1
  <2> QED
    BY <2>1, <2>2 DEF Says
<1>3. CASE Says(t, kind)
  <2>1. PICK i \in 1..Len(t) : t[i].own = kind
    BY <1>3 DEF Says
  <2>2. /\ Len(s) + i \in 1..Len(s \o t) /\ ~ (Len(s) + i <= Len(s))
        /\ (Len(s) + i) - Len(s) = i
    BY <1>1
  <2>3. (s \o t)[Len(s) + i] = t[i]
    BY <1>1, <2>2
  <2> QED
    BY <2>1, <2>2, <2>3 DEF Says
<1> QED
  BY <1>2, <1>3

LEMMA SaysTail ==
  ASSUME NEW s \in Seq(Char), s # <<>>, NEW kind, s[1].own # kind, Says(s, kind)
  PROVE  Says(Tail(s), kind)
<1>1. PICK i \in 1..Len(s) : s[i].own = kind
  BY DEF Says
<1>2. /\ Len(s) \in Nat /\ Len(Tail(s)) = Len(s) - 1
      /\ \A j \in 1..Len(Tail(s)) : Tail(s)[j] = s[j + 1]
  BY HeadTailProperties
<1>3. i # 1
  BY <1>1
<1>4. i - 1 \in 1..Len(Tail(s)) /\ Tail(s)[i - 1] = s[i]
  BY <1>2, <1>3
<1> QED
  BY <1>1, <1>4 DEF Says

LEMMA CharByChar ==
  ASSUME NEW s \in Seq(Char), NEW text \in Seq(Seq(1..4)), NEW k \in 1..Len(text),
         NEW at \in 0..(Len(s) - Len(text[k]))
  PROVE  SubSeq(s, at + 1, at + Len(text[k])) = Chars(text, k)
           <=> \A i \in 1..Len(text[k]) : s[at + i] = RoomChar(k, text[k][i])
<1> DEFINE m == Len(text[k])
           u == SubSeq(s, at + 1, at + m)
<1>1. /\ m \in Nat /\ Chars(text, k) \in Seq(Char) /\ Len(Chars(text, k)) = m
      /\ \A i \in 1..m : Chars(text, k)[i] = RoomChar(k, text[k][i])
  BY PieceTyped
<1>2. \A i \in (at + 1)..(at + m) : s[i] \in Char
  <2>1. ASSUME NEW i \in (at + 1)..(at + m) PROVE s[i] \in Char
    <3>1. Len(s) \in Nat
      OBVIOUS
    <3>2. i \in 1..Len(s)
      BY <1>1, <3>1
    <3> QED
      BY <3>2, ElementOfSeq
  <2> QED
    BY <2>1
<1>3. /\ u \in Seq(Char)
      /\ Len(u) = IF at + 1 <= at + m THEN at + m - (at + 1) + 1 ELSE 0
      /\ \A i \in 1..at + m - (at + 1) + 1 : u[i] = s[at + 1 + i - 1]
  <2> DEFINE p == at + 1
             q == at + m
  <2>1. p \in Int /\ q \in Int
    BY <1>1
  <2>2. \A i \in p..q : s[i] \in Char
    BY <1>2
  <2> HIDE DEF m, p, q
  <2>3. /\ SubSeq(s, p, q) \in Seq(Char)
        /\ Len(SubSeq(s, p, q)) = IF p <= q THEN q - p + 1 ELSE 0
        /\ \A i \in 1..q - p + 1 : SubSeq(s, p, q)[i] = s[p + i - 1]
    BY <2>1, <2>2, SubSeqProperties
  <2> QED
    BY <2>3 DEF p, q, m
<1>4. Len(u) = m
  BY <1>1, <1>3
<1>5. ASSUME NEW i \in 1..m PROVE u[i] = s[at + i]
  <2>1. i \in 1..at + m - (at + 1) + 1 /\ at + 1 + i - 1 = at + i
    BY <1>1
  <2> HIDE DEF u, m
  <2> QED
    BY <1>3, <2>1
<1> HIDE DEF u, m
<1>6. u = Chars(text, k) <=> \A i \in 1..m : u[i] = Chars(text, k)[i]
  BY <1>1, <1>3, <1>4, SeqEqual
<1>7. u = Chars(text, k) <=> \A i \in 1..m : s[at + i] = RoomChar(k, text[k][i])
  BY <1>1, <1>5, <1>6
<1> QED
  BY <1>7, Zenon DEF u, m

(* InFull in terms of single characters.                                   *)
Holds(s, text, k, at) ==
  /\ at \in 0..(Len(s) - Len(text[k]))
  /\ \A i \in 1..Len(text[k]) : s[at + i] = RoomChar(k, text[k][i])
  /\ \A i \in 1..Len(s) : s[i].line = k => i \in (at + 1)..(at + Len(text[k]))

LEMMA FullIsHolds ==
  ASSUME NEW s \in Seq(Char), NEW text \in Seq(Seq(1..4)), NEW k \in 1..Len(text)
  PROVE  InFull(s, text, k) <=> \E at : Holds(s, text, k, at)
<1>1. ASSUME NEW at \in 0..(Len(s) - Len(text[k]))
      PROVE  SubSeq(s, at + 1, at + Len(text[k])) = Chars(text, k)
               <=> \A i \in 1..Len(text[k]) : s[at + i] = RoomChar(k, text[k][i])
  BY CharByChar
<1> QED
  BY <1>1, Zenon DEF InFull, Holds

LEMMA FullConcat ==
  ASSUME NEW s \in Seq(Char), NEW t \in Seq(Char), NEW text \in Seq(Seq(1..4)),
         NEW k \in 1..Len(text),
         \/ (InFull(s, text, k) /\ \A i \in 1..Len(t) : t[i].line # k)
         \/ (InFull(t, text, k) /\ \A i \in 1..Len(s) : s[i].line # k)
  PROVE  InFull(s \o t, text, k)
<1> DEFINE m == Len(text[k])
           a == Len(s)
           b == Len(t)
           u == s \o t
<1>1. /\ u \in Seq(Char) /\ Len(u) = a + b
      /\ \A i \in 1..a + b : u[i] = IF i <= a THEN s[i] ELSE t[i - a]
  BY ConcatProperties
<1>2. m \in Nat /\ a \in Nat /\ b \in Nat
  BY PieceTyped
<1>3. (\A i \in 1..a : u[i] = s[i]) /\ \A i \in 1..b : u[a + i] = t[i]
  <2>1. ASSUME NEW i \in 1..a PROVE u[i] = s[i]
    <3>1. i \in 1..a + b /\ i <= a
      BY <1>2
    <3> QED
      BY <1>1, <3>1
  <2>2. ASSUME NEW i \in 1..b PROVE u[a + i] = t[i]
    <3>1. a + i \in 1..a + b /\ ~ (a + i <= a) /\ (a + i) - a = i
      BY <1>2
    <3> QED
      BY <1>1, <3>1
  <2> QED
    BY <2>1, <2>2
<1>4. ASSUME NEW i \in 1..a + b PROVE i \in 1..a \/ (i - a \in 1..b /\ u[i] = t[i - a])
  <2>1. i <= a => i \in 1..a
    BY <1>2
  <2>2. ~ (i <= a) => i - a \in 1..b
    BY <1>2
  <2>3. u[i] = IF i <= a THEN s[i] ELSE t[i - a]
    BY <1>1
  <2> HIDE DEF a, b, u
  <2> QED
    BY <2>1, <2>2, <2>3
<1> HIDE DEF m, a, b, u
<1>5. CASE InFull(s, text, k) /\ \A i \in 1..b : t[i].line # k
  <2>1. PICK at : Holds(s, text, k, at)
    BY <1>5, FullIsHolds
  <2>2. at \in Int /\ at \in 0..(a - m) /\ at \in 0..((a + b) - m)
    BY <1>2, <2>1 DEF Holds, a, m
  <2>3. ASSUME NEW i \in 1..m PROVE u[at + i] = RoomChar(k, text[k][i])
    <3>1. at + i \in 1..a
      BY <1>2, <2>2
    <3> QED
      BY <1>3, <2>1, <3>1 DEF Holds, m
  <2>4. ASSUME NEW i \in 1..a + b, u[i].line = k PROVE i \in (at + 1)..(at + m)
    <3>1. i \in 1..a
      BY <1>4, <1>5, <2>4
    <3> QED
      BY <1>3, <2>1, <2>4, <3>1 DEF Holds, m, a
  <2>5. Holds(u, text, k, at)
    BY <1>1, <2>2, <2>3, <2>4 DEF Holds, m
  <2> QED
    BY <1>1, <2>5, FullIsHolds DEF u
<1>6. CASE InFull(t, text, k) /\ \A i \in 1..a : s[i].line # k
  <2>1. PICK at : Holds(t, text, k, at)
    BY <1>6, FullIsHolds
  <2>2. at \in Int /\ at \in 0..(b - m)
    BY <1>2, <2>1 DEF Holds, b, m
  <2>6. a + at \in 0..((a + b) - m)
    BY <1>2, <2>2
  <2>3. ASSUME NEW i \in 1..m PROVE u[a + at + i] = RoomChar(k, text[k][i])
    <3>1. at + i \in 1..b /\ a + at + i = a + (at + i)
      BY <1>2, <2>2
    <3> QED
      BY <1>3, <2>1, <3>1 DEF Holds, m
  <2>4. ASSUME NEW i \in 1..a + b, u[i].line = k PROVE i \in (a + at + 1)..(a + at + m)
    <3>1. i - a \in 1..b /\ u[i] = t[i - a]
      BY <1>3, <1>4, <1>6, <2>4
    <3>2. i - a \in (at + 1)..(at + m)
      BY <2>1, <2>4, <3>1 DEF Holds, m, b
    <3> QED
      BY <1>2, <2>2, <3>2
  <2>5. Holds(u, text, k, a + at)
    BY <1>1, <2>3, <2>4, <2>6 DEF Holds, m
  <2> QED
    BY <1>1, <2>5, FullIsHolds DEF u
<1> QED
  BY <1>5, <1>6 DEF a, b

LEMMA FullTail ==
  ASSUME NEW s \in Seq(Char), s # <<>>, NEW text \in Seq(Seq(1..4)), NEW k \in 1..Len(text),
         text[k] # <<>>, s[1].line # k, InFull(s, text, k)
  PROVE  InFull(Tail(s), text, k)
<1> DEFINE m == Len(text[k])
           a == Len(s)
           u == Tail(s)
<1>1. /\ a \in Nat /\ u \in Seq(Char) /\ Len(u) = a - 1
      /\ \A i \in 1..(a - 1) : u[i] = s[i + 1]
  BY HeadTailProperties
<1>2. m \in Nat /\ m >= 1
  BY PieceTyped, EmptySeq
<1>3. PICK at : Holds(s, text, k, at)
  BY FullIsHolds
<1>4. RoomChar(k, text[k][1]).line = k
  BY DEF RoomChar
<1> HIDE DEF m, a, u
<1>5. at \in Int /\ at \in 0..(a - m)
  BY <1>1, <1>2, <1>3 DEF Holds, a, m
<1>6. at # 0
  <2>1. s[at + 1] = RoomChar(k, text[k][1])
    BY <1>2, <1>3 DEF Holds, m
  <2> QED
    BY <1>4, <2>1
<1>7. at - 1 \in 0..((a - 1) - m)
  BY <1>1, <1>2, <1>5, <1>6
<1>8. ASSUME NEW i \in 1..m PROVE u[(at - 1) + i] = RoomChar(k, text[k][i])
  <2>1. (at - 1) + i \in 1..(a - 1) /\ ((at - 1) + i) + 1 = at + i
    BY <1>1, <1>2, <1>5, <1>6
  <2>2. u[(at - 1) + i] = s[at + i]
    BY <1>1, <2>1
  <2> QED
    BY <1>3, <2>2 DEF Holds, m
<1>9. ASSUME NEW i \in 1..(a - 1), u[i].line = k PROVE i \in ((at - 1) + 1)..((at - 1) + m)
  <2>1. i + 1 \in 1..a /\ s[i + 1].line = k
    BY <1>1, <1>9
  <2>2. i + 1 \in (at + 1)..(at + m)
    BY <1>3, <2>1 DEF Holds, m, a
  <2> QED
    BY <1>2, <1>5, <2>2
<1>10. Holds(u, text, k, at - 1)
  BY <1>1, <1>7, <1>8, <1>9 DEF Holds, m
<1> QED
  BY <1>1, <1>10, FullIsHolds DEF u

LEMMA FullAlone ==
  ASSUME NEW text \in Seq(Seq(1..4)), NEW k \in 1..Len(text)
  PROVE  InFull(RoomLine(text, k), text, k)
<1> DEFINE m == Len(text[k])
           c == Chars(text, k)
<1>1. /\ m \in Nat /\ c \in Seq(Char) /\ Len(c) = m
      /\ \A i \in 1..m : c[i] = RoomChar(k, text[k][i])
  BY PieceTyped
<1> HIDE DEF m, c
<1>2. 0 \in 0..(Len(c) - m)
  BY <1>1
<1>3. \A i \in 1..m : c[0 + i] = RoomChar(k, text[k][i])
  BY <1>1
<1>4. \A i \in 1..Len(c) : i \in (0 + 1)..(0 + m)
  BY <1>1
<1>5. Holds(c, text, k, 0)
  BY <1>2, <1>3, <1>4 DEF Holds, m
<1>6. InFull(c, text, k)
  BY <1>1, <1>5, FullIsHolds
<1>7. OwnChar("break") \in Char /\ OwnChar("break").line # k
  BY DEF OwnChar, Char, Kinds
<1>8. <<OwnChar("break")>> \in Seq(Char) /\ \A i \in 1..1 : <<OwnChar("break")>>[i].line # k
  BY <1>7
<1>9. InFull(<<OwnChar("break")>> \o c, text, k)
  BY <1>1, <1>6, <1>8, FullConcat
<1> QED
  BY <1>9 DEF RoomLine, c

LEMMA LinesOfPiece ==
  ASSUME NEW text \in Seq(Seq(1..4)), NEW k \in 1..Len(text)
  PROVE  \A i \in 1..Len(RoomLine(text, k)) : RoomLine(text, k)[i].line \in {0, k}
<1> DEFINE b == OwnChar("break")
           c == Chars(text, k)
<1>1. /\ c \in Seq(Char) /\ Len(c) \in Nat
      /\ \A i \in 1..Len(c) : c[i].line = k
  BY PieceTyped
<1>2. b \in Char /\ b.line = 0
  BY DEF OwnChar, Char, Kinds
<1> HIDE DEF b, c
<1>3. <<b>> \in Seq(Char) /\ Len(<<b>>) = 1 /\ <<b>>[1] = b
  BY <1>2
<1> DEFINE u == <<b>> \o c
<1>4. /\ Len(u) = 1 + Len(c)
      /\ \A i \in 1..1 + Len(c) : u[i] = IF i <= 1 THEN <<b>>[i] ELSE c[i - 1]
  BY <1>1, <1>3, ConcatProperties
<1>5. ASSUME NEW i \in 1..Len(u) PROVE u[i].line \in {0, k}
  <2> HIDE DEF u
  <2>1. CASE i = 1
    BY <1>1, <1>2, <1>3, <1>4, <2>1
  <2>2. CASE i # 1
    <3>1. i \in 1..1 + Len(c) /\ ~ (i <= 1) /\ i - 1 \in 1..Len(c)
      BY <1>1, <1>4, <2>2
    <3>2. u[i] = c[i - 1]
      BY <1>4, <3>1
    <3> QED
      BY <1>1, <3>1, <3>2
  <2> QED
    BY <2>1, <2>2
<1>6. RoomLine(text, k) = u
  BY DEF RoomLine, b, c
<1> QED
  BY <1>5, <1>6

(* Every line the line cap keeps is whole among the lines of the room.       *)
LEMMA LinesInFull ==
  ASSUME NEW text \in Seq(Seq(1..4))
  PROVE  Lines(text) \in Seq(Char) /\ \A k \in Shown(text) : InFull(Lines(text), text, k)
<1> DEFINE z == Len(text)
           piece == [k \in 1..z |-> IF k \in Shown(text) THEN RoomLine(text, k) ELSE <<>>]
<1>1. z \in Nat
  OBVIOUS
<1>2. ASSUME NEW k \in 1..z PROVE piece[k] \in Seq(Char)
  <2>1. RoomLine(text, k) \in Seq(Char) /\ <<>> \in Seq(Char)
    BY PieceTyped
  <2> QED
    BY <2>1
<1>3. piece \in Seq(Seq(Char)) /\ Len(piece) = z
  <2> HIDE DEF z
  <2> QED
    BY <1>1, <1>2
<1>4. Lines(text) = FlattenSeq(piece)
  BY DEF Lines
<1>5. ASSUME NEW k \in 1..z, NEW i \in 1..Len(piece[k]) PROVE piece[k][i].line \in {0, k}
  <2>1. CASE k \in Shown(text)
    <3>1. piece[k] = RoomLine(text, k)
      BY <2>1
    <3> QED
      BY <3>1, LinesOfPiece
  <2>2. CASE k \notin Shown(text)
    <3>1. piece[k] = <<>> /\ Len(<<>>) = 0
      BY <2>2
    <3> QED
      BY <3>1
  <2> QED
    BY <2>1, <2>2
<1>6. ASSUME NEW k \in 1..z, k \in Shown(text) PROVE InFull(piece[k], text, k)
  BY <1>6, FullAlone
<1> HIDE DEF piece, z
<1>7. PICK f \in [0..z -> Seq(Char)] :
        /\ f[0] = <<>> /\ \A i \in 1..z : f[i] = f[i - 1] \o piece[i]
        /\ FlattenSeq(piece) = f[z]
  BY <1>3, Flattened
<1> DEFINE Low(i) == \A j \in 1..Len(f[i]) : f[i][j].line \in 0..i
           Full(i) == \A k \in 1..i : k \in Shown(text) => InFull(f[i], text, k)
           good == {i \in 0..z : Low(i) /\ Full(i)}
<1>8. 0 \in good
  BY <1>1, <1>7
<1>9. ASSUME NEW i \in 1..z, i - 1 \in good PROVE i \in good
  <2> DEFINE s == f[i - 1]
             t == piece[i]
             u == s \o t
  <2>1. s \in Seq(Char) /\ t \in Seq(Char) /\ f[i] = u /\ i \in Nat /\ i \in 0..z
    <3>1. i \in Nat /\ i \in 0..z /\ i - 1 \in 0..z
      BY <1>1
    <3>2. f[i] = f[i - 1] \o piece[i]
      BY <1>7
    <3> QED
      BY <1>2, <1>7, <3>1, <3>2
  <2>2. /\ Len(s) \in Nat /\ Len(t) \in Nat
        /\ \A j \in 1..Len(s) : s[j].line \in 0..(i - 1)
        /\ \A j \in 1..Len(t) : t[j].line \in {0, i}
        /\ \A k \in 1..(i - 1) : k \in Shown(text) => InFull(s, text, k)
    BY <1>5, <1>9, <2>1
  <2>3. i \in Shown(text) => InFull(t, text, i)
    BY <1>6
  <2>4. /\ Len(u) = Len(s) + Len(t)
        /\ \A j \in 1..Len(s) + Len(t) : u[j] = IF j <= Len(s) THEN s[j] ELSE t[j - Len(s)]
    BY <2>1, ConcatProperties
  <2> HIDE DEF s, t, u, good
  <2>5. ASSUME NEW j \in 1..Len(u) PROVE u[j].line \in 0..i
    <3>1. j \in 1..Len(s) + Len(t)
      BY <2>4
    <3>2. CASE j <= Len(s)
      <4>1. j \in 1..Len(s) /\ u[j] = s[j]
        BY <2>2, <2>4, <3>1, <3>2
      <4>2. s[j].line \in 0..(i - 1)
        BY <2>2, <4>1
      <4> QED
        BY <2>1, <4>1, <4>2
    <3>3. CASE ~ (j <= Len(s))
      <4>1. j - Len(s) \in 1..Len(t)
        BY <2>2, <3>1, <3>3
      <4>2. u[j] = t[j - Len(s)]
        BY <2>4, <3>1, <3>3
      <4>3. t[j - Len(s)].line \in {0, i}
        BY <2>2, <4>1
      <4> QED
        BY <2>1, <4>2, <4>3
    <3> QED
      BY <3>2, <3>3
  <2>6. ASSUME NEW k \in 1..i, k \in Shown(text) PROVE InFull(u, text, k)
    <3>0. k \in 1..Len(text)
      BY <1>1 DEF z
    <3>1. CASE k = i
      <4>1. \A j \in 1..Len(s) : s[j].line # k
        BY <2>1, <2>2, <3>1
      <4> QED
        BY <2>1, <2>3, <2>6, <3>0, <3>1, <4>1, FullConcat DEF u
    <3>2. CASE k # i
      <4>1. k \in 1..(i - 1) /\ k # 0
        BY <2>1, <3>2
      <4>2. \A j \in 1..Len(t) : t[j].line # k
        BY <2>2, <3>2, <4>1
      <4>3. InFull(s, text, k)
        BY <2>2, <2>6, <4>1
      <4> QED
        BY <2>1, <3>0, <4>2, <4>3, FullConcat DEF u
    <3> QED
      BY <3>1, <3>2
  <2> QED
    BY <2>1, <2>5, <2>6 DEF good
<1>10. \A i \in 0..z : i \in good
  <2> HIDE DEF good
  <2> QED
    BY <1>1, <1>8, <1>9, Climb
<1>11. z \in good /\ f[z] \in Seq(Char)
  BY <1>1, <1>7, <1>10
<1>12. Shown(text) \subseteq 1..z
  BY DEF Shown, Newest, Body, z
<1> QED
  BY <1>4, <1>7, <1>11, <1>12

(* A line that the line cap drops has a full cap of kept ones after it.      *)
LEMMA OutForNewer ==
  ASSUME NEW text \in Seq(Seq(1..4)), NEW k \in Body(text), k \notin Shown(text)
  PROVE  /\ Cut(text)
         /\ \E later \in SUBSET {j \in Shown(text) : j > k} : Cardinality(later) >= DigestMaxLines
<1>1. Cut(text) /\ Shown(text) = Newest(text)
  BY DEF Shown
<1> DEFINE z == Len(text)
           out == {j \in Body(text) : j \notin Newest(text)}
<1>2. z \in Nat /\ Body(text) \subseteq 1..z /\ DigestMaxLines \in Nat
  BY DigestAssumption DEF Body
<1>3. out \in SUBSET (0..z) /\ k \in out
  BY <1>1, <1>2
<1>4. PICK m \in out : \A j \in out : j <= m
  <2> HIDE DEF out, z
  <2> QED
    BY <1>2, <1>3, Greatest
<1> DEFINE later == {j \in Body(text) : j > m}
<1>5. Cardinality(later) \in Nat
  <2>1. IsFiniteSet(1..z)
    BY <1>2, FS_Interval
  <2>2. later \in SUBSET (1..z)
    BY <1>2
  <2> HIDE DEF later, z
  <2> QED
    BY <2>1, <2>2, FS_Subset, FS_CardinalityType
<1>6. Cardinality(later) >= DigestMaxLines
  <2>1. m \in Body(text) /\ m \notin Newest(text)
    BY <1>4
  <2>2. ~ (Cardinality(later) < DigestMaxLines)
    BY <2>1 DEF Newest
  <2> HIDE DEF later
  <2> QED
    BY <1>2, <1>5, <2>2
<1>7. ASSUME NEW j \in later PROVE j \in Newest(text) /\ j > k
  <2>1. m \in Int /\ j \in Int /\ k \in Int /\ j > m /\ k <= m
    BY <1>2, <1>3, <1>4
  <2>2. j \notin out
    BY <1>4, <2>1
  <2> QED
    BY <2>1, <2>2
<1>8. later \in SUBSET {j \in Shown(text) : j > k}
  BY <1>1, <1>7
<1> QED
  BY <1>1, <1>6, <1>8

(* The client's own lines before those of the room.                         *)
Heading(text, dropped) ==
  Own("name") \o (IF dropped THEN Own("dropped") ELSE <<>>)
              \o (IF Cut(text) THEN Own("cut") ELSE <<>>)

Foreign(s) == \A i \in 1..Len(s) : s[i].line = 0

LEMMA ForeignConcat ==
  ASSUME NEW s \in Seq(Char), NEW t \in Seq(Char), Foreign(s), Foreign(t)
  PROVE  Foreign(s \o t)
<1>1. /\ Len(s) \in Nat /\ Len(t) \in Nat /\ Len(s \o t) = Len(s) + Len(t)
      /\ \A i \in 1..Len(s) + Len(t) :
           (s \o t)[i] = IF i <= Len(s) THEN s[i] ELSE t[i - Len(s)]
  BY ConcatProperties
<1>2. ASSUME NEW i \in 1..Len(s \o t) PROVE (s \o t)[i].line = 0
  <2>1. CASE i <= Len(s)
    BY <1>1, <2>1 DEF Foreign
  <2>2. CASE ~ (i <= Len(s))
    <3>1. i - Len(s) \in 1..Len(t) /\ (s \o t)[i] = t[i - Len(s)]
      BY <1>1, <2>2
    <3> QED
      BY <3>1 DEF Foreign
  <2> QED
    BY <2>1, <2>2
<1> QED
  BY <1>2 DEF Foreign

LEMMA FirstOfConcat ==
  ASSUME NEW s \in Seq(Char), NEW t \in Seq(Char), Len(s) >= 1
  PROVE  s \o t # <<>> /\ Len(s \o t) >= 1 /\ (s \o t)[1] = s[1]
<1>1. /\ Len(s) \in Nat /\ Len(t) \in Nat /\ Len(s \o t) = Len(s) + Len(t)
      /\ \A i \in 1..Len(s) + Len(t) :
           (s \o t)[i] = IF i <= Len(s) THEN s[i] ELSE t[i - Len(s)]
  BY ConcatProperties
<1>2. 1 \in 1..Len(s) + Len(t) /\ Len(s) + Len(t) >= 1 /\ Len(<<>>) = 0
  BY <1>1
<1> QED
  BY <1>1, <1>2

LEMMA OwnSays ==
  ASSUME NEW kind \in Kinds
  PROVE  Says(Own(kind), kind) /\ Foreign(Own(kind))
<1>1. /\ Len(Own(kind)) \in Nat /\ Len(Own(kind)) >= 2 /\ Own(kind)[2] = OwnChar(kind)
      /\ \A i \in 1..Len(Own(kind)) : Own(kind)[i].line = 0
  BY OwnTyped
<1>2. 2 \in 1..Len(Own(kind)) /\ OwnChar(kind).own = kind
  BY <1>1 DEF OwnChar
<1> QED
  BY <1>1, <1>2 DEF Says, Foreign

LEMMA HeadingIs ==
  ASSUME NEW text, NEW dropped \in BOOLEAN
  PROVE  LET h == Heading(text, dropped)
         IN  /\ h \in Seq(Char) /\ Len(h) >= 1 /\ h[1] = OwnChar("break") /\ Foreign(h)
             /\ (dropped => Says(h, "dropped")) /\ (Cut(text) => Says(h, "cut"))
<1> DEFINE a == Own("name")
           b == IF dropped THEN Own("dropped") ELSE <<>>
           c == IF Cut(text) THEN Own("cut") ELSE <<>>
<1>0. "name" \in Kinds /\ "dropped" \in Kinds /\ "cut" \in Kinds
  BY DEF Kinds
<1>1. a \in Seq(Char) /\ Len(a) >= 1 /\ a[1] = OwnChar("break") /\ Foreign(a)
  BY <1>0, OwnTyped, OwnSays
<1>2. <<>> \in Seq(Char) /\ Foreign(<<>>)
  BY DEF Foreign
<1>3. b \in Seq(Char) /\ Foreign(b) /\ (dropped => Says(b, "dropped"))
  BY <1>0, <1>2, OwnTyped, OwnSays
<1>4. c \in Seq(Char) /\ Foreign(c) /\ (Cut(text) => Says(c, "cut"))
  BY <1>0, <1>2, OwnTyped, OwnSays
<1>5. Heading(text, dropped) = (a \o b) \o c
  BY DEF Heading
<1> HIDE DEF a, b, c
<1>6. /\ a \o b \in Seq(Char) /\ Len(a \o b) >= 1 /\ (a \o b)[1] = OwnChar("break")
      /\ Foreign(a \o b) /\ (dropped => Says(a \o b, "dropped"))
  BY <1>1, <1>3, ConcatProperties, FirstOfConcat, ForeignConcat, SaysConcat
<1> DEFINE d == a \o b
<1> HIDE DEF d
<1>7. /\ d \o c \in Seq(Char) /\ Len(d \o c) >= 1 /\ (d \o c)[1] = OwnChar("break")
      /\ Foreign(d \o c) /\ (dropped => Says(d \o c, "dropped"))
      /\ (Cut(text) => Says(d \o c, "cut"))
  BY <1>4, <1>6, ConcatProperties, FirstOfConcat, ForeignConcat, SaysConcat DEF d
<1> QED
  BY <1>5, <1>7 DEF d

(* The digest before the byte cap.                                         *)
LEMMA WholeIs ==
  ASSUME NEW text \in Seq(Seq(1..4)), NEW dropped \in BOOLEAN
  PROVE  /\ Whole(text, dropped) \in Seq(Char)
         /\ dropped => Says(Whole(text, dropped), "dropped")
         /\ Cut(text) => Says(Whole(text, dropped), "cut")
         /\ \A k \in Shown(text) : InFull(Whole(text, dropped), text, k)
<1> DEFINE h == Heading(text, dropped)
           l == Lines(text)
           s == h \o l
<1>1. /\ h \in Seq(Char) /\ Len(h) >= 1 /\ h[1] = OwnChar("break") /\ Foreign(h)
      /\ (dropped => Says(h, "dropped")) /\ (Cut(text) => Says(h, "cut"))
  BY HeadingIs
<1>2. l \in Seq(Char) /\ \A k \in Shown(text) : InFull(l, text, k)
  BY LinesInFull
<1>3. Whole(text, dropped) = Tail(s)
  BY DEF Whole, Heading
<1> HIDE DEF h, l
<1>4. /\ s \in Seq(Char) /\ s # <<>> /\ s[1] = OwnChar("break")
      /\ (dropped => Says(s, "dropped")) /\ (Cut(text) => Says(s, "cut"))
  BY <1>1, <1>2, ConcatProperties, FirstOfConcat, SaysConcat
<1>5. ASSUME NEW k \in Shown(text) PROVE InFull(s, text, k)
  <2>1. k \in 1..Len(text) /\ k # 0
    BY DEF Shown, Newest, Body
  <2>2. \A i \in 1..Len(h) : h[i].line # k
    BY <1>1, <2>1 DEF Foreign
  <2> QED
    BY <1>1, <1>2, <2>1, <2>2, FullConcat
<1> HIDE DEF s
<1>6. s[1].line = 0 /\ s[1].own # "dropped" /\ s[1].own # "cut"
  BY <1>4 DEF OwnChar
<1>7. Tail(s) \in Seq(Char)
  BY <1>4, HeadTailProperties
<1>8. (dropped => Says(Tail(s), "dropped")) /\ (Cut(text) => Says(Tail(s), "cut"))
  BY <1>4, <1>6, SaysTail
<1>9. ASSUME NEW k \in Shown(text) PROVE InFull(Tail(s), text, k)
  <2>1. k \in 1..Len(text) /\ k # 0 /\ text[k] # <<>>
    BY DEF Shown, Newest, Body
  <2>2. s[1].line # k
    BY <1>6, <2>1
  <2> QED
    BY <1>4, <1>5, <2>1, <2>2, FullTail
<1> QED
  BY <1>3, <1>7, <1>8, <1>9

(* The byte cap: a text that fits is left alone, one that does not is cut     *)
(* to fit and says so.                                                     *)
LEMMA BoundedIs ==
  ASSUME NEW s \in Seq(Char), NEW budget \in Nat
  PROVE  /\ Bounded(s, budget) \in Seq(Char)
         /\ \/ Bounded(s, budget) = s /\ Bytes(s) <= budget
            \/ /\ Says(Bounded(s, budget), "note")
               /\ Bytes(Bounded(s, budget)) <= budget + Bytes(Own("note"))
<1>1. CASE Bytes(s) <= budget
  BY <1>1 DEF Bounded
<1>2. CASE ~ (Bytes(s) <= budget)
  <2> DEFINE z == Len(s)
             head(i) == SubSeq(s, 1, i)
             fits == {i \in 0..z : Bytes(head(i)) <= budget}
             best == CHOOSE i \in fits : \A j \in fits : j <= i
             note == Own("note")
  <2>1. z \in Nat
    OBVIOUS
  <2>2. ASSUME NEW i \in 0..z PROVE head(i) \in Seq(Char)
    BY <2>2
  <2>3. 0 \in fits
    <3>1. head(0) = <<>>
      BY SubSeqEmpty
    <3>2. Units(<<>>) = {}
      BY DEF Units
    <3>3. Bytes(head(0)) = 0
      BY <3>1, <3>2, FS_EmptySet DEF Bytes
    <3> HIDE DEF head
    <3> QED
      BY <2>1, <3>3
  <2>4. \E i \in fits : \A j \in fits : j <= i
    <3>1. fits \in SUBSET (0..z) /\ fits # {}
      BY <2>3
    <3> HIDE DEF fits, z
    <3> QED
      BY <2>1, <3>1, Greatest
  <2>5. best \in fits
    <3> HIDE DEF fits
    <3> QED
      BY <2>4
  <2>6. Bounded(s, budget) = head(best) \o note
    BY <1>2 DEF Bounded
  <2> HIDE DEF head, best, note
  <2>7. head(best) \in Seq(Char) /\ Bytes(head(best)) \in Nat /\ Bytes(head(best)) <= budget
    BY <2>2, <2>5, BytesTyped
  <2>8. note \in Seq(Char) /\ Bytes(note) \in Nat /\ Says(note, "note")
    <3>1. "note" \in Kinds
      BY DEF Kinds
    <3> QED
      BY <3>1, OwnTyped, OwnSays, BytesTyped DEF note
  <2>9. head(best) \o note \in Seq(Char) /\ Says(head(best) \o note, "note")
    BY <2>7, <2>8, ConcatProperties, SaysConcat
  <2>10. Bytes(head(best) \o note) = Bytes(head(best)) + Bytes(note)
    BY <2>7, <2>8, BytesAdd
  <2>11. Bytes(head(best) \o note) <= budget + Bytes(note)
    BY <2>7, <2>8, <2>10
  <2> QED
    BY <2>6, <2>9, <2>11 DEF note
<1> QED
  BY <1>1, <1>2

(* What compose_digest() returns: the bounded text, then the hint.           *)
LEMMA ComposeIs ==
  ASSUME NEW text \in Seq(Seq(1..4)), NEW dropped \in BOOLEAN
  PROVE  \E s \in Seq(Char), room \in Nat :
           /\ Compose(text, dropped) = s \o Own("hint")
           /\ room + Bytes(Own("hint")) = DigestMaxBytes
           /\ \/ s = Whole(text, dropped) /\ Bytes(s) <= room
              \/ Says(s, "note") /\ Bytes(s) <= room + Bytes(Own("note"))
<1> DEFINE hint == Own("hint")
           whole == Whole(text, dropped)
           room == DigestMaxBytes - Bytes(hint)
           budget == IF DigestMaxBytes > Bytes(hint) THEN room ELSE 0
           s == Bounded(whole, budget)
<1>1. hint \in Seq(Char) /\ Bytes(hint) \in Nat
  <2>1. "hint" \in Kinds
    BY DEF Kinds
  <2> QED
    BY <2>1, OwnTyped, BytesTyped
<1>2. DigestMaxBytes \in Nat /\ Bytes(hint) <= DigestMaxBytes
  BY DigestAssumption, HintFits
<1>3. Compose(text, dropped) = s \o hint
  BY DEF Compose
<1> HIDE DEF hint, whole
<1>4. room \in Nat /\ budget = room /\ room + Bytes(hint) = DigestMaxBytes
  BY <1>1, <1>2
<1>5. whole \in Seq(Char)
  BY WholeIs DEF whole
<1> HIDE DEF room, budget
<1>6. /\ s \in Seq(Char)
      /\ \/ s = whole /\ Bytes(s) <= room
         \/ Says(s, "note") /\ Bytes(s) <= room + Bytes(Own("note"))
  BY <1>4, <1>5, BoundedIs
<1> HIDE DEF s
<1> QED
  BY <1>3, <1>4, <1>6 DEF hint, whole

LEMMA HintIsLast == HintLast
<1> DEFINE hint == Own("hint")
<1>1. hint \in Seq(Char) /\ Len(hint) \in Nat /\ Len(hint) >= 2 /\ Bytes(hint) \in Nat
  <2>1. "hint" \in Kinds
    BY DEF Kinds
  <2> QED
    BY <2>1, OwnTyped, BytesTyped
<1>2. Bytes(Own("note")) \in Nat
  <2>1. "note" \in Kinds
    BY DEF Kinds
  <2> QED
    BY <2>1, OwnTyped, BytesTyped
<1>3. SUFFICES ASSUME NEW text \in Texts, NEW dropped \in BOOLEAN
      PROVE  LET digest == Compose(text, dropped)
             IN  /\ Len(hint) <= Len(digest)
                 /\ SubSeq(digest, Len(digest) - Len(hint) + 1, Len(digest)) = hint
                 /\ \/ Bytes(digest) <= DigestMaxBytes
                    \/ /\ Says(digest, "note")
                       /\ Bytes(digest) <= DigestMaxBytes + Bytes(Own("note"))
  BY DEF HintLast
<1>4. text \in Seq(Seq(1..4))
  BY DigestAssumption
<1>5. PICK s \in Seq(Char), room \in Nat :
        /\ Compose(text, dropped) = s \o hint
        /\ room + Bytes(hint) = DigestMaxBytes
        /\ \/ s = Whole(text, dropped) /\ Bytes(s) <= room
           \/ Says(s, "note") /\ Bytes(s) <= room + Bytes(Own("note"))
  BY <1>4, ComposeIs
<1> DEFINE digest == s \o hint
<1> HIDE DEF hint
<1>6. /\ Len(s) \in Nat /\ digest \in Seq(Char) /\ Len(digest) = Len(s) + Len(hint)
      /\ \A i \in 1..Len(s) + Len(hint) : digest[i] = IF i <= Len(s) THEN s[i] ELSE hint[i - Len(s)]
  BY <1>1, ConcatProperties
<1>7. Bytes(digest) = Bytes(s) + Bytes(hint) /\ Bytes(s) \in Nat
  BY <1>1, BytesAdd, BytesTyped
<1>8. Says(s, "note") => Says(digest, "note")
  BY <1>1, SaysConcat
<1> HIDE DEF digest
<1>9. \/ Bytes(digest) <= DigestMaxBytes
      \/ Says(digest, "note") /\ Bytes(digest) <= DigestMaxBytes + Bytes(Own("note"))
  BY <1>1, <1>2, <1>5, <1>7, <1>8
<1>10. SubSeq(digest, Len(digest) - Len(hint) + 1, Len(digest)) = hint
  <2> DEFINE p == Len(digest) - Len(hint) + 1
             q == Len(digest)
             u == SubSeq(digest, p, q)
  <2>1. p = Len(s) + 1 /\ q = Len(s) + Len(hint) /\ p \in Int /\ q \in Int
    BY <1>1, <1>6
  <2>2. ASSUME NEW i \in p..q PROVE digest[i] \in Char
    <3>1. i \in 1..Len(digest)
      BY <1>1, <1>6, <2>1
    <3> QED
      BY <1>6, <3>1, ElementOfSeq
  <2> HIDE DEF p, q
  <2>3. /\ u \in Seq(Char) /\ Len(u) = IF p <= q THEN q - p + 1 ELSE 0
        /\ \A i \in 1..q - p + 1 : u[i] = digest[p + i - 1]
    BY <2>1, <2>2, SubSeqProperties
  <2> HIDE DEF u
  <2>4. Len(u) = Len(hint)
    BY <1>1, <1>6, <2>1, <2>3
  <2>5. ASSUME NEW i \in 1..Len(hint) PROVE u[i] = hint[i]
    <3>1. /\ i \in 1..q - p + 1 /\ p + i - 1 = Len(s) + i
          /\ Len(s) + i \in 1..Len(s) + Len(hint) /\ ~ (Len(s) + i <= Len(s))
          /\ (Len(s) + i) - Len(s) = i
      BY <1>1, <1>6, <2>1
    <3>2. u[i] = digest[Len(s) + i]
      BY <2>3, <3>1
    <3> QED
      BY <1>6, <3>1, <3>2
  <2>6. u = hint
    BY <1>1, <2>3, <2>4, <2>5, SeqEqual
  <2> QED
    BY <2>6 DEF u, p, q
<1>11. Len(hint) <= Len(digest)
  BY <1>1, <1>6
<1>12. Compose(text, dropped) = digest
  BY <1>5 DEF digest
<1> QED
  BY <1>9, <1>10, <1>11, <1>12

LEMMA SaidWhatIsOut == SaysWhatIsOut
<1> DEFINE hint == Own("hint")
<1>1. hint \in Seq(Char) /\ Foreign(hint)
  <2>1. "hint" \in Kinds
    BY DEF Kinds
  <2> QED
    BY <2>1, OwnTyped, OwnSays
<1>2. SUFFICES ASSUME NEW text \in Texts, NEW dropped \in BOOLEAN
      PROVE  LET digest == Compose(text, dropped)
             IN  \/ Says(digest, "note")
                 \/ /\ dropped => Says(digest, "dropped")
                    /\ \A k \in Body(text) :
                         \/ InFull(digest, text, k)
                         \/ /\ Says(digest, "cut")
                            /\ Cardinality({j \in Body(text) : j > k /\ InFull(digest, text, j)})
                                 >= DigestMaxLines
  BY DEF SaysWhatIsOut
<1>3. text \in Seq(Seq(1..4))
  BY DigestAssumption
<1>4. PICK s \in Seq(Char) :
        /\ Compose(text, dropped) = s \o hint
        /\ s = Whole(text, dropped) \/ Says(s, "note")
  BY <1>3, ComposeIs
<1> DEFINE digest == s \o hint
<1> HIDE DEF hint
<1>5. Compose(text, dropped) = digest
  BY <1>4
<1>6. CASE Says(s, "note")
  <2>1. Says(digest, "note")
    BY <1>1, <1>6, SaysConcat
  <2> QED
    BY <1>5, <2>1
<1>7. CASE s = Whole(text, dropped)
  <2>1. (dropped => Says(digest, "dropped")) /\ (Cut(text) => Says(digest, "cut"))
    BY <1>1, <1>3, <1>7, WholeIs, SaysConcat
  <2>2. ASSUME NEW k \in Shown(text) PROVE k \in Body(text) /\ InFull(digest, text, k)
    <3>1. k \in Body(text) /\ k \in 1..Len(text) /\ k # 0
      BY DEF Shown, Newest, Body
    <3>2. \A i \in 1..Len(hint) : hint[i].line # k
      BY <1>1, <3>1 DEF Foreign
    <3>3. InFull(s, text, k)
      BY <1>3, <1>7, WholeIs
    <3> QED
      BY <1>1, <1>3, <3>1, <3>2, <3>3, FullConcat
  <2> HIDE DEF digest
  <2>3. ASSUME NEW k \in Body(text), k \notin Shown(text)
        PROVE  /\ Says(digest, "cut")
               /\ Cardinality({j \in Body(text) : j > k /\ InFull(digest, text, j)})
                    >= DigestMaxLines
    <3> DEFINE shown == {j \in Body(text) : j > k /\ InFull(digest, text, j)}
    <3>1. PICK later \in SUBSET {j \in Shown(text) : j > k} :
            Cardinality(later) >= DigestMaxLines
      BY <1>3, <2>3, OutForNewer
    <3>2. Cut(text)
      BY <1>3, <2>3, OutForNewer
    <3>3. IsFiniteSet(shown)
      <4>1. IsFiniteSet(1..Len(text))
        BY <1>3, FS_Interval
      <4>2. shown \in SUBSET (1..Len(text))
        BY DEF Body
      <4> QED
        BY <4>1, <4>2, FS_Subset
    <3>4. later \in SUBSET shown
      BY <2>2, <3>1
    <3> HIDE DEF shown
    <3>5. IsFiniteSet(later) /\ Cardinality(later) <= Cardinality(shown)
      BY <3>3, <3>4, FS_Subset
    <3>6. Cardinality(later) \in Nat /\ Cardinality(shown) \in Nat /\ DigestMaxLines \in Nat
      BY <3>3, <3>5, FS_CardinalityType, DigestAssumption
    <3>7. Cardinality(shown) >= DigestMaxLines
      BY <3>1, <3>5, <3>6
    <3> QED
      BY <2>1, <3>2, <3>7 DEF shown
  <2> QED
    BY <1>5, <2>1, <2>2, <2>3
<1> QED
  BY <1>4, <1>6, <1>7

(* docs/SPEC.md 9: the instruction how to answer ends every digest whole,     *)
(* whatever the room sent, and all before it is within DIGEST_MAX_BYTES but  *)
(* for the note that it was cut.                                           *)
THEOREM HintAlwaysSurvives == Spec => []HintSurvives
<1>1. HintSurvives
  BY HintIsLast DEF HintSurvives
<1> QED
  BY <1>1, PTL

(* compose_digest() drops nothing silently: a dropped count is told, and a    *)
(* line is missing only beneath a notice and a full DIGEST_MAX_LINES of newer *)
(* lines, each shown whole, unless the bytes ran out, which the note says.   *)
THEOREM NothingIsSilent == Spec => []NothingSilent
<1>1. NothingSilent
  BY SaidWhatIsOut DEF NothingSilent
<1> QED
  BY <1>1, PTL
-----------------------------------------------------------------------------
(* A prompt's hook runs in a turn its user drives, every hook in someone's.    *)
Prompted ==
  \A s \in Sessions :
    /\ pc[s] \in {"forget", "rides", "shows"} => driver[s] = "user"
    /\ driver[s] = "none" => pc[s] = "off"

LEMMA PromptedStep == TypeOK /\ Prompted /\ [Next]_vars => Prompted'
<1> SUFFICES ASSUME TypeOK, Prompted, [Next]_vars PROVE Prompted'
  OBVIOUS
<1> USE DEF TypeOK, Prompted, At, Goto, Step, Drives, Write, hooks
<1>1. CASE UNCHANGED vars \/ Heard \/ Sweep
  BY <1>1 DEF vars, Heard, Sweep
<1>2. ASSUME NEW s \in Sessions, Prompt(s) \/ PromptStep(s) PROVE Prompted'
  BY <1>2 DEF Prompt, PromptStep, Forget, Rides, Shows
<1>3. ASSUME NEW s \in Sessions, StopStep(s) PROVE Prompted'
  <2>1. CASE Count(s)
    BY <2>1 DEF Count
  <2>2. CASE Take(s) \/ Miss(s) \/ HoldEnds(s)
    BY <2>2 DEF Take, Miss, HoldEnds
  <2>3. CASE Quits(s) \/ Save(s) \/ Block(s)
    BY <2>3 DEF Quits, Save, Block
  <2> QED
    BY <1>3, <2>1, <2>2, <2>3 DEF StopStep
<1>4. ASSUME NEW s \in Sessions, KillHook(s) \/ SaveFails(s) \/ Interrupt(s) PROVE Prompted'
  BY <1>4 DEF KillHook, SaveFails, Ends, Interrupt
<1> QED
  BY <1>1, <1>2, <1>3, <1>4 DEF Next

(* Turns is the function its equation describes.                            *)
LEMMA TurnsGiven ==
  ASSUME NEW size \in Nat, NEW top \in Nat
  PROVE  \E f \in [0..top -> Nat] :
           f[0] = 0 /\ \A i \in 1..top : f[i] = size * (f[i - 1] + 1)
<1> DEFINE Given(f, m) == f[0] = 0 /\ \A i \in 1..m : f[i] = size * (f[i - 1] + 1)
           Good(m) == \E f \in [0..m -> Nat] : Given(f, m)
           good == {m \in 0..top : Good(m)}
<1>1. Good(0)
  <2> WITNESS [i \in 0..0 |-> 0] \in [0..0 -> Nat]
  <2> QED
    OBVIOUS
<1>2. ASSUME NEW m \in 1..top, Good(m - 1) PROVE Good(m)
  <2>1. PICK f \in [0..(m - 1) -> Nat] : Given(f, m - 1)
    BY <1>2
  <2> DEFINE next == size * (f[m - 1] + 1)
             g == [i \in 0..m |-> IF i = m THEN next ELSE f[i]]
  <2>2. f[m - 1] \in Nat /\ f[m - 1] + 1 \in Nat
    OBVIOUS
  <2>3. next \in Nat
    <3>1. \A i, j \in Nat : i * j \in Nat
      OBVIOUS
    <3> QED
      BY <2>2, <3>1
  <2> HIDE DEF next
  <2>4. g \in [0..m -> Nat]
    BY <2>3
  <2>5. g[0] = 0
    BY <2>1
  <2>6. ASSUME NEW i \in 1..m PROVE g[i] = size * (g[i - 1] + 1)
    <3>1. CASE i = m
      <4>1. m \in 0..m /\ m - 1 \in 0..m /\ m - 1 # m
        OBVIOUS
      <4>2. g[m] = next /\ g[m - 1] = f[m - 1]
        BY <4>1
      <4> QED
        BY <3>1, <4>2 DEF next
    <3>2. CASE i # m
      <4>1. i \in 1..(m - 1) /\ g[i] = f[i] /\ g[i - 1] = f[i - 1]
        BY <3>2
      <4>2. f[i] = size * (f[i - 1] + 1)
        BY <2>1, <4>1
      <4> QED
        BY <4>1, <4>2
    <3> QED
      BY <3>1, <3>2
  <2>7. Given(g, m)
    BY <2>5, <2>6
  <2> HIDE DEF Given, g
  <2> QED
    BY <2>4, <2>7
<1>3. \A m \in 0..top : m \in good
  <2> HIDE DEF Good
  <2>1. 0 \in good
    BY <1>1
  <2>2. ASSUME NEW m \in 1..top, m - 1 \in good PROVE m \in good
    BY <1>2, <2>2
  <2> HIDE DEF good
  <2> QED
    BY <2>1, <2>2, Climb
<1>4. Good(top)
  <2> HIDE DEF Good
  <2> QED
    BY <1>3
<1> QED
  BY <1>4

LEMMA TurnsAre ==
  ASSUME IsFiniteSet(Sessions)
  PROVE  /\ Turns \in [0..(ChainCap + 2) -> Nat]
         /\ \A k \in 1..(ChainCap + 2) :
              Turns[k] = Cardinality(Sessions) * (Turns[k - 1] + 1)
<1> DEFINE size == Cardinality(Sessions)
           top == ChainCap + 2
<1>1. size \in Nat /\ top \in Nat
  BY FS_CardinalityType, DeliveryAssumption
<1>2. Turns = CHOOSE g : g = [k \in 0..top |-> IF k = 0 THEN 0 ELSE size * (g[k - 1] + 1)]
  BY DEF Turns
<1> DEFINE Given(g) == g = [k \in 0..top |-> IF k = 0 THEN 0 ELSE size * (g[k - 1] + 1)]
<1> HIDE DEF size, top
<1>3. PICK f \in [0..top -> Nat] :
        f[0] = 0 /\ \A i \in 1..top : f[i] = size * (f[i - 1] + 1)
  BY <1>1, TurnsGiven
<1>4. Given(f)
  <2> DEFINE e == [k \in 0..top |-> IF k = 0 THEN 0 ELSE size * (f[k - 1] + 1)]
  <2>1. ASSUME NEW k \in 0..top PROVE f[k] = e[k]
    <3>1. CASE k = 0
      BY <1>3, <3>1
    <3>2. CASE k # 0
      <4>1. k \in 1..top
        BY <1>1, <3>2
      <4>2. f[k] = size * (f[k - 1] + 1)
        BY <1>3, <4>1
      <4> QED
        BY <3>2, <4>2
    <3> QED
      BY <3>1, <3>2
  <2> HIDE DEF e
  <2>2. e = [k \in 0..top |-> e[k]]
    BY DEF e
  <2>3. f = e
    BY <2>1, <2>2
  <2> QED
    BY <2>3 DEF e
<1>5. Given(Turns)
  <2>1. \E g : Given(g)
    BY <1>4
  <2>2. Turns = CHOOSE g : Given(g)
    BY <1>2
  <2> HIDE DEF Given
  <2> QED
    BY <2>1, <2>2
<1>6. ASSUME NEW k \in 1..top PROVE Turns[k] = size * (Turns[k - 1] + 1)
  <2>1. k \in 0..top /\ k # 0
    BY <1>1
  <2> QED
    BY <1>5, <2>1
<1>7. ASSUME NEW k \in 0..top PROVE Turns[k] \in Nat
  <2> DEFINE good == {i \in 0..top : Turns[i] \in Nat}
  <2>1. 0 \in good
    BY <1>1, <1>5
  <2>2. ASSUME NEW i \in 1..top, i - 1 \in good PROVE i \in good
    <3>1. Turns[i - 1] + 1 \in Nat /\ Turns[i] = size * (Turns[i - 1] + 1)
      BY <1>6, <2>2
    <3>2. \A x, y \in Nat : x * y \in Nat
      OBVIOUS
    <3>3. Turns[i] \in Nat
      BY <1>1, <3>1, <3>2
    <3> QED
      BY <1>1, <3>3
  <2> HIDE DEF good
  <2>3. \A i \in 0..top : i \in good
    BY <1>1, <2>1, <2>2, Climb
  <2> QED
    BY <2>3 DEF good
<1>8. Turns \in [0..top -> Nat]
  BY <1>5, <1>7
<1> QED
  BY <1>6, <1>8 DEF size, top

LEMMA TurnsGrow ==
  ASSUME IsFiniteSet(Sessions), Sessions # {}
  PROVE  \A k \in 1..(ChainCap + 2) : Turns[k] >= Turns[k - 1] + 1
<1>1. Cardinality(Sessions) \in Nat \ {0}
  BY FS_CardinalityType, FS_EmptySet
<1>2. SUFFICES ASSUME NEW k \in 1..(ChainCap + 2) PROVE Turns[k] >= Turns[k - 1] + 1
  OBVIOUS
<1>3. Turns[k - 1] \in Nat /\ Turns[k] = Cardinality(Sessions) * (Turns[k - 1] + 1)
  <2>1. k - 1 \in 0..(ChainCap + 2)
    BY DeliveryAssumption
  <2> QED
    BY <2>1, TurnsAre
<1>4. \A x \in Nat \ {0}, y \in Nat : x * y >= y
  OBVIOUS
<1> QED
  BY <1>1, <1>3, <1>4

LEMMA TurnsRise ==
  ASSUME IsFiniteSet(Sessions), Sessions # {},
         NEW j \in 0..(ChainCap + 2), NEW k \in 0..(ChainCap + 2), j <= k
  PROVE  Turns[j] <= Turns[k]
<1> DEFINE good == {i \in 0..(k - j) : Turns[j] <= Turns[j + i]}
<1>1. \A i \in 0..(ChainCap + 2) : Turns[i] \in Nat
  BY TurnsAre
<1>2. 0 \in good
  BY <1>1
<1>3. ASSUME NEW i \in 1..(k - j), i - 1 \in good PROVE i \in good
  <2>1. j + i \in 1..(ChainCap + 2) /\ j + i - 1 = j + (i - 1) /\ j + (i - 1) \in 0..(ChainCap + 2)
        /\ j + i \in 0..(ChainCap + 2)
    BY DeliveryAssumption
  <2>2. Turns[j + i] >= Turns[j + (i - 1)] + 1
    BY <2>1, TurnsGrow
  <2>3. Turns[j + i] \in Nat /\ Turns[j + (i - 1)] \in Nat /\ Turns[j] \in Nat
    BY <1>1, <2>1
  <2> QED
    BY <1>3, <2>2, <2>3
<1>4. k - j \in Nat /\ k - j \in 0..(k - j) /\ j + (k - j) = k
  BY DeliveryAssumption
<1> HIDE DEF good
<1>5. k - j \in good
  BY <1>2, <1>3, <1>4, Climb
<1> QED
  BY <1>4, <1>5 DEF good

-----------------------------------------------------------------------------
(* Turns laid out session by session.                                      *)
Shares(S, f) == UNION {{t} \X (1..f[t]) : t \in S}

LEMMA SharesTyped ==
  ASSUME NEW S, IsFiniteSet(S), NEW f \in [S -> Nat]
  PROVE  IsFiniteSet(Shares(S, f)) /\ Cardinality(Shares(S, f)) \in Nat
<1> DEFINE share == [t \in S |-> {t} \X (1..f[t])]
           shares == {{t} \X (1..f[t]) : t \in S}
<1>1. share \in Surjection(S, shares)
  BY DEF Surjection
<1>2. IsFiniteSet(shares)
  BY <1>1, FS_Surjection
<1>3. ASSUME NEW T \in shares PROVE IsFiniteSet(T)
  <2>1. PICK t \in S : T = {t} \X (1..f[t])
    OBVIOUS
  <2>2. f[t] \in Int
    OBVIOUS
  <2>3. IsFiniteSet({t})
    BY FS_Singleton
  <2>4. IsFiniteSet(1..f[t])
    BY <2>2, FS_Interval
  <2> QED
    BY <2>1, <2>3, <2>4, FS_Product
<1>4. IsFiniteSet(Shares(S, f))
  BY <1>2, <1>3, FS_UNION DEF Shares
<1> QED
  BY <1>4, FS_CardinalityType

(* What one session gives up is enough for every session to rise to u.         *)
LEMMA SharedOut ==
  ASSUME NEW S, IsFiniteSet(S), NEW f \in [S -> Nat], NEW g \in [S -> Nat],
         NEW s \in S, NEW u \in Nat,
         f[s] >= Cardinality(S) * u, g[s] <= u,
         \A t \in S \ {s} : g[t] <= f[t] \/ g[t] <= u
  PROVE  Cardinality(Shares(S, g)) <= Cardinality(Shares(S, f))
<1> DEFINE rest == Shares(S \ {s}, f)
           mine == {s} \X (1..f[s])
           pool == S \X (1..u)
<1>1. IsFiniteSet(Shares(S, f)) /\ IsFiniteSet(Shares(S, g))
  BY SharesTyped
<1>2. Shares(S, f) = rest \cup mine /\ rest \cap mine = {}
  BY DEF Shares
<1>3. IsFiniteSet(mine) /\ Cardinality(mine) = f[s]
  <2>1. IsFiniteSet({s}) /\ Cardinality({s}) = 1
    BY FS_Singleton
  <2>2. IsFiniteSet(1..f[s]) /\ Cardinality(1..f[s]) = f[s]
    BY FS_Interval
  <2>3. Cardinality(mine) = Cardinality({s}) * Cardinality(1..f[s]) /\ IsFiniteSet(mine)
    BY <2>1, <2>2, FS_Product
  <2> QED
    BY <2>1, <2>2, <2>3
<1>4. IsFiniteSet(pool) /\ Cardinality(pool) = Cardinality(S) * u
  <2>1. IsFiniteSet(1..u) /\ Cardinality(1..u) = u
    BY FS_Interval
  <2>2. IsFiniteSet(pool) /\ Cardinality(pool) = Cardinality(S) * Cardinality(1..u)
    BY <2>1, FS_Product
  <2> QED
    BY <2>1, <2>2
<1>5. Shares(S, g) \subseteq rest \cup pool
  <2>1. ASSUME NEW x \in Shares(S, g) PROVE x \in rest \cup pool
    <3>1. PICK t \in S : x \in {t} \X (1..g[t])
      BY DEF Shares
    <3>2. g[t] \in Nat /\ f[t] \in Nat /\ x[2] \in 1..g[t] /\ x = <<t, x[2]>>
      BY <3>1
    <3>3. CASE g[t] <= u
      BY <3>2, <3>3
    <3>4. CASE ~ (g[t] <= u)
      <4>1. t \in S \ {s} /\ g[t] <= f[t]
        BY <3>4
      <4>2. x \in {t} \X (1..f[t])
        BY <3>2, <4>1
      <4> QED
        BY <4>1, <4>2 DEF Shares
    <3> QED
      BY <3>3, <3>4
  <2> QED
    BY <2>1
<1> HIDE DEF mine, pool, rest
<1>6. IsFiniteSet(rest)
  <2>1. rest \in SUBSET Shares(S, f)
    BY <1>2
  <2> QED
    BY <1>1, <2>1, FS_Subset
<1>7. Cardinality(Shares(S, f)) = Cardinality(rest) + Cardinality(mine) - Cardinality({})
  BY <1>2, <1>3, <1>6, FS_Union
<1>8. /\ Cardinality(rest \cup pool) = Cardinality(rest) + Cardinality(pool) - Cardinality(rest \cap pool)
      /\ IsFiniteSet(rest \cup pool)
  BY <1>4, <1>6, FS_Union
<1>9. Cardinality(Shares(S, g)) <= Cardinality(rest \cup pool)
  BY <1>5, <1>8, FS_Subset
<1>10. /\ Cardinality({}) = 0 /\ Cardinality(rest) \in Nat /\ Cardinality(pool) \in Nat
       /\ Cardinality(rest \cap pool) \in Nat /\ Cardinality(Shares(S, g)) \in Nat
       /\ Cardinality(rest \cup pool) \in Nat
  <2>1. rest \cap pool \in SUBSET rest
    OBVIOUS
  <2>2. IsFiniteSet(rest \cap pool)
    BY <1>6, <2>1, FS_Subset
  <2> QED
    BY <1>1, <1>4, <1>6, <1>8, <2>2, FS_CardinalityType, FS_EmptySet
<1>11. f[s] \in Nat /\ Cardinality(pool) <= f[s]
  BY <1>4
<1> HIDE DEF Shares
<1> QED
  BY <1>3, <1>7, <1>8, <1>9, <1>10, <1>11

(* No session's share grows, so the total does not; one shrinks, so it does.   *)
LEMMA SharesShrink ==
  ASSUME NEW S, IsFiniteSet(S), NEW f \in [S -> Nat], NEW g \in [S -> Nat],
         \A t \in S : g[t] <= f[t]
  PROVE  /\ Cardinality(Shares(S, g)) <= Cardinality(Shares(S, f))
         /\ (\E t \in S : g[t] < f[t]) =>
              Cardinality(Shares(S, g)) < Cardinality(Shares(S, f))
<1>1. /\ IsFiniteSet(Shares(S, f)) /\ Cardinality(Shares(S, f)) \in Nat
      /\ IsFiniteSet(Shares(S, g)) /\ Cardinality(Shares(S, g)) \in Nat
  BY SharesTyped
<1>2. Shares(S, g) \in SUBSET Shares(S, f)
  <2>1. ASSUME NEW t \in S PROVE {t} \X (1..g[t]) \subseteq {t} \X (1..f[t])
    <3>1. g[t] \in Nat /\ f[t] \in Nat /\ g[t] <= f[t]
      OBVIOUS
    <3> QED
      BY <3>1
  <2> QED
    BY <2>1 DEF Shares
<1>3. /\ Cardinality(Shares(S, g)) <= Cardinality(Shares(S, f))
      /\ Cardinality(Shares(S, f)) = Cardinality(Shares(S, g)) => Shares(S, f) = Shares(S, g)
  BY <1>1, <1>2, FS_Subset
<1>4. ASSUME NEW t \in S, g[t] < f[t] PROVE Shares(S, f) # Shares(S, g)
  <2>1. f[t] \in 1..f[t] /\ f[t] \notin 1..g[t]
    BY <1>4
  <2>2. <<t, f[t]>> \in Shares(S, f)
    BY <2>1 DEF Shares
  <2>3. <<t, f[t]>> \notin Shares(S, g)
    BY <2>1 DEF Shares
  <2> QED
    BY <2>2, <2>3
<1> HIDE DEF Shares
<1> QED
  BY <1>1, <1>3, <1>4

LEMMA AheadTyped ==
  ASSUME IsFiniteSet(Sessions), TypeOK, TypeOK'
  PROVE  \A t \in Sessions : Ahead(t) \in Nat /\ Ahead(t)' \in Nat
<1>1. \A k \in 0..(ChainCap + 2) : Turns[k] \in Nat /\ Turns[k] + 1 \in Nat
  BY TurnsAre
<1>2. SUFFICES ASSUME NEW t \in Sessions PROVE Ahead(t) \in Nat /\ Ahead(t)' \in Nat
  OBVIOUS
<1>3. ChainCap \in Nat /\ chain \in 0..ChainCap /\ n[t] \in 0..(ChainCap - 1)
  BY DeliveryAssumption DEF TypeOK
<1>4. chain' \in 0..ChainCap /\ n'[t] \in 0..(ChainCap - 1)
  BY DEF TypeOK
<1>5. Below(t) \in 0..(ChainCap + 2) /\ Below(t)' \in 0..(ChainCap + 2)
  BY <1>3, <1>4 DEF Below
<1> QED
  BY <1>1, <1>5 DEF Ahead

LEMMA NoMoreTurns ==
  ASSUME IsFiniteSet(Sessions), TypeOK, TypeOK', \A t \in Sessions : Ahead(t)' <= Ahead(t)
  PROVE  /\ TurnsLeft' <= TurnsLeft
         /\ (\E t \in Sessions : Ahead(t)' < Ahead(t)) => TurnsLeft' < TurnsLeft
<1> DEFINE f == [t \in Sessions |-> Ahead(t)]
           g == [t \in Sessions |-> Ahead(t)']
<1>1. f \in [Sessions -> Nat] /\ g \in [Sessions -> Nat]
  BY AheadTyped
<1>2. /\ TurnsLeft = Cardinality(Shares(Sessions, f))
      /\ TurnsLeft' = Cardinality(Shares(Sessions, g))
  BY DEF TurnsLeft, Shares
<1>3. \A t \in Sessions : f[t] = Ahead(t) /\ g[t] = Ahead(t)'
  OBVIOUS
<1> HIDE DEF f, g
<1> QED
  BY <1>1, <1>2, <1>3, SharesShrink

LEMMA TurnsFromOne ==
  ASSUME IsFiniteSet(Sessions), TypeOK, TypeOK', NEW s \in Sessions, NEW u \in Nat,
         Ahead(s) >= Cardinality(Sessions) * u, Ahead(s)' <= u,
         \A t \in Sessions \ {s} : Ahead(t)' <= Ahead(t) \/ Ahead(t)' <= u
  PROVE  TurnsLeft' <= TurnsLeft
<1> DEFINE f == [t \in Sessions |-> Ahead(t)]
           g == [t \in Sessions |-> Ahead(t)']
<1>1. f \in [Sessions -> Nat] /\ g \in [Sessions -> Nat]
  BY AheadTyped
<1>2. /\ TurnsLeft = Cardinality(Shares(Sessions, f))
      /\ TurnsLeft' = Cardinality(Shares(Sessions, g))
  BY DEF TurnsLeft, Shares
<1>3. \A t \in Sessions : f[t] = Ahead(t) /\ g[t] = Ahead(t)'
  OBVIOUS
<1> HIDE DEF f, g
<1> QED
  BY <1>1, <1>2, <1>3, SharedOut

(* A write of c leaves another session what it had, or what is below c.        *)
LEMMA Rewritten ==
  ASSUME IsFiniteSet(Sessions), TypeOK, TypeOK', NEW s \in Sessions,
         NEW t \in Sessions, Aside(s, t)
  PROVE  Ahead(t)' <= Ahead(t) \/ Ahead(t)' <= Turns[ChainCap - chain'] + 1
<1>1. ChainCap - chain' \in 0..(ChainCap + 2)
  <2>1. chain' \in 0..ChainCap
    BY DEF TypeOK
  <2>2. \A c \in 0..ChainCap : ChainCap - c \in 0..(ChainCap + 2)
    BY DeliveryAssumption
  <2> QED
    BY <2>1, <2>2
<1>2. Turns[ChainCap - chain'] \in Nat /\ Ahead(t) \in Nat
  BY <1>1, TurnsAre, AheadTyped
<1>3. CASE Below(t)' = ChainCap - chain'
  BY <1>2, <1>3 DEF Ahead, At
<1>4. CASE Below(t)' # ChainCap - chain'
  <2>1. Below(t)' = Below(t)
    BY <1>4 DEF Below, Aside, At
  <2>2. Ahead(t)' = Ahead(t)
    BY <2>1 DEF Ahead, Aside, At
  <2> QED
    BY <1>2, <2>2
<1> QED
  BY <1>3, <1>4

(* The steps that leave chain.json alone.                                   *)
LEMMA ReadersSpend ==
  ASSUME IsFiniteSet(Sessions), TypeOK, TypeOK', Prompted, NEW s \in Sessions,
         chain' = chain, \A t \in Sessions \ {s} : Aside(s, t),
         Ahead(s)' <= Ahead(s)
  PROVE  /\ TurnsLeft' <= TurnsLeft
         /\ Ahead(s)' < Ahead(s) => TurnsLeft' < TurnsLeft
<1>1. ASSUME NEW t \in Sessions PROVE Ahead(t)' <= Ahead(t)
  <2>1. CASE t # s
    <3>1. Aside(s, t)
      BY <2>1
    <3>2. Below(t)' = Below(t)
      BY <3>1 DEF Below, Aside, At
    <3>3. Ahead(t)' = Ahead(t) /\ Ahead(t) \in Nat
      BY <3>1, <3>2, AheadTyped DEF Ahead, Aside, At
    <3> QED
      BY <3>3
  <2> QED
    BY <2>1
<1> QED
  BY <1>1, NoMoreTurns

LEMMA StepSpends ==
  ASSUME IsFiniteSet(Sessions), TypeOK, TypeOK', Prompted, NEW s \in Sessions,
         PromptStep(s) \/ StopStep(s) \/ KillHook(s) \/ SaveFails(s) \/ Interrupt(s)
  PROVE  TurnsLeft' <= TurnsLeft /\ (Block(s) => TurnsLeft' < TurnsLeft)
<1> USE DEF At, Goto, Step, Drives, Write, hooks
<1>1. ASSUME NEW t \in Sessions, t # s PROVE Aside(s, t)
  BY <1>1 DEF PromptStep, Forget, Rides, Shows, StopStep, Count, Take, Miss, HoldEnds, Quits,
             Save, Block, KillHook, SaveFails, Ends, Interrupt, TypeOK, Aside
<1>2. ChainCap \in Nat \ {0}
  BY DeliveryAssumption
<1>3. \A k \in 0..(ChainCap + 2) : Turns[k] \in Nat
  BY TurnsAre
<1>4. \A k \in 0..(ChainCap + 1) : Turns[k + 1] = Cardinality(Sessions) * (Turns[k] + 1)
  <2>1. SUFFICES ASSUME NEW k \in 0..(ChainCap + 1)
        PROVE  Turns[k + 1] = Cardinality(Sessions) * (Turns[k] + 1)
    OBVIOUS
  <2>2. k + 1 \in 1..(ChainCap + 2) /\ (k + 1) - 1 = k
    BY <1>2
  <2> QED
    BY <2>2, TurnsAre
<1>5. \A j, k \in 0..(ChainCap + 2) : j <= k => Turns[j] <= Turns[k]
  BY TurnsRise
<1>6. Ahead(s) \in Nat /\ Ahead(s)' \in Nat
  BY AheadTyped
<1>7. /\ chain \in 0..ChainCap /\ chain' \in 0..ChainCap
      /\ n[s] \in 0..(ChainCap - 1) /\ n'[s] \in 0..(ChainCap - 1)
      /\ pc'[s] \in Labels /\ pc[s] \in Labels
  BY DEF TypeOK
<1>8. /\ \A l : Goto(s, l) => pc'[s] = l
      /\ \A d : Drives(s, d) => driver'[s] = d
      /\ driver[s] \in {"none", "user", "chain"}
      /\ \A c : (n' = [n EXCEPT ![s] = c]) => n'[s] = c
  BY DEF TypeOK
<1>9. /\ pc[s] \in {"forget", "rides", "shows"} => driver[s] = "user"
      /\ driver[s] = "none" => pc[s] = "off"
  BY DEF Prompted
(* A write of c, when s had the turns for every session to reach those below c. *)
<1>10. ASSUME Ahead(s) >= Cardinality(Sessions) * (Turns[ChainCap - chain'] + 1),
              Ahead(s)' <= Turns[ChainCap - chain'] + 1
       PROVE  TurnsLeft' <= TurnsLeft
  <2>1. Turns[ChainCap - chain'] + 1 \in Nat
    BY <1>2, <1>3, <1>7
  <2> QED
    BY <1>1, <1>10, <2>1, Rewritten, TurnsFromOne
<1>11. CASE Forget(s)
  <2> DEFINE u == Turns[ChainCap + 1] + 1
  <2>1. Ahead(s) = Turns[ChainCap + 2] /\ Ahead(s)' = Turns[ChainCap + 1]
    <3>1. pc[s] = "forget" /\ pc'[s] = "rides" /\ driver'[s] = driver[s] /\ driver[s] = "user"
      BY <1>8, <1>9, <1>11 DEF Forget
    <3>2. Below(s) = ChainCap + 2 /\ Below(s)' = ChainCap + 1
      BY <3>1 DEF Below
    <3>3. Turns[ChainCap + 2] \in Nat /\ Turns[ChainCap + 1] \in Nat
      BY <1>2, <1>3
    <3> QED
      BY <3>1, <3>2, <3>3 DEF Ahead
  <2>2. Turns[ChainCap + 2] = Cardinality(Sessions) * u
    <3>1. ChainCap + 1 \in 0..(ChainCap + 1) /\ (ChainCap + 1) + 1 = ChainCap + 2
      BY <1>2
    <3> QED
      BY <1>4, <3>1
  <2>3. Turns[ChainCap - chain'] <= Turns[ChainCap + 1]
    BY <1>2, <1>5, <1>7
  <2>4. u \in Nat /\ Turns[ChainCap - chain'] \in Nat /\ Turns[ChainCap + 1] \in Nat
    BY <1>2, <1>3, <1>7
  <2>5. ASSUME NEW t \in Sessions \ {s} PROVE Ahead(t)' <= Ahead(t) \/ Ahead(t)' <= u
    <3>1. Ahead(t)' <= Ahead(t) \/ Ahead(t)' <= Turns[ChainCap - chain'] + 1
      BY <1>1, Rewritten
    <3>2. Ahead(t)' \in Nat
      BY AheadTyped
    <3> QED
      BY <2>3, <2>4, <3>1, <3>2
  <2>6. Ahead(s) >= Cardinality(Sessions) * u /\ Ahead(s)' <= u
    BY <1>6, <2>1, <2>2, <2>4
  <2> HIDE DEF u
  <2>7. TurnsLeft' <= TurnsLeft
    BY <2>4, <2>5, <2>6, TurnsFromOne
  <2> QED
    BY <1>11, <2>7 DEF Forget, Block
<1>12. CASE Save(s)
  <2>1. chain' = n[s] + 1 /\ pc'[s] = "block" /\ driver'[s] = driver[s] /\ driver[s] # "none"
    BY <1>8, <1>9, <1>12 DEF Save
  <2>2. Ahead(s)' = Turns[ChainCap - chain'] + 1
    BY <2>1 DEF Ahead, Below
  <2>3. ChainCap - n[s] \in 0..(ChainCap + 2) /\ ChainCap - n[s] <= ChainCap + 1
    BY <1>2, <1>7
  <2>4. Ahead(s) >= Turns[ChainCap - n[s]]
    <3>1. pc[s] = "save"
      BY <1>12 DEF Save
    <3>2. Below(s) = ChainCap + 1 \/ Below(s) = ChainCap - n[s]
      BY <3>1 DEF Below
    <3>3. ChainCap + 1 \in 0..(ChainCap + 2)
      BY <1>2
    <3>4. Below(s) \in 0..(ChainCap + 2) /\ Turns[Below(s)] >= Turns[ChainCap - n[s]]
          /\ Turns[Below(s)] \in Nat
      BY <1>3, <1>5, <2>3, <3>2, <3>3
    <3> QED
      BY <2>1, <3>1, <3>4 DEF Ahead
  <2>5. Turns[ChainCap - n[s]] = Cardinality(Sessions) * (Turns[ChainCap - chain'] + 1)
    <3>1. ChainCap - chain' \in 0..(ChainCap + 1) /\ (ChainCap - chain') + 1 = ChainCap - n[s]
      BY <1>2, <1>7, <2>1
    <3> QED
      BY <1>4, <3>1
  <2>6. TurnsLeft' <= TurnsLeft
    BY <1>6, <1>10, <2>2, <2>4, <2>5
  <2> QED
    BY <1>12, <2>6 DEF Save, Block
<1>13. CASE Quits(s)
  <2>1. driver'[s] = "none" /\ Ahead(s)' = 0
    BY <1>8, <1>13 DEF Quits, Ahead
  <2>2. CASE driver[s] = "user"
    <3>1. Ahead(s) = Turns[ChainCap + 1] /\ chain' = 0
      BY <1>2, <1>3, <1>13, <2>2 DEF Quits, Ahead, Below
    <3>2. /\ ChainCap - chain' = ChainCap /\ Turns[ChainCap] \in Nat
          /\ Turns[ChainCap + 1] = Cardinality(Sessions) * (Turns[ChainCap] + 1)
      BY <1>2, <1>3, <1>4, <3>1
    <3>3. TurnsLeft' <= TurnsLeft
      BY <1>6, <1>10, <2>1, <3>1, <3>2
    <3> QED
      BY <1>13, <3>3 DEF Quits, Block
  <2>3. CASE driver[s] # "user"
    <3>1. chain' = chain
      BY <1>13, <2>3 DEF Quits
    <3> QED
      BY <1>1, <1>6, <1>13, <2>1, <3>1, ReadersSpend DEF Quits, Block
  <2> QED
    BY <2>2, <2>3
<1>14. CASE Block(s)
  <2>1. pc[s] = "block" /\ pc'[s] = "off" /\ driver'[s] = "chain" /\ chain' = chain
    BY <1>8, <1>14 DEF Block
  <2>2. Ahead(s) = Turns[ChainCap - chain] + 1
    BY <1>9, <2>1 DEF Ahead, Below
  <2>3. Ahead(s)' = Turns[ChainCap - chain] /\ Turns[ChainCap - chain] \in Nat
    BY <1>2, <1>3, <1>7, <2>1 DEF Ahead, Below
  <2> QED
    BY <1>1, <2>1, <2>2, <2>3, ReadersSpend
<1>15. ASSUME chain' = chain, pc[s] # "block", Ahead(s)' <= Ahead(s)
       PROVE  TurnsLeft' <= TurnsLeft /\ (Block(s) => TurnsLeft' < TurnsLeft)
  BY <1>1, <1>15, ReadersSpend DEF Block
<1>16. CASE Rides(s) \/ Shows(s)
  <2>1. /\ pc[s] \in {"rides", "shows"} /\ pc'[s] \in {"off", "shows"}
        /\ driver[s] = "user" /\ driver'[s] = "user" /\ chain' = chain
    BY <1>8, <1>9, <1>16 DEF Rides, Shows
  <2>2. Ahead(s)' = Ahead(s)
    BY <2>1 DEF Ahead, Below
  <2> QED
    BY <1>6, <1>15, <2>1, <2>2
<1>17. CASE Count(s)
  <2>1. pc[s] = "off" /\ driver[s] # "none" /\ chain' = chain
    BY <1>17 DEF Count
  <2>2. CASE driver'[s] = "none"
    <3>1. Ahead(s)' = 0
      BY <2>2 DEF Ahead
    <3> QED
      BY <1>6, <1>15, <2>1, <3>1
  <2>3. CASE driver'[s] # "none"
    <3>1. /\ pc'[s] = "claim" /\ driver'[s] = driver[s]
          /\ driver[s] # "user" => n'[s] = chain
      BY <1>8, <1>17, <2>3 DEF Count
    <3>2. Ahead(s)' = Ahead(s)
      BY <2>1, <3>1 DEF Ahead, Below
    <3> QED
      BY <1>6, <1>15, <2>1, <3>2
  <2> QED
    BY <2>2, <2>3
<1>18. CASE Take(s) \/ Miss(s) \/ HoldEnds(s)
  <2>1. /\ pc[s] \in {"claim", "hold"} /\ pc'[s] \in {"hold", "none", "save"}
        /\ driver'[s] = driver[s] /\ n'[s] = n[s] /\ chain' = chain
    BY <1>8, <1>18 DEF Take, Miss, HoldEnds
  <2>2. Ahead(s)' = Ahead(s)
    BY <2>1 DEF Ahead, Below
  <2> QED
    BY <1>6, <1>15, <2>1, <2>2
<1>19. CASE KillHook(s) \/ SaveFails(s) \/ Interrupt(s)
  <2>1. CASE Interrupt(s)
    <3>1. pc[s] = "off" /\ chain' = chain /\ driver'[s] = "none"
      BY <1>8, <2>1 DEF Interrupt
    <3>2. Ahead(s)' = 0
      BY <3>1 DEF Ahead
    <3> QED
      BY <1>6, <1>15, <3>1, <3>2
  <2>2. CASE KillHook(s) \/ SaveFails(s)
    <3>1. Ends(s) /\ pc[s] # "off" /\ chain' = chain /\ pc'[s] = "off"
      BY <1>8, <2>2 DEF KillHook, SaveFails, Ends
    <3>2. Ahead(s)' <= Ahead(s)
      <4>1. CASE driver'[s] = "none"
        <5>1. Ahead(s)' = 0
          BY <4>1 DEF Ahead
        <5> QED
          BY <1>6, <5>1
      <4>2. CASE driver'[s] # "none"
        <5>1. pc[s] \in {"forget", "rides", "shows"} /\ driver'[s] = "user" /\ driver[s] = "user"
          BY <1>8, <1>9, <3>1, <4>2 DEF Ends
        <5>2. Ahead(s)' = Turns[ChainCap + 1]
          BY <1>2, <1>3, <3>1, <5>1 DEF Ahead, Below
        <5>3. Ahead(s) = Turns[ChainCap + 1] \/ Ahead(s) = Turns[ChainCap + 2]
          BY <1>2, <1>3, <5>1 DEF Ahead, Below
        <5>4. Turns[ChainCap + 1] <= Turns[ChainCap + 2]
          BY <1>2, <1>5
        <5> QED
          BY <1>6, <5>2, <5>3, <5>4
      <4> QED
        BY <4>1, <4>2
    <3>3. TurnsLeft' <= TurnsLeft
      BY <1>1, <3>1, <3>2, ReadersSpend
    <3>4. ~ Block(s) \/ TurnsLeft' < TurnsLeft
      BY <1>14
    <3> QED
      BY <3>3, <3>4
  <2> QED
    BY <1>19, <2>1, <2>2
<1> QED
  BY <1>11, <1>12, <1>13, <1>14, <1>16, <1>17, <1>18, <1>19 DEF PromptStep, StopStep

(* docs/SPEC.md 5: no hook, however many sessions share and overwrite the      *)
(* count, and no failure gives the sessions of a host more automatic turns   *)
(* than they had left, and each such turn is taken from them.                *)
THEOREM TurnsAlwaysRunOut ==
  ASSUME IsFiniteSet(Sessions)
  PROVE  Spec => TurnsRunOut
<1> DEFINE Spent == (\A s \in Sessions : ~ Prompt(s)) =>
                      /\ TurnsLeft' <= TurnsLeft
                      /\ (\E s \in Sessions : Block(s)) => TurnsLeft' < TurnsLeft
<1>1. Init => TypeOK /\ Kept /\ Prompted
  <2>1. Init => Prompted
    BY DEF Init, Prompted
  <2> QED
    BY <2>1, InitKept
<1>2. TypeOK /\ Kept /\ Prompted /\ [Next]_vars => (TypeOK /\ Kept /\ Prompted)'
  BY StepKept, PromptedStep
<1>3. TypeOK /\ TypeOK' /\ Prompted /\ [Next]_vars => [Spent]_vars
  <2> SUFFICES ASSUME TypeOK, TypeOK', Prompted, Next, \A s \in Sessions : ~ Prompt(s)
      PROVE  /\ TurnsLeft' <= TurnsLeft
             /\ (\E s \in Sessions : Block(s)) => TurnsLeft' < TurnsLeft
    OBVIOUS
  <2>1. ASSUME NEW s \in Sessions, Block(s) PROVE TurnsLeft' < TurnsLeft
    BY <2>1, StepSpends DEF StopStep
  <2>2. TurnsLeft' <= TurnsLeft
    <3>1. ASSUME NEW s \in Sessions,
                 PromptStep(s) \/ StopStep(s) \/ KillHook(s) \/ SaveFails(s) \/ Interrupt(s)
          PROVE  TurnsLeft' <= TurnsLeft
      BY <3>1, StepSpends
    <3>2. CASE Heard \/ Sweep
      <4>1. UNCHANGED <<chain, hooks>>
        BY <3>2 DEF Heard, Sweep
      <4>2. \A t \in Sessions : Ahead(t)' = Ahead(t) /\ Ahead(t) \in Nat
        BY <4>1, AheadTyped DEF hooks, Ahead, Below, At
      <4> QED
        BY <4>2, NoMoreTurns
    <3> QED
      BY <3>1, <3>2 DEF Next
  <2> QED
    BY <2>1, <2>2
<1> QED
  BY <1>1, <1>2, <1>3, PTL DEF Spec, TurnsRunOut
=============================================================================
