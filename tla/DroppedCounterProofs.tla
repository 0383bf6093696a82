------------------------ MODULE DroppedCounterProofs ------------------------
(* Theorems about DroppedCounter, for any daemons and hooks and any bounds.  *)
EXTENDS DroppedCounter, FiniteSetTheorems, TLAPS

PCs == {"off", "idle", "bump", "fresh", "load", "save", "forget", "report", "dead"}

(* TypeOK but for the bounds on dropped and reported, which only follow from *)
(* no count being reported twice.                                           *)
Typed ==
  /\ dropped \in Nat /\ reported \in Nat /\ lost \in Nat /\ counted \in 0..MaxCounted
  /\ side \in [Procs -> Nat] /\ obj \in [Procs -> Nat] /\ add \in [Bumpers -> Nat]
  /\ old \subseteq {p \in Procs : side[p] # 0}
  /\ pc \in [Procs -> PCs]
  /\ crashes \in 0..MaxCrashes /\ faults \in 0..MaxFaults

(* Takers are never where only a bumper goes, and only a taker reports.       *)
Places ==
  /\ \A b \in Bumpers : pc[b] # "report"
  /\ \A t \in Takers : pc[t] \in {"idle", "load", "forget", "report", "dead"}

(* What a bumper saves starts from what it stole, or from nothing.            *)
Stolen ==
  \A b \in Bumpers : /\ pc[b] = "save" => obj[b] = side[b]
                     /\ pc[b] = "fresh" => obj[b] = 0

Base == Typed /\ Places /\ Stolen

(* One daemon at a time: a bumper that is up is the only one, so dropped.json *)
(* stays away while it is between its steal and its save.                    *)
Up(b) == pc[b] \notin {"off", "dead"}

OneUp == \A b, c \in Bumpers : Up(b) /\ Up(c) => b = c

Absent == \A b \in Bumpers : pc[b] \in {"load", "save", "fresh"} => dropped = 0

Alone == OneUp /\ Absent

LEMMA KeepsTyped ==
  ASSUME Base, NEW p \in Procs
  PROVE  Keeps(p) \in Nat
BY DEF Base, Typed, Places, Keeps, Procs, PCs

LEMMA BaseStep ==
  ASSUME Base, [Next]_vars
  PROVE  Base'
<1> USE CounterAssumption DEF Base, Typed, Places, Stolen, Procs, PCs, At, Goto, bounds
<1>1. ASSUME NEW b \in Bumpers, Spawn(b) PROVE Base'
  BY <1>1 DEF Spawn
<1>2. ASSUME NEW b \in Bumpers, NEW n \in 1..MaxCounted, Evicted(b, n) PROVE Base'
  BY <1>2 DEF Evicted
<1>3. ASSUME NEW b \in Bumpers, BumpSteals(b) PROVE Base'
  BY <1>3 DEF BumpSteals, Rename
<1>4. ASSUME NEW b \in Bumpers, BumpFindsNone(b) PROVE Base'
  BY <1>4 DEF BumpFindsNone
<1>5. ASSUME NEW b \in Bumpers, BumpLoads(b) PROVE Base'
  BY <1>5 DEF BumpLoads
<1>6. ASSUME NEW b \in Bumpers, BumpSaves(b) PROVE Base'
  BY <1>6 DEF BumpSaves
<1>7. ASSUME NEW b \in Bumpers, BumpForgets(b) PROVE Base'
  BY <1>7 DEF BumpForgets, Forget
<1>8. ASSUME NEW b \in Bumpers, SaveFails(b) PROVE Base'
  BY <1>8 DEF SaveFails
<1>9. ASSUME NEW t \in Takers, TakeSteals(t) PROVE Base'
  BY <1>9 DEF TakeSteals, Rename
<1>10. ASSUME NEW t \in Takers, TakeLoads(t) PROVE Base'
  BY <1>10 DEF TakeLoads
<1>11. ASSUME NEW t \in Takers, TakeForgets(t) PROVE Base'
  BY <1>11 DEF TakeForgets, Forget
<1>12. ASSUME NEW t \in Takers, Report(t) PROVE Base'
  BY <1>12 DEF Report
<1>13. ASSUME NEW p \in Procs, Crash(p) PROVE Base'
  BY <1>13, KeepsTyped DEF Crash
<1>14. ASSUME NEW p \in Procs, Age(p) PROVE Base'
  BY <1>14 DEF Age
<1>15. ASSUME NEW p \in Procs, Sweep(p) PROVE Base'
  BY <1>15 DEF Sweep, Abandoned, Forget
<1>16. CASE UNCHANGED vars
  BY <1>16 DEF vars
<1> HIDE DEF Base, Procs
<1> QED
  BY <1>1, <1>2, <1>3, <1>4, <1>5, <1>6, <1>7, <1>8, <1>9, <1>10, <1>11, <1>12,
     <1>13, <1>14, <1>15, <1>16
  DEF Next, BumperStep, TakerStep

LEMMA AloneStep ==
  ASSUME Overlap = FALSE, Base, Alone, [Next]_vars
  PROVE  Alone'
<1> USE CounterAssumption
    DEF Base, Typed, Alone, OneUp, Absent, Up, Procs, PCs, At, Goto, bounds
<1>1. ASSUME NEW b \in Bumpers, Spawn(b) PROVE Alone'
  BY <1>1 DEF Spawn
<1>2. ASSUME NEW b \in Bumpers, NEW n \in 1..MaxCounted, Evicted(b, n) PROVE Alone'
  BY <1>2 DEF Evicted
<1>3. ASSUME NEW b \in Bumpers, BumpSteals(b) PROVE Alone'
  BY <1>3 DEF BumpSteals, Rename
<1>4. ASSUME NEW b \in Bumpers, BumpFindsNone(b) PROVE Alone'
  BY <1>4 DEF BumpFindsNone
<1>5. ASSUME NEW b \in Bumpers, BumpLoads(b) PROVE Alone'
  BY <1>5 DEF BumpLoads
<1>6. ASSUME NEW b \in Bumpers, BumpSaves(b) PROVE Alone'
  BY <1>6 DEF BumpSaves
<1>7. ASSUME NEW b \in Bumpers, BumpForgets(b) PROVE Alone'
  BY <1>7 DEF BumpForgets, Forget
<1>8. ASSUME NEW b \in Bumpers, SaveFails(b) PROVE Alone'
  BY <1>8 DEF SaveFails
<1>9. ASSUME NEW t \in Takers, TakeSteals(t) PROVE Alone'
  BY <1>9 DEF TakeSteals, Rename
<1>10. ASSUME NEW t \in Takers, TakeLoads(t) PROVE Alone'
  BY <1>10 DEF TakeLoads
<1>11. ASSUME NEW t \in Takers, TakeForgets(t) PROVE Alone'
  BY <1>11 DEF TakeForgets, Forget
<1>12. ASSUME NEW t \in Takers, Report(t) PROVE Alone'
  BY <1>12 DEF Report
<1>13. ASSUME NEW p \in Procs, Crash(p) PROVE Alone'
  BY <1>13 DEF Crash
<1>14. ASSUME NEW p \in Procs, Age(p) PROVE Alone'
  BY <1>14 DEF Age
<1>15. ASSUME NEW p \in Procs, Sweep(p) PROVE Alone'
  BY <1>15 DEF Sweep, Abandoned, Forget
<1>16. CASE UNCHANGED vars
  BY <1>16 DEF vars
<1> HIDE DEF Base, Alone, Procs
<1> QED
  BY <1>1, <1>2, <1>3, <1>4, <1>5, <1>6, <1>7, <1>8, <1>9, <1>10, <1>11, <1>12,
     <1>13, <1>14, <1>15, <1>16
  DEF Next, BumperStep, TakerStep

(* Counts laid out unit by unit: when one process's count changes and the      *)
(* others' do not, the total changes by as much.                              *)
Units(S, k) == UNION {{q} \X (1..k[q]) : q \in S}

LEMMA ShareSize ==
  ASSUME NEW p, NEW n \in Nat
  PROVE  IsFiniteSet({p} \X (1..n)) /\ Cardinality({p} \X (1..n)) = n
<1>1. IsFiniteSet({p}) /\ Cardinality({p}) = 1
  BY FS_Singleton
<1>2. IsFiniteSet(1..n) /\ Cardinality(1..n) = n
  BY FS_Interval
<1>3. /\ IsFiniteSet({p} \X (1..n))
      /\ Cardinality({p} \X (1..n)) = Cardinality({p}) * Cardinality(1..n)
  BY <1>1, <1>2, FS_Product
<1> QED
  BY <1>1, <1>2, <1>3

LEMMA UnitsFinite ==
  ASSUME NEW S, IsFiniteSet(S), NEW k \in [S -> Nat]
  PROVE  IsFiniteSet(Units(S, k))
<1> DEFINE share == [q \in S |-> {q} \X (1..k[q])]
           shares == {{q} \X (1..k[q]) : q \in S}
<1>1. share \in Surjection(S, shares)
  BY DEF Surjection
<1>2. IsFiniteSet(shares)
  BY <1>1, FS_Surjection
<1>3. ASSUME NEW T \in shares PROVE IsFiniteSet(T)
  <2>1. PICK q \in S : T = {q} \X (1..k[q])
    OBVIOUS
  <2>2. k[q] \in Nat
    OBVIOUS
  <2> QED
    BY <2>1, <2>2, ShareSize
<1> QED
  BY <1>2, <1>3, FS_UNION DEF Units

LEMMA SplitUnits ==
  ASSUME NEW S, IsFiniteSet(S), NEW k \in [S -> Nat], NEW p \in S
  PROVE  LET rest == Units(S \ {p}, k)
         IN  /\ Cardinality(rest) \in Nat
             /\ Cardinality(Units(S, k)) = Cardinality(rest) + k[p]
<1> DEFINE rest == Units(S \ {p}, k)
           mine == {p} \X (1..k[p])
<1>1. IsFiniteSet(rest)
  <2>1. IsFiniteSet(S \ {p})
    BY FS_RemoveElement
  <2> DEFINE kr == [q \in S \ {p} |-> k[q]]
  <2>2. IsFiniteSet(Units(S \ {p}, kr))
    <3>1. kr \in [S \ {p} -> Nat]
      OBVIOUS
    <3> HIDE DEF kr
    <3> QED
      BY <2>1, <3>1, UnitsFinite
  <2>3. Units(S \ {p}, kr) = rest
    BY DEF Units
  <2> QED
    BY <2>2, <2>3
<1>2. IsFiniteSet(mine) /\ Cardinality(mine) = k[p]
  BY ShareSize
<1>3. Units(S, k) = rest \cup mine /\ rest \cap mine = {}
  BY DEF Units
<1>4. Cardinality(rest \cup mine)
        = Cardinality(rest) + Cardinality(mine) - Cardinality(rest \cap mine)
  BY <1>1, <1>2, FS_Union
<1>5. Cardinality(rest) \in Nat /\ Cardinality({}) = 0
  BY <1>1, FS_CardinalityType, FS_EmptySet
<1> HIDE DEF rest, mine
<1>6. k[p] \in Nat
  OBVIOUS
<1>7. Cardinality(Units(S, k)) = Cardinality(rest) + k[p]
  <2>1. Cardinality(Units(S, k)) = Cardinality(rest \cup mine)
    BY <1>3, Zenon
  <2>2. Cardinality(rest \cap mine) = 0
    BY <1>3, <1>5, Zenon
  <2> QED
    BY <1>2, <1>4, <1>5, <1>6, <2>1, <2>2
<1> QED
  BY <1>5, <1>7 DEF rest

LEMMA OneShare ==
  ASSUME NEW S, IsFiniteSet(S), NEW k \in [S -> Nat], NEW m \in [S -> Nat],
         NEW p \in S, \A q \in S \ {p} : m[q] = k[q]
  PROVE  /\ Cardinality(Units(S, k)) \in Nat /\ Cardinality(Units(S, m)) \in Nat
         /\ Cardinality(Units(S, m)) + k[p] = Cardinality(Units(S, k)) + m[p]
<1>1. Units(S \ {p}, m) = Units(S \ {p}, k)
  BY DEF Units
<1> DEFINE rest == Cardinality(Units(S \ {p}, k))
<1>2. rest \in Nat /\ Cardinality(Units(S, k)) = rest + k[p]
  BY SplitUnits
<1>3. Cardinality(Units(S, m)) = rest + m[p]
  BY SplitUnits, <1>1
<1> HIDE DEF rest
<1> QED
  BY <1>2, <1>3

(* A step of one process changes the total as it changes the sum of what that  *)
(* process keeps and the three totals on record; `gap` is what goes missing.  *)
Rest == reported + lost + dropped

Total == Rest + Cardinality(Kept)

LEMMA RestTyped ==
  ASSUME Base, Base'
  PROVE  Rest \in Nat /\ Rest' \in Nat /\ counted \in Nat /\ counted' \in Nat
<1>1. /\ reported \in Nat /\ lost \in Nat /\ dropped \in Nat
      /\ reported' \in Nat /\ lost' \in Nat /\ dropped' \in Nat
      /\ counted \in 0..MaxCounted /\ counted' \in 0..MaxCounted
  BY DEF Base, Typed
<1>2. \A i, j, k \in Nat : i + j + k \in Nat
  OBVIOUS
<1>3. \A i \in 0..MaxCounted : i \in Nat
  BY CounterAssumption
<1> QED
  BY <1>1, <1>2, <1>3, Zenon DEF Rest

LEMMA Balance ==
  ASSUME Base, Base', NEW p \in Procs, NEW gap \in Nat,
         \A q \in Procs \ {p} : Keeps(q)' = Keeps(q),
         Rest' + Keeps(p)' + counted + gap = Rest + Keeps(p) + counted'
  PROVE  /\ Total \in Nat /\ Total' \in Nat
         /\ Total' + counted + gap = Total + counted'
<1> DEFINE k == [q \in Procs |-> Keeps(q)]
           m == [q \in Procs |-> Keeps(q)']
<1>1. k \in [Procs -> Nat] /\ m \in [Procs -> Nat]
  <2>1. \A q \in Procs : Keeps(q) \in Nat
    BY KeepsTyped
  <2>2. \A q \in Procs : Keeps(q)' \in Nat
    BY DEF Base, Typed, Places, Keeps, Procs, PCs
  <2> QED
    BY <2>1, <2>2
<1>2. Kept = Units(Procs, k) /\ Kept' = Units(Procs, m)
  BY DEF Kept, Units
<1>3. k[p] = Keeps(p) /\ m[p] = Keeps(p)' /\ \A q \in Procs \ {p} : m[q] = k[q]
  OBVIOUS
<1>4. IsFiniteSet(Procs)
  BY CounterAssumption DEF Procs
<1> HIDE DEF k, m
<1>5. /\ Cardinality(Kept) \in Nat /\ Cardinality(Kept') \in Nat
      /\ Cardinality(Kept') + Keeps(p) = Cardinality(Kept) + Keeps(p)'
  BY <1>1, <1>2, <1>3, <1>4, OneShare
<1>6. /\ Rest \in Nat /\ Rest' \in Nat /\ counted \in Nat /\ counted' \in Nat
      /\ Keeps(p) \in Nat /\ Keeps(p)' \in Nat
  <2>1. Keeps(p) \in Nat /\ Keeps(p)' \in Nat
    BY <1>1, <1>3
  <2> QED
    BY <2>1, RestTyped
<1>7. /\ Rest + Cardinality(Kept) \in Nat /\ Rest' + Cardinality(Kept') \in Nat
      /\ Rest' + Cardinality(Kept') + counted + gap = Rest + Cardinality(Kept) + counted'
  BY <1>5, <1>6
<1> QED
  BY <1>7 DEF Total

LEMMA KeptTyped ==
  ASSUME Base
  PROVE  Cardinality(Kept) \in Nat /\ Total \in Nat
<1> DEFINE k == [q \in Procs |-> Keeps(q)]
<1>1. k \in [Procs -> Nat]
  BY KeepsTyped
<1>2. Kept = Units(Procs, k)
  BY DEF Kept, Units
<1>3. IsFiniteSet(Procs)
  BY CounterAssumption DEF Procs
<1> HIDE DEF k
<1>4. Cardinality(Kept) \in Nat
  BY <1>1, <1>2, <1>3, UnitsFinite, FS_CardinalityType
<1>5. Rest \in Nat
  BY DEF Base, Typed, Rest
<1> QED
  BY <1>4, <1>5 DEF Total

(* Each step keeps the total in step with what was counted, but for a save    *)
(* over a file another bumper has put there meanwhile.                       *)
Even == Total' + counted = Total + counted'

Overwrites ==
  /\ \E b \in Bumpers : BumpSaves(b)
  /\ Total' + counted + dropped = Total + counted'

LEMMA TotalStep ==
  ASSUME Base, Base', [Next]_vars
  PROVE  Total \in Nat /\ Total' \in Nat /\ (Even \/ Overwrites)
<1> DEFINE Goal == Total \in Nat /\ Total' \in Nat /\ (Even \/ Overwrites)
<1>0. \A i, j \in Nat : i + j + 0 = i + j
  OBVIOUS
<1> USE CounterAssumption DEF Base, Typed, Places, Stolen, Procs, PCs, At, Goto, bounds
<1>1. ASSUME NEW b \in Bumpers, Spawn(b) PROVE Goal
  <2>1. \A q \in Procs \ {b} : Keeps(q)' = Keeps(q)
    BY <1>1 DEF Spawn, Keeps
  <2>2. Rest' + Keeps(b)' + counted + 0 = Rest + Keeps(b) + counted'
    BY <1>1 DEF Spawn, Keeps, Rest
  <2>3. /\ Total \in Nat /\ Total' \in Nat
        /\ Total' + counted + 0 = Total + counted'
    BY <2>1, <2>2, Balance
  <2> QED
    BY <2>3, <1>0 DEF Even, Overwrites
<1>2. ASSUME NEW b \in Bumpers, NEW n \in 1..MaxCounted, Evicted(b, n) PROVE Goal
  <2>1. \A q \in Procs \ {b} : Keeps(q)' = Keeps(q)
    BY <1>2 DEF Evicted, Keeps
  <2>2. Rest' + Keeps(b)' + counted + 0 = Rest + Keeps(b) + counted'
    BY <1>2 DEF Evicted, Keeps, Rest
  <2>3. /\ Total \in Nat /\ Total' \in Nat
        /\ Total' + counted + 0 = Total + counted'
    BY <2>1, <2>2, Balance
  <2> QED
    BY <2>3, <1>0 DEF Even, Overwrites
<1>3. ASSUME NEW b \in Bumpers, BumpSteals(b) PROVE Goal
  <2>1. \A q \in Procs \ {b} : Keeps(q)' = Keeps(q)
    BY <1>3 DEF BumpSteals, Rename, Keeps
  <2>2. Rest' + Keeps(b)' + counted + 0 = Rest + Keeps(b) + counted'
    BY <1>3 DEF BumpSteals, Rename, Keeps, Rest
  <2>3. /\ Total \in Nat /\ Total' \in Nat
        /\ Total' + counted + 0 = Total + counted'
    BY <2>1, <2>2, Balance
  <2> QED
    BY <2>3, <1>0 DEF Even, Overwrites
<1>4. ASSUME NEW b \in Bumpers, BumpFindsNone(b) PROVE Goal
  <2>1. \A q \in Procs \ {b} : Keeps(q)' = Keeps(q)
    BY <1>4 DEF BumpFindsNone, Keeps
  <2>2. Rest' + Keeps(b)' + counted + 0 = Rest + Keeps(b) + counted'
    BY <1>4 DEF BumpFindsNone, Keeps, Rest
  <2>3. /\ Total \in Nat /\ Total' \in Nat
        /\ Total' + counted + 0 = Total + counted'
    BY <2>1, <2>2, Balance
  <2> QED
    BY <2>3, <1>0 DEF Even, Overwrites
<1>5. ASSUME NEW b \in Bumpers, BumpLoads(b) PROVE Goal
  <2>1. \A q \in Procs \ {b} : Keeps(q)' = Keeps(q)
    BY <1>5 DEF BumpLoads, Keeps
  <2>2. Rest' + Keeps(b)' + counted + 0 = Rest + Keeps(b) + counted'
    BY <1>5 DEF BumpLoads, Keeps, Rest
  <2>3. /\ Total \in Nat /\ Total' \in Nat
        /\ Total' + counted + 0 = Total + counted'
    BY <2>1, <2>2, Balance
  <2> QED
    BY <2>3, <1>0 DEF Even, Overwrites
<1>6. ASSUME NEW b \in Bumpers, BumpSaves(b) PROVE Goal
  <2>1. \A q \in Procs \ {b} : Keeps(q)' = Keeps(q)
    BY <1>6 DEF BumpSaves, Keeps
  <2>2. Rest' + Keeps(b)' + counted + dropped = Rest + Keeps(b) + counted'
    BY <1>6 DEF BumpSaves, Keeps, Rest
  <2>3. /\ Total \in Nat /\ Total' \in Nat
        /\ Total' + counted + dropped = Total + counted'
    BY <2>1, <2>2, Balance
  <2> QED
    BY <2>3, <1>6 DEF Even, Overwrites
<1>7. ASSUME NEW b \in Bumpers, BumpForgets(b) PROVE Goal
  <2>1. \A q \in Procs \ {b} : Keeps(q)' = Keeps(q)
    BY <1>7 DEF BumpForgets, Forget, Keeps
  <2>2. Rest' + Keeps(b)' + counted + 0 = Rest + Keeps(b) + counted'
    BY <1>7 DEF BumpForgets, Forget, Keeps, Rest
  <2>3. /\ Total \in Nat /\ Total' \in Nat
        /\ Total' + counted + 0 = Total + counted'
    BY <2>1, <2>2, Balance
  <2> QED
    BY <2>3, <1>0 DEF Even, Overwrites
<1>8. ASSUME NEW b \in Bumpers, SaveFails(b) PROVE Goal
  <2>1. \A q \in Procs \ {b} : Keeps(q)' = Keeps(q)
    BY <1>8 DEF SaveFails, Keeps
  <2>2. Rest' + Keeps(b)' + counted + 0 = Rest + Keeps(b) + counted'
    BY <1>8 DEF SaveFails, Keeps, Rest
  <2>3. /\ Total \in Nat /\ Total' \in Nat
        /\ Total' + counted + 0 = Total + counted'
    BY <2>1, <2>2, Balance
  <2> QED
    BY <2>3, <1>0 DEF Even, Overwrites
<1>9. ASSUME NEW t \in Takers, TakeSteals(t) PROVE Goal
  <2>1. \A q \in Procs \ {t} : Keeps(q)' = Keeps(q)
    BY <1>9 DEF TakeSteals, Rename, Keeps
  <2>2. Rest' + Keeps(t)' + counted + 0 = Rest + Keeps(t) + counted'
    BY <1>9 DEF TakeSteals, Rename, Keeps, Rest
  <2>3. /\ Total \in Nat /\ Total' \in Nat
        /\ Total' + counted + 0 = Total + counted'
    BY <2>1, <2>2, Balance
  <2> QED
    BY <2>3, <1>0 DEF Even, Overwrites
<1>10. ASSUME NEW t \in Takers, TakeLoads(t) PROVE Goal
  <2>1. \A q \in Procs \ {t} : Keeps(q)' = Keeps(q)
    BY <1>10 DEF TakeLoads, Keeps
  <2>2. Rest' + Keeps(t)' + counted + 0 = Rest + Keeps(t) + counted'
    BY <1>10 DEF TakeLoads, Keeps, Rest
  <2>3. /\ Total \in Nat /\ Total' \in Nat
        /\ Total' + counted + 0 = Total + counted'
    BY <2>1, <2>2, Balance
  <2> QED
    BY <2>3, <1>0 DEF Even, Overwrites
<1>11. ASSUME NEW t \in Takers, TakeForgets(t) PROVE Goal
  <2>1. \A q \in Procs \ {t} : Keeps(q)' = Keeps(q)
    BY <1>11 DEF TakeForgets, Forget, Keeps
  <2>2. Rest' + Keeps(t)' + counted + 0 = Rest + Keeps(t) + counted'
    BY <1>11 DEF TakeForgets, Forget, Keeps, Rest
  <2>3. /\ Total \in Nat /\ Total' \in Nat
        /\ Total' + counted + 0 = Total + counted'
    BY <2>1, <2>2, Balance
  <2> QED
    BY <2>3, <1>0 DEF Even, Overwrites
<1>12. ASSUME NEW t \in Takers, Report(t) PROVE Goal
  <2>1. \A q \in Procs \ {t} : Keeps(q)' = Keeps(q)
    BY <1>12 DEF Report, Keeps
  <2>2. Rest' + Keeps(t)' + counted + 0 = Rest + Keeps(t) + counted'
    BY <1>12 DEF Report, Keeps, Rest
  <2>3. /\ Total \in Nat /\ Total' \in Nat
        /\ Total' + counted + 0 = Total + counted'
    BY <2>1, <2>2, Balance
  <2> QED
    BY <2>3, <1>0 DEF Even, Overwrites
<1>13. ASSUME NEW p \in Procs, Crash(p) PROVE Goal
  <2>1. \A q \in Procs \ {p} : Keeps(q)' = Keeps(q)
    BY <1>13 DEF Crash, Keeps
  <2>2. Rest' + Keeps(p)' + counted + 0 = Rest + Keeps(p) + counted'
    BY <1>13 DEF Crash, Keeps, Rest
  <2>3. /\ Total \in Nat /\ Total' \in Nat
        /\ Total' + counted + 0 = Total + counted'
    BY <2>1, <2>2, Balance
  <2> QED
    BY <2>3, <1>0 DEF Even, Overwrites
<1>14. ASSUME NEW p \in Procs, Age(p) PROVE Goal
  <2>1. \A q \in Procs \ {p} : Keeps(q)' = Keeps(q)
    BY <1>14 DEF Age, Keeps
  <2>2. Rest' + Keeps(p)' + counted + 0 = Rest + Keeps(p) + counted'
    BY <1>14 DEF Age, Keeps, Rest
  <2>3. /\ Total \in Nat /\ Total' \in Nat
        /\ Total' + counted + 0 = Total + counted'
    BY <2>1, <2>2, Balance
  <2> QED
    BY <2>3, <1>0 DEF Even, Overwrites
<1>15. ASSUME NEW p \in Procs, Sweep(p) PROVE Goal
  <2>1. \A q \in Procs \ {p} : Keeps(q)' = Keeps(q)
    BY <1>15 DEF Sweep, Abandoned, Forget, Keeps
  <2>2. Rest' + Keeps(p)' + counted + 0 = Rest + Keeps(p) + counted'
    BY <1>15 DEF Sweep, Abandoned, Forget, Keeps, Rest
  <2>3. /\ Total \in Nat /\ Total' \in Nat
        /\ Total' + counted + 0 = Total + counted'
    BY <2>1, <2>2, Balance
  <2> QED
    BY <2>3, <1>0 DEF Even, Overwrites
<1>16. ASSUME UNCHANGED vars PROVE Goal
  <2>1. \A q \in Procs : Keeps(q)' = Keeps(q)
    BY <1>16 DEF vars, Keeps
  <2>2. Rest' = Rest /\ counted' = counted
    BY <1>16 DEF vars, Rest
  <2>3. Kept' = Kept
    BY <1>16 DEF vars, Kept, Keeps
  <2>4. Total' = Total
    BY <2>2, <2>3, Zenon DEF Total
  <2>5. Total \in Nat
    BY KeptTyped
  <2> QED
    BY <2>2, <2>4, <2>5 DEF Even
<1> HIDE DEF Base, Procs, Goal
<1>17. Goal
  BY <1>1, <1>2, <1>3, <1>4, <1>5, <1>6, <1>7, <1>8, <1>9, <1>10, <1>11, <1>12,
     <1>13, <1>14, <1>15, <1>16
  DEF Next, BumperStep, TakerStep
<1> QED
  BY <1>17 DEF Goal

(* The initial states have the invariants and a total of nothing.             *)
LEMMA InitBase == Init => Base /\ Alone /\ Total = 0 /\ counted = 0
<1> SUFFICES ASSUME Init PROVE Base /\ Alone /\ Total = 0 /\ counted = 0
  OBVIOUS
<1>1. Base /\ Alone
  BY CounterAssumption
  DEF Init, Base, Typed, Places, Stolen, Alone, OneUp, Absent, Up, Procs, PCs
<1>2. Kept = {}
  <2>1. \A p \in Procs : Keeps(p) = 0
    BY CounterAssumption DEF Init, Keeps, Procs
  <2> QED
    BY <2>1 DEF Kept
<1>3. Cardinality(Kept) = 0
  BY <1>2, FS_EmptySet, Zenon
<1>4. reported = 0 /\ lost = 0 /\ dropped = 0 /\ counted = 0
  BY DEF Init
<1>5. Total = 0
  BY <1>3, <1>4 DEF Total, Rest
<1> QED
  BY <1>1, <1>4, <1>5

(* Half of docs/SPEC.md 6's "can lose or double-report a count" holds however  *)
(* many daemons there are: no eviction is ever reported, kept or waiting twice. *)
NeverTwice == Total <= counted

THEOREM CountsAreNeverDoubled == Spec => [](Base /\ NeverTwice)
<1>1. Init => Base /\ NeverTwice
  <2> SUFFICES ASSUME Init PROVE Base /\ NeverTwice
    OBVIOUS
  <2>1. Base /\ Total = 0 /\ counted = 0
    BY InitBase
  <2> QED
    BY <2>1 DEF NeverTwice
<1>2. Base /\ NeverTwice /\ [Next]_vars => Base' /\ NeverTwice'
  <2> SUFFICES ASSUME Base, NeverTwice, [Next]_vars PROVE Base' /\ NeverTwice'
    OBVIOUS
  <2>1. Base'
    BY BaseStep
  <2>2. Total \in Nat /\ Total' \in Nat /\ (Even \/ Overwrites)
    BY <2>1, TotalStep
  <2>3. counted \in Nat /\ counted' \in Nat
    BY <2>1, RestTyped
  <2>4. dropped \in Nat
    BY DEF Base, Typed
  <2>5. Total' <= counted'
    BY <2>2, <2>3, <2>4 DEF Even, Overwrites, NeverTwice
  <2> QED
    BY <2>1, <2>5 DEF NeverTwice
<1> QED
  BY <1>1, <1>2, PTL DEF Spec

(* The types; that dropped.json and the digests never count more mentions than *)
(* were evicted is that none is counted twice.                                *)
THEOREM CounterTypes == Spec => []TypeOK
<1>1. Base /\ NeverTwice => TypeOK
  <2> SUFFICES ASSUME Base, NeverTwice PROVE TypeOK
    OBVIOUS
  <2> DEFINE kept == Cardinality(Kept)
  <2>1. kept \in Nat
    BY KeptTyped
  <2>2. /\ dropped \in Nat /\ reported \in Nat /\ lost \in Nat
        /\ counted \in 0..MaxCounted
    BY DEF Base, Typed
  <2>3. reported + lost + dropped + kept <= counted
    BY DEF NeverTwice, Total, Rest
  <2> HIDE DEF kept
  <2>4. dropped \in 0..MaxCounted /\ reported \in 0..MaxCounted
    BY <2>1, <2>2, <2>3, CounterAssumption
  <2> QED
    BY <2>4 DEF Base, Typed, TypeOK, PCs
<1> QED
  BY <1>1, CountsAreNeverDoubled, PTL

(* "Neither a concurrent reader nor a concurrent bump can lose or double-report *)
(* a count": with any number of hooks, and daemons one after the other, every  *)
(* eviction is counted exactly once whatever steals, saves, fails, dies and is *)
(* swept.  Two daemons at once are excluded, and must be: one overwrites.      *)
THEOREM CountsAreConserved ==
  ASSUME Overlap = FALSE
  PROVE  Spec => []Conserved
<1>1. Conserved <=> Total = counted
  BY DEF Conserved, Total, Rest
<1>2. Init => Base /\ Alone /\ Conserved
  <2> SUFFICES ASSUME Init PROVE Base /\ Alone /\ Conserved
    OBVIOUS
  <2>1. Base /\ Alone /\ Total = 0 /\ counted = 0
    BY InitBase
  <2> QED
    BY <1>1, <2>1
<1>3. Base /\ Alone /\ Conserved /\ [Next]_vars => Base' /\ Alone' /\ Conserved'
  <2> SUFFICES ASSUME Base, Alone, Conserved, [Next]_vars
               PROVE  Base' /\ Alone' /\ Conserved'
    OBVIOUS
  <2>1. Base' /\ Alone'
    BY BaseStep, AloneStep
  <2>2. Total \in Nat /\ Total' \in Nat /\ (Even \/ Overwrites)
    BY <2>1, TotalStep
  <2>3. counted \in Nat /\ counted' \in Nat
    BY <2>1, RestTyped
  <2>4. (\E b \in Bumpers : BumpSaves(b)) => dropped = 0
    BY DEF Alone, Absent, BumpSaves
  <2>5. Total = counted
    BY <1>1
  <2>6. Total' = counted'
    BY <2>2, <2>3, <2>4, <2>5 DEF Even, Overwrites
  <2>7. Conserved'
    BY <2>6 DEF Conserved, Total, Rest
  <2> QED
    BY <2>1, <2>7
<1> QED
  BY <1>2, <1>3, PTL DEF Spec

=============================================================================
