---------------------------- MODULE DevDumpProofs ----------------------------
(***************************************************************************)
(* Proofs about DeployOrder and DevDump, for any number of deployments:    *)
(* the order is dependencies first, it is refused exactly on a cycle, the  *)
(* dump made from it lists upstreams first, and equal tags are those of    *)
(* equal chains.                                                           *)
(***************************************************************************)
EXTENDS DevDump, FiniteSetTheorems, SequenceTheorems, NaturalsInduction,
        WellFoundedInduction, TLAPS

-----------------------------------------------------------------------------
(* The types of the variables of DeployOrder.                              *)
OrderTypeOK ==
  /\ registered \in Nat
  /\ upstreams \in [Slugs -> SUBSET Names]
  /\ pc \in {"start", "sweep", "sorted", "raised"}
  /\ indeg \in [Slugs -> Nat]
  /\ order \in Seq(Slugs)
  /\ at \in 1 .. registered + 1
  /\ progressed \in BOOLEAN

(***************************************************************************)
(* The inductive invariant.  The counters, decremented while the sweep     *)
(* that reads them goes on, stay the number of registered upstreams that   *)
(* are not in the order.                                                   *)
(***************************************************************************)
Waiting(s) == {u \in upstreams[s] \cap Slugs : ~InOrder(u)}
CountersMatch ==
  IF pc = "start" THEN order = <<>> /\ at = 1
  ELSE \A s \in Slugs : ~InOrder(s) => indeg[s] = Cardinality(Waiting(s))

\* A sweep that has placed nothing has found nobody free.
NobodyFree ==
  pc # "start" /\ ~progressed => \A s \in 1 .. at - 1 : ~InOrder(s) => indeg[s] # 0

\* Where the loop is left: behind a sweep that has placed nothing.
LoopLeft ==
  pc \in {"sorted", "raised"} =>
    /\ at = registered + 1 /\ ~progressed
    /\ pc = "sorted" <=> Len(order) = registered

\* Nobody in a set whose members wait for each other is ever placed.
NobodyOfADeadlock ==
  \A S \in SUBSET Slugs : Deadlocked(S) => \A s \in S : ~InOrder(s)

OrderInv ==
  /\ OrderTypeOK /\ CountersMatch /\ NobodyFree /\ LoopLeft
  /\ DepsFirst /\ NobodyOfADeadlock

-----------------------------------------------------------------------------
(* Appending to the order.                                                 *)
LEMMA PlaceInOrder ==
  ASSUME NEW T, order \in Seq(T), NEW s \in T, order' = Append(order, s)
  PROVE  /\ order' \in Seq(T) /\ Len(order) \in Nat
         /\ DOMAIN order = 1 .. Len(order) /\ DOMAIN order' = 1 .. Len(order) + 1
         /\ \A i \in 1 .. Len(order) : order'[i] = order[i]
         /\ order'[Len(order) + 1] = s
         /\ \A t : InOrder(t)' <=> InOrder(t) \/ t = s
<1>1. /\ order' \in Seq(T) /\ Len(order) \in Nat
      /\ DOMAIN order = 1 .. Len(order) /\ DOMAIN order' = 1 .. Len(order) + 1
      /\ \A i \in 1 .. Len(order) : order'[i] = order[i]
      /\ order'[Len(order) + 1] = s
  BY AppendProperties, LenProperties
<1>2. \A t : InOrder(t)' <=> InOrder(t) \/ t = s
  BY <1>1 DEF InOrder
<1> QED
  BY <1>1, <1>2

(* What a deployment waits for is a finite set.                            *)
LEMMA WaitingIsFinite ==
  ASSUME OrderTypeOK, NEW s \in Slugs
  PROVE  IsFiniteSet(Waiting(s)) /\ Cardinality(Waiting(s)) \in Nat
<1>1. IsFiniteSet(Slugs)
  BY FS_Interval DEF Slugs, OrderTypeOK
<1>2. Waiting(s) \in SUBSET Slugs
  BY DEF Waiting
<1> QED
  BY <1>1, <1>2, FS_Subset, FS_CardinalityType

(* An order without repetitions holds all deployments iff it is as long as *)
(* the registry.                                                           *)
LEMMA FullOrder ==
  ASSUME OrderTypeOK, DepsFirst
  PROVE  Len(order) = registered <=> \A s \in Slugs : InOrder(s)
<1>1. /\ Len(order) \in Nat /\ order \in [1 .. Len(order) -> Slugs]
      /\ DOMAIN order = 1 .. Len(order)
  BY LenProperties DEF OrderTypeOK
<1>2. order \in Injection(1 .. Len(order), Slugs)
  BY <1>1 DEF DepsFirst, Injection, IsInjective
<1>3. /\ IsFiniteSet(Slugs) /\ Cardinality(Slugs) = registered
      /\ IsFiniteSet(1 .. Len(order)) /\ Cardinality(1 .. Len(order)) = Len(order)
  <2>1. registered \in Nat /\ registered \in Int /\ Len(order) \in Int /\ 1 \in Int
    BY <1>1 DEF OrderTypeOK
  <2>2. IsFiniteSet(Slugs) /\ Cardinality(Slugs) = registered
    BY <2>1, FS_Interval DEF Slugs
  <2>3. IsFiniteSet(1 .. Len(order)) /\ Cardinality(1 .. Len(order)) = Len(order)
    BY <1>1, <2>1, FS_Interval
  <2> QED
    BY <2>2, <2>3
<1>4. Len(order) = registered <=> order \in Surjection(1 .. Len(order), Slugs)
  BY <1>2, <1>3, FS_Injection
<1>5. order \in Surjection(1 .. Len(order), Slugs) <=> \A s \in Slugs : InOrder(s)
  BY <1>1 DEF Surjection, InOrder
<1> QED
  BY <1>4, <1>5

-----------------------------------------------------------------------------
LEMMA InitOrder == Init => OrderInv
<1> SUFFICES ASSUME Init PROVE OrderInv
  OBVIOUS
<1>1. /\ registered \in Nat /\ upstreams \in [Slugs -> SUBSET Names]
      /\ pc = "start" /\ order = <<>> /\ at = 1 /\ indeg = [s \in Slugs |-> 0]
      /\ progressed = FALSE
  BY MaxDeploymentsIsNat DEF Init
<1>2. OrderTypeOK
  <2>1. indeg \in [Slugs -> Nat] /\ at \in 1 .. registered + 1
    BY <1>1
  <2>2. order \in Seq(Slugs)
    BY <1>1, EmptySeq
  <2> QED
    BY <1>1, <2>1, <2>2 DEF OrderTypeOK
<1>3. DOMAIN order = {}
  BY <1>1
<1>4. DepsFirst /\ NobodyOfADeadlock
  BY <1>3 DEF DepsFirst, NobodyOfADeadlock, InOrder
<1> QED
  BY <1>1, <1>2, <1>4 DEF OrderInv, CountersMatch, NobodyFree, LoopLeft

LEMMA CountKeeps == OrderInv /\ CountUpstreams => OrderInv'
<1> SUFFICES ASSUME OrderInv, CountUpstreams PROVE OrderInv'
  OBVIOUS
<1>1. /\ pc = "start" /\ pc' = "sweep" /\ order = <<>>
      /\ UNCHANGED <<registered, upstreams, order, at, progressed>> /\ OrderTypeOK
      /\ indeg' = [s \in Slugs |-> Cardinality(upstreams[s] \cap Slugs)]
  BY DEF OrderInv, CountersMatch, CountUpstreams
<1>2. \A t : ~InOrder(t) /\ ~InOrder(t)'
  BY <1>1 DEF InOrder
<1>3. Slugs' = Slugs
  BY <1>1 DEF Slugs
<1>4. \A s \in Slugs : Waiting(s) = upstreams[s] \cap Slugs /\ Waiting(s)' = Waiting(s)
  BY <1>1, <1>2, <1>3 DEF Waiting
<1>5. OrderTypeOK'
  BY <1>1, <1>3, <1>4, WaitingIsFinite DEF OrderTypeOK, Names
<1>6. CountersMatch'
  BY <1>1, <1>3, <1>4 DEF CountersMatch
<1>7. NobodyFree' /\ LoopLeft'
  <2>1. at' = 1
    BY <1>1 DEF OrderInv, CountersMatch
  <2> QED
    BY <1>1, <2>1 DEF NobodyFree, LoopLeft
<1>8. DepsFirst' /\ NobodyOfADeadlock'
  BY <1>1, <1>2, <1>3 DEF DepsFirst, NobodyOfADeadlock
<1> QED
  BY <1>5, <1>6, <1>7, <1>8 DEF OrderInv

LEMMA PassOverKeeps == OrderInv /\ PassOver => OrderInv'
<1> SUFFICES ASSUME OrderInv, PassOver PROVE OrderInv'
  OBVIOUS
<1>1. /\ pc = "sweep" /\ at <= registered /\ at' = at + 1 /\ (InOrder(at) \/ indeg[at] # 0)
      /\ UNCHANGED <<registered, upstreams, pc, indeg, order, progressed>> /\ OrderTypeOK
  BY DEF OrderInv, PassOver, Sweeping
<1>2. /\ Slugs' = Slugs /\ \A t : InOrder(t)' <=> InOrder(t)
      /\ \A s : Waiting(s)' = Waiting(s)
  BY <1>1 DEF Slugs, InOrder, Waiting
<1>3. OrderTypeOK'
  BY <1>1, <1>2 DEF OrderTypeOK, Names
<1>4. CountersMatch' /\ LoopLeft'
  BY <1>1, <1>2 DEF OrderInv, CountersMatch, LoopLeft
<1>5. NobodyFree'
  <2> SUFFICES ASSUME ~progressed', NEW s \in 1 .. at, ~InOrder(s)
               PROVE  indeg[s] # 0
    BY <1>1, <1>2 DEF NobodyFree, OrderTypeOK
  <2>1. CASE s = at
    BY <1>1, <2>1
  <2>2. CASE s # at
    <3>1. s \in 1 .. at - 1
      BY <1>1, <2>2 DEF OrderTypeOK
    <3> QED
      BY <1>1, <3>1 DEF OrderInv, NobodyFree
  <2> QED
    BY <2>1, <2>2
<1>6. DepsFirst' /\ NobodyOfADeadlock'
  BY <1>1, <1>2 DEF OrderInv, DepsFirst, NobodyOfADeadlock, Deadlocked
<1> QED
  BY <1>3, <1>4, <1>5, <1>6 DEF OrderInv

(***************************************************************************)
(* Placing: nobody is waited for by the one that is placed, and each that  *)
(* names it waits for one less.                                            *)
(***************************************************************************)
LEMMA PlaceKeeps == OrderInv /\ Place => OrderInv'
<1> SUFFICES ASSUME OrderInv, Place PROVE OrderInv'
  OBVIOUS
<1> DEFINE n == Len(order)
<1>1. /\ pc = "sweep" /\ at <= registered /\ at' = at + 1 /\ ~InOrder(at) /\ indeg[at] = 0
      /\ UNCHANGED <<registered, upstreams, pc>> /\ progressed' = TRUE
      /\ indeg' = [s \in Slugs |-> IF at \in upstreams[s] /\ ~InOrder(s) /\ s # at
                                   THEN indeg[s] - 1 ELSE indeg[s]]
      /\ order' = Append(order, at) /\ OrderTypeOK
  BY DEF OrderInv, Place, Sweeping
<1>2. at \in Slugs /\ order \in Seq(Slugs) /\ Slugs' = Slugs
  BY <1>1 DEF OrderTypeOK, Slugs
<1>3. /\ order' \in Seq(Slugs) /\ n \in Nat
      /\ DOMAIN order = 1 .. n /\ DOMAIN order' = 1 .. n + 1
      /\ \A i \in 1 .. n : order'[i] = order[i]
      /\ order'[n + 1] = at
      /\ \A t : InOrder(t)' <=> InOrder(t) \/ t = at
  BY <1>1, <1>2, PlaceInOrder
<1>4. \A s \in Slugs : ~InOrder(s) => indeg[s] = Cardinality(Waiting(s))
  BY <1>1 DEF OrderInv, CountersMatch
<1>5. \A u \in upstreams[at] \cap Slugs : InOrder(u)
  <2>1. Cardinality(Waiting(at)) = 0
    BY <1>1, <1>2, <1>4
  <2>2. Waiting(at) = {}
    BY <1>1, <1>2, <2>1, WaitingIsFinite, FS_EmptySet
  <2> QED
    BY <2>2 DEF Waiting
<1>6. ASSUME NEW s \in Slugs, at \in upstreams[s], ~InOrder(s)
      PROVE  /\ Waiting(s)' = Waiting(s) \ {at}
             /\ Cardinality(Waiting(s)') = indeg[s] - 1 /\ indeg[s] - 1 \in Nat
  <2>1. at \in Waiting(s)
    BY <1>1, <1>2, <1>6 DEF Waiting
  <2>2. Waiting(s)' = Waiting(s) \ {at}
    BY <1>1, <1>2, <1>3 DEF Waiting
  <2>3. IsFiniteSet(Waiting(s)) /\ Cardinality(Waiting(s)) \in Nat
    BY <1>1, WaitingIsFinite
  <2>4. Cardinality(Waiting(s) \ {at}) = Cardinality(Waiting(s)) - 1
    BY <2>1, <2>3, FS_RemoveElement
  <2>5. Cardinality(Waiting(s)) # 0
    BY <2>1, <2>3, FS_EmptySet
  <2> QED
    BY <1>4, <1>6, <2>2, <2>3, <2>4, <2>5
<1>7. OrderTypeOK'
  <2>1. indeg' \in [Slugs -> Nat]
    BY <1>1, <1>6 DEF OrderTypeOK
  <2>2. at' \in 1 .. registered + 1
    BY <1>1 DEF OrderTypeOK
  <2> QED
    BY <1>1, <1>2, <1>3, <2>1, <2>2 DEF OrderTypeOK, Names
<1>8. CountersMatch'
  <2> SUFFICES ASSUME NEW s \in Slugs, ~InOrder(s), s # at
               PROVE  indeg'[s] = Cardinality(Waiting(s)')
    BY <1>1, <1>2, <1>3 DEF CountersMatch
  <2>1. CASE at \in upstreams[s]
    BY <1>1, <1>6, <2>1
  <2>2. CASE at \notin upstreams[s]
    <3>1. Waiting(s)' = Waiting(s)
      BY <1>1, <1>2, <1>3, <2>2 DEF Waiting
    <3> QED
      BY <1>1, <1>4, <2>2, <3>1
  <2> QED
    BY <2>1, <2>2
<1>9. NobodyFree' /\ LoopLeft'
  BY <1>1 DEF NobodyFree, LoopLeft
<1>10. DepsFirst'
  <2>1. ASSUME NEW i \in 1 .. n + 1, NEW u \in upstreams[order'[i]] \cap Slugs
        PROVE  \E j \in 1 .. i - 1 : order'[j] = u
    <3>1. CASE i = n + 1
      BY <1>3, <1>5, <2>1, <3>1 DEF InOrder
    <3>2. CASE i # n + 1
      <4>1. i \in 1 .. n
        BY <1>3, <3>2
      <4>2. PICK j \in 1 .. i - 1 : order[j] = u
        BY <1>3, <2>1, <4>1 DEF OrderInv, DepsFirst
      <4>3. j \in 1 .. n
        BY <1>3, <4>1, <4>2
      <4> QED
        BY <1>3, <4>2, <4>3
    <3> QED
      BY <3>1, <3>2
  <2>2. ASSUME NEW i \in 1 .. n + 1, NEW j \in 1 .. n + 1, order'[i] = order'[j]
        PROVE  i = j
    <3>1. \A k \in 1 .. n : order'[k] # at
      BY <1>1, <1>3 DEF InOrder
    <3>2. CASE i \in 1 .. n /\ j \in 1 .. n
      BY <1>3, <2>2, <3>2 DEF OrderInv, DepsFirst
    <3>3. CASE i = n + 1 \/ j = n + 1
      BY <1>3, <2>2, <3>1, <3>3
    <3> QED
      BY <1>3, <3>2, <3>3
  <2> QED
    BY <1>1, <1>2, <1>3, <2>1, <2>2 DEF DepsFirst
<1>11. NobodyOfADeadlock'
  <2> SUFFICES ASSUME NEW S \in SUBSET Slugs, Deadlocked(S)
               PROVE  \A s \in S : ~InOrder(s) /\ s # at
    BY <1>1, <1>2, <1>3 DEF NobodyOfADeadlock, Deadlocked
  <2>1. \A s \in S : ~InOrder(s)
    BY DEF OrderInv, NobodyOfADeadlock
  <2>2. at \notin S
    BY <1>5, <2>1 DEF Deadlocked
  <2> QED
    BY <2>1, <2>2
<1> QED
  BY <1>7, <1>8, <1>9, <1>10, <1>11 DEF OrderInv

LEMMA SweepAgainKeeps == OrderInv /\ SweepAgain => OrderInv'
<1> SUFFICES ASSUME OrderInv, SweepAgain PROVE OrderInv'
  OBVIOUS
<1>1. /\ pc = "sweep" /\ at' = 1 /\ progressed' = FALSE
      /\ UNCHANGED <<registered, upstreams, pc, indeg, order>> /\ OrderTypeOK
  BY DEF OrderInv, SweepAgain
<1>2. /\ Slugs' = Slugs /\ \A t : InOrder(t)' <=> InOrder(t)
      /\ \A s : Waiting(s)' = Waiting(s)
  BY <1>1 DEF Slugs, InOrder, Waiting
<1>3. OrderTypeOK'
  <2>1. at' \in 1 .. registered + 1
    BY <1>1 DEF OrderTypeOK
  <2> QED
    BY <1>1, <1>2, <2>1 DEF OrderTypeOK, Names
<1>4. CountersMatch' /\ NobodyFree' /\ LoopLeft'
  BY <1>1, <1>2 DEF OrderInv, CountersMatch, NobodyFree, LoopLeft
<1>5. DepsFirst' /\ NobodyOfADeadlock'
  BY <1>1, <1>2 DEF OrderInv, DepsFirst, NobodyOfADeadlock, Deadlocked
<1> QED
  BY <1>3, <1>4, <1>5 DEF OrderInv

LEMMA FinishKeeps == OrderInv /\ Finish => OrderInv'
<1> SUFFICES ASSUME OrderInv, Finish PROVE OrderInv'
  OBVIOUS
<1>1. /\ pc = "sweep" /\ at > registered /\ ~progressed
      /\ pc' = IF Len(order) = registered THEN "sorted" ELSE "raised"
      /\ UNCHANGED <<registered, upstreams, indeg, order, at, progressed>> /\ OrderTypeOK
  BY DEF OrderInv, Finish
<1>2. /\ Slugs' = Slugs /\ \A t : InOrder(t)' <=> InOrder(t)
      /\ \A s : Waiting(s)' = Waiting(s)
  BY <1>1 DEF Slugs, InOrder, Waiting
<1>3. OrderTypeOK'
  BY <1>1, <1>2 DEF OrderTypeOK, Names
<1>4. CountersMatch' /\ NobodyFree'
  BY <1>1, <1>2 DEF OrderInv, CountersMatch, NobodyFree
<1>5. LoopLeft'
  BY <1>1 DEF LoopLeft, OrderTypeOK
<1>6. DepsFirst' /\ NobodyOfADeadlock'
  BY <1>1, <1>2 DEF OrderInv, DepsFirst, NobodyOfADeadlock, Deadlocked
<1> QED
  BY <1>3, <1>4, <1>5, <1>6 DEF OrderInv

LEMMA OrderKeeps == OrderInv /\ [Next]_vars => OrderInv'
<1> SUFFICES ASSUME OrderInv, [Next]_vars PROVE OrderInv'
  OBVIOUS
<1>1. CASE Step
  BY <1>1, CountKeeps, PassOverKeeps, PlaceKeeps, SweepAgainKeeps, FinishKeeps DEF Step
<1>2. CASE UNCHANGED vars
  <2>1. UNCHANGED <<registered, upstreams, pc, indeg, order, at, progressed>>
    BY <1>2 DEF vars
  <2>2. /\ Slugs' = Slugs /\ \A t : InOrder(t)' <=> InOrder(t)
        /\ \A s : Waiting(s)' = Waiting(s)
    BY <2>1 DEF Slugs, InOrder, Waiting
  <2>3. OrderTypeOK' /\ CountersMatch' /\ NobodyFree' /\ LoopLeft'
    BY <2>1, <2>2 DEF OrderInv, OrderTypeOK, Names, CountersMatch, NobodyFree, LoopLeft
  <2>4. DepsFirst' /\ NobodyOfADeadlock'
    BY <2>1, <2>2 DEF OrderInv, DepsFirst, NobodyOfADeadlock, Deadlocked
  <2> QED
    BY <2>3, <2>4 DEF OrderInv
<1> QED
  BY <1>1, <1>2 DEF Next, Ended

-----------------------------------------------------------------------------
(***************************************************************************)
(* The verdict.  Where the loop gives up, those that are left each wait    *)
(* for another that is left; where it ends well, everybody is placed, and  *)
(* nobody who is placed is in a deadlock.                                  *)
(***************************************************************************)
LEMMA VerdictIsRight == OrderInv => RaisesExactlyOnCycles
<1> SUFFICES ASSUME OrderInv PROVE RaisesExactlyOnCycles
  OBVIOUS
<1>1. OrderTypeOK /\ DepsFirst
  BY DEF OrderInv
<1>2. Len(order) = registered <=> \A s \in Slugs : InOrder(s)
  BY <1>1, FullOrder
<1>3. ASSUME pc = "raised"
      PROVE  \E S \in SUBSET Slugs : Deadlocked(S)
  <2> DEFINE S == {s \in Slugs : ~InOrder(s)}
  <2>1. S # {}
    BY <1>2, <1>3 DEF OrderInv, LoopLeft
  <2>2. ASSUME NEW s \in S
        PROVE  upstreams[s] \cap S # {}
    <3>1. s \in 1 .. at - 1 /\ ~progressed
      BY <1>1, <1>3 DEF OrderInv, LoopLeft, Slugs, OrderTypeOK
    <3>2. indeg[s] # 0
      BY <1>3, <3>1 DEF OrderInv, NobodyFree
    <3>3. Cardinality(Waiting(s)) # 0
      BY <1>3, <3>2 DEF OrderInv, CountersMatch
    <3>4. Waiting(s) # {}
      BY <3>3, FS_EmptySet
    <3> QED
      BY <3>4 DEF Waiting
  <2> QED
    BY <2>1, <2>2 DEF Deadlocked
<1>4. ASSUME pc = "sorted"
      PROVE  /\ \A S \in SUBSET Slugs : ~Deadlocked(S)
             /\ \A s \in Slugs : InOrder(s)
  <2>1. \A s \in Slugs : InOrder(s)
    BY <1>2, <1>4 DEF OrderInv, LoopLeft
  <2> QED
    BY <2>1 DEF OrderInv, NobodyOfADeadlock, Deadlocked
<1> QED
  BY <1>3, <1>4 DEF RaisesExactlyOnCycles

(***************************************************************************)
(* topo_order returns the deployments with the upstreams of each before    *)
(* it and none twice, at every moment of the loops.                        *)
(***************************************************************************)
THEOREM OrderIsDepsFirst == Spec => []DepsFirst
<1>1. OrderInv => DepsFirst
  BY DEF OrderInv
<1> QED
  BY InitOrder, OrderKeeps, <1>1, PTL DEF Spec

(***************************************************************************)
(* topo_order raises exactly when some deployments wait for each other,    *)
(* however they are interleaved with others and with unregistered names.   *)
(***************************************************************************)
THEOREM OrderRaisesOnCycles == Spec => []RaisesExactlyOnCycles
  BY InitOrder, OrderKeeps, VerdictIsRight, PTL DEF Spec

-----------------------------------------------------------------------------
(***************************************************************************)
(* The inductive invariant of the dump, beside that of the order: the      *)
(* entries follow the order, which is finished before the first of them.   *)
(***************************************************************************)
EntriesListed == entries \in Seq({entries[i] : i \in DOMAIN entries})

EntriesFollowOrder ==
  /\ dump = "order" => entries = <<>>
  /\ entries # <<>> => pc = "sorted"
  /\ Len(entries) <= Len(order)
  /\ \A i \in DOMAIN entries :
       /\ entries[i].slug = order[i]
       /\ entries[i].deps \subseteq upstreams[order[i]]
       /\ upstreams[order[i]] \subseteq Slugs

DumpVerdict ==
  /\ dump \in {"call", "dumped"} => pc = "sorted"
  /\ dump = "dumped" => Len(entries) = Len(order)

DumpInv == OrderInv /\ EntriesListed /\ EntriesFollowOrder /\ DumpVerdict

(* Appending an entry.                                                     *)
LEMMA EntryAppended ==
  ASSUME EntriesListed, NEW e, entries' = Append(entries, e)
  PROVE  /\ EntriesListed' /\ Len(entries) \in Nat /\ Len(entries') = Len(entries) + 1
         /\ DOMAIN entries = 1 .. Len(entries) /\ DOMAIN entries' = 1 .. Len(entries) + 1
         /\ \A i \in 1 .. Len(entries) : entries'[i] = entries[i]
         /\ entries'[Len(entries) + 1] = e
<1> DEFINE T == {entries[i] : i \in DOMAIN entries} \cup {e}
           n == Len(entries)
<1>1. entries \in Seq(T) /\ e \in T
  <2>1. /\ n \in Nat /\ entries \in [1 .. n -> {entries[i] : i \in DOMAIN entries}]
    BY LenProperties DEF EntriesListed
  <2> QED
    BY <2>1, SeqDef
<1> HIDE DEF T
<1>2. /\ n \in Nat /\ Len(entries') = n + 1 /\ entries' \in Seq(T)
      /\ DOMAIN entries = 1 .. n /\ DOMAIN entries' = 1 .. n + 1
      /\ \A i \in 1 .. n : entries'[i] = entries[i]
      /\ entries'[n + 1] = e
  BY <1>1, AppendProperties, LenProperties
<1>3. EntriesListed'
  <2> DEFINE U == {entries'[i] : i \in DOMAIN entries'}
  <2>1. entries' \in [1 .. n + 1 -> T]
    BY <1>2, LenProperties
  <2>2. entries' \in [1 .. n + 1 -> U]
    BY <1>2, <2>1
  <2> HIDE DEF U
  <2>3. entries' \in Seq(U)
    <3>1. n + 1 \in Nat
      BY <1>2
    <3>2. entries' \in UNION {[1 .. m -> U] : m \in Nat}
      BY <2>2, <3>1
    <3> QED
      BY <3>2, SeqDef
  <2> QED
    BY <2>3 DEF EntriesListed, U
<1> QED
  BY <1>2, <1>3

LEMMA InitDump == DevInit => DumpInv
<1> SUFFICES ASSUME DevInit PROVE DumpInv
  OBVIOUS
<1>1. Init /\ dump = "order" /\ entries = <<>> /\ order = <<>>
  BY DEF DevInit, Init
<1>2. EntriesListed
  BY <1>1, EmptySeq DEF EntriesListed
<1>3. EntriesFollowOrder
  BY <1>1 DEF EntriesFollowOrder
<1>4. DumpVerdict
  BY <1>1 DEF DumpVerdict
<1> QED
  BY <1>1, <1>2, <1>3, <1>4, InitOrder DEF DumpInv

(* A step of the dump is one of topo_order or leaves its variables alone.  *)
LEMMA DumpMovesOrder == [DevNext]_devVars => [Next]_vars
<1>1. ASSUME NEW args \in FactoryArgs,
             FactoryRaises(args) \/ RaiseInKeygen(args) \/ EnterImage(args) \/ EnterChain(args)
      PROVE  UNCHANGED vars
  BY <1>1 DEF FactoryRaises, RaiseInKeygen, EnterImage, EnterChain, Fail, Enter
<1>2. CallDeployment => UNCHANGED vars
  BY <1>1 DEF CallDeployment, BindUnknown, CallRaises, EnterUnhandled, Fail, Enter
<1> QED
  BY <1>2 DEF DevNext, DumpStep, Order, RaiseOnHints, RaiseOnCycle, StartCalls, FinishDump,
              DumpEnded, Fail, Next, devVars

(* Adding the entry of the next deployment of the order.                   *)
LEMMA EnterKeeps ==
  ASSUME DumpInv, Called,
         NEW driver, NEW image, NEW chain, NEW keys,
         NEW deps \in SUBSET upstreams[Slug],
         Enter(driver, image, chain, keys, deps)
  PROVE  EntriesListed' /\ EntriesFollowOrder' /\ DumpVerdict'
<1> DEFINE e == [slug |-> Slug, driver |-> driver, image |-> image,
                 chain |-> chain, keys |-> keys, deps |-> deps]
           n == Len(entries)
<1>1. /\ dump = "call" /\ n < Len(order) /\ upstreams[Slug] \subseteq Slugs
      /\ entries' = Append(entries, e) /\ UNCHANGED <<vars, dump>> /\ EntriesListed
  BY DEF DumpInv, Called, Calling, UnknownUpstreams, Enter
<1>2. e.slug = order[n + 1] /\ e.deps \subseteq upstreams[order[n + 1]]
  BY DEF Slug
<1>3. UNCHANGED <<registered, upstreams, pc, order>> /\ Slugs' = Slugs
  BY <1>1 DEF vars, Slugs
<1> HIDE DEF e
<1>4. /\ EntriesListed' /\ n \in Nat /\ Len(entries') = n + 1
      /\ DOMAIN entries = 1 .. n /\ DOMAIN entries' = 1 .. n + 1
      /\ \A i \in 1 .. n : entries'[i] = entries[i]
      /\ entries'[n + 1] = e
  BY <1>1, EntryAppended
<1>5. Len(order) \in Nat /\ pc = "sorted"
  BY <1>1, LenProperties DEF DumpInv, OrderInv, OrderTypeOK, DumpVerdict
<1>6. ASSUME NEW i \in 1 .. n + 1
      PROVE  /\ entries'[i].slug = order[i]
             /\ entries'[i].deps \subseteq upstreams[order[i]]
             /\ upstreams[order[i]] \subseteq Slugs
  <2>1. CASE i = n + 1
    BY <1>1, <1>2, <1>4, <2>1 DEF Slug
  <2>2. CASE i # n + 1
    <3>1. i \in 1 .. n
      BY <1>4, <2>2
    <3> QED
      BY <1>4, <3>1 DEF DumpInv, EntriesFollowOrder
  <2> QED
    BY <2>1, <2>2
<1>7. EntriesFollowOrder'
  BY <1>1, <1>3, <1>4, <1>5, <1>6 DEF EntriesFollowOrder
<1>8. DumpVerdict'
  BY <1>1, <1>3, <1>5 DEF DumpVerdict
<1> QED
  BY <1>4, <1>7, <1>8

(* Every step that adds no entry.                                          *)
LEMMA OtherStepKeeps ==
  ASSUME DumpInv, UNCHANGED entries,
         \/ Order \/ RaiseOnHints \/ RaiseOnCycle \/ StartCalls \/ BindUnknown
         \/ Called /\ \E cause \in {"body", "keygen"} : Fail(cause)
         \/ FinishDump \/ UNCHANGED devVars
  PROVE  EntriesListed' /\ EntriesFollowOrder' /\ DumpVerdict'
<1>1. EntriesListed'
  BY DEF DumpInv, EntriesListed
<1>2. CASE Order
  <2>1. /\ dump = "order" /\ entries = <<>> /\ UNCHANGED <<dump, entries>>
        /\ OrderTypeOK'
    BY <1>2, OrderKeeps DEF Order, dumpVars, DumpInv, EntriesFollowOrder, Next, OrderInv
  <2>2. Len(order') \in Nat
    BY <2>1, LenProperties DEF OrderTypeOK
  <2> QED
    BY <1>1, <2>1, <2>2 DEF EntriesFollowOrder, DumpVerdict
<1>3. ASSUME UNCHANGED vars,
             dump' = "order" => entries = <<>>
      PROVE  EntriesFollowOrder'
  BY <1>3 DEF DumpInv, EntriesFollowOrder, vars, Slugs
<1>4. UNCHANGED vars => UNCHANGED <<registered, upstreams, pc, order, Slugs>>
  BY DEF vars, Slugs
<1>5. CASE RaiseOnHints \/ RaiseOnCycle
  <2>1. EntriesFollowOrder'
    BY <1>3, <1>5 DEF RaiseOnHints, RaiseOnCycle, Fail
  <2>2. DumpVerdict'
    BY <1>4, <1>5 DEF RaiseOnHints, RaiseOnCycle, Fail, DumpVerdict
  <2> QED
    BY <1>1, <2>1, <2>2
<1>6. CASE StartCalls
  <2>1. EntriesFollowOrder'
    BY <1>3, <1>6 DEF StartCalls
  <2>2. DumpVerdict'
    BY <1>4, <1>6 DEF StartCalls, DumpVerdict
  <2> QED
    BY <1>1, <2>1, <2>2
<1>7. CASE BindUnknown
  <2>1. Slug \in Slugs
    <3>1. /\ Len(entries) < Len(order) /\ Len(entries) \in Nat /\ Len(order) \in Nat
          /\ order \in Seq(Slugs)
      BY <1>7, LenProperties
      DEF BindUnknown, Calling, DumpInv, OrderInv, OrderTypeOK, EntriesListed
    <3> QED
      BY <3>1, ElementOfSeq DEF Slug
  <2>2. ~(upstreams[Slug] \subseteq Slugs)
    BY <1>7 DEF BindUnknown, UnknownUpstreams
  <2>3. EntriesFollowOrder'
    BY <1>3, <1>7 DEF BindUnknown, Fail
  <2>4. DumpVerdict'
    BY <1>4, <1>7, <2>1, <2>2 DEF BindUnknown, Fail, DumpVerdict
  <2> QED
    BY <1>1, <2>3, <2>4
<1>8. CASE Called /\ \E cause \in {"body", "keygen"} : Fail(cause)
  <2>1. EntriesFollowOrder'
    BY <1>3, <1>8 DEF Fail
  <2>2. DumpVerdict'
    BY <1>4, <1>8 DEF Fail, DumpVerdict
  <2> QED
    BY <1>1, <2>1, <2>2
<1>9. CASE FinishDump
  <2>1. EntriesFollowOrder'
    BY <1>3, <1>9 DEF FinishDump
  <2>2. DumpVerdict'
    BY <1>4, <1>9 DEF FinishDump, DumpVerdict, DumpInv
  <2> QED
    BY <1>1, <2>1, <2>2
<1>10. CASE UNCHANGED devVars
  <2>1. EntriesFollowOrder'
    BY <1>3, <1>10 DEF devVars, dumpVars, DumpInv, EntriesFollowOrder
  <2>2. DumpVerdict'
    BY <1>4, <1>10 DEF devVars, dumpVars, DumpVerdict, DumpInv
  <2> QED
    BY <1>1, <2>1, <2>2
<1> QED
  BY <1>2, <1>5, <1>6, <1>7, <1>8, <1>9, <1>10

LEMMA DumpKeeps == DumpInv /\ [DevNext]_devVars => DumpInv'
<1> SUFFICES ASSUME DumpInv, [DevNext]_devVars PROVE DumpInv'
  OBVIOUS
<1>1. OrderInv'
  BY DumpMovesOrder, OrderKeeps DEF DumpInv
<1> SUFFICES EntriesListed' /\ EntriesFollowOrder' /\ DumpVerdict'
  BY <1>1 DEF DumpInv
<1>2. CASE Order \/ RaiseOnHints \/ RaiseOnCycle \/ StartCalls \/ BindUnknown \/ FinishDump
           \/ UNCHANGED devVars
  <2>1. UNCHANGED entries
    BY <1>2 DEF Order, RaiseOnHints, RaiseOnCycle, StartCalls, BindUnknown, FinishDump, Fail,
                devVars, dumpVars
  <2> QED
    BY <1>2, <2>1, OtherStepKeeps
<1>3. CASE CallRaises
  BY <1>3, OtherStepKeeps DEF CallRaises, Fail
<1>4. CASE EnterUnhandled
  BY <1>4, EnterKeeps DEF EnterUnhandled
<1>5. ASSUME NEW args \in FactoryArgs,
             FactoryRaises(args) \/ RaiseInKeygen(args)
      PROVE  EntriesListed' /\ EntriesFollowOrder' /\ DumpVerdict'
  <2>1. Called /\ (Fail("body") \/ Fail("keygen")) /\ UNCHANGED entries
    BY <1>5 DEF FactoryRaises, RaiseInKeygen, Returns, Fail
  <2> QED
    BY <2>1, OtherStepKeeps
<1>6. ASSUME NEW args \in FactoryArgs,
             EnterImage(args) \/ EnterChain(args)
      PROVE  EntriesListed' /\ EntriesFollowOrder' /\ DumpVerdict'
  <2>1. Called
    BY <1>6 DEF EnterImage, EnterChain, Returns
  <2>2. CASE EnterImage(args)
    BY <2>1, <2>2, EnterKeeps DEF EnterImage
  <2>3. CASE EnterChain(args)
    BY <2>1, <2>3, EnterKeeps DEF EnterChain
  <2> QED
    BY <1>6, <2>2, <2>3
<1>7. CASE CallDeployment
  BY <1>2, <1>3, <1>4, <1>5, <1>6, <1>7 DEF CallDeployment
<1> QED
  BY <1>2, <1>7 DEF DevNext, DumpStep, DumpEnded

-----------------------------------------------------------------------------
(***************************************************************************)
(* The order stays dependencies first while the dump is made from it.      *)
(***************************************************************************)
THEOREM DumpKeepsDepsFirst == DevSpec => []DepsFirst
<1>1. DumpInv => DepsFirst
  BY DEF DumpInv, OrderInv
<1> QED
  BY InitDump, DumpKeeps, <1>1, PTL DEF DevSpec

(***************************************************************************)
(* Within the dump, too, the order is refused exactly on a cycle.          *)
(***************************************************************************)
THEOREM DumpRaisesOnCycles == DevSpec => []RaisesExactlyOnCycles
<1>1. DumpInv => RaisesExactlyOnCycles
  BY VerdictIsRight DEF DumpInv
<1> QED
  BY InitDump, DumpKeeps, <1>1, PTL DEF DevSpec

(***************************************************************************)
(* Whatever the registry holds and the deployments return, an entry of the *)
(* dump stands below all it depends on, and a dump that ends well has each *)
(* deployment once.                                                        *)
(***************************************************************************)
THEOREM DumpIsDepsFirst == DevSpec => []DepsDumpedFirst
<1>1. DumpInv => DepsDumpedFirst
  <2> SUFFICES ASSUME DumpInv PROVE DepsDumpedFirst
    OBVIOUS
  <2>1. /\ Len(entries) \in Nat /\ DOMAIN entries = 1 .. Len(entries)
        /\ Len(order) \in Nat /\ DOMAIN order = 1 .. Len(order)
        /\ Len(entries) <= Len(order)
    BY LenProperties
    DEF DumpInv, OrderInv, OrderTypeOK, EntriesListed, EntriesFollowOrder
  <2>2. \A i \in DOMAIN entries : entries[i].slug = order[i]
    BY DEF DumpInv, EntriesFollowOrder
  <2>3. ASSUME NEW i \in DOMAIN entries, NEW u \in entries[i].deps
        PROVE  \E j \in 1 .. i - 1 : entries[j].slug = u
    <3>1. u \in upstreams[order[i]] \cap Slugs
      BY <2>3 DEF DumpInv, EntriesFollowOrder
    <3>2. PICK j \in 1 .. i - 1 : order[j] = u
      BY <2>1, <3>1 DEF DumpInv, OrderInv, DepsFirst
    <3> QED
      BY <2>1, <2>2, <3>2
  <2>4. ASSUME dump = "dumped", NEW s \in Slugs
        PROVE  \E i \in DOMAIN entries : \A j \in DOMAIN entries :
                 entries[j].slug = s <=> j = i
    <3>1. Len(entries) = Len(order) /\ pc = "sorted"
      BY <2>4 DEF DumpInv, DumpVerdict
    <3>2. PICK i \in DOMAIN order : order[i] = s
      BY <3>1, VerdictIsRight DEF DumpInv, RaisesExactlyOnCycles, InOrder
    <3>3. \A j \in DOMAIN order : order[j] = order[i] => j = i
      BY DEF DumpInv, OrderInv, DepsFirst
    <3> QED
      BY <2>1, <2>2, <3>1, <3>2, <3>3
  <2> QED
    BY <2>3, <2>4 DEF DepsDumpedFirst
<1> QED
  BY InitDump, DumpKeeps, <1>1, PTL DEF DevSpec

-----------------------------------------------------------------------------
(* Induction over the numbers up to n, through the set they form.          *)
LEMMA UpTo ==
  ASSUME NEW n \in Nat, NEW P, 0 \in P, \A i \in 1 .. n : i - 1 \in P => i \in P
  PROVE  \A i \in 0 .. n : i \in P
<1> DEFINE R == {ss \in Nat \X Nat : ss[1] < ss[2]}
           missing == (0 .. n) \ P
<1>1. IsWellFoundedOn(R, Nat)
  BY NatLessThanWellFounded DEF OpToRel
<1>2. SUFFICES ASSUME missing # {} PROVE FALSE
  OBVIOUS
<1>3. missing \subseteq Nat
  OBVIOUS
<1>4. PICK x \in missing : \A y \in missing : ~(<<y, x>> \in R)
  <2> HIDE DEF R, missing
  <2> QED
    BY <1>1, <1>2, <1>3, WFMin
<1>5. x \in 1 .. n
  OBVIOUS
<1>6. x - 1 \in 0 .. n /\ x - 1 \in Nat /\ x - 1 < x /\ x \in Nat
  BY <1>5
<1>7. <<x - 1, x>> \in R
  BY <1>6
<1>8. x - 1 \notin missing
  BY <1>4, <1>7
<1> QED
  BY <1>5, <1>6, <1>8

-----------------------------------------------------------------------------
(***************************************************************************)
(* ResolvePolicy is recursive over compositions.  Resolution is one step   *)
(* of it; g holds the results of the policies in p.                        *)
(***************************************************************************)
Resolution(g, p, cmd, w) ==
  CASE p.policy = "none" -> [tag |-> "none"]
    [] p.policy = "forever" ->
         [tag |-> "forever", cmd |-> cmd, env |-> EnvSubset(p.env_keys, w)]
    [] p.policy = "ttl" ->
         [tag |-> "ttl", bucket |-> w.now \div p.duration,
          cmd |-> cmd, env |-> EnvSubset(p.env_keys, w)]
    [] p.policy = "on_change" ->
         [tag |-> "sha",
          hashes |-> [i \in DOMAIN p.paths |-> PathHash(w.files[p.paths[i]])]]
    [] OTHER ->
         [tag |-> "compose", parts |-> [i \in DOMAIN p.subs |-> g[p.subs[i]]]]

Resolves(g, D, cmd, w) == g = [p \in D |-> Resolution(g, p, cmd, w)]

\* A set of policies that holds those its compositions are made of.
HoldsParts(D) ==
  /\ D \subseteq Policies
  /\ \A p \in D : p.policy = "compose" => \A i \in DOMAIN p.subs : p.subs[i] \in D

AgreeOnParts(g, h, p) ==
  p.policy = "compose" => \A i \in DOMAIN p.subs : g[p.subs[i]] = h[p.subs[i]]

LEMMA PolicyKnown ==
  ASSUME NEW p \in Policies
  PROVE  /\ p.policy \in {"none", "forever", "ttl", "on_change", "compose"}
         /\ p.policy = "compose" => p.subs \in Seq(Policies)
<1>1. IsPolicy(p)
  BY PoliciesAreKnown
<1> QED
  BY <1>1 DEF IsPolicy

LEMMA ResolutionOfParts ==
  ASSUME NEW g, NEW h, NEW p \in Policies, NEW cmd, NEW w, AgreeOnParts(g, h, p)
  PROVE  Resolution(g, p, cmd, w) = Resolution(h, p, cmd, w)
<1>1. p.policy = "compose" =>
        [i \in DOMAIN p.subs |-> g[p.subs[i]]] = [i \in DOMAIN p.subs |-> h[p.subs[i]]]
  BY DEF AgreeOnParts
<1>2. CASE p.policy = "compose"
  BY <1>1, <1>2 DEF Resolution
<1>3. CASE p.policy # "compose"
  BY <1>3, PolicyKnown DEF Resolution
<1> QED
  BY <1>2, <1>3

(* The least of some policies: none of them is a part of it.               *)
LEMMA InnermostPolicy ==
  ASSUME NEW S, S \subseteq Policies, S # {}
  PROVE  \E p \in S : p.policy = "compose" => \A i \in DOMAIN p.subs : p.subs[i] \notin S
BY PoliciesNest

LEMMA ResolutionsAgree ==
  ASSUME NEW cmd, NEW w, NEW D, NEW E, HoldsParts(D), HoldsParts(E),
         NEW g, NEW h, Resolves(g, D, cmd, w), Resolves(h, E, cmd, w)
  PROVE  \A p \in D \cap E : g[p] = h[p]
<1> DEFINE S == {p \in D \cap E : g[p] # h[p]}
<1> SUFFICES ASSUME S # {} PROVE FALSE
  OBVIOUS
<1>1. S \subseteq Policies
  BY DEF HoldsParts
<1>2. PICK p \in S : p.policy = "compose" => \A i \in DOMAIN p.subs : p.subs[i] \notin S
  <2> HIDE DEF S
  <2> QED
    BY <1>1, InnermostPolicy
<1>3. AgreeOnParts(g, h, p)
  BY <1>2 DEF AgreeOnParts, HoldsParts
<1>4. g[p] = Resolution(g, p, cmd, w) /\ h[p] = Resolution(h, p, cmd, w)
  BY <1>2 DEF Resolves
<1> QED
  BY <1>1, <1>2, <1>3, <1>4, ResolutionOfParts

LEMMA ResolutionExists ==
  ASSUME NEW cmd, NEW w
  PROVE  \E g : Resolves(g, Policies, cmd, w)
<1> DEFINE Solved == {p \in Policies : \E D \in SUBSET Policies :
                        HoldsParts(D) /\ p \in D /\ \E g : Resolves(g, D, cmd, w)}
           Value(p) == CHOOSE v : \E D \in SUBSET Policies : \E g :
                         HoldsParts(D) /\ p \in D /\ Resolves(g, D, cmd, w) /\ v = g[p]
           G == [p \in Solved |-> Value(p)]
<1>1. ASSUME NEW D \in SUBSET Policies, HoldsParts(D), NEW g, Resolves(g, D, cmd, w), NEW p \in D
      PROVE  p \in Solved /\ G[p] = g[p]
  <2>1. p \in Solved
    BY <1>1
  <2>2. PICK E, h : E \in SUBSET Policies /\ HoldsParts(E) /\ p \in E /\ Resolves(h, E, cmd, w) /\ Value(p) = h[p]
    <3> DEFINE Good(v) == \E F \in SUBSET Policies : \E h :
                            HoldsParts(F) /\ p \in F /\ Resolves(h, F, cmd, w) /\ v = h[p]
    <3>1. Good(g[p])
      BY <1>1
    <3>2. Good(Value(p))
      <4> HIDE DEF Good
      <4>1. Good(CHOOSE v : Good(v))
        BY <3>1
      <4> QED
        BY <4>1 DEF Good
    <3> QED
      BY <3>2
  <2> HIDE DEF Value
  <2>3. h[p] = g[p]
    BY <1>1, <2>2, ResolutionsAgree
  <2> QED
    BY <2>1, <2>2, <2>3
<1>2. HoldsParts(Solved)
  BY <1>1 DEF HoldsParts
<1>3. Resolves(G, Solved, cmd, w)
  <2>1. ASSUME NEW p \in Solved
        PROVE  G[p] = Resolution(G, p, cmd, w)
    <3>1. PICK D, g : D \in SUBSET Policies /\ HoldsParts(D) /\ p \in D /\ Resolves(g, D, cmd, w)
      BY <2>1
    <3> HIDE DEF G, Solved
    <3>2. \A q \in D : G[q] = g[q]
      BY <1>1, <3>1
    <3>3. AgreeOnParts(G, g, p)
      BY <3>1, <3>2 DEF AgreeOnParts, HoldsParts
    <3>4. g[p] = Resolution(g, p, cmd, w)
      BY <3>1 DEF Resolves
    <3> QED
      BY <3>1, <3>2, <3>3, <3>4, ResolutionOfParts
  <2>2. G = [p \in Solved |-> G[p]]
    OBVIOUS
  <2> HIDE DEF G, Solved
  <2> QED
    BY <2>1, <2>2 DEF Resolves
<1>4. ASSUME Policies \ Solved # {}
      PROVE  FALSE
  <2>1. PICK p \in Policies \ Solved :
          p.policy = "compose" => \A i \in DOMAIN p.subs : p.subs[i] \notin Policies \ Solved
    <3> HIDE DEF Solved
    <3>1. Policies \ Solved \subseteq Policies
      OBVIOUS
    <3> QED
      BY <1>4, <3>1, InnermostPolicy
  <2> DEFINE E == Solved \cup {p}
             h == [q \in E |-> IF q = p THEN Resolution(G, p, cmd, w) ELSE G[q]]
  <2>2. \A q \in Solved : h[q] = G[q] /\ q # p
    BY <2>1
  <2>3. h[p] = Resolution(G, p, cmd, w)
    OBVIOUS
  <2>4. h = [q \in E |-> h[q]]
    OBVIOUS
  <2> HIDE DEF G, h
  <2>5. HoldsParts(E) /\ E \in SUBSET Policies
    <3>1. p.policy = "compose" => \A i \in DOMAIN p.subs : p.subs[i] \in Policies
      BY PolicyKnown, ElementOfSeq, LenProperties
    <3> HIDE DEF Solved
    <3> QED
      BY <1>2, <2>1, <3>1 DEF HoldsParts
  <2>6. ASSUME NEW q \in E
        PROVE  h[q] = Resolution(h, q, cmd, w)
    <3>1. AgreeOnParts(G, h, q)
      <4> HIDE DEF Solved
      <4> QED
        BY <1>2, <2>1, <2>2, <2>5 DEF AgreeOnParts, HoldsParts
    <3>2. h[q] = Resolution(G, q, cmd, w)
      <4> HIDE DEF Solved
      <4> QED
        BY <1>3, <2>2, <2>3 DEF Resolves
    <3> QED
      BY <3>1, <3>2, ResolutionOfParts
  <2>7. Resolves(h, E, cmd, w)
    <3> HIDE DEF E
    <3> QED
      BY <2>4, <2>6 DEF Resolves
  <2>8. p \in Solved
    <3>1. p \in E
      OBVIOUS
    <3> QED
      BY <1>1, <2>5, <2>7, <3>1
  <2> QED
    BY <2>1, <2>8
<1> HIDE DEF G, Solved
<1>5. Solved = Policies
  BY <1>2, <1>4 DEF HoldsParts
<1> QED
  BY <1>3, <1>5

LEMMA ResolvedPolicy ==
  ASSUME NEW cmd, NEW w, NEW p \in Policies
  PROVE  \E g : ResolvePolicy(p, cmd, w) = Resolution(g, p, cmd, w)
<1> DEFINE res == CHOOSE g : Resolves(g, Policies, cmd, w)
<1>1. Resolves(res, Policies, cmd, w)
  BY ResolutionExists
<1>2. ResolvePolicy(p, cmd, w) = res[p]
  BY DEF ResolvePolicy, Resolves, Resolution
<1> HIDE DEF res
<1>3. res[p] = Resolution(res, p, cmd, w)
  BY <1>1 DEF Resolves
<1> QED
  BY <1>2, <1>3

(* Equal resolutions are those of one kind of policy, and of one command   *)
(* where the policy is over the command alone.                             *)
LEMMA EqualResolutions ==
  ASSUME NEW w, NEW cmd, NEW cmd2, NEW p \in Policies, NEW q \in Policies,
         ResolvePolicy(p, cmd, w) = ResolvePolicy(q, cmd2, w)
  PROVE  p.policy = q.policy /\ (p.policy = "forever" => cmd = cmd2)
<1>1. PICK g : ResolvePolicy(p, cmd, w) = Resolution(g, p, cmd, w)
  BY ResolvedPolicy
<1>2. PICK h : ResolvePolicy(q, cmd2, w) = Resolution(h, q, cmd2, w)
  BY ResolvedPolicy
<1> DEFINE TagOf(k) == CASE k = "none" -> "none" [] k = "forever" -> "forever" [] k = "ttl" -> "ttl"
                           [] k = "on_change" -> "sha" [] OTHER -> "compose"
<1>3. Resolution(g, p, cmd, w).tag = TagOf(p.policy)
  BY DEF Resolution
<1>4. Resolution(h, q, cmd2, w).tag = TagOf(q.policy)
  BY DEF Resolution
<1>5. TagOf(p.policy) = TagOf(q.policy)
  BY <1>1, <1>2, <1>3, <1>4
<1>6. p.policy = q.policy
  BY <1>5, PolicyKnown
<1>7. ASSUME p.policy = "forever"
      PROVE  cmd = cmd2
  <2>1. Resolution(g, p, cmd, w).cmd = cmd /\ Resolution(h, q, cmd2, w).cmd = cmd2
    BY <1>6, <1>7 DEF Resolution
  <2> QED
    BY <1>1, <1>2, <2>1
<1> QED
  BY <1>6, <1>7

-----------------------------------------------------------------------------
(***************************************************************************)
(* Keys is recursive over a chain.  KeyOver is one step of it.             *)
(***************************************************************************)
KeyOver(k, chain, files, i) ==
  IF i \notin Cached(chain) THEN None
  ELSE CacheKey(chain[i], IF i = 1 THEN [root |-> "scratch"] ELSE k[i - 1], World(files))

KeysTo(k, chain, files, m) == k = [i \in 1 .. m |-> KeyOver(k, chain, files, i)]

LEMMA KeysExist ==
  ASSUME NEW chain, NEW files, NEW n \in Nat
  PROVE  \E k : KeysTo(k, chain, files, n)
<1> DEFINE P == {m \in Nat : \E k : KeysTo(k, chain, files, m)}
<1>1. 0 \in P
  <2>1. KeysTo([i \in 1 .. 0 |-> None], chain, files, 0)
    BY DEF KeysTo
  <2> QED
    BY <2>1
<1>2. ASSUME NEW m \in 1 .. n, m - 1 \in P
      PROVE  m \in P
  <2>1. PICK k : KeysTo(k, chain, files, m - 1)
    BY <1>2
  <2> DEFINE h == [i \in 1 .. m |-> IF i = m THEN KeyOver(k, chain, files, m) ELSE k[i]]
  <2>2. \A i \in 1 .. m : i # m => i \in 1 .. m - 1
    OBVIOUS
  <2>3. \A i \in 1 .. m : i # 1 => h[i - 1] = k[i - 1]
    BY <2>2
  <2>4. ASSUME NEW i \in 1 .. m
        PROVE  KeyOver(h, chain, files, i) = KeyOver(k, chain, files, i)
    <3> HIDE DEF h
    <3> QED
      BY <2>3 DEF KeyOver
  <2>5. ASSUME NEW i \in 1 .. m
        PROVE  h[i] = KeyOver(k, chain, files, i)
    BY <2>1, <2>2 DEF KeysTo
  <2>6. h = [i \in 1 .. m |-> h[i]]
    OBVIOUS
  <2> HIDE DEF h
  <2>7. KeysTo(h, chain, files, m)
    BY <2>4, <2>5, <2>6 DEF KeysTo
  <2> QED
    BY <2>7
<1> HIDE DEF P
<1>3. n \in P
  BY <1>1, <1>2, UpTo
<1> QED
  BY <1>3 DEF P

LEMMA KeysAreOver ==
  ASSUME NEW chain \in Chains, NEW files
  PROVE  /\ Len(chain) \in Nat /\ DOMAIN chain = 1 .. Len(chain)
         /\ DOMAIN Keys(chain, files) = 1 .. Len(chain)
         /\ \A i \in 1 .. Len(chain) :
              Keys(chain, files)[i] = KeyOver(Keys(chain, files), chain, files, i)
<1> DEFINE Is(k) == k = [i \in DOMAIN chain |-> KeyOver(k, chain, files, i)]
           key == CHOOSE k : Is(k)
<1>1. Len(chain) \in Nat /\ DOMAIN chain = 1 .. Len(chain)
  BY ChainsAreDicts, LenProperties
<1>2. \E k : Is(k)
  <2>1. PICK k : KeysTo(k, chain, files, Len(chain))
    BY <1>1, KeysExist
  <2>2. Is(k)
    BY <1>1, <2>1 DEF KeysTo
  <2> HIDE DEF Is
  <2> QED
    BY <2>2
<1>3. Is(key)
  <2> HIDE DEF Is
  <2> QED
    BY <1>2
<1>4. Keys(chain, files) = key
  BY DEF Keys, KeyOver
<1> HIDE DEF key
<1> QED
  BY <1>1, <1>3, <1>4

LEMMA EqualKeys ==
  ASSUME NEW s, NEW p, NEW t, NEW q, NEW w, CacheKey(s, p, w) = CacheKey(t, q, w)
  PROVE  s.key = t.key /\ p = q /\ ResolvePolicy(s.cache, s.cmd, w) = ResolvePolicy(t.cache, t.cmd, w)
<1>1. /\ CacheKey(s, p, w).step = s.key /\ CacheKey(t, q, w).step = t.key
      /\ CacheKey(s, p, w).parent = p /\ CacheKey(t, q, w).parent = q
      /\ CacheKey(s, p, w).policy = ResolvePolicy(s.cache, s.cmd, w)
      /\ CacheKey(t, q, w).policy = ResolvePolicy(t.cache, t.cmd, w)
  BY DEF CacheKey
<1> QED
  BY <1>1

LEMMA RootIsNoKey ==
  ASSUME NEW s, NEW p, NEW w
  PROVE  CacheKey(s, p, w) # [root |-> "scratch"]
<1>1. "step" \in DOMAIN CacheKey(s, p, w) /\ "step" \notin DOMAIN [root |-> "scratch"]
  BY DEF CacheKey
<1> QED
  BY <1>1

\* Every step of the chain is cached.
FullyCached(chain) == chain # <<>> /\ Cached(chain) = DOMAIN chain

(* Chains with one terminal key have equal keys from their ends on.        *)
LEMMA EqualFromTheEnd ==
  ASSUME NEW a \in Chains, NEW b \in Chains, NEW files, FullyCached(a), FullyCached(b),
         Len(a) <= Len(b),
         Keys(a, files)[Len(a)] = Keys(b, files)[Len(b)]
  PROVE  \A d \in 0 .. Len(a) - 1 : Keys(a, files)[Len(a) - d] = Keys(b, files)[Len(b) - d]
<1> DEFINE n == Len(a)
           m == Len(b)
           ka == Keys(a, files)
           kb == Keys(b, files)
           P == {d \in Nat : d <= n - 1 => ka[n - d] = kb[m - d]}
<1>1. /\ n \in Nat /\ m \in Nat /\ n <= m /\ DOMAIN a = 1 .. n /\ DOMAIN b = 1 .. m
      /\ \A i \in 1 .. n : ka[i] = KeyOver(ka, a, files, i)
      /\ \A i \in 1 .. m : kb[i] = KeyOver(kb, b, files, i)
  BY KeysAreOver
<1>2. Cached(a) = 1 .. n /\ Cached(b) = 1 .. m
  BY <1>1 DEF FullyCached
<1>3. n # 0
  <2>1. a \in Seq(Range(a))
    BY ChainsAreDicts
  <2> QED
    BY <2>1, EmptySeq DEF FullyCached
<1> HIDE DEF ka, kb
<1>4. 0 \in P
  BY <1>1 DEF ka, kb
<1>5. ASSUME NEW d \in 1 .. n - 1, d - 1 \in P
      PROVE  d \in P
  <2> DEFINE i == n - (d - 1)
             j == m - (d - 1)
  <2>1. i \in 1 .. n /\ j \in 1 .. m /\ i # 1 /\ j # 1 /\ i - 1 = n - d /\ j - 1 = m - d
    BY <1>1
  <2>2. ka[i] = kb[j]
    BY <1>1, <1>5
  <2> HIDE DEF i, j
  <2>3. /\ ka[i] = CacheKey(a[i], ka[i - 1], World(files))
        /\ kb[j] = CacheKey(b[j], kb[j - 1], World(files))
    BY <1>1, <1>2, <2>1 DEF KeyOver
  <2>4. ka[i - 1] = kb[j - 1]
    <3> DEFINE p == ka[i - 1]
               q == kb[j - 1]
    <3>1. CacheKey(a[i], p, World(files)) = CacheKey(b[j], q, World(files))
      BY <2>2, <2>3
    <3> HIDE DEF p, q
    <3>2. p = q
      BY <3>1, EqualKeys
    <3> QED
      BY <3>2 DEF p, q
  <2> QED
    BY <2>1, <2>4
<1>6. n - 1 \in Nat
  BY <1>1, <1>3
<1>7. \A d \in 0 .. n - 1 : d \in P
  <2> HIDE DEF P, n
  <2> QED
    BY <1>4, <1>5, <1>6, UpTo
<1> QED
  BY <1>6, <1>7 DEF ka, kb

LEMMA NotLonger ==
  ASSUME NEW a \in Chains, NEW b \in Chains, NEW files, FullyCached(a), FullyCached(b),
         Keys(a, files)[Len(a)] = Keys(b, files)[Len(b)], Len(a) < Len(b)
  PROVE  FALSE
<1> DEFINE n == Len(a)
           m == Len(b)
           ka == Keys(a, files)
           kb == Keys(b, files)
           j == m - (n - 1)
<1>1. /\ n \in Nat /\ m \in Nat /\ DOMAIN a = 1 .. n /\ DOMAIN b = 1 .. m
      /\ \A i \in 1 .. n : ka[i] = KeyOver(ka, a, files, i)
      /\ \A i \in 1 .. m : kb[i] = KeyOver(kb, b, files, i)
  BY KeysAreOver
<1>2. Cached(a) = 1 .. n /\ Cached(b) = 1 .. m
  BY <1>1 DEF FullyCached
<1>3. n # 0
  <2>1. a \in Seq(Range(a))
    BY ChainsAreDicts
  <2> QED
    BY <2>1, EmptySeq DEF FullyCached
<1>4. ka[n - (n - 1)] = kb[j]
  <2>1. Len(a) <= Len(b) /\ n - 1 \in 0 .. n - 1
    BY <1>1, <1>3
  <2> QED
    BY <2>1, EqualFromTheEnd
<1>5. n - (n - 1) = 1 /\ 1 \in 1 .. n /\ j \in 1 .. m /\ j # 1 /\ j - 1 \in 1 .. m
  BY <1>1, <1>3
<1> HIDE DEF ka, kb, j, n, m
<1>6. ka[1] = CacheKey(a[1], [root |-> "scratch"], World(files))
  BY <1>1, <1>2, <1>5 DEF KeyOver
<1>7. kb[j] = CacheKey(b[j], kb[j - 1], World(files))
  BY <1>1, <1>2, <1>5 DEF KeyOver
<1>8. kb[j - 1] = [root |-> "scratch"]
  BY <1>4, <1>5, <1>6, <1>7, EqualKeys
<1>9. \E p : kb[j - 1] = CacheKey(b[j - 1], p, World(files))
  BY <1>1, <1>2, <1>5 DEF KeyOver
<1> QED
  BY <1>8, <1>9, RootIsNoKey

LEMMA EqualTerminalKeys ==
  ASSUME NEW a \in Chains, NEW b \in Chains, NEW files, FullyCached(a), FullyCached(b),
         Keys(a, files)[Len(a)] = Keys(b, files)[Len(b)]
  PROVE  /\ Len(a) = Len(b)
         /\ \A n \in DOMAIN a :
              /\ a[n].key = b[n].key
              /\ a[n].cache.policy = "forever" => a[n].cmd = b[n].cmd
              /\ a[n].cache.policy = b[n].cache.policy
<1>1. /\ Len(a) \in Nat /\ Len(b) \in Nat
      /\ DOMAIN a = 1 .. Len(a) /\ DOMAIN b = 1 .. Len(b)
      /\ \A i \in 1 .. Len(a) : Keys(a, files)[i] = KeyOver(Keys(a, files), a, files, i)
      /\ \A i \in 1 .. Len(b) : Keys(b, files)[i] = KeyOver(Keys(b, files), b, files, i)
  BY KeysAreOver
<1>2. Len(a) = Len(b)
  <2>1. ~(Len(a) < Len(b))
    BY NotLonger
  <2>2. ~(Len(b) < Len(a))
    <3>1. Keys(b, files)[Len(b)] = Keys(a, files)[Len(a)]
      OBVIOUS
    <3> QED
      BY <3>1, NotLonger
  <2>3. Len(a) \in Nat /\ Len(b) \in Nat
    BY <1>1
  <2> HIDE DEF FullyCached
  <2> QED
    BY <2>1, <2>2, <2>3
<1>3. ASSUME NEW n \in DOMAIN a
      PROVE  /\ a[n].key = b[n].key
             /\ a[n].cache.policy = "forever" => a[n].cmd = b[n].cmd
             /\ a[n].cache.policy = b[n].cache.policy
  <2>1. Keys(a, files)[n] = Keys(b, files)[n]
    <3>1. Len(a) - n \in 0 .. Len(a) - 1 /\ Len(a) - (Len(a) - n) = n /\ Len(a) <= Len(b)
      BY <1>1, <1>2
    <3>2. \A d \in 0 .. Len(a) - 1 : Keys(a, files)[Len(a) - d] = Keys(b, files)[Len(b) - d]
      BY <3>1, EqualFromTheEnd
    <3> QED
      BY <1>2, <3>1, <3>2
  <2>2. n \in Cached(a) /\ n \in Cached(b)
    BY <1>1, <1>2 DEF FullyCached
  <2>3. PICK p, q : CacheKey(a[n], p, World(files)) = CacheKey(b[n], q, World(files))
    BY <1>1, <1>2, <2>1, <2>2 DEF KeyOver
  <2>4. /\ a[n].key = b[n].key
        /\ ResolvePolicy(a[n].cache, a[n].cmd, World(files))
             = ResolvePolicy(b[n].cache, b[n].cmd, World(files))
    BY <2>3, EqualKeys
  <2>5. a[n].cache \in Policies /\ b[n].cache \in Policies
    BY <2>2, ChainsAreDicts
  <2> QED
    BY <2>4, <2>5, EqualResolutions
<1> QED
  BY <1>2, <1>3

-----------------------------------------------------------------------------
(* An entry with a chain has the keys of that chain, over the files that   *)
(* the dump looks at.                                                      *)
EntriesKeyed ==
  \A i \in DOMAIN entries :
    entries[i].chain # <<>> =>
      /\ entries[i].chain \in Chains
      /\ entries[i].keys = Keys(entries[i].chain, tmp)

KeyedBy(chain, keys) == chain = <<>> \/ (chain \in Chains /\ keys = Keys(chain, tmp))

LEMMA EnterKeyed ==
  ASSUME DumpInv, EntriesKeyed, NEW driver, NEW image, NEW chain, NEW keys, NEW deps,
         Enter(driver, image, chain, keys, deps), KeyedBy(chain, keys)
  PROVE  EntriesKeyed'
<1> DEFINE e == [slug |-> Slug, driver |-> driver, image |-> image,
                 chain |-> chain, keys |-> keys, deps |-> deps]
           n == Len(entries)
<1>1. entries' = Append(entries, e) /\ tmp' = tmp /\ EntriesListed
  BY DEF Enter, DumpInv
<1>2. e.chain = chain /\ e.keys = keys
  OBVIOUS
<1> HIDE DEF e
<1>3. /\ n \in Nat /\ DOMAIN entries = 1 .. n /\ DOMAIN entries' = 1 .. n + 1
      /\ \A i \in 1 .. n : entries'[i] = entries[i]
      /\ entries'[n + 1] = e
  BY <1>1, EntryAppended
<1>4. ASSUME NEW i \in 1 .. n + 1, entries'[i].chain # <<>>
      PROVE  /\ entries'[i].chain \in Chains
             /\ entries'[i].keys = Keys(entries'[i].chain, tmp)
  <2>1. CASE i = n + 1
    BY <1>2, <1>3, <1>4, <2>1 DEF KeyedBy
  <2>2. CASE i # n + 1
    <3>1. i \in 1 .. n
      BY <1>3, <2>2
    <3> QED
      BY <1>3, <1>4, <3>1 DEF EntriesKeyed
  <2> QED
    BY <2>1, <2>2
<1> QED
  BY <1>1, <1>3, <1>4 DEF EntriesKeyed

LEMMA DumpKeepsKeys == DumpInv /\ EntriesKeyed /\ [DevNext]_devVars => EntriesKeyed'
<1> SUFFICES ASSUME DumpInv, EntriesKeyed, [DevNext]_devVars PROVE EntriesKeyed'
  OBVIOUS
<1>0. KeyedBy(<<>>, <<>>)
  BY DEF KeyedBy
<1>1. ASSUME UNCHANGED <<entries, tmp>> PROVE EntriesKeyed'
  BY <1>1 DEF EntriesKeyed
<1>2. CASE Order \/ RaiseOnHints \/ RaiseOnCycle \/ BindUnknown \/ CallRaises \/ FinishDump
           \/ UNCHANGED devVars
  BY <1>1, <1>2 DEF Order, RaiseOnHints, RaiseOnCycle, BindUnknown, CallRaises, FinishDump, Fail,
                    devVars, dumpVars
<1>3. CASE StartCalls
  <2>1. entries = <<>> /\ UNCHANGED entries
    BY <1>3 DEF StartCalls, DumpInv, EntriesFollowOrder
  <2> QED
    BY <2>1 DEF EntriesKeyed
<1>4. CASE EnterUnhandled
  BY <1>0, <1>4, EnterKeyed DEF EnterUnhandled
<1>5. ASSUME NEW args \in FactoryArgs,
             FactoryRaises(args) \/ RaiseInKeygen(args) \/ EnterImage(args) \/ EnterChain(args)
      PROVE  EntriesKeyed'
  <2>1. CASE FactoryRaises(args) \/ RaiseInKeygen(args)
    BY <1>1, <2>1 DEF FactoryRaises, RaiseInKeygen, Fail
  <2>2. CASE EnterImage(args)
    BY <1>0, <2>2, EnterKeyed DEF EnterImage
  <2>3. CASE EnterChain(args)
    <3>1. args.from_ \in Chains
      BY <2>3 DEF EnterChain, FactoryArgs, Opt
    <3>2. KeyedBy(args.from_, Keys(args.from_, tmp))
      BY <3>1 DEF KeyedBy
    <3> QED
      BY <2>3, <3>2, EnterKeyed DEF EnterChain
  <2> QED
    BY <1>5, <2>1, <2>2, <2>3
<1> QED
  BY <1>2, <1>3, <1>4, <1>5 DEF DevNext, DumpStep, CallDeployment, DumpEnded

(***************************************************************************)
(* Two deployments get one image tag only if their chains are the same for *)
(* all that tags promise, whatever chains, policies and files there are.   *)
(***************************************************************************)
THEOREM EqualTagsMeanEqualChains == DevSpec => []EqualTagsEqualChains
<1>1. DevInit => EntriesKeyed
  BY DEF DevInit, EntriesKeyed
<1>2. DumpInv /\ EntriesKeyed => EqualTagsEqualChains
  <2> SUFFICES ASSUME DumpInv, EntriesKeyed, NEW i \in Tagged, NEW j \in Tagged, Tag(i) = Tag(j)
               PROVE  LET a == entries[i].chain  b == entries[j].chain IN
                      /\ Len(a) = Len(b)
                      /\ \A n \in DOMAIN a :
                           /\ a[n].key = b[n].key
                           /\ a[n].cache.policy = "forever" => a[n].cmd = b[n].cmd
                           /\ a[n].cache.policy = b[n].cache.policy
    BY DEF EqualTagsEqualChains
  <2> DEFINE a == entries[i].chain
             b == entries[j].chain
  <2>1. /\ a \in Chains /\ b \in Chains /\ FullyCached(a) /\ FullyCached(b)
        /\ entries[i].keys = Keys(a, tmp) /\ entries[j].keys = Keys(b, tmp)
    BY DEF Tagged, EntriesKeyed, FullyCached
  <2> HIDE DEF a, b
  <2>2. Keys(a, tmp)[Len(a)] = Keys(b, tmp)[Len(b)]
    <3>1. Len(Keys(a, tmp)) = Len(a) /\ Len(Keys(b, tmp)) = Len(b)
      BY <2>1, KeysAreOver
    <3> QED
      BY <2>1, <3>1 DEF Tag
  <2> QED
    BY <2>1, <2>2, EqualTerminalKeys DEF a, b
<1> QED
  BY <1>1, <1>2, InitDump, DumpKeeps, DumpKeepsKeys, PTL DEF DevSpec
=============================================================================
