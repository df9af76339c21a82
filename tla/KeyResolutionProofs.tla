------------------------- MODULE KeyResolutionProofs -------------------------
(***************************************************************************)
(* Proofs about KeyResolution, for any forest, labels and explicit keys:   *)
(* keys are distinct, follow the documented precedence, and builds_in      *)
(* names exactly the nearest command.  Then about Lowering, which runs it  *)
(* over two versions of a pipeline: equal cache keys mean equal chains, a  *)
(* rebuilt program has the same keys, an added Step leaves those of the    *)
(* others alone.                                                           *)
(***************************************************************************)
EXTENDS Lowering, StepChainProofs, FiniteSetTheorems

-----------------------------------------------------------------------------
(* The inductive invariant.  What keeps names apart is that `reserved`     *)
(* holds every name given or claimed explicitly, and nothing else; what    *)
(* keeps hashes apart is the position.  That builds_in finds its step      *)
(* rests on the parent-first order of what has been emitted.               *)

Passed == {ordered[i] : i \in 1 .. at - 1}

Idle ==
  stage = "build" => /\ ordered = <<>> /\ at = 1 /\ position = 0
                     /\ keys = <<>> /\ reserved = {}

Enumerated ==
  /\ stage \in {"build", "resolve", "emit", "lowered"}
  /\ stage # "build" => ordered \in ParentFirstOrders
  /\ at \in Nat \ {0} /\ at <= Len(ordered) + 1
  /\ position \in Nat

Named ==
  /\ DOMAIN keys \subseteq CommandSet
  /\ stage = "resolve" => DOMAIN keys = CommandSet \cap Passed
  /\ stage \in {"emit", "lowered"} => DOMAIN keys = CommandSet

ReservedNames ==
  stage # "build" =>
    /\ \A s \in CommandSet : Overridden(s) => heap[s].key_override \in reserved
    /\ \A n \in reserved :
         \/ \E s \in CommandSet : Overridden(s) /\ heap[s].key_override = n
         \/ \E s \in DOMAIN keys : NaturalSlug(s) = n /\ n # None

HashPositions ==
  /\ \A s \in DOMAIN keys :
       keys[s].by = "hash" => keys[s].position \in Nat /\ keys[s].position < position
  /\ \A s, t \in DOMAIN keys :
       keys[s].by = "hash" /\ keys[t].by = "hash" /\ keys[s].position = keys[t].position
         => s = t

Emitted ==
  /\ out \in Seq({out[i] : i \in DOMAIN out})
  /\ stage \in {"build", "resolve"} => out = <<>>
  /\ Len(out) < at
  /\ \A i \in EmittedCommands :
       /\ out[i].step \in CommandSet \cap Passed
       /\ out[i].key = keys[out[i].step]
       /\ \A s \in CommandSet : out[i].step = s =>
            /\ out[i].builds_in = ResolvedParentKey(s)
            /\ \A a \in CommandAncestors(s) :
                 \E j \in EmittedCommands : j < i /\ out[j].step = a
  /\ \A i, j \in EmittedCommands : out[i].step = out[j].step => i = j
  /\ stage \in {"emit", "lowered"} =>
       \A s \in CommandSet \cap Passed : \E i \in EmittedCommands : out[i].step = s

KeyInv ==
  /\ WellFormed /\ Idle /\ Enumerated /\ Named /\ ReservedNames
  /\ PrecedenceRespected /\ HashPositions /\ Emitted

-----------------------------------------------------------------------------
(* Facts about the forest and its enumerations.                            *)

(* A set of Steps that is not empty has an oldest and a youngest member.   *)
LEMMA SmallestExists ==
  ASSUME NEW S, S \subseteq Nat, S # {}
  PROVE  \E x \in S : \A y \in S : x <= y
<1> DEFINE R == {ss \in Nat \X Nat : ss[1] < ss[2]}
<1>1. IsWellFoundedOn(R, Nat)
  BY NatLessThanWellFounded DEF OpToRel
<1>2. \E x \in S : \A y \in S : ~(<<y, x>> \in R)
  <2> HIDE DEF R
  <2> QED
    BY <1>1, WFMin
<1>3. PICK x \in S : \A y \in S : ~(<<y, x>> \in R)
  BY <1>2
<1>4. ASSUME NEW y \in S
      PROVE  x <= y
  <2>1. x \in Nat /\ y \in Nat /\ <<y, x>> \in Nat \X Nat
    OBVIOUS
  <2>2. ~(y < x)
    BY <2>1, <1>3
  <2> QED
    BY <2>1, <2>2
<1> QED
  BY <1>4

LEMMA YoungestIsLast ==
  ASSUME NEW S, NEW n \in Nat, S \subseteq 1 .. n, S # {}
  PROVE  Youngest(S) \in S /\ \A t \in S : t <= Youngest(S)
<1> DEFINE mirror == {n - s : s \in S}
<1>1. mirror \subseteq Nat /\ mirror # {}
  <2>1. \A s \in S : s \in 1 .. n /\ n - s \in Nat
    OBVIOUS
  <2>2. PICK s \in S : TRUE
    OBVIOUS
  <2>3. n - s \in mirror
    OBVIOUS
  <2> QED
    BY <2>1, <2>3
<1>2. PICK m \in mirror : \A k \in mirror : m <= k
  <2> HIDE DEF mirror
  <2> QED
    BY <1>1, SmallestExists
<1>3. PICK s \in S : m = n - s
  BY <1>2
<1>4. \A t \in S : t <= s
  <2> TAKE t \in S
  <2>1. n - t \in mirror /\ t \in 1 .. n /\ s \in 1 .. n
    OBVIOUS
  <2>2. n - s <= n - t
    BY <2>1, <1>2, <1>3
  <2> QED
    BY <2>1, <2>2
<1> QED
  BY <1>4 DEF Youngest

(* What a parent-first enumeration of the Steps is.                        *)
LEMMA OrderFacts ==
  ASSUME WellFormed, NEW o \in ParentFirstOrders
  PROVE  /\ Len(heap) \in Nat
         /\ o \in Seq(StepIds) /\ Len(o) = Len(heap) /\ DOMAIN o = StepIds
         /\ \A i \in StepIds : o[i] \in StepIds
         /\ \A s \in StepIds : \E i \in StepIds : o[i] = s
         /\ \A i, j \in StepIds : o[i] = o[j] => i = j
<1>1. Len(heap) \in Nat
  BY LenProperties DEF WellFormed
<1>2. /\ o \in [StepIds -> StepIds]
      /\ \A s \in StepIds : \E i \in StepIds : o[i] = s
  BY DEF ParentFirstOrders
<1>3. o \in Seq(StepIds) /\ Len(o) = Len(heap) /\ DOMAIN o = StepIds
  <2> DEFINE T == StepIds
  <2>1. o \in [1 .. Len(heap) -> T] /\ DOMAIN o = 1 .. Len(heap)
    BY <1>2 DEF StepIds
  <2> HIDE DEF T
  <2>2. o \in Seq(T)
    BY <1>1, <2>1, SeqDef
  <2>3. Len(o) \in Nat /\ DOMAIN o = 1 .. Len(o)
    BY <2>2, LenProperties
  <2>4. Len(o) = Len(heap)
    BY <1>1, <2>1, <2>3
  <2> QED
    BY <2>1, <2>2, <2>4 DEF T, StepIds
<1>4. o \in Surjection(StepIds, StepIds)
  BY <1>2 DEF Surjection
<1>5. IsFiniteSet(StepIds)
  BY <1>1, FS_Interval DEF StepIds
<1>6. o \in Injection(StepIds, StepIds)
  BY <1>4, <1>5, FS_SurjSameCardinalityImpliesInj
<1>7. \A i, j \in StepIds : o[i] = o[j] => i = j
  BY <1>6 DEF Injection, IsInjective
<1> QED
  BY <1>1, <1>2, <1>3, <1>7

(* In a parent-first enumeration all ancestors stand before a Step.        *)
LEMMA AncestorsStandBefore ==
  ASSUME WellFormed, NEW o \in ParentFirstOrders, NEW i \in StepIds,
         NEW a \in CommandAncestors(o[i])
  PROVE  a \in CommandSet /\ \E j \in 1 .. i - 1 : o[j] = a
<1> DEFINE C == {o[j] : j \in 1 .. i}
<1>1. Len(heap) \in Nat /\ \A j \in StepIds : o[j] \in StepIds
  BY OrderFacts
<1>2. C \in SUBSET StepIds
  BY <1>1 DEF StepIds
<1>3. ParentClosed(C)
  <2> SUFFICES ASSUME NEW s \in C, Parent(s) # NoStep
               PROVE  Parent(s) \in C
    BY DEF ParentClosed
  <2>1. PICK k \in 1 .. i : s = o[k]
    OBVIOUS
  <2>2. k \in StepIds
    BY <1>1 DEF StepIds
  <2>3. PICK j \in 1 .. k - 1 : o[j] = Parent(o[k])
    BY <2>1, <2>2 DEF ParentFirstOrders
  <2>4. j \in 1 .. i
    BY <1>1, <2>2 DEF StepIds
  <2> QED
    BY <2>1, <2>3, <2>4
<1>4. {o[i]} \subseteq C
  BY <1>1 DEF StepIds
<1>5. Reach({o[i]}) \subseteq C
  <2> HIDE DEF C
  <2> QED
    BY <1>2, <1>3, <1>4, ReachLeast
<1>6. a \in C /\ a # o[i] /\ IsCommand(a)
  BY <1>5 DEF CommandAncestors
<1>7. PICK j \in 1 .. i : o[j] = a
  BY <1>6
<1>8. j \in 1 .. i - 1
  BY <1>1, <1>6, <1>7 DEF StepIds
<1> QED
  BY <1>2, <1>6, <1>7, <1>8 DEF CommandSet

(* What is not part of a step leaves all there is to know of the forest.   *)
LEMMA FrozenForest ==
  ASSUME UNCHANGED heap
  PROVE  /\ WellFormed => WellFormed'
         /\ StepIds' = StepIds /\ CommandSet' = CommandSet
         /\ ParentFirstOrders' = ParentFirstOrders
         /\ \A s : /\ Overridden(s)' <=> Overridden(s)
                   /\ NaturalSlug(s)' = NaturalSlug(s)
                   /\ SoleClaimant(s)' <=> SoleClaimant(s)
                   /\ CommandAncestors(s)' = CommandAncestors(s)
                   /\ ClaimedByOther(s)' <=> ClaimedByOther(s)
<1>1. WellFormed => WellFormed'
  BY DEF WellFormed, StepIds, Parent, IsWait
<1>2. StepIds' = StepIds /\ CommandSet' = CommandSet
  BY DEF StepIds, CommandSet, IsCommand, IsWait
<1>3. ParentFirstOrders' = ParentFirstOrders
  BY DEF ParentFirstOrders, StepIds, Parent
<1>4. \A s : /\ Overridden(s)' <=> Overridden(s)
             /\ NaturalSlug(s)' = NaturalSlug(s)
  BY DEF Overridden, NaturalSlug
<1>5. \A s : CommandAncestors(s)' = CommandAncestors(s)
  BY DEF CommandAncestors, Reach, ParentClosed, StepIds, Parent, IsCommand, IsWait
<1>6. \A s : /\ SoleClaimant(s)' <=> SoleClaimant(s)
             /\ ClaimedByOther(s)' <=> ClaimedByOther(s)
  BY DEF SoleClaimant, ClaimedByOther, NaturalSlug, CommandSet, StepIds, IsCommand, IsWait
<1> QED
  BY <1>1, <1>2, <1>3, <1>4, <1>5, <1>6

(* Slugs and explicit keys are names.                                      *)
LEMMA NameTypes ==
  ASSUME WellFormed, NEW s \in CommandSet
  PROVE  /\ s \in StepIds
         /\ Overridden(s) => heap[s].key_override \in KeyOverrides
         /\ NaturalSlug(s) \in Opt(Slugs)
         /\ ~Overridden(s) => heap[s].key_override = None
<1>1. s \in StepIds
  BY DEF CommandSet
<1>2. heap[s] \in Step
  BY <1>1, ElementOfSeq DEF WellFormed, StepIds
<1>3. heap[s].label \in Opt(Labels) /\ heap[s].key_override \in Opt(KeyOverrides)
  BY <1>2 DEF Step
<1> QED
  BY <1>1, <1>3, SlugType DEF Overridden, NaturalSlug, Opt

-----------------------------------------------------------------------------
(* One lemma per action: it keeps the invariant.                           *)

LEMMA InitHoldsInv == KeyInit => KeyInv
<1> SUFFICES ASSUME KeyInit
             PROVE  KeyInv
  OBVIOUS
<1>1. WellFormed /\ heap = <<>>
  BY EmptySeq DEF KeyInit, BuildInit, WellFormed, StepIds
<1>2. DOMAIN keys = {} /\ out = <<>> /\ Len(out) = 0 /\ DOMAIN out = {}
  BY EmptySeq DEF KeyInit
<1>3. Emitted
  BY <1>2, EmptySeq DEF KeyInit, Emitted, EmittedCommands
<1>4. Enumerated /\ Idle
  BY EmptySeq DEF KeyInit, Enumerated, Idle
<1>5. Named /\ ReservedNames /\ PrecedenceRespected /\ HashPositions
  BY <1>2 DEF KeyInit, Named, ReservedNames, PrecedenceRespected, HashPositions
<1> QED
  BY <1>1, <1>3, <1>4, <1>5 DEF KeyInv

LEMMA BuildKeepsInv ==
  ASSUME KeyInv, BuildStep
  PROVE  KeyInv'
<1>1. WellFormed'
  BY BuildWellFormed DEF KeyInv, BuildStep
<1>2. /\ stage' = stage /\ stage = "build" /\ keys' = keys /\ keys = <<>>
      /\ out' = out /\ out = <<>> /\ reserved' = reserved /\ ordered' = ordered
      /\ at' = at /\ position' = position
      /\ DOMAIN keys = {} /\ DOMAIN out = {} /\ Len(out) = 0 /\ ordered = <<>> /\ Len(ordered) = 0
  BY EmptySeq DEF KeyInv, BuildStep, kvars, Idle, Emitted
<1>3. Idle' /\ Enumerated'
  BY <1>2 DEF KeyInv, Idle, Enumerated
<1>4. Named' /\ ReservedNames' /\ PrecedenceRespected' /\ HashPositions'
  BY <1>2 DEF Named, ReservedNames, PrecedenceRespected, HashPositions
<1>5. Emitted'
  BY <1>2, EmptySeq DEF KeyInv, Emitted, EmittedCommands, Enumerated
<1> QED
  BY <1>1, <1>3, <1>4, <1>5 DEF KeyInv

LEMMA StartKeepsInv ==
  ASSUME KeyInv, StartResolve
  PROVE  KeyInv'
<1>1. /\ stage = "build" /\ stage' = "resolve" /\ heap' = heap /\ at' = 1 /\ at = 1
      /\ position' = position /\ keys' = keys /\ keys = <<>> /\ out' = out /\ out = <<>>
      /\ DOMAIN keys = {} /\ DOMAIN out = {} /\ Len(out) = 0
      /\ ordered' \in ParentFirstOrders
  BY EmptySeq DEF KeyInv, StartResolve, Idle, Emitted
<1>2. WellFormed' /\ ParentFirstOrders' = ParentFirstOrders /\ CommandSet' = CommandSet
      /\ \A s : Overridden(s)' <=> Overridden(s)
  BY <1>1, FrozenForest DEF KeyInv
<1>3. Len(ordered') \in Nat
  BY <1>1, OrderFacts DEF KeyInv
<1>4. Idle' /\ Enumerated'
  BY <1>1, <1>2, <1>3 DEF KeyInv, Idle, Enumerated
<1>5. Passed' = {}
  BY <1>1 DEF Passed
<1>6. Named' /\ PrecedenceRespected' /\ HashPositions'
  BY <1>1, <1>5 DEF Named, PrecedenceRespected, HashPositions
<1>7. ReservedNames'
  BY <1>1, <1>2 DEF StartResolve, ReservedNames
<1>8. Emitted'
  BY <1>1, EmptySeq DEF Emitted, EmittedCommands
<1> QED
  BY <1>2, <1>4, <1>6, <1>7, <1>8 DEF KeyInv

(* The loops move on by one Step.                                          *)
LEMMA Advance ==
  ASSUME KeyInv, stage # "build", at <= Len(ordered), at' = at + 1, ordered' = ordered
  PROVE  /\ at \in StepIds /\ Current \in StepIds /\ Current = ordered[at]
         /\ Passed' = Passed \cup {Current} /\ Current \notin Passed
         /\ at' \in Nat \ {0} /\ at' <= Len(ordered') + 1
<1>1. /\ Len(heap) \in Nat /\ Len(ordered) = Len(heap)
      /\ \A i \in StepIds : ordered[i] \in StepIds
      /\ \A i, j \in StepIds : ordered[i] = ordered[j] => i = j
  BY OrderFacts DEF KeyInv, Enumerated
<1>2. at \in Nat \ {0} /\ at \in StepIds
  BY <1>1 DEF KeyInv, Enumerated, StepIds
<1>3. Current = ordered[at] /\ Current \in StepIds
  BY <1>1, <1>2 DEF Current
<1>4. 1 .. at' - 1 = (1 .. at - 1) \cup {at}
  BY <1>2
<1>5. Passed' = Passed \cup {Current}
  BY <1>3, <1>4 DEF Passed
<1>6. Current \notin Passed
  BY <1>1, <1>2, <1>3 DEF Passed, StepIds
<1> QED
  BY <1>1, <1>2, <1>3, <1>5, <1>6

LEMMA SkipKeylessKeepsInv ==
  ASSUME KeyInv, SkipKeyless
  PROVE  KeyInv'
<1>1. /\ stage = "resolve" /\ at <= Len(ordered) /\ ~IsCommand(Current) /\ at' = at + 1
      /\ heap' = heap /\ stage' = stage /\ ordered' = ordered /\ position' = position
      /\ keys' = keys /\ reserved' = reserved /\ out' = out
  BY DEF SkipKeyless, Resolving
<1>2. /\ Current \in StepIds /\ Passed' = Passed \cup {Current}
      /\ at' \in Nat \ {0} /\ at' <= Len(ordered') + 1
  BY <1>1, Advance
<1>3. /\ WellFormed' /\ ParentFirstOrders' = ParentFirstOrders /\ CommandSet' = CommandSet
      /\ \A s : /\ Overridden(s)' <=> Overridden(s)
                /\ NaturalSlug(s)' = NaturalSlug(s)
                /\ ClaimedByOther(s)' <=> ClaimedByOther(s)
  BY <1>1, FrozenForest DEF KeyInv
<1>4. Idle' /\ Enumerated'
  BY <1>1, <1>2, <1>3 DEF KeyInv, Idle, Enumerated
<1>5. Current \notin CommandSet
  BY <1>1 DEF CommandSet
<1>6. Named'
  BY <1>1, <1>2, <1>3, <1>5 DEF KeyInv, Named
<1>7. ReservedNames' /\ PrecedenceRespected' /\ HashPositions'
  BY <1>1, <1>3 DEF KeyInv, ReservedNames, PrecedenceRespected, HashPositions
<1>8. out = <<>> /\ DOMAIN out = {} /\ Len(out) = 0
  BY <1>1, EmptySeq DEF KeyInv, Emitted
<1>9. Emitted'
  BY <1>1, <1>2, <1>8, EmptySeq DEF Emitted, EmittedCommands
<1> QED
  BY <1>3, <1>4, <1>6, <1>7, <1>9 DEF KeyInv

(* What the three ways to name a step have in common.                      *)
LEMMA AssignEffect ==
  ASSUME KeyInv, NEW key, Assign(key)
  PROVE  /\ stage = "resolve" /\ stage' = "resolve"
         /\ Current \in CommandSet /\ Current \notin DOMAIN keys
         /\ DOMAIN keys' = DOMAIN keys \cup {Current}
         /\ keys'[Current] = key
         /\ \A s \in DOMAIN keys : keys'[s] = keys[s]
         /\ position \in Nat /\ position' = position + 1 /\ heap' = heap
         /\ WellFormed' /\ Idle' /\ Enumerated' /\ Named' /\ Emitted'
<1>1. /\ stage = "resolve" /\ at <= Len(ordered) /\ IsCommand(Current) /\ at' = at + 1
      /\ heap' = heap /\ stage' = stage /\ ordered' = ordered /\ position' = position + 1
      /\ keys' = Put(keys, Current, key) /\ out' = out
  BY DEF Assign, Resolving
<1>2. /\ Current \in StepIds /\ Passed' = Passed \cup {Current} /\ Current \notin Passed
      /\ at' \in Nat \ {0} /\ at' <= Len(ordered') + 1
  BY <1>1, Advance
<1>3. WellFormed' /\ ParentFirstOrders' = ParentFirstOrders /\ CommandSet' = CommandSet
  BY <1>1, FrozenForest DEF KeyInv
<1>4. Current \in CommandSet /\ Current \notin DOMAIN keys
  BY <1>1, <1>2 DEF KeyInv, Named, CommandSet
<1>5. /\ DOMAIN keys' = DOMAIN keys \cup {Current}
      /\ keys'[Current] = key
      /\ \A s \in DOMAIN keys : keys'[s] = keys[s]
  BY <1>1, <1>4 DEF Put
<1>6. Idle' /\ Enumerated' /\ position \in Nat
  BY <1>1, <1>2, <1>3 DEF KeyInv, Idle, Enumerated
<1>7. Named'
  BY <1>1, <1>2, <1>3, <1>4, <1>5 DEF KeyInv, Named
<1>8. out = <<>> /\ DOMAIN out = {} /\ Len(out) = 0
  BY <1>1, EmptySeq DEF KeyInv, Emitted
<1>9. Emitted'
  BY <1>1, <1>2, <1>8, EmptySeq DEF Emitted, EmittedCommands
<1> QED
  BY <1>1, <1>3, <1>4, <1>5, <1>6, <1>7, <1>9

LEMMA UseOverrideKeepsInv ==
  ASSUME KeyInv, UseOverride
  PROVE  KeyInv'
<1> DEFINE key == NameKey(heap[Current].key_override)
<1>1. Assign(key) /\ Overridden(Current) /\ reserved' = reserved
  BY DEF UseOverride
<1>2. key.by = "name"
  BY DEF NameKey
<1>3. /\ stage = "resolve" /\ stage' = "resolve"
      /\ Current \in CommandSet /\ Current \notin DOMAIN keys
      /\ DOMAIN keys' = DOMAIN keys \cup {Current}
      /\ keys'[Current] = key
      /\ \A s \in DOMAIN keys : keys'[s] = keys[s]
      /\ position \in Nat /\ position' = position + 1 /\ heap' = heap
      /\ WellFormed' /\ Idle' /\ Enumerated' /\ Named' /\ Emitted'
  <2> HIDE DEF key
  <2> QED
    BY <1>1, AssignEffect
<1>4. /\ CommandSet' = CommandSet
      /\ \A s : /\ Overridden(s)' <=> Overridden(s)
                /\ NaturalSlug(s)' = NaturalSlug(s)
                /\ ClaimedByOther(s)' <=> ClaimedByOther(s)
  BY <1>3, FrozenForest
<1>5. ReservedNames'
  BY <1>1, <1>3, <1>4 DEF KeyInv, ReservedNames
<1>6. PrecedenceRespected'
  <2> SUFFICES ASSUME NEW s \in DOMAIN keys'
               PROVE  IF Overridden(s) THEN keys'[s] = NameKey(heap[s].key_override)
                      ELSE IF NaturalSlug(s) # None /\ ~ClaimedByOther(s)
                           THEN keys'[s] = NameKey(NaturalSlug(s))
                           ELSE keys'[s].by = "hash"
    BY <1>3, <1>4 DEF PrecedenceRespected
  <2>1. CASE s \in DOMAIN keys
    BY <1>3, <2>1 DEF KeyInv, PrecedenceRespected
  <2>2. CASE s = Current
    BY <1>1, <1>3, <2>2
  <2> QED
    BY <1>3, <2>1, <2>2
<1>7. HashPositions'
  BY <1>2, <1>3 DEF KeyInv, HashPositions
<1> QED
  BY <1>3, <1>5, <1>6, <1>7 DEF KeyInv

(* A slug is usable exactly when nobody else claims it.                    *)
LEMMA UsableIsUnclaimed ==
  ASSUME KeyInv, stage = "resolve", NEW s \in CommandSet, s \notin DOMAIN keys
  PROVE  SlugUsable(s) <=> ~Overridden(s) /\ NaturalSlug(s) # None /\ ~ClaimedByOther(s)
<1>1. \A t \in CommandSet : heap[t].key_override # None <=> Overridden(t)
  BY DEF Overridden
<1>2. DOMAIN keys \subseteq CommandSet /\ ReservedNames
  BY DEF KeyInv, Named
<1>3. ASSUME SlugUsable(s)
      PROVE  ~ClaimedByOther(s)
  <2> SUFFICES ASSUME NEW t \in CommandSet \ {s},
                      NaturalSlug(s) \in {NaturalSlug(t), heap[t].key_override}
               PROVE  FALSE
    BY DEF ClaimedByOther
  <2>1. CASE NaturalSlug(s) = NaturalSlug(t)
    BY <1>3, <2>1 DEF SlugUsable, SoleClaimant
  <2>2. CASE NaturalSlug(s) = heap[t].key_override
    BY <1>1, <1>2, <1>3, <2>2 DEF SlugUsable, ReservedNames
  <2> QED
    BY <2>1, <2>2
<1>4. ASSUME ~Overridden(s), NaturalSlug(s) # None, ~ClaimedByOther(s)
      PROVE  SlugUsable(s)
  <2>1. SoleClaimant(s)
    BY <1>4 DEF SoleClaimant, ClaimedByOther
  <2>2. NaturalSlug(s) \notin reserved
    <3> SUFFICES ASSUME NaturalSlug(s) \in reserved
                 PROVE  FALSE
      OBVIOUS
    <3>1. CASE \E t \in CommandSet : Overridden(t) /\ heap[t].key_override = NaturalSlug(s)
      BY <1>4, <3>1 DEF ClaimedByOther
    <3>2. CASE \E t \in DOMAIN keys : NaturalSlug(t) = NaturalSlug(s)
      BY <1>2, <1>4, <3>2 DEF ClaimedByOther
    <3> QED
      BY <1>2, <3>1, <3>2 DEF ReservedNames
  <2> QED
    BY <1>4, <2>1, <2>2 DEF SlugUsable
<1> QED
  BY <1>3, <1>4 DEF SlugUsable

LEMMA UseSlugKeepsInv ==
  ASSUME KeyInv, UseSlug
  PROVE  KeyInv'
<1> DEFINE key == NameKey(NaturalSlug(Current))
<1>1. Assign(key) /\ SlugUsable(Current) /\ reserved' = reserved \cup {NaturalSlug(Current)}
  BY DEF UseSlug
<1>2. key.by = "name"
  BY DEF NameKey
<1>3. /\ stage = "resolve" /\ stage' = "resolve"
      /\ Current \in CommandSet /\ Current \notin DOMAIN keys
      /\ DOMAIN keys' = DOMAIN keys \cup {Current}
      /\ keys'[Current] = key
      /\ \A s \in DOMAIN keys : keys'[s] = keys[s]
      /\ position \in Nat /\ position' = position + 1 /\ heap' = heap
      /\ WellFormed' /\ Idle' /\ Enumerated' /\ Named' /\ Emitted'
  <2> HIDE DEF key
  <2> QED
    BY <1>1, AssignEffect
<1>4. /\ CommandSet' = CommandSet
      /\ \A s : /\ Overridden(s)' <=> Overridden(s)
                /\ NaturalSlug(s)' = NaturalSlug(s)
                /\ ClaimedByOther(s)' <=> ClaimedByOther(s)
  BY <1>3, FrozenForest
<1>5. ~Overridden(Current) /\ NaturalSlug(Current) # None /\ ~ClaimedByOther(Current)
  BY <1>1, <1>3, UsableIsUnclaimed
<1>6. ReservedNames'
  BY <1>1, <1>3, <1>4, <1>5 DEF KeyInv, ReservedNames
<1>7. PrecedenceRespected'
  <2> SUFFICES ASSUME NEW s \in DOMAIN keys'
               PROVE  IF Overridden(s) THEN keys'[s] = NameKey(heap[s].key_override)
                      ELSE IF NaturalSlug(s) # None /\ ~ClaimedByOther(s)
                           THEN keys'[s] = NameKey(NaturalSlug(s))
                           ELSE keys'[s].by = "hash"
    BY <1>3, <1>4 DEF PrecedenceRespected
  <2>1. CASE s \in DOMAIN keys
    BY <1>3, <2>1 DEF KeyInv, PrecedenceRespected
  <2>2. CASE s = Current
    BY <1>3, <1>5, <2>2
  <2> QED
    BY <1>3, <2>1, <2>2
<1>8. HashPositions'
  BY <1>2, <1>3 DEF KeyInv, HashPositions
<1> QED
  BY <1>3, <1>6, <1>7, <1>8 DEF KeyInv

LEMMA UseHashKeepsInv ==
  ASSUME KeyInv, UseHash
  PROVE  KeyInv'
<1> DEFINE key == HashKey(ParentComponent(Current), heap[Current].cmd, position)
<1>1. Assign(key) /\ ~Overridden(Current) /\ ~SlugUsable(Current) /\ reserved' = reserved
  BY DEF UseHash
<1>2. key.by = "hash" /\ key.position = position
  BY DEF HashKey
<1>3. /\ stage = "resolve" /\ stage' = "resolve"
      /\ Current \in CommandSet /\ Current \notin DOMAIN keys
      /\ DOMAIN keys' = DOMAIN keys \cup {Current}
      /\ keys'[Current] = key
      /\ \A s \in DOMAIN keys : keys'[s] = keys[s]
      /\ position \in Nat /\ position' = position + 1 /\ heap' = heap
      /\ WellFormed' /\ Idle' /\ Enumerated' /\ Named' /\ Emitted'
  <2> HIDE DEF key
  <2> QED
    BY <1>1, AssignEffect
<1> HIDE DEF key
<1>4. /\ CommandSet' = CommandSet
      /\ \A s : /\ Overridden(s)' <=> Overridden(s)
                /\ NaturalSlug(s)' = NaturalSlug(s)
                /\ ClaimedByOther(s)' <=> ClaimedByOther(s)
  BY <1>3, FrozenForest
<1>5. NaturalSlug(Current) = None \/ ClaimedByOther(Current)
  BY <1>1, <1>3, UsableIsUnclaimed
<1>6. ReservedNames'
  BY <1>1, <1>3, <1>4 DEF KeyInv, ReservedNames
<1>7. PrecedenceRespected'
  <2> SUFFICES ASSUME NEW s \in DOMAIN keys'
               PROVE  IF Overridden(s) THEN keys'[s] = NameKey(heap[s].key_override)
                      ELSE IF NaturalSlug(s) # None /\ ~ClaimedByOther(s)
                           THEN keys'[s] = NameKey(NaturalSlug(s))
                           ELSE keys'[s].by = "hash"
    BY <1>3, <1>4 DEF PrecedenceRespected
  <2>1. CASE s \in DOMAIN keys
    BY <1>3, <2>1 DEF KeyInv, PrecedenceRespected
  <2>2. CASE s = Current
    BY <1>1, <1>2, <1>3, <1>5, <2>2
  <2> QED
    BY <1>3, <2>1, <2>2
<1>8. HashPositions'
  <2>1. \A s \in DOMAIN keys : keys'[s].by = "hash" =>
          keys'[s].position \in Nat /\ keys'[s].position < position
    BY <1>3 DEF KeyInv, HashPositions
  <2>2. \A s \in DOMAIN keys' : keys'[s].by = "hash" =>
          keys'[s].position \in Nat /\ keys'[s].position < position'
    BY <1>2, <1>3, <2>1
  <2>3. ASSUME NEW s \in DOMAIN keys', NEW t \in DOMAIN keys',
               keys'[s].by = "hash", keys'[t].by = "hash",
               keys'[s].position = keys'[t].position
        PROVE  s = t
    <3>1. CASE s \in DOMAIN keys /\ t \in DOMAIN keys
      BY <1>3, <2>3, <3>1 DEF KeyInv, HashPositions
    <3>2. CASE s = Current \/ t = Current
      BY <1>2, <1>3, <2>1, <2>3, <3>2
    <3> QED
      BY <1>3, <3>1, <3>2
  <2> QED
    BY <2>2, <2>3 DEF HashPositions
<1> QED
  BY <1>3, <1>6, <1>7, <1>8 DEF KeyInv

(* While the stage, the enumeration and the keys stay, so does all that is *)
(* known of the keys.                                                      *)
LEMMA KeysStay ==
  ASSUME KeyInv, UNCHANGED <<heap, ordered, position, keys, reserved>>,
         stage \in {"resolve", "emit"}, stage' \in {"emit", "lowered"},
         DOMAIN keys = CommandSet,
         at' \in Nat \ {0}, at' <= Len(ordered') + 1
  PROVE  /\ WellFormed' /\ Idle' /\ Enumerated' /\ Named'
         /\ ReservedNames' /\ PrecedenceRespected' /\ HashPositions'
         /\ CommandSet' = CommandSet
         /\ \A s : ResolvedParentKey(s)' = ResolvedParentKey(s)
         /\ \A s : CommandAncestors(s)' = CommandAncestors(s)
<1>1. /\ WellFormed' /\ ParentFirstOrders' = ParentFirstOrders /\ CommandSet' = CommandSet
      /\ \A s : /\ Overridden(s)' <=> Overridden(s)
                /\ NaturalSlug(s)' = NaturalSlug(s)
                /\ CommandAncestors(s)' = CommandAncestors(s)
                /\ ClaimedByOther(s)' <=> ClaimedByOther(s)
  BY FrozenForest DEF KeyInv
<1>2. Idle' /\ Enumerated' /\ Named'
  BY <1>1 DEF KeyInv, Idle, Enumerated, Named
<1>3. ReservedNames' /\ PrecedenceRespected' /\ HashPositions'
  BY <1>1 DEF KeyInv, ReservedNames, PrecedenceRespected, HashPositions
<1>4. \A s : ResolvedParentKey(s)' = ResolvedParentKey(s)
  <2> TAKE s
  <2>1. CommandAncestors(s)' = CommandAncestors(s) /\ keys' = keys
    BY <1>1
  <2> QED
    BY <2>1 DEF ResolvedParentKey
<1> QED
  BY <1>1, <1>2, <1>3, <1>4

(* When the loop has passed the whole enumeration, every command is named. *)
LEMMA AllPassed ==
  ASSUME KeyInv, stage # "build", at > Len(ordered)
  PROVE  Passed = StepIds
<1>1. /\ Len(heap) \in Nat /\ Len(ordered) = Len(heap)
      /\ \A i \in StepIds : ordered[i] \in StepIds
      /\ \A s \in StepIds : \E i \in StepIds : ordered[i] = s
  BY OrderFacts DEF KeyInv, Enumerated
<1>2. 1 .. at - 1 = StepIds
  BY <1>1 DEF KeyInv, Enumerated, StepIds
<1> QED
  BY <1>1, <1>2 DEF Passed

LEMMA StartEmitKeepsInv ==
  ASSUME KeyInv, StartEmit
  PROVE  KeyInv'
<1>1. /\ stage = "resolve" /\ at > Len(ordered) /\ stage' = "emit" /\ at' = 1
      /\ UNCHANGED <<heap, ordered, position, keys, reserved, out>>
  BY DEF StartEmit
<1>2. DOMAIN keys = CommandSet
  BY <1>1, AllPassed DEF KeyInv, Named, CommandSet
<1>3. Len(ordered) \in Nat
  BY <1>1, OrderFacts DEF KeyInv, Enumerated
<1>4. at' \in Nat \ {0} /\ at' <= Len(ordered') + 1
  BY <1>1, <1>3
<1>5. /\ WellFormed' /\ Idle' /\ Enumerated' /\ Named'
      /\ ReservedNames' /\ PrecedenceRespected' /\ HashPositions'
  BY <1>1, <1>2, <1>4, KeysStay
<1>6. out = <<>> /\ DOMAIN out = {} /\ Len(out) = 0 /\ Passed' = {}
  BY <1>1, EmptySeq DEF KeyInv, Emitted, Passed
<1>7. Emitted'
  BY <1>1, <1>6, EmptySeq DEF Emitted, EmittedCommands
<1> QED
  BY <1>5, <1>7 DEF KeyInv

LEMMA AppendFacts ==
  ASSUME NEW s, s \in Seq({s[i] : i \in DOMAIN s}), NEW e
  PROVE  LET t == Append(s, e) IN
         /\ t \in Seq({t[i] : i \in DOMAIN t})
         /\ Len(s) \in Nat /\ Len(t) = Len(s) + 1
         /\ DOMAIN s = 1 .. Len(s) /\ DOMAIN t = 1 .. Len(s) + 1
         /\ \A i \in DOMAIN s : t[i] = s[i]
         /\ t[Len(s) + 1] = e
<1> DEFINE t == Append(s, e)
           S == {s[i] : i \in DOMAIN s}
           T == S \cup {e}
           R == {t[i] : i \in DOMAIN t}
<1>1. s \in Seq(T) /\ e \in T
  <2>1. S \subseteq T /\ s \in Seq(S)
    OBVIOUS
  <2> HIDE DEF S, T
  <2>2. \A n : [1 .. n -> S] \subseteq [1 .. n -> T]
    BY <2>1
  <2>3. s \in Seq(T)
    BY <2>1, <2>2, SeqDef
  <2> QED
    BY <2>3 DEF T
<1>2. /\ t \in Seq(T) /\ Len(s) \in Nat /\ Len(t) = Len(s) + 1 /\ DOMAIN s = 1 .. Len(s)
      /\ \A i \in 1 .. Len(s) : t[i] = s[i]
      /\ t[Len(s) + 1] = e
  <2> HIDE DEF T
  <2> QED
    BY <1>1, AppendProperties, LenProperties
<1>3. DOMAIN t = 1 .. Len(s) + 1
  <2> HIDE DEF T, t
  <2> QED
    BY <1>2, LenProperties
<1>4. t \in Seq(R)
  <2>1. \A i \in 1 .. Len(t) : t[i] \in R
    BY <1>2, <1>3
  <2> HIDE DEF R, t
  <2>2. t \in [1 .. Len(t) -> R]
    BY <1>2, <1>3, <2>1, LenProperties
  <2> QED
    BY <1>2, <2>2, SeqDef
<1> QED
  BY <1>2, <1>3, <1>4

(* What emitting a dict changes.                                           *)
LEMMA EmitDictEffect ==
  ASSUME Emitted, NEW d, EmitDict(d)
  PROVE  /\ UNCHANGED <<heap, stage, ordered, position, keys, reserved>>
         /\ at' = at + 1
         /\ out' \in Seq({out'[i] : i \in DOMAIN out'})
         /\ Len(out) \in Nat /\ Len(out') = Len(out) + 1
         /\ DOMAIN out = 1 .. Len(out) /\ DOMAIN out' = 1 .. Len(out) + 1
         /\ \A i \in DOMAIN out : out'[i] = out[i]
         /\ out'[Len(out) + 1] = d
<1>1. out \in Seq({out[i] : i \in DOMAIN out}) /\ out' = Append(out, d)
  BY DEF Emitted, EmitDict
<1>2. /\ UNCHANGED <<heap, stage, ordered, position, keys, reserved>>
      /\ at' = at + 1
  BY DEF EmitDict
<1> QED
  BY <1>1, <1>2, AppendFacts

LEMMA EmittedCommandsAfter ==
  ASSUME Emitted, NEW d, EmitDict(d)
  PROVE  /\ EmittedCommands' =
              IF d.type = "command" THEN EmittedCommands \cup {Len(out) + 1}
              ELSE EmittedCommands
         /\ \A i \in EmittedCommands : i \in 1 .. Len(out) /\ out'[i] = out[i]
<1>1. /\ Len(out) \in Nat
      /\ DOMAIN out = 1 .. Len(out) /\ DOMAIN out' = 1 .. Len(out) + 1
      /\ \A i \in DOMAIN out : out'[i] = out[i]
      /\ out'[Len(out) + 1] = d
  BY EmitDictEffect
<1>2. EmittedCommands = {i \in 1 .. Len(out) : out[i].type = "command"}
  BY <1>1 DEF EmittedCommands
<1>3. EmittedCommands' = {i \in 1 .. Len(out) + 1 : out'[i].type = "command"}
  BY <1>1 DEF EmittedCommands
<1>4. 1 .. Len(out) + 1 = (1 .. Len(out)) \cup {Len(out) + 1}
  BY <1>1
<1>5. \A i \in 1 .. Len(out) : out'[i].type = "command" <=> i \in EmittedCommands
  BY <1>1, <1>2
<1>6. out'[Len(out) + 1].type = "command" <=> d.type = "command"
  BY <1>1
<1>7. \A i \in EmittedCommands : i \in 1 .. Len(out) /\ out'[i] = out[i]
  BY <1>1, <1>2
<1> QED
  BY <1>3, <1>4, <1>5, <1>6, <1>7

(* The loop of the emission moves on without emitting a command.           *)
LEMMA NoCommandKeepsEmitted ==
  ASSUME KeyInv, stage = "emit", stage' = "emit", at <= Len(ordered), at' = at + 1,
         UNCHANGED <<heap, ordered, position, keys, reserved>>,
         ~IsCommand(Current),
         out' \in Seq({out'[i] : i \in DOMAIN out'}),
         Len(out') < at',
         EmittedCommands' = EmittedCommands,
         \A i \in EmittedCommands : out'[i] = out[i]
  PROVE  KeyInv'
<1>1. /\ Passed' = Passed \cup {Current}
      /\ at \in Nat /\ at' \in Nat \ {0} /\ at' <= Len(ordered') + 1
  BY Advance DEF KeyInv, Enumerated
<1>2. DOMAIN keys = CommandSet
  BY DEF KeyInv, Named
<1>3. /\ WellFormed' /\ Idle' /\ Enumerated' /\ Named'
      /\ ReservedNames' /\ PrecedenceRespected' /\ HashPositions'
      /\ CommandSet' = CommandSet
      /\ \A s : ResolvedParentKey(s)' = ResolvedParentKey(s)
      /\ \A s : CommandAncestors(s)' = CommandAncestors(s)
  BY <1>1, <1>2, KeysStay
<1>4. CommandSet \cap Passed' = CommandSet \cap Passed
  BY <1>1 DEF CommandSet
<1>5. /\ EmittedCommands' = EmittedCommands
      /\ \A i \in EmittedCommands : out'[i] = out[i]
  OBVIOUS
<1>6. /\ \A i \in EmittedCommands :
           /\ out[i].step \in CommandSet \cap Passed
           /\ out[i].key = keys[out[i].step]
           /\ \A s \in CommandSet : out[i].step = s =>
                /\ out[i].builds_in = ResolvedParentKey(s)
                /\ \A a \in CommandAncestors(s) :
                     \E j \in EmittedCommands : j < i /\ out[j].step = a
      /\ \A i, j \in EmittedCommands : out[i].step = out[j].step => i = j
      /\ \A s \in CommandSet \cap Passed : \E i \in EmittedCommands : out[i].step = s
  BY DEF KeyInv, Emitted
<1>7. \A i \in EmittedCommands' :
        /\ out'[i].step \in CommandSet' \cap Passed'
        /\ out'[i].key = keys'[out'[i].step]
        /\ \A s \in CommandSet' : out'[i].step = s =>
             /\ out'[i].builds_in = ResolvedParentKey(s)'
             /\ \A a \in CommandAncestors(s)' :
                  \E j \in EmittedCommands' : j < i /\ out'[j].step = a
  <2> TAKE i \in EmittedCommands'
  <2>1. i \in EmittedCommands /\ out'[i] = out[i]
    BY <1>5
  <2>2. out'[i].step \in CommandSet' \cap Passed' /\ out'[i].key = keys'[out'[i].step]
    BY <1>3, <1>4, <1>6, <2>1
  <2>3. ASSUME NEW s \in CommandSet', out'[i].step = s
        PROVE  /\ out'[i].builds_in = ResolvedParentKey(s)'
               /\ \A a \in CommandAncestors(s)' :
                    \E j \in EmittedCommands' : j < i /\ out'[j].step = a
    <3>1. /\ out[i].builds_in = ResolvedParentKey(s)
          /\ \A a \in CommandAncestors(s) :
               \E j \in EmittedCommands : j < i /\ out[j].step = a
      BY <1>3, <1>6, <2>1, <2>3
    <3>2. ResolvedParentKey(s)' = ResolvedParentKey(s)
          /\ CommandAncestors(s)' = CommandAncestors(s)
      BY <1>3
    <3> QED
      BY <1>5, <2>1, <3>1, <3>2
  <2> QED
    BY <2>2, <2>3
<1>8. /\ \A i, j \in EmittedCommands' : out'[i].step = out'[j].step => i = j
      /\ \A s \in CommandSet' \cap Passed' : \E i \in EmittedCommands' : out'[i].step = s
  BY <1>3, <1>4, <1>5, <1>6
<1>9. Emitted'
  BY <1>7, <1>8 DEF Emitted
<1> QED
  BY <1>3, <1>9 DEF KeyInv

LEMMA EmitWaitKeepsInv ==
  ASSUME KeyInv, EmitWait
  PROVE  KeyInv'
<1> DEFINE d == [type |-> "wait", step |-> Current]
<1>1. /\ stage = "emit" /\ at <= Len(ordered) /\ EmitDict(d) /\ ~IsCommand(Current)
  BY DEF EmitWait, Emitting, IsCommand
<1>2. d.type # "command"
  OBVIOUS
<1> HIDE DEF d
<1>3. Emitted /\ Len(out) < at /\ at \in Nat
  BY DEF KeyInv, Emitted, Enumerated
<1>4. /\ UNCHANGED <<heap, stage, ordered, position, keys, reserved>>
      /\ at' = at + 1
      /\ out' \in Seq({out'[i] : i \in DOMAIN out'})
      /\ Len(out) \in Nat /\ Len(out') = Len(out) + 1
  BY <1>1, <1>3, EmitDictEffect
<1>5. /\ EmittedCommands' = EmittedCommands
      /\ \A i \in EmittedCommands : out'[i] = out[i]
  BY <1>1, <1>2, <1>3, EmittedCommandsAfter
<1>6. Len(out') < at'
  BY <1>3, <1>4
<1> QED
  BY <1>1, <1>4, <1>5, <1>6, NoCommandKeepsEmitted

LEMMA SkipPassthroughKeepsInv ==
  ASSUME KeyInv, SkipPassthrough
  PROVE  KeyInv'
<1>1. /\ stage = "emit" /\ stage' = "emit" /\ at <= Len(ordered) /\ at' = at + 1
      /\ UNCHANGED <<heap, ordered, position, keys, reserved>>
      /\ out' = out
      /\ ~IsCommand(Current)
  BY DEF SkipPassthrough, Emitting, IsCommand
<1>2. out \in Seq({out[i] : i \in DOMAIN out}) /\ Len(out) < at /\ at \in Nat
  BY DEF KeyInv, Emitted, Enumerated
<1>3. Len(out) \in Nat
  BY <1>2, LenProperties
<1>4. EmittedCommands' = EmittedCommands /\ \A i \in EmittedCommands : out'[i] = out[i]
  BY <1>1 DEF EmittedCommands
<1>5. out' \in Seq({out'[i] : i \in DOMAIN out'}) /\ Len(out') < at'
  BY <1>1, <1>2, <1>3
<1> QED
  BY <1>1, <1>4, <1>5, NoCommandKeepsEmitted

LEMMA EmitCommandKeepsInv ==
  ASSUME KeyInv, EmitCommand
  PROVE  KeyInv'
<1> DEFINE c == Current
           d == [type |-> "command", step |-> c, key |-> keys[c],
                 cmd |-> heap[c].cmd, builds_in |-> ResolvedParentKey(c),
                 cache |-> heap[c].cache]
           n == Len(out) + 1
<1>1. stage = "emit" /\ at <= Len(ordered) /\ EmitDict(d) /\ IsCommand(c)
  BY DEF EmitCommand, Emitting
<1>2. /\ d.type = "command" /\ d.step = c /\ d.key = keys[c]
      /\ d.builds_in = ResolvedParentKey(c)
  OBVIOUS
<1> HIDE DEF d
<1>3. Emitted /\ Len(out) < at /\ at \in Nat
  BY DEF KeyInv, Emitted, Enumerated
<1>4. /\ UNCHANGED <<heap, stage, ordered, position, keys, reserved>>
      /\ at' = at + 1
      /\ out' \in Seq({out'[i] : i \in DOMAIN out'})
      /\ Len(out) \in Nat /\ Len(out') = n
      /\ out'[n] = d
  BY <1>1, <1>3, EmitDictEffect
<1>5. /\ EmittedCommands' = EmittedCommands \cup {n}
      /\ \A i \in EmittedCommands : i \in 1 .. Len(out) /\ out'[i] = out[i]
  BY <1>1, <1>2, <1>3, EmittedCommandsAfter
<1>6. Len(out') < at'
  BY <1>3, <1>4
<1>7. /\ at \in StepIds /\ c \in StepIds /\ c = ordered[at]
      /\ Passed' = Passed \cup {c} /\ c \notin Passed
      /\ at' \in Nat \ {0} /\ at' <= Len(ordered') + 1
  BY <1>1, <1>4, Advance
<1>8. DOMAIN keys = CommandSet /\ c \in CommandSet
  BY <1>1, <1>7 DEF KeyInv, Named, CommandSet
<1>9. /\ WellFormed' /\ Idle' /\ Enumerated' /\ Named'
      /\ ReservedNames' /\ PrecedenceRespected' /\ HashPositions'
      /\ CommandSet' = CommandSet
      /\ \A s : ResolvedParentKey(s)' = ResolvedParentKey(s)
      /\ \A s : CommandAncestors(s)' = CommandAncestors(s)
  BY <1>1, <1>4, <1>7, <1>8, KeysStay
<1>10. /\ \A i \in EmittedCommands :
            /\ out[i].step \in CommandSet \cap Passed
            /\ out[i].key = keys[out[i].step]
            /\ \A s \in CommandSet : out[i].step = s =>
                 /\ out[i].builds_in = ResolvedParentKey(s)
                 /\ \A a \in CommandAncestors(s) :
                      \E j \in EmittedCommands : j < i /\ out[j].step = a
       /\ \A i, j \in EmittedCommands : out[i].step = out[j].step => i = j
       /\ \A s \in CommandSet \cap Passed : \E i \in EmittedCommands : out[i].step = s
  BY <1>1 DEF KeyInv, Emitted
<1>11. \A a \in CommandAncestors(c) : a \in CommandSet \cap Passed
  <2> TAKE a \in CommandAncestors(c)
  <2>1. ordered \in ParentFirstOrders
    BY <1>1 DEF KeyInv, Enumerated
  <2>2. a \in CommandSet /\ \E j \in 1 .. at - 1 : ordered[j] = a
    BY <1>7, <2>1, AncestorsStandBefore DEF KeyInv
  <2> QED
    BY <2>2 DEF Passed
<1> HIDE DEF c, n
<1>12. \A i \in EmittedCommands : i < n
  BY <1>4, <1>5 DEF n
<1>13. \A i \in EmittedCommands' :
         /\ out'[i].step \in CommandSet' \cap Passed'
         /\ out'[i].key = keys'[out'[i].step]
         /\ \A s \in CommandSet' : out'[i].step = s =>
              /\ out'[i].builds_in = ResolvedParentKey(s)'
              /\ \A a \in CommandAncestors(s)' :
                   \E j \in EmittedCommands' : j < i /\ out'[j].step = a
  <2> TAKE i \in EmittedCommands'
  <2>1. CASE i \in EmittedCommands
    <3>1. out'[i] = out[i]
      BY <1>5, <2>1
    <3>2. out'[i].step \in CommandSet' \cap Passed' /\ out'[i].key = keys'[out'[i].step]
      BY <1>4, <1>7, <1>9, <1>10, <2>1, <3>1
    <3>3. ASSUME NEW s \in CommandSet', out'[i].step = s
          PROVE  /\ out'[i].builds_in = ResolvedParentKey(s)'
                 /\ \A a \in CommandAncestors(s)' :
                      \E j \in EmittedCommands' : j < i /\ out'[j].step = a
      <4>1. /\ out[i].builds_in = ResolvedParentKey(s)
            /\ \A a \in CommandAncestors(s) :
                 \E j \in EmittedCommands : j < i /\ out[j].step = a
        BY <1>9, <1>10, <2>1, <3>1, <3>3
      <4>2. ResolvedParentKey(s)' = ResolvedParentKey(s)
            /\ CommandAncestors(s)' = CommandAncestors(s)
        BY <1>9
      <4> QED
        BY <1>5, <3>1, <4>1, <4>2
    <3> QED
      BY <3>2, <3>3
  <2>2. CASE i = n
    <3>1. out'[i].step = c /\ out'[i].builds_in = ResolvedParentKey(c)
      BY <1>2, <1>4, <2>2
    <3>2. out'[i].step \in CommandSet' \cap Passed' /\ out'[i].key = keys'[out'[i].step]
      BY <1>2, <1>4, <1>7, <1>8, <1>9, <2>2
    <3>3. ASSUME NEW a \in CommandAncestors(c)
          PROVE  \E j \in EmittedCommands' : j < n /\ out'[j].step = a
      <4>1. PICK j \in EmittedCommands : out[j].step = a
        BY <1>10, <1>11
      <4> QED
        BY <1>5, <1>12, <4>1
    <3>4. ASSUME NEW s \in CommandSet', out'[i].step = s
          PROVE  /\ out'[i].builds_in = ResolvedParentKey(s)'
                 /\ \A a \in CommandAncestors(s)' :
                      \E j \in EmittedCommands' : j < i /\ out'[j].step = a
      <4>1. s = c
        BY <3>1, <3>4
      <4>2. ResolvedParentKey(s)' = ResolvedParentKey(s)
            /\ CommandAncestors(s)' = CommandAncestors(s)
        BY <1>9
      <4> QED
        BY <2>2, <3>1, <3>3, <4>1, <4>2
    <3> QED
      BY <3>2, <3>4
  <2> QED
    BY <1>5, <2>1, <2>2
<1>14. \A i, j \in EmittedCommands' : out'[i].step = out'[j].step => i = j
  <2>1. \A i \in EmittedCommands : out'[i].step = out[i].step /\ out'[i].step # c
    BY <1>5, <1>7, <1>10
  <2>2. out'[n].step = c
    BY <1>2, <1>4
  <2> QED
    BY <1>5, <1>10, <2>1, <2>2
<1>15. \A s \in CommandSet' \cap Passed' : \E i \in EmittedCommands' : out'[i].step = s
  <2> TAKE s \in CommandSet' \cap Passed'
  <2>1. CASE s \in Passed
    BY <1>5, <1>9, <1>10, <2>1
  <2>2. CASE s = c
    BY <1>2, <1>4, <1>5, <2>2
  <2> QED
    BY <1>7, <2>1, <2>2
<1>16. Emitted'
  BY <1>1, <1>4, <1>6, <1>13, <1>14, <1>15 DEF Emitted
<1> QED
  BY <1>9, <1>16 DEF KeyInv

LEMMA FinishKeepsInv ==
  ASSUME KeyInv, FinishLowering
  PROVE  KeyInv'
<1>1. /\ stage = "emit" /\ stage' = "lowered"
      /\ UNCHANGED <<heap, ordered, at, position, keys, reserved, out>>
  BY DEF FinishLowering
<1>2. DOMAIN keys = CommandSet /\ at' \in Nat \ {0} /\ at' <= Len(ordered') + 1
  BY <1>1 DEF KeyInv, Named, Enumerated
<1>3. /\ WellFormed' /\ Idle' /\ Enumerated' /\ Named'
      /\ ReservedNames' /\ PrecedenceRespected' /\ HashPositions'
      /\ CommandSet' = CommandSet
      /\ \A s : ResolvedParentKey(s)' = ResolvedParentKey(s)
      /\ \A s : CommandAncestors(s)' = CommandAncestors(s)
  BY <1>1, <1>2, KeysStay
<1>4. EmittedCommands' = EmittedCommands /\ Passed' = Passed
  BY <1>1 DEF EmittedCommands, Passed
<1>5. Emitted'
  BY <1>1, <1>3, <1>4 DEF KeyInv, Emitted
<1> QED
  BY <1>3, <1>5 DEF KeyInv

LEMMA StutterKeepsInv ==
  ASSUME KeyInv, UNCHANGED keyVars
  PROVE  KeyInv'
<1>1. UNCHANGED <<heap, stage, ordered, at, position, keys, reserved, out>>
  BY DEF keyVars
<1>2. /\ WellFormed' /\ ParentFirstOrders' = ParentFirstOrders /\ CommandSet' = CommandSet
      /\ \A s : /\ Overridden(s)' <=> Overridden(s)
                /\ NaturalSlug(s)' = NaturalSlug(s)
                /\ CommandAncestors(s)' = CommandAncestors(s)
                /\ ClaimedByOther(s)' <=> ClaimedByOther(s)
  BY <1>1, FrozenForest DEF KeyInv
<1>3. Passed' = Passed /\ EmittedCommands' = EmittedCommands
  BY <1>1 DEF Passed, EmittedCommands
<1>4. Idle' /\ Enumerated' /\ Named'
  BY <1>1, <1>2, <1>3 DEF KeyInv, Idle, Enumerated, Named
<1>5. ReservedNames' /\ PrecedenceRespected' /\ HashPositions'
  BY <1>1, <1>2 DEF KeyInv, ReservedNames, PrecedenceRespected, HashPositions
<1>6. \A s : ResolvedParentKey(s)' = ResolvedParentKey(s)
  <2> TAKE s
  <2>1. CommandAncestors(s)' = CommandAncestors(s) /\ keys' = keys
    BY <1>1, <1>2
  <2> QED
    BY <2>1 DEF ResolvedParentKey
<1>7. Emitted'
  BY <1>1, <1>2, <1>3, <1>6 DEF KeyInv, Emitted
<1> QED
  BY <1>2, <1>4, <1>5, <1>7 DEF KeyInv

-----------------------------------------------------------------------------
(* So does every step.                                                     *)
LEMMA NextKeepsInv ==
  ASSUME KeyInv, [KeyNext]_keyVars
  PROVE  KeyInv'
<1>1. CASE BuildStep
  BY <1>1, BuildKeepsInv
<1>2. CASE StartResolve
  BY <1>2, StartKeepsInv
<1>3. CASE SkipKeyless
  BY <1>3, SkipKeylessKeepsInv
<1>4. CASE UseOverride
  BY <1>4, UseOverrideKeepsInv
<1>5. CASE UseSlug
  BY <1>5, UseSlugKeepsInv
<1>6. CASE UseHash
  BY <1>6, UseHashKeepsInv
<1>7. CASE StartEmit
  BY <1>7, StartEmitKeepsInv
<1>8. CASE EmitWait
  BY <1>8, EmitWaitKeepsInv
<1>9. CASE SkipPassthrough
  BY <1>9, SkipPassthroughKeepsInv
<1>10. CASE EmitCommand
  BY <1>10, EmitCommandKeepsInv
<1>11. CASE FinishLowering
  BY <1>11, FinishKeepsInv
<1>12. CASE UNCHANGED keyVars
  BY <1>12, StutterKeepsInv
<1> QED
  BY <1>1, <1>2, <1>3, <1>4, <1>5, <1>6, <1>7, <1>8, <1>9, <1>10, <1>11, <1>12
  DEF KeyNext, Resolve, Emit, Ended

(* The invariant holds in every reachable state.                           *)
LEMMA KeyInvariant == KeySpec => []KeyInv
<1>1. KeyInit => KeyInv
  BY InitHoldsInv
<1>2. KeyInv /\ [KeyNext]_keyVars => KeyInv'
  BY NextKeepsInv
<1> QED
  BY <1>1, <1>2, PTL DEF KeySpec

(***************************************************************************)
(* Every part of the resolver's state keeps its type: names taken are      *)
(* explicit keys or slugs, and only commands have a key.                   *)
(***************************************************************************)
LEMMA InvGivesTypes ==
  ASSUME KeyInv
  PROVE  KeyTypeOK
<1>1. WellFormed /\ Enumerated /\ Idle /\ Named /\ ReservedNames /\ Emitted
  BY DEF KeyInv
<1>2. Len(heap) \in Nat
  BY <1>1, LenProperties DEF WellFormed
<1>3. ordered \in Seq(StepIds)
  <2>1. CASE stage = "build"
    BY <1>1, <2>1, EmptySeq DEF Idle
  <2>2. CASE stage # "build"
    BY <1>1, <2>2, OrderFacts DEF Enumerated
  <2> QED
    BY <2>1, <2>2
<1>4. reserved \subseteq KeyOverrides \cup Slugs
  <2>1. CASE stage = "build"
    BY <1>1, <2>1 DEF Idle
  <2>2. CASE stage # "build"
    <3> SUFFICES ASSUME NEW n \in reserved
                 PROVE  n \in KeyOverrides \cup Slugs
      OBVIOUS
    <3>1. CASE \E s \in CommandSet : Overridden(s) /\ heap[s].key_override = n
      BY <1>1, <3>1, NameTypes
    <3>2. CASE \E s \in DOMAIN keys : NaturalSlug(s) = n /\ n # None
      BY <1>1, <3>2, NameTypes DEF Named, Opt
    <3> QED
      BY <1>1, <2>2, <3>1, <3>2 DEF ReservedNames
  <2> QED
    BY <2>1, <2>2
<1>5. DOMAIN out \subseteq StepIds
  <2>1. Len(out) \in Nat /\ DOMAIN out = 1 .. Len(out) /\ Len(out) < at /\ at \in Nat
    <3>1. out \in Seq({out[i] : i \in DOMAIN out})
      BY <1>1 DEF Emitted
    <3> QED
      BY <1>1, <3>1, LenProperties DEF Emitted, Enumerated
  <2>2. CASE stage = "build"
    BY <1>1, <2>1, <2>2 DEF Idle
  <2>3. CASE stage # "build"
    <3>1. Len(ordered) = Len(heap)
      BY <1>1, <2>3, OrderFacts DEF Enumerated
    <3> QED
      BY <1>1, <1>2, <2>1, <3>1 DEF Enumerated, StepIds
  <2> QED
    BY <2>2, <2>3
<1> QED
  BY <1>1, <1>3, <1>4, <1>5 DEF KeyTypeOK, Enumerated, Named

(* The resolver's state keeps its type, whatever the pipeline.             *)
THEOREM KeysAreTyped == KeySpec => []KeyTypeOK
<1>1. KeyInv => KeyTypeOK
  BY InvGivesTypes
<1> QED
  BY <1>1, KeyInvariant, PTL

LEMMA InvKeepsKeysDistinct ==
  ASSUME KeyInv
  PROVE  KeysDistinct
<1> SUFFICES ASSUME OverridesDistinct,
                    NEW s \in DOMAIN keys, NEW t \in DOMAIN keys, keys[s] = keys[t]
             PROVE  s = t
  BY DEF KeysDistinct
<1>1. s \in CommandSet /\ t \in CommandSet
  BY DEF KeyInv, Named
<1>2. CASE keys[s].by = "hash"
  BY <1>2 DEF KeyInv, HashPositions
<1>3. CASE keys[s].by # "hash"
  <2>1. /\ Overridden(s) => keys[s] = NameKey(heap[s].key_override)
        /\ Overridden(t) => keys[t] = NameKey(heap[t].key_override)
        /\ ~Overridden(s) => keys[s] = NameKey(NaturalSlug(s)) /\ ~ClaimedByOther(s)
        /\ ~Overridden(t) => keys[t] = NameKey(NaturalSlug(t)) /\ ~ClaimedByOther(t)
    BY <1>3 DEF KeyInv, PrecedenceRespected
  <2>2. \A m, n : NameKey(m) = NameKey(n) => m = n
    BY DEF NameKey
  <2>3. CASE Overridden(s) /\ Overridden(t)
    BY <1>1, <2>1, <2>2, <2>3 DEF OverridesDistinct
  <2>4. CASE ~Overridden(s)
    <3>1. NaturalSlug(s) \in {NaturalSlug(t), heap[t].key_override}
      BY <2>1, <2>2, <2>4
    <3> QED
      BY <1>1, <2>1, <2>4, <3>1 DEF ClaimedByOther
  <2>5. CASE ~Overridden(t)
    <3>1. NaturalSlug(t) \in {NaturalSlug(s), heap[s].key_override}
      BY <2>1, <2>2, <2>5
    <3> QED
      BY <1>1, <2>1, <2>5, <3>1 DEF ClaimedByOther
  <2> QED
    BY <2>3, <2>4, <2>5
<1> QED
  BY <1>2, <1>3

(***************************************************************************)
(* resolve_keys never gives two Steps the same key, unless the user gave   *)
(* both the same explicit one.                                             *)
(***************************************************************************)
THEOREM KeysAreDistinct == KeySpec => []KeysDistinct
<1>1. KeyInv => KeysDistinct
  BY InvKeepsKeysDistinct
<1> QED
  BY <1>1, KeyInvariant, PTL

(***************************************************************************)
(* The precedence _keys.py documents holds, in whichever parent-first      *)
(* order the Steps come.                                                   *)
(***************************************************************************)
THEOREM PrecedenceHolds == KeySpec => []PrecedenceRespected
<1>1. KeyInv => PrecedenceRespected
  BY DEF KeyInv
<1> QED
  BY <1>1, KeyInvariant, PTL

LEMMA InvResolvesBuildsIn ==
  ASSUME KeyInv
  PROVE  BuildsInResolves
<1> SUFFICES ASSUME OverridesDistinct, NEW i \in EmittedCommands
             PROVE  LET above == CommandAncestors(out[i].step) IN
                    IF above = {} THEN out[i].builds_in = None
                    ELSE \E j \in EmittedCommands :
                           /\ j < i
                           /\ out[j].step \in above
                           /\ \A a \in above : a <= out[j].step
                           /\ \A k \in EmittedCommands :
                                out[k].key = out[i].builds_in <=> k = j
  BY DEF BuildsInResolves
<1> DEFINE s == out[i].step
           above == CommandAncestors(s)
           y == Youngest(above)
<1>1. s \in CommandSet /\ out[i].builds_in = ResolvedParentKey(s)
      /\ \A a \in above : \E j \in EmittedCommands : j < i /\ out[j].step = a
  BY DEF KeyInv, Emitted
<1>2. CASE above = {}
  BY <1>1, <1>2 DEF ResolvedParentKey
<1>3. CASE above # {}
  <2>1. y \in above /\ \A a \in above : a <= y
    <3>1. above \subseteq 1 .. Len(heap) /\ Len(heap) \in Nat
      BY LenProperties DEF CommandAncestors, Reach, StepIds, KeyInv, WellFormed
    <3> HIDE DEF above
    <3> QED
      BY <1>3, <3>1, YoungestIsLast
  <2>2. out[i].builds_in = keys[y]
    BY <1>1, <1>3 DEF ResolvedParentKey
  <2> HIDE DEF y, above
  <2>3. PICK j \in EmittedCommands : j < i /\ out[j].step = y
    BY <1>1, <2>1
  <2>4. \A k \in EmittedCommands :
          out[k].key = keys[out[k].step] /\ out[k].step \in CommandSet
    BY DEF KeyInv, Emitted
  <2>5. DOMAIN keys = CommandSet
    <3>1. DOMAIN out # {}
      BY DEF EmittedCommands
    <3>2. stage \notin {"build", "resolve"}
      BY <3>1, EmptySeq DEF KeyInv, Emitted
    <3> QED
      BY <3>2 DEF KeyInv, Enumerated, Named
  <2>6. \A k \in EmittedCommands : out[k].step = y => k = j
    BY <2>3 DEF KeyInv, Emitted
  <2>7. \A k \in EmittedCommands : keys[out[k].step] = keys[y] => out[k].step = y
    BY <2>3, <2>4, <2>5, InvKeepsKeysDistinct DEF KeysDistinct
  <2>8. \A k \in EmittedCommands : out[k].key = out[i].builds_in <=> k = j
    BY <2>2, <2>3, <2>4, <2>6, <2>7
  <2> QED
    BY <1>3, <2>1, <2>3, <2>8 DEF above
<1> QED
  BY <1>2, <1>3

(***************************************************************************)
(* builds_in always finds its step: exactly one dict carries that key, it  *)
(* is emitted earlier, and it is the nearest command.                      *)
(***************************************************************************)
THEOREM BuildsInFindsItsStep == KeySpec => []BuildsInResolves
<1>1. KeyInv => BuildsInResolves
  BY InvResolvesBuildsIn
<1> QED
  BY <1>1, KeyInvariant, PTL

-----------------------------------------------------------------------------
(* What a Step reaches, unfolded along `parent`.                           *)

LEMMA ReachUnfolds ==
  ASSUME WellFormed, NEW s \in StepIds
  PROVE  /\ Parent(s) = NoStep => Reach({s}) = {s}
         /\ Parent(s) # NoStep => /\ Parent(s) \in StepIds /\ Parent(s) < s
                                  /\ Reach({s}) = {s} \cup Reach({Parent(s)})
<1>1. {s} \subseteq Reach({s}) /\ ParentClosed(Reach({s})) /\ Reach({s}) \subseteq StepIds
  BY ReachHolds, ReachClosed DEF Reach
<1>2. CASE Parent(s) = NoStep
  <2>1. ParentClosed({s}) /\ {s} \in SUBSET StepIds
    BY <1>2 DEF ParentClosed
  <2>2. Reach({s}) \subseteq {s}
    BY <2>1, ReachLeast
  <2> QED
    BY <1>1, <1>2, <2>2
<1>3. CASE Parent(s) # NoStep
  <2> DEFINE p == Parent(s)
             C == {s} \cup Reach({p})
  <2>1. p \in Reach({s}) /\ p \in StepIds /\ p < s
    BY <1>1, <1>3 DEF ParentClosed, WellFormed
  <2>2. {p} \subseteq Reach({p}) /\ ParentClosed(Reach({p})) /\ Reach({p}) \subseteq StepIds
    BY <2>1, ReachHolds, ReachClosed DEF Reach
  <2>3. ParentClosed(C) /\ C \in SUBSET StepIds /\ {s} \subseteq C
    BY <2>2 DEF ParentClosed
  <2>4. Reach({s}) \subseteq C
    <3> HIDE DEF C
    <3> QED
      BY <2>3, ReachLeast
  <2>5. Reach({p}) \subseteq Reach({s})
    <3> DEFINE R == Reach({s})
    <3>1. R \in SUBSET StepIds /\ {p} \subseteq R /\ ParentClosed(R)
      BY <1>1, <2>1
    <3> HIDE DEF R, p
    <3>2. Reach({p}) \subseteq R
      BY <3>1, ReachLeast
    <3> QED
      BY <3>2 DEF R
  <2> QED
    BY <1>1, <1>3, <2>1, <2>4, <2>5
<1> QED
  BY <1>2, <1>3

(* What a Step reaches is older, and lies on one line.                     *)
LEMMA ReachIsLine ==
  ASSUME WellFormed, NEW s \in StepIds
  PROVE  /\ Reach({s}) \subseteq 1 .. s /\ s \in Reach({s})
         /\ \A b \in Reach({s}) : Reach({b}) \subseteq Reach({s})
         /\ \A a, b \in Reach({s}) : a <= b => a \in Reach({b})
<1> DEFINE Good(t) == /\ Reach({t}) \subseteq 1 .. t /\ t \in Reach({t})
                      /\ \A b \in Reach({t}) : Reach({b}) \subseteq Reach({t})
                      /\ \A a, b \in Reach({t}) : a <= b => a \in Reach({b})
           S == {t \in StepIds : ~Good(t)}
<1>0. Len(heap) \in Nat
  BY LenProperties DEF WellFormed
<1>1. SUFFICES ASSUME S # {} PROVE FALSE
  OBVIOUS
<1>2. PICK t \in S : \A u \in S : t <= u
  <2>1. S \subseteq Nat
    BY <1>0 DEF StepIds
  <2> HIDE DEF S
  <2> QED
    BY <1>1, <2>1, SmallestExists
<1>3. t \in StepIds /\ t \in Nat /\ t >= 1
  BY <1>0 DEF StepIds
<1>4. CASE Parent(t) = NoStep
  <2>1. Reach({t}) = {t}
    BY <1>3, <1>4, ReachUnfolds
  <2>2. t \in 1 .. t
    BY <1>3
  <2>3. Reach({t}) \subseteq 1 .. t /\ t \in Reach({t})
    BY <2>1, <2>2
  <2>4. \A b \in Reach({t}) : b = t
    BY <2>1
  <2>5. Good(t)
    BY <2>3, <2>4
  <2> QED
    BY <2>5
<1>5. CASE Parent(t) # NoStep
  <2> DEFINE p == Parent(t)
  <2>1. p \in StepIds /\ p < t /\ Reach({t}) = {t} \cup Reach({p})
    BY <1>3, <1>5, ReachUnfolds
  <2> HIDE DEF p
  <2>2. Good(p) /\ p \in Nat
    <3>1. p \in Nat
      BY <1>0, <2>1 DEF StepIds
    <3>2. p \notin S
      <4> HIDE DEF S
      <4> QED
        BY <1>2, <1>3, <2>1, <3>1
    <3> QED
      BY <2>1, <3>1, <3>2
  <2>3. Reach({t}) \subseteq 1 .. t /\ t \in Reach({t})
    BY <1>3, <2>1, <2>2
  <2>4. \A b \in Reach({t}) : Reach({b}) \subseteq Reach({t})
    BY <2>1, <2>2
  <2>5. ASSUME NEW a \in Reach({t}), NEW b \in Reach({t}), a <= b
        PROVE  a \in Reach({b})
    <3>1. CASE b = t
      BY <3>1
    <3>2. CASE b # t
      <4>1. b \in Reach({p}) /\ b \in 1 .. p
        BY <2>1, <2>2, <3>2
      <4>2. a # t
        BY <1>3, <2>1, <2>2, <2>5, <4>1
      <4> QED
        BY <2>1, <2>2, <2>5, <4>1, <4>2
    <3> QED
      BY <3>1, <3>2
  <2> QED
    BY <2>3, <2>4, <2>5
<1> QED
  BY <1>4, <1>5

(* So do the commands among its ancestors: each stands on all older ones.  *)
LEMMA AncestorsLine ==
  ASSUME WellFormed, NEW s \in StepIds, CommandAncestors(s) # {}
  PROVE  LET y == Youngest(CommandAncestors(s)) IN
         /\ y \in CommandAncestors(s)
         /\ CommandAncestors(s) = {y} \cup CommandAncestors(y)
         /\ \A a \in CommandAncestors(s) : a <= y
<1> DEFINE A == CommandAncestors(s)
           y == Youngest(A)
<1>1. A \subseteq 1 .. Len(heap) /\ Len(heap) \in Nat
  BY LenProperties DEF CommandAncestors, Reach, StepIds, WellFormed
<1>2. y \in A /\ \A a \in A : a <= y
  <2>1. A # {}
    OBVIOUS
  <2> HIDE DEF A
  <2> QED
    BY <1>1, <2>1, YoungestIsLast
<1>3. /\ Reach({s}) \subseteq 1 .. s /\ s \in Reach({s})
      /\ \A b \in Reach({s}) : Reach({b}) \subseteq Reach({s})
      /\ \A a, b \in Reach({s}) : a <= b => a \in Reach({b})
  BY ReachIsLine
<1>4. y \in StepIds /\ y \in Reach({s}) /\ y # s /\ IsCommand(y)
  BY <1>1, <1>2 DEF CommandAncestors, StepIds
<1> HIDE DEF y
<1>5. Reach({y}) \subseteq 1 .. y
  BY <1>4, ReachIsLine
<1>6. s \notin Reach({y})
  <2>1. s \in Nat /\ y \in 1 .. s
    <3>1. s \in 1 .. Len(heap)
      BY DEF StepIds
    <3>2. Reach({s}) \subseteq 1 .. s
      BY <1>3
    <3>3. y \in 1 .. s
      BY <1>4, <3>2
    <3>4. s \in Nat
      <4> HIDE DEF A
      <4> QED
        BY <1>1, <3>1
    <3> QED
      BY <3>3, <3>4
  <2> QED
    BY <1>4, <1>5, <2>1
<1>7. CommandAncestors(y) \subseteq A
  BY <1>3, <1>4, <1>6 DEF CommandAncestors
<1>8. A \subseteq {y} \cup CommandAncestors(y)
  BY <1>2, <1>3, <1>4 DEF CommandAncestors
<1> QED
  BY <1>2, <1>7, <1>8 DEF y

-----------------------------------------------------------------------------
(* The two recursive functions of Lowering have a solution: what UpFrom    *)
(* computes is what a Step reaches.                                        *)

IsUp(f, h) ==
  f = [t \in 0 .. Len(h) |-> IF t = NoStep THEN {} ELSE {t} \cup f[h[t].parent]]

LEMMA UpFromIsReach ==
  ASSUME WellFormed
  PROVE  \A s \in StepIds : UpFrom(heap, s) = Reach({s})
<1>0. Len(heap) \in Nat /\ StepIds = 1 .. Len(heap)
  BY LenProperties DEF WellFormed, StepIds
<1> DEFINE g == [t \in 0 .. Len(heap) |-> IF t = NoStep THEN {} ELSE Reach({t})]
           f == CHOOSE u : IsUp(u, heap)
<1>1. IsUp(g, heap)
  <2>1. ASSUME NEW t \in 0 .. Len(heap)
        PROVE  g[t] = IF t = NoStep THEN {} ELSE {t} \cup g[heap[t].parent]
    <3>1. CASE t = NoStep
      BY <3>1
    <3>2. CASE t # NoStep
      <4>1. t \in StepIds
        BY <1>0, <3>2 DEF NoStep
      <4>2. CASE Parent(t) = NoStep
        <5>1. Reach({t}) = {t}
          BY <4>1, <4>2, ReachUnfolds
        <5>3. g[NoStep] = {}
          BY <1>0 DEF NoStep
        <5> HIDE DEF g
        <5>2. g[t] = Reach({t})
          BY <3>2 DEF g
        <5> QED
          BY <3>2, <4>2, <5>1, <5>2, <5>3 DEF Parent
      <4>3. CASE Parent(t) # NoStep
        <5>1. Parent(t) \in StepIds /\ Reach({t}) = {t} \cup Reach({Parent(t)})
          BY <4>1, <4>3, ReachUnfolds
        <5>2. g[t] = Reach({t}) /\ g[Parent(t)] = Reach({Parent(t)})
          BY <1>0, <3>2, <4>3, <5>1
        <5> HIDE DEF g
        <5> QED
          BY <3>2, <5>1, <5>2 DEF Parent
      <4> QED
        BY <4>2, <4>3
    <3> QED
      BY <3>1, <3>2
  <2>2. g = [t \in 0 .. Len(heap) |-> g[t]]
    OBVIOUS
  <2> HIDE DEF g
  <2> QED
    BY <2>1, <2>2 DEF IsUp
<1>2. IsUp(f, heap)
  BY <1>1
<1>3. \A s : UpFrom(heap, s) = f[s]
  BY DEF UpFrom, IsUp
<1> HIDE DEF f, g
<1>4. \A t \in 0 .. Len(heap) : f[t] = IF t = NoStep THEN {} ELSE {t} \cup f[heap[t].parent]
  BY <1>2 DEF IsUp
<1> DEFINE S == {t \in StepIds : f[t] # Reach({t})}
<1>5. SUFFICES ASSUME S # {} PROVE FALSE
  BY <1>3
<1>6. PICK t \in S : \A u \in S : t <= u
  <2>1. S \subseteq Nat
    BY <1>0
  <2> HIDE DEF S
  <2> QED
    BY <1>5, <2>1, SmallestExists
<1>7. t \in StepIds /\ t \in 0 .. Len(heap) /\ t # NoStep /\ NoStep \in 0 .. Len(heap)
  BY <1>0 DEF NoStep
<1>8. f[t] = {t} \cup f[Parent(t)] /\ f[NoStep] = {}
  BY <1>4, <1>7 DEF Parent
<1>9. CASE Parent(t) = NoStep
  BY <1>6, <1>7, <1>8, <1>9, ReachUnfolds
<1>10. CASE Parent(t) # NoStep
  <2>1. Parent(t) \in StepIds /\ Parent(t) < t /\ Reach({t}) = {t} \cup Reach({Parent(t)})
    BY <1>7, <1>10, ReachUnfolds
  <2>2. f[Parent(t)] = Reach({Parent(t)})
    BY <1>0, <1>6, <1>7, <2>1
  <2> QED
    BY <1>6, <1>8, <2>1, <2>2
<1> QED
  BY <1>9, <1>10

-----------------------------------------------------------------------------
(* A document of Lowering.  The chain of an entry is the entry and the     *)
(* chain of the last entry below it, the one that builds_in names.         *)

Below(r, i) == ChainOf(r, i) \ {i}

ChainStands(r, i) ==
  /\ i \in Nat /\ i \in ChainOf(r, i)
  /\ ChainOf(r, i) \subseteq 1 .. i /\ ChainOf(r, i) \subseteq Entries(r)
  /\ Below(r, i) # {} => /\ Youngest(Below(r, i)) \in Below(r, i)
                         /\ ChainOf(r, Youngest(Below(r, i))) = Below(r, i)
                         /\ \A t \in Below(r, i) : t <= Youngest(Below(r, i))

LEMMA ChainUnfolds ==
  ASSUME KeyInv, NEW r, r.heap = heap, r.out = out, NEW i \in Entries(r)
  PROVE  LET y == Youngest(Below(r, i)) IN
         /\ ChainStands(r, i)
         /\ Below(r, i) = {} => out[i].builds_in = None
         /\ Below(r, i) # {} => /\ y \in Entries(r) /\ y < i
                                /\ out[i].builds_in = out[y].key
                                /\ out[i].builds_in = keys[out[y].step]
<1> DEFINE E == EmittedCommands
           s == out[i].step
           A == CommandAncestors(s)
           below == Below(r, i)
           m == Youngest(A)
<1>1. Entries(r) = E /\ i \in E
  BY DEF Entries, EmittedCommands
<1>2. WellFormed /\ Emitted
  BY DEF KeyInv
<1>3. E \subseteq Nat
  <2>1. Len(out) \in Nat /\ DOMAIN out = 1 .. Len(out)
    BY <1>2, LenProperties DEF Emitted
  <2> QED
    BY <2>1 DEF EmittedCommands
<1>4. /\ \A j \in E : /\ out[j].step \in CommandSet /\ out[j].step \in StepIds
                      /\ out[j].key = keys[out[j].step]
                      /\ out[j].builds_in = ResolvedParentKey(out[j].step)
                      /\ \A a \in CommandAncestors(out[j].step) : \E k \in E : k < j /\ out[k].step = a
      /\ \A j, k \in E : out[j].step = out[k].step => j = k
  BY <1>2 DEF Emitted, CommandSet
<1>5. \A j \in E : /\ UpFrom(heap, out[j].step) = Reach({out[j].step})
                   /\ out[j].step \in Reach({out[j].step})
  <2> TAKE j \in E
  <2>1. out[j].step \in StepIds
    BY <1>4
  <2> QED
    BY <1>2, <2>1, UpFromIsReach, ReachIsLine
<1> HIDE DEF E
<1>6. ASSUME NEW j \in E
      PROVE  /\ j \in ChainOf(r, j)
             /\ ChainOf(r, j) \ {j} = {k \in E : out[k].step \in CommandAncestors(out[j].step)}
  <2>1. ChainOf(r, j) = {k \in E : out[k].step \in Reach({out[j].step})}
    BY <1>1, <1>5 DEF ChainOf, StepAt
  <2>2. \A k \in E : k # j =>
          (out[k].step \in Reach({out[j].step}) <=> out[k].step \in CommandAncestors(out[j].step))
    BY <1>4 DEF CommandAncestors, CommandSet
  <2>3. out[j].step \notin CommandAncestors(out[j].step)
    BY DEF CommandAncestors
  <2> QED
    BY <1>5, <2>1, <2>2, <2>3
<1>7. below = {k \in E : out[k].step \in A} /\ i \in ChainOf(r, i)
  BY <1>1, <1>6 DEF Below
<1>8. \A k \in below : k \in 1 .. i /\ k < i /\ k \in E
  <2> TAKE k \in below
  <2>1. PICK l \in E : l < i /\ out[l].step = out[k].step
    BY <1>1, <1>4, <1>7
  <2>2. k = l /\ k \in E
    BY <1>4, <1>7, <2>1
  <2>3. k # 0
    <3>1. DOMAIN out = 1 .. Len(out)
      BY <1>2, LenProperties DEF Emitted
    <3> QED
      BY <2>2, <3>1 DEF E, EmittedCommands
  <2> QED
    BY <1>1, <1>3, <2>1, <2>2, <2>3
<1>9. i \in Nat /\ i \in 1 .. i
  <2>1. DOMAIN out = 1 .. Len(out) /\ Len(out) \in Nat
    BY <1>2, LenProperties DEF Emitted
  <2> QED
    BY <1>1, <2>1 DEF E, EmittedCommands
<1>10. ChainOf(r, i) \subseteq 1 .. i /\ ChainOf(r, i) \subseteq Entries(r)
  BY <1>1, <1>8, <1>9 DEF Below
<1>11. ASSUME below = {}
       PROVE  out[i].builds_in = None
  <2>1. A = {}
    BY <1>1, <1>4, <1>7, <1>11
  <2> QED
    BY <1>1, <1>4, <2>1 DEF ResolvedParentKey
<1>12. ASSUME below # {}
       PROVE  \E y \in below : /\ y = Youngest(below) /\ ChainOf(r, y) = below
                               /\ out[i].builds_in = out[y].key
                               /\ out[i].builds_in = keys[out[y].step]
                               /\ \A t \in below : t <= y
  <2>1. A # {}
    BY <1>7, <1>12
  <2>2. m \in A /\ A = {m} \cup CommandAncestors(m) /\ \A a \in A : a <= m
    <3>1. s \in StepIds
      BY <1>1, <1>4
    <3> QED
      BY <1>2, <2>1, <3>1, AncestorsLine
  <2>3. out[i].builds_in = keys[m]
    BY <1>1, <1>4, <2>1 DEF ResolvedParentKey
  <2> HIDE DEF m, A
  <2>4. PICK y \in E : y < i /\ out[y].step = m
    BY <1>1, <1>4, <2>2 DEF A
  <2>5. y \in below
    BY <1>7, <2>2, <2>4
  <2>6. ASSUME NEW t \in below
        PROVE  t <= y
    <3>1. t \in E /\ out[t].step \in A /\ t \in Nat /\ y \in Nat
      BY <1>3, <1>7, <2>4
    <3>2. CASE out[t].step = m
      BY <1>4, <2>4, <3>1, <3>2
    <3>3. CASE out[t].step # m
      <4>1. out[t].step \in CommandAncestors(out[y].step)
        BY <2>2, <2>4, <3>1, <3>3
      <4>2. PICK k \in E : k < y /\ out[k].step = out[t].step
        BY <1>4, <4>1
      <4>3. k = t
        BY <1>4, <3>1, <4>2
      <4> QED
        BY <3>1, <4>2, <4>3
    <3> QED
      BY <3>2, <3>3
  <2>7. y = Youngest(below)
    <3>1. below \subseteq 1 .. i
      BY <1>8
    <3> HIDE DEF below
    <3>2. Youngest(below) \in below /\ \A t \in below : t <= Youngest(below)
      BY <1>9, <1>12, <3>1, YoungestIsLast
    <3>3. y <= Youngest(below) /\ Youngest(below) <= y
      BY <2>5, <2>6, <3>2
    <3>4. y \in 1 .. i /\ Youngest(below) \in 1 .. i
      BY <2>5, <3>1, <3>2
    <3>5. y \in Nat /\ Youngest(below) \in Nat
      BY <3>4
    <3> QED
      BY <3>3, <3>5
  <2>8. ChainOf(r, y) = below
    <3>1. ChainOf(r, y) \ {y} = {k \in E : out[k].step \in CommandAncestors(m)} /\ y \in ChainOf(r, y)
      BY <1>6, <2>4
    <3>2. \A k \in E : out[k].step = m <=> k = y
      BY <1>4, <2>4
    <3>3. \A k : k \in below <=> k \in E /\ out[k].step \in A
      BY <1>7
    <3> HIDE DEF below
    <3>4. \A k : k \in ChainOf(r, y) <=> k \in below
      BY <2>2, <2>4, <3>1, <3>2, <3>3
    <3> QED
      BY <3>4
  <2>9. out[i].builds_in = out[y].key /\ out[i].builds_in = keys[out[y].step]
    BY <1>4, <2>3, <2>4
  <2> QED
    BY <2>5, <2>6, <2>7, <2>8, <2>9
<1>13. ChainStands(r, i)
  <2> HIDE DEF below
  <2> QED
    BY <1>7, <1>9, <1>10, <1>12 DEF ChainStands, below
<1>14. below # {} => /\ Youngest(below) \in Entries(r) /\ Youngest(below) < i
                     /\ out[i].builds_in = out[Youngest(below)].key
                     /\ out[i].builds_in = keys[out[Youngest(below)].step]
  <2> HIDE DEF below
  <2> QED
    BY <1>1, <1>8, <1>12
<1> QED
  BY <1>11, <1>13, <1>14

-----------------------------------------------------------------------------
(* Induction over the numbers up to n, through the set they form.          *)
LEMMA UpTo ==
  ASSUME NEW n \in Nat, NEW P, 0 \in P, \A i \in 1 .. n : i - 1 \in P => i \in P
  PROVE  \A i \in 0 .. n : i \in P
<1> DEFINE R == {ss \in Nat \X Nat : ss[1] < ss[2]}
           missing == (0 .. n) \ P
<1>1. IsWellFoundedOn(R, Nat)
  BY NatLessThanWellFounded DEF OpToRel
<1>2. SUFFICES ASSUME missing # {} PROVE FALSE
  OBVIOUS
<1>3. missing \subseteq Nat
  OBVIOUS
<1>4. PICK x \in missing : \A y \in missing : ~(<<y, x>> \in R)
  <2> HIDE DEF R, missing
  <2> QED
    BY <1>1, <1>2, <1>3, WFMin
<1>5. x \in 1 .. n
  OBVIOUS
<1>6. x - 1 \in 0 .. n /\ x - 1 \in Nat /\ x - 1 < x /\ x \in Nat
  BY <1>5
<1>7. <<x - 1, x>> \in R
  BY <1>6
<1>8. x - 1 \notin missing
  BY <1>4, <1>7
<1> QED
  BY <1>5, <1>6, <1>8

-----------------------------------------------------------------------------
(* The cache keys of a document: the recursion looks only at entries in    *)
(* front, so it has a solution, which is what CacheKeysOf returns.         *)

KnownParents(doc, i) ==
  {j \in Keygen!Cached(doc) : j < i /\ doc[j].key = doc[i].builds_in}

KeyAt(k, doc, i) ==
  IF i \notin Keygen!Cached(doc) THEN None
  ELSE Keygen!CacheKey(doc[i], IF doc[i].builds_in = None THEN [root |-> "scratch"]
                               ELSE k[Youngest(KnownParents(doc, i))], World)

KeysTo(k, doc, m) == k = [i \in 1 .. m |-> KeyAt(k, doc, i)]

\* Every builds_in finds a cached entry in front.
Linked(doc) ==
  /\ Len(doc) \in Nat /\ DOMAIN doc = 1 .. Len(doc)
  /\ \A i \in Keygen!Cached(doc) : doc[i].builds_in # None => KnownParents(doc, i) # {}

LEMMA KnownStandBefore ==
  ASSUME NEW doc, Linked(doc), NEW i \in Keygen!Cached(doc), doc[i].builds_in # None
  PROVE  /\ Youngest(KnownParents(doc, i)) \in KnownParents(doc, i)
         /\ Youngest(KnownParents(doc, i)) \in 1 .. i - 1
<1>1. KnownParents(doc, i) # {} /\ Len(doc) \in Nat /\ DOMAIN doc = 1 .. Len(doc)
  BY DEF Linked
<1>2. Keygen!Cached(doc) \subseteq 1 .. Len(doc)
  BY <1>1 DEF Keygen!Cached, Keygen!Commands
<1>3. KnownParents(doc, i) \subseteq 1 .. Len(doc) /\ \A j \in KnownParents(doc, i) : j < i
  BY <1>2 DEF KnownParents
<1>4. Youngest(KnownParents(doc, i)) \in KnownParents(doc, i)
  BY <1>1, <1>3, YoungestIsLast
<1>5. i \in 1 .. Len(doc)
  BY <1>2
<1> QED
  BY <1>1, <1>3, <1>4, <1>5

LEMMA KeysExist ==
  ASSUME NEW doc, Linked(doc), NEW n \in Nat
  PROVE  \E k : KeysTo(k, doc, n)
<1> DEFINE P == {m \in Nat : \E k : KeysTo(k, doc, m)}
<1>1. 0 \in P
  <2>1. KeysTo([i \in 1 .. 0 |-> None], doc, 0)
    BY DEF KeysTo
  <2> QED
    BY <2>1
<1>2. ASSUME NEW m \in 1 .. n, m - 1 \in P
      PROVE  m \in P
  <2>1. PICK k : KeysTo(k, doc, m - 1)
    BY <1>2
  <2> DEFINE h == [i \in 1 .. m |-> IF i = m THEN KeyAt(k, doc, m) ELSE k[i]]
  <2>2. \A i \in 1 .. m : i # m => i \in 1 .. m - 1
    OBVIOUS
  <2>3. ASSUME NEW i \in 1 .. m, NEW j \in 1 .. i - 1
        PROVE  h[j] = k[j]
    OBVIOUS
  <2>4. ASSUME NEW i \in 1 .. m
        PROVE  KeyAt(h, doc, i) = KeyAt(k, doc, i)
    <3> HIDE DEF h
    <3>1. CASE i \notin Keygen!Cached(doc) \/ doc[i].builds_in = None
      BY <3>1 DEF KeyAt
    <3>2. CASE i \in Keygen!Cached(doc) /\ doc[i].builds_in # None
      <4>1. Youngest(KnownParents(doc, i)) \in 1 .. i - 1
        BY <3>2, KnownStandBefore
      <4>2. h[Youngest(KnownParents(doc, i))] = k[Youngest(KnownParents(doc, i))]
        BY <2>3, <4>1
      <4> QED
        BY <4>2 DEF KeyAt
    <3> QED
      BY <3>1, <3>2
  <2>5. ASSUME NEW i \in 1 .. m
        PROVE  h[i] = KeyAt(k, doc, i)
    BY <2>1, <2>2 DEF KeysTo
  <2>6. h = [i \in 1 .. m |-> h[i]]
    OBVIOUS
  <2> HIDE DEF h
  <2>7. KeysTo(h, doc, m)
    BY <2>4, <2>5, <2>6 DEF KeysTo
  <2> QED
    BY <2>7
<1> HIDE DEF P
<1>3. n \in P
  BY <1>1, <1>2, UpTo
<1> QED
  BY <1>3 DEF P

LEMMA KeysAreOver ==
  ASSUME NEW doc, Linked(doc)
  PROVE  \A i \in DOMAIN doc : CacheKeysOf(doc)[i] = KeyAt(CacheKeysOf(doc), doc, i)
<1> DEFINE Is(k) == k = [i \in DOMAIN doc |-> KeyAt(k, doc, i)]
           key == CHOOSE k : Is(k)
<1>1. \E k : Is(k)
  <2>1. PICK k : KeysTo(k, doc, Len(doc))
    BY KeysExist DEF Linked
  <2>2. Is(k)
    BY <2>1 DEF KeysTo, Linked
  <2> HIDE DEF Is
  <2> QED
    BY <2>2
<1>2. Is(key)
  <2> HIDE DEF Is
  <2> QED
    BY <1>1
<1>3. CacheKeysOf(doc) = key
  BY DEF CacheKeysOf, KeyAt, KnownParents
<1> HIDE DEF key
<1> QED
  BY <1>2, <1>3

LEMMA EqualKeys ==
  ASSUME NEW s, NEW p, NEW t, NEW q, NEW w, Keygen!CacheKey(s, p, w) = Keygen!CacheKey(t, q, w)
  PROVE  /\ p = q
         /\ Keygen!ResolvePolicy(s.cache, s.cmd, w) = Keygen!ResolvePolicy(t.cache, t.cmd, w)
<1>1. /\ Keygen!CacheKey(s, p, w).parent = p /\ Keygen!CacheKey(t, q, w).parent = q
      /\ Keygen!CacheKey(s, p, w).policy = Keygen!ResolvePolicy(s.cache, s.cmd, w)
      /\ Keygen!CacheKey(t, q, w).policy = Keygen!ResolvePolicy(t.cache, t.cmd, w)
  BY DEF Keygen!CacheKey
<1> QED
  BY <1>1

LEMMA RootIsNoKey ==
  ASSUME NEW s, NEW p, NEW w
  PROVE  Keygen!CacheKey(s, p, w) # [root |-> "scratch"]
<1>1. "step" \in DOMAIN Keygen!CacheKey(s, p, w) /\ "step" \notin DOMAIN [root |-> "scratch"]
  BY DEF Keygen!CacheKey
<1> QED
  BY <1>1

(* What a policy of Lowering resolves to tells the command.                *)
LEMMA ForeverTellsCommand ==
  ASSUME NEW p \in Policies, NEW q \in Policies, NEW c, NEW d, NEW w,
         Keygen!ResolvePolicy(p, c, w) = Keygen!ResolvePolicy(q, d, w)
  PROVE  c = d
<1> DEFINE Res(f, cmd) ==
             f = [x \in Policies |->
                    CASE x.policy = "none" -> [tag |-> "none"]
                      [] x.policy = "forever" ->
                           [tag |-> "forever", cmd |-> cmd, env |-> Keygen!EnvSubset(x.env_keys, w)]
                      [] x.policy = "ttl" ->
                           [tag |-> "ttl", bucket |-> w.now \div x.duration,
                            cmd |-> cmd, env |-> Keygen!EnvSubset(x.env_keys, w)]
                      [] x.policy = "on_change" ->
                           [tag |-> "sha",
                            hashes |-> [i \in DOMAIN x.paths |-> Keygen!PathHash(w.files[x.paths[i]])]]
                      [] OTHER ->
                           [tag |-> "compose", parts |-> [i \in DOMAIN x.subs |-> f[x.subs[i]]]]]
           F(cmd) == [x \in Policies |->
                        [tag |-> "forever", cmd |-> cmd, env |-> Keygen!EnvSubset(x.env_keys, w)]]
<1>1. ASSUME NEW x \in Policies, NEW cmd
      PROVE  Keygen!ResolvePolicy(x, cmd, w).cmd = cmd
  <2> DEFINE f == CHOOSE g : Res(g, cmd)
  <2>1. \A y \in Policies : y.policy = "forever"
    BY CachedForever
  <2>2. Res(F(cmd), cmd)
    BY <2>1
  <2>3. Res(f, cmd)
    <3> HIDE DEF Res, F
    <3> QED
      BY <2>2
  <2>4. Keygen!ResolvePolicy(x, cmd, w) = f[x]
    BY DEF Keygen!ResolvePolicy
  <2> HIDE DEF f
  <2>5. f[x] = [tag |-> "forever", cmd |-> cmd, env |-> Keygen!EnvSubset(x.env_keys, w)]
    BY <2>1, <2>3
  <2> QED
    BY <2>4, <2>5
<1> QED
  BY <1>1

-----------------------------------------------------------------------------
(* What is recorded of a render.                                           *)

\* None stands for a missing value and is no key, however a key is made.
NoneIsNoKey == \A n, p, c : NameKey(n) # None /\ HashKey(p, c, n) # None

KeysAreKeys ==
  \A s \in DOMAIN keys : \E n, p, c : keys[s] = NameKey(n) \/ keys[s] = HashKey(p, c, n)

CommandsCached == \A s \in CommandSet : heap[s].cache \in Policies

DictsCached == \A i \in EmittedCommands : out[i].cache \in Policies

KeyedOver(r, i) ==
  /\ r.out[i].cache \in Policies
  /\ \E p : /\ r.cacheKey[i] = Keygen!CacheKey(r.out[i], p, World)
            /\ Unambiguous(r, i) =>
                 p = IF Below(r, i) = {} THEN [root |-> "scratch"]
                     ELSE r.cacheKey[Youngest(Below(r, i))]

RenderIsRight(r) == \A i \in Entries(r) : ChainStands(r, i) /\ KeyedOver(r, i)

(* A render that is complete is right: the entry of the nearest command is *)
(* found by its key, by that alone where no other entry has it.            *)
LEMMA DocumentIsRight ==
  ASSUME NoneIsNoKey, KeyInv, KeysAreKeys, DictsCached, stage = "lowered",
         NEW r, r.heap = heap, r.out = out, r.cacheKey = CacheKeysOf(out)
  PROVE  RenderIsRight(r)
<1>1. Entries(r) = EmittedCommands
  BY DEF Entries, EmittedCommands
<1>2. Keygen!Cached(out) = EmittedCommands
  <2>1. \A p \in Policies : p # None /\ p.policy # "none"
    BY NoneIsNoValue, CachedForever
  <2> QED
    BY <2>1 DEF Keygen!Cached, Keygen!Commands, EmittedCommands, DictsCached
<1>3. Len(out) \in Nat /\ DOMAIN out = 1 .. Len(out)
  BY LenProperties DEF KeyInv, Emitted
<1>4. ASSUME NEW i \in Entries(r)
      PROVE  /\ ChainStands(r, i)
             /\ Below(r, i) = {} => out[i].builds_in = None
             /\ Below(r, i) # {} =>
                  /\ Youngest(Below(r, i)) \in KnownParents(out, i)
                  /\ out[i].builds_in = out[Youngest(Below(r, i))].key
                  /\ out[i].builds_in # None
  <2> DEFINE y == Youngest(Below(r, i))
  <2>1. ChainStands(r, i) /\ (Below(r, i) = {} => out[i].builds_in = None)
    BY ChainUnfolds
  <2>2. Below(r, i) # {} => /\ y \in Entries(r) /\ y < i /\ out[i].builds_in = out[y].key
                            /\ out[i].builds_in = keys[out[y].step]
    BY ChainUnfolds
  <2>3. Below(r, i) # {} => out[i].builds_in # None
    <3>1. DOMAIN keys = CommandSet
      BY DEF KeyInv, Named
    <3>2. \A j \in EmittedCommands : out[j].step \in CommandSet
      BY DEF KeyInv, Emitted
    <3> QED
      BY <1>1, <2>2, <3>1, <3>2 DEF KeysAreKeys, NoneIsNoKey
  <2>4. Below(r, i) # {} => y \in KnownParents(out, i)
    BY <1>1, <1>2, <2>2 DEF KnownParents
  <2> QED
    BY <2>1, <2>2, <2>3, <2>4
<1>5. Linked(out)
  BY <1>1, <1>2, <1>3, <1>4 DEF Linked
<1>6. ASSUME NEW i \in Entries(r)
      PROVE  KeyedOver(r, i)
  <2> DEFINE y == Youngest(Below(r, i))
             p == IF out[i].builds_in = None THEN [root |-> "scratch"]
                  ELSE r.cacheKey[Youngest(KnownParents(out, i))]
  <2>1. i \in Keygen!Cached(out) /\ i \in DOMAIN out
    BY <1>1, <1>2 DEF EmittedCommands
  <2>2. r.cacheKey[i] = Keygen!CacheKey(r.out[i], p, World)
    BY <1>5, <2>1, KeysAreOver DEF KeyAt
  <2>3. ASSUME Unambiguous(r, i)
        PROVE  p = IF Below(r, i) = {} THEN [root |-> "scratch"] ELSE r.cacheKey[y]
    <3>1. CASE Below(r, i) = {}
      BY <1>4, <3>1
    <3>2. CASE Below(r, i) # {}
      <4>1. /\ y \in KnownParents(out, i) /\ out[i].builds_in = out[y].key
            /\ out[i].builds_in # None /\ y \in ChainOf(r, i)
        BY <1>4, <3>2 DEF ChainStands, Below
      <4>2. \A j \in Entries(r) \ {y} : out[j].key # out[y].key
        BY <2>3, <4>1 DEF Unambiguous
      <4>3. KnownParents(out, i) \subseteq {y}
        BY <1>1, <1>2, <4>1, <4>2 DEF KnownParents
      <4>4. Youngest(KnownParents(out, i)) \in KnownParents(out, i)
        BY <1>5, <2>1, <4>1, KnownStandBefore
      <4>5. Youngest(KnownParents(out, i)) = y
        BY <4>3, <4>4
      <4> QED
        BY <3>2, <4>1, <4>5
    <3> QED
      BY <3>1, <3>2
  <2>4. r.out[i].cache \in Policies
    BY <1>1 DEF DictsCached
  <2> HIDE DEF p
  <2> QED
    BY <2>2, <2>3, <2>4 DEF KeyedOver
<1> QED
  BY <1>4, <1>6 DEF RenderIsRight

-----------------------------------------------------------------------------
(* What the user does between and before the renders keeps the forest well *)
(* formed and every command cached.                                        *)

LEMMA AllocKeepsCached ==
  ASSUME WellFormed, CommandsCached, NEW step, Alloc(step),
         step.cmd # None => step.cache \in Policies
  PROVE  CommandsCached'
<1>1. heap \in Seq(Step) /\ Len(heap) \in Nat /\ heap' = Append(heap, step)
  BY LenProperties DEF WellFormed, Alloc
<1>2. /\ Len(heap') = Len(heap) + 1 /\ heap'[Len(heap) + 1] = step
      /\ \A s \in 1 .. Len(heap) : heap'[s] = heap[s]
  <2> DEFINE T == Step \cup {step}
  <2>1. heap \in Seq(T) /\ step \in T
    <3>1. \A n : [1 .. n -> Step] \subseteq [1 .. n -> T]
      OBVIOUS
    <3> HIDE DEF T
    <3>2. heap \in Seq(T)
      BY <1>1, <3>1, SeqDef
    <3> QED
      BY <3>2 DEF T
  <2> HIDE DEF T
  <2> QED
    BY <1>1, <2>1, AppendProperties
<1>3. ASSUME NEW s \in CommandSet'
      PROVE  heap'[s].cache \in Policies
  <2>1. s \in 1 .. Len(heap) + 1 /\ heap'[s].cmd # None /\ ~heap'[s].is_wait
    BY <1>2 DEF CommandSet, StepIds, IsCommand, IsWait
  <2>2. CASE s = Len(heap) + 1
    BY <1>2, <2>1, <2>2
  <2>3. CASE s # Len(heap) + 1
    <3>1. s \in 1 .. Len(heap)
      BY <1>1, <2>1, <2>3
    <3>2. s \in CommandSet /\ heap'[s] = heap[s]
      BY <1>2, <2>1, <3>1 DEF CommandSet, StepIds, IsCommand, IsWait
    <3> QED
      BY <3>2 DEF CommandsCached
  <2> QED
    BY <2>2, <2>3
<1> QED
  BY <1>3 DEF CommandsCached

LEMMA WriteKeepsForest ==
  ASSUME WellFormed, CommandsCached, Write \/ Wait
  PROVE  Build /\ WellFormed' /\ CommandsCached'
<1>1. Build
  <2>1. CASE Wait
    BY <2>1 DEF Build
  <2>2. CASE Write
    BY <2>2 DEF Write, Build, Opt
  <2> QED
    BY <2>1, <2>2
<1>2. WellFormed'
  BY <1>1, BuildWellFormed
<1>3. CASE Wait
  <2> DEFINE step == [BareStep EXCEPT !.is_wait = TRUE]
  <2>1. Alloc(step) /\ step.cmd = None
    BY <1>3 DEF Wait, BareStep
  <2> HIDE DEF step
  <2> QED
    BY <1>1, <1>2, <2>1, AllocKeepsCached
<1>4. CASE heap = <<>> /\ Scratch
  <2>1. Alloc(BareStep) /\ BareStep.cmd = None
    BY <1>4 DEF Scratch, BareStep
  <2> QED
    BY <1>1, <1>2, <2>1, AllocKeepsCached
<1>5. CASE \E p \in StepIds : Fork(p, None)
  <2> PICK p \in StepIds : Fork(p, None)
    BY <1>5
  <2> DEFINE step == [BareStep EXCEPT !.parent = p, !.label = None]
  <2>1. Alloc(step) /\ step.cmd = None
    BY DEF Fork, BareStep
  <2> HIDE DEF step
  <2> QED
    BY <1>1, <1>2, <2>1, AllocKeepsCached
<1>6. ASSUME NEW p, NEW cmd, NEW label, NEW cache \in Policies, NEW key, Sh(p, cmd, label, cache, None, key)
      PROVE  CommandsCached'
  <2> DEFINE step == [cmd |-> cmd, parent |-> p, is_wait |-> FALSE, label |-> label,
                      cache |-> cache, image |-> EffectiveImage(p, None), key_override |-> key]
  <2>1. Alloc(step) /\ step.cache \in Policies
    BY <1>6 DEF Sh
  <2> HIDE DEF step
  <2> QED
    BY <2>1, AllocKeepsCached
<1> QED
  BY <1>1, <1>2, <1>3, <1>4, <1>5, <1>6 DEF Write

LEMMA ChangeKeepsForest ==
  ASSUME WellFormed, CommandsCached, ChangeCommand \/ Rechain
  PROVE  WellFormed' /\ CommandsCached'
<1>1. heap \in Seq(Step) /\ Len(heap) \in Nat
  BY LenProperties DEF WellFormed
<1>2. ASSUME NEW s \in CommandSet, NEW step \in Step, heap' = [heap EXCEPT ![s] = step],
             step.parent < s, ~step.is_wait, step.cache = heap[s].cache
      PROVE  WellFormed' /\ CommandsCached'
  <2>1. s \in StepIds /\ s \in 1 .. Len(heap)
    BY DEF CommandSet, StepIds
  <2>2. heap' \in Seq(Step) /\ Len(heap') = Len(heap)
    BY <1>1, <1>2, <2>1, ExceptSeq
  <2>3. /\ heap'[s] = step
        /\ \A t \in 1 .. Len(heap) : t # s => heap'[t] = heap[t]
    <3>1. DOMAIN heap = 1 .. Len(heap)
      BY <1>1, LenProperties
    <3> QED
      BY <1>2, <2>1, <3>1
  <2>4. StepIds' = 1 .. Len(heap) /\ StepIds = 1 .. Len(heap)
    BY <2>2 DEF StepIds
  <2>5. WellFormed'
    <3>1. \A t \in StepIds' : heap'[t].parent < t
      BY <1>2, <2>3, <2>4 DEF WellFormed, Parent
    <3>2. \A t \in StepIds' : heap'[t].is_wait => heap'[t].cmd = None /\ heap'[t].parent = NoStep
      BY <1>2, <2>3, <2>4 DEF WellFormed, Parent, IsWait
    <3> QED
      BY <2>2, <3>1, <3>2 DEF WellFormed, Parent, IsWait
  <2>6. ASSUME NEW t \in CommandSet'
        PROVE  heap'[t].cache \in Policies
    <3>1. t \in 1 .. Len(heap) /\ heap'[t].cmd # None /\ ~heap'[t].is_wait
      BY <2>4 DEF CommandSet, IsCommand, IsWait
    <3>2. CASE t = s
      BY <1>2, <2>3, <3>2 DEF CommandsCached
    <3>3. CASE t # s
      BY <2>3, <2>4, <3>1, <3>3 DEF CommandsCached, CommandSet, IsCommand, IsWait
    <3> QED
      BY <3>2, <3>3
  <2> QED
    BY <2>5, <2>6 DEF CommandsCached
<1>3. \A s \in CommandSet : /\ s \in StepIds /\ heap[s] \in Step /\ heap[s].parent < s
                            /\ ~heap[s].is_wait /\ s \in Nat
  <2> TAKE s \in CommandSet
  <2>1. s \in StepIds /\ ~heap[s].is_wait
    BY DEF CommandSet, IsCommand, IsWait
  <2>2. s \in 1 .. Len(heap)
    BY <2>1 DEF StepIds
  <2>3. heap[s] \in Step
    BY <1>1, <2>2, ElementOfSeq
  <2> QED
    BY <1>1, <2>1, <2>2, <2>3 DEF WellFormed, Parent
<1>4. CASE ChangeCommand
  <2> PICK s \in CommandSet, cmd \in EditedCmds : heap' = [heap EXCEPT ![s].cmd = cmd]
    BY <1>4 DEF ChangeCommand
  <2> DEFINE step == [heap[s] EXCEPT !.cmd = cmd]
  <2>1. step \in Step /\ step.parent = heap[s].parent /\ step.is_wait = heap[s].is_wait
        /\ step.cache = heap[s].cache
    BY <1>3, EditedCmdsType DEF Step, Opt
  <2>2. heap' = [heap EXCEPT ![s] = step]
    OBVIOUS
  <2> HIDE DEF step
  <2> QED
    BY <1>2, <1>3, <2>1, <2>2
<1>5. CASE Rechain
  <2> PICK s \in CommandSet : \E p \in 1 .. s - 1 : heap' = [heap EXCEPT ![s].parent = p]
    BY <1>5 DEF Rechain
  <2> PICK p \in 1 .. s - 1 : heap' = [heap EXCEPT ![s].parent = p]
    OBVIOUS
  <2> DEFINE step == [heap[s] EXCEPT !.parent = p]
  <2>1. step \in Step /\ step.parent = p /\ step.is_wait = heap[s].is_wait
        /\ step.cache = heap[s].cache /\ p < s
    <3>1. heap[s] \in Step /\ s \in Nat
      BY <1>3
    <3>2. p \in Nat /\ p < s
      BY <3>1
    <3> QED
      BY <3>1, <3>2 DEF Step
  <2>2. heap' = [heap EXCEPT ![s] = step]
    OBVIOUS
  <2> HIDE DEF step
  <2> QED
    BY <1>2, <1>3, <2>1, <2>2
<1> QED
  BY <1>4, <1>5

LEMMA RenumberKeepsForest ==
  ASSUME WellFormed, CommandsCached, Renumber
  PROVE  WellFormed' /\ CommandsCached'
<1>1. heap \in Seq(Step) /\ Len(heap) \in Nat /\ StepIds = 1 .. Len(heap)
  BY LenProperties DEF WellFormed, StepIds
<1> PICK order \in ParentFirstOrders :
      heap' = [i \in StepIds |->
                 [heap[order[i]] EXCEPT !.parent = IF @ = NoStep THEN NoStep
                                                   ELSE CHOOSE k \in StepIds : order[k] = @]]
  BY DEF Renumber
<1> DEFINE new(p) == IF p = NoStep THEN NoStep ELSE CHOOSE k \in StepIds : order[k] = p
<1>2. /\ \A i \in StepIds : order[i] \in StepIds
      /\ \A i, j \in StepIds : order[i] = order[j] => i = j
  BY OrderFacts
<1>3. ASSUME NEW i \in StepIds
      PROVE  /\ heap'[i] \in Step /\ heap'[i].parent < i
             /\ heap'[i].is_wait => heap'[i].cmd = None /\ heap'[i].parent = NoStep
             /\ heap'[i].cmd = heap[order[i]].cmd /\ heap'[i].is_wait = heap[order[i]].is_wait
             /\ heap'[i].cache = heap[order[i]].cache
  <2> DEFINE s == order[i]
             p == heap[s].parent
  <2>1. s \in StepIds /\ heap[s] \in Step /\ i \in Nat /\ i >= 1
    BY <1>1, <1>2, ElementOfSeq
  <2>2. new(p) \in Nat /\ new(p) < i
    <3>1. CASE p = NoStep
      BY <2>1, <3>1 DEF NoStep
    <3>2. CASE p # NoStep
      <4>1. PICK j \in 1 .. i - 1 : order[j] = p
        BY <3>2 DEF ParentFirstOrders, Parent
      <4>2. j \in StepIds /\ j < i /\ j \in Nat
        BY <1>1
      <4>3. new(p) = j
        BY <1>2, <3>2, <4>1, <4>2
      <4> QED
        BY <4>2, <4>3
    <3> QED
      BY <3>1, <3>2
  <2>3. heap'[i] = [heap[s] EXCEPT !.parent = new(p)]
    BY <2>1 DEF Step
  <2>4. p = NoStep => new(p) = NoStep
    OBVIOUS
  <2>5. heap[s].is_wait => heap[s].cmd = None /\ p = NoStep
    BY <2>1 DEF WellFormed, IsWait, Parent
  <2> HIDE DEF new
  <2> QED
    BY <2>1, <2>2, <2>3, <2>4, <2>5 DEF Step
<1>4. heap' \in Seq(Step) /\ Len(heap') = Len(heap)
  <2>1. DOMAIN heap' = 1 .. Len(heap)
    BY <1>1
  <2>2. heap' \in [1 .. Len(heap) -> Step]
    <3>1. heap' = [i \in 1 .. Len(heap) |-> heap'[i]]
      BY <1>1
    <3>2. \A i \in 1 .. Len(heap) : heap'[i] \in Step
      BY <1>1, <1>3
    <3> QED
      BY <3>1, <3>2
  <2>3. heap' \in Seq(Step)
    BY <1>1, <2>2, SeqDef
  <2>4. Len(heap') \in Nat /\ DOMAIN heap' = 1 .. Len(heap')
    BY <2>3, LenProperties
  <2> DEFINE n == Len(heap)
             k == Len(heap')
  <2>5. n \in Nat /\ k \in Nat /\ 1 .. k = 1 .. n
    BY <1>1, <2>1, <2>4
  <2> HIDE DEF n, k
  <2>6. k = n
    BY <2>5
  <2> QED
    BY <2>3, <2>6 DEF n, k
<1>5. StepIds' = StepIds
  BY <1>4 DEF StepIds
<1>6. WellFormed'
  BY <1>3, <1>4, <1>5 DEF WellFormed, Parent, IsWait
<1>7. ASSUME NEW i \in CommandSet'
      PROVE  heap'[i].cache \in Policies
  <2>1. i \in StepIds /\ heap'[i].cmd # None /\ ~heap'[i].is_wait
    BY <1>5 DEF CommandSet, IsCommand, IsWait
  <2>2. order[i] \in CommandSet
    BY <1>2, <1>3, <2>1 DEF CommandSet, IsCommand, IsWait
  <2> QED
    BY <1>3, <2>1, <2>2 DEF CommandsCached
<1> QED
  BY <1>6, <1>7 DEF CommandsCached

-----------------------------------------------------------------------------
(* The inductive invariant of Lowering: that of KeyResolution while a      *)
(* render is on its way, and every render recorded is right.               *)

RendersAreRight ==
  /\ renders \in Seq({renders[n] : n \in DOMAIN renders})
  /\ \A n \in DOMAIN renders : RenderIsRight(renders[n])

LowInv ==
  /\ NoneIsNoKey
  /\ WellFormed /\ CommandsCached /\ RendersAreRight
  /\ stage \notin {"edit", "done"} => KeyInv /\ KeysAreKeys /\ DictsCached

LEMMA LoweringInitHoldsInv == NoneIsNoKey /\ LoweringInit => LowInv
<1> SUFFICES ASSUME NoneIsNoKey, LoweringInit
             PROVE  LowInv
  OBVIOUS
<1>1. KeyInv /\ WellFormed
  BY InitHoldsInv DEF LoweringInit, KeyInv
<1>2. heap = <<>> /\ renders = <<>> /\ out = <<>> /\ DOMAIN keys = {}
  BY DEF LoweringInit, KeyInit, BuildInit
<1>3. CommandSet = {} /\ EmittedCommands = {} /\ DOMAIN renders = {}
  BY <1>2, EmptySeq DEF CommandSet, StepIds, EmittedCommands
<1>4. RendersAreRight
  BY <1>2, <1>3, EmptySeq DEF RendersAreRight
<1> QED
  BY <1>1, <1>2, <1>3, <1>4 DEF LowInv, CommandsCached, KeysAreKeys, DictsCached

(* A pass over the keys or the dicts.                                      *)
LEMMA PassKeepsInv ==
  ASSUME LowInv, stage \notin {"edit", "done"},
         StartResolve \/ Resolve \/ StartEmit \/ Emit \/ FinishLowering,
         UNCHANGED renders
  PROVE  LowInv'
<1>1. KeyInv /\ KeysAreKeys /\ DictsCached /\ WellFormed /\ CommandsCached
  BY DEF LowInv
<1>2. KeyInv'
  BY <1>1, NextKeepsInv DEF KeyNext
<1>3. UNCHANGED heap
  BY DEF StartResolve, Resolve, SkipKeyless, UseOverride, UseSlug, UseHash, Assign, StartEmit,
         Emit, EmitWait, SkipPassthrough, EmitCommand, EmitDict, FinishLowering
<1>4. WellFormed' /\ CommandSet' = CommandSet
  BY <1>1, <1>3, FrozenForest
<1>5. CommandsCached' /\ RendersAreRight'
  <2>1. CommandsCached'
    BY <1>1, <1>3, <1>4 DEF CommandsCached
  <2>2. RendersAreRight'
    BY DEF LowInv, RendersAreRight
  <2> QED
    BY <2>1, <2>2
<1>6. KeysAreKeys'
  <2>1. CASE UseOverride \/ UseSlug \/ UseHash
    <3>1. \E n, p, c : \E k \in {NameKey(n), HashKey(p, c, n)} : Assign(k)
      BY <2>1 DEF UseOverride, UseSlug, UseHash
    <3> PICK n, p, c : \E k \in {NameKey(n), HashKey(p, c, n)} : Assign(k)
      BY <3>1
    <3> PICK k \in {NameKey(n), HashKey(p, c, n)} : Assign(k)
      OBVIOUS
    <3>2. /\ DOMAIN keys' = DOMAIN keys \cup {Current}
          /\ keys'[Current] = k
          /\ \A s \in DOMAIN keys : keys'[s] = keys[s]
      BY <1>1, AssignEffect
    <3> QED
      BY <1>1, <3>2 DEF KeysAreKeys
  <2>2. CASE UNCHANGED keys
    BY <1>1, <2>2 DEF KeysAreKeys
  <2> QED
    BY <2>1, <2>2 DEF StartResolve, Resolve, SkipKeyless, StartEmit, Emit, EmitWait,
                      SkipPassthrough, EmitCommand, EmitDict, FinishLowering
<1>7. DictsCached'
  <2>1. Emitted
    BY <1>1 DEF KeyInv
  <2>2. CASE EmitWait
    <3>1. EmitDict([type |-> "wait", step |-> Current])
      BY <2>2 DEF EmitWait
    <3>2. EmittedCommands' = EmittedCommands /\ \A i \in EmittedCommands : out'[i] = out[i]
      <4> DEFINE d == [type |-> "wait", step |-> Current]
      <4>1. d.type # "command"
        OBVIOUS
      <4> HIDE DEF d
      <4> QED
        BY <2>1, <3>1, <4>1, EmittedCommandsAfter DEF d
    <3> QED
      BY <1>1, <3>2 DEF DictsCached
  <2>3. CASE EmitCommand
    <3> DEFINE d == [type |-> "command", step |-> Current, key |-> keys[Current],
                     cmd |-> heap[Current].cmd, builds_in |-> ResolvedParentKey(Current),
                     cache |-> heap[Current].cache]
    <3>1. EmitDict(d) /\ IsCommand(Current) /\ Emitting
      BY <2>3 DEF EmitCommand
    <3>2. d.type = "command" /\ d.cache = heap[Current].cache
      OBVIOUS
    <3> HIDE DEF d
    <3>3. /\ EmittedCommands' = EmittedCommands \cup {Len(out) + 1}
          /\ \A i \in EmittedCommands : out'[i] = out[i]
          /\ out'[Len(out) + 1] = d
      BY <2>1, <3>1, <3>2, EmittedCommandsAfter, EmitDictEffect
    <3>4. Current \in CommandSet
      <4>1. ordered \in ParentFirstOrders /\ at \in Nat \ {0} /\ at <= Len(ordered)
        BY <1>1, <3>1 DEF KeyInv, Enumerated, Emitting
      <4>2. Len(ordered) = Len(heap) /\ Len(heap) \in Nat /\ \A i \in StepIds : ordered[i] \in StepIds
        BY <1>1, <4>1, OrderFacts
      <4>3. at \in StepIds
        BY <4>1, <4>2 DEF StepIds
      <4> QED
        BY <3>1, <4>2, <4>3 DEF CommandSet, Current
    <3>5. d.cache \in Policies
      BY <1>1, <3>2, <3>4 DEF CommandsCached
    <3> QED
      BY <1>1, <3>3, <3>5 DEF DictsCached
  <2>4. CASE UNCHANGED out
    BY <1>1, <2>4 DEF DictsCached, EmittedCommands
  <2> QED
    BY <2>2, <2>3, <2>4 DEF StartResolve, Resolve, SkipKeyless, UseOverride, UseSlug, UseHash, Assign,
                            StartEmit, Emit, SkipPassthrough, FinishLowering
<1> QED
  BY <1>2, <1>4, <1>5, <1>6, <1>7 DEF LowInv, NoneIsNoKey, NameKey, HashKey

LEMMA WriteStepKeepsInv ==
  ASSUME LowInv, WriteStep
  PROVE  LowInv'
<1>1. KeyInv /\ KeysAreKeys /\ DictsCached /\ WellFormed /\ CommandsCached /\ Write
  BY DEF LowInv, WriteStep
<1>2. Build /\ WellFormed' /\ CommandsCached'
  BY <1>1, WriteKeepsForest
<1>3. BuildStep /\ UNCHANGED <<stage, keys, out, renders>>
  BY <1>2 DEF WriteStep, BuildStep, kvars
<1>4. KeyInv'
  BY <1>1, <1>3, NextKeepsInv DEF KeyNext
<1>5. KeysAreKeys' /\ DictsCached' /\ RendersAreRight'
  BY <1>1, <1>3 DEF LowInv, KeysAreKeys, DictsCached, EmittedCommands, RendersAreRight
<1> QED
  BY <1>2, <1>4, <1>5 DEF LowInv

LEMMA KeyDocumentKeepsInv ==
  ASSUME LowInv, KeyDocument
  PROVE  LowInv'
<1> DEFINE r == [heap |-> heap, ordered |-> ordered, out |-> out, cacheKey |-> CacheKeysOf(out)]
<1>1. /\ stage = "lowered" /\ renders' = Append(renders, r) /\ UNCHANGED heap
      /\ stage' \in {"edit", "done"}
  BY DEF KeyDocument
<1>2. r.heap = heap /\ r.out = out /\ r.cacheKey = CacheKeysOf(out)
  OBVIOUS
<1> HIDE DEF r
<1>3. RenderIsRight(r)
  BY <1>1, <1>2, DocumentIsRight DEF LowInv
<1>4. RendersAreRight'
  <2>1. renders \in Seq({renders[n] : n \in DOMAIN renders})
    BY DEF LowInv, RendersAreRight
  <2>2. /\ renders' \in Seq({renders'[n] : n \in DOMAIN renders'})
        /\ DOMAIN renders = 1 .. Len(renders) /\ DOMAIN renders' = 1 .. Len(renders) + 1
        /\ Len(renders) \in Nat
        /\ \A n \in DOMAIN renders : renders'[n] = renders[n]
        /\ renders'[Len(renders) + 1] = r
    BY <1>1, <2>1, AppendFacts
  <2>3. \A n \in DOMAIN renders' : n \in DOMAIN renders \/ n = Len(renders) + 1
    BY <2>2
  <2>4. \A n \in DOMAIN renders' : RenderIsRight(renders'[n])
    BY <1>3, <2>2, <2>3 DEF LowInv, RendersAreRight
  <2> QED
    BY <2>2, <2>4 DEF RendersAreRight
<1>5. WellFormed' /\ CommandsCached'
  <2>1. CommandSet' = CommandSet /\ WellFormed'
    BY <1>1, FrozenForest DEF LowInv
  <2> QED
    BY <1>1, <2>1 DEF LowInv, CommandsCached
<1> QED
  BY <1>1, <1>4, <1>5 DEF LowInv

LEMMA EditKeepsInv ==
  ASSUME LowInv, Edit
  PROVE  LowInv'
<1>1. WellFormed /\ CommandsCached
  BY DEF LowInv
<1>2. WellFormed' /\ CommandsCached'
  <2>1. CASE Write \/ Wait
    BY <1>1, <2>1, WriteKeepsForest
  <2>2. CASE ChangeCommand \/ Rechain
    BY <1>1, <2>2, ChangeKeepsForest
  <2>3. CASE Renumber
    BY <1>1, <2>3, RenumberKeepsForest
  <2> QED
    BY <2>1, <2>2, <2>3 DEF Edit
<1>3. /\ stage' = "build" /\ ordered' = <<>> /\ at' = 1 /\ position' = 0
      /\ keys' = <<>> /\ reserved' = {} /\ out' = <<>> /\ UNCHANGED renders
  BY DEF Edit
<1>4. DOMAIN keys' = {} /\ Len(out') = 0 /\ DOMAIN out' = {} /\ EmittedCommands' = {}
  BY <1>3, EmptySeq DEF EmittedCommands
<1>5. Idle' /\ Enumerated'
  BY <1>3, EmptySeq DEF Idle, Enumerated
<1>6. Named' /\ ReservedNames' /\ PrecedenceRespected' /\ HashPositions'
  BY <1>3, <1>4 DEF Named, ReservedNames, PrecedenceRespected, HashPositions
<1>7. Emitted'
  BY <1>3, <1>4, EmptySeq DEF Emitted
<1>8. KeyInv' /\ KeysAreKeys' /\ DictsCached'
  BY <1>2, <1>4, <1>5, <1>6, <1>7 DEF KeyInv, KeysAreKeys, DictsCached
<1>9. RendersAreRight'
  BY <1>3 DEF LowInv, RendersAreRight
<1> QED
  BY <1>2, <1>8, <1>9 DEF LowInv

LEMMA LoweringInvariant == NoneIsNoKey /\ LoweringSpec => []LowInv
<1>1. NoneIsNoKey /\ LoweringInit => LowInv
  BY LoweringInitHoldsInv
<1>2. LowInv /\ [LoweringNext]_lowVars => LowInv'
  <2> SUFFICES ASSUME LowInv, [LoweringNext]_lowVars
               PROVE  LowInv'
    OBVIOUS
  <2>1. CASE WriteStep
    BY <2>1, WriteStepKeepsInv
  <2>2. CASE StartRender
    BY <2>2, PassKeepsInv DEF StartRender, StartResolve
  <2>3. CASE Pass
    <3>1. stage \notin {"edit", "done"}
      BY <2>3 DEF Pass, Resolve, SkipKeyless, UseOverride, UseSlug, UseHash, Assign, Resolving, StartEmit,
                  Emit, EmitWait, SkipPassthrough, EmitCommand, Emitting, FinishLowering
    <3> QED
      BY <2>3, <3>1, PassKeepsInv DEF Pass
  <2>4. CASE KeyDocument
    BY <2>4, KeyDocumentKeepsInv
  <2>5. CASE Edit
    BY <2>5, EditKeepsInv
  <2>6. CASE UNCHANGED lowVars
    <3>1. UNCHANGED <<heap, stage, ordered, at, position, keys, reserved, out, renders>>
      BY <2>6 DEF lowVars, keyVars
    <3>2. WellFormed' /\ CommandSet' = CommandSet
      BY <3>1, FrozenForest DEF LowInv
    <3>3. CommandsCached' /\ RendersAreRight'
      BY <3>1, <3>2 DEF LowInv, CommandsCached, RendersAreRight
    <3>4. ASSUME stage \notin {"edit", "done"}
          PROVE  KeyInv' /\ KeysAreKeys' /\ DictsCached'
      <4>1. KeyInv'
        BY <3>1, <3>4, NextKeepsInv DEF LowInv, keyVars
      <4> QED
        BY <3>1, <3>4, <4>1 DEF LowInv, KeysAreKeys, DictsCached, EmittedCommands
    <3> QED
      BY <3>1, <3>2, <3>3, <3>4 DEF LowInv
  <2> QED
    BY <2>1, <2>2, <2>3, <2>4, <2>5, <2>6 DEF LoweringNext, Done
<1> QED
  BY <1>1, <1>2, PTL DEF LoweringSpec

(***************************************************************************)
(* Where two Steps share an explicit key, builds_in is ambiguous only for  *)
(* what is chained from them: every other entry is keyed over the cache    *)
(* key of the command right below it, in every version of the pipeline.    *)
(***************************************************************************)
THEOREM DuplicatesHarmTheirChainsOnly ==
  NoneIsNoKey /\ LoweringSpec => []DuplicatesStayLocal
<1>1. LowInv => DuplicatesStayLocal
  <2> SUFFICES ASSUME LowInv, NEW n \in Compared, NEW i \in Entries(renders[n]),
                      Unambiguous(renders[n], i)
               PROVE  renders[n].cacheKey[i].parent =
                        IF Below(renders[n], i) = {} THEN [root |-> "scratch"]
                        ELSE renders[n].cacheKey[Youngest(Below(renders[n], i))]
    BY DEF DuplicatesStayLocal, Below
  <2>1. n \in DOMAIN renders
    BY DEF Compared
  <2>2. KeyedOver(renders[n], i)
    BY <2>1 DEF LowInv, RendersAreRight, RenderIsRight
  <2>3. \A p : Keygen!CacheKey(renders[n].out[i], p, World).parent = p
    BY DEF Keygen!CacheKey
  <2> QED
    BY <2>2, <2>3 DEF KeyedOver
<1> QED
  BY <1>1, LoweringInvariant, PTL

-----------------------------------------------------------------------------
(* The rank of the last member of a set, and of the others.                *)
LEMMA RankOfLast ==
  ASSUME NEW i \in Nat, NEW S \in SUBSET (1 .. i), i \in S
  PROVE  LET T == S \ {i} IN
         /\ Cardinality(T) \in Nat
         /\ Cardinality(S) = Cardinality(T) + 1
         /\ Rank(S, i) = Cardinality(T)
         /\ \A k \in T : Rank(S, k) = Rank(T, k) /\ Rank(S, k) \in Nat /\ Rank(S, k) < Cardinality(T)
<1> DEFINE T == S \ {i}
<1>1. IsFiniteSet(S) /\ IsFiniteSet(T)
  <2>1. IsFiniteSet(1 .. i) /\ S \subseteq 1 .. i
    BY FS_Interval
  <2>2. IsFiniteSet(S)
    BY <2>1, FS_Subset
  <2> QED
    BY <2>2, FS_Subset
<1>2. Cardinality(T) \in Nat /\ Cardinality(S) = Cardinality(T) + 1
  <2>1. Cardinality(S) \in Nat /\ Cardinality(T) \in Nat /\ Cardinality(T) = Cardinality(S) - 1
    BY <1>1, FS_CardinalityType, FS_RemoveElement
  <2> QED
    BY <2>1
<1>3. Rank(S, i) = Cardinality(T)
  <2>1. \A l \in S : l < i <=> l # i
    <3> TAKE l \in S
    <3>1. l \in 1 .. i
      OBVIOUS
    <3> QED
      BY <3>1
  <2>2. {l \in S : l < i} = T
    BY <2>1
  <2> QED
    BY <2>2 DEF Rank
<1>4. ASSUME NEW k \in T
      PROVE  Rank(S, k) = Rank(T, k) /\ Rank(S, k) \in Nat /\ Rank(S, k) < Cardinality(T)
  <2> DEFINE U == {l \in T : l < k}
  <2>1. k \in 1 .. i /\ k # i /\ ~(i < k)
    <3>1. k \in 1 .. i
      OBVIOUS
    <3> QED
      BY <3>1
  <2>2. {l \in S : l < k} = U
    BY <2>1
  <2>3. k \notin U /\ U \subseteq T
    BY <2>1
  <2>4. U \subseteq T \ {k}
    BY <2>3
  <2> HIDE DEF U
  <2>5. IsFiniteSet(T \ {k}) /\ Cardinality(T \ {k}) = Cardinality(T) - 1
    BY <1>1, FS_RemoveElement
  <2>6. IsFiniteSet(U) /\ Cardinality(U) <= Cardinality(T \ {k})
    BY <2>4, <2>5, FS_Subset
  <2>7. Cardinality(U) \in Nat
    BY <2>6, FS_CardinalityType
  <2>8. Rank(S, k) = Cardinality(U) /\ Rank(T, k) = Cardinality(U)
    BY <2>2 DEF Rank, U
  <2> QED
    BY <1>2, <2>5, <2>6, <2>7, <2>8
<1> QED
  BY <1>2, <1>3, <1>4

\* The nth commands of two chains are the same, for every n.
SameChain(a, A, b, B) ==
  /\ Cardinality(A) = Cardinality(B)
  /\ \A k \in A, l \in B : Rank(A, k) = Rank(B, l) => a.out[k].cmd = b.out[l].cmd

(* So chains are compared from their last commands down.                   *)
LEMMA SameChainGrows ==
  ASSUME NEW a, NEW b,
         NEW i \in Nat, NEW A \in SUBSET (1 .. i), i \in A,
         NEW j \in Nat, NEW B \in SUBSET (1 .. j), j \in B,
         a.out[i].cmd = b.out[j].cmd,
         SameChain(a, A \ {i}, b, B \ {j})
  PROVE  SameChain(a, A, b, B)
<1> DEFINE C == A \ {i}
           D == B \ {j}
<1>1. /\ Cardinality(C) \in Nat /\ Cardinality(A) = Cardinality(C) + 1
      /\ Rank(A, i) = Cardinality(C)
      /\ \A k \in C : Rank(A, k) = Rank(C, k) /\ Rank(A, k) \in Nat /\ Rank(A, k) < Cardinality(C)
  BY RankOfLast
<1>2. /\ Cardinality(D) \in Nat /\ Cardinality(B) = Cardinality(D) + 1
      /\ Rank(B, j) = Cardinality(D)
      /\ \A l \in D : Rank(B, l) = Rank(D, l) /\ Rank(B, l) \in Nat /\ Rank(B, l) < Cardinality(D)
  BY RankOfLast
<1>3. Cardinality(C) = Cardinality(D)
  BY DEF SameChain
<1>4. ASSUME NEW k \in A, NEW l \in B, Rank(A, k) = Rank(B, l)
      PROVE  a.out[k].cmd = b.out[l].cmd
  <2>1. CASE k = i /\ l = j
    BY <2>1
  <2>2. CASE k # i /\ l # j
    <3>1. k \in C /\ l \in D
      BY <2>2
    <3>2. Rank(C, k) = Rank(D, l)
      BY <1>1, <1>2, <1>4, <3>1
    <3> QED
      BY <3>1, <3>2 DEF SameChain
  <2>3. CASE k = i /\ l # j
    <3>1. l \in D
      BY <2>3
    <3> HIDE DEF C, D
    <3> QED
      BY <1>1, <1>2, <1>3, <1>4, <2>3, <3>1
  <2>4. CASE k # i /\ l = j
    <3>1. k \in C
      BY <2>4
    <3> HIDE DEF C, D
    <3> QED
      BY <1>1, <1>2, <1>3, <1>4, <2>4, <3>1
  <2> QED
    BY <2>1, <2>2, <2>3, <2>4
<1> QED
  BY <1>1, <1>2, <1>3, <1>4 DEF SameChain

LEMMA KeysTellChains ==
  ASSUME NEW a, NEW b, RenderIsRight(a), RenderIsRight(b)
  PROVE  \A i \in Entries(a), j \in Entries(b) :
           Unambiguous(a, i) /\ Unambiguous(b, j) /\ a.cacheKey[i] = b.cacheKey[j] =>
             SameChain(a, ChainOf(a, i), b, ChainOf(b, j))
<1> DEFINE Good(i) ==
             \A j \in Entries(b) :
               Unambiguous(a, i) /\ Unambiguous(b, j) /\ a.cacheKey[i] = b.cacheKey[j] =>
                 SameChain(a, ChainOf(a, i), b, ChainOf(b, j))
           S == {i \in Entries(a) : ~Good(i)}
           root == [root |-> "scratch"]
<1>1. /\ \A i \in Entries(a) : ChainStands(a, i) /\ KeyedOver(a, i)
      /\ \A j \in Entries(b) : ChainStands(b, j) /\ KeyedOver(b, j)
  BY DEF RenderIsRight
<1>2. SUFFICES ASSUME S # {} PROVE FALSE
  OBVIOUS
<1>3. PICK i \in S : \A x \in S : i <= x
  <2>1. S \subseteq Nat
    BY <1>1 DEF ChainStands
  <2> HIDE DEF S
  <2> QED
    BY <1>2, <2>1, SmallestExists
<1>4. i \in Entries(a) /\ ~Good(i)
  OBVIOUS
<1>5. PICK j \in Entries(b) : /\ Unambiguous(a, i) /\ Unambiguous(b, j)
                              /\ a.cacheKey[i] = b.cacheKey[j]
                              /\ ~SameChain(a, ChainOf(a, i), b, ChainOf(b, j))
  BY <1>4
<1>6. ASSUME NEW x \in Entries(a), x < i
      PROVE  Good(x)
  <2>1. x \in Nat /\ i \in Nat
    BY <1>1, <1>4 DEF ChainStands
  <2>2. x \notin S
    <3> HIDE DEF S
    <3> QED
      BY <1>3, <1>6, <2>1
  <2> QED
    BY <2>2
<1> HIDE DEF S, Good
<1> DEFINE x == Youngest(Below(a, i))
           y == Youngest(Below(b, j))
<1>7. PICK p : /\ a.cacheKey[i] = Keygen!CacheKey(a.out[i], p, World)
               /\ p = IF Below(a, i) = {} THEN root ELSE a.cacheKey[x]
  BY <1>1, <1>4, <1>5 DEF KeyedOver
<1>8. PICK q : /\ b.cacheKey[j] = Keygen!CacheKey(b.out[j], q, World)
               /\ q = IF Below(b, j) = {} THEN root ELSE b.cacheKey[y]
  BY <1>1, <1>5 DEF KeyedOver
<1>9. /\ p = q
      /\ Keygen!ResolvePolicy(a.out[i].cache, a.out[i].cmd, World)
           = Keygen!ResolvePolicy(b.out[j].cache, b.out[j].cmd, World)
  <2> DEFINE s == a.out[i]
             t == b.out[j]
             w == World
  <2>1. Keygen!CacheKey(s, p, w) = Keygen!CacheKey(t, q, w)
    BY <1>5, <1>7, <1>8
  <2> HIDE DEF s, t, w
  <2>2. p = q /\ Keygen!ResolvePolicy(s.cache, s.cmd, w) = Keygen!ResolvePolicy(t.cache, t.cmd, w)
    BY <2>1, EqualKeys
  <2> QED
    BY <2>2 DEF s, t, w
<1>10. a.out[i].cmd = b.out[j].cmd
  <2>1. a.out[i].cache \in Policies /\ b.out[j].cache \in Policies
    BY <1>1, <1>4 DEF KeyedOver
  <2> QED
    BY <1>9, <2>1, ForeverTellsCommand
<1>11. /\ i \in Nat /\ i \in ChainOf(a, i) /\ ChainOf(a, i) \in SUBSET (1 .. i)
       /\ j \in Nat /\ j \in ChainOf(b, j) /\ ChainOf(b, j) \in SUBSET (1 .. j)
       /\ Below(a, i) = ChainOf(a, i) \ {i} /\ Below(b, j) = ChainOf(b, j) \ {j}
       /\ ChainOf(a, i) \subseteq Entries(a) /\ ChainOf(b, j) \subseteq Entries(b)
  BY <1>1, <1>4 DEF ChainStands, Below
<1>12. Below(a, i) # {} => /\ x \in Below(a, i) /\ x \in Entries(a) /\ x < i
                           /\ ChainOf(a, x) = Below(a, i)
  <2> SUFFICES ASSUME Below(a, i) # {}
               PROVE  x \in Below(a, i) /\ x \in Entries(a) /\ x < i /\ ChainOf(a, x) = Below(a, i)
    OBVIOUS
  <2>1. x \in Below(a, i) /\ ChainOf(a, x) = Below(a, i)
    BY <1>1, <1>4 DEF ChainStands
  <2> HIDE DEF x
  <2>2. x \in 1 .. i /\ x # i /\ x \in Entries(a)
    BY <1>11, <2>1
  <2> QED
    BY <1>11, <2>1, <2>2
<1>13. Below(b, j) # {} => y \in Below(b, j) /\ y \in Entries(b) /\ ChainOf(b, y) = Below(b, j)
  <2>1. Below(b, j) # {} => y \in Below(b, j) /\ ChainOf(b, y) = Below(b, j)
    BY <1>1 DEF ChainStands
  <2> QED
    BY <1>11, <2>1
<1>14. /\ Below(a, i) # {} => a.cacheKey[x] # root
       /\ Below(b, j) # {} => b.cacheKey[y] # root
  BY <1>1, <1>12, <1>13, RootIsNoKey DEF KeyedOver
<1> HIDE DEF x, y, root
<1>15. Below(a, i) = {} <=> Below(b, j) = {}
  BY <1>7, <1>8, <1>9, <1>14
<1>16. SameChain(a, Below(a, i), b, Below(b, j))
  <2>1. CASE Below(a, i) = {}
    BY <1>15, <2>1 DEF SameChain
  <2>2. CASE Below(a, i) # {}
    <3>1. a.cacheKey[x] = b.cacheKey[y]
      BY <1>7, <1>8, <1>9, <1>15, <2>2
    <3>2. Unambiguous(a, x) /\ Unambiguous(b, y)
      BY <1>5, <1>11, <1>12, <1>13, <1>15, <2>2 DEF Unambiguous
    <3>3. Good(x)
      BY <1>6, <1>12, <2>2
    <3> QED
      BY <1>12, <1>13, <1>15, <2>2, <3>1, <3>2, <3>3 DEF Good
  <2> QED
    BY <2>1, <2>2
<1>17. SameChain(a, ChainOf(a, i), b, ChainOf(b, j))
  BY <1>10, <1>11, <1>16, SameChainGrows
<1> QED
  BY <1>5, <1>17

(***************************************************************************)
(* Two steps with one cache key, of one document or of two versions of it, *)
(* stand on the same commands from scratch up, unless a key in one of the  *)
(* chains is that of two steps: a snapshot is never taken for another.     *)
(***************************************************************************)
THEOREM EqualKeysMeanSameBuild ==
  NoneIsNoKey /\ LoweringSpec => []EqualKeysSameBuild
<1>1. LowInv => EqualKeysSameBuild
  <2> SUFFICES ASSUME LowInv, NEW m \in Compared, NEW n \in Compared,
                      NEW i \in Entries(renders[m]), NEW j \in Entries(renders[n]),
                      Unambiguous(renders[m], i), Unambiguous(renders[n], j),
                      renders[m].cacheKey[i] = renders[n].cacheKey[j]
               PROVE  SameChain(renders[m], ChainOf(renders[m], i), renders[n], ChainOf(renders[n], j))
    BY DEF EqualKeysSameBuild, SameChain
  <2>1. RenderIsRight(renders[m]) /\ RenderIsRight(renders[n])
    BY DEF Compared, LowInv, RendersAreRight
  <2> QED
    BY <2>1, KeysTellChains
<1> QED
  BY <1>1, LoweringInvariant, PTL

-----------------------------------------------------------------------------
(* A document, told by its program: the Steps of a heap h at the places of *)
(* an enumeration o.  An entry stands at the count of what is emitted up   *)
(* to its place; a hash holds the count of the commands in front.          *)

\* The places up to n that are counted: those of commands, and of dicts.
ComPlaces(h, o, n) == {p \in 1 .. n : h[o[p]].cmd # None /\ ~h[o[p]].is_wait}
OutPlaces(h, o, n) == {p \in 1 .. n : h[o[p]].cmd # None \/ h[o[p]].is_wait}

OutIndex(h, o, p) == Cardinality(OutPlaces(h, o, p))

\* The hash of the Step at place p.
HashAt(p) ==
  HashKey(IF Parent(ordered[p]) \in CommandSet THEN keys[Parent(ordered[p])] ELSE None,
          heap[ordered[p]].cmd, Cardinality(ComPlaces(heap, ordered, p - 1)))

\* While the keys and the dicts are made.
HashesCount ==
  /\ stage = "resolve" => position = Cardinality(ComPlaces(heap, ordered, at - 1))
  /\ stage # "build" => \A p \in StepIds :
       LET s == ordered[p] IN
       s \in DOMAIN keys /\ keys[s].by = "hash" =>
         keys[s] = HashAt(p)

\* The dict _lower_to_dicts emits for a Step.
DictOf(s) ==
  IF IsWait(s) THEN [type |-> "wait", step |-> s]
  ELSE [type |-> "command", step |-> s, key |-> keys[s], cmd |-> heap[s].cmd,
        builds_in |-> ResolvedParentKey(s), cache |-> heap[s].cache]

\* The dict of the Step at place p is out, and in its place.
DictStands(p) ==
  LET i == OutIndex(heap, ordered, p) IN
  /\ i \in DOMAIN out
  /\ out[i] = DictOf(ordered[p])
  /\ Rank(EmittedCommands, i) = Cardinality(ComPlaces(heap, ordered, p - 1))

DictsStand ==
  stage \in {"emit", "lowered"} =>
    /\ Len(out) = OutIndex(heap, ordered, at - 1)
    /\ Cardinality(EmittedCommands) = Cardinality(ComPlaces(heap, ordered, at - 1))
    /\ \A p \in OutPlaces(heap, ordered, at - 1) : DictStands(p)
    /\ \A i \in DOMAIN out :
         \E p \in OutPlaces(heap, ordered, at - 1) : i = OutIndex(heap, ordered, p)
    /\ stage = "lowered" => at > Len(ordered)

\* Once recorded.
IsForest(h) ==
  /\ h \in Seq(Step) /\ Len(h) \in Nat /\ DOMAIN h = 1 .. Len(h)
  /\ \A s \in 1 .. Len(h) :
       /\ h[s] \in Step /\ h[s].parent < s
       /\ UpFrom(h, s) = IF h[s].parent = NoStep THEN {s} ELSE {s} \cup UpFrom(h, h[s].parent)
       /\ UpFrom(h, s) \subseteq 1 .. s

IsEnumeration(h, o) ==
  /\ Len(o) = Len(h) /\ DOMAIN o = 1 .. Len(h)
  /\ \A p \in 1 .. Len(h) : o[p] \in 1 .. Len(h)
  /\ \A s \in 1 .. Len(h) : \E p \in 1 .. Len(h) : o[p] = s
  /\ \A p, q \in 1 .. Len(h) : o[p] = o[q] => p = q

Runs(h, s) == h[s].cmd # None /\ ~h[s].is_wait
SlugOf(step) == IF step.label = None THEN None ELSE Slug[step.label]

\* Another command lays claim to the slug of a Step.
Contested(h, s) ==
  \E t \in 1 .. Len(h) : /\ t # s /\ Runs(h, t)
                         /\ SlugOf(h[s]) \in {SlugOf(h[t]), h[t].key_override}

\* The key of an entry, by the precedence; a hash is over the key of the entry
\* of its parent, if the parent is a command, and the rank of the entry.
KeyFits(r, i) ==
  LET s == StepAt(r, i)  step == r.heap[s] IN
  IF step.key_override # None THEN r.out[i].key = NameKey(step.key_override)
  ELSE IF SlugOf(step) # None /\ ~Contested(r.heap, s) THEN r.out[i].key = NameKey(SlugOf(step))
  ELSE LET hash(c) == HashKey(c, step.cmd, Rank(Entries(r), i)) IN
       IF step.parent # NoStep /\ Runs(r.heap, step.parent)
       THEN \E j \in Entries(r) : StepAt(r, j) = step.parent /\ r.out[i].key = hash(r.out[j].key)
       ELSE r.out[i].key = hash(None)

EntryFits(r, i) ==
  /\ Runs(r.heap, StepAt(r, i))
  /\ r.out[i] = [type |-> "command", step |-> StepAt(r, i), key |-> r.out[i].key,
                 cmd |-> r.heap[StepAt(r, i)].cmd, builds_in |-> r.out[i].builds_in,
                 cache |-> r.heap[StepAt(r, i)].cache]
  /\ KeyFits(r, i)
  /\ r.out[i].builds_in = IF Below(r, i) = {} THEN None ELSE r.out[Youngest(Below(r, i))].key

\* The dicts stand for the places of the commands and waits, in order.
PlacesFit(r) ==
  /\ DOMAIN r.out = 1 .. Len(r.out) /\ Len(r.out) \in Nat
  /\ \A p \in OutPlaces(r.heap, r.ordered, Len(r.heap)) :
       /\ OutIndex(r.heap, r.ordered, p) \in DOMAIN r.out
       /\ StepAt(r, OutIndex(r.heap, r.ordered, p)) = r.ordered[p]
  /\ \A i \in DOMAIN r.out : \E p \in OutPlaces(r.heap, r.ordered, Len(r.heap)) :
       i = OutIndex(r.heap, r.ordered, p)
  /\ \A i \in DOMAIN r.out :
       IF r.heap[StepAt(r, i)].is_wait THEN r.out[i] = [type |-> "wait", step |-> StepAt(r, i)]
       ELSE i \in Entries(r)

RenderFits(r) ==
  /\ IsForest(r.heap) /\ IsEnumeration(r.heap, r.ordered) /\ PlacesFit(r)
  /\ \A i \in Entries(r) : EntryFits(r, i)
  /\ r.cacheKey = CacheKeysOf(r.out)

\* The documents on their way, those recorded, and how many there are.
DocInv ==
  /\ stage \notin {"edit", "done"} => HashesCount /\ DictsStand
  /\ \A n \in DOMAIN renders : RenderFits(renders[n])
  /\ stage = "done" => Len(renders) = 2

-----------------------------------------------------------------------------
(* Facts about one document.                                               *)

(* Two members of a set of numbers differ in rank.                         *)
LEMMA RanksDiffer ==
  ASSUME NEW n \in Nat, NEW S \in SUBSET (1 .. n), NEW k \in S, NEW l \in S, Rank(S, k) = Rank(S, l)
  PROVE  k = l
<1>1. ASSUME NEW x \in S, NEW y \in S, x < y
      PROVE  Rank(S, x) # Rank(S, y)
  <2> DEFINE T == {z \in S : z <= y}
  <2>1. x \in 1 .. n /\ y \in 1 .. n
    OBVIOUS
  <2>2. y \in Nat /\ x \in Nat
    BY <2>1
  <2>3. T \subseteq 1 .. y
    <3>1. ASSUME NEW z \in T
          PROVE  z \in 1 .. y
      <4>1. z \in 1 .. n /\ z <= y
        OBVIOUS
      <4> QED
        BY <2>1, <4>1
    <3> HIDE DEF T
    <3> QED
      BY <3>1
  <2>4. y \in T /\ x \in T \ {y}
    BY <1>1, <2>1
  <2>5. \A z \in S : z \in Nat
    OBVIOUS
  <2>6. {z \in T : z < x} = {z \in S : z < x} /\ {z \in T : z < y} = {z \in S : z < y}
    <3>1. \A z \in S : z < x => z <= y
      BY <1>1, <2>2, <2>5
    <3>2. \A z \in S : z < y => z <= y
      BY <2>2, <2>5
    <3> QED
      BY <3>1, <3>2
  <2>7. Rank(T, x) = Rank(S, x) /\ Rank(T, y) = Rank(S, y)
    BY <2>6 DEF Rank
  <2> HIDE DEF T
  <2>8. /\ Cardinality(T \ {y}) \in Nat /\ Rank(T, y) = Cardinality(T \ {y})
        /\ \A z \in T \ {y} : Rank(T, z) \in Nat /\ Rank(T, z) < Cardinality(T \ {y})
    <3>1. T \in SUBSET (1 .. y)
      BY <2>3
    <3>2. LET U == T \ {y} IN
          /\ Cardinality(U) \in Nat /\ Rank(T, y) = Cardinality(U)
          /\ \A z \in U : Rank(T, z) \in Nat /\ Rank(T, z) < Cardinality(U)
      BY <2>2, <2>4, <3>1, RankOfLast
    <3> QED
      BY <3>2
  <2>9. Rank(T, x) < Rank(T, y) /\ Rank(T, x) \in Nat /\ Rank(T, y) \in Nat
    BY <2>4, <2>8
  <2> QED
    BY <2>7, <2>9
<1>2. k \in 1 .. n /\ l \in 1 .. n
  OBVIOUS
<1> QED
  BY <1>1, <1>2

(* Every command has one entry.                                            *)
LEMMA EntryOfEach ==
  ASSUME NEW r, RenderFits(r)
  PROVE  /\ \A i \in DOMAIN r.out : StepAt(r, i) \in 1 .. Len(r.heap)
         /\ \A i, j \in DOMAIN r.out : StepAt(r, i) = StepAt(r, j) => i = j
         /\ \A s \in 1 .. Len(r.heap) :
              Runs(r.heap, s) => \E i \in Entries(r) : StepAt(r, i) = s
         /\ Entries(r) \subseteq DOMAIN r.out /\ Entries(r) \subseteq 1 .. Len(r.out)
         /\ Len(r.out) \in Nat
<1> DEFINE n == Len(r.heap)
           P == OutPlaces(r.heap, r.ordered, n)
<1>1. /\ n \in Nat
      /\ \A p \in 1 .. n : r.ordered[p] \in 1 .. n
      /\ \A s \in 1 .. n : \E p \in 1 .. n : r.ordered[p] = s
      /\ \A p, q \in 1 .. n : r.ordered[p] = r.ordered[q] => p = q
  BY DEF RenderFits, IsForest, IsEnumeration
<1>2. /\ \A p \in P : /\ OutIndex(r.heap, r.ordered, p) \in DOMAIN r.out
                      /\ StepAt(r, OutIndex(r.heap, r.ordered, p)) = r.ordered[p]
      /\ \A i \in DOMAIN r.out : \E p \in P : i = OutIndex(r.heap, r.ordered, p)
      /\ \A i \in DOMAIN r.out : ~r.heap[StepAt(r, i)].is_wait => i \in Entries(r)
      /\ DOMAIN r.out = 1 .. Len(r.out) /\ Len(r.out) \in Nat
  BY DEF RenderFits, PlacesFit
<1>3. P \subseteq 1 .. n
  BY DEF OutPlaces
<1>4. \A s \in 1 .. n : Runs(r.heap, s) => \E i \in Entries(r) : StepAt(r, i) = s
  <2> SUFFICES ASSUME NEW s \in 1 .. n, Runs(r.heap, s)
               PROVE  \E i \in Entries(r) : StepAt(r, i) = s
    OBVIOUS
  <2>1. PICK p \in 1 .. n : r.ordered[p] = s
    BY <1>1
  <2>2. p \in P
    BY <2>1 DEF OutPlaces, Runs
  <2>3. ~r.heap[s].is_wait
    BY DEF Runs
  <2> HIDE DEF P
  <2> QED
    BY <1>2, <2>1, <2>2, <2>3
<1>5. Entries(r) \subseteq DOMAIN r.out
  BY DEF Entries
<1> HIDE DEF P
<1>6. \A i \in DOMAIN r.out :
        \E p \in 1 .. n : StepAt(r, i) = r.ordered[p] /\ i = OutIndex(r.heap, r.ordered, p)
  BY <1>2, <1>3
<1>7. \A i \in DOMAIN r.out : StepAt(r, i) \in 1 .. n
  BY <1>1, <1>6
<1>8. \A i, j \in DOMAIN r.out : StepAt(r, i) = StepAt(r, j) => i = j
  BY <1>1, <1>6
<1> QED
  BY <1>2, <1>4, <1>5, <1>7, <1>8

(* Only names can be shared: whose key is also another's goes by a name    *)
(* the other goes by or lays claim to.                                     *)
LEMMA SharedKeyIsName ==
  ASSUME NEW r, RenderFits(r), NEW c \in Entries(r), NEW x \in Entries(r), x # c,
         r.out[x].key = r.out[c].key
  PROVE  \E n : r.out[c].key = NameKey(n) /\ n \in NamesOf(r.heap[StepAt(r, x)])
<1>1. KeyFits(r, c) /\ KeyFits(r, x)
  BY DEF RenderFits, EntryFits
<1>2. ASSUME NEW i \in Entries(r), KeyFits(r, i)
      PROVE  \/ \E n : r.out[i].key = NameKey(n) /\ n \in NamesOf(r.heap[StepAt(r, i)])
             \/ \E p, m : r.out[i].key = HashKey(p, m, Rank(Entries(r), i))
  <2> DEFINE step == r.heap[StepAt(r, i)]
  <2>1. CASE step.key_override # None
    BY <1>2, <2>1 DEF KeyFits, NamesOf
  <2>2. CASE step.key_override = None /\ SlugOf(step) # None /\ ~Contested(r.heap, StepAt(r, i))
    BY <1>2, <2>2 DEF KeyFits, NamesOf, SlugOf
  <2>3. CASE step.key_override = None /\ ~(SlugOf(step) # None /\ ~Contested(r.heap, StepAt(r, i)))
    BY <1>2, <2>3 DEF KeyFits
  <2> QED
    BY <2>1, <2>2, <2>3
<1>3. \A p, m, k, n : NameKey(n) # HashKey(p, m, k)
  BY DEF NameKey, HashKey
<1>4. \A p, m, k, q, l, j : HashKey(p, m, k) = HashKey(q, l, j) => k = j
  BY DEF HashKey
<1>5. Rank(Entries(r), c) # Rank(Entries(r), x)
  <2>1. Entries(r) \in SUBSET (1 .. Len(r.out)) /\ Len(r.out) \in Nat
    BY EntryOfEach
  <2> QED
    BY <2>1, RanksDiffer
<1> QED
  BY <1>1, <1>2, <1>3, <1>4, <1>5

(* What is chained from a command has its entry above it in the chain.     *)
LEMMA ParentInChain ==
  ASSUME NEW r, RenderFits(r), RenderIsRight(r), NEW i \in Entries(r), NEW j \in Entries(r),
         StepAt(r, j) = r.heap[StepAt(r, i)].parent
  PROVE  j \in Below(r, i) /\ j < i /\ ChainOf(r, j) \subseteq ChainOf(r, i)
<1> DEFINE s == StepAt(r, i)
           p == StepAt(r, j)
           up(t) == UpFrom(r.heap, t)
<1>1. s \in 1 .. Len(r.heap) /\ p \in 1 .. Len(r.heap) /\ Len(r.heap) \in Nat
  BY EntryOfEach DEF RenderFits, IsForest
<1>2. /\ \A t \in 1 .. Len(r.heap) : 
            up(t) = IF r.heap[t].parent = NoStep THEN {t} ELSE {t} \cup up(r.heap[t].parent)
      /\ r.heap[s].parent < s
  BY <1>1 DEF RenderFits, IsForest
<1>3. p # s /\ p # NoStep /\ r.heap[s].parent = p
  BY <1>1, <1>2 DEF NoStep
<1>4. up(s) = {s} \cup up(p) /\ p \in up(p)
  BY <1>1, <1>2, <1>3
<1>5. ChainOf(r, j) \subseteq ChainOf(r, i) /\ j \in ChainOf(r, i)
  BY <1>4 DEF ChainOf
<1>6. j # i
  BY <1>3
<1>7. ChainOf(r, i) \subseteq 1 .. i /\ i \in Nat
  BY DEF RenderIsRight, ChainStands
<1>8. j < i
  BY <1>5, <1>6, <1>7
<1> QED
  BY <1>5, <1>6, <1>8 DEF Below

-----------------------------------------------------------------------------
(* A Step is added.                                                        *)

\* The heap of one render starts with that of another.
Extends(a, b) ==
  /\ Len(a.heap) <= Len(b.heap)
  /\ \A s \in 1 .. Len(a.heap) : a.heap[s] = b.heap[s]
  /\ \A s \in 1 .. Len(a.heap) : UpFrom(a.heap, s) = UpFrom(b.heap, s)

(* Who only appends to a heap changes nothing of its Steps.                *)
LEMMA PrefixExtends ==
  ASSUME NEW a, NEW b, RenderFits(a), RenderFits(b), IsPrefix(a.heap, b.heap)
  PROVE  Extends(a, b)
<1> DEFINE g == a.heap
           h == b.heap
           n == Len(g)
           S == {s \in 1 .. n : UpFrom(g, s) # UpFrom(h, s)}
<1>1. IsForest(g) /\ IsForest(h)
  BY DEF RenderFits
<1>2. n \in Nat /\ Len(h) \in Nat /\ n <= Len(h) /\ SubSeq(g, 1, n) = SubSeq(h, 1, n)
  BY <1>1 DEF IsForest, IsPrefix
<1>3. ASSUME NEW s \in 1 .. n
      PROVE  g[s] = h[s]
  <2>1. g \in Seq(Step) /\ h \in Seq(Step)
    BY <1>1 DEF IsForest
  <2>2. 1 \in 1 .. Len(h) + 1 /\ 1 \in 1 .. Len(g) + 1 /\ n \in 0 .. Len(h) /\ n \in 0 .. Len(g)
    BY <1>2
  <2>3. s \in 1 .. n - 1 + 1 /\ 1 + s - 1 = s
    BY <1>2
  <2> HIDE DEF g, h, n
  <2>4. SubSeq(g, 1, n)[s] = g[s] /\ SubSeq(h, 1, n)[s] = h[s]
    BY <2>1, <2>2, <2>3, SubSeqProperties
  <2> QED
    BY <1>2, <2>4
<1>4. \A s \in 1 .. n : UpFrom(g, s) = UpFrom(h, s)
  <2> SUFFICES ASSUME S # {} PROVE FALSE
    OBVIOUS
  <2>1. PICK s \in S : \A t \in S : s <= t
    <3>1. S \subseteq Nat
      OBVIOUS
    <3> HIDE DEF S
    <3> QED
      BY <3>1, SmallestExists
  <2>2. s \in 1 .. n /\ s \in 1 .. Len(h) /\ g[s] = h[s]
    BY <1>2, <1>3
  <2> DEFINE p == g[s].parent
  <2>3. /\ p \in Nat /\ p < s
        /\ UpFrom(g, s) = IF p = NoStep THEN {s} ELSE {s} \cup UpFrom(g, p)
        /\ UpFrom(h, s) = IF p = NoStep THEN {s} ELSE {s} \cup UpFrom(h, p)
    BY <1>1, <2>2 DEF IsForest, Step
  <2>4. UpFrom(g, s) # UpFrom(h, s)
    OBVIOUS
  <2> HIDE DEF p
  <2>5. CASE p = NoStep
    BY <2>3, <2>4, <2>5
  <2>6. CASE p # NoStep
    <3>1. p \in 1 .. n
      BY <1>2, <2>2, <2>3, <2>6 DEF NoStep
    <3>2. p \notin S
      <4> HIDE DEF S
      <4> QED
        BY <2>1, <2>2, <2>3
    <3>3. UpFrom(g, p) = UpFrom(h, p)
      BY <3>1, <3>2
    <3> QED
      BY <2>3, <2>4, <2>6, <3>3
  <2> QED
    BY <2>5, <2>6
<1> QED
  BY <1>2, <1>3, <1>4 DEF Extends

(* The key of an entry that is undisturbed, on top of a parent whose key   *)
(* stays.                                                                  *)
LEMMA UndisturbedKeepsKey ==
  ASSUME NEW a, NEW b, RenderFits(a), RenderFits(b), Extends(a, b),
         NEW i \in Entries(a), NEW j \in Entries(b), StepAt(a, i) = StepAt(b, j),
         Undisturbed(a, i, b),
         \A k \in Entries(a), l \in Entries(b) :
           StepAt(a, k) = a.heap[StepAt(a, i)].parent /\ StepAt(b, l) = StepAt(a, k)
             => a.out[k].key = b.out[l].key
  PROVE  a.out[i].key = b.out[j].key
<1> DEFINE s == StepAt(a, i)
           step == a.heap[s]
<1>1. s \in 1 .. Len(a.heap) /\ s \in 1 .. Len(b.heap) /\ b.heap[s] = step
  BY EntryOfEach DEF Extends
<1>2. KeyFits(a, i) /\ KeyFits(b, j)
  BY DEF RenderFits, EntryFits
<1>3. CASE step.key_override # None
  BY <1>1, <1>2, <1>3 DEF KeyFits
<1>4. CASE step.key_override = None /\ SlugOf(step) # None /\ ~Contested(a.heap, s)
  <2>1. a.out[i].key = NameKey(SlugOf(step))
    BY <1>2, <1>4 DEF KeyFits
  <2>2. a.out[i].key.by = "name" /\ a.out[i].key.name = SlugOf(step)
    BY <2>1 DEF NameKey
  <2>3. \A t \in DOMAIN b.heap \ {s} : b.heap[t].cmd # None => SlugOf(step) \notin NamesOf(b.heap[t])
    BY <2>2 DEF Undisturbed
  <2>4. ~Contested(b.heap, s)
    <3> SUFFICES ASSUME NEW t \in 1 .. Len(b.heap), t # s, Runs(b.heap, t),
                        SlugOf(step) \in {SlugOf(b.heap[t]), b.heap[t].key_override}
                 PROVE  FALSE
      BY <1>1 DEF Contested
    <3>1. t \in DOMAIN b.heap \ {s} /\ b.heap[t].cmd # None
      BY DEF RenderFits, IsForest, Runs
    <3>2. SlugOf(step) \in NamesOf(b.heap[t])
      BY <1>4 DEF NamesOf, SlugOf
    <3> QED
      BY <2>3, <3>1, <3>2
  <2>5. b.out[j].key = NameKey(SlugOf(step))
    BY <1>1, <1>2, <1>4, <2>4 DEF KeyFits
  <2> QED
    BY <2>1, <2>5
<1>5. CASE step.key_override = None /\ ~(SlugOf(step) # None /\ ~Contested(a.heap, s))
  <2> DEFINE p == step.parent
  <2>1. p \in Nat /\ p < s
    BY <1>1 DEF RenderFits, IsForest, Step
  <2>2. ~(SlugOf(step) # None /\ ~Contested(b.heap, s))
    <3> SUFFICES ASSUME Contested(a.heap, s)
                 PROVE  Contested(b.heap, s)
      BY <1>5
    <3>1. PICK t \in 1 .. Len(a.heap) :
            t # s /\ Runs(a.heap, t) /\ SlugOf(a.heap[s]) \in {SlugOf(a.heap[t]), a.heap[t].key_override}
      BY DEF Contested
    <3>2. t \in 1 .. Len(b.heap) /\ b.heap[t] = a.heap[t]
      BY DEF Extends, RenderFits, IsForest
    <3> QED
      BY <1>1, <3>1, <3>2 DEF Contested, Runs
  <2>3. p # NoStep => p \in 1 .. Len(a.heap) /\ (Runs(a.heap, p) <=> Runs(b.heap, p))
    <3>1. p # NoStep => p \in 1 .. Len(a.heap)
      BY <1>1, <2>1 DEF NoStep, RenderFits, IsForest
    <3> QED
      BY <3>1 DEF Extends, Runs
  <2>4. \E c : a.out[i].key = HashKey(c, step.cmd, Rank(Entries(a), i))
    BY <1>2, <1>5 DEF KeyFits
  <2>5. a.out[i].key.by = "hash"
    BY <2>4 DEF HashKey
  <2>6. Rank(Entries(b), j) = Rank(Entries(a), i)
    <3>1. PICK l \in Entries(b) :
            /\ StepAt(b, l) = s
            /\ Cardinality({k \in Entries(b) : k < l}) = Cardinality({k \in Entries(a) : k < i})
      BY <2>5 DEF Undisturbed
    <3>2. l = j
      BY <3>1, EntryOfEach
    <3> QED
      BY <3>1, <3>2 DEF Rank
  <2>7. CASE p # NoStep /\ Runs(a.heap, p)
    <3>1. PICK k \in Entries(a) :
            /\ StepAt(a, k) = p
            /\ a.out[i].key = HashKey(a.out[k].key, step.cmd, Rank(Entries(a), i))
      BY <1>2, <1>5, <2>7 DEF KeyFits
    <3>2. PICK l \in Entries(b) :
            /\ StepAt(b, l) = p
            /\ b.out[j].key = HashKey(b.out[l].key, step.cmd, Rank(Entries(b), j))
      BY <1>1, <1>2, <1>5, <2>2, <2>3, <2>7 DEF KeyFits
    <3>3. a.out[k].key = b.out[l].key
      BY <3>1, <3>2
    <3> QED
      BY <2>6, <3>1, <3>2, <3>3
  <2>8. CASE ~(p # NoStep /\ Runs(a.heap, p))
    <3>1. a.out[i].key = HashKey(None, step.cmd, Rank(Entries(a), i))
      BY <1>2, <1>5, <2>8 DEF KeyFits
    <3>2. b.out[j].key = HashKey(None, step.cmd, Rank(Entries(b), j))
      BY <1>1, <1>2, <1>5, <2>2, <2>3, <2>8 DEF KeyFits
    <3> QED
      BY <2>6, <3>1, <3>2
  <2> QED
    BY <2>7, <2>8
<1> QED
  BY <1>3, <1>4, <1>5

\* Nothing disturbs the chain of an entry.
ChainUndisturbed(a, i, b) == \A k \in ChainOf(a, i) : Undisturbed(a, k, b)

(* So by induction along the chain: every key of an undisturbed chain      *)
(* stays.                                                                  *)
LEMMA UndisturbedKeepKeys ==
  ASSUME NEW a, NEW b, RenderFits(a), RenderFits(b), RenderIsRight(a), Extends(a, b)
  PROVE  \A i \in Entries(a), j \in Entries(b) :
           StepAt(a, i) = StepAt(b, j) /\ ChainUndisturbed(a, i, b) => a.out[i].key = b.out[j].key
<1> DEFINE Good(i) ==
             \A j \in Entries(b) :
               StepAt(a, i) = StepAt(b, j) /\ ChainUndisturbed(a, i, b) => a.out[i].key = b.out[j].key
           S == {i \in Entries(a) : ~Good(i)}
<1>1. SUFFICES ASSUME S # {} PROVE FALSE
  OBVIOUS
<1>2. PICK i \in S : \A x \in S : i <= x
  <2>1. S \subseteq Nat
    BY EntryOfEach
  <2> HIDE DEF S
  <2> QED
    BY <1>1, <2>1, SmallestExists
<1>3. i \in Entries(a) /\ ~Good(i)
  OBVIOUS
<1>4. \A k \in Entries(a) : k < i => Good(k)
  <2>1. \A k \in Entries(a) : k \in Nat
    BY EntryOfEach
  <2> SUFFICES ASSUME NEW k \in Entries(a), k < i, ~Good(k) PROVE FALSE
    OBVIOUS
  <2>2. k \in S
    OBVIOUS
  <2> HIDE DEF S, Good
  <2> QED
    BY <1>2, <1>3, <2>1, <2>2
<1>5. PICK j \in Entries(b) :
        /\ StepAt(a, i) = StepAt(b, j) /\ ChainUndisturbed(a, i, b)
        /\ a.out[i].key # b.out[j].key
  BY <1>3
<1> HIDE DEF S, Good
<1>6. Undisturbed(a, i, b)
  BY <1>3, <1>5 DEF ChainUndisturbed, RenderIsRight, ChainStands
<1>7. ASSUME NEW k \in Entries(a), NEW l \in Entries(b),
             StepAt(a, k) = a.heap[StepAt(a, i)].parent, StepAt(b, l) = StepAt(a, k)
      PROVE  a.out[k].key = b.out[l].key
  <2>1. k < i /\ ChainOf(a, k) \subseteq ChainOf(a, i)
    BY <1>3, <1>7, ParentInChain
  <2>2. ChainUndisturbed(a, k, b)
    BY <1>5, <2>1 DEF ChainUndisturbed
  <2> QED
    BY <1>4, <1>7, <2>1, <2>2 DEF Good
<1>8. a.out[i].key = b.out[j].key
  BY <1>3, <1>5, <1>6, <1>7, UndisturbedKeepsKey
<1> QED
  BY <1>5, <1>8

(* The chain of an entry holds the chains of all entries in it.            *)
LEMMA ChainsNest ==
  ASSUME NEW r, RenderFits(r), RenderIsRight(r)
  PROVE  \A i \in Entries(r) : \A k \in ChainOf(r, i) : ChainOf(r, k) \subseteq ChainOf(r, i)
<1> DEFINE Good(i) == \A k \in ChainOf(r, i) : ChainOf(r, k) \subseteq ChainOf(r, i)
           S == {i \in Entries(r) : ~Good(i)}
<1>1. SUFFICES ASSUME S # {} PROVE FALSE
  OBVIOUS
<1>2. PICK i \in S : \A x \in S : i <= x
  <2>1. S \subseteq Nat
    BY EntryOfEach
  <2> HIDE DEF S
  <2> QED
    BY <1>1, <2>1, SmallestExists
<1>3. i \in Entries(r) /\ ~Good(i)
  OBVIOUS
<1>4. ChainStands(r, i)
  BY <1>3 DEF RenderIsRight
<1>5. PICK k \in ChainOf(r, i) : ~(ChainOf(r, k) \subseteq ChainOf(r, i))
  BY <1>3
<1> DEFINE y == Youngest(Below(r, i))
<1>6. k \in Below(r, i)
  BY <1>5 DEF Below
<1>7. /\ y \in Below(r, i) /\ ChainOf(r, y) = Below(r, i)
      /\ Below(r, i) = ChainOf(r, i) \ {i} /\ ChainOf(r, i) \subseteq 1 .. i
      /\ y \in Entries(r) /\ i \in Nat
  BY <1>4, <1>6 DEF ChainStands, Below
<1> HIDE DEF y
<1>8. y < i
  BY <1>7
<1>9. Good(y)
  <2> SUFFICES ASSUME ~Good(y) PROVE FALSE
    OBVIOUS
  <2>1. y \in S
    BY <1>7
  <2>2. y \in Nat
    BY <1>7
  <2> HIDE DEF S, Good
  <2> QED
    BY <1>2, <1>7, <1>8, <2>1, <2>2
<1>10. ChainOf(r, k) \subseteq Below(r, i)
  BY <1>6, <1>7, <1>9
<1> QED
  BY <1>5, <1>7, <1>10

(* The entries of an undisturbed chain have keys of their own, in both     *)
(* documents.                                                              *)
LEMMA UndisturbedIsUnambiguous ==
  ASSUME NEW a, NEW b, RenderFits(a), RenderFits(b), RenderIsRight(a), RenderIsRight(b), Extends(a, b),
         NEW i \in Entries(a), NEW j \in Entries(b), StepAt(a, i) = StepAt(b, j), ChainUndisturbed(a, i, b)
  PROVE  Unambiguous(a, i) /\ Unambiguous(b, j)
<1>1. /\ \A k \in ChainOf(a, i) : k \in Entries(a) /\ Undisturbed(a, k, b)
      /\ ChainOf(b, j) \subseteq Entries(b)
  BY DEF ChainUndisturbed, RenderIsRight, ChainStands
<1>2. \A n : NameKey(n).by = "name" /\ NameKey(n).name = n
  BY DEF NameKey
<1>3. ASSUME NEW k \in ChainOf(a, i), NEW x \in Entries(a) \ {k}, a.out[x].key = a.out[k].key
      PROVE  FALSE
  <2>1. PICK n : a.out[k].key = NameKey(n) /\ n \in NamesOf(a.heap[StepAt(a, x)])
    BY <1>1, <1>3, SharedKeyIsName
  <2>2. StepAt(a, x) # StepAt(a, k) /\ StepAt(a, x) \in 1 .. Len(a.heap)
    BY <1>1, EntryOfEach
  <2>3. a.heap[StepAt(a, x)].cmd # None
    <3>1. EntryFits(a, x)
      BY DEF RenderFits
    <3> QED
      BY <3>1 DEF EntryFits, Runs
  <2>4. StepAt(a, x) \in DOMAIN b.heap /\ b.heap[StepAt(a, x)] = a.heap[StepAt(a, x)]
    BY <2>2 DEF Extends, RenderFits, IsForest
  <2>5. n \notin NamesOf(b.heap[StepAt(a, x)])
    BY <1>1, <1>2, <2>1, <2>2, <2>3, <2>4 DEF Undisturbed
  <2> QED
    BY <2>1, <2>4, <2>5
<1>4. ASSUME NEW l \in ChainOf(b, j), NEW x \in Entries(b) \ {l}, b.out[x].key = b.out[l].key
      PROVE  FALSE
  <2>1. PICK n : b.out[l].key = NameKey(n) /\ n \in NamesOf(b.heap[StepAt(b, x)])
    BY <1>1, <1>4, SharedKeyIsName
  <2>2. StepAt(b, l) \in UpFrom(a.heap, StepAt(a, i)) /\ StepAt(a, i) \in 1 .. Len(a.heap)
    <3>1. StepAt(a, i) \in 1 .. Len(a.heap)
      BY EntryOfEach
    <3> QED
      BY <3>1 DEF ChainOf, Extends
  <2>3. StepAt(b, l) \in 1 .. Len(a.heap)
    <3>1. UpFrom(a.heap, StepAt(a, i)) \subseteq 1 .. StepAt(a, i) /\ Len(a.heap) \in Nat
      BY <2>2 DEF RenderFits, IsForest
    <3> QED
      BY <2>2, <3>1
  <2>4. Runs(a.heap, StepAt(b, l))
    <3>1. Runs(b.heap, StepAt(b, l))
      BY <1>1 DEF RenderFits, EntryFits
    <3> QED
      BY <2>3, <3>1 DEF Extends, Runs
  <2>5. PICK k \in Entries(a) : StepAt(a, k) = StepAt(b, l)
    BY <2>3, <2>4, EntryOfEach
  <2>6. k \in ChainOf(a, i)
    BY <2>2, <2>5 DEF ChainOf
  <2>7. ChainUndisturbed(a, k, b)
    <3>1. ChainOf(a, k) \subseteq ChainOf(a, i)
      BY <2>6, ChainsNest
    <3> QED
      BY <3>1 DEF ChainUndisturbed
  <2>8. a.out[k].key = b.out[l].key
    BY <1>1, <2>5, <2>7, UndisturbedKeepKeys
  <2>9. StepAt(b, x) # StepAt(a, k) /\ StepAt(b, x) \in DOMAIN b.heap
    <3>1. x # l /\ x \in DOMAIN b.out /\ l \in DOMAIN b.out
      BY <1>1, EntryOfEach
    <3>2. StepAt(b, x) \in 1 .. Len(b.heap) /\ StepAt(b, x) # StepAt(b, l)
      BY <3>1, EntryOfEach
    <3>3. DOMAIN b.heap = 1 .. Len(b.heap)
      BY DEF RenderFits, IsForest
    <3> QED
      BY <2>5, <3>2, <3>3
  <2>10. b.heap[StepAt(b, x)].cmd # None
    <3>1. EntryFits(b, x)
      BY DEF RenderFits
    <3> QED
      BY <3>1 DEF EntryFits, Runs
  <2>11. n \notin NamesOf(b.heap[StepAt(b, x)])
    BY <1>1, <1>2, <2>1, <2>6, <2>8, <2>9, <2>10 DEF Undisturbed
  <2> QED
    BY <2>1, <2>11
<1> QED
  BY <1>3, <1>4 DEF Unambiguous

(* So the snapshots stay as well.                                          *)
LEMMA UndisturbedKeepSnapshots ==
  ASSUME NEW a, NEW b, RenderFits(a), RenderFits(b), RenderIsRight(a), RenderIsRight(b), Extends(a, b)
  PROVE  \A i \in Entries(a), j \in Entries(b) :
           StepAt(a, i) = StepAt(b, j) /\ ChainUndisturbed(a, i, b) => a.cacheKey[i] = b.cacheKey[j]
<1> DEFINE Good(i) ==
             \A j \in Entries(b) :
               StepAt(a, i) = StepAt(b, j) /\ ChainUndisturbed(a, i, b) => a.cacheKey[i] = b.cacheKey[j]
           S == {i \in Entries(a) : ~Good(i)}
           root == [root |-> "scratch"]
<1>1. SUFFICES ASSUME S # {} PROVE FALSE
  OBVIOUS
<1>2. PICK i \in S : \A x \in S : i <= x
  <2>1. S \subseteq Nat
    BY EntryOfEach
  <2> HIDE DEF S
  <2> QED
    BY <1>1, <2>1, SmallestExists
<1>3. i \in Entries(a) /\ ~Good(i)
  OBVIOUS
<1>4. \A k \in Entries(a) : k < i => Good(k)
  <2>1. \A k \in Entries(a) : k \in Nat
    BY EntryOfEach
  <2> SUFFICES ASSUME NEW k \in Entries(a), k < i, ~Good(k) PROVE FALSE
    OBVIOUS
  <2>2. k \in S
    OBVIOUS
  <2> HIDE DEF S, Good
  <2> QED
    BY <1>2, <1>3, <2>1, <2>2
<1>5. PICK j \in Entries(b) :
        /\ StepAt(a, i) = StepAt(b, j) /\ ChainUndisturbed(a, i, b)
        /\ a.cacheKey[i] # b.cacheKey[j]
  BY <1>3
<1> HIDE DEF S, Good
<1> DEFINE A == Below(a, i)
           B == Below(b, j)
           x == Youngest(A)
           y == Youngest(B)
           s == StepAt(a, i)
<1>6. Unambiguous(a, i) /\ Unambiguous(b, j)
  BY <1>3, <1>5, UndisturbedIsUnambiguous
<1>7. PICK p : a.cacheKey[i] = Keygen!CacheKey(a.out[i], p, World)
               /\ p = IF A = {} THEN root ELSE a.cacheKey[x]
  BY <1>3, <1>6 DEF RenderIsRight, KeyedOver
<1>8. PICK q : b.cacheKey[j] = Keygen!CacheKey(b.out[j], q, World)
               /\ q = IF B = {} THEN root ELSE b.cacheKey[y]
  BY <1>6 DEF RenderIsRight, KeyedOver
<1>9. /\ a.out[i].key = b.out[j].key /\ a.out[i].cmd = b.out[j].cmd
      /\ a.out[i].cache = b.out[j].cache
  <2>1. a.out[i].key = b.out[j].key
    BY <1>3, <1>5, UndisturbedKeepKeys
  <2>2. /\ a.out[i].cmd = a.heap[s].cmd /\ a.out[i].cache = a.heap[s].cache
        /\ b.out[j].cmd = b.heap[s].cmd /\ b.out[j].cache = b.heap[s].cache
    <3>1. EntryFits(a, i) /\ EntryFits(b, j)
      BY <1>3 DEF RenderFits
    <3> QED
      BY <1>5, <3>1 DEF EntryFits
  <2>3. a.heap[s] = b.heap[s]
    BY <1>3, EntryOfEach DEF Extends
  <2> QED
    BY <2>1, <2>2, <2>3
<1>10. p # q
  BY <1>5, <1>7, <1>8, <1>9 DEF Keygen!CacheKey
\* The same Steps are below.
<1>11. /\ \A k \in A : \E l \in B : StepAt(a, k) = StepAt(b, l)
       /\ \A l \in B : \E k \in A : StepAt(a, k) = StepAt(b, l)
  <2>1. s \in 1 .. Len(a.heap) /\ UpFrom(a.heap, s) = UpFrom(b.heap, s)
        /\ UpFrom(a.heap, s) \subseteq 1 .. Len(a.heap)
    <3>1. s \in 1 .. Len(a.heap) /\ UpFrom(a.heap, s) = UpFrom(b.heap, s)
      BY <1>3, EntryOfEach DEF Extends
    <3>2. UpFrom(a.heap, s) \subseteq 1 .. s /\ Len(a.heap) \in Nat
      BY <3>1 DEF RenderFits, IsForest
    <3> QED
      BY <3>1, <3>2
  <2>2. /\ \A k \in Entries(a) : Runs(a.heap, StepAt(a, k))
        /\ \A l \in Entries(b) : Runs(b.heap, StepAt(b, l))
    BY DEF RenderFits, EntryFits
  <2>3. \A t \in 1 .. Len(a.heap) : t \in 1 .. Len(b.heap) /\ (Runs(a.heap, t) <=> Runs(b.heap, t))
    BY DEF Extends, Runs, RenderFits, IsForest
  <2>4. ASSUME NEW k \in A
        PROVE  \E l \in B : StepAt(a, k) = StepAt(b, l)
    <3>1. k \in Entries(a) /\ k # i /\ StepAt(a, k) \in UpFrom(a.heap, s)
      BY DEF Below, ChainOf
    <3>2. PICK l \in Entries(b) : StepAt(b, l) = StepAt(a, k)
      BY <2>1, <2>2, <2>3, <3>1, EntryOfEach
    <3>3. l # j
      BY <1>3, <1>5, <3>1, <3>2, EntryOfEach
    <3> QED
      BY <1>5, <2>1, <3>1, <3>2, <3>3 DEF Below, ChainOf
  <2>5. ASSUME NEW l \in B
        PROVE  \E k \in A : StepAt(a, k) = StepAt(b, l)
    <3>1. l \in Entries(b) /\ l # j /\ StepAt(b, l) \in UpFrom(a.heap, s)
      BY <1>5, <2>1 DEF Below, ChainOf
    <3>2. PICK k \in Entries(a) : StepAt(a, k) = StepAt(b, l)
      BY <2>1, <2>2, <2>3, <3>1, EntryOfEach
    <3>3. k # i
      BY <1>5, <3>1, <3>2, EntryOfEach
    <3> QED
      BY <2>1, <3>1, <3>2, <3>3 DEF Below, ChainOf
  <2> QED
    BY <2>4, <2>5
<1>12. A = {} <=> B = {}
  <2> HIDE DEF A, B
  <2> QED
    BY <1>11
<1>13. CASE A = {}
  BY <1>7, <1>8, <1>10, <1>12, <1>13
<1>14. CASE A # {}
  <2>1. /\ x \in A /\ ChainOf(a, x) = A /\ x \in Entries(a) /\ x < i /\ A \subseteq ChainOf(a, i)
    <3>1. ChainStands(a, i)
      BY <1>3 DEF RenderIsRight
    <3>2. x \in A /\ ChainOf(a, x) = A /\ A \subseteq ChainOf(a, i) /\ ChainOf(a, i) \subseteq 1 .. i
          /\ i \in Nat /\ ChainOf(a, i) \subseteq Entries(a)
      BY <1>14, <3>1 DEF ChainStands, Below
    <3>3. x # i
      BY <3>2 DEF Below
    <3> HIDE DEF x, A
    <3> QED
      BY <3>2, <3>3
  <2>2. /\ y \in B /\ ChainOf(b, y) = B /\ y \in Entries(b)
    <3>1. ChainStands(b, j)
      BY DEF RenderIsRight
    <3>2. B \subseteq Entries(b)
      BY DEF Below, ChainOf
    <3> QED
      BY <1>12, <1>14, <3>1, <3>2 DEF ChainStands
  <2> HIDE DEF A, B, x, y
  \* The two last ones are above one another.
  <2>3. StepAt(a, x) = StepAt(b, y)
    <3> DEFINE u == StepAt(a, x)
               v == StepAt(b, y)
    <3>1. PICK l \in B : StepAt(b, l) = u
      BY <1>11, <2>1
    <3>2. PICK k \in A : StepAt(a, k) = v
      BY <1>11, <2>2
    <3>3. u \in 1 .. Len(a.heap) /\ v \in 1 .. Len(b.heap)
      BY <2>1, <2>2, EntryOfEach
    <3>4. u \in UpFrom(b.heap, v) /\ v \in UpFrom(a.heap, u)
      BY <2>1, <2>2, <3>1, <3>2 DEF ChainOf
    <3>5. UpFrom(b.heap, v) \subseteq 1 .. v /\ UpFrom(a.heap, u) \subseteq 1 .. u
      BY <3>3 DEF RenderFits, IsForest
    <3> HIDE DEF u, v
    <3>6. u \in 1 .. v /\ v \in 1 .. u
      BY <3>4, <3>5
    <3>7. u = v
      BY <3>6
    <3> QED
      BY <3>7 DEF u, v
  <2>4. ChainUndisturbed(a, x, b)
    BY <1>5, <2>1 DEF ChainUndisturbed
  <2>5. a.cacheKey[x] = b.cacheKey[y]
    BY <1>4, <2>1, <2>2, <2>3, <2>4 DEF Good
  <2> QED
    BY <1>7, <1>8, <1>10, <1>12, <1>14, <2>5 DEF x, y
<1> QED
  BY <1>13, <1>14

-----------------------------------------------------------------------------
(* The same program, built in another order: what is said of the Step at a *)
(* place is the same of both.                                              *)

\* The same Step stands at place p, chained from the same place.
SameAt(a, b, p) ==
  LET s == a.heap[a.ordered[p]]  t == b.heap[b.ordered[p]] IN
  /\ s.cmd = t.cmd /\ s.is_wait = t.is_wait /\ s.label = t.label
  /\ s.cache = t.cache /\ s.key_override = t.key_override
  /\ s.parent = NoStep <=> t.parent = NoStep
  /\ s.parent # NoStep =>
       \E q \in 1 .. Len(a.heap) : a.ordered[q] = s.parent /\ b.ordered[q] = t.parent

Rebuilt(a, b) ==
  /\ Len(a.heap) = Len(b.heap)
  /\ \A p \in 1 .. Len(a.heap) : SameAt(a, b, p)

(* SameProgram, without the CHOOSE of Place.                               *)
LEMMA SameIsRebuilt ==
  ASSUME NEW a, NEW b, RenderFits(a), RenderFits(b), SameProgram(a, b)
  PROVE  Rebuilt(a, b)
<1> DEFINE n == Len(a.heap)
<1>1. /\ n \in Nat /\ Len(b.heap) = n
      /\ Len(a.ordered) = n /\ DOMAIN a.ordered = 1 .. n /\ DOMAIN b.ordered = 1 .. n
  BY DEF RenderFits, IsForest, IsEnumeration, SameProgram
<1>2. ASSUME NEW p \in 1 .. n
      PROVE  SameAt(a, b, p)
  <2> DEFINE s == a.heap[a.ordered[p]]
             t == b.heap[b.ordered[p]]
  <2>1. /\ [s EXCEPT !.parent = NoStep] = [t EXCEPT !.parent = NoStep]
        /\ Place(a, s.parent) = Place(b, t.parent)
    BY <1>1 DEF SameProgram
  <2>2. /\ a.ordered[p] \in 1 .. n /\ b.ordered[p] \in 1 .. n
    BY <1>1 DEF RenderFits, IsEnumeration
  <2>3. /\ s \in Step /\ t \in Step
        /\ s.parent < a.ordered[p] /\ t.parent < b.ordered[p]
    BY <1>1, <2>2 DEF RenderFits, IsForest
  <2> HIDE DEF s, t
  <2>4. /\ s.cmd = t.cmd /\ s.is_wait = t.is_wait /\ s.label = t.label
        /\ s.cache = t.cache /\ s.key_override = t.key_override
    <3>1. \A x \in Step : LET y == [x EXCEPT !.parent = NoStep] IN
            /\ y.cmd = x.cmd /\ y.is_wait = x.is_wait /\ y.label = x.label
            /\ y.cache = x.cache /\ y.key_override = x.key_override
      BY DEF Step
    <3> QED
      BY <2>1, <2>3, <3>1
  <2>5. s.parent \in Nat /\ t.parent \in Nat
    BY <2>3 DEF Step
  <2>6. /\ s.parent # NoStep => s.parent \in 1 .. n
        /\ t.parent # NoStep => t.parent \in 1 .. n
    BY <1>1, <2>2, <2>3, <2>5 DEF NoStep
  <2>7. ASSUME NEW r, IsEnumeration(r.heap, r.ordered), Len(r.heap) = n, NEW u \in 1 .. n
        PROVE  Place(r, u) \in 1 .. n /\ r.ordered[Place(r, u)] = u
    <3>1. \E q \in DOMAIN r.ordered : r.ordered[q] = u
      BY <2>7 DEF IsEnumeration
    <3>2. u # NoStep
      BY DEF NoStep
    <3> QED
      BY <2>7, <3>1, <3>2 DEF Place, IsEnumeration
  <2>8. IsEnumeration(a.heap, a.ordered) /\ IsEnumeration(b.heap, b.ordered)
    BY DEF RenderFits
  <2>9. Place(a, NoStep) = NoStep /\ Place(b, NoStep) = NoStep /\ NoStep \notin 1 .. n
    BY DEF Place, NoStep
  <2>10. s.parent = NoStep <=> t.parent = NoStep
    BY <1>1, <2>1, <2>6, <2>7, <2>8, <2>9
  <2>11. s.parent # NoStep =>
           \E q \in 1 .. n : a.ordered[q] = s.parent /\ b.ordered[q] = t.parent
    BY <1>1, <2>1, <2>6, <2>7, <2>8, <2>10
  <2> QED
    BY <2>4, <2>10, <2>11 DEF SameAt, s, t
<1> QED
  BY <1>1, <1>2 DEF Rebuilt

(* The entries stand at the same places.                                   *)
LEMMA RebuiltEntries ==
  ASSUME NEW a, NEW b, RenderFits(a), RenderFits(b), Rebuilt(a, b)
  PROVE  /\ DOMAIN a.out = DOMAIN b.out
         /\ \A i \in DOMAIN a.out : \E p \in 1 .. Len(a.heap) :
              StepAt(a, i) = a.ordered[p] /\ StepAt(b, i) = b.ordered[p]
         /\ Entries(a) = Entries(b)
<1> DEFINE n == Len(a.heap)
           idx(p) == OutIndex(a.heap, a.ordered, p)
           P == OutPlaces(a.heap, a.ordered, n)
<1>1. n \in Nat /\ Len(b.heap) = n
  BY DEF RenderFits, IsForest, Rebuilt
<1>2. \A p \in 1 .. n : /\ a.heap[a.ordered[p]].cmd = b.heap[b.ordered[p]].cmd
                        /\ a.heap[a.ordered[p]].is_wait = b.heap[b.ordered[p]].is_wait
  BY DEF Rebuilt, SameAt
<1>3. ASSUME NEW m \in 0 .. n
      PROVE  OutPlaces(a.heap, a.ordered, m) = OutPlaces(b.heap, b.ordered, m)
  <2>1. 1 .. m \subseteq 1 .. n
    BY <1>1
  <2> QED
    BY <1>2, <2>1 DEF OutPlaces
<1>4. P = OutPlaces(b.heap, b.ordered, n) /\ P \subseteq 1 .. n
  BY <1>1, <1>3 DEF OutPlaces
<1>5. \A p \in P : OutIndex(b.heap, b.ordered, p) = idx(p)
  <2>1. \A p \in P : p \in 0 .. n
    BY <1>1, <1>4
  <2> QED
    BY <1>3, <2>1 DEF OutIndex
<1> HIDE DEF P, idx
<1>6. /\ \A p \in P : idx(p) \in DOMAIN a.out /\ StepAt(a, idx(p)) = a.ordered[p]
      /\ \A i \in DOMAIN a.out : \E p \in P : i = idx(p)
      /\ \A i \in DOMAIN a.out : IF a.heap[StepAt(a, i)].is_wait THEN a.out[i].type = "wait"
                                 ELSE i \in Entries(a)
  <2>1. PlacesFit(a)
    BY DEF RenderFits
  <2>2. ASSUME NEW i \in DOMAIN a.out
        PROVE  IF a.heap[StepAt(a, i)].is_wait THEN a.out[i].type = "wait" ELSE i \in Entries(a)
    <3>1. IF a.heap[StepAt(a, i)].is_wait THEN a.out[i] = [type |-> "wait", step |-> StepAt(a, i)]
          ELSE i \in Entries(a)
      BY <2>1 DEF PlacesFit
    <3> QED
      BY <3>1
  <2>3. \A p \in P : idx(p) \in DOMAIN a.out /\ StepAt(a, idx(p)) = a.ordered[p]
    BY <2>1 DEF PlacesFit, P, idx
  <2>4. \A i \in DOMAIN a.out : \E p \in P : i = idx(p)
    BY <2>1 DEF PlacesFit, P, idx
  <2> QED
    BY <2>2, <2>3, <2>4
<1>7. /\ \A p \in P : idx(p) \in DOMAIN b.out /\ StepAt(b, idx(p)) = b.ordered[p]
      /\ \A i \in DOMAIN b.out : \E p \in P : i = idx(p)
      /\ \A i \in DOMAIN b.out : IF b.heap[StepAt(b, i)].is_wait THEN b.out[i].type = "wait"
                                 ELSE i \in Entries(b)
  <2>1. PlacesFit(b)
    BY DEF RenderFits
  <2>2. \A p \in P : OutIndex(b.heap, b.ordered, p) \in DOMAIN b.out
                     /\ StepAt(b, OutIndex(b.heap, b.ordered, p)) = b.ordered[p]
    BY <1>1, <1>4, <2>1 DEF PlacesFit
  <2>3. \A i \in DOMAIN b.out : \E p \in P : i = OutIndex(b.heap, b.ordered, p)
    BY <1>1, <1>4, <2>1 DEF PlacesFit
  <2>4. ASSUME NEW i \in DOMAIN b.out
        PROVE  IF b.heap[StepAt(b, i)].is_wait THEN b.out[i].type = "wait" ELSE i \in Entries(b)
    <3>1. IF b.heap[StepAt(b, i)].is_wait THEN b.out[i] = [type |-> "wait", step |-> StepAt(b, i)]
          ELSE i \in Entries(b)
      BY <2>1 DEF PlacesFit
    <3> QED
      BY <3>1
  <2> QED
    BY <1>5, <2>2, <2>3, <2>4
<1>8. \A i : i \in DOMAIN a.out <=> i \in DOMAIN b.out
  BY <1>6, <1>7
<1>9. \A i \in DOMAIN a.out : \E p \in 1 .. n : StepAt(a, i) = a.ordered[p] /\ StepAt(b, i) = b.ordered[p]
  BY <1>4, <1>6, <1>7
<1>10. DOMAIN a.out = DOMAIN b.out
  <2>1. DOMAIN a.out = 1 .. Len(a.out) /\ DOMAIN b.out = 1 .. Len(b.out)
    BY DEF RenderFits, PlacesFit
  <2> QED
    BY <1>8, <2>1
<1>11. ASSUME NEW i \in DOMAIN a.out
       PROVE  i \in Entries(a) <=> i \in Entries(b)
  <2>1. PICK p \in 1 .. n : StepAt(a, i) = a.ordered[p] /\ StepAt(b, i) = b.ordered[p]
    BY <1>9
  <2>2. a.heap[StepAt(a, i)].is_wait = b.heap[StepAt(b, i)].is_wait
    BY <1>2, <2>1
  <2>3. i \in DOMAIN b.out
    BY <1>8
  <2>4. CASE a.heap[StepAt(a, i)].is_wait
    <3>1. a.out[i].type = "wait" /\ b.out[i].type = "wait"
      BY <1>6, <1>7, <2>2, <2>3, <2>4
    <3> QED
      BY <3>1 DEF Entries
  <2>5. CASE ~a.heap[StepAt(a, i)].is_wait
    BY <1>6, <1>7, <2>2, <2>3, <2>5
  <2> QED
    BY <2>4, <2>5
<1>12. Entries(a) \subseteq DOMAIN a.out /\ Entries(b) \subseteq DOMAIN b.out
  BY DEF Entries
<1>13. Entries(a) = Entries(b)
  BY <1>10, <1>11, <1>12
<1> QED
  BY <1>9, <1>10, <1>13

(* What stands above what does not depend on the order either.             *)
LEMMA RebuiltAncestors ==
  ASSUME NEW a, NEW b, RenderFits(a), RenderFits(b), Rebuilt(a, b)
  PROVE  \A p, q \in 1 .. Len(a.heap) :
           a.ordered[q] \in UpFrom(a.heap, a.ordered[p]) <=> b.ordered[q] \in UpFrom(b.heap, b.ordered[p])
<1> DEFINE n == Len(a.heap)
           Good(s) == \A p, q \in 1 .. n : a.ordered[p] = s =>
                        (a.ordered[q] \in UpFrom(a.heap, s) <=> b.ordered[q] \in UpFrom(b.heap, b.ordered[p]))
           S == {s \in 1 .. n : ~Good(s)}
<1>1. /\ n \in Nat /\ Len(b.heap) = n
      /\ \A p \in 1 .. n : a.ordered[p] \in 1 .. n /\ b.ordered[p] \in 1 .. n
      /\ \A p, q \in 1 .. n : a.ordered[p] = a.ordered[q] => p = q
      /\ \A p, q \in 1 .. n : b.ordered[p] = b.ordered[q] => p = q
  BY DEF RenderFits, IsForest, IsEnumeration, Rebuilt
<1>2. /\ \A s \in 1 .. n :
           /\ a.heap[s].parent < s
           /\ UpFrom(a.heap, s) =
                IF a.heap[s].parent = NoStep THEN {s} ELSE {s} \cup UpFrom(a.heap, a.heap[s].parent)
           /\ UpFrom(b.heap, s) =
                IF b.heap[s].parent = NoStep THEN {s} ELSE {s} \cup UpFrom(b.heap, b.heap[s].parent)
  BY <1>1 DEF RenderFits, IsForest
<1>3. SUFFICES ASSUME S # {} PROVE FALSE
  BY <1>1
<1>4. PICK s \in S : \A x \in S : s <= x
  <2>1. S \subseteq Nat
    OBVIOUS
  <2> HIDE DEF S
  <2> QED
    BY <1>3, <2>1, SmallestExists
<1>5. s \in 1 .. n /\ ~Good(s)
  OBVIOUS
<1>6. PICK p \in 1 .. n : /\ a.ordered[p] = s
                          /\ \E q \in 1 .. n : ~(a.ordered[q] \in UpFrom(a.heap, s)
                                                <=> b.ordered[q] \in UpFrom(b.heap, b.ordered[p]))
  BY <1>5
<1>7. PICK q \in 1 .. n : ~(a.ordered[q] \in UpFrom(a.heap, s) <=> b.ordered[q] \in UpFrom(b.heap, b.ordered[p]))
  BY <1>6
<1> DEFINE t == b.ordered[p]
<1>8. t \in 1 .. n /\ SameAt(a, b, p)
  BY <1>1 DEF Rebuilt
<1>9. a.ordered[q] = s <=> b.ordered[q] = t
  BY <1>1, <1>6
<1>10. CASE a.heap[s].parent = NoStep
  <2>1. b.heap[t].parent = NoStep
    BY <1>6, <1>8, <1>10 DEF SameAt
  <2>2. UpFrom(a.heap, s) = {s} /\ UpFrom(b.heap, t) = {t}
    BY <1>2, <1>5, <1>8, <1>10, <2>1
  <2> QED
    BY <1>7, <1>9, <2>2
<1>11. CASE a.heap[s].parent # NoStep
  <2>1. PICK k \in 1 .. n : a.ordered[k] = a.heap[s].parent /\ b.ordered[k] = b.heap[t].parent
    BY <1>6, <1>8, <1>11 DEF SameAt
  <2>2. b.heap[t].parent # NoStep
    BY <1>6, <1>8, <1>11 DEF SameAt
  <2>3. Good(a.ordered[k])
    <3> SUFFICES ASSUME ~Good(a.ordered[k]) PROVE FALSE
      OBVIOUS
    <3>1. a.ordered[k] \in S
      BY <1>1
    <3>2. a.ordered[k] < s /\ a.ordered[k] \in Nat /\ s \in Nat
      <4>1. a.ordered[k] \in 1 .. n /\ s \in 1 .. n /\ a.ordered[k] < s
        BY <1>1, <1>2, <1>5, <2>1
      <4> QED
        BY <4>1
    <3> HIDE DEF S, Good
    <3> QED
      BY <1>4, <3>1, <3>2
  <2>4. a.ordered[q] \in UpFrom(a.heap, a.ordered[k]) <=> b.ordered[q] \in UpFrom(b.heap, b.ordered[k])
    BY <2>3
  <2>5. /\ UpFrom(a.heap, s) = {s} \cup UpFrom(a.heap, a.ordered[k])
        /\ UpFrom(b.heap, t) = {t} \cup UpFrom(b.heap, b.ordered[k])
    BY <1>2, <1>5, <1>8, <1>11, <2>1, <2>2
  <2> QED
    BY <1>7, <1>9, <2>4, <2>5
<1> QED
  BY <1>10, <1>11

(* The keys agree, from the first entry on: a hash is over the key of a    *)
(* parent, which stands further up, and a rank among the same entries.     *)
LEMMA RebuiltKeys ==
  ASSUME NEW a, NEW b, RenderFits(a), RenderFits(b), RenderIsRight(a), Rebuilt(a, b)
  PROVE  \A i \in Entries(a) : a.out[i].key = b.out[i].key
<1> DEFINE n == Len(a.heap)
           S == {i \in Entries(a) : a.out[i].key # b.out[i].key}
<1>1. /\ n \in Nat /\ Len(b.heap) = n /\ Entries(a) = Entries(b) /\ Entries(a) \subseteq DOMAIN a.out
      /\ \A s \in 1 .. n : \E q \in 1 .. n : a.ordered[q] = s
      /\ \A s \in 1 .. n : \E q \in 1 .. n : b.ordered[q] = s
      /\ \A q \in 1 .. n : a.ordered[q] \in 1 .. n /\ b.ordered[q] \in 1 .. n
      /\ \A p, q \in 1 .. n : a.ordered[p] = a.ordered[q] => p = q
      /\ \A p, q \in 1 .. n : b.ordered[p] = b.ordered[q] => p = q
  BY RebuiltEntries, EntryOfEach DEF RenderFits, IsForest, IsEnumeration, Rebuilt
<1>2. SUFFICES ASSUME S # {} PROVE FALSE
  OBVIOUS
<1>3. PICK i \in S : \A x \in S : i <= x
  <2>1. S \subseteq Nat
    BY EntryOfEach
  <2> HIDE DEF S
  <2> QED
    BY <1>2, <2>1, SmallestExists
<1>4. i \in Entries(a) /\ i \in Entries(b) /\ a.out[i].key # b.out[i].key
  BY <1>1
<1>5. \A k \in Entries(a) : k < i => a.out[k].key = b.out[k].key
  <2>1. \A k \in Entries(a) : k \in Nat
    BY EntryOfEach
  <2> SUFFICES ASSUME NEW k \in Entries(a), k < i, a.out[k].key # b.out[k].key PROVE FALSE
    OBVIOUS
  <2>2. k \in S
    OBVIOUS
  <2> HIDE DEF S
  <2> QED
    BY <1>3, <1>4, <2>1, <2>2
<1> HIDE DEF S
<1>6. PICK p \in 1 .. n : StepAt(a, i) = a.ordered[p] /\ StepAt(b, i) = b.ordered[p]
  BY <1>1, <1>4, RebuiltEntries
<1> DEFINE s == StepAt(a, i)
           t == StepAt(b, i)
           step == a.heap[s]
           copy == b.heap[t]
<1>7. KeyFits(a, i) /\ KeyFits(b, i)
  <2>1. EntryFits(a, i) /\ EntryFits(b, i)
    BY <1>4 DEF RenderFits
  <2> QED
    BY <2>1 DEF EntryFits
<1>8. \A q \in 1 .. n : SameAt(a, b, q)
  BY DEF Rebuilt
<1>9. /\ step.cmd = copy.cmd /\ step.label = copy.label /\ step.key_override = copy.key_override
      /\ SlugOf(step) = SlugOf(copy)
      /\ step.parent = NoStep <=> copy.parent = NoStep
  BY <1>6, <1>8 DEF SameAt, SlugOf
<1>10. Contested(a.heap, s) <=> Contested(b.heap, t)
  <2> DEFINE Claims(r, q) ==
               /\ q # p /\ Runs(r.heap, r.ordered[q])
               /\ SlugOf(step) \in {SlugOf(r.heap[r.ordered[q]]), r.heap[r.ordered[q]].key_override}
  <2>1. \A q \in 1 .. n : Claims(a, q) <=> Claims(b, q)
    <3> TAKE q \in 1 .. n
    <3>1. /\ Runs(a.heap, a.ordered[q]) <=> Runs(b.heap, b.ordered[q])
          /\ SlugOf(a.heap[a.ordered[q]]) = SlugOf(b.heap[b.ordered[q]])
          /\ a.heap[a.ordered[q]].key_override = b.heap[b.ordered[q]].key_override
      BY <1>8 DEF SameAt, Runs, SlugOf
    <3> QED
      BY <3>1
  <2>2. Contested(a.heap, s) <=> \E q \in 1 .. n : Claims(a, q)
    <3>1. ASSUME NEW u \in 1 .. Len(a.heap), u # s, Runs(a.heap, u),
                 SlugOf(a.heap[s]) \in {SlugOf(a.heap[u]), a.heap[u].key_override}
          PROVE  \E q \in 1 .. n : Claims(a, q)
      <4>1. PICK q \in 1 .. n : a.ordered[q] = u
        BY <1>1, <3>1
      <4>2. Claims(a, q)
        BY <1>6, <3>1, <4>1
      <4> QED
        BY <4>2
    <3>2. ASSUME NEW q \in 1 .. n, Claims(a, q)
          PROVE  Contested(a.heap, s)
      <4>1. a.ordered[q] \in 1 .. Len(a.heap) /\ a.ordered[q] # s
        BY <1>1, <1>6, <3>2
      <4> QED
        BY <3>2, <4>1 DEF Contested
    <3> HIDE DEF Claims, n
    <3> QED
      BY <3>1, <3>2 DEF Contested
  <2>3. Contested(b.heap, t) <=> \E q \in 1 .. n : Claims(b, q)
    <3>1. ASSUME NEW u \in 1 .. Len(b.heap), u # t, Runs(b.heap, u),
                 SlugOf(b.heap[t]) \in {SlugOf(b.heap[u]), b.heap[u].key_override}
          PROVE  \E q \in 1 .. n : Claims(b, q)
      <4>1. PICK q \in 1 .. n : b.ordered[q] = u
        BY <1>1, <3>1
      <4>2. Claims(b, q)
        BY <1>6, <1>9, <3>1, <4>1
      <4> QED
        BY <4>2
    <3>2. ASSUME NEW q \in 1 .. n, Claims(b, q)
          PROVE  Contested(b.heap, t)
      <4>1. b.ordered[q] \in 1 .. Len(b.heap) /\ b.ordered[q] # t
        BY <1>1, <1>6, <3>2
      <4>2. SlugOf(b.heap[t]) \in {SlugOf(b.heap[b.ordered[q]]), b.heap[b.ordered[q]].key_override}
        BY <1>9, <3>2
      <4> QED
        BY <3>2, <4>1, <4>2 DEF Contested
    <3> HIDE DEF Claims, n
    <3> QED
      BY <3>1, <3>2 DEF Contested
  <2> QED
    BY <2>1, <2>2, <2>3
<1>11. CASE step.key_override # None
  BY <1>4, <1>7, <1>9, <1>11 DEF KeyFits
<1>12. CASE step.key_override = None /\ SlugOf(step) # None /\ ~Contested(a.heap, s)
  BY <1>4, <1>7, <1>9, <1>10, <1>12 DEF KeyFits
<1>13. CASE step.key_override = None /\ ~(SlugOf(step) # None /\ ~Contested(a.heap, s))
  <2> DEFINE rank == Rank(Entries(a), i)
  <2>1. CASE step.parent = NoStep
    <3>1. /\ a.out[i].key = HashKey(None, step.cmd, rank)
          /\ b.out[i].key = HashKey(None, copy.cmd, Rank(Entries(b), i))
      BY <1>7, <1>9, <1>10, <1>13, <2>1 DEF KeyFits
    <3> QED
      BY <1>1, <1>4, <1>9, <3>1
  <2>2. CASE step.parent # NoStep
    <3>1. PICK q \in 1 .. n : a.ordered[q] = step.parent /\ b.ordered[q] = copy.parent
      BY <1>6, <1>8, <2>2 DEF SameAt
    <3>2. Runs(a.heap, step.parent) <=> Runs(b.heap, copy.parent)
      <4>1. SameAt(a, b, q)
        BY <1>8
      <4>2. /\ a.heap[step.parent].cmd = b.heap[copy.parent].cmd
            /\ a.heap[step.parent].is_wait = b.heap[copy.parent].is_wait
        BY <3>1, <4>1 DEF SameAt
      <4> HIDE DEF step, copy
      <4> QED
        BY <4>2 DEF Runs
    <3>3. CASE ~Runs(a.heap, step.parent)
      <4>1. /\ a.out[i].key = HashKey(None, step.cmd, rank)
            /\ b.out[i].key = HashKey(None, copy.cmd, Rank(Entries(b), i))
        BY <1>7, <1>9, <1>10, <1>13, <3>2, <3>3 DEF KeyFits
      <4> QED
        BY <1>1, <1>4, <1>9, <4>1
    <3>4. CASE Runs(a.heap, step.parent)
      <4>1. PICK k \in Entries(a) :
             /\ StepAt(a, k) = step.parent
             /\ a.out[i].key = HashKey(a.out[k].key, step.cmd, rank)
        BY <1>7, <1>13, <2>2, <3>4 DEF KeyFits
      <4>2. PICK l \in Entries(b) :
             /\ StepAt(b, l) = copy.parent
             /\ b.out[i].key = HashKey(b.out[l].key, copy.cmd, Rank(Entries(b), i))
        BY <1>7, <1>9, <1>10, <1>13, <2>2, <3>2, <3>4 DEF KeyFits
      <4>3. k = l
        <5>4. k \in DOMAIN a.out
          BY <1>1, <4>1
        <5>1. PICK m \in 1 .. n : StepAt(a, k) = a.ordered[m] /\ StepAt(b, k) = b.ordered[m]
          BY <5>4, RebuiltEntries
        <5>2. m = q
          BY <1>1, <3>1, <4>1, <5>1
        <5>3. StepAt(b, k) = StepAt(b, l) /\ k \in DOMAIN b.out /\ l \in DOMAIN b.out
          BY <1>1, <3>1, <4>2, <5>1, <5>2, RebuiltEntries
        <5> QED
          BY <5>3, EntryOfEach
      <4>4. k < i
        BY <1>4, <4>1, ParentInChain
      <4>5. a.out[k].key = b.out[l].key
        BY <1>5, <4>3, <4>4
      <4> QED
        BY <1>1, <1>4, <1>9, <4>1, <4>2, <4>5
    <3> QED
      BY <3>3, <3>4
  <2> QED
    BY <2>1, <2>2
<1> QED
  BY <1>11, <1>12, <1>13

(* The entries below an entry are the same.                                *)
LEMMA RebuiltBelow ==
  ASSUME NEW a, NEW b, RenderFits(a), RenderFits(b), Rebuilt(a, b)
  PROVE  \A i \in Entries(a) : Below(a, i) = Below(b, i)
<1> SUFFICES ASSUME NEW i \in Entries(a), NEW k \in Entries(a)
             PROVE  StepAt(a, k) \in UpFrom(a.heap, StepAt(a, i))
                      <=> StepAt(b, k) \in UpFrom(b.heap, StepAt(b, i))
  BY RebuiltEntries DEF Below, ChainOf
<1>1. i \in DOMAIN a.out /\ k \in DOMAIN a.out
  BY EntryOfEach
<1>2. PICK p \in 1 .. Len(a.heap) : StepAt(a, i) = a.ordered[p] /\ StepAt(b, i) = b.ordered[p]
  BY <1>1, RebuiltEntries
<1>3. PICK q \in 1 .. Len(a.heap) : StepAt(a, k) = a.ordered[q] /\ StepAt(b, k) = b.ordered[q]
  BY <1>1, RebuiltEntries
<1> QED
  BY <1>2, <1>3, RebuiltAncestors

\* The dicts without the identity of their Steps.
SameDicts(d, e) ==
  /\ DOMAIN d = DOMAIN e
  /\ \A i \in DOMAIN d : [d[i] EXCEPT !.step = NoStep] = [e[i] EXCEPT !.step = NoStep]
  /\ \A i \in DOMAIN d : d[i].type = e[i].type
  /\ \A i \in DOMAIN d : d[i].type = "command" =>
       /\ d[i].key = e[i].key /\ d[i].cmd = e[i].cmd /\ d[i].cache = e[i].cache
       /\ d[i].builds_in = e[i].builds_in

(* So are the dicts, apart from the identity of their Steps.               *)
LEMMA RebuiltDicts ==
  ASSUME NEW a, NEW b, RenderFits(a), RenderFits(b), RenderIsRight(a), Rebuilt(a, b)
  PROVE  SameDicts(a.out, b.out)
<1>1. DOMAIN a.out = DOMAIN b.out /\ Entries(a) = Entries(b)
  BY RebuiltEntries
<1>2. ASSUME NEW i \in Entries(a)
      PROVE  \E k, c, m, p : /\ a.out[i] = [type |-> "command", step |-> StepAt(a, i), key |-> k,
                                            cmd |-> c, builds_in |-> p, cache |-> m]
                             /\ b.out[i] = [type |-> "command", step |-> StepAt(b, i), key |-> k,
                                            cmd |-> c, builds_in |-> p, cache |-> m]
  <2>1. EntryFits(a, i) /\ EntryFits(b, i)
    BY <1>1 DEF RenderFits
  <2>2. a.out[i].key = b.out[i].key
    BY RebuiltKeys
  <2>3. /\ a.heap[StepAt(a, i)].cmd = b.heap[StepAt(b, i)].cmd
        /\ a.heap[StepAt(a, i)].cache = b.heap[StepAt(b, i)].cache
    <3>1. i \in DOMAIN a.out
      BY DEF Entries
    <3>2. PICK p \in 1 .. Len(a.heap) : StepAt(a, i) = a.ordered[p] /\ StepAt(b, i) = b.ordered[p]
      BY <3>1, RebuiltEntries
    <3> QED
      BY <3>2 DEF Rebuilt, SameAt
  <2>4. a.out[i].builds_in = b.out[i].builds_in
    <3>1. Below(a, i) = Below(b, i)
      BY RebuiltBelow
    <3>2. CASE Below(a, i) = {}
      BY <2>1, <3>1, <3>2 DEF EntryFits
    <3>3. CASE Below(a, i) # {}
      <4>1. Youngest(Below(a, i)) \in Entries(a)
        BY <3>3 DEF RenderIsRight, ChainStands, Below
      <4>2. a.out[Youngest(Below(a, i))].key = b.out[Youngest(Below(b, i))].key
        BY <3>1, <4>1, RebuiltKeys
      <4> QED
        BY <2>1, <3>1, <3>3, <4>2 DEF EntryFits
    <3> QED
      BY <3>2, <3>3
  <2> QED
    BY <2>1, <2>2, <2>3, <2>4 DEF EntryFits
<1>3. ASSUME NEW i \in DOMAIN a.out, i \notin Entries(a)
      PROVE  /\ a.out[i] = [type |-> "wait", step |-> StepAt(a, i)]
             /\ b.out[i] = [type |-> "wait", step |-> StepAt(b, i)]
  BY <1>1, <1>3 DEF RenderFits, PlacesFit
<1>4. ASSUME NEW i \in DOMAIN a.out
      PROVE  /\ [a.out[i] EXCEPT !.step = NoStep] = [b.out[i] EXCEPT !.step = NoStep]
             /\ a.out[i].type = b.out[i].type
             /\ a.out[i].type = "command" =>
                  /\ a.out[i].key = b.out[i].key /\ a.out[i].cmd = b.out[i].cmd
                  /\ a.out[i].cache = b.out[i].cache /\ a.out[i].builds_in = b.out[i].builds_in
  <2>1. CASE i \in Entries(a)
    <3>1. PICK k, c, m, p : /\ a.out[i] = [type |-> "command", step |-> StepAt(a, i), key |-> k,
                                           cmd |-> c, builds_in |-> p, cache |-> m]
                            /\ b.out[i] = [type |-> "command", step |-> StepAt(b, i), key |-> k,
                                           cmd |-> c, builds_in |-> p, cache |-> m]
      BY <1>2, <2>1
    <3> QED
      BY <3>1
  <2>2. CASE i \notin Entries(a)
    <3>1. /\ a.out[i] = [type |-> "wait", step |-> StepAt(a, i)]
          /\ b.out[i] = [type |-> "wait", step |-> StepAt(b, i)]
      BY <1>3, <2>2
    <3>2. a.out[i].type = "wait" /\ b.out[i].type = "wait"
      BY <3>1
    <3>3. ASSUME NEW u, NEW v
          PROVE  [[type |-> "wait", step |-> u] EXCEPT !.step = NoStep]
                   = [[type |-> "wait", step |-> v] EXCEPT !.step = NoStep]
      OBVIOUS
    <3>4. [a.out[i] EXCEPT !.step = NoStep] = [b.out[i] EXCEPT !.step = NoStep]
      BY <3>1, <3>3
    <3> QED
      BY <3>2, <3>4
  <2> QED
    BY <2>1, <2>2
<1> QED
  BY <1>1, <1>4 DEF SameDicts

(* The cache keys do not look at that identity.                            *)
LEMMA SameDictsSameKeys ==
  ASSUME NEW d, NEW e, SameDicts(d, e)
  PROVE  CacheKeysOf(d) = CacheKeysOf(e)
<1> DEFINE Is(k, doc) == k = [i \in DOMAIN doc |-> KeyAt(k, doc, i)]
<1>1. DOMAIN d = DOMAIN e
  BY DEF SameDicts
<1>2. Keygen!Cached(d) = Keygen!Cached(e) /\ Keygen!Cached(d) \subseteq DOMAIN d
      /\ \A i \in Keygen!Cached(d) : d[i].type = "command"
  BY DEF SameDicts, Keygen!Cached, Keygen!Commands
<1>3. \A i \in Keygen!Cached(d) : /\ d[i].key = e[i].key /\ d[i].cmd = e[i].cmd
                                  /\ d[i].cache = e[i].cache /\ d[i].builds_in = e[i].builds_in
  BY <1>2 DEF SameDicts
<1>4. \A i \in Keygen!Cached(d) : KnownParents(d, i) = KnownParents(e, i)
  BY <1>2, <1>3 DEF KnownParents
<1>5. \A k : \A i \in DOMAIN d : KeyAt(k, d, i) = KeyAt(k, e, i)
  <2> TAKE k
  <2> TAKE i \in DOMAIN d
  <2>1. CASE i \notin Keygen!Cached(d)
    BY <1>2, <2>1 DEF KeyAt
  <2>2. CASE i \in Keygen!Cached(d)
    <3>1. \A p : Keygen!CacheKey(d[i], p, World) = Keygen!CacheKey(e[i], p, World)
      BY <1>3, <2>2 DEF Keygen!CacheKey
    <3>2. KnownParents(d, i) = KnownParents(e, i) /\ d[i].builds_in = e[i].builds_in
      BY <1>3, <1>4, <2>2
    <3> QED
      BY <1>2, <2>2, <3>1, <3>2 DEF KeyAt
  <2> QED
    BY <2>1, <2>2
<1>6. \A k : Is(k, d) <=> Is(k, e)
  <2> TAKE k
  <2>1. [i \in DOMAIN d |-> KeyAt(k, d, i)] = [i \in DOMAIN e |-> KeyAt(k, e, i)]
    BY <1>1, <1>5
  <2> QED
    BY <2>1
<1>7. CacheKeysOf(d) = (CHOOSE k : Is(k, d)) /\ CacheKeysOf(e) = (CHOOSE k : Is(k, e))
  BY DEF CacheKeysOf, KeyAt, KnownParents
<1> HIDE DEF Is
<1>8. (CHOOSE k : Is(k, d)) = (CHOOSE k : Is(k, e))
  BY <1>6
<1> QED
  BY <1>7, <1>8

(* Two recorded renders of one program have one document and one set of    *)
(* cache keys.                                                             *)
LEMMA RendersAgree ==
  ASSUME NEW a, NEW b, RenderFits(a), RenderFits(b), RenderIsRight(a), SameProgram(a, b)
  PROVE  /\ [i \in DOMAIN a.out |-> [a.out[i] EXCEPT !.step = NoStep]]
              = [i \in DOMAIN b.out |-> [b.out[i] EXCEPT !.step = NoStep]]
         /\ a.cacheKey = b.cacheKey
<1>1. SameDicts(a.out, b.out)
  BY SameIsRebuilt, RebuiltDicts
<1>2. a.cacheKey = b.cacheKey
  BY <1>1, SameDictsSameKeys DEF RenderFits
<1>3. /\ DOMAIN a.out = DOMAIN b.out
      /\ \A i \in DOMAIN a.out : [a.out[i] EXCEPT !.step = NoStep] = [b.out[i] EXCEPT !.step = NoStep]
  BY <1>1 DEF SameDicts
<1> QED
  BY <1>2, <1>3

(* What is recorded says all that the two properties ask for.              *)
LEMMA FitKeepsKeys ==
  ASSUME LowInv, DocInv
  PROVE  RebuildKeepsKeys
<1> SUFFICES ASSUME NEW m \in Compared, NEW n \in Compared, SameProgram(renders[m], renders[n])
             PROVE  LET a == renders[m]  b == renders[n] IN
                    /\ [i \in DOMAIN a.out |-> [a.out[i] EXCEPT !.step = NoStep]]
                         = [i \in DOMAIN b.out |-> [b.out[i] EXCEPT !.step = NoStep]]
                    /\ a.cacheKey = b.cacheKey
  BY DEF RebuildKeepsKeys
<1>1. m \in DOMAIN renders /\ n \in DOMAIN renders
  BY DEF Compared
<1>2. RenderFits(renders[m]) /\ RenderFits(renders[n]) /\ RenderIsRight(renders[m])
  BY <1>1 DEF DocInv, LowInv, RendersAreRight
<1> QED
  BY <1>2, RendersAgree

LEMMA FitSurvivesAddition ==
  ASSUME LowInv, DocInv
  PROVE  KeysSurviveAddition
<1> DEFINE a == renders[1]
           b == renders[2]
<1> SUFFICES ASSUME stage = "done", IsPrefix(a.heap, b.heap), NEW i \in Entries(a), NEW j \in Entries(b),
                    StepAt(a, i) = StepAt(b, j), \A k \in ChainOf(a, i) : Undisturbed(a, k, b)
             PROVE  a.out[i].key = b.out[j].key /\ a.cacheKey[i] = b.cacheKey[j]
  BY DEF KeysSurviveAddition
<1>1. 1 \in DOMAIN renders /\ 2 \in DOMAIN renders
  <2>1. renders \in Seq({renders[n] : n \in DOMAIN renders}) /\ Len(renders) = 2
    BY DEF DocInv, LowInv, RendersAreRight
  <2>2. DOMAIN renders = 1 .. 2
    BY <2>1, LenProperties
  <2> QED
    BY <2>2
<1>2. RenderFits(a) /\ RenderFits(b) /\ RenderIsRight(a) /\ RenderIsRight(b)
  BY <1>1 DEF DocInv, LowInv, RendersAreRight
<1> HIDE DEF a, b
<1>3. Extends(a, b)
  BY <1>2, PrefixExtends
<1>4. ChainUndisturbed(a, i, b)
  BY DEF ChainUndisturbed
<1> QED
  BY <1>2, <1>3, <1>4, UndisturbedKeepKeys, UndisturbedKeepSnapshots

-----------------------------------------------------------------------------
(* The places counted grow with the loop.                                  *)
LEMMA CountsGrow ==
  ASSUME NEW h, NEW o, NEW n \in Nat \ {0}
  PROVE  /\ Cardinality(ComPlaces(h, o, n - 1)) \in Nat
         /\ Cardinality(OutPlaces(h, o, n - 1)) \in Nat
         /\ Cardinality(ComPlaces(h, o, n)) =
              IF h[o[n]].cmd # None /\ ~h[o[n]].is_wait THEN Cardinality(ComPlaces(h, o, n - 1)) + 1
              ELSE Cardinality(ComPlaces(h, o, n - 1))
         /\ OutPlaces(h, o, n) =
              IF h[o[n]].cmd # None \/ h[o[n]].is_wait THEN OutPlaces(h, o, n - 1) \cup {n}
              ELSE OutPlaces(h, o, n - 1)
         /\ Cardinality(OutPlaces(h, o, n)) =
              IF h[o[n]].cmd # None \/ h[o[n]].is_wait THEN Cardinality(OutPlaces(h, o, n - 1)) + 1
              ELSE Cardinality(OutPlaces(h, o, n - 1))
<1> DEFINE C == ComPlaces(h, o, n - 1)
           D == OutPlaces(h, o, n - 1)
<1>1. 1 .. n = (1 .. n - 1) \cup {n} /\ n \notin 1 .. n - 1 /\ n - 1 \in Nat
  OBVIOUS
<1>2. ComPlaces(h, o, n) = IF h[o[n]].cmd # None /\ ~h[o[n]].is_wait THEN C \cup {n} ELSE C
  BY <1>1 DEF ComPlaces
<1>3. OutPlaces(h, o, n) = IF h[o[n]].cmd # None \/ h[o[n]].is_wait THEN D \cup {n} ELSE D
  BY <1>1 DEF OutPlaces
<1>4. C \subseteq 1 .. n - 1 /\ D \subseteq 1 .. n - 1
  BY DEF ComPlaces, OutPlaces
<1>5. IsFiniteSet(C) /\ IsFiniteSet(D)
  <2>1. IsFiniteSet(1 .. n - 1)
    BY <1>1, FS_Interval
  <2> HIDE DEF C, D
  <2> QED
    BY <1>4, <2>1, FS_Subset
<1> HIDE DEF C, D
<1>6. Cardinality(C) \in Nat /\ Cardinality(D) \in Nat
  BY <1>5, FS_CardinalityType
<1>7. Cardinality(C \cup {n}) = Cardinality(C) + 1 /\ Cardinality(D \cup {n}) = Cardinality(D) + 1
  <2>1. n \notin C /\ n \notin D
    BY <1>1, <1>4
  <2> QED
    BY <1>5, <2>1, FS_AddElement
<1> QED
  BY <1>2, <1>3, <1>6, <1>7 DEF C, D

(* In front of the first place nothing is counted.                         *)
LEMMA NothingCounted ==
  ASSUME NEW h, NEW o
  PROVE  /\ ComPlaces(h, o, 0) = {} /\ OutPlaces(h, o, 0) = {}
         /\ Cardinality(ComPlaces(h, o, 0)) = 0 /\ Cardinality(OutPlaces(h, o, 0)) = 0
<1>1. ComPlaces(h, o, 0) = {} /\ OutPlaces(h, o, 0) = {}
  BY DEF ComPlaces, OutPlaces
<1> QED
  BY <1>1, FS_EmptySet

(* The parent of a Step the loop has come to has its key, if it gets one.  *)
LEMMA ParentHasKey ==
  ASSUME KeyInv, stage = "resolve", NEW p \in StepIds, p <= at, Parent(ordered[p]) \in CommandSet
  PROVE  Parent(ordered[p]) \in DOMAIN keys
<1>1. ordered \in ParentFirstOrders /\ at \in Nat /\ Len(heap) \in Nat
  BY OrderFacts DEF KeyInv, Enumerated
<1>2. Parent(ordered[p]) # NoStep
  BY DEF CommandSet, StepIds, NoStep
<1>3. PICK j \in 1 .. p - 1 : ordered[j] = Parent(ordered[p])
  BY <1>1, <1>2 DEF ParentFirstOrders
<1>4. j \in 1 .. at - 1
  BY <1>1, <1>3 DEF StepIds
<1>5. Parent(ordered[p]) \in Passed
  BY <1>3, <1>4 DEF Passed
<1> QED
  BY <1>5 DEF KeyInv, Named

(* The loop of the keys skips a Step without one.                          *)
LEMMA SkipKeepsCount ==
  ASSUME KeyInv, HashesCount, SkipKeyless
  PROVE  HashesCount'
<1>1. /\ stage = "resolve" /\ at <= Len(ordered) /\ ~IsCommand(Current) /\ at' = at + 1
      /\ UNCHANGED <<heap, stage, ordered, keys, position>>
  BY DEF SkipKeyless, Resolving
<1>2. at \in Nat \ {0} /\ at' - 1 = at /\ ~(heap[ordered[at]].cmd # None /\ ~heap[ordered[at]].is_wait)
  BY <1>1 DEF KeyInv, Enumerated, IsCommand, IsWait, Current
<1>3. Cardinality(ComPlaces(heap, ordered, at)) = Cardinality(ComPlaces(heap, ordered, at - 1))
  BY <1>2, CountsGrow
<1>4. position' = Cardinality(ComPlaces(heap', ordered', at' - 1))
  BY <1>1, <1>2, <1>3 DEF HashesCount
<1>5. CommandSet' = CommandSet /\ StepIds' = StepIds
  BY <1>1, FrozenForest
<1> QED
  BY <1>1, <1>4, <1>5 DEF HashesCount, HashAt, Parent

(* It assigns a key: `position` is the number of commands in front.        *)
LEMMA AssignKeepsCount ==
  ASSUME KeyInv, HashesCount, NEW key, Assign(key),
         key.by = "hash" => key = HashKey(ParentComponent(Current), heap[Current].cmd, position)
  PROVE  HashesCount'
<1>1. /\ stage = "resolve" /\ at <= Len(ordered) /\ IsCommand(Current) /\ at' = at + 1
      /\ UNCHANGED <<heap, stage, ordered>>
  BY DEF Assign, Resolving
<1>2. /\ Current \in CommandSet /\ Current \notin DOMAIN keys
      /\ DOMAIN keys' = DOMAIN keys \cup {Current}
      /\ keys'[Current] = key
      /\ \A s \in DOMAIN keys : keys'[s] = keys[s]
      /\ position' = position + 1
  BY AssignEffect
<1>3. /\ at \in Nat \ {0} /\ at' - 1 = at
      /\ heap[ordered[at]].cmd # None /\ ~heap[ordered[at]].is_wait
  BY <1>1 DEF KeyInv, Enumerated, IsCommand, IsWait, Current
<1>4. position = Cardinality(ComPlaces(heap, ordered, at - 1))
  BY <1>1 DEF HashesCount
<1>5. position' = Cardinality(ComPlaces(heap', ordered', at' - 1))
  BY <1>1, <1>2, <1>3, <1>4, CountsGrow
<1>6. CommandSet' = CommandSet /\ StepIds' = StepIds /\ \A s : Parent(s)' = Parent(s)
  BY <1>1, FrozenForest DEF Parent
<1>7. /\ at \in StepIds /\ Current = ordered[at] /\ ordered \in ParentFirstOrders
      /\ \A p, q \in StepIds : ordered[p] = ordered[q] => p = q
      /\ Len(heap) \in Nat
  BY <1>1, Advance, OrderFacts DEF KeyInv, Enumerated, Assign
<1>8. ASSUME NEW p \in StepIds, ordered[p] \in DOMAIN keys
      PROVE  p <= at
  <2>1. PICK q \in 1 .. at - 1 : ordered[q] = ordered[p]
    BY <1>1, <1>8 DEF KeyInv, Named, Passed
  <2>2. q \in StepIds
    BY <1>3, <1>7 DEF StepIds
  <2>3. q = p
    BY <1>7, <2>1, <2>2
  <2> QED
    BY <1>3, <2>1, <2>3
<1>9. ASSUME NEW p \in StepIds, ordered[p] \in DOMAIN keys', keys'[ordered[p]].by = "hash"
      PROVE  keys'[ordered[p]] =
               HashKey(IF Parent(ordered[p]) \in CommandSet THEN keys'[Parent(ordered[p])] ELSE None,
                       heap[ordered[p]].cmd, Cardinality(ComPlaces(heap, ordered, p - 1)))
  <2>1. p <= at
    BY <1>2, <1>3, <1>7, <1>8, <1>9
  <2>2. Parent(ordered[p]) \in CommandSet =>
          Parent(ordered[p]) \in DOMAIN keys /\ keys'[Parent(ordered[p])] = keys[Parent(ordered[p])]
    BY <1>1, <1>2, <2>1, ParentHasKey
  <2>3. CASE ordered[p] \in DOMAIN keys
    <3>1. keys'[ordered[p]] = keys[ordered[p]]
      BY <1>2, <2>3
    <3>2. keys[ordered[p]] = HashAt(p)
      BY <1>1, <1>9, <2>3, <3>1 DEF HashesCount, HashAt
    <3> QED
      BY <2>2, <3>1, <3>2 DEF HashAt
  <2>4. CASE ordered[p] = Current
    <3>1. p = at
      BY <1>7, <2>4
    <3>2. keys'[ordered[p]] = HashKey(ParentComponent(Current), heap[Current].cmd, position)
      BY <1>2, <1>9, <2>4
    <3>3. DOMAIN keys \subseteq CommandSet
      BY DEF KeyInv, Named
    <3>4. ParentComponent(Current) =
            IF Parent(ordered[p]) \in CommandSet THEN keys'[Parent(ordered[p])] ELSE None
      BY <2>2, <2>4, <3>3 DEF ParentComponent
    <3> QED
      BY <1>4, <2>4, <3>1, <3>2, <3>4
  <2> QED
    BY <1>2, <1>9, <2>3, <2>4
<1> QED
  BY <1>1, <1>5, <1>6, <1>9 DEF HashesCount, HashAt

(* Once all keys are given they stay.                                      *)
LEMMA KeysStayCounted ==
  ASSUME HashesCount, stage # "build", stage' # "resolve", UNCHANGED <<heap, ordered, keys>>
  PROVE  HashesCount'
<1>1. CommandSet' = CommandSet /\ StepIds' = StepIds
  BY FrozenForest
<1> QED
  BY <1>1 DEF HashesCount, HashAt, Parent

(* The emission of one dict, at the place the loop has come to.            *)
LEMMA EmitKeepsDicts ==
  ASSUME KeyInv, DictsStand, stage = "emit", at <= Len(ordered),
         EmitDict(DictOf(Current)), heap[Current].cmd # None \/ IsWait(Current)
  PROVE  DictsStand'
<1> DEFINE d == DictOf(Current)
           n == Len(out) + 1
           E == EmittedCommands
<1>1. /\ UNCHANGED <<heap, stage, ordered, position, keys, reserved>>
      /\ at' = at + 1
      /\ Len(out) \in Nat /\ Len(out') = n
      /\ DOMAIN out = 1 .. Len(out) /\ DOMAIN out' = 1 .. n
      /\ \A i \in DOMAIN out : out'[i] = out[i]
      /\ out'[n] = d
  BY EmitDictEffect DEF KeyInv
<1>2. d.type = "command" <=> ~IsWait(Current)
  BY DEF DictOf
<1> HIDE DEF d
<1>3. EmittedCommands' = IF IsWait(Current) THEN E ELSE E \cup {n}
  BY <1>2, EmittedCommandsAfter DEF KeyInv, d
<1>4. E \subseteq 1 .. Len(out)
  BY <1>1 DEF EmittedCommands
<1>5. at \in Nat \ {0} /\ at' - 1 = at /\ Current = ordered[at]
  BY <1>1 DEF KeyInv, Enumerated, Current
<1>6. /\ Len(out) = OutIndex(heap, ordered, at - 1)
      /\ Cardinality(E) = Cardinality(ComPlaces(heap, ordered, at - 1))
      /\ \A p \in OutPlaces(heap, ordered, at - 1) : DictStands(p)
      /\ \A i \in DOMAIN out :
           \E p \in OutPlaces(heap, ordered, at - 1) : i = OutIndex(heap, ordered, p)
  BY DEF DictsStand
<1>7. /\ OutPlaces(heap, ordered, at) = OutPlaces(heap, ordered, at - 1) \cup {at}
      /\ OutIndex(heap, ordered, at) = n
      /\ Cardinality(ComPlaces(heap, ordered, at)) =
           IF IsWait(Current) THEN Cardinality(ComPlaces(heap, ordered, at - 1))
           ELSE Cardinality(ComPlaces(heap, ordered, at - 1)) + 1
  <2>1. heap[ordered[at]].cmd # None \/ heap[ordered[at]].is_wait
    BY <1>5 DEF IsWait
  <2>2. (heap[ordered[at]].cmd # None /\ ~heap[ordered[at]].is_wait) <=> ~IsWait(Current)
    BY <1>5 DEF IsWait
  <2> QED
    BY <1>5, <1>6, <2>1, <2>2, CountsGrow DEF OutIndex
<1> HIDE DEF n, E
<1>8. Cardinality(EmittedCommands') = Cardinality(ComPlaces(heap, ordered, at))
  <2>1. IsFiniteSet(E)
    <3>1. Len(out) \in Nat
      BY <1>1
    <3>2. IsFiniteSet(1 .. Len(out))
      BY <3>1, FS_Interval
    <3> QED
      BY <1>4, <3>2, FS_Subset
  <2>2. n \notin E
    BY <1>1, <1>4 DEF n
  <2>3. Cardinality(E \cup {n}) = Cardinality(E) + 1
    BY <2>1, <2>2, FS_AddElement
  <2> QED
    BY <1>3, <1>6, <1>7, <2>3
<1>9. /\ \A i \in 1 .. Len(out) : Rank(EmittedCommands', i) = Rank(E, i)
      /\ Rank(EmittedCommands', n) = Cardinality(E)
  <2>1. ASSUME NEW i \in 1 .. Len(out)
        PROVE  {l \in EmittedCommands' : l < i} = {l \in E : l < i}
    <3>1. ~(n < i)
      BY <1>1 DEF n
    <3> QED
      BY <1>3, <3>1
  <2>2. {l \in EmittedCommands' : l < n} = E
    <3>1. ~(n < n) /\ \A l \in E : l < n
      BY <1>1, <1>4 DEF n
    <3> QED
      BY <1>3, <3>1
  <2> QED
    BY <2>1, <2>2 DEF Rank
<1>10. \A s : DictOf(s)' = DictOf(s)
  <2> TAKE s
  <2>1. CommandAncestors(s)' = CommandAncestors(s)
    BY <1>1, FrozenForest
  <2> QED
    BY <1>1, <2>1 DEF DictOf, ResolvedParentKey, IsWait
<1>11. ASSUME NEW p \in OutPlaces(heap, ordered, at)
       PROVE  DictStands(p)'
  <2> DEFINE i == OutIndex(heap, ordered, p)
  <2>1. CASE p \in OutPlaces(heap, ordered, at - 1)
    <3>1. /\ i \in DOMAIN out /\ out[i] = DictOf(ordered[p])
          /\ Rank(E, i) = Cardinality(ComPlaces(heap, ordered, p - 1))
      BY <1>6, <2>1 DEF DictStands, E
    <3> HIDE DEF i
    <3>2. i \in DOMAIN out' /\ i \in 1 .. Len(out)
      BY <1>1, <3>1 DEF n
    <3>3. out'[i] = DictOf(ordered[p])'
      BY <1>1, <1>10, <3>1
    <3>4. Rank(EmittedCommands', i) = Cardinality(ComPlaces(heap, ordered, p - 1))
      BY <1>9, <3>1, <3>2
    <3> QED
      BY <1>1, <3>2, <3>3, <3>4 DEF DictStands, i
  <2>2. CASE p = at
    <3>1. i = n /\ n \in DOMAIN out'
      BY <1>1, <1>7, <2>2 DEF n
    <3>2. out'[n] = DictOf(ordered[p])'
      BY <1>1, <1>5, <1>10, <2>2 DEF d
    <3>3. Rank(EmittedCommands', n) = Cardinality(ComPlaces(heap, ordered, p - 1))
      BY <1>6, <1>9, <2>2
    <3> QED
      BY <1>1, <3>1, <3>2, <3>3 DEF DictStands
  <2> QED
    BY <1>7, <2>1, <2>2
<1>12. ASSUME NEW i \in DOMAIN out'
       PROVE  \E p \in OutPlaces(heap, ordered, at) : i = OutIndex(heap, ordered, p)
  <2>1. CASE i \in DOMAIN out
    BY <1>6, <1>7, <2>1
  <2>2. CASE i = n
    BY <1>7, <2>2
  <2>3. i \in 1 .. Len(out) \/ i = n
    BY <1>1 DEF n
  <2> QED
    BY <1>1, <2>1, <2>2, <2>3
<1> QED
  BY <1>1, <1>5, <1>7, <1>8, <1>11, <1>12 DEF DictsStand

(* A fork or a scratch is passed over.                                     *)
LEMMA SkipKeepsDicts ==
  ASSUME KeyInv, DictsStand, SkipPassthrough
  PROVE  DictsStand'
<1>1. /\ stage = "emit" /\ at' = at + 1
      /\ UNCHANGED <<heap, stage, ordered, keys, out>>
      /\ ~IsWait(Current) /\ heap[Current].cmd = None
  BY DEF SkipPassthrough, Emitting
<1>2. at \in Nat \ {0} /\ at' - 1 = at /\ Current = ordered[at]
  BY <1>1 DEF KeyInv, Enumerated, Current
<1>3. /\ OutPlaces(heap, ordered, at) = OutPlaces(heap, ordered, at - 1)
      /\ OutIndex(heap, ordered, at) = OutIndex(heap, ordered, at - 1)
      /\ Cardinality(ComPlaces(heap, ordered, at)) = Cardinality(ComPlaces(heap, ordered, at - 1))
  BY <1>1, <1>2, CountsGrow DEF OutIndex, IsWait
<1>4. \A p : DictStands(p) => DictStands(p)'
  <2> TAKE p
  <2>1. \A s : CommandAncestors(s)' = CommandAncestors(s)
    BY <1>1, FrozenForest
  <2> QED
    BY <1>1, <2>1 DEF DictStands, DictOf, ResolvedParentKey, IsWait, EmittedCommands
<1>5. EmittedCommands' = EmittedCommands
  BY <1>1 DEF EmittedCommands
<1> QED
  BY <1>1, <1>2, <1>3, <1>4, <1>5 DEF DictsStand

(* The emission starts with no dict, and ends where the places end.        *)
LEMMA StartKeepsDicts ==
  ASSUME KeyInv, StartEmit
  PROVE  DictsStand'
<1>1. stage = "resolve" /\ stage' = "emit" /\ at' = 1 /\ at' - 1 = 0 /\ out' = out /\ out = <<>>
  BY DEF StartEmit, KeyInv, Emitted
<1>2. DOMAIN out' = {} /\ Len(out') = 0 /\ EmittedCommands' = {}
  BY <1>1, EmptySeq DEF EmittedCommands
<1>3. /\ OutPlaces(heap', ordered', 0) = {} /\ OutIndex(heap', ordered', 0) = 0
      /\ Cardinality(ComPlaces(heap', ordered', 0)) = 0
      /\ Cardinality({}) = 0
  BY NothingCounted, FS_EmptySet DEF OutIndex
<1> QED
  BY <1>1, <1>2, <1>3 DEF DictsStand

LEMMA FinishKeepsDicts ==
  ASSUME KeyInv, DictsStand, FinishLowering
  PROVE  DictsStand'
<1>1. /\ stage = "emit" /\ stage' = "lowered" /\ at > Len(ordered)
      /\ UNCHANGED <<heap, ordered, at, keys, out>>
  BY DEF FinishLowering
<1>2. \A p : DictStands(p) => DictStands(p)'
  <2> TAKE p
  <2>1. \A s : CommandAncestors(s)' = CommandAncestors(s)
    BY <1>1, FrozenForest
  <2> QED
    BY <1>1, <2>1 DEF DictStands, DictOf, ResolvedParentKey, IsWait, EmittedCommands
<1>3. EmittedCommands' = EmittedCommands
  BY <1>1 DEF EmittedCommands
<1> QED
  BY <1>1, <1>2, <1>3 DEF DictsStand

-----------------------------------------------------------------------------
(* A complete render fits its program.                                     *)
LEMMA ForestFits ==
  ASSUME WellFormed
  PROVE  IsForest(heap)
<1>1. heap \in Seq(Step) /\ Len(heap) \in Nat /\ DOMAIN heap = 1 .. Len(heap) /\ StepIds = 1 .. Len(heap)
  BY LenProperties DEF WellFormed, StepIds
<1>2. ASSUME NEW s \in StepIds
      PROVE  /\ heap[s] \in Step /\ heap[s].parent < s
             /\ UpFrom(heap, s) =
                  IF heap[s].parent = NoStep THEN {s} ELSE {s} \cup UpFrom(heap, heap[s].parent)
             /\ UpFrom(heap, s) \subseteq 1 .. s
  <2>1. heap[s] \in Step
    BY <1>1, <1>2, ElementOfSeq
  <2>2. heap[s].parent < s
    <3>1. s \in 1 .. Len(heap)
      BY <1>1
    <3> QED
      BY <1>1, <3>1 DEF WellFormed, Parent, NoStep
  <2>3. UpFrom(heap, s) = Reach({s})
    BY UpFromIsReach
  <2>4. UpFrom(heap, s) \subseteq 1 .. s
    BY <2>3, ReachIsLine
  <2>5. CASE Parent(s) = NoStep
    BY <2>1, <2>2, <2>3, <2>4, <2>5, ReachUnfolds DEF Parent
  <2>6. CASE Parent(s) # NoStep
    <3>1. Parent(s) \in StepIds /\ Reach({s}) = {s} \cup Reach({Parent(s)})
      BY <2>6, ReachUnfolds
    <3>2. UpFrom(heap, Parent(s)) = Reach({Parent(s)})
      BY <3>1, UpFromIsReach
    <3> QED
      BY <2>1, <2>2, <2>3, <2>4, <2>6, <3>1, <3>2 DEF Parent
  <2> QED
    BY <2>5, <2>6
<1> QED
  BY <1>1, <1>2 DEF IsForest

(* The Steps are in some parent-first order.                               *)
LEMMA OrderFits ==
  ASSUME WellFormed, ordered \in ParentFirstOrders
  PROVE  IsEnumeration(heap, ordered)
<1>1. StepIds = 1 .. Len(heap)
  BY DEF StepIds
<1> QED
  BY <1>1, OrderFacts DEF IsEnumeration

\* Everything known of the document when it is complete.
Complete(r) ==
  /\ KeyInv /\ HashesCount /\ DictsStand /\ stage = "lowered"
  /\ r.heap = heap /\ r.ordered = ordered /\ r.out = out

(* The loop has come to its end, so all places are counted.                *)
LEMMA CompletePlaces ==
  ASSUME NEW r, Complete(r)
  PROVE  /\ at - 1 = Len(heap) /\ Len(heap) \in Nat
         /\ ordered \in ParentFirstOrders /\ DOMAIN keys = CommandSet
         /\ DOMAIN out = 1 .. Len(out) /\ Len(out) \in Nat
         /\ Entries(r) = EmittedCommands
         /\ \A p \in OutPlaces(heap, ordered, Len(heap)) : p \in StepIds /\ DictStands(p)
         /\ \A i \in DOMAIN out :
              \E p \in OutPlaces(heap, ordered, Len(heap)) : i = OutIndex(heap, ordered, p)
         /\ \A s \in CommandSet : \E i \in EmittedCommands : out[i].step = s
         /\ \A i \in EmittedCommands : out[i].step \in CommandSet /\ out[i].key = keys[out[i].step]
<1>1. ordered \in ParentFirstOrders /\ DOMAIN keys = CommandSet /\ WellFormed
  BY DEF Complete, KeyInv, Enumerated, Named
<1>2. Len(ordered) = Len(heap) /\ Len(heap) \in Nat /\ StepIds = 1 .. Len(heap)
      /\ \A s \in StepIds : \E i \in StepIds : ordered[i] = s
  BY <1>1, OrderFacts DEF StepIds
<1>3. at - 1 = Len(heap)
  BY <1>2 DEF Complete, DictsStand, KeyInv, Enumerated
<1>4. DOMAIN out = 1 .. Len(out) /\ Len(out) \in Nat
  BY LenProperties DEF Complete, KeyInv, Emitted
<1>5. Entries(r) = EmittedCommands
  BY DEF Complete, Entries, EmittedCommands
<1>6. /\ \A p \in OutPlaces(heap, ordered, Len(heap)) : p \in StepIds /\ DictStands(p)
      /\ \A i \in DOMAIN out :
           \E p \in OutPlaces(heap, ordered, Len(heap)) : i = OutIndex(heap, ordered, p)
  BY <1>2, <1>3 DEF Complete, DictsStand, OutPlaces
<1>7. \A s \in CommandSet : s \in Passed
  BY <1>2, <1>3 DEF Passed, CommandSet
<1>8. /\ \A s \in CommandSet : \E i \in EmittedCommands : out[i].step = s
      /\ \A i \in EmittedCommands : out[i].step \in CommandSet /\ out[i].key = keys[out[i].step]
  BY <1>7 DEF Complete, KeyInv, Emitted
<1> QED
  BY <1>1, <1>2, <1>3, <1>4, <1>5, <1>6, <1>8

(* Every place of a command or wait has its dict, and every dict its       *)
(* place.                                                                  *)
LEMMA DictsFit ==
  ASSUME NEW r, Complete(r)
  PROVE  PlacesFit(r)
<1>1. /\ DOMAIN out = 1 .. Len(out) /\ Len(out) \in Nat
      /\ Entries(r) = EmittedCommands
      /\ \A p \in OutPlaces(heap, ordered, Len(heap)) : DictStands(p)
      /\ \A i \in DOMAIN out :
           \E p \in OutPlaces(heap, ordered, Len(heap)) : i = OutIndex(heap, ordered, p)
  BY CompletePlaces
<1>2. r.heap = heap /\ r.ordered = ordered /\ r.out = out
  BY DEF Complete
<1>3. ASSUME NEW s
      PROVE  DictOf(s).step = s /\ DictOf(s).type = IF IsWait(s) THEN "wait" ELSE "command"
  <2>1. ASSUME NEW k, NEW c, NEW b, NEW m
        PROVE  LET d == [type |-> "command", step |-> s, key |-> k, cmd |-> c, builds_in |-> b, cache |-> m] IN
               d.step = s /\ d.type = "command"
    OBVIOUS
  <2>2. LET d == [type |-> "wait", step |-> s] IN d.step = s /\ d.type = "wait"
    OBVIOUS
  <2> QED
    BY <2>1, <2>2 DEF DictOf
<1>4. ASSUME NEW p \in OutPlaces(heap, ordered, Len(heap))
      PROVE  /\ OutIndex(heap, ordered, p) \in DOMAIN out
             /\ out[OutIndex(heap, ordered, p)].step = ordered[p]
  BY <1>1, <1>3 DEF DictStands
<1>5. ASSUME NEW i \in DOMAIN out
      PROVE  IF heap[out[i].step].is_wait THEN out[i] = [type |-> "wait", step |-> out[i].step]
             ELSE i \in EmittedCommands
  <2>1. PICK p \in OutPlaces(heap, ordered, Len(heap)) : i = OutIndex(heap, ordered, p)
    BY <1>1
  <2>2. out[i] = DictOf(ordered[p])
    BY <1>1, <2>1 DEF DictStands
  <2>3. out[i].step = ordered[p] /\ out[i].type = IF IsWait(ordered[p]) THEN "wait" ELSE "command"
    BY <1>3, <2>2
  <2>4. CASE IsWait(ordered[p])
    BY <2>2, <2>3, <2>4 DEF DictOf, IsWait
  <2>5. CASE ~IsWait(ordered[p])
    BY <2>3, <2>5 DEF IsWait, EmittedCommands
  <2> QED
    BY <2>4, <2>5
<1> QED
  BY <1>1, <1>2, <1>4, <1>5 DEF PlacesFit, StepAt

(* Every entry has its key by the precedence, its hash over the entry of   *)
(* its parent and the commands in front, and its builds_in.                *)
LEMMA EntriesFit ==
  ASSUME NEW r, Complete(r), NEW i \in Entries(r)
  PROVE  EntryFits(r, i)
<1> DEFINE s == out[i].step
           step == heap[s]
<1>1. /\ ordered \in ParentFirstOrders /\ DOMAIN keys = CommandSet
      /\ Entries(r) = EmittedCommands
      /\ \A p \in OutPlaces(heap, ordered, Len(heap)) : p \in StepIds /\ DictStands(p)
      /\ \A k \in DOMAIN out :
           \E p \in OutPlaces(heap, ordered, Len(heap)) : k = OutIndex(heap, ordered, p)
      /\ \A t \in CommandSet : \E k \in EmittedCommands : out[k].step = t
      /\ \A k \in EmittedCommands : out[k].step \in CommandSet /\ out[k].key = keys[out[k].step]
  BY CompletePlaces
<1>2. r.heap = heap /\ r.ordered = ordered /\ r.out = out /\ StepAt(r, i) = s
  BY DEF Complete, StepAt
<1>3. i \in EmittedCommands /\ i \in DOMAIN out /\ out[i].type = "command"
  BY <1>1 DEF EmittedCommands
<1>4. s \in CommandSet /\ out[i].key = keys[s]
  BY <1>1, <1>3
<1>5. Runs(heap, s) /\ ~IsWait(s)
  BY <1>4 DEF CommandSet, IsCommand, IsWait, Runs
<1>6. PICK p \in OutPlaces(heap, ordered, Len(heap)) : i = OutIndex(heap, ordered, p)
  BY <1>1, <1>3
<1>7. /\ p \in StepIds
      /\ out[i] = DictOf(ordered[p])
      /\ Rank(EmittedCommands, i) = Cardinality(ComPlaces(heap, ordered, p - 1))
  BY <1>1, <1>6 DEF DictStands
<1>8. s = ordered[p] /\ out[i] = [type |-> "command", step |-> s, key |-> out[i].key, cmd |-> step.cmd,
                                  builds_in |-> out[i].builds_in, cache |-> step.cache]
  <2>1. ASSUME IsWait(ordered[p])
        PROVE  FALSE
    <3>1. out[i] = [type |-> "wait", step |-> ordered[p]]
      BY <1>7, <2>1 DEF DictOf
    <3>2. out[i].type = "wait"
      BY <3>1
    <3> QED
      BY <1>3, <3>2
  <2>2. PICK q, k, b :
          /\ q = ordered[p]
          /\ out[i] = [type |-> "command", step |-> q, key |-> k, cmd |-> heap[q].cmd,
                       builds_in |-> b, cache |-> heap[q].cache]
    BY <1>7, <2>1 DEF DictOf
  <2>3. out[i].step = q /\ out[i].key = k /\ out[i].builds_in = b
    BY <2>2
  <2> QED
    BY <2>2, <2>3
<1>9. out[i].builds_in = IF Below(r, i) = {} THEN None ELSE out[Youngest(Below(r, i))].key
  <2>1. KeyInv
    BY DEF Complete
  <2> QED
    BY <1>2, <2>1, ChainUnfolds
<1>10. KeyFits(r, i)
  <2>1. /\ NaturalSlug(s) = SlugOf(step)
        /\ ClaimedByOther(s) <=> Contested(heap, s)
    <3>1. \A t : NaturalSlug(t) = SlugOf(heap[t])
      BY DEF NaturalSlug, SlugOf
    <3>2. CommandSet = {t \in 1 .. Len(heap) : Runs(heap, t)}
      BY DEF CommandSet, StepIds, IsCommand, IsWait, Runs
    <3> QED
      BY <3>1, <3>2 DEF ClaimedByOther, Contested
  <2>2. IF Overridden(s) THEN keys[s] = NameKey(step.key_override)
        ELSE IF NaturalSlug(s) # None /\ ~ClaimedByOther(s)
             THEN keys[s] = NameKey(NaturalSlug(s))
             ELSE keys[s].by = "hash"
    BY <1>1, <1>4 DEF Complete, KeyInv, PrecedenceRespected
  <2>3. CASE step.key_override # None
    BY <1>2, <1>4, <2>2, <2>3 DEF Overridden, KeyFits
  <2>4. CASE step.key_override = None /\ SlugOf(step) # None /\ ~Contested(heap, s)
    BY <1>2, <1>4, <2>1, <2>2, <2>4 DEF Overridden, KeyFits
  <2>5. CASE step.key_override = None /\ ~(SlugOf(step) # None /\ ~Contested(heap, s))
    <3> DEFINE rank == Cardinality(ComPlaces(heap, ordered, p - 1))
    <3>1. keys[s].by = "hash"
      BY <2>1, <2>2, <2>5 DEF Overridden
    <3>2. keys[s] = HashKey(IF Parent(s) \in CommandSet THEN keys[Parent(s)] ELSE None, step.cmd, rank)
      BY <1>1, <1>4, <1>7, <1>8, <3>1 DEF Complete, HashesCount, HashAt
    <3>3. Rank(Entries(r), i) = rank
      BY <1>1, <1>7
    <3>4. WellFormed /\ s \in StepIds
      BY <1>4 DEF Complete, KeyInv, CommandSet
    <3>5. Parent(s) \in CommandSet <=> step.parent # NoStep /\ Runs(heap, step.parent)
      <4>1. /\ Parent(s) = step.parent /\ NoStep \notin StepIds
            /\ Parent(s) # NoStep => Parent(s) \in StepIds
        <5>1. Parent(s) = step.parent /\ NoStep \notin StepIds
          BY DEF Parent, NoStep, StepIds
        <5>2. Parent(s) # NoStep => Parent(s) \in StepIds
          BY <3>4, ReachUnfolds
        <5> QED
          BY <5>1, <5>2
      <4> QED
        BY <4>1 DEF CommandSet, IsCommand, IsWait, Runs
    <3> HIDE DEF rank
    <3>6. CASE Parent(s) \in CommandSet
      <4>1. PICK j \in EmittedCommands : out[j].step = Parent(s)
        BY <1>1, <3>6
      <4>2. out[j].key = keys[Parent(s)]
        BY <1>1, <4>1
      <4>3. /\ out[i].key = HashKey(out[j].key, step.cmd, rank)
            /\ StepAt(r, j) = step.parent /\ j \in Entries(r)
        BY <1>1, <1>2, <1>4, <3>2, <3>6, <4>1, <4>2 DEF StepAt, Parent
      <4> QED
        BY <1>2, <2>5, <3>3, <3>5, <3>6, <4>3 DEF KeyFits
    <3>7. CASE Parent(s) \notin CommandSet
      <4>1. out[i].key = HashKey(None, step.cmd, rank)
        BY <1>4, <3>2, <3>7
      <4> QED
        BY <1>2, <2>5, <3>3, <3>5, <3>7, <4>1 DEF KeyFits
    <3> QED
      BY <3>6, <3>7
  <2> QED
    BY <2>3, <2>4, <2>5
<1> QED
  BY <1>2, <1>5, <1>8, <1>9, <1>10 DEF EntryFits

(* So what resolve_pipeline_keys records fits.                             *)
LEMMA DocumentFits ==
  ASSUME NEW r, Complete(r), r.cacheKey = CacheKeysOf(out)
  PROVE  RenderFits(r)
<1>1. WellFormed /\ ordered \in ParentFirstOrders
  BY DEF Complete, KeyInv, Enumerated
<1>2. IsForest(r.heap) /\ IsEnumeration(r.heap, r.ordered)
  BY <1>1, ForestFits, OrderFits DEF Complete
<1> QED
  BY <1>2, DictsFit, EntriesFit DEF RenderFits, Complete

-----------------------------------------------------------------------------
(* The invariant of the documents is kept by every step.                   *)
LEMMA InitFits == LoweringInit => DocInv
<1> SUFFICES ASSUME LoweringInit
             PROVE  DocInv
  OBVIOUS
<1>1. stage = "build" /\ DOMAIN renders = {}
  BY EmptySeq DEF LoweringInit, KeyInit
<1> QED
  BY <1>1 DEF DocInv, HashesCount, DictsStand

(* While the Steps are written there is nothing to keep but what is        *)
(* recorded.                                                               *)
LEMMA ResetKeepsFits ==
  ASSUME DocInv, stage' = "build", UNCHANGED renders
  PROVE  DocInv'
  BY DEF DocInv, HashesCount, DictsStand

(* A render starts with nothing counted.                                   *)
LEMMA StartKeepsFits ==
  ASSUME LowInv, DocInv, StartRender
  PROVE  DocInv'
<1>1. stage = "build" /\ stage' = "resolve" /\ UNCHANGED <<heap, at, position, keys, renders>>
  BY DEF StartRender, StartResolve
<1>2. at = 1 /\ position = 0 /\ DOMAIN keys = {}
  BY <1>1, EmptySeq DEF LowInv, KeyInv, Idle
<1>3. HashesCount'
  <2>1. at' - 1 = 0 /\ position' = 0 /\ DOMAIN keys' = {}
    BY <1>1, <1>2
  <2>2. Cardinality(ComPlaces(heap', ordered', 0)) = 0
    BY NothingCounted
  <2> QED
    BY <1>1, <2>1, <2>2 DEF HashesCount
<1>4. DictsStand'
  BY <1>1 DEF DictsStand
<1> QED
  BY <1>1, <1>3, <1>4 DEF DocInv

(* One turn of a loop, or from one loop to the next.                       *)
LEMMA PassKeepsFits ==
  ASSUME LowInv, DocInv, Pass
  PROVE  DocInv'
<1>1. /\ stage \in {"resolve", "emit"} /\ stage' \in {"resolve", "emit", "lowered"}
      /\ stage = "emit" => stage' # "resolve"
      /\ stage = "resolve" /\ stage' = "resolve" => Resolve
      /\ UNCHANGED <<heap, ordered, renders>>
  BY DEF Pass, Resolve, SkipKeyless, UseOverride, UseSlug, UseHash, Assign, Resolving, StartEmit,
         Emit, EmitWait, SkipPassthrough, EmitCommand, EmitDict, Emitting, FinishLowering
<1>2. KeyInv /\ HashesCount /\ DictsStand
  BY <1>1 DEF LowInv, DocInv
<1>3. CASE Resolve
  <2>1. stage = "resolve" /\ stage' = "resolve"
    BY <1>3 DEF Resolve, SkipKeyless, UseOverride, UseSlug, UseHash, Assign, Resolving
  <2>2. DictsStand'
    BY <2>1 DEF DictsStand
  <2>3. ASSUME SkipKeyless PROVE HashesCount'
    BY <1>2, <2>3, SkipKeepsCount
  <2>4. ASSUME UseOverride PROVE HashesCount'
    <3> DEFINE key == NameKey(heap[Current].key_override)
    <3>1. Assign(key) /\ key.by # "hash"
      BY <2>4 DEF UseOverride, NameKey
    <3> HIDE DEF key
    <3> QED
      BY <1>2, <3>1, AssignKeepsCount
  <2>5. ASSUME UseSlug PROVE HashesCount'
    <3> DEFINE key == NameKey(NaturalSlug(Current))
    <3>1. Assign(key) /\ key.by # "hash"
      BY <2>5 DEF UseSlug, NameKey
    <3> HIDE DEF key
    <3> QED
      BY <1>2, <3>1, AssignKeepsCount
  <2>6. ASSUME UseHash PROVE HashesCount'
    <3>1. Assign(HashKey(ParentComponent(Current), heap[Current].cmd, position))
      BY <2>6 DEF UseHash
    <3> QED
      BY <1>2, <3>1, AssignKeepsCount
  <2>7. HashesCount'
    BY <1>3, <2>3, <2>4, <2>5, <2>6 DEF Resolve
  <2> QED
    BY <1>1, <2>1, <2>2, <2>7 DEF DocInv
<1>4. CASE StartEmit \/ Emit \/ FinishLowering
  <2>1. stage' # "resolve" /\ UNCHANGED keys
    BY <1>4 DEF StartEmit, Emit, EmitWait, SkipPassthrough, EmitCommand, EmitDict, Emitting, FinishLowering
  <2>2. HashesCount'
    BY <1>1, <1>2, <2>1, KeysStayCounted
  <2>3. ASSUME StartEmit PROVE DictsStand'
    BY <1>2, <2>3, StartKeepsDicts
  <2>4. ASSUME EmitWait PROVE DictsStand'
    <3>1. /\ stage = "emit" /\ at <= Len(ordered) /\ IsWait(Current)
          /\ EmitDict(DictOf(Current))
      BY <2>4 DEF EmitWait, Emitting, DictOf
    <3> QED
      BY <1>2, <3>1, EmitKeepsDicts
  <2>5. ASSUME EmitCommand PROVE DictsStand'
    <3>1. /\ stage = "emit" /\ at <= Len(ordered) /\ heap[Current].cmd # None
          /\ EmitDict(DictOf(Current))
      BY <2>5 DEF EmitCommand, Emitting, DictOf, IsCommand
    <3> QED
      BY <1>2, <3>1, EmitKeepsDicts
  <2>6. ASSUME SkipPassthrough PROVE DictsStand'
    BY <1>2, <2>6, SkipKeepsDicts
  <2>7. ASSUME FinishLowering PROVE DictsStand'
    BY <1>2, <2>7, FinishKeepsDicts
  <2>8. DictsStand'
    BY <1>4, <2>3, <2>4, <2>5, <2>6, <2>7 DEF Emit
  <2> QED
    BY <1>1, <2>2, <2>8 DEF DocInv
<1> QED
  BY <1>3, <1>4 DEF Pass

(* The document is complete and recorded.                                  *)
LEMMA KeyDocumentKeepsFits ==
  ASSUME LowInv, DocInv, KeyDocument
  PROVE  DocInv'
<1> DEFINE r == [heap |-> heap, ordered |-> ordered, out |-> out, cacheKey |-> CacheKeysOf(out)]
<1>1. /\ stage = "lowered" /\ Len(renders) < 2 /\ renders' = Append(renders, r)
      /\ stage' = IF renders = <<>> THEN "edit" ELSE "done"
  BY DEF KeyDocument
<1>2. r.heap = heap /\ r.ordered = ordered /\ r.out = out /\ r.cacheKey = CacheKeysOf(out)
  OBVIOUS
<1> HIDE DEF r
<1>3. Complete(r)
  BY <1>1, <1>2 DEF Complete, LowInv, DocInv
<1>4. RenderFits(r)
  BY <1>2, <1>3, DocumentFits
<1>5. renders \in Seq({renders[n] : n \in DOMAIN renders})
  BY DEF LowInv, RendersAreRight
<1>6. /\ DOMAIN renders = 1 .. Len(renders) /\ DOMAIN renders' = 1 .. Len(renders) + 1
      /\ Len(renders) \in Nat /\ Len(renders') = Len(renders) + 1
      /\ \A n \in DOMAIN renders : renders'[n] = renders[n]
      /\ renders'[Len(renders) + 1] = r
  BY <1>1, <1>5, AppendFacts
<1>7. \A n \in DOMAIN renders' : RenderFits(renders'[n])
  <2>1. \A n \in DOMAIN renders' : n \in DOMAIN renders \/ n = Len(renders) + 1
    BY <1>6
  <2> QED
    BY <1>4, <1>6, <2>1 DEF DocInv
<1>8. stage' = "done" => Len(renders') = 2
  <2>1. renders # <<>> => Len(renders) # 0
    BY <1>5, EmptySeq
  <2> QED
    BY <1>1, <1>6, <2>1
<1> QED
  BY <1>1, <1>7, <1>8 DEF DocInv

(* Nothing happens.                                                        *)
LEMMA StutterKeepsFits ==
  ASSUME DocInv, UNCHANGED lowVars
  PROVE  DocInv'
<1>1. UNCHANGED <<heap, stage, ordered, at, position, keys, reserved, out, renders>>
  BY DEF lowVars, keyVars
<1>2. /\ CommandSet' = CommandSet /\ StepIds' = StepIds
      /\ \A s : CommandAncestors(s)' = CommandAncestors(s)
  BY <1>1, FrozenForest
<1>3. HashesCount => HashesCount'
  BY <1>1, <1>2 DEF HashesCount, HashAt, Parent
<1>4. EmittedCommands' = EmittedCommands
  BY <1>1 DEF EmittedCommands
<1>5. \A p : DictStands(p) => DictStands(p)'
  BY <1>1, <1>2, <1>4 DEF DictStands, DictOf, ResolvedParentKey, IsWait
<1>6. DictsStand => DictsStand'
  BY <1>1, <1>4, <1>5 DEF DictsStand
<1> QED
  BY <1>1, <1>3, <1>6 DEF DocInv

(* Both invariants hold in every reachable state.                          *)
LEMMA DocumentsInvariant == NoneIsNoKey /\ LoweringSpec => [](LowInv /\ DocInv)
<1>1. LoweringInit => DocInv
  BY InitFits
<1>2. LowInv /\ DocInv /\ [LoweringNext]_lowVars => DocInv'
  <2> SUFFICES ASSUME LowInv, DocInv, [LoweringNext]_lowVars
               PROVE  DocInv'
    OBVIOUS
  <2>1. CASE WriteStep
    <3>1. stage' = "build" /\ UNCHANGED renders
      BY <2>1 DEF WriteStep, kvars
    <3> QED
      BY <3>1, ResetKeepsFits
  <2>2. CASE StartRender
    BY <2>2, StartKeepsFits
  <2>3. CASE Pass
    BY <2>3, PassKeepsFits
  <2>4. CASE KeyDocument
    BY <2>4, KeyDocumentKeepsFits
  <2>5. CASE Edit
    <3>1. stage' = "build" /\ UNCHANGED renders
      BY <2>5 DEF Edit
    <3> QED
      BY <3>1, ResetKeepsFits
  <2>6. CASE UNCHANGED lowVars
    BY <2>6, StutterKeepsFits
  <2> QED
    BY <2>1, <2>2, <2>3, <2>4, <2>5, <2>6 DEF LoweringNext, Done
<1> QED
  BY <1>1, <1>2, LoweringInvariant, PTL DEF LoweringSpec

(***************************************************************************)
(* Renders are reproducible: the same Steps in the same order give the     *)
(* same dicts and the same cache keys, in whatever order and whatever      *)
(* process they were built; only their identity differs.                   *)
(***************************************************************************)
THEOREM RebuildingKeepsKeys == NoneIsNoKey /\ LoweringSpec => []RebuildKeepsKeys
<1>1. LowInv /\ DocInv => RebuildKeepsKeys
  BY FitKeepsKeys
<1> QED
  BY <1>1, DocumentsInvariant, PTL

(***************************************************************************)
(* A Step added to a pipeline leaves alone the key and the snapshot of     *)
(* every entry whose chain is named by names nobody else lays claim to, or *)
(* by hashes that stand behind as many commands as before.                 *)
(***************************************************************************)
THEOREM AdditionsKeepKeys == NoneIsNoKey /\ LoweringSpec => []KeysSurviveAddition
<1>1. LowInv /\ DocInv => KeysSurviveAddition
  BY FitSurvivesAddition
<1> QED
  BY <1>1, DocumentsInvariant, PTL
=============================================================================
