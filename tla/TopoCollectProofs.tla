-------------------------- MODULE TopoCollectProofs --------------------------
(***************************************************************************)
(* Proofs about TopoCollect, for any number of Steps and leaves: the       *)
(* result is parent-first, duplicates nothing but waits, holds what the    *)
(* leaves reach, and is the value of the function Collected.               *)
(***************************************************************************)
EXTENDS TopoCollect, StepChainProofs, WellFoundedInduction

-----------------------------------------------------------------------------
(* Facts about the sequences the loops work on.                            *)

LEMMA AppendFacts ==
  ASSUME NEW T, NEW s \in Seq(T), NEW e \in T
  PROVE  /\ Append(s, e) \in Seq(T)
         /\ Len(s) \in Nat /\ Len(Append(s, e)) = Len(s) + 1
         /\ DOMAIN s = 1 .. Len(s) /\ DOMAIN Append(s, e) = 1 .. Len(s) + 1
         /\ \A i \in 1 .. Len(s) : Append(s, e)[i] = s[i]
         /\ Append(s, e)[Len(s) + 1] = e
         /\ ElementsOf(Append(s, e)) = ElementsOf(s) \cup {e}
         /\ LastOf(Append(s, e)) = e
<1>1. /\ Append(s, e) \in Seq(T)
      /\ Len(s) \in Nat /\ Len(Append(s, e)) = Len(s) + 1
      /\ DOMAIN s = 1 .. Len(s) /\ DOMAIN Append(s, e) = 1 .. Len(s) + 1
      /\ \A i \in 1 .. Len(s) : Append(s, e)[i] = s[i]
      /\ Append(s, e)[Len(s) + 1] = e
  BY AppendProperties, LenProperties
<1>2. ElementsOf(Append(s, e)) = ElementsOf(s) \cup {e}
  BY <1>1 DEF ElementsOf
<1>3. LastOf(Append(s, e)) = e
  BY <1>1 DEF LastOf
<1> QED
  BY <1>1, <1>2, <1>3

LEMMA FrontFacts ==
  ASSUME NEW T, NEW s \in Seq(T), s # <<>>
  PROVE  /\ FrontOf(s) \in Seq(T)
         /\ Len(s) \in Nat \ {0} /\ Len(FrontOf(s)) = Len(s) - 1
         /\ DOMAIN s = 1 .. Len(s) /\ DOMAIN FrontOf(s) = 1 .. Len(s) - 1
         /\ \A i \in 1 .. Len(s) - 1 : FrontOf(s)[i] = s[i]
         /\ LastOf(s) \in T /\ LastOf(s) = s[Len(s)]
         /\ ElementsOf(s) = ElementsOf(FrontOf(s)) \cup {LastOf(s)}
<1>1. /\ Len(s) \in Nat \ {0} /\ DOMAIN s = 1 .. Len(s)
  BY LenProperties, EmptySeq
<1>2. /\ FrontOf(s) \in Seq(T)
      /\ Len(FrontOf(s)) = Len(s) - 1
      /\ \A i \in 1 .. Len(s) - 1 : FrontOf(s)[i] = s[i]
  <2>1. 1 \in 1 .. Len(s) + 1 /\ Len(s) - 1 \in 0 .. Len(s)
    BY <1>1
  <2> QED
    BY <1>1, <2>1, SubSeqProperties DEF FrontOf
<1>3. DOMAIN FrontOf(s) = 1 .. Len(s) - 1
  BY <1>1, <1>2, LenProperties
<1>4. LastOf(s) \in T /\ LastOf(s) = s[Len(s)]
  BY <1>1, ElementOfSeq DEF LastOf
<1>5. ElementsOf(s) = ElementsOf(FrontOf(s)) \cup {LastOf(s)}
  BY <1>1, <1>2, <1>3, <1>4 DEF ElementsOf
<1> QED
  BY <1>1, <1>2, <1>3, <1>4, <1>5

-----------------------------------------------------------------------------
(***************************************************************************)
(* The inductive invariant.  The chain of the leaf at hand is linked by    *)
(* `parent`; while it is climbed, `node` is where it goes on; once it is   *)
(* being emitted, what is missing below it has been seen.                  *)
(***************************************************************************)
Unstarted ==
  /\ pc = "build" => /\ leaves = <<>> /\ at = 1 /\ chain = <<>>
                     /\ seen = {} /\ ordered = <<>>
  /\ pc \notin {"build", "rejected"} => leaves # <<>>

ChainLinked ==
  /\ \A j \in 1 .. Len(chain) - 1 : Parent(chain[j]) = chain[j + 1]
  /\ pc = "climb" /\ chain # <<>> => node = Parent(LastOf(chain))
  /\ pc = "emit" /\ chain # <<>> =>
       Parent(LastOf(chain)) = NoStep \/ Parent(LastOf(chain)) \in seen
  /\ pc \notin {"climb", "emit"} => chain = <<>>

SeenEmitted ==
  /\ seen \subseteq ElementsOf(ordered)
  /\ ParentClosed(seen)
  /\ \A i \in DOMAIN ordered : ordered[i] \in seen \/ IsWait(ordered[i])

\* Nothing the leaves do not reach is ever held.
Needed == Reach(ElementsOf(leaves))
HoldsNeeded ==
  /\ ElementsOf(ordered) \subseteq Needed
  /\ ElementsOf(chain) \subseteq Needed
  /\ pc = "climb" => node \in Needed \cup {NoStep}

\* The leaves before `at` are out; the leaf at hand is in the chain, or seen.
LeavesCovered ==
  /\ pc \in {"climb", "emit"} => at \in DOMAIN leaves
  /\ \A j \in DOMAIN leaves : j < at => leaves[j] \in ElementsOf(ordered)
  /\ pc = "climb" => IF chain = <<>> THEN node = leaves[at] ELSE chain[1] = leaves[at]
  /\ pc = "emit" => IF chain = <<>> THEN leaves[at] \in seen ELSE chain[1] = leaves[at]

TopoInv ==
  /\ TopoTypeOK /\ Unstarted /\ ChainLinked /\ SeenEmitted
  /\ HoldsNeeded /\ LeavesCovered /\ ParentFirst /\ EmittedOnce /\ Complete

-----------------------------------------------------------------------------
(* What does not change while the loops run.                               *)
LEMMA SameForest ==
  ASSUME TopoTypeOK, UNCHANGED <<heap, leaves>>
  PROVE  /\ WellFormed' /\ StepIds' = StepIds /\ Needed' = Needed
         /\ \A s : Parent(s)' = Parent(s) /\ IsWait(s)' = IsWait(s)
<1>1. StepIds' = StepIds
  BY DEF StepIds
<1>2. WellFormed'
  BY DEF TopoTypeOK, WellFormed, StepIds, Parent, IsWait
<1>3. Needed' = Needed
  BY DEF Needed, Reach, ParentClosed, StepIds, Parent, ElementsOf
<1>4. \A s : Parent(s)' = Parent(s) /\ IsWait(s)' = IsWait(s)
  BY DEF Parent, IsWait
<1> QED
  BY <1>1, <1>2, <1>3, <1>4

LEMMA StepTypes ==
  ASSUME WellFormed, NEW s \in StepIds
  PROVE  /\ s \in Nat \ {0} /\ Parent(s) \in Nat /\ Parent(s) < s
         /\ Parent(s) \in StepIds \cup {NoStep}
         /\ IsWait(s) => Parent(s) = NoStep
<1>1. heap \in Seq(Step) /\ Len(heap) \in Nat /\ heap[s] \in Step
  BY LenProperties, ElementOfSeq DEF WellFormed, StepIds
<1> QED
  BY <1>1 DEF WellFormed, StepIds, Parent, Step, NoStep

LEMMA InitInv == TopoInit => TopoInv
<1> SUFFICES ASSUME TopoInit
             PROVE  TopoInv
  OBVIOUS
<1>0. /\ heap = <<>> /\ leaves = <<>> /\ pc = "build" /\ at = 1 /\ chain = <<>>
      /\ node = NoStep /\ seen = {} /\ ordered = <<>>
  BY DEF TopoInit, BuildInit
<1>1. WellFormed
  BY <1>0, EmptySeq DEF WellFormed, StepIds
<1>2. TopoTypeOK
  BY <1>0, <1>1, EmptySeq DEF TopoTypeOK
<1>3. DOMAIN ordered = {} /\ DOMAIN leaves = {} /\ Len(chain) = 0
      /\ ElementsOf(ordered) = {} /\ ElementsOf(chain) = {}
  BY <1>0, EmptySeq DEF ElementsOf
<1>4. Unstarted /\ ParentFirst /\ EmittedOnce /\ Complete
  BY <1>0, <1>3 DEF Unstarted, ParentFirst, EmittedOnce, Complete
<1>5. ChainLinked /\ SeenEmitted
  BY <1>0, <1>3 DEF ChainLinked, SeenEmitted, ParentClosed
<1>6. HoldsNeeded /\ LeavesCovered
  BY <1>0, <1>3 DEF HoldsNeeded, LeavesCovered
<1> QED
  BY <1>2, <1>4, <1>5, <1>6 DEF TopoInv

(* User code builds while nothing has been collected.                      *)
LEMMA BuildKeepsInv ==
  ASSUME TopoInv, BuildStep
  PROVE  TopoInv'
<1>0. /\ leaves = <<>> /\ pc = "build" /\ at = 1 /\ chain = <<>>
      /\ seen = {} /\ ordered = <<>>
      /\ UNCHANGED <<leaves, pc, at, chain, node, seen, ordered>>
  BY DEF TopoInv, Unstarted, BuildStep, tvars
<1>1. WellFormed'
  BY BuildWellFormed DEF TopoInv, TopoTypeOK, BuildStep
<1>2. StepIds \subseteq StepIds'
  <2>1. heap \in Seq(Step) /\ heap' \in Seq(Step)
    BY <1>1 DEF TopoInv, TopoTypeOK, WellFormed
  <2>2. \E step : heap' = Append(heap, step)
    BY DEF BuildStep, Build, Scratch, BaseImage, Wait, Sh, Fork, Alloc
  <2>3. Len(heap') = Len(heap) + 1 /\ Len(heap) \in Nat
    BY <2>1, <2>2, LenProperties
  <2> QED
    BY <2>3 DEF StepIds
<1>3. TopoTypeOK'
  BY <1>0, <1>1, <1>2, EmptySeq DEF TopoInv, TopoTypeOK
<1>4. DOMAIN ordered' = {} /\ DOMAIN leaves' = {} /\ Len(chain') = 0
      /\ ElementsOf(ordered') = {} /\ ElementsOf(chain') = {}
  BY <1>0, EmptySeq DEF ElementsOf
<1>5. Unstarted' /\ ParentFirst' /\ EmittedOnce' /\ Complete'
  BY <1>0, <1>4 DEF Unstarted, ParentFirst, EmittedOnce, Complete
<1>6. ChainLinked' /\ SeenEmitted'
  BY <1>0, <1>4 DEF ChainLinked, SeenEmitted, ParentClosed
<1>7. HoldsNeeded' /\ LeavesCovered'
  BY <1>0, <1>4 DEF HoldsNeeded, LeavesCovered
<1> QED
  BY <1>3, <1>5, <1>6, <1>7 DEF TopoInv

(* The call hands over the leaves; nothing is collected yet.               *)
LEMMA CallKeepsInv ==
  ASSUME TopoInv, CallPipeline
  PROVE  TopoInv'
<1>0. /\ pc = "build" /\ at = 1 /\ chain = <<>> /\ seen = {} /\ ordered = <<>>
      /\ leaves' \in LeafTuples /\ pc' = "leaf"
      /\ UNCHANGED <<heap, at, chain, node, seen, ordered>>
  BY DEF TopoInv, Unstarted, CallPipeline
<1>1. leaves' \in Seq(StepIds)
  <2>1. PICK n \in 1 .. MaxLeaves : leaves' \in [1 .. n -> StepIds]
    BY <1>0 DEF LeafTuples
  <2>2. n \in Nat
    BY <2>1, MaxLeavesIsNat
  <2> QED
    BY <2>1, <2>2
<1>9. leaves' # <<>>
  <2>1. PICK n \in 1 .. MaxLeaves : leaves' \in [1 .. n -> StepIds]
    BY <1>0 DEF LeafTuples
  <2>2. 1 \in DOMAIN leaves'
    BY <2>1, MaxLeavesIsNat
  <2> QED
    BY <2>2
<1>2. StepIds' = StepIds /\ WellFormed'
  BY <1>0 DEF TopoInv, TopoTypeOK, WellFormed, StepIds, Parent, IsWait
<1>3. TopoTypeOK'
  BY <1>0, <1>1, <1>2 DEF TopoInv, TopoTypeOK
<1>4. DOMAIN ordered' = {} /\ Len(chain') = 0
      /\ ElementsOf(ordered') = {} /\ ElementsOf(chain') = {}
  BY <1>0, EmptySeq DEF ElementsOf
<1>5. Unstarted' /\ ParentFirst' /\ EmittedOnce' /\ Complete'
  BY <1>0, <1>4, <1>9 DEF Unstarted, ParentFirst, EmittedOnce, Complete
<1>6. ChainLinked' /\ SeenEmitted'
  BY <1>0, <1>4 DEF ChainLinked, SeenEmitted, ParentClosed
<1>7. HoldsNeeded'
  BY <1>0, <1>4 DEF HoldsNeeded
<1>8. LeavesCovered'
  <2>1. DOMAIN leaves' = 1 .. Len(leaves') /\ Len(leaves') \in Nat
    BY <1>1, LenProperties
  <2> QED
    BY <1>0, <2>1 DEF LeavesCovered
<1> QED
  BY <1>3, <1>5, <1>6, <1>7, <1>8 DEF TopoInv

LEMMA RejectKeepsInv ==
  ASSUME TopoInv, RejectNoLeaves
  PROVE  TopoInv'
<1>0. /\ pc = "build" /\ pc' = "rejected"
      /\ UNCHANGED <<heap, leaves, at, chain, node, seen, ordered>>
  BY DEF RejectNoLeaves
<1>1. TopoTypeOK'
  BY <1>0, SameForest DEF TopoInv, TopoTypeOK
<1>2. Unstarted' /\ ChainLinked' /\ Complete'
  BY <1>0, SameForest DEF TopoInv, Unstarted, ChainLinked, Complete
<1>3. SeenEmitted' /\ HoldsNeeded' /\ LeavesCovered'
  BY <1>0, SameForest DEF TopoInv, SeenEmitted, ParentClosed, HoldsNeeded, LeavesCovered,
                          ElementsOf
<1>4. ParentFirst' /\ EmittedOnce'
  BY <1>0, SameForest DEF TopoInv, ParentFirst, EmittedOnce
<1> QED
  BY <1>1, <1>2, <1>3, <1>4 DEF TopoInv

(* A wait leaf has no parent and lies on no chain: it may be appended      *)
(* anywhere.                                                               *)
LEMMA EmitWaitLeafKeepsInv ==
  ASSUME TopoInv, EmitWaitLeaf
  PROVE  TopoInv'
<1> DEFINE w == leaves[at]
<1>0. /\ pc = "leaf" /\ at <= Len(leaves) /\ IsWait(w)
      /\ ordered' = Append(ordered, w) /\ at' = at + 1
      /\ UNCHANGED <<heap, leaves, pc, chain, node, seen>>
  BY DEF EmitWaitLeaf
<1>1. /\ TopoTypeOK /\ WellFormed /\ chain = <<>>
      /\ leaves \in Seq(StepIds) /\ ordered \in Seq(StepIds) /\ at \in Nat \ {0}
  BY <1>0 DEF TopoInv, TopoTypeOK, ChainLinked
<1>2. /\ DOMAIN leaves = 1 .. Len(leaves) /\ Len(leaves) \in Nat
      /\ at \in DOMAIN leaves /\ w \in StepIds /\ w \in ElementsOf(leaves)
  <2>1. DOMAIN leaves = 1 .. Len(leaves) /\ Len(leaves) \in Nat
    BY <1>1, LenProperties
  <2>2. at \in 1 .. Len(leaves)
    BY <1>0, <1>1, <2>1
  <2> QED
    BY <1>1, <2>1, <2>2, ElementOfSeq DEF ElementsOf
<1>3. Parent(w) = NoStep
  BY <1>0, <1>1, <1>2, StepTypes
<1>4. w \in Needed
  <2>1. ElementsOf(leaves) \subseteq StepIds
    BY <1>1, <1>2, ElementOfSeq DEF ElementsOf
  <2> QED
    BY <1>2, <2>1, ReachHolds DEF Needed
<1> HIDE DEF w
<1>5. /\ ordered' \in Seq(StepIds) /\ Len(ordered) \in Nat
      /\ DOMAIN ordered = 1 .. Len(ordered) /\ DOMAIN ordered' = 1 .. Len(ordered) + 1
      /\ \A i \in 1 .. Len(ordered) : ordered'[i] = ordered[i]
      /\ ordered'[Len(ordered) + 1] = w
      /\ ElementsOf(ordered') = ElementsOf(ordered) \cup {w}
  BY <1>0, <1>1, <1>2, AppendFacts
<1>6. /\ WellFormed' /\ StepIds' = StepIds /\ Needed' = Needed
      /\ \A s : Parent(s)' = Parent(s) /\ IsWait(s)' = IsWait(s)
  BY <1>0, <1>1, SameForest
<1>7. TopoTypeOK'
  BY <1>0, <1>1, <1>5, <1>6 DEF TopoTypeOK
<1>8. Unstarted' /\ ChainLinked' /\ Complete'
  BY <1>0, <1>1, EmptySeq DEF TopoInv, Unstarted, ChainLinked, Complete
<1>9. SeenEmitted'
  BY <1>0, <1>5, <1>6 DEF TopoInv, SeenEmitted, ParentClosed
<1>10. HoldsNeeded'
  BY <1>0, <1>4, <1>5, <1>6 DEF TopoInv, HoldsNeeded, ElementsOf
<1>11. LeavesCovered'
  <2>1. \A j \in DOMAIN leaves : j < at + 1 => leaves[j] \in ElementsOf(ordered')
    BY <1>1, <1>2, <1>5 DEF TopoInv, LeavesCovered, w
  <2> QED
    BY <1>0, <2>1 DEF LeavesCovered
<1>12. ParentFirst'
  BY <1>0, <1>3, <1>5, <1>6 DEF TopoInv, ParentFirst
<1>13. EmittedOnce'
  BY <1>0, <1>5, <1>6 DEF TopoInv, EmittedOnce
<1> QED
  BY <1>7, <1>8, <1>9, <1>10, <1>11, <1>12, <1>13 DEF TopoInv

LEMMA StartChainKeepsInv ==
  ASSUME TopoInv, StartChain
  PROVE  TopoInv'
<1>0. /\ pc = "leaf" /\ at <= Len(leaves) /\ node' = leaves[at] /\ pc' = "climb"
      /\ UNCHANGED <<heap, leaves, at, chain, seen, ordered>>
  BY DEF StartChain
<1>1. /\ TopoTypeOK /\ chain = <<>> /\ leaves \in Seq(StepIds) /\ at \in Nat \ {0}
  BY <1>0 DEF TopoInv, TopoTypeOK, ChainLinked
<1>2. /\ DOMAIN leaves = 1 .. Len(leaves) /\ Len(leaves) \in Nat
      /\ at \in DOMAIN leaves /\ leaves[at] \in StepIds
      /\ ElementsOf(leaves) \subseteq StepIds /\ leaves[at] \in ElementsOf(leaves)
  <2>1. DOMAIN leaves = 1 .. Len(leaves) /\ Len(leaves) \in Nat
    BY <1>1, LenProperties
  <2>2. at \in 1 .. Len(leaves)
    BY <1>0, <1>1, <2>1
  <2> QED
    BY <1>1, <2>1, <2>2, ElementOfSeq DEF ElementsOf
<1>3. leaves[at] \in Needed
  BY <1>2, ReachHolds DEF Needed
<1>4. /\ WellFormed' /\ StepIds' = StepIds /\ Needed' = Needed
      /\ \A s : Parent(s)' = Parent(s) /\ IsWait(s)' = IsWait(s)
  BY <1>0, <1>1, SameForest
<1>5. TopoTypeOK'
  BY <1>0, <1>1, <1>2, <1>4 DEF TopoTypeOK
<1>6. Unstarted' /\ ChainLinked' /\ Complete'
  BY <1>0, <1>1, EmptySeq DEF TopoInv, Unstarted, ChainLinked, Complete
<1>7. SeenEmitted'
  BY <1>0, <1>4 DEF TopoInv, SeenEmitted, ParentClosed, ElementsOf
<1>8. HoldsNeeded'
  BY <1>0, <1>1, <1>3, <1>4 DEF TopoInv, HoldsNeeded, ElementsOf
<1>9. LeavesCovered'
  BY <1>0, <1>1, <1>2 DEF TopoInv, LeavesCovered, ElementsOf
<1>10. ParentFirst' /\ EmittedOnce'
  BY <1>0, <1>4 DEF TopoInv, ParentFirst, EmittedOnce
<1> QED
  BY <1>5, <1>6, <1>7, <1>8, <1>9, <1>10 DEF TopoInv

(* The chain grows by `node`, the parent of its last element.              *)
LEMMA ClimbKeepsInv ==
  ASSUME TopoInv, Climb
  PROVE  TopoInv'
<1>0. /\ pc = "climb" /\ node # NoStep /\ node \notin seen
      /\ chain' = Append(chain, node) /\ node' = Parent(node)
      /\ UNCHANGED <<heap, leaves, pc, at, seen, ordered>>
  BY DEF Climb
<1>1. /\ TopoTypeOK /\ WellFormed /\ chain \in Seq(StepIds) /\ node \in StepIds
      /\ node \in Needed
  BY <1>0 DEF TopoInv, TopoTypeOK, HoldsNeeded
<1>2. Parent(node) \in StepIds \cup {NoStep} /\ Parent(node) \in Needed \cup {NoStep}
  <2>1. ParentClosed(Needed)
    BY <1>1, ReachClosed DEF Needed
  <2> QED
    BY <1>1, <2>1, StepTypes DEF ParentClosed
<1>3. /\ chain' \in Seq(StepIds) /\ Len(chain) \in Nat /\ Len(chain') = Len(chain) + 1
      /\ \A i \in 1 .. Len(chain) : chain'[i] = chain[i]
      /\ chain'[Len(chain) + 1] = node
      /\ ElementsOf(chain') = ElementsOf(chain) \cup {node}
      /\ LastOf(chain') = node
  BY <1>0, <1>1, AppendFacts
<1>4. /\ WellFormed' /\ StepIds' = StepIds /\ Needed' = Needed
      /\ \A s : Parent(s)' = Parent(s) /\ IsWait(s)' = IsWait(s)
  BY <1>0, <1>1, SameForest
<1>5. TopoTypeOK'
  BY <1>0, <1>1, <1>2, <1>3, <1>4 DEF TopoTypeOK
<1>6. Unstarted' /\ Complete' /\ SeenEmitted'
  BY <1>0, <1>4 DEF TopoInv, Unstarted, Complete, SeenEmitted, ParentClosed, ElementsOf
<1>7. ChainLinked'
  <2>1. \A j \in 1 .. Len(chain) : Parent(chain'[j]) = chain'[j + 1]
    <3> SUFFICES ASSUME NEW j \in 1 .. Len(chain)
                 PROVE  Parent(chain'[j]) = chain'[j + 1]
      OBVIOUS
    <3>1. CASE j < Len(chain)
      <4>1. j \in 1 .. Len(chain) - 1 /\ j + 1 \in 1 .. Len(chain)
        BY <1>3, <3>1
      <4> QED
        BY <1>3, <4>1 DEF TopoInv, ChainLinked
    <3>2. CASE j = Len(chain)
      <4>1. chain # <<>>
        BY <3>2, EmptySeq
      <4>2. node = Parent(chain[Len(chain)])
        BY <1>0, <4>1 DEF TopoInv, ChainLinked, LastOf
      <4> QED
        BY <1>3, <3>2, <4>2
    <3> QED
      BY <1>3, <3>1, <3>2
  <2> QED
    BY <1>0, <1>3, <1>4, <2>1 DEF ChainLinked
<1>8. HoldsNeeded'
  BY <1>0, <1>1, <1>2, <1>3, <1>4 DEF TopoInv, HoldsNeeded, ElementsOf
<1>9. LeavesCovered'
  <2>1. chain' # <<>>
    BY <1>3, EmptySeq
  <2>2. chain'[1] = leaves[at]
    <3>1. CASE chain = <<>>
      <4>1. Len(chain) = 0
        BY <3>1, EmptySeq
      <4> QED
        BY <1>0, <1>3, <3>1, <4>1 DEF TopoInv, LeavesCovered
    <3>2. CASE chain # <<>>
      <4>1. 1 \in 1 .. Len(chain)
        BY <1>1, <1>3, <3>2, EmptySeq
      <4> QED
        BY <1>0, <1>3, <3>2, <4>1 DEF TopoInv, LeavesCovered
    <3> QED
      BY <3>1, <3>2
  <2> QED
    BY <1>0, <2>1, <2>2 DEF TopoInv, LeavesCovered, ElementsOf
<1>10. ParentFirst' /\ EmittedOnce'
  BY <1>0, <1>4 DEF TopoInv, ParentFirst, EmittedOnce
<1> QED
  BY <1>5, <1>6, <1>7, <1>8, <1>9, <1>10 DEF TopoInv

LEMMA StopClimbKeepsInv ==
  ASSUME TopoInv, StopClimb
  PROVE  TopoInv'
<1>0. /\ pc = "climb" /\ (node = NoStep \/ node \in seen) /\ pc' = "emit"
      /\ UNCHANGED <<heap, leaves, at, chain, node, seen, ordered>>
  BY DEF StopClimb
<1>1. /\ WellFormed' /\ StepIds' = StepIds /\ Needed' = Needed
      /\ \A s : Parent(s)' = Parent(s) /\ IsWait(s)' = IsWait(s)
  BY <1>0, SameForest DEF TopoInv
<1>2. TopoTypeOK'
  BY <1>0, <1>1 DEF TopoInv, TopoTypeOK
<1>3. Unstarted' /\ Complete' /\ ChainLinked'
  BY <1>0, <1>1 DEF TopoInv, Unstarted, Complete, ChainLinked
<1>4. SeenEmitted' /\ HoldsNeeded'
  BY <1>0, <1>1 DEF TopoInv, SeenEmitted, ParentClosed, HoldsNeeded, ElementsOf
<1>5. LeavesCovered'
  <2>1. leaves[at] # NoStep
    <3>1. leaves \in Seq(StepIds) /\ at \in DOMAIN leaves
      BY <1>0 DEF TopoInv, TopoTypeOK, LeavesCovered
    <3>2. leaves[at] \in StepIds
      BY <3>1, LenProperties, ElementOfSeq
    <3> QED
      BY <3>2 DEF StepIds, NoStep
  <2> QED
    BY <1>0, <2>1 DEF TopoInv, LeavesCovered, ElementsOf
<1>6. ParentFirst' /\ EmittedOnce'
  BY <1>0, <1>1 DEF TopoInv, ParentFirst, EmittedOnce
<1> QED
  BY <1>2, <1>3, <1>4, <1>5, <1>6 DEF TopoInv

(* The last element of the chain is emitted: what it is chained from is    *)
(* out, and then it is the turn of its child.                              *)
LEMMA EmitFromChainKeepsInv ==
  ASSUME TopoInv, EmitFromChain
  PROVE  TopoInv'
<1> DEFINE s == LastOf(chain)
<1>0. /\ pc = "emit" /\ chain # <<>>
      /\ ordered' = IF s \in seen THEN ordered ELSE Append(ordered, s)
      /\ seen' = seen \cup {s} /\ chain' = FrontOf(chain)
      /\ UNCHANGED <<heap, leaves, pc, at, node>>
  BY DEF EmitFromChain
<1>1. /\ TopoTypeOK /\ WellFormed
      /\ chain \in Seq(StepIds) /\ ordered \in Seq(StepIds) /\ seen \subseteq StepIds
  BY DEF TopoInv, TopoTypeOK
<1>2. /\ chain' \in Seq(StepIds) /\ Len(chain) \in Nat \ {0}
      /\ Len(chain') = Len(chain) - 1
      /\ \A i \in 1 .. Len(chain) - 1 : chain'[i] = chain[i]
      /\ s \in StepIds /\ s = chain[Len(chain)]
      /\ ElementsOf(chain) = ElementsOf(chain') \cup {s}
  BY <1>0, <1>1, FrontFacts
<1>3. Parent(s) = NoStep \/ Parent(s) \in seen
  BY <1>0 DEF TopoInv, ChainLinked
<1> HIDE DEF s
<1>4. /\ ordered' \in Seq(StepIds)
      /\ ElementsOf(ordered') = ElementsOf(ordered) \cup {s}
  <2>1. CASE s \in seen
    BY <1>0, <1>1, <2>1 DEF TopoInv, SeenEmitted
  <2>2. CASE s \notin seen
    BY <1>0, <1>1, <1>2, <2>2, AppendFacts
  <2> QED
    BY <2>1, <2>2
<1>5. s \notin seen =>
        /\ Len(ordered) \in Nat
        /\ DOMAIN ordered = 1 .. Len(ordered) /\ DOMAIN ordered' = 1 .. Len(ordered) + 1
        /\ \A i \in 1 .. Len(ordered) : ordered'[i] = ordered[i]
        /\ ordered'[Len(ordered) + 1] = s
  BY <1>0, <1>1, <1>2, AppendFacts
<1>6. /\ WellFormed' /\ StepIds' = StepIds /\ Needed' = Needed
      /\ \A t : Parent(t)' = Parent(t) /\ IsWait(t)' = IsWait(t)
  BY <1>0, <1>1, SameForest
<1>7. TopoTypeOK'
  BY <1>0, <1>1, <1>2, <1>4, <1>6 DEF TopoTypeOK
<1>8. Unstarted' /\ Complete'
  BY <1>0 DEF TopoInv, Unstarted, Complete
<1>9. ChainLinked'
  <2>1. \A j \in 1 .. Len(chain') - 1 : Parent(chain'[j]) = chain'[j + 1]
    BY <1>2 DEF TopoInv, ChainLinked
  <2>2. chain' # <<>> => Parent(LastOf(chain')) = s
    <3> SUFFICES ASSUME chain' # <<>>
                 PROVE  Parent(LastOf(chain')) = s
      OBVIOUS
    <3>1. Len(chain') \in Nat \ {0}
      BY <1>2, EmptySeq
    <3>2. Len(chain) - 1 \in 1 .. Len(chain) - 1
      BY <1>2, <3>1
    <3>3. LastOf(chain') = chain[Len(chain) - 1]
      BY <1>2, <3>2 DEF LastOf
    <3> QED
      BY <1>2, <3>2, <3>3 DEF TopoInv, ChainLinked
  <2> QED
    BY <1>0, <1>6, <2>1, <2>2 DEF ChainLinked
<1>10. SeenEmitted'
  <2>1. seen' \subseteq ElementsOf(ordered') /\ ParentClosed(seen)'
    BY <1>0, <1>3, <1>4, <1>6 DEF TopoInv, SeenEmitted, ParentClosed
  <2>2. \A i \in DOMAIN ordered' : ordered'[i] \in seen' \/ IsWait(ordered'[i])
    <3>1. CASE s \in seen
      BY <1>0, <1>6, <3>1 DEF TopoInv, SeenEmitted
    <3>2. CASE s \notin seen
      BY <1>0, <1>5, <1>6, <3>2 DEF TopoInv, SeenEmitted
    <3> QED
      BY <3>1, <3>2
  <2> QED
    BY <1>6, <2>1, <2>2 DEF SeenEmitted
<1>11. HoldsNeeded'
  BY <1>0, <1>2, <1>4, <1>6 DEF TopoInv, HoldsNeeded
<1>12. LeavesCovered'
  <2>1. \A j \in DOMAIN leaves : j < at => leaves[j] \in ElementsOf(ordered')
    BY <1>4 DEF TopoInv, LeavesCovered
  <2>2. chain[1] = leaves[at]
    BY <1>0 DEF TopoInv, LeavesCovered
  <2>3. IF chain' = <<>> THEN leaves[at] \in seen' ELSE chain'[1] = leaves[at]
    <3>1. CASE chain' = <<>>
      <4>1. Len(chain') = 0
        BY <3>1, EmptySeq
      <4>2. Len(chain) = 1
        BY <1>2, <4>1
      <4> QED
        BY <1>0, <1>2, <2>2, <3>1, <4>2
    <3>2. CASE chain' # <<>>
      <4>1. Len(chain') \in Nat \ {0}
        BY <1>2, <3>2, EmptySeq
      <4>2. 1 \in 1 .. Len(chain) - 1
        BY <1>2, <4>1
      <4> QED
        BY <1>2, <2>2, <3>2, <4>2
    <3> QED
      BY <3>1, <3>2
  <2>4. at \in DOMAIN leaves
    BY <1>0 DEF TopoInv, LeavesCovered
  <2> QED
    BY <1>0, <2>1, <2>3, <2>4 DEF LeavesCovered
<1>13. ParentFirst' /\ EmittedOnce'
  <2>1. CASE s \in seen
    BY <1>0, <1>6, <2>1 DEF TopoInv, ParentFirst, EmittedOnce
  <2>2. CASE s \notin seen
    <3>1. \A i \in DOMAIN ordered : ordered[i] = s => IsWait(s)
      BY <2>2 DEF TopoInv, SeenEmitted
    <3>2. Parent(s) # NoStep => \E j \in 1 .. Len(ordered) : ordered[j] = Parent(s)
      BY <1>3, <1>5, <2>2 DEF TopoInv, SeenEmitted, ElementsOf
    <3>3. ParentFirst'
      BY <1>5, <1>6, <2>2, <3>2 DEF TopoInv, ParentFirst
    <3>4. EmittedOnce'
      BY <1>5, <1>6, <2>2, <3>1 DEF TopoInv, EmittedOnce
    <3> QED
      BY <3>3, <3>4
  <2> QED
    BY <2>1, <2>2
<1> QED
  BY <1>7, <1>8, <1>9, <1>10, <1>11, <1>12, <1>13 DEF TopoInv

LEMMA NextLeafKeepsInv ==
  ASSUME TopoInv, NextLeaf
  PROVE  TopoInv'
<1>0. /\ pc = "emit" /\ chain = <<>> /\ pc' = "leaf" /\ at' = at + 1
      /\ UNCHANGED <<heap, leaves, chain, node, seen, ordered>>
  BY DEF NextLeaf
<1>1. /\ WellFormed' /\ StepIds' = StepIds /\ Needed' = Needed
      /\ \A s : Parent(s)' = Parent(s) /\ IsWait(s)' = IsWait(s)
  BY <1>0, SameForest DEF TopoInv
<1>2. TopoTypeOK'
  BY <1>0, <1>1 DEF TopoInv, TopoTypeOK
<1>3. Unstarted' /\ Complete' /\ ChainLinked'
  BY <1>0, <1>1 DEF TopoInv, Unstarted, Complete, ChainLinked
<1>4. SeenEmitted' /\ HoldsNeeded'
  BY <1>0, <1>1 DEF TopoInv, SeenEmitted, ParentClosed, HoldsNeeded, ElementsOf
<1>5. LeavesCovered'
  <2>1. leaves[at] \in ElementsOf(ordered)
    BY <1>0 DEF TopoInv, LeavesCovered, SeenEmitted
  <2>2. at \in Nat /\ leaves \in Seq(StepIds)
    BY DEF TopoInv, TopoTypeOK
  <2>3. DOMAIN leaves = 1 .. Len(leaves) /\ Len(leaves) \in Nat
    BY <2>2, LenProperties
  <2>4. \A j \in DOMAIN leaves : j < at + 1 => leaves[j] \in ElementsOf(ordered)
    BY <2>1, <2>2, <2>3 DEF TopoInv, LeavesCovered
  <2> QED
    BY <1>0, <2>4 DEF LeavesCovered, ElementsOf
<1>6. ParentFirst' /\ EmittedOnce'
  BY <1>0, <1>1 DEF TopoInv, ParentFirst, EmittedOnce
<1> QED
  BY <1>2, <1>3, <1>4, <1>5, <1>6 DEF TopoInv

(* All leaves are out, and what is out is closed under `parent`.           *)
LEMMA ReturnOrderKeepsInv ==
  ASSUME TopoInv, ReturnOrder
  PROVE  TopoInv'
<1>0. /\ pc = "leaf" /\ at > Len(leaves) /\ pc' = "ordered"
      /\ UNCHANGED <<heap, leaves, at, chain, node, seen, ordered>>
  BY DEF ReturnOrder
<1>1. /\ WellFormed' /\ StepIds' = StepIds /\ Needed' = Needed
      /\ \A s : Parent(s)' = Parent(s) /\ IsWait(s)' = IsWait(s)
  BY <1>0, SameForest DEF TopoInv
<1>2. TopoTypeOK'
  BY <1>0, <1>1 DEF TopoInv, TopoTypeOK
<1>3. Unstarted' /\ ChainLinked'
  BY <1>0, <1>1 DEF TopoInv, Unstarted, ChainLinked
<1>4. SeenEmitted' /\ HoldsNeeded'
  BY <1>0, <1>1 DEF TopoInv, SeenEmitted, ParentClosed, HoldsNeeded, ElementsOf
<1>5. LeavesCovered'
  BY <1>0, <1>1 DEF TopoInv, LeavesCovered, ElementsOf
<1>6. ParentFirst' /\ EmittedOnce'
  BY <1>0, <1>1 DEF TopoInv, ParentFirst, EmittedOnce
<1>7. ElementsOf(ordered) = Needed
  <2>1. /\ leaves \in Seq(StepIds) /\ ordered \in Seq(StepIds) /\ at \in Nat
    BY DEF TopoInv, TopoTypeOK
  <2>2. /\ DOMAIN leaves = 1 .. Len(leaves) /\ Len(leaves) \in Nat
        /\ DOMAIN ordered = 1 .. Len(ordered) /\ Len(ordered) \in Nat
    BY <2>1, LenProperties
  <2>3. ElementsOf(ordered) \in SUBSET StepIds
    BY <2>1, <2>2, ElementOfSeq DEF ElementsOf
  <2>4. ElementsOf(leaves) \subseteq ElementsOf(ordered)
    BY <1>0, <2>1, <2>2 DEF TopoInv, LeavesCovered, ElementsOf
  <2>5. ParentClosed(ElementsOf(ordered))
    BY <2>2 DEF TopoInv, ParentFirst, ParentClosed, ElementsOf
  <2> QED
    BY <2>3, <2>4, <2>5, ReachLeast DEF TopoInv, HoldsNeeded, Needed
<1>8. Complete'
  BY <1>0, <1>1, <1>7 DEF Complete, Needed, ElementsOf
<1> QED
  BY <1>2, <1>3, <1>4, <1>5, <1>6, <1>8 DEF TopoInv

LEMMA StutterKeepsInv ==
  ASSUME TopoInv, UNCHANGED topoVars
  PROVE  TopoInv'
<1>0. UNCHANGED <<heap, leaves, pc, at, chain, node, seen, ordered>>
  BY DEF topoVars
<1>1. /\ WellFormed' /\ StepIds' = StepIds /\ Needed' = Needed
      /\ \A s : Parent(s)' = Parent(s) /\ IsWait(s)' = IsWait(s)
  BY <1>0, SameForest DEF TopoInv
<1>2. TopoTypeOK' /\ Unstarted' /\ ChainLinked'
  BY <1>0, <1>1 DEF TopoInv, TopoTypeOK, Unstarted, ChainLinked
<1>3. SeenEmitted' /\ HoldsNeeded' /\ LeavesCovered'
  BY <1>0, <1>1 DEF TopoInv, SeenEmitted, ParentClosed, HoldsNeeded, LeavesCovered,
                    ElementsOf
<1>4. ParentFirst' /\ EmittedOnce' /\ Complete'
  BY <1>0, <1>1 DEF TopoInv, ParentFirst, EmittedOnce, Complete, Needed, ElementsOf
<1> QED
  BY <1>2, <1>3, <1>4 DEF TopoInv

-----------------------------------------------------------------------------
LEMMA TopoInvariant == TopoSpec => []TopoInv
<1>1. TopoInit => TopoInv
  BY InitInv
<1>2. TopoInv /\ [TopoNext]_topoVars => TopoInv'
  <2> SUFFICES ASSUME TopoInv, [TopoNext]_topoVars
               PROVE  TopoInv'
    OBVIOUS
  <2>1. CASE BuildStep        BY <2>1, BuildKeepsInv
  <2>2. CASE CallPipeline     BY <2>2, CallKeepsInv
  <2>3. CASE RejectNoLeaves   BY <2>3, RejectKeepsInv
  <2>4. CASE EmitWaitLeaf     BY <2>4, EmitWaitLeafKeepsInv
  <2>5. CASE StartChain       BY <2>5, StartChainKeepsInv
  <2>6. CASE Climb            BY <2>6, ClimbKeepsInv
  <2>7. CASE StopClimb        BY <2>7, StopClimbKeepsInv
  <2>8. CASE EmitFromChain    BY <2>8, EmitFromChainKeepsInv
  <2>9. CASE NextLeaf         BY <2>9, NextLeafKeepsInv
  <2>10. CASE ReturnOrder     BY <2>10, ReturnOrderKeepsInv
  <2>11. CASE Ended           BY <2>11, StutterKeepsInv DEF Ended
  <2>12. CASE UNCHANGED topoVars BY <2>12, StutterKeepsInv
  <2> QED
    BY <2>1, <2>2, <2>3, <2>4, <2>5, <2>6, <2>7, <2>8, <2>9, <2>10, <2>11, <2>12
       DEF TopoNext, Collect
<1> QED
  BY <1>1, <1>2, PTL DEF TopoSpec

(***************************************************************************)
(* For any forest and any leaves, a Step never precedes its parent in the  *)
(* result of _topo_collect.                                                *)
(***************************************************************************)
THEOREM CollectIsParentFirst == TopoSpec => []ParentFirst
<1>1. TopoInv => ParentFirst
  BY DEF TopoInv
<1> QED
  BY <1>1, TopoInvariant, PTL

(***************************************************************************)
(* For any forest and any leaves, however much their chains share, only a  *)
(* wait may be emitted twice.                                              *)
(***************************************************************************)
THEOREM CollectEmitsOnce == TopoSpec => []EmittedOnce
<1>1. TopoInv => EmittedOnce
  BY DEF TopoInv
<1> QED
  BY <1>1, TopoInvariant, PTL

(***************************************************************************)
(* When _topo_collect returns, the result holds exactly what the leaves    *)
(* reach.                                                                  *)
(***************************************************************************)
THEOREM CollectIsComplete == TopoSpec => []Complete
<1>1. TopoInv => Complete
  BY DEF TopoInv
<1> QED
  BY <1>1, TopoInvariant, PTL

(***************************************************************************)
(* The variables of the loops keep their types.                            *)
(***************************************************************************)
THEOREM CollectIsTyped == TopoSpec => []TopoTypeOK
<1>1. TopoInv => TopoTypeOK
  BY DEF TopoInv
<1> QED
  BY <1>1, TopoInvariant, PTL

(***************************************************************************)
(* The collection builds its forest as BuildSpec does, so what holds of    *)
(* the images there holds here.                                            *)
(***************************************************************************)
THEOREM CollectStopsRootImages ==
  (StepImages \cap RootImages = {}) /\ TopoSpec => []ImageStopsAtCommand
<1>1. TopoInit => BuildInit
  BY DEF TopoInit
<1>2. [TopoNext]_topoVars => [Build]_heap
  BY DEF TopoNext, Collect, BuildStep, CallPipeline, RejectNoLeaves, EmitWaitLeaf, StartChain,
         Climb, StopClimb, EmitFromChain, NextLeaf, ReturnOrder, Ended, topoVars
<1> QED
  BY <1>1, <1>2, RootImageStopsAtCommand, PTL DEF TopoSpec, BuildSpec

-----------------------------------------------------------------------------
(***************************************************************************)
(* Waits are barriers.  What is held at any moment is reached by the       *)
(* leaves up to the one at hand, so where a wait leaf is appended exactly  *)
(* what the leaves before it reach is out.                                 *)
(***************************************************************************)
FirstLeaves(n) == {leaves[j] : j \in {k \in DOMAIN leaves : k <= n}}

Taken(n) == \/ pc = "leaf" /\ at = n + 1
            \/ pc \in {"climb", "emit"} /\ at = n

HoldsFirst ==
  \A n \in Nat : Taken(n) =>
    /\ ElementsOf(ordered) \cup ElementsOf(chain) \subseteq Reach(FirstLeaves(n))
    /\ pc = "climb" => node \in Reach(FirstLeaves(n)) \cup {NoStep}

BarrierOf(i) ==
  \E k \in DOMAIN ordered :
    /\ ordered[k] = leaves[i]
    /\ {ordered[m] : m \in 1 .. k - 1} = Reach(FirstLeaves(i - 1))

BarriersSoFar ==
  /\ pc \in {"leaf", "climb", "emit", "ordered"} =>
       \A i \in DOMAIN leaves : i < at /\ IsWait(leaves[i]) => BarrierOf(i)
  /\ pc = "ordered" => at > Len(leaves)
  /\ pc \in {"climb", "emit"} => ~IsWait(leaves[at])

BarrierInv == TopoInv /\ HoldsFirst /\ BarriersSoFar

(* The first leaves are Steps, and more leaves reach more.                 *)
LEMMA FirstLeavesFacts ==
  ASSUME TopoTypeOK, NEW n \in Nat
  PROVE  /\ FirstLeaves(n) \subseteq StepIds
         /\ FirstLeaves(n) \subseteq Reach(FirstLeaves(n))
         /\ ParentClosed(Reach(FirstLeaves(n)))
         /\ Reach(FirstLeaves(n)) \subseteq StepIds
         /\ Reach(FirstLeaves(n)) \subseteq Reach(FirstLeaves(n + 1))
         /\ n + 1 \in DOMAIN leaves => leaves[n + 1] \in FirstLeaves(n + 1)
<1>1. /\ DOMAIN leaves = 1 .. Len(leaves) /\ Len(leaves) \in Nat
      /\ \A j \in DOMAIN leaves : leaves[j] \in StepIds
  BY LenProperties, ElementOfSeq DEF TopoTypeOK
<1>2. \A m : FirstLeaves(m) \subseteq StepIds
  BY <1>1 DEF FirstLeaves
<1>3. FirstLeaves(n) \subseteq FirstLeaves(n + 1)
  BY <1>1 DEF FirstLeaves
<1>4. n + 1 \in DOMAIN leaves => leaves[n + 1] \in FirstLeaves(n + 1)
  BY <1>1 DEF FirstLeaves
<1>5. \A m : /\ FirstLeaves(m) \subseteq Reach(FirstLeaves(m))
             /\ ParentClosed(Reach(FirstLeaves(m)))
             /\ Reach(FirstLeaves(m)) \subseteq StepIds
  BY <1>2, ReachHolds, ReachClosed DEF TopoTypeOK, Reach
<1>6. Reach(FirstLeaves(n)) \subseteq Reach(FirstLeaves(n + 1))
  <2> DEFINE C == Reach(FirstLeaves(n + 1))
  <2>1. C \in SUBSET StepIds /\ FirstLeaves(n) \subseteq C /\ ParentClosed(C)
    BY <1>3, <1>5
  <2> HIDE DEF C
  <2> QED
    BY <1>2, <2>1, ReachLeast DEF C
<1> QED
  BY <1>2, <1>4, <1>5, <1>6

(* Between two leaves, exactly what the leaves before reach is out.        *)
LEMMA CompleteSoFar ==
  ASSUME BarrierInv, pc = "leaf"
  PROVE  ElementsOf(ordered) = Reach(FirstLeaves(at - 1))
<1>1. /\ TopoTypeOK /\ at \in Nat \ {0} /\ ordered \in Seq(StepIds) /\ leaves \in Seq(StepIds)
  BY DEF BarrierInv, TopoInv, TopoTypeOK
<1>2. /\ DOMAIN ordered = 1 .. Len(ordered) /\ Len(ordered) \in Nat
      /\ DOMAIN leaves = 1 .. Len(leaves) /\ Len(leaves) \in Nat
  BY <1>1, LenProperties
<1>3. ElementsOf(ordered) \in SUBSET StepIds
  BY <1>1, <1>2, ElementOfSeq DEF ElementsOf
<1>4. ParentClosed(ElementsOf(ordered))
  BY <1>2 DEF BarrierInv, TopoInv, ParentFirst, ParentClosed, ElementsOf
<1>5. FirstLeaves(at - 1) \subseteq ElementsOf(ordered)
  BY <1>1, <1>2 DEF BarrierInv, TopoInv, LeavesCovered, FirstLeaves
<1>6. FirstLeaves(at - 1) \subseteq StepIds
  BY <1>1, FirstLeavesFacts
<1>7. Reach(FirstLeaves(at - 1)) \subseteq ElementsOf(ordered)
  BY <1>3, <1>4, <1>5, <1>6, ReachLeast
<1>8. at - 1 \in Nat /\ at = (at - 1) + 1
  BY <1>1
<1>9. Taken(at - 1)
  BY <1>8 DEF Taken
<1> QED
  BY <1>7, <1>8, <1>9 DEF BarrierInv, HoldsFirst

(* The notions of the barrier while the leaves stay.                       *)
LEMMA SameLeaves ==
  ASSUME UNCHANGED <<heap, leaves>>
  PROVE  \A n : /\ FirstLeaves(n)' = FirstLeaves(n)
                /\ Reach(FirstLeaves(n))' = Reach(FirstLeaves(n))
<1>1. \A n : FirstLeaves(n)' = FirstLeaves(n)
  BY DEF FirstLeaves
<1>2. \A n : Reach(FirstLeaves(n))' = Reach(FirstLeaves(n))
  BY <1>1 DEF Reach, ParentClosed, StepIds, Parent
<1> QED
  BY <1>1, <1>2

(* A barrier stays one when the result grows.                              *)
LEMMA BarrierStays ==
  ASSUME ordered \in Seq(StepIds), NEW s \in StepIds, UNCHANGED <<heap, leaves>>,
         ordered' = ordered \/ ordered' = Append(ordered, s), NEW i, BarrierOf(i)
  PROVE  BarrierOf(i)'
<1>1. /\ DOMAIN ordered = 1 .. Len(ordered) /\ Len(ordered) \in Nat
      /\ \A j \in DOMAIN ordered : j \in DOMAIN ordered' /\ ordered'[j] = ordered[j]
  BY AppendFacts, LenProperties
<1>2. PICK k \in DOMAIN ordered : /\ ordered[k] = leaves[i]
                                  /\ {ordered[m] : m \in 1 .. k - 1} = Reach(FirstLeaves(i - 1))
  BY DEF BarrierOf
<1>3. \A m \in 1 .. k - 1 : ordered'[m] = ordered[m]
  BY <1>1
<1>4. {ordered'[m] : m \in 1 .. k - 1} = {ordered[m] : m \in 1 .. k - 1}
  BY <1>3
<1>5. Reach(FirstLeaves(i - 1))' = Reach(FirstLeaves(i - 1))
  BY SameLeaves
<1> QED
  BY <1>1, <1>2, <1>4, <1>5 DEF BarrierOf

(* A step that emits no wait leaf keeps the barriers.                      *)
LEMMA NoNewBarrier ==
  ASSUME BarrierInv, UNCHANGED <<heap, leaves>>, NEW s \in StepIds,
         ordered' = ordered \/ ordered' = Append(ordered, s),
         pc \in {"leaf", "climb", "emit", "ordered"},
         \/ at' = at
         \/ at' = at + 1 /\ at \in DOMAIN leaves /\ ~IsWait(leaves[at]),
         pc' = "ordered" => at' > Len(leaves),
         pc' \in {"climb", "emit"} => ~IsWait(leaves[at'])
  PROVE  BarriersSoFar'
<1>1. /\ at \in Nat \ {0} /\ ordered \in Seq(StepIds) /\ leaves \in Seq(StepIds)
      /\ BarriersSoFar
  BY DEF BarrierInv, TopoInv, TopoTypeOK
<1>2. DOMAIN leaves = 1 .. Len(leaves) /\ Len(leaves) \in Nat
  BY <1>1, LenProperties
<1>3. ASSUME NEW i \in DOMAIN leaves, i < at', IsWait(leaves[i])
      PROVE  BarrierOf(i)'
  <2>1. i < at
    BY <1>1, <1>2, <1>3
  <2>2. BarrierOf(i)
    BY <1>1, <1>3, <2>1 DEF BarriersSoFar
  <2> QED
    BY <1>1, <2>2, BarrierStays
<1>4. \A t : IsWait(t)' = IsWait(t)
  BY DEF IsWait
<1>6. pc' \in {"climb", "emit"} => ~IsWait(leaves[at])'
  BY DEF IsWait
<1> QED
  BY <1>3, <1>4, <1>6 DEF BarriersSoFar

LEMMA BarriersKeep ==
  ASSUME BarrierInv, [TopoNext]_topoVars
  PROVE  HoldsFirst' /\ BarriersSoFar'
<1>0. /\ TopoTypeOK /\ at \in Nat \ {0} /\ ordered \in Seq(StepIds) /\ leaves \in Seq(StepIds)
      /\ chain \in Seq(StepIds) /\ HoldsFirst /\ BarriersSoFar /\ WellFormed
  BY DEF BarrierInv, TopoInv, TopoTypeOK
<1>1. /\ DOMAIN leaves = 1 .. Len(leaves) /\ Len(leaves) \in Nat
      /\ \A j \in DOMAIN leaves : leaves[j] \in StepIds
  BY <1>0, LenProperties, ElementOfSeq
<1>2. CASE BuildStep \/ RejectNoLeaves
  BY <1>2 DEF BuildStep, RejectNoLeaves, tvars, HoldsFirst, BarriersSoFar, Taken
<1>3. CASE CallPipeline
  <2>1. /\ pc = "build" /\ pc' = "leaf" /\ leaves' \in LeafTuples
        /\ UNCHANGED <<heap, at, chain, node, seen, ordered>>
    BY <1>3 DEF CallPipeline
  <2>2. ordered' = <<>> /\ at' = 1 /\ chain' = <<>>
    BY <2>1 DEF BarrierInv, TopoInv, Unstarted
  <2>3. leaves' \in Seq(StepIds)
    <3>1. PICK n \in 1 .. MaxLeaves : leaves' \in [1 .. n -> StepIds]
      BY <2>1 DEF LeafTuples
    <3>2. n \in Nat
      BY MaxLeavesIsNat
    <3>3. leaves' \in UNION {[1 .. m -> StepIds] : m \in Nat}
      BY <3>1, <3>2
    <3> QED
      BY <3>3, SeqDef
  <2>4. DOMAIN leaves' = 1 .. Len(leaves')
    BY <2>3, LenProperties
  <2>5. ElementsOf(ordered)' = {} /\ ElementsOf(chain)' = {}
    BY <2>2 DEF ElementsOf
  <2>6. BarriersSoFar'
    BY <2>1, <2>2, <2>4 DEF BarriersSoFar
  <2> QED
    BY <2>1, <2>5, <2>6 DEF HoldsFirst
<1>4. ASSUME UNCHANGED <<heap, leaves>>
      PROVE  /\ \A n : Reach(FirstLeaves(n))' = Reach(FirstLeaves(n))
             /\ \A n : FirstLeaves(n)' = FirstLeaves(n)
             /\ \A t : Parent(t)' = Parent(t) /\ IsWait(t)' = IsWait(t)
  BY <1>4, SameLeaves DEF Parent, IsWait
<1>5. /\ Reach(FirstLeaves(at - 1)) \subseteq Reach(FirstLeaves(at))
      /\ at \in DOMAIN leaves => leaves[at] \in Reach(FirstLeaves(at))
      /\ ParentClosed(Reach(FirstLeaves(at)))
      /\ Reach(FirstLeaves(at)) \subseteq StepIds
  <2>1. at - 1 + 1 = at /\ at - 1 \in Nat
    BY <1>0
  <2> QED
    BY <1>0, <2>1, FirstLeavesFacts
<1>6. ASSUME pc \in {"climb", "emit"}
      PROVE  /\ ElementsOf(ordered) \cup ElementsOf(chain) \subseteq Reach(FirstLeaves(at))
             /\ pc = "climb" => node \in Reach(FirstLeaves(at)) \cup {NoStep}
             /\ at \in DOMAIN leaves /\ leaves[at] \in StepIds /\ ~IsWait(leaves[at])
  <2>1. Taken(at)
    BY <1>6 DEF Taken
  <2>2. at \in DOMAIN leaves
    BY <1>6 DEF BarrierInv, TopoInv, LeavesCovered
  <2> QED
    BY <1>0, <1>1, <1>6, <2>1, <2>2 DEF HoldsFirst, BarriersSoFar
<1>7. CASE EmitWaitLeaf
  <2> DEFINE w == leaves[at]
             n == Len(ordered)
  <2>1. /\ pc = "leaf" /\ pc' = "leaf" /\ at <= Len(leaves) /\ ordered' = Append(ordered, w)
        /\ at' = at + 1 /\ UNCHANGED <<heap, leaves, chain>>
    BY <1>7 DEF EmitWaitLeaf
  <2>2. at \in DOMAIN leaves /\ w \in StepIds
    BY <1>0, <1>1, <2>1
  <2>3. ElementsOf(ordered) = Reach(FirstLeaves(at - 1))
    BY <2>1, CompleteSoFar
  <2>4. /\ n \in Nat /\ DOMAIN ordered = 1 .. n /\ DOMAIN ordered' = 1 .. n + 1
        /\ \A i \in 1 .. n : ordered'[i] = ordered[i]
        /\ ordered'[n + 1] = w /\ ElementsOf(ordered') = ElementsOf(ordered) \cup {w}
    BY <1>0, <2>1, <2>2, AppendFacts
  <2>5. HoldsFirst'
    <3>1. ElementsOf(ordered') \subseteq Reach(FirstLeaves(at))
      BY <1>5, <2>2, <2>3, <2>4
    <3>2. chain' = <<>>
      BY <2>1 DEF BarrierInv, TopoInv, ChainLinked
    <3>3. ElementsOf(chain') = {}
      BY <3>2 DEF ElementsOf
    <3>4. \A m \in Nat : Taken(m)' => m = at
      BY <1>0, <2>1 DEF Taken
    <3>5. \A m \in Nat : Taken(m)' => ElementsOf(ordered') \subseteq Reach(FirstLeaves(m))'
      BY <1>4, <2>1, <3>1, <3>4
    <3> QED
      BY <2>1, <3>3, <3>5 DEF HoldsFirst, ElementsOf
  <2>6. ASSUME NEW i, i = at
        PROVE  BarrierOf(i)'
    <3>1. PICK k : k = n + 1
      OBVIOUS
    <3>2. k \in DOMAIN ordered' /\ k - 1 = n /\ ordered'[k] = leaves'[i]
      BY <2>1, <2>4, <2>6, <3>1
    <3>3. {ordered'[m] : m \in 1 .. n} = ElementsOf(ordered)
      BY <2>4 DEF ElementsOf
    <3>4. {ordered'[m] : m \in 1 .. k - 1} = Reach(FirstLeaves(i - 1))
      BY <2>3, <2>6, <3>2, <3>3
    <3>5. Reach(FirstLeaves(i - 1))' = Reach(FirstLeaves(i - 1))
      BY <1>4, <2>1
    <3> QED
      BY <3>2, <3>4, <3>5 DEF BarrierOf
  <2>7. ASSUME NEW i \in DOMAIN leaves, i < at + 1, IsWait(leaves[i])
        PROVE  BarrierOf(i)'
    <3>1. CASE i = at
      BY <2>6, <3>1
    <3>2. CASE i # at
      <4>1. i < at
        BY <1>0, <1>1, <2>7, <3>2
      <4>2. BarrierOf(i)
        BY <1>0, <2>1, <2>7, <4>1 DEF BarriersSoFar
      <4> QED
        BY <1>0, <2>1, <2>2, <4>2, BarrierStays
    <3> QED
      BY <3>1, <3>2
  <2>8. BarriersSoFar'
    BY <1>4, <2>1, <2>7 DEF BarriersSoFar
  <2> QED
    BY <2>5, <2>8
<1>8. CASE StartChain
  <2>1. /\ pc = "leaf" /\ at <= Len(leaves) /\ node' = leaves[at] /\ pc' = "climb"
        /\ ~IsWait(leaves[at]) /\ UNCHANGED <<heap, leaves, at, chain, seen, ordered>>
    BY <1>8 DEF StartChain
  <2>2. at \in DOMAIN leaves /\ leaves[at] \in StepIds
    BY <1>0, <1>1, <2>1
  <2>3. chain = <<>>
    BY <2>1 DEF BarrierInv, TopoInv, ChainLinked
  <2>4. ElementsOf(chain) = {}
    BY <2>3 DEF ElementsOf
  <2>5. ElementsOf(ordered) \subseteq Reach(FirstLeaves(at))
    BY <1>5, <2>1, CompleteSoFar
  <2>6. \A m \in Nat : Taken(m)' => m = at
    BY <1>0, <2>1 DEF Taken
  <2>7. HoldsFirst'
    BY <1>4, <1>5, <2>1, <2>2, <2>4, <2>5, <2>6 DEF HoldsFirst, ElementsOf
  <2>8. BarriersSoFar'
    BY <2>1, <2>2, NoNewBarrier
  <2> QED
    BY <2>7, <2>8
<1>9. CASE Climb
  <2>1. /\ pc = "climb" /\ pc' = "climb" /\ node # NoStep /\ chain' = Append(chain, node)
        /\ node' = Parent(node) /\ UNCHANGED <<heap, leaves, at, seen, ordered>>
    BY <1>9 DEF Climb
  <2>2. node \in Reach(FirstLeaves(at)) /\ node \in StepIds
    BY <1>5, <1>6, <2>1
  <2>3. ElementsOf(chain') = ElementsOf(chain) \cup {node}
    BY <1>0, <2>1, <2>2, AppendFacts
  <2>4. Parent(node) \in Reach(FirstLeaves(at)) \cup {NoStep}
    BY <1>5, <2>2 DEF ParentClosed
  <2>5. ElementsOf(ordered') \cup ElementsOf(chain') \subseteq Reach(FirstLeaves(at))
    BY <1>6, <2>1, <2>2, <2>3
  <2>6. \A m \in Nat : Taken(m)' => m = at
    BY <1>0, <2>1 DEF Taken
  <2>7. HoldsFirst'
    BY <1>4, <2>1, <2>4, <2>5, <2>6 DEF HoldsFirst, ElementsOf
  <2>8. BarriersSoFar'
    BY <1>6, <2>1, <2>2, NoNewBarrier
  <2> QED
    BY <2>7, <2>8
<1>10. CASE StopClimb
  <2>1. /\ pc = "climb" /\ pc' = "emit" /\ UNCHANGED <<heap, leaves, at, chain, node, seen, ordered>>
    BY <1>10 DEF StopClimb
  <2>2. \A m \in Nat : Taken(m)' => m = at
    BY <1>0, <2>1 DEF Taken
  <2>3. HoldsFirst'
    BY <1>4, <1>6, <2>1, <2>2 DEF HoldsFirst, ElementsOf
  <2>4. BarriersSoFar'
    BY <1>6, <2>1, NoNewBarrier
  <2> QED
    BY <2>3, <2>4
<1>11. CASE EmitFromChain
  <2> DEFINE s == LastOf(chain)
  <2>1. /\ pc = "emit" /\ pc' = "emit" /\ chain # <<>>
        /\ ordered' = IF s \in seen THEN ordered ELSE Append(ordered, s)
        /\ chain' = FrontOf(chain) /\ UNCHANGED <<heap, leaves, at>>
    BY <1>11 DEF EmitFromChain
  <2>2. s \in StepIds /\ ElementsOf(chain) = ElementsOf(FrontOf(chain)) \cup {s}
    BY <1>0, <2>1, FrontFacts
  <2> HIDE DEF s
  <2>3. ElementsOf(ordered') \subseteq ElementsOf(ordered) \cup {s}
    <3>1. ElementsOf(Append(ordered, s)) = ElementsOf(ordered) \cup {s}
      BY <1>0, <2>2, AppendFacts
    <3> QED
      BY <2>1, <3>1
  <2>4. ElementsOf(ordered') \cup ElementsOf(chain') \subseteq Reach(FirstLeaves(at))
    BY <1>6, <2>1, <2>2, <2>3
  <2>5. \A m \in Nat : Taken(m)' => m = at
    BY <1>0, <2>1 DEF Taken
  <2>6. HoldsFirst'
    BY <1>4, <2>1, <2>4, <2>5 DEF HoldsFirst, ElementsOf
  <2>7. BarriersSoFar'
    BY <1>6, <2>1, <2>2, NoNewBarrier
  <2> QED
    BY <2>6, <2>7
<1>12. CASE NextLeaf
  <2>1. /\ pc = "emit" /\ chain = <<>> /\ pc' = "leaf" /\ at' = at + 1
        /\ UNCHANGED <<heap, leaves, chain, node, seen, ordered>>
    BY <1>12 DEF NextLeaf
  <2>2. \A m \in Nat : Taken(m)' => m = at
    BY <1>0, <2>1 DEF Taken
  <2>3. HoldsFirst'
    BY <1>4, <1>6, <2>1, <2>2 DEF HoldsFirst, ElementsOf
  <2>4. BarriersSoFar'
    BY <1>6, <2>1, NoNewBarrier
  <2> QED
    BY <2>3, <2>4
<1>13. CASE ReturnOrder
  <2>1. /\ pc = "leaf" /\ pc' = "ordered" /\ at > Len(leaves)
        /\ UNCHANGED <<heap, leaves, at, chain, node, seen, ordered>>
    BY <1>13 DEF ReturnOrder
  <2>2. HoldsFirst'
    BY <2>1 DEF HoldsFirst, Taken
  <2>3. leaves # <<>>
    BY <2>1 DEF BarrierInv, TopoInv, Unstarted
  <2>4. 1 \in DOMAIN leaves
    BY <1>0, <1>1, <2>3, EmptySeq
  <2>5. BarriersSoFar'
    BY <1>1, <2>1, <2>4, NoNewBarrier
  <2> QED
    BY <2>2, <2>5
<1>14. CASE UNCHANGED topoVars
  <2>1. UNCHANGED <<heap, leaves, pc, at, chain, node, seen, ordered>>
    BY <1>14 DEF topoVars
  <2>2. \A m \in Nat : Taken(m)' = Taken(m)
    BY <2>1 DEF Taken
  <2>3. HoldsFirst'
    BY <1>0, <1>4, <2>1, <2>2 DEF HoldsFirst, ElementsOf
  <2>4. \A i : BarrierOf(i)' = BarrierOf(i)
    BY <1>4, <2>1 DEF BarrierOf
  <2>5. BarriersSoFar'
    BY <1>0, <1>4, <2>1, <2>4 DEF BarriersSoFar
  <2> QED
    BY <2>3, <2>5
<1> QED
  BY <1>2, <1>3, <1>7, <1>8, <1>9, <1>10, <1>11, <1>12, <1>13, <1>14 DEF TopoNext, Collect, Ended

(* What stands before a position, and the leaves before one.               *)
LEMMA PrefixElements ==
  ASSUME NEW T, NEW s \in Seq(T), NEW k \in DOMAIN s
  PROVE  ElementsOf(SubSeq(s, 1, k - 1)) = {s[m] : m \in 1 .. k - 1}
<1>1. /\ DOMAIN s = 1 .. Len(s) /\ Len(s) \in Nat /\ k \in 1 .. Len(s)
      /\ 1 \in 1 .. Len(s) + 1 /\ k - 1 \in 0 .. Len(s) /\ k - 1 \in Nat
  BY LenProperties
<1>2. /\ SubSeq(s, 1, k - 1) \in Seq(T) /\ Len(SubSeq(s, 1, k - 1)) = k - 1
      /\ \A m \in 1 .. k - 1 : SubSeq(s, 1, k - 1)[m] = s[m]
  BY <1>1, SubSeqProperties
<1>3. DOMAIN SubSeq(s, 1, k - 1) = 1 .. k - 1
  BY <1>2, LenProperties
<1> QED
  BY <1>2, <1>3 DEF ElementsOf

(***************************************************************************)
(* For any forest and any leaves, a wait leaf stands in the result behind  *)
(* exactly what the leaves before it reach.                                *)
(***************************************************************************)
THEOREM WaitsStandAsBarriers == TopoSpec => []WaitsAreBarriers
<1>1. TopoInit => HoldsFirst /\ BarriersSoFar
  BY DEF TopoInit, HoldsFirst, Taken, BarriersSoFar
<1>2. TopoInv /\ HoldsFirst /\ BarriersSoFar /\ [TopoNext]_topoVars
        => HoldsFirst' /\ BarriersSoFar'
  BY BarriersKeep DEF BarrierInv
<1>3. TopoInv /\ BarriersSoFar => WaitsAreBarriers
  <2> SUFFICES ASSUME TopoInv, BarriersSoFar, pc = "ordered",
                      NEW i \in DOMAIN leaves, IsWait(leaves[i])
               PROVE  \E k \in DOMAIN ordered :
                        /\ ordered[k] = leaves[i]
                        /\ ElementsOf(SubSeq(ordered, 1, k - 1))
                             = Reach(ElementsOf(SubSeq(leaves, 1, i - 1)))
    BY DEF WaitsAreBarriers
  <2>1. ordered \in Seq(StepIds) /\ leaves \in Seq(StepIds) /\ at \in Nat
    BY DEF TopoInv, TopoTypeOK
  <2>2. DOMAIN leaves = 1 .. Len(leaves) /\ Len(leaves) \in Nat
    BY <2>1, LenProperties
  <2>3. i < at
    BY <2>1, <2>2 DEF BarriersSoFar
  <2>4. PICK k \in DOMAIN ordered : /\ ordered[k] = leaves[i]
                                    /\ {ordered[m] : m \in 1 .. k - 1} = Reach(FirstLeaves(i - 1))
    BY <2>3 DEF BarriersSoFar, BarrierOf
  <2>5. ElementsOf(SubSeq(ordered, 1, k - 1)) = {ordered[m] : m \in 1 .. k - 1}
    BY <2>1, PrefixElements
  <2>6. ElementsOf(SubSeq(leaves, 1, i - 1)) = {leaves[m] : m \in 1 .. i - 1}
    BY <2>1, PrefixElements
  <2>7. FirstLeaves(i - 1) = {leaves[m] : m \in 1 .. i - 1}
    <3>1. {k_1 \in DOMAIN leaves : k_1 <= i - 1} = 1 .. i - 1
      BY <2>2
    <3> QED
      BY <3>1 DEF FirstLeaves
  <2> QED
    BY <2>4, <2>5, <2>6, <2>7
<1> QED
  BY <1>1, <1>2, <1>3, TopoInvariant, PTL DEF TopoSpec

-----------------------------------------------------------------------------
(* The refinement of EmissionOrder.  Its instance has the forest and the   *)
(* notions over it in common with TopoCollect.                             *)
LEMMA SameNotions ==
  /\ \A S : Order!Reach(S) = Reach(S)
  /\ \A s : Order!RangeOf(s) = ElementsOf(s)
  /\ \A s : Order!Parent(s) = Parent(s) /\ Order!IsWait(s) = IsWait(s)
  /\ Order!StepIds = StepIds /\ Order!NoStep = NoStep
<1>1. \A S : Order!Reach(S) = Reach(S)
  BY DEF Order!Reach, Order!ParentClosed, Order!Parent, Order!NoStep, Order!StepIds,
         Reach, ParentClosed, Parent, NoStep, StepIds
<1>2. \A s : Order!RangeOf(s) = ElementsOf(s)
  BY DEF Order!RangeOf, ElementsOf
<1>3. \A s : Order!Parent(s) = Parent(s) /\ Order!IsWait(s) = IsWait(s)
  BY DEF Order!Parent, Parent, Order!IsWait, IsWait
<1>4. Order!StepIds = StepIds /\ Order!NoStep = NoStep
  BY DEF Order!StepIds, StepIds, Order!NoStep, NoStep
<1> QED
  BY <1>1, <1>2, <1>3, <1>4

LEMMA SameBuild == Build => Order!Build
<1> SUFFICES ASSUME Build
             PROVE  Order!Build
  OBVIOUS
<1>1. CASE Scratch
  BY <1>1 DEF Scratch, Alloc, BareStep, NoStep, Order!Build, Order!Scratch, Order!Alloc,
              Order!BareStep, Order!NoStep
<1>2. CASE \E img \in RootImages : BaseImage(img)
  BY <1>2 DEF BaseImage, Alloc, BareStep, NoStep, Order!Build, Order!BaseImage, Order!Alloc,
              Order!BareStep, Order!NoStep
<1>3. CASE Wait
  BY <1>3 DEF Wait, Alloc, BareStep, NoStep, Order!Build, Order!Wait, Order!Alloc,
              Order!BareStep, Order!NoStep
<1>4. CASE \E p \in StepIds, cmd \in Cmds, label \in Opt(Labels), cache \in Opt(Policies),
              image \in Opt(StepImages), key \in Opt(KeyOverrides) :
              Sh(p, cmd, label, cache, image, key)
  BY <1>4 DEF Sh, Alloc, EffectiveImage, StepIds, Opt, Order!Build, Order!Sh, Order!Alloc,
              Order!EffectiveImage, Order!StepIds, Order!Opt
<1>5. CASE \E p \in StepIds, label \in Opt(Labels) : Fork(p, label)
  BY <1>5 DEF Fork, Alloc, BareStep, NoStep, StepIds, Opt, Order!Build, Order!Fork,
              Order!Alloc, Order!BareStep, Order!NoStep, Order!StepIds, Order!Opt
<1> QED
  BY <1>1, <1>2, <1>3, <1>4, <1>5 DEF Build

(* One step of the loops emits one Step, finishes, or is not seen at all.  *)
LEMMA StepImplementsOrder ==
  ASSUME TopoInv, TopoInv', [TopoNext]_topoVars
  PROVE  [Order!ENext]_(Order!evars)
<1> USE DEF Order!evars
<1>1. CASE BuildStep
  <2>1. leaves = <<>> /\ pc = "build" /\ Build /\ UNCHANGED <<leaves, pc, ordered>>
    BY <1>1 DEF BuildStep, tvars, TopoInv, Unstarted
  <2> QED
    BY <2>1, SameBuild DEF Order!ENext, Order!EBuild
<1>2. CASE CallPipeline
  <2>1. /\ leaves = <<>> /\ leaves' \in Seq(StepIds) /\ pc = "build" /\ pc' = "leaf"
        /\ UNCHANGED <<heap, ordered>>
    <3>1. StepIds' = StepIds
      BY <1>2 DEF CallPipeline, StepIds
    <3> QED
      BY <1>2, <3>1 DEF CallPipeline, TopoInv, Unstarted, TopoTypeOK
  <2> QED
    BY <2>1, SameNotions DEF Order!ENext, Order!EStart
<1>3. CASE RejectNoLeaves
  BY <1>3 DEF RejectNoLeaves
<1>4. ASSUME NEW s \in StepIds, pc # "ordered", ordered' = Append(ordered, s),
             UNCHANGED <<heap, leaves, pc>>, s \in Needed',
             Parent(s) # NoStep => Parent(s) \in ElementsOf(ordered),
             IsWait(s) \/ s \notin ElementsOf(ordered)
      PROVE  Order!EEmit(s)
  <2>1. Needed' = Reach(ElementsOf(leaves))
    BY <1>4, SameForest DEF TopoInv, Needed
  <2> QED
    BY <1>4, <2>1, SameNotions DEF Order!EEmit
<1>5. CASE EmitWaitLeaf
  <2> DEFINE w == leaves[at]
  <2>1. /\ pc = "leaf" /\ at <= Len(leaves) /\ IsWait(w) /\ ordered' = Append(ordered, w)
        /\ UNCHANGED <<heap, leaves, pc>>
    BY <1>5 DEF EmitWaitLeaf
  <2>2. w \in StepIds
    <3>1. leaves \in Seq(StepIds) /\ at \in Nat \ {0}
      BY DEF TopoInv, TopoTypeOK
    <3>2. at \in 1 .. Len(leaves)
      BY <2>1, <3>1, LenProperties
    <3> QED
      BY <3>1, <3>2, ElementOfSeq
  <2>3. Parent(w) = NoStep
    BY <2>1, <2>2, StepTypes DEF TopoInv, TopoTypeOK
  <2> HIDE DEF w
  <2>4. w \in Needed'
    <3>1. w \in ElementsOf(ordered')
      BY <2>1, <2>2, AppendFacts DEF TopoInv, TopoTypeOK
    <3> QED
      BY <3>1 DEF TopoInv, HoldsNeeded, ElementsOf
  <2> QED
    BY <1>4, <2>1, <2>2, <2>3, <2>4, SameNotions DEF Order!ENext
<1>6. CASE EmitFromChain
  <2> DEFINE s == LastOf(chain)
  <2>1. /\ pc = "emit" /\ chain # <<>>
        /\ ordered' = IF s \in seen THEN ordered ELSE Append(ordered, s)
        /\ UNCHANGED <<heap, leaves, pc>>
    BY <1>6 DEF EmitFromChain
  <2>2. s \in StepIds
    BY <2>1, FrontFacts DEF TopoInv, TopoTypeOK
  <2>3. Parent(s) # NoStep => Parent(s) \in ElementsOf(ordered)
    BY <2>1 DEF TopoInv, ChainLinked, SeenEmitted
  <2> HIDE DEF s
  <2>4. CASE s \in seen
    BY <2>1, <2>4
  <2>5. CASE s \notin seen
    <3>1. IsWait(s) \/ s \notin ElementsOf(ordered)
      BY <2>5 DEF TopoInv, SeenEmitted, ElementsOf
    <3>2. s \in Needed'
      <4>1. s \in ElementsOf(ordered')
        BY <2>1, <2>2, <2>5, AppendFacts DEF TopoInv, TopoTypeOK
      <4> QED
        BY <4>1 DEF TopoInv, HoldsNeeded, ElementsOf
    <3> QED
      BY <1>4, <2>1, <2>2, <2>3, <2>5, <3>1, <3>2, SameNotions DEF Order!ENext
  <2> QED
    BY <2>4, <2>5
<1>7. CASE ReturnOrder
  <2>1. /\ pc = "leaf" /\ pc' = "ordered" /\ UNCHANGED <<heap, leaves, ordered>>
        /\ leaves # <<>>
    BY <1>7 DEF ReturnOrder, TopoInv, Unstarted
  <2>2. ElementsOf(ordered) = Reach(ElementsOf(leaves))
    <3>1. ElementsOf(ordered)' = Needed'
      BY <2>1 DEF TopoInv, Complete, Needed
    <3>2. Needed' = Reach(ElementsOf(leaves))
      BY <2>1, SameForest DEF TopoInv, Needed
    <3> QED
      BY <2>1, <3>1, <3>2 DEF ElementsOf
  <2> QED
    BY <2>1, <2>2, SameNotions DEF Order!ENext, Order!EFinish
<1>8. CASE StartChain \/ Climb \/ StopClimb \/ NextLeaf
  BY <1>8 DEF StartChain, Climb, StopClimb, NextLeaf
<1>9. CASE Ended \/ UNCHANGED topoVars
  BY <1>9 DEF Ended, topoVars
<1> QED
  BY <1>1, <1>2, <1>3, <1>5, <1>6, <1>7, <1>8, <1>9 DEF TopoNext, Collect

(***************************************************************************)
(* _topo_collect implements the abstract order of EmissionOrder: for any   *)
(* forest and any leaves it emits what the leaves reach, each Step behind  *)
(* its parent and no Step but a wait twice, and stops when all of it is    *)
(* out.                                                                    *)
(***************************************************************************)
THEOREM CollectImplementsOrder == TopoSpec => OrderSpec
<1>1. TopoInit => Order!EInit
  BY DEF TopoInit, BuildInit, Order!EInit, Order!BuildInit
<1>2. TopoInv /\ TopoInv' /\ [TopoNext]_topoVars => [Order!ENext]_(Order!evars)
  BY StepImplementsOrder
<1> QED
  BY <1>1, <1>2, TopoInvariant, PTL DEF TopoSpec, OrderSpec, Order!ESpec

-----------------------------------------------------------------------------
(* The functions of Collection are recursive; that they exist is shown by  *)
(* tables of their values, extended number by number.                      *)

(* Induction over the numbers up to n, through the set they form.          *)
LEMMA UpTo ==
  ASSUME NEW n \in Nat, NEW P, 0 \in P, \A i \in 1 .. n : i - 1 \in P => i \in P
  PROVE  \A i \in 0 .. n : i \in P
<1> DEFINE R == {ss \in Nat \X Nat : ss[1] < ss[2]}
           missing == (0 .. n) \ P
<1>1. IsWellFoundedOn(R, Nat)
  BY NatLessThanWellFounded DEF OpToRel
<1>2. SUFFICES ASSUME missing # {} PROVE FALSE
  OBVIOUS
<1>3. missing \subseteq Nat
  OBVIOUS
<1>4. PICK x \in missing : \A y \in missing : ~(<<y, x>> \in R)
  <2> HIDE DEF R, missing
  <2> QED
    BY <1>1, <1>2, <1>3, WFMin
<1>5. x \in 1 .. n
  OBVIOUS
<1>6. x - 1 \in 0 .. n /\ x - 1 \in Nat /\ x - 1 < x /\ x \in Nat
  BY <1>5
<1>7. <<x - 1, x>> \in R
  BY <1>6
<1>8. x - 1 \notin missing
  BY <1>4, <1>7
<1> QED
  BY <1>5, <1>6, <1>8

(* A table of the fresh chains of the Steps up to n.                       *)
FreshAt(f, known, s) == IF s \in {NoStep} \cup known THEN <<>> ELSE Append(f[Parent(s)], s)
FreshTo(f, known, n) == f = [s \in 0 .. n |-> FreshAt(f, known, s)]

LEMMA FreshExists ==
  ASSUME WellFormed, NEW known, NEW n \in 0 .. Len(heap)
  PROVE  \E f : FreshTo(f, known, n)
<1> DEFINE P == {m \in 0 .. n : \E f : FreshTo(f, known, m)}
<1>0. Len(heap) \in Nat /\ n \in Nat
  BY LenProperties DEF WellFormed
<1>1. 0 \in P
  <2>1. FreshTo([s \in 0 .. 0 |-> <<>>], known, 0)
    BY DEF FreshTo, FreshAt, NoStep
  <2> QED
    BY <1>0, <2>1
<1>2. ASSUME NEW m \in 1 .. n, m - 1 \in P
      PROVE  m \in P
  <2>1. PICK f : FreshTo(f, known, m - 1)
    BY <1>2
  <2> DEFINE h == [s \in 0 .. m |-> IF s = m THEN FreshAt(f, known, m) ELSE f[s]]
  <2>2. \A s \in 0 .. m : s # m => s \in 0 .. m - 1
    BY <1>0
  <2>3. \A s \in 0 .. m - 1 : s \in 0 .. m /\ s # m
    BY <1>0
  <2>4. \A s \in 0 .. m - 1 : h[s] = f[s]
    BY <2>3
  <2>5. ASSUME NEW s \in 0 .. m
        PROVE  FreshAt(h, known, s) = FreshAt(f, known, s)
    <3> HIDE DEF h
    <3>1. CASE s \in {NoStep} \cup known
      BY <3>1 DEF FreshAt
    <3>2. CASE s \notin {NoStep} \cup known
      <4>1. s \in StepIds
        BY <1>0, <3>2 DEF StepIds, NoStep
      <4>2. Parent(s) \in 0 .. m - 1
        BY <1>0, <4>1, StepTypes
      <4> QED
        BY <2>4, <4>2 DEF FreshAt
    <3> QED
      BY <3>1, <3>2
  <2>6. ASSUME NEW s \in 0 .. m
        PROVE  h[s] = FreshAt(f, known, s)
    BY <2>1, <2>2 DEF FreshTo
  <2>7. h = [s \in 0 .. m |-> h[s]]
    OBVIOUS
  <2> HIDE DEF h
  <2>8. FreshTo(h, known, m)
    BY <2>5, <2>6, <2>7 DEF FreshTo
  <2> QED
    BY <2>8
<1> HIDE DEF P
<1>3. n \in P
  BY <1>0, <1>1, <1>2, UpTo
<1> QED
  BY <1>3 DEF P

LEMMA FreshUnfolds ==
  ASSUME WellFormed, NEW known, NEW s \in {NoStep} \cup StepIds
  PROVE  FreshChain(known)[s] = FreshAt(FreshChain(known), known, s)
<1> DEFINE Is(f) == f = [t \in {NoStep} \cup StepIds |-> FreshAt(f, known, t)]
           fresh == CHOOSE f : Is(f)
<1>0. Len(heap) \in Nat
  BY LenProperties DEF WellFormed
<1>1. {NoStep} \cup StepIds = 0 .. Len(heap)
  BY <1>0 DEF NoStep, StepIds
<1>2. \E f : Is(f)
  <2>1. PICK f : FreshTo(f, known, Len(heap))
    <3>1. Len(heap) \in 0 .. Len(heap)
      BY <1>0
    <3> QED
      BY <3>1, FreshExists
  <2>2. Is(f)
    BY <1>1, <2>1 DEF FreshTo
  <2> HIDE DEF Is
  <2> QED
    BY <2>2
<1>3. Is(fresh)
  <2> HIDE DEF Is
  <2> QED
    BY <1>2
<1>4. FreshChain(known) = fresh
  BY DEF FreshChain, FreshAt
<1> HIDE DEF fresh
<1> QED
  BY <1>3, <1>4

LEMMA FreshIsSeq ==
  ASSUME WellFormed, NEW known, NEW s \in {NoStep} \cup StepIds
  PROVE  FreshChain(known)[s] \in Seq(StepIds)
<1> DEFINE f == FreshChain(known)
           P == {m \in 0 .. Len(heap) : \A t \in 0 .. m : f[t] \in Seq(StepIds)}
<1>0. Len(heap) \in Nat
  BY LenProperties DEF WellFormed
<1>1. {NoStep} \cup StepIds = 0 .. Len(heap)
  BY <1>0 DEF NoStep, StepIds
<1>2. \A t \in 0 .. Len(heap) : f[t] = FreshAt(f, known, t)
  BY <1>1, FreshUnfolds
<1> HIDE DEF f
<1>3. f[0] \in Seq(StepIds)
  <2>1. f[0] = <<>>
    BY <1>0, <1>2 DEF FreshAt, NoStep
  <2> QED
    BY <2>1, EmptySeq
<1>4. 0 \in P
  <2>1. \A t \in 0 .. 0 : t = 0
    OBVIOUS
  <2> QED
    BY <1>0, <1>3, <2>1
<1>5. ASSUME NEW m \in 1 .. Len(heap), m - 1 \in P
      PROVE  m \in P
  <2>1. \A t \in 0 .. m - 1 : f[t] \in Seq(StepIds)
    BY <1>5
  <2>2. f[m] \in Seq(StepIds)
    <3>1. f[m] = FreshAt(f, known, m)
      BY <1>0, <1>2
    <3>2. m \in StepIds
      BY DEF StepIds
    <3>3. Parent(m) \in 0 .. m - 1
      BY <1>0, <3>2, StepTypes
    <3>4. f[Parent(m)] \in Seq(StepIds)
      BY <2>1, <3>3
    <3>5. Append(f[Parent(m)], m) \in Seq(StepIds)
      BY <3>2, <3>4, AppendFacts
    <3>6. <<>> \in Seq(StepIds)
      BY EmptySeq
    <3> QED
      BY <3>1, <3>5, <3>6 DEF FreshAt
  <2>3. \A t \in 0 .. m : t \in 0 .. m - 1 \/ t = m
    BY <1>0
  <2>4. m \in 0 .. Len(heap)
    BY <1>0
  <2> QED
    BY <2>1, <2>2, <2>3, <2>4
<1> HIDE DEF P
<1>6. Len(heap) \in P
  BY <1>0, <1>4, <1>5, UpTo
<1> QED
  BY <1>1, <1>6 DEF P, f

(* What is added for a leaf is a sequence of Steps.                        *)
LEMMA AddedIsSeq ==
  ASSUME WellFormed, NEW leafs \in Seq(StepIds), NEW n \in DOMAIN leafs
  PROVE  Added(leafs, n) \in Seq(StepIds)
<1>1. leafs[n] \in StepIds
  BY LenProperties, ElementOfSeq
<1>2. <<leafs[n]>> \in Seq(StepIds)
  BY <1>1
<1>3. FreshChain(SeenBefore(leafs, n))[leafs[n]] \in Seq(StepIds)
  BY <1>1, FreshIsSeq
<1> QED
  BY <1>2, <1>3 DEF Added

(* A table of what is emitted for the first leaves.                        *)
EmittedAt(f, leafs, n) == IF n = 0 THEN <<>> ELSE f[n - 1] \o Added(leafs, n)
EmittedTo(f, leafs, n) == f = [m \in 0 .. n |-> EmittedAt(f, leafs, m)]

LEMMA EmittedExists ==
  ASSUME NEW leafs, NEW n \in Nat
  PROVE  \E f : EmittedTo(f, leafs, n)
<1> DEFINE P == {m \in 0 .. n : \E f : EmittedTo(f, leafs, m)}
<1>1. 0 \in P
  <2>1. EmittedTo([m \in 0 .. 0 |-> <<>>], leafs, 0)
    BY DEF EmittedTo, EmittedAt
  <2> QED
    BY <2>1
<1>2. ASSUME NEW m \in 1 .. n, m - 1 \in P
      PROVE  m \in P
  <2>1. PICK f : EmittedTo(f, leafs, m - 1)
    BY <1>2
  <2> DEFINE h == [k \in 0 .. m |-> IF k = m THEN EmittedAt(f, leafs, m) ELSE f[k]]
  <2>2. \A k \in 0 .. m : k # m => k \in 0 .. m - 1
    OBVIOUS
  <2>3. \A k \in 0 .. m - 1 : k \in 0 .. m /\ k # m
    OBVIOUS
  <2>4. \A k \in 0 .. m - 1 : h[k] = f[k]
    BY <2>3
  <2>5. ASSUME NEW k \in 0 .. m
        PROVE  EmittedAt(h, leafs, k) = EmittedAt(f, leafs, k)
    <3> HIDE DEF h
    <3>1. CASE k = 0
      BY <3>1 DEF EmittedAt
    <3>2. CASE k # 0
      <4>1. k - 1 \in 0 .. m - 1
        BY <3>2
      <4> QED
        BY <2>4, <4>1 DEF EmittedAt
    <3> QED
      BY <3>1, <3>2
  <2>6. ASSUME NEW k \in 0 .. m
        PROVE  h[k] = EmittedAt(f, leafs, k)
    BY <2>1, <2>2 DEF EmittedTo
  <2>7. h = [k \in 0 .. m |-> h[k]]
    OBVIOUS
  <2> HIDE DEF h
  <2>8. EmittedTo(h, leafs, m)
    BY <2>5, <2>6, <2>7 DEF EmittedTo
  <2> QED
    BY <2>8
<1> HIDE DEF P
<1>3. n \in P
  BY <1>1, <1>2, UpTo
<1> QED
  BY <1>3 DEF P

LEMMA EmittedUnfolds ==
  ASSUME NEW leafs \in Seq(StepIds)
  PROVE  /\ CollectedUpTo(leafs)[0] = <<>>
         /\ \A n \in 1 .. Len(leafs) :
              CollectedUpTo(leafs)[n] = CollectedUpTo(leafs)[n - 1] \o Added(leafs, n)
<1> DEFINE Is(f) == f = [n \in 0 .. Len(leafs) |-> EmittedAt(f, leafs, n)]
           upTo == CHOOSE f : Is(f)
<1>0. Len(leafs) \in Nat
  BY LenProperties
<1>1. \E f : Is(f)
  <2>1. PICK f : EmittedTo(f, leafs, Len(leafs))
    BY <1>0, EmittedExists
  <2>2. Is(f)
    BY <2>1 DEF EmittedTo
  <2> HIDE DEF Is
  <2> QED
    BY <2>2
<1>2. Is(upTo)
  <2> HIDE DEF Is
  <2> QED
    BY <1>1
<1>3. CollectedUpTo(leafs) = upTo
  BY DEF CollectedUpTo, EmittedAt
<1> HIDE DEF upTo
<1>4. 0 \in 0 .. Len(leafs) /\ \A n \in 1 .. Len(leafs) : n \in 0 .. Len(leafs) /\ n # 0
  BY <1>0
<1> QED
  BY <1>2, <1>3, <1>4 DEF EmittedAt

-----------------------------------------------------------------------------
(* A chain read from its end: reversed(chain).                             *)
RootFirst(s) == [j \in 1 .. Len(s) |-> s[Len(s) + 1 - j]]

LEMMA RootFirstIsSeq ==
  ASSUME NEW T, NEW s \in Seq(T)
  PROVE  /\ RootFirst(s) \in Seq(T) /\ Len(RootFirst(s)) = Len(s)
         /\ DOMAIN RootFirst(s) = 1 .. Len(s)
         /\ \A j \in 1 .. Len(s) : RootFirst(s)[j] = s[Len(s) + 1 - j]
<1>1. Len(s) \in Nat /\ DOMAIN s = 1 .. Len(s)
  BY LenProperties
<1>2. \A j \in 1 .. Len(s) : Len(s) + 1 - j \in 1 .. Len(s)
  BY <1>1
<1>3. \A j \in 1 .. Len(s) : s[Len(s) + 1 - j] \in T
  BY <1>2, ElementOfSeq
<1>4. RootFirst(s) \in [1 .. Len(s) -> T]
  BY <1>3 DEF RootFirst
<1>5. RootFirst(s) \in Seq(T)
  BY <1>1, <1>4
<1>6. DOMAIN RootFirst(s) = 1 .. Len(s)
  BY DEF RootFirst
<1>7. Len(RootFirst(s)) = Len(s)
  BY <1>1, <1>5, <1>6, LenProperties
<1> QED
  BY <1>5, <1>6, <1>7 DEF RootFirst

LEMMA RootFirstOfNone == RootFirst(<<>>) = <<>>
<1>1. <<>> \in Seq({}) /\ Len(<<>>) = 0
  BY EmptySeq
<1>2. RootFirst(<<>>) \in Seq({}) /\ Len(RootFirst(<<>>)) = 0
  BY <1>1, RootFirstIsSeq
<1> QED
  BY <1>2, EmptySeq

(* The Step appended last comes first.                                     *)
LEMMA RootFirstOfAppend ==
  ASSUME NEW T, NEW s \in Seq(T), NEW e \in T
  PROVE  RootFirst(Append(s, e)) = <<e>> \o RootFirst(s)
<1> DEFINE a == Append(s, e)
<1>1. /\ a \in Seq(T) /\ Len(s) \in Nat /\ Len(a) = Len(s) + 1
      /\ \A i \in 1 .. Len(s) : a[i] = s[i]
      /\ a[Len(s) + 1] = e
  BY AppendFacts
<1> HIDE DEF a
<1>2. /\ RootFirst(a) \in Seq(T) /\ Len(RootFirst(a)) = Len(s) + 1
      /\ \A j \in 1 .. Len(s) + 1 : RootFirst(a)[j] = a[Len(s) + 2 - j]
  BY <1>1, RootFirstIsSeq
<1>3. /\ RootFirst(s) \in Seq(T) /\ Len(RootFirst(s)) = Len(s)
      /\ \A j \in 1 .. Len(s) : RootFirst(s)[j] = s[Len(s) + 1 - j]
  BY RootFirstIsSeq
<1>4. <<e>> \in Seq(T) /\ Len(<<e>>) = 1 /\ <<e>>[1] = e
  OBVIOUS
<1>5. /\ <<e>> \o RootFirst(s) \in Seq(T) /\ Len(<<e>> \o RootFirst(s)) = Len(s) + 1
      /\ \A j \in 1 .. Len(s) + 1 :
           (<<e>> \o RootFirst(s))[j] = IF j <= 1 THEN <<e>>[j] ELSE RootFirst(s)[j - 1]
  <2> HIDE DEF a
  <2>1. 1 + Len(s) = Len(s) + 1
    BY <1>1
  <2> QED
    BY <1>3, <1>4, <2>1, ConcatProperties
<1>6. ASSUME NEW j \in 1 .. Len(s) + 1
      PROVE  RootFirst(a)[j] = (<<e>> \o RootFirst(s))[j]
  <2>1. CASE j = 1
    <3>1. RootFirst(a)[j] = a[Len(s) + 1]
      BY <1>1, <1>2, <2>1
    <3> QED
      BY <1>1, <1>4, <1>5, <2>1, <3>1
  <2>2. CASE j # 1
    <3>1. j - 1 \in 1 .. Len(s) /\ Len(s) + 2 - j \in 1 .. Len(s)
          /\ Len(s) + 1 - (j - 1) = Len(s) + 2 - j /\ ~(j <= 1)
      BY <1>1, <2>2
    <3>2. RootFirst(a)[j] = s[Len(s) + 2 - j]
      BY <1>1, <1>2, <3>1
    <3>3. RootFirst(s)[j - 1] = s[Len(s) + 2 - j]
      BY <1>3, <3>1
    <3> QED
      BY <1>5, <3>1, <3>2, <3>3
  <2> QED
    BY <2>1, <2>2
<1>7. RootFirst(a) = <<e>> \o RootFirst(s)
  BY <1>1, <1>2, <1>5, <1>6, SeqEqual
<1> QED
  BY <1>7 DEF a

LEMMA FrontThenLast ==
  ASSUME NEW T, NEW s \in Seq(T), s # <<>>
  PROVE  s = Append(FrontOf(s), LastOf(s))
<1>1. /\ FrontOf(s) \in Seq(T) /\ LastOf(s) \in T /\ Len(s) \in Nat \ {0}
      /\ Len(FrontOf(s)) = Len(s) - 1 /\ LastOf(s) = s[Len(s)]
      /\ \A i \in 1 .. Len(s) - 1 : FrontOf(s)[i] = s[i]
  BY FrontFacts
<1> DEFINE a == Append(FrontOf(s), LastOf(s))
<1>2. /\ a \in Seq(T) /\ Len(a) = Len(FrontOf(s)) + 1
      /\ \A i \in 1 .. Len(FrontOf(s)) : a[i] = FrontOf(s)[i]
      /\ a[Len(FrontOf(s)) + 1] = LastOf(s)
  BY <1>1, AppendFacts
<1> HIDE DEF a
<1>3. Len(FrontOf(s)) + 1 = Len(s)
  BY <1>1
<1>4. ASSUME NEW i \in 1 .. Len(s)
      PROVE  a[i] = s[i]
  <2>1. CASE i = Len(s)
    BY <1>1, <1>2, <1>3, <2>1
  <2>2. CASE i # Len(s)
    <3>1. i \in 1 .. Len(s) - 1
      BY <1>1, <2>2
    <3> QED
      BY <1>1, <1>2, <3>1
  <2> QED
    BY <2>1, <2>2
<1>5. a = s
  BY <1>1, <1>2, <1>3, <1>4, SeqEqual
<1> QED
  BY <1>5 DEF a

(* Moving the first of a tail to the end of what is in front of it changes *)
(* nothing.                                                                *)
LEMMA MoveOver ==
  ASSUME NEW T, NEW s \in Seq(T), NEW e \in T, NEW t \in Seq(T)
  PROVE  Append(s, e) \o t = s \o (<<e>> \o t)
<1>1. <<e>> \in Seq(T)
  OBVIOUS
<1>2. Append(s, e) = s \o <<e>>
  BY AppendIsConcat
<1>3. (s \o <<e>>) \o t = s \o (<<e>> \o t)
  BY <1>1, ConcatAssociative
<1> QED
  BY <1>2, <1>3

-----------------------------------------------------------------------------
(* What SeenBefore computes: nothing at first, the same again behind a     *)
(* wait, and otherwise what the chain of the leaf reaches on top.          *)
ChainLeaves(leafs, n) == {leafs[m] : m \in {k \in 1 .. n - 1 : ~IsWait(leafs[k])}}

LEMMA SeenBeforeFacts ==
  ASSUME WellFormed, NEW leafs \in Seq(StepIds), NEW n \in 1 .. Len(leafs)
  PROVE  /\ ParentClosed(SeenBefore(leafs, n)) /\ SeenBefore(leafs, n) \subseteq StepIds
         /\ ChainLeaves(leafs, n) \subseteq SeenBefore(leafs, n)
         /\ ChainLeaves(leafs, n + 1) = IF IsWait(leafs[n]) THEN ChainLeaves(leafs, n)
                                        ELSE ChainLeaves(leafs, n) \cup {leafs[n]}
         /\ ChainLeaves(leafs, n + 1) \subseteq StepIds
<1>1. Len(leafs) \in Nat /\ n \in Nat /\ n \in 1 .. n
  BY LenProperties
<1>2. /\ \A m \in 1 .. n : m \in 1 .. Len(leafs)
      /\ \A m \in 1 .. n : m \in 1 .. n - 1 \/ m = n
      /\ \A m \in 1 .. n - 1 : m \in 1 .. n
      /\ (n + 1) - 1 = n
  BY <1>1
<1>3. \A m \in 1 .. n : leafs[m] \in StepIds
  BY <1>2, ElementOfSeq
<1>4. /\ ChainLeaves(leafs, n) = {leafs[m] : m \in {k \in 1 .. n - 1 : ~IsWait(leafs[k])}}
      /\ ChainLeaves(leafs, n + 1) = {leafs[m] : m \in {k \in 1 .. n : ~IsWait(leafs[k])}}
  BY <1>2 DEF ChainLeaves
<1>5. ChainLeaves(leafs, n) \subseteq StepIds /\ ChainLeaves(leafs, n + 1) \subseteq StepIds
  BY <1>2, <1>3, <1>4
<1>6. ChainLeaves(leafs, n + 1) = IF IsWait(leafs[n]) THEN ChainLeaves(leafs, n)
                                  ELSE ChainLeaves(leafs, n) \cup {leafs[n]}
  BY <1>1, <1>2, <1>4
<1>7. SeenBefore(leafs, n) = Reach(ChainLeaves(leafs, n))
  BY DEF SeenBefore, ChainLeaves
<1>8. ChainLeaves(leafs, n) \subseteq SeenBefore(leafs, n)
  BY <1>5, <1>7, ReachHolds
<1>9. ParentClosed(SeenBefore(leafs, n))
  BY <1>7, ReachClosed
<1>10. SeenBefore(leafs, n) \subseteq StepIds
  BY <1>7 DEF Reach
<1> QED
  BY <1>5, <1>6, <1>8, <1>9, <1>10

LEMMA SeenAfter ==
  ASSUME WellFormed, NEW leafs \in Seq(StepIds), NEW n \in 1 .. Len(leafs)
  PROVE  /\ IsWait(leafs[n]) => SeenBefore(leafs, n + 1) = SeenBefore(leafs, n)
         /\ ParentClosed(SeenBefore(leafs, n + 1)) /\ SeenBefore(leafs, n + 1) \subseteq StepIds
         /\ SeenBefore(leafs, n) \subseteq SeenBefore(leafs, n + 1)
         /\ ~IsWait(leafs[n]) => leafs[n] \in SeenBefore(leafs, n + 1)
         /\ \A C \in SUBSET StepIds :
              SeenBefore(leafs, n) \subseteq C /\ leafs[n] \in C /\ ParentClosed(C)
                => SeenBefore(leafs, n + 1) \subseteq C
<1> DEFINE L == ChainLeaves(leafs, n)
           M == ChainLeaves(leafs, n + 1)
<1>1. SeenBefore(leafs, n) = Reach(L) /\ SeenBefore(leafs, n + 1) = Reach(M)
  BY DEF SeenBefore, ChainLeaves
<1>2. /\ L \subseteq Reach(L) /\ M \subseteq StepIds
      /\ M = IF IsWait(leafs[n]) THEN L ELSE L \cup {leafs[n]}
  <2>1. L \subseteq SeenBefore(leafs, n) /\ M \subseteq StepIds
    BY SeenBeforeFacts
  <2>2. M = IF IsWait(leafs[n]) THEN L ELSE L \cup {leafs[n]}
    BY SeenBeforeFacts
  <2> QED
    BY <1>1, <2>1, <2>2
<1> HIDE DEF L, M
<1>3. M \subseteq Reach(M) /\ ParentClosed(Reach(M)) /\ Reach(M) \subseteq StepIds
  <2>1. Reach(M) \subseteq StepIds
    BY DEF Reach
  <2> QED
    BY <1>2, <2>1, ReachHolds, ReachClosed
<1>4. Reach(L) \subseteq Reach(M)
  <2>1. L \subseteq Reach(M) /\ Reach(M) \in SUBSET StepIds
    BY <1>2, <1>3
  <2> QED
    BY <1>3, <2>1, ReachLeast
<1>5. ASSUME NEW C \in SUBSET StepIds, Reach(L) \subseteq C, leafs[n] \in C, ParentClosed(C)
      PROVE  Reach(M) \subseteq C
  <2>1. M \subseteq C
    BY <1>2, <1>5
  <2> QED
    BY <1>5, <2>1, ReachLeast
<1> QED
  BY <1>1, <1>2, <1>3, <1>4, <1>5

LEMMA NothingSeenFirst == ASSUME NEW leafs PROVE SeenBefore(leafs, 1) = {}
<1> DEFINE L == {leafs[m] : m \in {k \in 1 .. 1 - 1 : ~IsWait(leafs[k])}}
<1>1. L = {}
  OBVIOUS
<1>2. SeenBefore(leafs, 1) = Reach(L)
  BY DEF SeenBefore
<1> HIDE DEF L
<1>3. ParentClosed({}) /\ {} \in SUBSET StepIds
  BY DEF ParentClosed
<1>4. Reach(L) \subseteq {}
  BY <1>1, <1>3, ReachLeast
<1> QED
  BY <1>2, <1>4

(* The functions of Collection look at the forest and their arguments.     *)
LEMMA SameCollection ==
  ASSUME UNCHANGED <<heap, leaves>>
  PROVE  /\ CollectedUpTo(leaves)' = CollectedUpTo(leaves)
         /\ Collected(leaves)' = Collected(leaves)
         /\ \A n : SeenBefore(leaves, n)' = SeenBefore(leaves, n)
<1>1. StepIds' = StepIds /\ (\A s : Parent(s)' = Parent(s)) /\ (\A s : IsWait(s)' = IsWait(s))
  BY DEF StepIds, Parent, IsWait
<1>2. \A S : Reach(S)' = Reach(S)
  BY <1>1 DEF Reach, ParentClosed
<1>3. CollectedUpTo(leaves)' = CollectedUpTo(leaves)
  BY DEF CollectedUpTo, Added, FreshChain, SeenBefore, Reach, ParentClosed, StepIds, Parent, IsWait
<1>4. Collected(leaves)' = Collected(leaves)
  BY <1>3 DEF Collected
<1>5. \A n : SeenBefore(leaves, n)' = SeenBefore(leaves, n)
  BY DEF SeenBefore, Reach, ParentClosed, StepIds, Parent, IsWait
<1> QED
  BY <1>3, <1>4, <1>5

-----------------------------------------------------------------------------
(***************************************************************************)
(* The invariant behind ResultIsCollected.  What has been emitted for the  *)
(* leaves passed is what CollectedUpTo says, and what is seen is what they *)
(* reach.  Of the chain of the leaf at hand, the part above `node` is in   *)
(* `chain`; once it is being emitted, the rest of it completes the result. *)
(***************************************************************************)
PassedCollected ==
  /\ pc \in {"leaf", "climb"} => /\ ordered = CollectedUpTo(leaves)[at - 1]
                                 /\ seen = SeenBefore(leaves, at)
  /\ pc = "leaf" => at <= Len(leaves) + 1

ChainIsFresh ==
  /\ \A i, j \in DOMAIN chain : i < j => chain[j] < chain[i]
  /\ ElementsOf(chain) \cap seen = {}

ClimbCollects ==
  pc = "climb" =>
    /\ ~IsWait(leaves[at])
    /\ \A i \in DOMAIN chain : node < chain[i]
    /\ ElementsOf(chain) \subseteq SeenBefore(leaves, at + 1)
    /\ node \in SeenBefore(leaves, at + 1) \cup {NoStep}
    /\ FreshChain(seen)[leaves[at]] = FreshChain(seen)[node] \o RootFirst(chain)

EmitCollects ==
  pc = "emit" =>
    /\ ordered \o RootFirst(chain) = CollectedUpTo(leaves)[at]
    /\ seen \cup ElementsOf(chain) = SeenBefore(leaves, at + 1)

CollectedInv ==
  /\ PassedCollected /\ ChainIsFresh /\ ClimbCollects /\ EmitCollects /\ ResultIsCollected

-----------------------------------------------------------------------------
(* The invariant is kept, action by action.                                *)
LEMMA CollectedTypes ==
  ASSUME TopoInv
  PROVE  /\ WellFormed /\ leaves \in Seq(StepIds) /\ at \in Nat \ {0} /\ chain \in Seq(StepIds)
         /\ node \in StepIds \cup {NoStep} /\ seen \subseteq StepIds /\ ordered \in Seq(StepIds)
         /\ Len(leaves) \in Nat /\ DOMAIN leaves = 1 .. Len(leaves)
         /\ \A n \in 1 .. Len(leaves) : leaves[n] \in StepIds
         /\ pc \in {"climb", "emit"} => at \in 1 .. Len(leaves)
         /\ pc \notin {"climb", "emit"} => chain = <<>>
<1>1. /\ WellFormed /\ leaves \in Seq(StepIds) /\ at \in Nat \ {0} /\ chain \in Seq(StepIds)
      /\ node \in StepIds \cup {NoStep} /\ seen \subseteq StepIds /\ ordered \in Seq(StepIds)
  BY DEF TopoInv, TopoTypeOK
<1>2. Len(leaves) \in Nat /\ DOMAIN leaves = 1 .. Len(leaves)
  BY <1>1, LenProperties
<1>3. \A n \in 1 .. Len(leaves) : leaves[n] \in StepIds
  BY <1>1, ElementOfSeq
<1>4. /\ pc \in {"climb", "emit"} => at \in 1 .. Len(leaves)
      /\ pc \notin {"climb", "emit"} => chain = <<>>
  BY <1>2 DEF TopoInv, LeavesCovered, ChainLinked
<1> QED
  BY <1>1, <1>2, <1>3, <1>4

LEMMA SameFresh ==
  ASSUME UNCHANGED <<heap, seen>>
  PROVE  FreshChain(seen)' = FreshChain(seen)
BY DEF FreshChain, StepIds, Parent

LEMMA EmptyChain == ASSUME chain = <<>> PROVE ElementsOf(chain) = {} /\ DOMAIN chain = {}
BY DEF ElementsOf

LEMMA CallCollects ==
  ASSUME TopoInv, TopoInv', CallPipeline
  PROVE  CollectedInv'
<1>1. /\ pc' = "leaf" /\ at = 1 /\ chain = <<>> /\ seen = {} /\ ordered = <<>>
      /\ UNCHANGED <<heap, at, chain, seen, ordered>>
  BY DEF TopoInv, Unstarted, CallPipeline
<1>2. /\ leaves' \in Seq(StepIds') /\ StepIds' = StepIds /\ Len(leaves') \in Nat
  <2>1. leaves' \in Seq(StepIds') /\ StepIds' = StepIds
    BY <1>1 DEF TopoInv, TopoTypeOK, StepIds
  <2> QED
    BY <2>1, LenProperties
<1>3. CollectedUpTo(leaves)' = CollectedUpTo(leaves')
  BY <1>1 DEF CollectedUpTo, Added, FreshChain, SeenBefore, Reach, ParentClosed, StepIds, Parent, IsWait
<1>4. CollectedUpTo(leaves')[0] = <<>>
  BY <1>2, EmittedUnfolds
<1>5. SeenBefore(leaves, 1)' = SeenBefore(leaves', 1)
  BY <1>1 DEF SeenBefore, Reach, ParentClosed, StepIds, Parent, IsWait
<1>6. SeenBefore(leaves', 1) = {}
  BY NothingSeenFirst
<1>7. at' - 1 = 0 /\ at' = 1 /\ at' <= Len(leaves') + 1
  BY <1>1, <1>2
<1>8. PassedCollected'
  BY <1>1, <1>3, <1>4, <1>5, <1>6, <1>7 DEF PassedCollected
<1>9. ChainIsFresh'
  BY <1>1 DEF ChainIsFresh, ElementsOf
<1>10. ClimbCollects' /\ EmitCollects' /\ ResultIsCollected'
  BY <1>1 DEF ClimbCollects, EmitCollects, ResultIsCollected
<1> QED
  BY <1>8, <1>9, <1>10 DEF CollectedInv

LEMMA WaitCollects ==
  ASSUME TopoInv, CollectedInv, EmitWaitLeaf
  PROVE  CollectedInv'
<1>1. /\ pc = "leaf" /\ at <= Len(leaves) /\ IsWait(leaves[at])
      /\ ordered' = Append(ordered, leaves[at]) /\ at' = at + 1
      /\ UNCHANGED <<heap, leaves, pc, chain, node, seen>>
  BY DEF EmitWaitLeaf
<1>2. /\ at \in 1 .. Len(leaves) /\ leaves[at] \in StepIds /\ Len(leaves) \in Nat
      /\ leaves \in Seq(StepIds) /\ WellFormed /\ ordered \in Seq(StepIds) /\ chain = <<>>
  <2>1. at \in 1 .. Len(leaves)
    BY <1>1, CollectedTypes
  <2> QED
    BY <1>1, <2>1, CollectedTypes
<1>3. ordered = CollectedUpTo(leaves)[at - 1] /\ seen = SeenBefore(leaves, at)
  BY <1>1 DEF CollectedInv, PassedCollected
<1>4. ordered' = CollectedUpTo(leaves)[at]
  <2>1. Added(leaves, at) = <<leaves[at]>>
    BY <1>1 DEF Added
  <2>2. CollectedUpTo(leaves)[at] = ordered \o <<leaves[at]>>
    BY <1>2, <1>3, <2>1, EmittedUnfolds
  <2>3. Append(ordered, leaves[at]) = ordered \o <<leaves[at]>>
    BY <1>2, AppendIsConcat
  <2> QED
    BY <1>1, <2>2, <2>3
<1>5. seen = SeenBefore(leaves, at + 1)
  BY <1>1, <1>2, <1>3, SeenAfter
<1>6. at' - 1 = at /\ at' <= Len(leaves) + 1
  BY <1>1, <1>2
<1>7. PassedCollected'
  BY <1>1, <1>4, <1>5, <1>6, SameCollection DEF PassedCollected
<1>8. ChainIsFresh'
  BY <1>1 DEF CollectedInv, ChainIsFresh, ElementsOf
<1>9. ClimbCollects' /\ EmitCollects' /\ ResultIsCollected'
  BY <1>1 DEF ClimbCollects, EmitCollects, ResultIsCollected
<1> QED
  BY <1>7, <1>8, <1>9 DEF CollectedInv

LEMMA StartCollects ==
  ASSUME TopoInv, CollectedInv, StartChain
  PROVE  CollectedInv'
<1>1. /\ pc = "leaf" /\ pc' = "climb" /\ at <= Len(leaves) /\ node' = leaves[at]
      /\ ~IsWait(leaves[at]) /\ UNCHANGED <<heap, leaves, at, chain, seen, ordered>>
  BY DEF StartChain
<1>2. /\ at \in 1 .. Len(leaves) /\ leaves[at] \in StepIds
      /\ leaves \in Seq(StepIds) /\ WellFormed /\ chain = <<>>
  <2>1. at \in 1 .. Len(leaves)
    BY <1>1, CollectedTypes
  <2> QED
    BY <1>1, <2>1, CollectedTypes
<1>3. PassedCollected'
  BY <1>1, SameCollection DEF CollectedInv, PassedCollected
<1>4. ChainIsFresh'
  BY <1>1 DEF CollectedInv, ChainIsFresh, ElementsOf
<1>5. leaves[at] \in SeenBefore(leaves, at + 1)
  BY <1>1, <1>2, SeenAfter
<1>6. FreshChain(seen)[leaves[at]] = FreshChain(seen)[leaves[at]] \o RootFirst(chain)
  <2>1. FreshChain(seen)[leaves[at]] \in Seq(StepIds)
    BY <1>2, FreshIsSeq
  <2> QED
    BY <1>2, <2>1, RootFirstOfNone, ConcatEmptySeq
<1>7. FreshChain(seen)' = FreshChain(seen)
  BY <1>1, SameFresh
<1>8. RootFirst(chain)' = RootFirst(chain)
  BY <1>1 DEF RootFirst
<1>9. ClimbCollects'
  <2>1. ElementsOf(chain) = {} /\ DOMAIN chain = {}
    BY <1>2, EmptyChain
  <2>2. ElementsOf(chain') = {} /\ DOMAIN chain' = {}
    BY <1>1, <2>1
  <2>3. SeenBefore(leaves, at + 1)' = SeenBefore(leaves, at + 1)
    BY <1>1 DEF SeenBefore, Reach, ParentClosed, StepIds, Parent, IsWait
  <2>4. FreshChain(seen)'[leaves'[at']] = FreshChain(seen)'[node'] \o RootFirst(chain)'
    BY <1>1, <1>6, <1>7, <1>8
  <2> QED
    BY <1>1, <1>5, <2>2, <2>3, <2>4 DEF ClimbCollects, ElementsOf, IsWait
<1>10. EmitCollects' /\ ResultIsCollected'
  BY <1>1 DEF EmitCollects, ResultIsCollected
<1> QED
  BY <1>3, <1>4, <1>9, <1>10 DEF CollectedInv

LEMMA ClimbCollectsOn ==
  ASSUME TopoInv, CollectedInv, Climb
  PROVE  CollectedInv'
<1>1. /\ pc = "climb" /\ node # NoStep /\ node \notin seen
      /\ chain' = Append(chain, node) /\ node' = Parent(node)
      /\ UNCHANGED <<heap, leaves, pc, at, seen, ordered>>
  BY DEF Climb
<1>2. /\ at \in 1 .. Len(leaves) /\ node \in StepIds /\ WellFormed /\ chain \in Seq(StepIds)
      /\ leaves \in Seq(StepIds)
  BY <1>1, CollectedTypes
<1>3. /\ Parent(node) \in Nat /\ Parent(node) < node /\ node \in Nat
      /\ Parent(node) \in StepIds \cup {NoStep}
  BY <1>2, StepTypes
<1>4. /\ chain' \in Seq(StepIds) /\ Len(chain) \in Nat
      /\ DOMAIN chain = 1 .. Len(chain) /\ DOMAIN chain' = 1 .. Len(chain) + 1
      /\ \A i \in 1 .. Len(chain) : chain'[i] = chain[i]
      /\ chain'[Len(chain) + 1] = node
      /\ ElementsOf(chain') = ElementsOf(chain) \cup {node}
  BY <1>1, <1>2, AppendFacts
<1>5. /\ \A i \in DOMAIN chain : node < chain[i]
      /\ ElementsOf(chain) \subseteq SeenBefore(leaves, at + 1)
      /\ node \in SeenBefore(leaves, at + 1)
      /\ FreshChain(seen)[leaves[at]] = FreshChain(seen)[node] \o RootFirst(chain)
      /\ \A i, j \in DOMAIN chain : i < j => chain[j] < chain[i]
      /\ ElementsOf(chain) \cap seen = {} /\ ~IsWait(leaves[at])
  BY <1>1 DEF CollectedInv, ClimbCollects, ChainIsFresh
<1>6. /\ PassedCollected' /\ EmitCollects' /\ ResultIsCollected'
  BY <1>1, SameCollection DEF CollectedInv, PassedCollected, EmitCollects, ResultIsCollected
<1>7. \A i \in DOMAIN chain' : i \in DOMAIN chain \/ i = Len(chain) + 1
  BY <1>4
<1>8. ChainIsFresh'
  <2>1. ASSUME NEW i \in DOMAIN chain', NEW j \in DOMAIN chain', i < j
        PROVE  chain'[j] < chain'[i]
    <3>1. i \in DOMAIN chain
      BY <1>4, <2>1
    <3>2. CASE j \in DOMAIN chain
      BY <1>4, <1>5, <2>1, <3>1, <3>2
    <3>3. CASE j = Len(chain) + 1
      BY <1>4, <1>5, <3>1, <3>3
    <3> QED
      BY <1>7, <3>2, <3>3
  <2>2. ElementsOf(chain') \cap seen' = {}
    BY <1>1, <1>4, <1>5
  <2>3. ElementsOf(chain)' = ElementsOf(chain')
    BY DEF ElementsOf
  <2> QED
    BY <2>1, <2>2, <2>3 DEF ChainIsFresh
<1>9. \A i \in DOMAIN chain' : Parent(node) < chain'[i]
  <2>1. ASSUME NEW i \in DOMAIN chain'
        PROVE  Parent(node) < chain'[i]
    <3>1. CASE i \in DOMAIN chain
      <4>1. chain[i] \in Nat
        <5>1. chain[i] \in StepIds
          BY <1>2, <1>4, <3>1, ElementOfSeq
        <5> QED
          BY <1>2, <5>1, StepTypes
      <4> QED
        BY <1>3, <1>4, <1>5, <3>1, <4>1
    <3>2. CASE i = Len(chain) + 1
      BY <1>3, <1>4, <3>2
    <3> QED
      BY <1>7, <3>1, <3>2
  <2> QED
    BY <2>1
<1>10. Parent(node) \in SeenBefore(leaves, at + 1) \cup {NoStep}
  <2>1. ParentClosed(SeenBefore(leaves, at + 1))
    BY <1>2, SeenAfter
  <2> QED
    BY <1>5, <2>1 DEF ParentClosed
<1>11. FreshChain(seen)[leaves[at]] = FreshChain(seen)[Parent(node)] \o RootFirst(chain')
  <2> DEFINE f == FreshChain(seen)
  <2>1. f[node] = Append(f[Parent(node)], node)
    <3>1. f[node] = FreshAt(f, seen, node)
      BY <1>2, FreshUnfolds
    <3> QED
      BY <1>1, <3>1 DEF FreshAt
  <2>2. f[Parent(node)] \in Seq(StepIds)
    BY <1>2, <1>3, FreshIsSeq
  <2> HIDE DEF f
  <2>3. RootFirst(chain) \in Seq(StepIds)
    BY <1>2, RootFirstIsSeq
  <2>4. Append(f[Parent(node)], node) \o RootFirst(chain)
          = f[Parent(node)] \o (<<node>> \o RootFirst(chain))
    <3> DEFINE rest == f[Parent(node)]
               tail == RootFirst(chain)
    <3>1. rest \in Seq(StepIds) /\ tail \in Seq(StepIds) /\ node \in StepIds
      BY <1>2, <2>2, <2>3
    <3> HIDE DEF rest, tail
    <3>2. Append(rest, node) \o tail = rest \o (<<node>> \o tail)
      BY <3>1, MoveOver
    <3> QED
      BY <3>2 DEF rest, tail
  <2>5. RootFirst(chain') = <<node>> \o RootFirst(chain)
    BY <1>1, <1>2, RootFirstOfAppend
  <2>6. f[leaves[at]] = f[node] \o RootFirst(chain)
    BY <1>5 DEF f
  <2>7. f[leaves[at]] = f[Parent(node)] \o RootFirst(chain')
    BY <2>1, <2>4, <2>5, <2>6
  <2> QED
    BY <2>7 DEF f
<1>12. ClimbCollects'
  <2>1. FreshChain(seen)' = FreshChain(seen)
    BY <1>1, SameFresh
  <2>2. RootFirst(chain)' = RootFirst(chain')
    BY DEF RootFirst
  <2>3. ElementsOf(chain)' = ElementsOf(chain')
    BY DEF ElementsOf
  <2>4. SeenBefore(leaves, at + 1)' = SeenBefore(leaves, at + 1)
    BY <1>1 DEF SeenBefore, Reach, ParentClosed, StepIds, Parent, IsWait
  <2>5. FreshChain(seen)'[leaves'[at']] = FreshChain(seen)'[node'] \o RootFirst(chain)'
    BY <1>1, <1>11, <2>1, <2>2
  <2> QED
    BY <1>1, <1>4, <1>5, <1>9, <1>10, <2>3, <2>4, <2>5 DEF ClimbCollects, IsWait
<1> QED
  BY <1>6, <1>8, <1>12 DEF CollectedInv

(* The climb has ended at a Step seen, or above a root: the chain is what  *)
(* the function adds for the leaf.                                         *)
LEMMA StopCollects ==
  ASSUME TopoInv, CollectedInv, StopClimb
  PROVE  CollectedInv'
<1>1. /\ pc = "climb" /\ pc' = "emit" /\ node \in {NoStep} \cup seen
      /\ UNCHANGED <<heap, leaves, at, chain, node, seen, ordered>>
  BY DEF StopClimb
<1>2. /\ at \in 1 .. Len(leaves) /\ WellFormed /\ chain \in Seq(StepIds)
      /\ leaves \in Seq(StepIds) /\ leaves[at] \in StepIds /\ node \in {NoStep} \cup StepIds
      /\ ordered \in Seq(StepIds) /\ seen \subseteq StepIds
  BY <1>1, CollectedTypes
<1>3. /\ ordered = CollectedUpTo(leaves)[at - 1] /\ seen = SeenBefore(leaves, at)
      /\ ElementsOf(chain) \subseteq SeenBefore(leaves, at + 1)
      /\ FreshChain(seen)[leaves[at]] = FreshChain(seen)[node] \o RootFirst(chain)
  BY <1>1 DEF CollectedInv, PassedCollected, ClimbCollects
<1>4. ~IsWait(leaves[at])
  BY <1>1 DEF CollectedInv, ClimbCollects
<1>5. FreshChain(seen)[leaves[at]] = RootFirst(chain)
  <2>1. FreshChain(seen)[node] = FreshAt(FreshChain(seen), seen, node)
    BY <1>2, FreshUnfolds
  <2>2. FreshChain(seen)[node] = <<>>
    BY <1>1, <2>1 DEF FreshAt
  <2>3. RootFirst(chain) \in Seq(StepIds)
    BY <1>2, RootFirstIsSeq
  <2> QED
    BY <1>3, <2>2, <2>3, ConcatEmptySeq
<1>6. ordered \o RootFirst(chain) = CollectedUpTo(leaves)[at]
  <2>1. Added(leaves, at) = FreshChain(SeenBefore(leaves, at))[leaves[at]]
    BY <1>4 DEF Added
  <2>2. Added(leaves, at) = RootFirst(chain)
    BY <1>3, <1>5, <2>1
  <2> QED
    BY <1>2, <1>3, <2>2, EmittedUnfolds
<1>7. seen \cup ElementsOf(chain) = SeenBefore(leaves, at + 1)
  <2> DEFINE C == seen \cup ElementsOf(chain)
  <2>1. DOMAIN chain = 1 .. Len(chain) /\ Len(chain) \in Nat
    BY <1>2, LenProperties
  <2>2. C \in SUBSET StepIds
    <3>1. \A i \in DOMAIN chain : chain[i] \in StepIds
      BY <1>2, <2>1, ElementOfSeq
    <3> QED
      BY <1>2, <3>1 DEF ElementsOf
  <2>3. ParentClosed(C)
    <3> SUFFICES ASSUME NEW s \in C, Parent(s) # NoStep
                 PROVE  Parent(s) \in C
      BY DEF ParentClosed
    <3>1. CASE s \in seen
      BY <3>1 DEF TopoInv, SeenEmitted, ParentClosed
    <3>2. CASE s \in ElementsOf(chain)
      <4>1. PICK j \in DOMAIN chain : s = chain[j]
        BY <3>2 DEF ElementsOf
      <4>2. CASE j = Len(chain)
        <5>1. chain # <<>>
          BY <4>1
        <5>2. node = Parent(s)
          BY <1>1, <4>1, <4>2, <5>1 DEF TopoInv, ChainLinked, LastOf
        <5> QED
          BY <1>1, <5>2
      <4>3. CASE j # Len(chain)
        <5>1. j \in 1 .. Len(chain) - 1 /\ j + 1 \in DOMAIN chain
          BY <2>1, <4>1, <4>3
        <5>2. Parent(s) = chain[j + 1]
          BY <4>1, <5>1 DEF TopoInv, ChainLinked
        <5> QED
          BY <5>1, <5>2 DEF ElementsOf
      <4> QED
        BY <4>2, <4>3
    <3> QED
      BY <3>1, <3>2
  <2>4. leaves[at] \in C
    <3>1. CASE chain = <<>>
      <4>1. node = leaves[at]
        BY <1>1, <3>1 DEF TopoInv, LeavesCovered
      <4>2. node # NoStep
        BY <1>2, <4>1, StepTypes DEF NoStep
      <4> QED
        BY <1>1, <4>1, <4>2
    <3>2. CASE chain # <<>>
      <4>1. 1 \in DOMAIN chain
        BY <1>2, <2>1, <3>2, EmptySeq
      <4>2. chain[1] = leaves[at]
        BY <1>1, <3>2 DEF TopoInv, LeavesCovered
      <4> QED
        BY <4>1, <4>2 DEF ElementsOf
    <3> QED
      BY <3>1, <3>2
  <2>5. C \subseteq SeenBefore(leaves, at + 1)
    BY <1>2, <1>3, SeenAfter
  <2>6. SeenBefore(leaves, at) \subseteq C
    BY <1>3
  <2> HIDE DEF C
  <2>7. SeenBefore(leaves, at + 1) \subseteq C
    BY <1>2, <2>2, <2>3, <2>4, <2>6, SeenAfter
  <2> QED
    BY <2>5, <2>7 DEF C
<1>8. PassedCollected' /\ ClimbCollects' /\ ResultIsCollected'
  BY <1>1 DEF PassedCollected, ClimbCollects, ResultIsCollected
<1>9. ChainIsFresh'
  BY <1>1 DEF CollectedInv, ChainIsFresh, ElementsOf
<1>10. EmitCollects'
  <2>1. RootFirst(chain)' = RootFirst(chain) /\ ElementsOf(chain)' = ElementsOf(chain)
    BY <1>1 DEF RootFirst, ElementsOf
  <2>2. SeenBefore(leaves, at + 1)' = SeenBefore(leaves, at + 1)
    BY <1>1 DEF SeenBefore, Reach, ParentClosed, StepIds, Parent, IsWait
  <2>3. CollectedUpTo(leaves)' = CollectedUpTo(leaves)
    BY <1>1, SameCollection
  <2> QED
    BY <1>1, <1>6, <1>7, <2>1, <2>2, <2>3 DEF EmitCollects
<1> QED
  BY <1>8, <1>9, <1>10 DEF CollectedInv

(* What is left of the chain gives up its first Step to the result.        *)
LEMMA EmitCollectsOn ==
  ASSUME TopoInv, CollectedInv, EmitFromChain
  PROVE  CollectedInv'
<1> DEFINE s == LastOf(chain)
           front == FrontOf(chain)
<1>1. /\ pc = "emit" /\ chain # <<>> /\ seen' = seen \cup {s} /\ chain' = front
      /\ ordered' = IF s \in seen THEN ordered ELSE Append(ordered, s)
      /\ UNCHANGED <<heap, leaves, pc, at, node>>
  BY DEF EmitFromChain
<1>2. chain \in Seq(StepIds) /\ ordered \in Seq(StepIds)
  BY CollectedTypes
<1>3. /\ front \in Seq(StepIds) /\ Len(chain) \in Nat \ {0}
      /\ DOMAIN chain = 1 .. Len(chain) /\ DOMAIN front = 1 .. Len(chain) - 1
      /\ \A i \in 1 .. Len(chain) - 1 : front[i] = chain[i]
      /\ s \in StepIds /\ s = chain[Len(chain)]
      /\ ElementsOf(chain) = ElementsOf(front) \cup {s}
  BY <1>1, <1>2, FrontFacts
<1>4. chain = Append(front, s)
  BY <1>1, <1>2, FrontThenLast
<1> HIDE DEF s, front
<1>5. /\ \A i, j \in DOMAIN chain : i < j => chain[j] < chain[i]
      /\ ElementsOf(chain) \cap seen = {}
      /\ ordered \o RootFirst(chain) = CollectedUpTo(leaves)[at]
      /\ seen \cup ElementsOf(chain) = SeenBefore(leaves, at + 1)
  BY <1>1 DEF CollectedInv, ChainIsFresh, EmitCollects
<1>6. ordered' = Append(ordered, s)
  BY <1>1, <1>3, <1>5
<1>7. \A i \in DOMAIN front : i \in DOMAIN chain /\ i < Len(chain) /\ front[i] = chain[i]
  BY <1>3
<1>8. s \notin ElementsOf(front)
  <2> SUFFICES ASSUME NEW i \in DOMAIN front, front[i] = s
               PROVE  FALSE
    BY DEF ElementsOf
  <2>1. Len(chain) \in DOMAIN chain
    BY <1>3
  <2>2. s < s
    BY <1>3, <1>5, <1>7, <2>1
  <2>3. s \in Nat
    BY <1>3, CollectedTypes, StepTypes
  <2> QED
    BY <2>2, <2>3
<1>9. ChainIsFresh'
  <2>1. \A i, j \in DOMAIN front : i < j => front[j] < front[i]
    BY <1>5, <1>7
  <2>2. ElementsOf(front) \cap seen' = {}
    BY <1>1, <1>3, <1>5, <1>8
  <2>3. ElementsOf(chain)' = ElementsOf(front)
    BY <1>1 DEF ElementsOf
  <2> QED
    BY <1>1, <2>1, <2>2, <2>3 DEF ChainIsFresh
<1>10. ordered' \o RootFirst(front) = CollectedUpTo(leaves)[at]
  <2> DEFINE rest == RootFirst(front)
  <2>1. rest \in Seq(StepIds)
    BY <1>3, RootFirstIsSeq
  <2>2. RootFirst(chain) = <<s>> \o rest
    BY <1>3, <1>4, RootFirstOfAppend
  <2> HIDE DEF rest
  <2>3. Append(ordered, s) \o rest = ordered \o (<<s>> \o rest)
    BY <1>2, <1>3, <2>1, MoveOver
  <2>4. ordered' \o rest = CollectedUpTo(leaves)[at]
    BY <1>5, <1>6, <2>2, <2>3
  <2> QED
    BY <2>4 DEF rest
<1>11. EmitCollects'
  <2>1. RootFirst(chain)' = RootFirst(front) /\ ElementsOf(chain)' = ElementsOf(front)
    BY <1>1 DEF RootFirst, ElementsOf
  <2>2. SeenBefore(leaves, at + 1)' = SeenBefore(leaves, at + 1)
    BY <1>1 DEF SeenBefore, Reach, ParentClosed, StepIds, Parent, IsWait
  <2>3. CollectedUpTo(leaves)' = CollectedUpTo(leaves)
    BY <1>1, SameCollection
  <2>4. seen' \cup ElementsOf(front) = SeenBefore(leaves, at + 1)
    BY <1>1, <1>3, <1>5
  <2> QED
    BY <1>1, <1>10, <2>1, <2>2, <2>3, <2>4 DEF EmitCollects
<1>12. PassedCollected' /\ ClimbCollects' /\ ResultIsCollected'
  BY <1>1 DEF PassedCollected, ClimbCollects, ResultIsCollected
<1> QED
  BY <1>9, <1>11, <1>12 DEF CollectedInv

LEMMA NextCollects ==
  ASSUME TopoInv, CollectedInv, NextLeaf
  PROVE  CollectedInv'
<1>1. /\ pc = "emit" /\ chain = <<>> /\ pc' = "leaf" /\ at' = at + 1
      /\ UNCHANGED <<heap, leaves, chain, node, seen, ordered>>
  BY DEF NextLeaf
<1>2. at \in 1 .. Len(leaves) /\ Len(leaves) \in Nat /\ ordered \in Seq(StepIds)
  BY <1>1, CollectedTypes
<1>3. ElementsOf(chain) = {} /\ RootFirst(chain) = <<>>
  BY <1>1, EmptyChain, RootFirstOfNone
<1>4. ordered = CollectedUpTo(leaves)[at] /\ seen = SeenBefore(leaves, at + 1)
  <2>1. /\ ordered \o RootFirst(chain) = CollectedUpTo(leaves)[at]
        /\ seen \cup ElementsOf(chain) = SeenBefore(leaves, at + 1)
    BY <1>1 DEF CollectedInv, EmitCollects
  <2>2. ordered \o <<>> = ordered
    BY <1>2, ConcatEmptySeq
  <2> QED
    BY <1>3, <2>1, <2>2
<1>5. at' - 1 = at /\ at' <= Len(leaves) + 1
  BY <1>1, <1>2
<1>6. PassedCollected'
  BY <1>1, <1>4, <1>5, SameCollection DEF PassedCollected
<1>7. ChainIsFresh'
  BY <1>1 DEF CollectedInv, ChainIsFresh, ElementsOf
<1>8. ClimbCollects' /\ EmitCollects' /\ ResultIsCollected'
  BY <1>1 DEF ClimbCollects, EmitCollects, ResultIsCollected
<1> QED
  BY <1>6, <1>7, <1>8 DEF CollectedInv

LEMMA ReturnCollects ==
  ASSUME TopoInv, CollectedInv, ReturnOrder
  PROVE  CollectedInv'
<1>1. /\ pc = "leaf" /\ pc' = "ordered" /\ at > Len(leaves)
      /\ UNCHANGED <<heap, leaves, at, chain, node, seen, ordered>>
  BY DEF ReturnOrder
<1>2. at - 1 = Len(leaves)
  <2>1. at <= Len(leaves) + 1
    BY <1>1 DEF CollectedInv, PassedCollected
  <2> QED
    BY <1>1, <2>1, CollectedTypes
<1>3. ordered = Collected(leaves)
  BY <1>1, <1>2 DEF CollectedInv, PassedCollected, Collected
<1>4. ResultIsCollected'
  BY <1>1, <1>3, SameCollection DEF ResultIsCollected
<1>5. ChainIsFresh'
  BY <1>1 DEF CollectedInv, ChainIsFresh, ElementsOf
<1>6. PassedCollected' /\ ClimbCollects' /\ EmitCollects'
  BY <1>1 DEF PassedCollected, ClimbCollects, EmitCollects
<1> QED
  BY <1>4, <1>5, <1>6 DEF CollectedInv

(* Before the call, and when nothing changes.                              *)
LEMMA UnstartedCollects ==
  ASSUME chain' = <<>>, pc' \in {"build", "rejected"}
  PROVE  CollectedInv'
BY DEF CollectedInv, PassedCollected, ChainIsFresh, ClimbCollects, EmitCollects,
       ResultIsCollected, ElementsOf

LEMMA StutterCollects ==
  ASSUME CollectedInv, UNCHANGED topoVars
  PROVE  CollectedInv'
<1>1. UNCHANGED <<heap, leaves, pc, at, chain, node, seen, ordered>>
  BY DEF topoVars
<1>2. PassedCollected' /\ ResultIsCollected'
  BY <1>1, SameCollection DEF CollectedInv, PassedCollected, ResultIsCollected
<1>3. ChainIsFresh'
  BY <1>1 DEF CollectedInv, ChainIsFresh, ElementsOf
<1>4. /\ RootFirst(chain)' = RootFirst(chain) /\ ElementsOf(chain)' = ElementsOf(chain)
      /\ SeenBefore(leaves, at + 1)' = SeenBefore(leaves, at + 1)
      /\ FreshChain(seen)' = FreshChain(seen) /\ CollectedUpTo(leaves)' = CollectedUpTo(leaves)
  <2>1. RootFirst(chain)' = RootFirst(chain) /\ ElementsOf(chain)' = ElementsOf(chain)
    BY <1>1 DEF RootFirst, ElementsOf
  <2>2. SeenBefore(leaves, at + 1)' = SeenBefore(leaves, at + 1)
    BY <1>1 DEF SeenBefore, Reach, ParentClosed, StepIds, Parent, IsWait
  <2> QED
    BY <1>1, <2>1, <2>2, SameFresh, SameCollection
<1>5. ClimbCollects'
  <2>1. FreshChain(seen)'[leaves'[at']] = FreshChain(seen)[leaves[at]]
        /\ FreshChain(seen)'[node'] = FreshChain(seen)[node]
    BY <1>1, <1>4
  <2> QED
    BY <1>1, <1>4, <2>1 DEF CollectedInv, ClimbCollects, IsWait
<1>6. EmitCollects'
  BY <1>1, <1>4 DEF CollectedInv, EmitCollects
<1> QED
  BY <1>2, <1>3, <1>5, <1>6 DEF CollectedInv

(***************************************************************************)
(* For any forest and any leaves, _topo_collect returns what the function  *)
(* Collected says: for each leaf in turn its chain, root first, cut where  *)
(* an earlier leaf's chain joins it, and a wait where it stands.  So the   *)
(* order is determined by the leaves alone.                                *)
(***************************************************************************)
THEOREM CollectIsTheFunction == TopoSpec => []ResultIsCollected
<1>1. TopoInit => CollectedInv
  BY DEF TopoInit, CollectedInv, PassedCollected, ChainIsFresh, ClimbCollects, EmitCollects,
         ResultIsCollected, ElementsOf
<1>2. TopoInv /\ TopoInv' /\ CollectedInv /\ [TopoNext]_topoVars => CollectedInv'
  <2> SUFFICES ASSUME TopoInv, TopoInv', CollectedInv, [TopoNext]_topoVars
               PROVE  CollectedInv'
    OBVIOUS
  <2>1. CASE BuildStep
    <3>1. chain' = <<>> /\ pc' = "build"
      BY <2>1 DEF BuildStep, tvars, TopoInv, Unstarted
    <3> QED
      BY <3>1, UnstartedCollects
  <2>2. CASE CallPipeline     BY <2>2, CallCollects
  <2>3. CASE RejectNoLeaves
    <3>1. chain' = <<>> /\ pc' = "rejected"
      BY <2>3 DEF RejectNoLeaves, TopoInv, Unstarted
    <3> QED
      BY <3>1, UnstartedCollects
  <2>4. CASE EmitWaitLeaf     BY <2>4, WaitCollects
  <2>5. CASE StartChain       BY <2>5, StartCollects
  <2>6. CASE Climb            BY <2>6, ClimbCollectsOn
  <2>7. CASE StopClimb        BY <2>7, StopCollects
  <2>8. CASE EmitFromChain    BY <2>8, EmitCollectsOn
  <2>9. CASE NextLeaf         BY <2>9, NextCollects
  <2>10. CASE ReturnOrder     BY <2>10, ReturnCollects
  <2>11. CASE Ended           BY <2>11, StutterCollects DEF Ended
  <2>12. CASE UNCHANGED topoVars BY <2>12, StutterCollects
  <2> QED
    BY <2>1, <2>2, <2>3, <2>4, <2>5, <2>6, <2>7, <2>8, <2>9, <2>10, <2>11, <2>12
       DEF TopoNext, Collect
<1>3. CollectedInv => ResultIsCollected
  BY DEF CollectedInv
<1> QED
  BY <1>1, <1>2, <1>3, TopoInvariant, PTL DEF TopoSpec
=============================================================================
