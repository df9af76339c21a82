--------------------------- MODULE StepChainProofs ---------------------------
(***************************************************************************)
(* Proofs about StepChain: the forest of Steps is well formed for every    *)
(* choice of the constants, and what Reach computes.                       *)
(***************************************************************************)
EXTENDS StepChain, SequenceTheorems, TLAPS

-----------------------------------------------------------------------------
(* What Reach computes, over a well-formed heap.                           *)

(* Reach(S) holds S, when S is a set of Steps.                             *)
LEMMA ReachHolds ==
  ASSUME NEW S, S \subseteq StepIds
  PROVE  S \subseteq Reach(S)
BY DEF Reach

(* Reach(S) is closed under `parent`.                                      *)
LEMMA ReachClosed ==
  ASSUME WellFormed, NEW S
  PROVE  ParentClosed(Reach(S))
<1> SUFFICES ASSUME NEW s \in Reach(S), Parent(s) # NoStep
             PROVE  Parent(s) \in Reach(S)
  BY DEF ParentClosed
<1>1. s \in StepIds
  BY DEF Reach
<1>2. Parent(s) \in StepIds
  <2>1. heap \in Seq(Step) /\ heap[s] \in Step /\ Parent(s) < s
    BY <1>1, ElementOfSeq DEF WellFormed, StepIds
  <2>2. Parent(s) \in Nat
    BY <2>1 DEF Step, Parent
  <2>3. Len(heap) \in Nat
    BY <2>1, LenProperties
  <2> QED
    BY <1>1, <2>1, <2>2, <2>3 DEF StepIds, NoStep
<1>3. ASSUME NEW C \in SUBSET StepIds, S \subseteq C, ParentClosed(C)
      PROVE  Parent(s) \in C
  BY <1>3 DEF Reach, ParentClosed
<1> QED
  BY <1>2, <1>3 DEF Reach

(* Reach(S) is the least such set.                                         *)
LEMMA ReachLeast ==
  ASSUME NEW S, NEW C \in SUBSET StepIds, S \subseteq C, ParentClosed(C)
  PROVE  Reach(S) \subseteq C
BY DEF Reach

-----------------------------------------------------------------------------
(* Appending a Step whose parent is older keeps the forest well formed.    *)
LEMMA AllocWellFormed ==
  ASSUME WellFormed,
         NEW step \in Step,
         step.parent \in 0 .. Len(heap),
         step.is_wait => step.cmd = None /\ step.parent = NoStep,
         Alloc(step)
  PROVE  WellFormed'
<1>1. heap \in Seq(Step) /\ Len(heap) \in Nat
  BY LenProperties DEF WellFormed
<1>2. heap' = Append(heap, step)
  BY DEF Alloc
<1>3. /\ heap' \in Seq(Step) /\ Len(heap') = Len(heap) + 1
      /\ \A i \in 1 .. Len(heap) : heap'[i] = heap[i]
      /\ heap'[Len(heap) + 1] = step
  BY <1>1, <1>2, AppendProperties
<1>4. ASSUME NEW s \in StepIds'
      PROVE  /\ heap'[s].parent < s
             /\ heap'[s].is_wait => heap'[s].cmd = None /\ heap'[s].parent = NoStep
  <2>1. CASE s \in StepIds
    BY <1>1, <1>3, <2>1 DEF WellFormed, StepIds, Parent, IsWait
  <2>2. CASE s = Len(heap) + 1
    BY <1>1, <1>3, <2>2
  <2> QED
    BY <1>1, <1>3, <2>1, <2>2 DEF StepIds
<1> QED
  BY <1>3, <1>4 DEF WellFormed, Parent, IsWait

(* Every constructor of the DSL keeps the forest well formed.              *)
LEMMA BuildWellFormed ==
  ASSUME WellFormed, Build
  PROVE  WellFormed'
<1>0. heap \in Seq(Step) /\ Len(heap) \in Nat
  BY LenProperties DEF WellFormed
<1>1. BareStep \in Step /\ BareStep.parent = 0 /\ BareStep.is_wait = FALSE
  BY DEF BareStep, Step, Opt, NoStep
<1>2. CASE Scratch
  BY <1>0, <1>1, <1>2, AllocWellFormed DEF Scratch
<1>3. CASE \E img \in RootImages : BaseImage(img)
  <2> PICK img \in RootImages : BaseImage(img)
    BY <1>3
  <2> DEFINE step == [BareStep EXCEPT !.image = img]
  <2>1. step \in Step /\ step.parent = 0 /\ step.is_wait = FALSE
    BY DEF BareStep, Step, Opt, NoStep
  <2>2. Alloc(step)
    BY DEF BaseImage
  <2> HIDE DEF step
  <2> QED
    BY <1>0, <2>1, <2>2, AllocWellFormed
<1>4. CASE Wait
  <2> DEFINE step == [BareStep EXCEPT !.is_wait = TRUE]
  <2>1. step \in Step /\ step.parent = 0 /\ step.cmd = None
    BY DEF BareStep, Step, Opt, NoStep
  <2>2. Alloc(step)
    BY <1>4 DEF Wait
  <2> HIDE DEF step
  <2> QED
    BY <1>0, <2>1, <2>2, AllocWellFormed DEF NoStep
<1>5. CASE \E p \in StepIds, cmd \in Cmds, label \in Opt(Labels), cache \in Opt(Policies),
              image \in Opt(StepImages), key \in Opt(KeyOverrides) :
              Sh(p, cmd, label, cache, image, key)
  <2> PICK p \in StepIds, cmd \in Cmds, label \in Opt(Labels), cache \in Opt(Policies),
           image \in Opt(StepImages), key \in Opt(KeyOverrides) :
           Sh(p, cmd, label, cache, image, key)
    BY <1>5
  <2>1. heap[p] \in Step /\ p \in 0 .. Len(heap) /\ p \in Nat
    BY <1>0, ElementOfSeq DEF StepIds
  <2>2. EffectiveImage(p, image) \in Opt(StepImages \cup RootImages)
    BY <2>1 DEF EffectiveImage, Step, Opt
  <2> DEFINE step == [cmd |-> cmd, parent |-> p, is_wait |-> FALSE, label |-> label,
                      cache |-> cache, image |-> EffectiveImage(p, image),
                      key_override |-> key]
  <2>3. step \in Step /\ step.parent = p /\ step.is_wait = FALSE
    BY <2>1, <2>2 DEF Step, Opt
  <2>4. Alloc(step)
    BY DEF Sh
  <2> QED
    BY <2>1, <2>3, <2>4, AllocWellFormed
<1>6. CASE \E p \in StepIds, label \in Opt(Labels) : Fork(p, label)
  <2> PICK p \in StepIds, label \in Opt(Labels) : Fork(p, label)
    BY <1>6
  <2> DEFINE step == [BareStep EXCEPT !.parent = p, !.label = label]
  <2>1. p \in 0 .. Len(heap) /\ p \in Nat
    BY <1>0 DEF StepIds
  <2>2. step \in Step /\ step.parent = p /\ step.is_wait = FALSE
    BY <2>1 DEF BareStep, Step, Opt
  <2> QED
    BY <2>1, <2>2, AllocWellFormed DEF Fork
<1> QED
  BY <1>2, <1>3, <1>4, <1>5, <1>6 DEF Build

(***************************************************************************)
(* However user code combines scratch, wait, sh and fork, the Steps form a *)
(* forest in which every parent is older than its child: no walk over      *)
(* `parent` can run in a circle.                                           *)
(***************************************************************************)
THEOREM ForestWellFormed == BuildSpec => []WellFormed
<1>1. BuildInit => WellFormed
  BY EmptySeq DEF BuildInit, WellFormed, StepIds
<1>2. WellFormed /\ [Build]_heap => WellFormed'
  <2>1. CASE Build
    BY <2>1, BuildWellFormed
  <2>2. CASE UNCHANGED heap
    BY <2>2 DEF WellFormed, StepIds, Parent, IsWait
  <2> QED
    BY <2>1, <2>2
<1> QED
  BY <1>1, <1>2, PTL DEF BuildSpec

-----------------------------------------------------------------------------
(***************************************************************************)
(* The inductive invariant behind ImageStopsAtCommand: a Step that carries *)
(* the image of a BaseImage root and is not that root has it from its      *)
(* parent, which carries it too and is no command.                         *)
(***************************************************************************)
Bears(s) == heap[s].image \in RootImages

ImageHandedDown ==
  \A s \in StepIds : Bears(s) /\ Parent(s) # NoStep =>
    Parent(s) \in StepIds /\ Bears(Parent(s)) /\ heap[Parent(s)].cmd = None

(* Appending a Step keeps that, if the new Step has its image that way.    *)
LEMMA AllocHandsDown ==
  ASSUME heap \in Seq(Step), ImageHandedDown, NEW step \in Step, Alloc(step),
         step.image \in RootImages /\ step.parent # NoStep =>
           step.parent \in StepIds /\ Bears(step.parent) /\ heap[step.parent].cmd = None
  PROVE  ImageHandedDown'
<1>1. Len(heap) \in Nat /\ heap' = Append(heap, step)
  BY LenProperties DEF Alloc
<1>2. /\ Len(heap') = Len(heap) + 1
      /\ \A i \in 1 .. Len(heap) : heap'[i] = heap[i]
      /\ heap'[Len(heap) + 1] = step
  BY <1>1, AppendProperties
<1> SUFFICES ASSUME NEW s \in 1 .. Len(heap) + 1,
                    heap'[s].image \in RootImages, heap'[s].parent # NoStep
             PROVE  /\ heap'[s].parent \in 1 .. Len(heap) + 1
                    /\ heap'[heap'[s].parent].image \in RootImages
                    /\ heap'[heap'[s].parent].cmd = None
  BY <1>2 DEF ImageHandedDown, Bears, Parent, StepIds
<1> SUFFICES /\ heap'[s].parent \in 1 .. Len(heap)
             /\ heap[heap'[s].parent].image \in RootImages
             /\ heap[heap'[s].parent].cmd = None
  BY <1>1, <1>2
<1>3. CASE s \in 1 .. Len(heap)
  BY <1>2, <1>3 DEF ImageHandedDown, Bears, Parent, StepIds
<1>4. CASE s = Len(heap) + 1
  BY <1>2, <1>4 DEF Bears, StepIds
<1> QED
  BY <1>1, <1>3, <1>4

LEMMA BuildHandsDown ==
  ASSUME StepImages \cap RootImages = {}, WellFormed, ImageHandedDown, Build
  PROVE  ImageHandedDown'
<1>0. heap \in Seq(Step) /\ None \notin RootImages
  BY NoneIsNoValue DEF WellFormed
<1>1. BareStep \in Step /\ BareStep.parent = NoStep /\ BareStep.image = None
  BY DEF BareStep, Step, Opt, NoStep
<1>2. CASE Scratch
  BY <1>0, <1>1, <1>2, AllocHandsDown DEF Scratch
<1>3. CASE \E img \in RootImages : BaseImage(img)
  <2> PICK img \in RootImages : BaseImage(img)
    BY <1>3
  <2> DEFINE step == [BareStep EXCEPT !.image = img]
  <2>1. step \in Step /\ step.parent = NoStep
    BY DEF BareStep, Step, Opt, NoStep
  <2>2. Alloc(step)
    BY DEF BaseImage
  <2> HIDE DEF step
  <2> QED
    BY <1>0, <2>1, <2>2, AllocHandsDown
<1>4. CASE Wait
  <2> DEFINE step == [BareStep EXCEPT !.is_wait = TRUE]
  <2>1. step \in Step /\ step.parent = NoStep
    BY DEF BareStep, Step, Opt, NoStep
  <2>2. Alloc(step)
    BY <1>4 DEF Wait
  <2> HIDE DEF step
  <2> QED
    BY <1>0, <2>1, <2>2, AllocHandsDown
<1>5. CASE \E p \in StepIds, cmd \in Cmds, label \in Opt(Labels), cache \in Opt(Policies),
              image \in Opt(StepImages), key \in Opt(KeyOverrides) :
              Sh(p, cmd, label, cache, image, key)
  <2> PICK p \in StepIds, cmd \in Cmds, label \in Opt(Labels), cache \in Opt(Policies),
           image \in Opt(StepImages), key \in Opt(KeyOverrides) :
           Sh(p, cmd, label, cache, image, key)
    BY <1>5
  <2>1. heap[p] \in Step /\ p \in Nat
    BY <1>0, ElementOfSeq DEF StepIds
  <2>2. EffectiveImage(p, image) \in Opt(StepImages \cup RootImages)
    BY <2>1 DEF EffectiveImage, Step, Opt
  <2>3. EffectiveImage(p, image) \in RootImages => Bears(p) /\ heap[p].cmd = None
    BY <1>0 DEF EffectiveImage, Opt, Bears
  <2> DEFINE step == [cmd |-> cmd, parent |-> p, is_wait |-> FALSE, label |-> label,
                      cache |-> cache, image |-> EffectiveImage(p, image),
                      key_override |-> key]
  <2>4. /\ step \in Step /\ step.parent = p
        /\ step.image \in RootImages => Bears(p) /\ heap[p].cmd = None
    BY <2>1, <2>2, <2>3 DEF Step, Opt
  <2>5. Alloc(step)
    BY DEF Sh
  <2> HIDE DEF step
  <2> QED
    BY <1>0, <2>4, <2>5, AllocHandsDown
<1>6. CASE \E p \in StepIds, label \in Opt(Labels) : Fork(p, label)
  <2> PICK p \in StepIds, label \in Opt(Labels) : Fork(p, label)
    BY <1>6
  <2> DEFINE step == [BareStep EXCEPT !.parent = p, !.label = label]
  <2>1. p \in Nat
    BY <1>0, LenProperties DEF StepIds
  <2>2. step \in Step /\ step.image = None
    BY <2>1 DEF BareStep, Step, Opt
  <2>3. Alloc(step)
    BY DEF Fork
  <2> HIDE DEF step
  <2> QED
    BY <1>0, <2>2, <2>3, AllocHandsDown
<1> QED
  BY <1>2, <1>3, <1>4, <1>5, <1>6 DEF Build

LEMMA HandedDownStops == WellFormed /\ ImageHandedDown => ImageStopsAtCommand
<1> SUFFICES ASSUME WellFormed, ImageHandedDown,
                    NEW s \in StepIds, NEW a \in CommandAncestors(s), Bears(s)
             PROVE  FALSE
  BY DEF ImageStopsAtCommand, Bears
<1> DEFINE C == {s} \cup {t \in StepIds : Bears(t) /\ heap[t].cmd = None}
<1>1. ParentClosed(C)
  BY DEF ParentClosed, ImageHandedDown
<1>2. Reach({s}) \subseteq C
  <2>1. C \in SUBSET StepIds /\ {s} \subseteq C
    OBVIOUS
  <2> HIDE DEF C
  <2> QED
    BY <1>1, <2>1, ReachLeast
<1> QED
  BY <1>2 DEF CommandAncestors, IsCommand

(***************************************************************************)
(* Where the images of steps are told from those of roots: whatever user   *)
(* code builds, no Step on top of a command carries the image of a         *)
(* BaseImage root, however many forks lie between.                         *)
(***************************************************************************)
THEOREM RootImageStopsAtCommand ==
  (StepImages \cap RootImages = {}) /\ BuildSpec => []ImageStopsAtCommand
<1> DEFINE Inv == /\ StepImages \cap RootImages = {}
                  /\ WellFormed /\ ImageHandedDown
<1>1. (StepImages \cap RootImages = {}) /\ BuildInit => Inv
  BY EmptySeq DEF BuildInit, WellFormed, ImageHandedDown, StepIds
<1>2. Inv /\ [Build]_heap => Inv'
  <2>1. CASE Build
    BY <2>1, BuildWellFormed, BuildHandsDown
  <2>2. CASE UNCHANGED heap
    BY <2>2 DEF WellFormed, ImageHandedDown, Bears, StepIds, Parent, IsWait
  <2> QED
    BY <2>1, <2>2
<1>3. Inv => ImageStopsAtCommand
  BY HandedDownStops
<1> QED
  BY <1>1, <1>2, <1>3, PTL DEF BuildSpec
=============================================================================
