------------------------------ MODULE StepChain ------------------------------
(***************************************************************************)
(* The chain DSL of harmont/_step.py: user code builds a forest of frozen  *)
(* Step values with scratch, wait, Step.sh and Step.fork, and every later  *)
(* pass of the library walks the `parent` pointers of that forest.         *)
(*                                                                         *)
(* A Step is identified by its position in `heap`, the sequence of all the *)
(* Steps created so far (Python's id()).  Steps are frozen and a parent is *)
(* an argument of its child's constructor, so a parent is always older.    *)
(* Fields no property tells apart (env, timeout, runner, the text of a     *)
(* command) are left out; cwd="" raises before any Step is created.        *)
(***************************************************************************)
EXTENDS Naturals, Sequences

CONSTANTS
  None,          \* Python's None
  Cmds,          \* shell commands
  Labels,        \* the label= argument of sh
  KeyOverrides,  \* the key= argument of sh
  Policies,      \* the cache= argument of sh
  StepImages,    \* the image= argument of sh
  RootImages,    \* images of the roots injected for BaseImage(...)
  MaxSteps       \* bound on the number of Steps a run creates

ASSUME NoneIsNoValue ==
  None \notin Cmds \cup Labels \cup KeyOverrides \cup Policies
                   \cup StepImages \cup RootImages
ASSUME MaxStepsIsNat == MaxSteps \in Nat

VARIABLE heap

Opt(S) == S \cup {None}
NoStep == 0                      \* parent of a root
StepIds == 1 .. Len(heap)

Step == [cmd : Opt(Cmds), parent : Nat, is_wait : BOOLEAN, label : Opt(Labels),
         cache : Opt(Policies), image : Opt(StepImages \cup RootImages),
         key_override : Opt(KeyOverrides)]

BareStep == [cmd |-> None, parent |-> NoStep, is_wait |-> FALSE, label |-> None,
             cache |-> None, image |-> None, key_override |-> None]

Parent(s) == heap[s].parent
IsWait(s) == heap[s].is_wait
IsCommand(s) == heap[s].cmd # None /\ ~IsWait(s)

(***************************************************************************)
(* What a set of Steps reaches through `parent`: the least set that holds  *)
(* it and is closed under `parent`.                                        *)
(***************************************************************************)
ParentClosed(S) == \A s \in S : Parent(s) # NoStep => Parent(s) \in S

Reach(S) == {s \in StepIds :
               \A C \in SUBSET StepIds : S \subseteq C /\ ParentClosed(C) => s \in C}

-----------------------------------------------------------------------------
BuildInit == heap = <<>>

Alloc(step) == Len(heap) < MaxSteps /\ heap' = Append(heap, step)

Scratch == Alloc(BareStep)

\* The value resolve_deps injects for a BaseImage parameter: Step(image=...).
BaseImage(img) == Alloc([BareStep EXCEPT !.image = img])

Wait == Alloc([BareStep EXCEPT !.is_wait = TRUE])

\* Mutant: the image is inherited from any parent.
ImageOfAnyParent(p, image) == IF image # None THEN image ELSE heap[p].image

\* An explicit image wins; otherwise only a parent without a command hands
\* its own image down.
EffectiveImage(p, image) ==
  IF image # None THEN image
  ELSE IF heap[p].cmd = None THEN heap[p].image ELSE None

Sh(p, cmd, label, cache, image, key) ==
  Alloc([cmd |-> cmd, parent |-> p, is_wait |-> FALSE, label |-> label,
         cache |-> cache, image |-> EffectiveImage(p, image), key_override |-> key])

Fork(p, label) == Alloc([BareStep EXCEPT !.parent = p, !.label = label])

Build ==
  \/ Scratch
  \/ \E img \in RootImages : BaseImage(img)
  \/ Wait
  \/ \E p \in StepIds, cmd \in Cmds, label \in Opt(Labels), cache \in Opt(Policies),
        image \in Opt(StepImages), key \in Opt(KeyOverrides) :
        Sh(p, cmd, label, cache, image, key)
  \/ \E p \in StepIds, label \in Opt(Labels) : Fork(p, label)

BuildSpec == BuildInit /\ [][Build]_heap

-----------------------------------------------------------------------------
(***************************************************************************)
(* Type invariant: every Step is well typed and every parent is older, so  *)
(* the forest has no cycle and every walk over `parent` ends.              *)
(***************************************************************************)
WellFormed ==
  /\ heap \in Seq(Step)
  /\ \A s \in StepIds : Parent(s) < s
  /\ \A s \in StepIds : IsWait(s) => heap[s].cmd = None /\ Parent(s) = NoStep

(***************************************************************************)
(* "Once the chain has a real cmd, inheritance stops" (_step.py:71-73): a  *)
(* Step built on top of a command never carries the image of a BaseImage   *)
(* root, however many forks lie in between, or it would run in the root    *)
(* image instead of its parent's snapshot.                                 *)
(***************************************************************************)
CommandAncestors(s) == {a \in Reach({s}) \ {s} : IsCommand(a)}

ImageStopsAtCommand ==
  \A s \in StepIds : CommandAncestors(s) # {} => heap[s].image \notin RootImages

(***************************************************************************)
(* "A scratch root with image set passes it down to the first emitted      *)
(* command step" (_step.py:70-71): the first command of every chain rooted *)
(* at a BaseImage carries that image unless the call named another one.    *)
(***************************************************************************)
FirstCommandCarriesRootImage ==
  \A s \in StepIds :
    IsCommand(s) /\ CommandAncestors(s) = {} =>
      \A r \in Reach({s}) :
        heap[r].image \in RootImages => heap[s].image \in StepImages \cup {heap[r].image}
=============================================================================
