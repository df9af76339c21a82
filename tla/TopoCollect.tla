----------------------------- MODULE TopoCollect -----------------------------
(***************************************************************************)
(* The first pass of a render, _topo_collect of harmont/pipeline.py: from  *)
(* the leaves given to pipeline(leaves) it walks every `parent` chain up  *)
(* to a Step it has seen, and emits the chain root first.  A wait leaf is  *)
(* emitted where it stands among the leaves, whether or not it was seen.   *)
(*                                                                         *)
(* User code builds Steps first (StepChain) and then calls pipeline; each  *)
(* iteration of the loops is one action.                                   *)
(***************************************************************************)
EXTENDS Collection

CONSTANT MaxLeaves   \* bound on the number of leaves of a call

ASSUME MaxLeavesIsNat == MaxLeaves \in Nat

VARIABLES
  leaves,    \* argument of pipeline(leaves)
  pc,        \* "build", then "leaf", "climb", "emit", and at last an outcome
  at,        \* index of the leaf the for loop is at
  chain,     \* Steps of that leaf's chain not emitted yet, leaf first
  node,      \* the Step the while loop is at
  seen,      \* Steps emitted through a chain
  ordered    \* the result

tvars == <<leaves, pc, at, chain, node, seen, ordered>>
topoVars == <<heap, leaves, pc, at, chain, node, seen, ordered>>

LastOf(s) == s[Len(s)]
FrontOf(s) == SubSeq(s, 1, Len(s) - 1)
LeafTuples == UNION {[1 .. n -> StepIds] : n \in 1 .. MaxLeaves}

TopoInit ==
  /\ BuildInit
  /\ leaves = <<>> /\ pc = "build" /\ at = 1
  /\ chain = <<>> /\ node = NoStep /\ seen = {} /\ ordered = <<>>

BuildStep == pc = "build" /\ Build /\ UNCHANGED tvars

\* pipeline(leaves) with at least one leaf.
CallPipeline ==
  /\ pc = "build"
  /\ leaves' \in LeafTuples
  /\ pc' = "leaf"
  /\ UNCHANGED <<heap, at, chain, node, seen, ordered>>

\* pipeline() of an empty tuple of leaves raises ValueError.
RejectNoLeaves ==
  /\ pc = "build"
  /\ pc' = "rejected"
  /\ UNCHANGED <<heap, leaves, at, chain, node, seen, ordered>>

\* Mutant: a wait is emitted where it is met first, and nowhere else.
EmitWaitOnce ==
  /\ pc = "leaf" /\ at <= Len(leaves)
  /\ IsWait(leaves[at])
  /\ ordered' = IF leaves[at] \in ElementsOf(ordered) THEN ordered
                ELSE Append(ordered, leaves[at])
  /\ at' = at + 1
  /\ UNCHANGED <<heap, leaves, pc, chain, node, seen>>

EmitWaitLeaf ==
  /\ pc = "leaf" /\ at <= Len(leaves)
  /\ IsWait(leaves[at])
  /\ ordered' = Append(ordered, leaves[at])
  /\ at' = at + 1
  /\ UNCHANGED <<heap, leaves, pc, chain, node, seen>>

\* Mutant: a leaf is marked as seen when its chain is started.
StartChainMarked ==
  /\ pc = "leaf" /\ at <= Len(leaves)
  /\ ~IsWait(leaves[at])
  /\ node' = leaves[at] /\ seen' = seen \cup {leaves[at]}
  /\ pc' = "climb"
  /\ UNCHANGED <<heap, leaves, at, chain, ordered>>

StartChain ==
  /\ pc = "leaf" /\ at <= Len(leaves)
  /\ ~IsWait(leaves[at])
  /\ node' = leaves[at]
  /\ pc' = "climb"
  /\ UNCHANGED <<heap, leaves, at, chain, seen, ordered>>

\* Mutant: the loop moves on to the parent before it appends.
ClimbThenAppend ==
  /\ pc = "climb"
  /\ node # NoStep /\ node \notin seen
  /\ chain' = Append(chain, Parent(node))
  /\ node' = Parent(node)
  /\ UNCHANGED <<heap, leaves, pc, at, seen, ordered>>

\* Mutant: a Step that lowers to nothing is skipped by a `continue` in front
\* of `node = node.parent`.
ClimbSkippingForks ==
  /\ pc = "climb"
  /\ node # NoStep /\ node \notin seen
  /\ IF IsWait(node) \/ IsCommand(node)
     THEN chain' = Append(chain, node) /\ node' = Parent(node)
     ELSE UNCHANGED <<chain, node>>
  /\ UNCHANGED <<heap, leaves, pc, at, seen, ordered>>

Climb ==
  /\ pc = "climb"
  /\ node # NoStep /\ node \notin seen
  /\ chain' = Append(chain, node)
  /\ node' = Parent(node)
  /\ UNCHANGED <<heap, leaves, pc, at, seen, ordered>>

StopClimb ==
  /\ pc = "climb"
  /\ node = NoStep \/ node \in seen
  /\ pc' = "emit"
  /\ UNCHANGED <<heap, leaves, at, chain, node, seen, ordered>>

\* Mutants of EmitFromChain: `reversed` is forgotten; the Step is not marked
\* as seen.
EmitLeafFirst ==
  /\ pc = "emit" /\ chain # <<>>
  /\ ordered' = Append(ordered, chain[1])
  /\ seen' = seen \cup {chain[1]}
  /\ chain' = Tail(chain)
  /\ UNCHANGED <<heap, leaves, pc, at, node>>

EmitUnmarked ==
  /\ pc = "emit" /\ chain # <<>>
  /\ ordered' = Append(ordered, LastOf(chain))
  /\ chain' = FrontOf(chain)
  /\ UNCHANGED <<heap, leaves, pc, at, node, seen>>

\* One iteration of `for s in reversed(chain)`.
EmitFromChain ==
  /\ pc = "emit" /\ chain # <<>>
  /\ ordered' = IF LastOf(chain) \in seen THEN ordered
                ELSE Append(ordered, LastOf(chain))
  /\ seen' = seen \cup {LastOf(chain)}
  /\ chain' = FrontOf(chain)
  /\ UNCHANGED <<heap, leaves, pc, at, node>>

NextLeaf ==
  /\ pc = "emit" /\ chain = <<>>
  /\ pc' = "leaf" /\ at' = at + 1
  /\ UNCHANGED <<heap, leaves, chain, node, seen, ordered>>

\* Mutant: off by one, the last leaf is dropped.
ReturnBeforeLastLeaf ==
  /\ pc = "leaf" /\ at >= Len(leaves)
  /\ pc' = "ordered"
  /\ UNCHANGED <<heap, leaves, at, chain, node, seen, ordered>>

ReturnOrder ==
  /\ pc = "leaf" /\ at > Len(leaves)
  /\ pc' = "ordered"
  /\ UNCHANGED <<heap, leaves, at, chain, node, seen, ordered>>

Collect == EmitWaitLeaf \/ StartChain \/ Climb \/ StopClimb
             \/ EmitFromChain \/ NextLeaf \/ ReturnOrder

\* The call has ended; nothing happens any more.
Ended == pc \in {"ordered", "rejected"} /\ UNCHANGED topoVars

TopoNext == BuildStep \/ CallPipeline \/ RejectNoLeaves \/ Collect \/ Ended

\* One thread runs the loops to their end without waiting for anything.
TopoSpec == TopoInit /\ [][TopoNext]_topoVars /\ WF_topoVars(Collect)

-----------------------------------------------------------------------------
TopoTypeOK ==
  /\ WellFormed
  /\ leaves \in Seq(StepIds)
  /\ pc \in {"build", "leaf", "climb", "emit", "ordered", "rejected"}
  /\ at \in Nat \ {0}
  /\ chain \in Seq(StepIds)
  /\ node \in StepIds \cup {NoStep}
  /\ seen \subseteq StepIds
  /\ ordered \in Seq(StepIds)

(***************************************************************************)
(* "parent-before-child order" (pipeline.py:101-102): at every moment what *)
(* stands in the result stands behind its parent.                          *)
(***************************************************************************)
ParentFirst ==
  \A i \in DOMAIN ordered :
    Parent(ordered[i]) # NoStep =>
      \E j \in 1 .. i - 1 : ordered[j] = Parent(ordered[i])

(***************************************************************************)
(* A Step shared by several leaves is emitted once; only a wait, which the *)
(* loop appends without looking at `seen`, may stand in the result twice.  *)
(***************************************************************************)
EmittedOnce ==
  \A i, j \in DOMAIN ordered :
    i # j /\ ordered[i] = ordered[j] => IsWait(ordered[i])

(***************************************************************************)
(* The result holds what the leaves reach, nothing less and nothing more.  *)
(***************************************************************************)
Complete == pc = "ordered" => ElementsOf(ordered) = Reach(ElementsOf(leaves))

(***************************************************************************)
(* "Wait steps are inserted in their leaf-tuple position" (pipeline.py:    *)
(* 103-104): for every wait leaf there is an occurrence of it before which *)
(* stands all that the earlier leaves reach, and nothing else.             *)
(***************************************************************************)
WaitsAreBarriers ==
  pc = "ordered" =>
    \A i \in DOMAIN leaves :
      IsWait(leaves[i]) =>
        \E k \in DOMAIN ordered :
          /\ ordered[k] = leaves[i]
          /\ ElementsOf(SubSeq(ordered, 1, k - 1))
               = Reach(ElementsOf(SubSeq(leaves, 1, i - 1)))

(***************************************************************************)
(* "Tiebreak by leaf order, then DFS-pre on each leaf chain                *)
(* (deterministic)" (pipeline.py:102-103): the result is a function of the *)
(* leaves, the chain of each leaf cut where an earlier leaf joins it.      *)
(***************************************************************************)
ResultIsCollected == pc = "ordered" => ordered = Collected(leaves)

(***************************************************************************)
(* Every call returns: no chain is climbed for ever.                       *)
(***************************************************************************)
CallReturns == pc = "leaf" ~> pc = "ordered"

(***************************************************************************)
(* The loops implement the abstract order of EmissionOrder.                *)
(***************************************************************************)
Order == INSTANCE EmissionOrder WITH out <- ordered, complete <- (pc = "ordered")
OrderSpec == Order!ESpec
=============================================================================
