---------------------------- MODULE EmissionOrder ----------------------------
(***************************************************************************)
(* What a pipeline promises about the order of its steps, without saying   *)
(* how the order is found: a Step may be emitted once everything it is     *)
(* built on has been emitted, a Step other than a wait is emitted once,    *)
(* nothing is emitted that no leaf reaches, and the pipeline is complete   *)
(* when everything the leaves reach is out.                                *)
(***************************************************************************)
EXTENDS StepChain

VARIABLES leaves,   \* the Steps given to pipeline(leaves)
          out,      \* the Steps emitted so far, in order
          complete  \* the pipeline has been returned

evars == <<heap, leaves, out, complete>>

RangeOf(s) == {s[i] : i \in DOMAIN s}

EInit == BuildInit /\ leaves = <<>> /\ out = <<>> /\ complete = FALSE

EBuild == leaves = <<>> /\ Build /\ UNCHANGED <<leaves, out, complete>>

EStart == /\ leaves = <<>>
          /\ leaves' \in Seq(StepIds)
          /\ UNCHANGED <<heap, out, complete>>

EEmit(s) ==
  /\ ~complete
  /\ s \in Reach(RangeOf(leaves))
  /\ Parent(s) # NoStep => Parent(s) \in RangeOf(out)
  /\ IsWait(s) \/ s \notin RangeOf(out)
  /\ out' = Append(out, s)
  /\ UNCHANGED <<heap, leaves, complete>>

EFinish == /\ ~complete
           /\ leaves # <<>>
           /\ RangeOf(out) = Reach(RangeOf(leaves))
           /\ complete' = TRUE
           /\ UNCHANGED <<heap, leaves, out>>

ENext == EBuild \/ EStart \/ (\E s \in StepIds : EEmit(s)) \/ EFinish

ESpec == EInit /\ [][ENext]_evars
=============================================================================
