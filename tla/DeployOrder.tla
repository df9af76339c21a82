----------------------------- MODULE DeployOrder -----------------------------
(***************************************************************************)
(* topo_order of harmont/_deploy.py: Kahn's algorithm over the registered  *)
(* deployments, in sweeps over the registry's insertion order.             *)
(*                                                                         *)
(* A deployment is known by its place in that order (the registry refuses  *)
(* a slug twice), so deployment s was decorated before t iff s < t.  Its   *)
(* upstreams are the names of its Dep parameters; a name nobody registered *)
(* is a number above the last deployment.                                  *)
(***************************************************************************)
EXTENDS Naturals, Sequences, FiniteSets

CONSTANT MaxDeployments   \* bound on the number of deployments and names

ASSUME MaxDeploymentsIsNat == MaxDeployments \in Nat

VARIABLES
  registered,   \* number of deployments in DEPLOYMENTS
  upstreams,    \* dep_graph: deployment -> names of its Dep parameters
  pc,           \* "start", "sweep", and at last "sorted" or "raised"
  indeg,        \* upstreams not in the order yet, of each deployment
  order,        \* the result
  at,           \* where the sweep stands
  progressed    \* the sweep has appended something

vars == <<registered, upstreams, pc, indeg, order, at, progressed>>

Slugs == 1 .. registered
Names == 1 .. MaxDeployments
InOrder(s) == \E i \in DOMAIN order : order[i] = s

Init ==
  /\ registered \in 0 .. MaxDeployments
  /\ upstreams \in [Slugs -> SUBSET Names]
  /\ pc = "start"
  /\ indeg = [s \in Slugs |-> 0] /\ order = <<>>
  /\ at = 1 /\ progressed = FALSE

\* Only registered upstreams count.
CountUpstreams ==
  /\ pc = "start"
  /\ indeg' = [s \in Slugs |-> Cardinality(upstreams[s] \cap Slugs)]
  /\ pc' = "sweep"
  /\ UNCHANGED <<registered, upstreams, order, at, progressed>>

Sweeping == pc = "sweep" /\ at <= registered

PassOver ==
  /\ Sweeping /\ (InOrder(at) \/ indeg[at] # 0)
  /\ at' = at + 1
  /\ UNCHANGED <<registered, upstreams, pc, indeg, order, progressed>>

\* Mutant: the count is off by one.
PlaceBeforeLastUpstream ==
  /\ Sweeping /\ ~InOrder(at) /\ indeg[at] \in {0, 1}
  /\ order' = Append(order, at)
  /\ indeg' = [s \in Slugs |->
                 IF at \in upstreams[s] /\ ~InOrder(s) /\ s # at
                 THEN indeg[s] - 1 ELSE indeg[s]]
  /\ progressed' = TRUE
  /\ at' = at + 1
  /\ UNCHANGED <<registered, upstreams, pc>>

Place ==
  /\ Sweeping /\ ~InOrder(at) /\ indeg[at] = 0
  /\ order' = Append(order, at)
  /\ indeg' = [s \in Slugs |->
                 IF at \in upstreams[s] /\ ~InOrder(s) /\ s # at
                 THEN indeg[s] - 1 ELSE indeg[s]]
  /\ progressed' = TRUE
  /\ at' = at + 1
  /\ UNCHANGED <<registered, upstreams, pc>>

\* Mutant: the flag is not reset.
SweepForever ==
  /\ pc = "sweep" /\ at > registered /\ progressed
  /\ at' = 1
  /\ UNCHANGED <<registered, upstreams, pc, indeg, order, progressed>>

SweepAgain ==
  /\ pc = "sweep" /\ at > registered /\ progressed
  /\ at' = 1 /\ progressed' = FALSE
  /\ UNCHANGED <<registered, upstreams, pc, indeg, order>>

\* Mutant: one sweep is taken to be enough.
FinishAfterOneSweep ==
  /\ pc = "sweep" /\ at > registered
  /\ pc' = IF Len(order) = registered THEN "sorted" ELSE "raised"
  /\ UNCHANGED <<registered, upstreams, indeg, order, at, progressed>>

Finish ==
  /\ pc = "sweep" /\ at > registered /\ ~progressed
  /\ pc' = IF Len(order) = registered THEN "sorted" ELSE "raised"
  /\ UNCHANGED <<registered, upstreams, indeg, order, at, progressed>>

Step == CountUpstreams \/ PassOver \/ Place \/ SweepAgain \/ Finish

Ended == pc \in {"sorted", "raised"} /\ UNCHANGED vars

Next == Step \/ Ended

\* One thread runs the loops without waiting for anything.
Spec == Init /\ [][Next]_vars /\ WF_vars(Step)

-----------------------------------------------------------------------------
(***************************************************************************)
(* "deps first": a deployment stands in the order behind every registered  *)
(* deployment it names, and stands there once.                             *)
(***************************************************************************)
DepsFirst ==
  \A i \in DOMAIN order :
    /\ \A u \in upstreams[order[i]] \cap Slugs : \E j \in 1 .. i - 1 : order[j] = u
    /\ \A j \in DOMAIN order : order[i] = order[j] => i = j

(***************************************************************************)
(* "Raises RuntimeError on cycles", and only on cycles: a set of           *)
(* deployments each of which waits for another of the set.                 *)
(***************************************************************************)
Deadlocked(S) == S # {} /\ \A s \in S : upstreams[s] \cap S # {}

RaisesExactlyOnCycles ==
  /\ pc = "raised" => \E S \in SUBSET Slugs : Deadlocked(S)
  /\ pc = "sorted" => /\ \A S \in SUBSET Slugs : ~Deadlocked(S)
                      /\ \A s \in Slugs : InOrder(s)
=============================================================================
