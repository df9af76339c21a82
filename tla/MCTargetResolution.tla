-------------------------- MODULE MCTargetResolution --------------------------
(* Projects for TargetResolution: two pipelines, two targets and a          *)
(* deployment, every way to wire the last three from a few lists of         *)
(* parameters and calls, and the second target's function named like the    *)
(* first's, or not.                                                         *)
EXTENDS TargetResolution, TLC

CONSTANTS p, q, a, b, d, pN, qN, aN, bN, dN, nobody

TargetParam(n) == [marker |-> "target", name |-> n]
DepParam(n) == [marker |-> "dep", name |-> n]
TargetCall(n) == [marker |-> "call", name |-> n]
ValueParam == [marker |-> "value", name |-> nobody]
ParamsOf(list) == {list[i] : i \in DOMAIN list}

ParamLists ==
  {<<>>, <<TargetParam(aN)>>, <<TargetParam(bN)>>, <<DepParam(dN)>>,
   <<TargetParam(bN), DepParam(dN)>>, <<ValueParam, TargetParam(nobody)>>,
   <<TargetCall(bN)>>, <<DepParam(dN), TargetCall(aN)>>}

RootLists == {<<TargetParam(aN), TargetParam(bN)>>, <<DepParam(dN), TargetParam(aN)>>,
              <<TargetParam(bN), TargetCall(bN)>>}

MCProjects ==
  {[kind |-> (p :> "pipeline" @@ q :> "pipeline" @@ a :> "target"
                @@ b :> "target" @@ d :> "deploy"),
    fname |-> (p :> pN @@ q :> qN @@ a :> aN @@ b :> bname @@ d :> dN),
    reg |-> (p :> pN @@ q :> qN @@ a :> aN @@ b :> bN @@ d :> dN),
    params |-> (p :> pl @@ q :> ql @@ a :> al @@ b :> bl @@ d :> dl),
    raises |-> r,
    dumps |-> [pipeline |-> <<p, q>>,
               \* topo_order raises on a deployment that names itself.
               deploy |-> IF DepParam(dN) \in ParamsOf(dl) THEN <<>> ELSE <<d>>]] :
     bname \in {bN, aN}, pl \in RootLists, ql \in {<<TargetParam(aN)>>},
     al \in ParamLists, bl \in ParamLists, dl \in ParamLists,
     r \in {{}, {b}}}
=============================================================================
