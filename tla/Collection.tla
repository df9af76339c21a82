------------------------------ MODULE Collection ------------------------------
(* What _topo_collect returns for a tuple of leaves, as a function: the value *)
(* its loops (TopoCollect) compute.                                           *)
EXTENDS StepChain

ElementsOf(s) == {s[i] : i \in DOMAIN s}

\* What the chains of the leaves in front of the nth have marked as seen.
SeenBefore(leafs, n) == Reach({leafs[m] : m \in {k \in 1 .. n - 1 : ~IsWait(leafs[k])}})

\* For each Step its chain, root first, cut at the first Step that is known.
FreshChain(known) ==
  LET fresh[s \in {NoStep} \cup StepIds] ==
        IF s \in {NoStep} \cup known THEN <<>> ELSE Append(fresh[Parent(s)], s)
  IN fresh

\* What the nth leaf adds.
Added(leafs, n) ==
  IF IsWait(leafs[n]) THEN <<leafs[n]>> ELSE FreshChain(SeenBefore(leafs, n))[leafs[n]]

\* What is emitted for the first n leaves.
CollectedUpTo(leafs) ==
  LET upTo[n \in 0 .. Len(leafs)] ==
        IF n = 0 THEN <<>> ELSE upTo[n - 1] \o Added(leafs, n)
  IN upTo

Collected(leafs) == CollectedUpTo(leafs)[Len(leafs)]
=============================================================================
