------------------------------ MODULE MCDevDump ------------------------------
(* Chains for DevDump: a step that watches a file, on either of two commands *)
(* under one label, and a cached step on an uncached one.                    *)
EXTENDS DevDump

CONSTANTS f, k1, k2, c1, c2

Forever == [policy |-> "forever", env_keys |-> {}]
OnChange == [policy |-> "on_change", paths |-> <<f>>]
MCPolicies == {Forever, OnChange}

Command(key, parent, cmd, cache) ==
  [type |-> "command", key |-> key, builds_in |-> parent, cmd |-> cmd, cache |-> cache]

MCChains ==
  {<<Command(k1, None, c1, Forever), Command(k2, k1, c1, OnChange)>>,
   <<Command(k1, None, c2, Forever), Command(k2, k1, c1, OnChange)>>,
   <<Command(k1, None, c1, None), Command(k2, k1, c1, Forever)>>}

\* Files, as CacheKeys has them.
TextFile(byte) == [is |-> "file", bytes |-> <<byte>>]
MCContents == {TextFile(1)}
MCTwoContents == {TextFile(1), TextFile(2)}
=============================================================================
