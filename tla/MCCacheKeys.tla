----------------------------- MODULE MCCacheKeys -----------------------------
(* Documents of up to three steps for CacheKeys: every chain shape of three *)
(* commands, named, hashed and with a key given twice, each in the versions *)
(* that differ in the text of one command, and two commands around a wait.  *)
EXTENDS CacheKeys, TLC

CONSTANTS e, f, k, k1, k2, k3, c1, c2, p, q

\* A file, a directory, and the directory with its second file renamed.
MCContents == {File(<<2>>), Dir(1 :> <<>> @@ 2 :> <<2>>), Dir(1 :> <<>> @@ 3 :> <<2>>)}

NoCache == [policy |-> "none"]
Forever == [policy |-> "forever", env_keys |-> {e}]
TwoTicks == [policy |-> "ttl", duration |-> 2, env_keys |-> {}]
OnChange == [policy |-> "on_change", paths |-> <<f>>]
Instant == [policy |-> "ttl", duration |-> 0, env_keys |-> {}]
Either == [policy |-> "compose", subs |-> <<TwoTicks, OnChange>>]
Nested == [policy |-> "compose", subs |-> <<NoCache, Either>>]

MCPolicies == {NoCache, Forever, TwoTicks, OnChange, Instant, Either, Nested}

\* The keys of steps whose names come from `naming`: a name of their own, the
\* name k that others bear, or a hash, over nothing for one chained from a fork.
Keys(naming, parents, cmds) ==
  LET key[i \in DOMAIN naming] ==
        CASE naming[i] = "own" -> NameKey(<<k1, k2, k3>>[i])
          [] naming[i] = "k" -> NameKey(k)
          [] naming[i] = "fork" \/ parents[i] = 0 -> HashKey(None, cmds[i], i - 1)
          [] OTHER -> HashKey(key[parents[i]], cmds[i], i - 1)
  IN key

Doc(naming, parents, cmds, policies) ==
  LET key == Keys(naming, parents, cmds) IN
  [i \in DOMAIN naming |->
     [type |-> "command", key |-> key[i], cmd |-> cmds[i], cache |-> policies[i],
      builds_in |-> IF parents[i] = 0 THEN None ELSE key[parents[i]]]]

WaitDict == [type |-> "wait"]

Namings == {<<"own", "own", "own">>, <<"hash", "hash", "hash">>, <<"own", "fork", "hash">>,
            <<"k", "k", "own">>, <<"k", "own", "k">>, <<"k", "hash", "k">>}

Triples(policies) ==
  [naming : Namings, parents : {0} \X {0, 1} \X {0, 1, 2},
   policies : policies \X policies \X policies]

\* Two commands around a wait.
Pairs(policies) ==
  [naming : {<<"own", "own">>, <<"own", "hash">>}, parents : {0} \X {0, 1},
   policies : policies \X policies]

Singles(policies) ==
  [naming : {<<"own">>, <<"hash">>}, parents : {<<0>>}, policies : policies \X {None}]

\* A single step under every policy, deeper documents under those that differ.
MCProjects == Triples({None, Forever, OnChange})
                \cup Pairs({None, NoCache, Forever, Either, Nested})
                \cup Singles(MCPolicies)

\* The text of one command is edited.
Texts(n) == {[i \in 1 .. n |-> IF i = edited THEN c2 ELSE c1] : edited \in 0 .. n}

MCVersions ==
  [pl \in MCProjects |->
     {LET d == Doc(pl.naming, pl.parents, cmds, pl.policies) IN
        IF Len(d) = 2 THEN <<d[1], WaitDict, d[2]>> ELSE d :
      cmds \in Texts(Len(pl.naming))}]

Renaming == Permutations({p, q})
=============================================================================
