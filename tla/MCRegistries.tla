----------------------------- MODULE MCRegistries -----------------------------
(* Two files for Registries, of up to two statements each.                   *)
EXTENDS Registries

CONSTANTS a, snake, long

Decorated(kind, name, params, triggers) ==
  [kind |-> kind, name |-> name, params |-> params, triggers |-> triggers]

MCStatements ==
  {Decorated(kind, a, <<>>, <<>>) : kind \in Kinds}
    \cup {Decorated(kind, long, <<"marked">>, <<>>) : kind \in {"pipeline", "deploy"}}
    \cup {Decorated("target", snake, <<"default">>, <<>>),
          Decorated("pipeline", snake, <<>>, <<>>),
          Decorated("target", a, <<"marked", "unmarked">>, <<>>),
          Decorated("pipeline", a, <<>>, <<[event |-> "pull_request", types |-> {"opened"}],
                                          [event |-> "push", branch |-> None, tag |-> None]>>),
          Decorated("pipeline", a, <<>>, <<[event |-> "schedule", cron |-> "daily"]>>),
          [kind |-> "call", args |-> <<"object">>],
          [kind |-> "call", args |-> <<"step", "object">>],
          [kind |-> "raise"]}

Tuples(n) == UNION {[1 .. k -> MCStatements] : k \in 0 .. n}
MCProjects == {<<first, second>> : first \in Tuples(2), second \in Tuples(2)}
=============================================================================
