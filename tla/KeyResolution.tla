---------------------------- MODULE KeyResolution ----------------------------
(***************************************************************************)
(* The second pass of a render: resolve_keys of harmont/_keys.py gives     *)
(* every command Step the key other steps refer to it by, and the loop of  *)
(* _lower_to_dicts (harmont/pipeline.py) emits one dict per wait or        *)
(* command, whose `builds_in` is the key of the nearest emitted ancestor.  *)
(*                                                                         *)
(* The pass gets the Steps in any parent-first order (TopoCollect).  Steps *)
(* no leaf reaches and repeated waits are left out: they carry no key.     *)
(*                                                                         *)
(* SHA-256 is modelled as injective, and no hash is spelled like a slug or *)
(* like an explicit key: a key is a name or a hash over its pre-image.     *)
(***************************************************************************)
EXTENDS StepChain

CONSTANTS
  Slugs,   \* non-empty slugs
  Slug     \* slugify_label: the slug of a label, None when it is empty

ASSUME SlugType == Slug \in [Labels -> Opt(Slugs)] /\ None \notin Slugs

VARIABLES
  stage,     \* "build", "resolve", "emit", "lowered"
  ordered,   \* the result of _topo_collect
  at,        \* index into `ordered` of the loop of the current stage
  position,  \* enumerate() over the commands among them
  keys,      \* the dict of resolve_keys: Step -> key
  reserved,  \* the set of names taken
  out        \* the dicts emitted so far

kvars == <<stage, ordered, at, position, keys, reserved, out>>
keyVars == <<heap, stage, ordered, at, position, keys, reserved, out>>

NameKey(n) == [by |-> "name", name |-> n]
HashKey(parent, cmd, pos) ==
  [by |-> "hash", parent |-> parent, cmd |-> cmd, position |-> pos]

CommandSet == {s \in StepIds : IsCommand(s)}

ParentFirstOrders ==
  {o \in [StepIds -> StepIds] :
     /\ \A s \in StepIds : \E i \in StepIds : o[i] = s
     /\ \A i \in StepIds : Parent(o[i]) # NoStep =>
          \E j \in 1 .. i - 1 : o[j] = Parent(o[i])}

Overridden(s) == heap[s].key_override # None
NaturalSlug(s) == IF heap[s].label = None THEN None ELSE Slug[heap[s].label]

\* Mutant: slug_counts is not looked at.
AnyClaimant(s) == TRUE

\* slug_counts[slug] == 1, counted over every labelled step.
SoleClaimant(s) == \A t \in CommandSet : NaturalSlug(t) = NaturalSlug(s) => t = s

Put(f, x, v) == [y \in DOMAIN f \cup {x} |-> IF y = x THEN v ELSE f[y]]

-----------------------------------------------------------------------------
KeyInit ==
  /\ BuildInit
  /\ stage = "build" /\ ordered = <<>> /\ at = 1 /\ position = 0
  /\ keys = <<>> /\ reserved = {} /\ out = <<>>

BuildStep == stage = "build" /\ Build /\ UNCHANGED kvars

\* Mutant: explicit keys are not reserved beforehand.
StartResolveUnreserved ==
  /\ stage = "build"
  /\ stage' = "resolve"
  /\ ordered' \in ParentFirstOrders
  /\ UNCHANGED <<heap, at, position, keys, reserved, out>>

\* resolve_keys up to its loop: every explicit key is reserved beforehand.
StartResolve ==
  /\ stage = "build"
  /\ stage' = "resolve"
  /\ ordered' \in ParentFirstOrders
  /\ reserved' = {heap[s].key_override : s \in {t \in CommandSet : Overridden(t)}}
  /\ UNCHANGED <<heap, at, position, keys, out>>

Current == ordered[at]
Resolving == stage = "resolve" /\ at <= Len(ordered)

\* The list given to resolve_keys holds the commands only.
SkipKeyless ==
  /\ Resolving /\ ~IsCommand(Current)
  /\ at' = at + 1
  /\ UNCHANGED <<heap, stage, ordered, position, keys, reserved, out>>

\* Mutant: a fork or a wait gets a key as well.
AssignToAny(key) ==
  /\ Resolving
  /\ keys' = Put(keys, Current, key)
  /\ at' = at + 1 /\ position' = position + 1
  /\ UNCHANGED <<heap, stage, ordered, out>>

Assign(key) ==
  /\ Resolving /\ IsCommand(Current)
  /\ keys' = Put(keys, Current, key)
  /\ at' = at + 1 /\ position' = position + 1
  /\ UNCHANGED <<heap, stage, ordered, out>>

SlugUsable(s) ==
  /\ ~Overridden(s)
  /\ NaturalSlug(s) # None
  /\ NaturalSlug(s) \notin reserved
  /\ SoleClaimant(s)

UseOverride ==
  /\ Assign(NameKey(heap[Current].key_override))
  /\ Overridden(Current)
  /\ UNCHANGED reserved

UseSlug ==
  /\ Assign(NameKey(NaturalSlug(Current)))
  /\ SlugUsable(Current)
  /\ reserved' = reserved \cup {NaturalSlug(Current)}

\* Only a direct parent that has a key enters the hash; a fork or a scratch
\* has none.  None stands for the empty string.
ParentComponent(s) == IF Parent(s) \in DOMAIN keys THEN keys[Parent(s)] ELSE None

\* Mutant: the identity of the Step stands for its position.
UseHashOfIdentity ==
  /\ Assign(HashKey(ParentComponent(Current), heap[Current].cmd, Current))
  /\ ~Overridden(Current) /\ ~SlugUsable(Current)
  /\ UNCHANGED reserved

\* Mutant: the position is counted from the end.
UseHashFromEnd ==
  /\ Assign(HashKey(ParentComponent(Current), heap[Current].cmd, Len(ordered) - at))
  /\ ~Overridden(Current) /\ ~SlugUsable(Current)
  /\ UNCHANGED reserved

UseHash ==
  /\ Assign(HashKey(ParentComponent(Current), heap[Current].cmd, position))
  /\ ~Overridden(Current) /\ ~SlugUsable(Current)
  /\ UNCHANGED reserved

StartEmit ==
  /\ stage = "resolve" /\ at > Len(ordered)
  /\ stage' = "emit" /\ at' = 1
  /\ UNCHANGED <<heap, ordered, position, keys, reserved, out>>

\* _resolved_parent_key walks up to the first command; a parent is older than
\* its child, so that is the youngest command among the ancestors.
Youngest(S) == CHOOSE s \in S : \A t \in S : t <= s

\* Mutant: only the direct parent is looked at.
DirectParentKey(s) == IF Parent(s) \in DOMAIN keys THEN keys[Parent(s)] ELSE None

ResolvedParentKey(s) ==
  IF CommandAncestors(s) = {} THEN None ELSE keys[Youngest(CommandAncestors(s))]

Emitting == stage = "emit" /\ at <= Len(ordered)

EmitDict(d) ==
  /\ out' = Append(out, d)
  /\ at' = at + 1
  /\ UNCHANGED <<heap, stage, ordered, position, keys, reserved>>

EmitWait ==
  /\ Emitting /\ IsWait(Current)
  /\ EmitDict([type |-> "wait", step |-> Current])

\* scratch and fork carry no command and are not emitted.
SkipPassthrough ==
  /\ Emitting /\ ~IsWait(Current) /\ heap[Current].cmd = None
  /\ at' = at + 1
  /\ UNCHANGED <<heap, stage, ordered, position, keys, reserved, out>>

EmitCommand ==
  /\ Emitting /\ IsCommand(Current)
  /\ EmitDict([type |-> "command", step |-> Current, key |-> keys[Current],
               cmd |-> heap[Current].cmd, builds_in |-> ResolvedParentKey(Current),
               cache |-> heap[Current].cache])

FinishLowering ==
  /\ stage = "emit" /\ at > Len(ordered)
  /\ stage' = "lowered"
  /\ UNCHANGED <<heap, ordered, at, position, keys, reserved, out>>

Ended == stage = "lowered" /\ UNCHANGED keyVars

Resolve == SkipKeyless \/ UseOverride \/ UseSlug \/ UseHash
Emit == EmitWait \/ SkipPassthrough \/ EmitCommand

KeyNext == BuildStep \/ StartResolve \/ Resolve \/ StartEmit \/ Emit
             \/ FinishLowering \/ Ended

KeySpec == KeyInit /\ [][KeyNext]_keyVars

-----------------------------------------------------------------------------
KeyTypeOK ==
  /\ WellFormed
  /\ stage \in {"build", "resolve", "emit", "lowered"}
  /\ ordered \in Seq(StepIds)
  /\ at \in Nat \ {0} /\ position \in Nat
  /\ DOMAIN keys \subseteq CommandSet
  /\ reserved \subseteq KeyOverrides \cup Slugs
  /\ DOMAIN out \subseteq StepIds

(***************************************************************************)
(* Two steps never get the same key, unless the user gave both the same    *)
(* explicit key: not when labels collide, not when an explicit key equals  *)
(* another step's slug, whichever of the two comes first in the pipeline.  *)
(***************************************************************************)
OverridesDistinct ==
  \A s, t \in CommandSet :
    Overridden(s) /\ heap[s].key_override = heap[t].key_override => s = t

KeysDistinct ==
  OverridesDistinct => \A s, t \in DOMAIN keys : keys[s] = keys[t] => s = t

(***************************************************************************)
(* The precedence of _keys.py:3-12, said without an order of evaluation:   *)
(* an explicit key wins; a step is named by its slug exactly when no other *)
(* step claims that name by label or by explicit key; the rest is hashed.  *)
(***************************************************************************)
ClaimedByOther(s) ==
  \E t \in CommandSet \ {s} : NaturalSlug(s) \in {NaturalSlug(t), heap[t].key_override}

PrecedenceRespected ==
  \A s \in DOMAIN keys :
    IF Overridden(s) THEN keys[s] = NameKey(heap[s].key_override)
    ELSE IF NaturalSlug(s) # None /\ ~ClaimedByOther(s)
         THEN keys[s] = NameKey(NaturalSlug(s))
         ELSE keys[s].by = "hash"

(***************************************************************************)
(* `builds_in` always finds its target: the key it carries is the key of   *)
(* exactly one dict, emitted earlier, and that dict is the nearest command *)
(* the step was chained from; a step chained from no command has none.     *)
(***************************************************************************)
EmittedCommands == {i \in DOMAIN out : out[i].type = "command"}

BuildsInResolves ==
  OverridesDistinct =>
    \A i \in EmittedCommands :
      LET above == CommandAncestors(out[i].step) IN
      IF above = {} THEN out[i].builds_in = None
      ELSE \E j \in EmittedCommands :
             /\ j < i
             /\ out[j].step \in above
             /\ \A a \in above : a <= out[j].step
             /\ \A k \in EmittedCommands : out[k].key = out[i].builds_in <=> k = j
=============================================================================
