------------------------------ MODULE CacheKeys ------------------------------
(***************************************************************************)
(* The last pass of a render: resolve_pipeline_keys of harmont/keygen.py   *)
(* walks the lowered document and gives every cached command the key its   *)
(* snapshot is stored under, over the pipeline, the step's own key, the    *)
(* cache key of the step it builds in and the resolution of its policy     *)
(* (Keygen).                                                               *)
(*                                                                         *)
(* A project is built again and again while its files, its environment,    *)
(* its commands, its name and the time change, so the module is about a    *)
(* history of renders.                                                     *)
(***************************************************************************)
EXTENDS Keygen

CONSTANTS
  Projects,    \* the pipelines under work
  Versions,    \* the documents the versions of each are lowered to
  EnvVals, Pipelines,
  Horizon,     \* bound on the clock
  MaxBuilds,   \* bound on the number of renders
  MaxChanges   \* bound on the number of changes to the project

\* resolve_keys names a command, by its explicit key or the slug of its label,
\* or hashes it with its place among the commands.
NameKey(n) == [by |-> "name", name |-> n]
HashKey(parent, cmd, pos) ==
  [by |-> "hash", parent |-> parent, cmd |-> cmd, position |-> pos]

Position(doc, i) == Cardinality({j \in Commands(doc) : j < i})

(***************************************************************************)
(* What lowering guarantees (KeyResolution).  `builds_in` is the key of    *)
(* an earlier command.  A hashed key is over the key of the parent, over   *)
(* nothing where the step is a root or hangs on a fork.  Names need not be *)
(* distinct: the user may give two steps the same explicit key.            *)
(***************************************************************************)
ASSUME DocsAreLowered ==
  \A q \in Projects : \A doc \in Versions[q] : \A i \in Commands(doc) :
    /\ doc[i].builds_in # None =>
         \E j \in Commands(doc) : j < i /\ doc[j].key = doc[i].builds_in
    /\ \/ doc[i].key.by = "name" /\ doc[i].key = NameKey(doc[i].key.name)
       \/ \E parent \in {None, doc[i].builds_in} :
            doc[i].key = HashKey(parent, doc[i].cmd, Position(doc, i))

(***************************************************************************)
(* A document is a list of dicts, and every command has these entries;     *)
(* None stands for one that _lower_to_dicts leaves out.  Its policies are  *)
(* those of cache.py.                                                      *)
(***************************************************************************)
ASSUME DocsAreDicts ==
  \A q \in Projects : \A doc \in Versions[q] :
    /\ doc \in Seq(Range(doc))
    /\ \A i \in Commands(doc) : {"type", "key", "builds_in", "cmd", "cache"} \subseteq DOMAIN doc[i]
    /\ \A i \in Cached(doc) : doc[i].cache \in Policies

(***************************************************************************)
(* Versions of a pipeline differ in the text of commands only: the same    *)
(* steps are chained from the same, under the same policies and with names *)
(* from the same source, while a hash is over the text of the version.     *)
(***************************************************************************)
SameSteps(c, d) ==
  /\ DOMAIN c = DOMAIN d /\ Commands(c) = Commands(d)
  /\ \A i \in Commands(c) :
       /\ c[i].cache = d[i].cache
       /\ c[i].builds_in = None <=> d[i].builds_in = None
       /\ \A j \in Commands(c) : c[j].key = c[i].builds_in <=> d[j].key = d[i].builds_in
       /\ c[i].key.by = d[i].key.by
       /\ c[i].key.by = "name" => c[i].key = d[i].key
       /\ c[i].key.by = "hash" => (c[i].key.parent = None <=> d[i].key.parent = None)

ASSUME VersionsHaveSameSteps ==
  \A q \in Projects : \A c, d \in Versions[q] : SameSteps(c, d)

ASSUME HorizonIsNat == Horizon \in Nat

VARIABLES
  project,   \* the pipeline that is rendered again and again
  doc,       \* the document
  world,     \* what else a render reads: now, env, the checkout, the pipeline
  stage,     \* "idle" or "resolve"
  at,        \* index of the loop
  resolved,  \* the dict step key -> cache key
  cacheKey,  \* cache["key"] of every step, None where there is none
  history,   \* the renders so far
  changes    \* the number of changes so far

vars == <<project, doc, world, stage, at, resolved, cacheKey, history, changes>>

Put(f, x, v) == [y \in DOMAIN f \cup {x} |-> IF y = x THEN v ELSE f[y]]

-----------------------------------------------------------------------------
Worlds == [now : 0 .. Horizon, env : [EnvKeys -> EnvVals \cup {None}],
           files : [Paths -> Contents \cup {None}], pipeline : Pipelines]

Init ==
  /\ project \in Projects /\ doc \in Versions[project]
  /\ world \in {w \in Worlds : w.now \in {0, 1}
                                 /\ \A p \in Paths : w.files[p] # None
                                 /\ \A k \in EnvKeys : w.env[k] = None}
  /\ stage = "idle" /\ at = 1
  /\ resolved = <<>> /\ cacheKey = <<>>
  /\ history = <<>> /\ changes = 0

\* Between two renders the user, the checkout and the clock move on.
Change ==
  /\ stage = "idle" /\ changes < MaxChanges
  /\ changes' = changes + 1
  /\ \/ \E w \in Worlds :
          /\ \/ \E k \in EnvKeys, v \in EnvVals \cup {None} : w = [world EXCEPT !.env[k] = v]
             \/ \E p \in Paths, c \in Contents \cup {None} : w = [world EXCEPT !.files[p] = c]
             \/ \E id \in Pipelines : w = [world EXCEPT !.pipeline = id]
             \/ w = [world EXCEPT !.now = @ + 1]
          /\ world' = w /\ doc' = doc
     \/ doc' \in Versions[project] /\ world' = world
  /\ UNCHANGED <<project, stage, at, resolved, cacheKey, history>>

StartRender ==
  /\ stage = "idle" /\ Len(history) < MaxBuilds
  /\ stage' = "resolve" /\ at' = 1
  /\ resolved' = <<>> /\ cacheKey' = [i \in DOMAIN doc |-> None]
  /\ UNCHANGED <<project, doc, world, history, changes>>

AtCached == stage = "resolve" /\ at \in Cached(doc)

SkipUncached ==
  /\ stage = "resolve" /\ at <= Len(doc) /\ at \notin Cached(doc)
  /\ at' = at + 1
  /\ UNCHANGED <<project, doc, world, stage, resolved, cacheKey, history, changes>>

ParentKnown == doc[at].builds_in = None \/ doc[at].builds_in \in DOMAIN resolved
LookupParent ==
  IF doc[at].builds_in = None THEN [root |-> "scratch"] ELSE resolved[doc[at].builds_in]

ResolveStep ==
  /\ AtCached /\ ParentKnown /\ ~Unresolvable(doc[at].cache, world)
  /\ LET key == CacheKey(doc[at], LookupParent, world) IN
       /\ cacheKey' = [cacheKey EXCEPT ![at] = key]
       /\ resolved' = Put(resolved, doc[at].key, key)
  /\ at' = at + 1
  /\ UNCHANGED <<project, doc, world, stage, history, changes>>

Record(outcome) ==
  /\ history' = Append(history, [doc |-> doc, world |-> world, outcome |-> outcome,
                                 cacheKey |-> cacheKey])
  /\ stage' = "idle"
  /\ UNCHANGED <<project, doc, world, at, resolved, cacheKey, changes>>

\* The step builds in a command that has no cache key: ValueError.
RaiseUncachedParent == AtCached /\ ~ParentKnown /\ Record("raised")

\* Mutant: the error is swallowed and the step goes without a key.
SwallowPolicyError ==
  /\ AtCached /\ ParentKnown /\ Unresolvable(doc[at].cache, world)
  /\ at' = at + 1
  /\ UNCHANGED <<project, doc, world, stage, resolved, cacheKey, history, changes>>

\* _path_hash or the division raises.
RaiseInPolicy ==
  AtCached /\ ParentKnown /\ Unresolvable(doc[at].cache, world) /\ Record("raised")

FinishRender == stage = "resolve" /\ at > Len(doc) /\ Record("rendered")

Ended == stage = "idle" /\ Len(history) = MaxBuilds /\ UNCHANGED vars

Next == Change \/ StartRender \/ SkipUncached \/ ResolveStep
          \/ RaiseUncachedParent \/ RaiseInPolicy \/ FinishRender \/ Ended

Spec == Init /\ [][Next]_vars

-----------------------------------------------------------------------------
(***************************************************************************)
(* The cached steps in front of a step that bear the key it builds in; it  *)
(* is keyed over the last of them.  Where no explicit key is given twice   *)
(* that is the command it is chained from, if that is cached.              *)
(***************************************************************************)
Bearers(d, i) ==
  {j \in Cached(d) : j < i /\ d[i].builds_in # None /\ d[j].key = d[i].builds_in}

ChainOf(d, i) ==
  Closure([j \in Cached(d) |-> IF Bearers(d, j) = {} THEN {} ELSE {Max(Bearers(d, j))}], i)

(***************************************************************************)
(* What a snapshot depends on, as a relation between two renders of a      *)
(* project: the variables and files a policy names, the command but for    *)
(* on_change, and the window of a TTL, "refresh once per window"           *)
(* (cache.py:43), counted from time 0; an unset variable counts as an      *)
(* empty one.                                                              *)
(***************************************************************************)
SameEnv(env_keys, a, b) ==
  \A k \in env_keys :
    a.env[k] = b.env[k] \/ {a.env[k], b.env[k]} = {None, Empty}

SameWindow(duration, a, b) ==
  \E n \in 0 .. Horizon : \A t \in {a.now, b.now} :
    n * duration <= t /\ t < (n + 1) * duration

PartHolds(p, sameCmd, a, b) ==
  /\ p.policy \in {"forever", "ttl"} => sameCmd /\ SameEnv(p.env_keys, a, b)
  /\ p.policy = "ttl" => SameWindow(p.duration, a, b)
  /\ p.policy = "on_change" =>
       \A k \in DOMAIN p.paths : a.files[p.paths[k]] = b.files[p.paths[k]]

\* "Cache hits ONLY when every sub-policy hits" (cache.py:70).
PolicyHolds(i, a, b) ==
  \A p \in Parts(a.doc[i].cache) :
    PartHolds(p, a.doc[i].cmd = b.doc[i].cmd, a.world, b.world)

\* A hashed key is over the command, whatever the policy says of it.
NameStands(i, a, b) ==
  a.doc[i].key.by = "hash" => a.doc[i].cmd = b.doc[i].cmd

InputsUnchanged(i, a, b) ==
  /\ a.world.pipeline = b.world.pipeline
  /\ \A j \in ChainOf(a.doc, i) : NameStands(j, a, b) /\ PolicyHolds(j, a, b)

\* CacheNone in a composition: by its own words (cache.py:23) it never hits.
HoldsCacheNone(d, i) ==
  \E j \in ChainOf(d, i) : \E p \in Parts(d[j].cache) : p.policy = "none"

Rendered == {n \in DOMAIN history : history[n].outcome = "rendered"}

(***************************************************************************)
(* A snapshot is reused exactly while it is good: over any two renders of  *)
(* a pipeline whose commands may be edited in between, a step keeps its    *)
(* cache key if and only if what its policy names, the command where its   *)
(* key is a hash, and the same of every step below it are as before.  Said *)
(* of chains without a CacheNone inside a composition, which the code lets *)
(* hit; a chain that runs through a key given twice is the one of Bearers. *)
(***************************************************************************)
KeyFollowsInputs ==
  \A m, n \in Rendered : \A i \in Cached(history[m].doc) :
    ~HoldsCacheNone(history[m].doc, i) =>
      (history[m].cacheKey[i] = history[n].cacheKey[i]
         <=> InputsUnchanged(i, history[m], history[n]))

(***************************************************************************)
(* A render fails exactly when some cached step builds in a key that no    *)
(* cached step in front of it bears, watches a path that is not there or   *)
(* has a window of no length.  Where no explicit key is given twice, the   *)
(* first says that it stands on an uncached command ("parent must be       *)
(* defined upstream and cached", keygen.py:82); a cached step that shares  *)
(* the explicit key of an uncached one hides it.                           *)
(***************************************************************************)
RenderRaisesExactlyWhenUnsound ==
  \A n \in DOMAIN history :
    LET b == history[n] IN
    b.outcome = "raised" <=>
      \E i \in Cached(b.doc) :
        \/ b.doc[i].builds_in # None /\ Bearers(b.doc, i) = {}
        \/ Unresolvable(b.doc[i].cache, b.world)
=============================================================================
