------------------------------- MODULE Lowering -------------------------------
(***************************************************************************)
(* A pipeline that is rendered, edited and rendered again.  One render is  *)
(* the whole of what hm.pipeline and the envelope do with a Step tuple:    *)
(* _topo_collect (Collection), resolve_keys and _lower_to_dicts            *)
(* (KeyResolution), resolve_pipeline_keys (Keygen).  The keys of the two   *)
(* documents say which snapshots of the first build the second reuses.     *)
(*                                                                         *)
(* Every command is cached forever: the other policies, the renders that   *)
(* raise and a changing world are CacheKeys'.  The leaves are the Steps    *)
(* nothing is chained from, each once.                                     *)
(***************************************************************************)
EXTENDS KeyResolution, Collection, SequencesExt

CONSTANTS
  EditedCmds,   \* the commands an edit may put in
  MaxRendered   \* bound on the number of Steps of the first render

ASSUME EditedCmdsType == EditedCmds \subseteq Cmds
ASSUME CachedForever == \A p \in Policies : p.policy = "forever"

VARIABLE renders   \* what was rendered so far, oldest first

lowVars == <<keyVars, renders>>

Keygen == INSTANCE Keygen WITH Empty <- None, EnvKeys <- {}, Paths <- {}, Contents <- {}

World == [pipeline |-> "p", now |-> 0, env |-> <<>>]

(***************************************************************************)
(* resolve_pipeline_keys over the whole document.  A later entry of        *)
(* `resolved` replaces an earlier one of the same key.                     *)
(***************************************************************************)
CacheKeysOf(doc) ==
  LET key[i \in DOMAIN doc] ==
        IF i \notin Keygen!Cached(doc) THEN None
        ELSE LET known == {j \in Keygen!Cached(doc) : j < i /\ doc[j].key = doc[i].builds_in}
                 parent == IF doc[i].builds_in = None THEN [root |-> "scratch"]
                           ELSE key[Youngest(known)]
             IN Keygen!CacheKey(doc[i], parent, World)
  IN key

-----------------------------------------------------------------------------
LoweringInit == KeyInit /\ renders = <<>>

\* A command with no name, with a label, or with an explicit key.
Write ==
  \/ heap = <<>> /\ Scratch
  \/ \E p \in StepIds : Fork(p, None)
  \/ \E p \in StepIds, cmd \in Cmds \ EditedCmds, cache \in Policies :
       \/ \E label \in Opt(Labels) : Sh(p, cmd, label, cache, None, None)
       \/ \E key \in KeyOverrides : Sh(p, cmd, None, cache, None, key)

\* The first version of the pipeline has no wait: it would shift nothing, since
\* only commands are counted.  An edit may add one.
WriteStep ==
  /\ stage = "build" /\ renders = <<>> /\ Len(heap) < MaxRendered
  /\ Write
  /\ UNCHANGED <<kvars, renders>>

Tips == {s \in StepIds : \A t \in StepIds : Parent(t) # s}

\* The leaves of the first version stand in the order they were built in: any
\* other program is a renumbering (Renumber) of one of these.
Leaves == IF renders = <<>> THEN {SetToSortSeq(Tips, <)} ELSE SetToSeqs(Tips)

StartRender ==
  /\ heap # <<>>
  /\ \E leaves \in Leaves : ordered' = Collected(leaves)
  /\ StartResolve
  /\ UNCHANGED renders

Pass ==
  /\ Resolve \/ StartEmit \/ Emit \/ FinishLowering
  /\ UNCHANGED renders

\* resolve_pipeline_keys, after the document is complete.
KeyDocument ==
  /\ stage = "lowered" /\ Len(renders) < 2
  /\ renders' = Append(renders, [heap |-> heap, ordered |-> ordered, out |-> out,
                                 cacheKey |-> CacheKeysOf(out)])
  /\ stage' = IF renders = <<>> THEN "edit" ELSE "done"
  /\ UNCHANGED <<heap, ordered, at, position, keys, reserved, out>>

ChangeCommand == \E s \in CommandSet, cmd \in EditedCmds : heap' = [heap EXCEPT ![s].cmd = cmd]

Rechain ==
  \E s \in CommandSet : \E p \in 1 .. s - 1 :
    ~IsWait(p) /\ heap' = [heap EXCEPT ![s].parent = p]

\* The same Steps, built in another order.
Renumber ==
  \E order \in ParentFirstOrders :
    LET new(s) == IF s = NoStep THEN NoStep ELSE CHOOSE i \in StepIds : order[i] = s IN
    heap' = [i \in StepIds |-> [heap[order[i]] EXCEPT !.parent = new(@)]]

\* One edit; the next render starts with nothing but the heap.
Edit ==
  /\ stage = "edit"
  /\ Write \/ Wait \/ ChangeCommand \/ Rechain \/ Renumber
  /\ stage' = "build" /\ ordered' = <<>> /\ at' = 1 /\ position' = 0
  /\ keys' = <<>> /\ reserved' = {} /\ out' = <<>>
  /\ UNCHANGED renders

Done == stage = "done" /\ UNCHANGED lowVars

LoweringNext == WriteStep \/ StartRender \/ Pass \/ KeyDocument \/ Edit \/ Done

LoweringSpec == LoweringInit /\ [][LoweringNext]_lowVars

-----------------------------------------------------------------------------
\* The renders, once both are done.
Compared == IF stage = "done" THEN DOMAIN renders ELSE {}

(***************************************************************************)
(* A render r: its commands are the entries i of its document.             *)
(***************************************************************************)
Entries(r) == {i \in DOMAIN r.out : r.out[i].type = "command"}
StepAt(r, i) == r.out[i].step

\* A Step of a heap and all Steps above it.
UpFrom(h, s) ==
  LET up[t \in 0 .. Len(h)] == IF t = NoStep THEN {} ELSE {t} \cup up[h[t].parent]
  IN up[s]

\* The commands a step builds on, itself included, as entries.
ChainOf(r, i) == {j \in Entries(r) : StepAt(r, j) \in UpFrom(r.heap, StepAt(r, i))}

\* The names a step goes by or lays claim to.
NamesOf(step) ==
  {step.key_override, IF step.label = None THEN None ELSE Slug[step.label]} \ {None}

\* No other entry of the document has the key of an entry of the chain.
Unambiguous(r, i) ==
  \A a \in ChainOf(r, i) : \A j \in Entries(r) \ {a} : r.out[j].key # r.out[a].key

(***************************************************************************)
(* Two entries that share a snapshot, in one render or in two, run the     *)
(* same commands on top of one another, from scratch up, unless a command  *)
(* of their chains has the explicit key of another Step of its render      *)
(* (Unambiguous; what such a key does is DuplicatesStayLocal).  Steps are  *)
(* cached forever here; an image is no part of a key and not compared.     *)
(***************************************************************************)
Rank(S, k) == Cardinality({l \in S : l < k})

EqualKeysSameBuild ==
  \A m, n \in Compared :
    LET a == renders[m]  b == renders[n] IN
    \A i \in Entries(a), j \in Entries(b) :
      Unambiguous(a, i) /\ Unambiguous(b, j) /\ a.cacheKey[i] = b.cacheKey[j] =>
        /\ Cardinality(ChainOf(a, i)) = Cardinality(ChainOf(b, j))
        /\ \A k \in ChainOf(a, i), l \in ChainOf(b, j) :
             Rank(ChainOf(a, i), k) = Rank(ChainOf(b, j), l) => a.out[k].cmd = b.out[l].cmd

(***************************************************************************)
(* Two Steps with one explicit key make `builds_in` ambiguous for what is  *)
(* chained from them (nothing refuses it, _keys.py:74), but for nothing    *)
(* else: the cache key of an entry whose chain holds no such key is over   *)
(* the cache key of the command right below it.                            *)
(***************************************************************************)
DuplicatesStayLocal ==
  \A n \in Compared : \A i \in Entries(renders[n]) :
    LET r == renders[n]  below == ChainOf(r, i) \ {i} IN
    Unambiguous(r, i) =>
      r.cacheKey[i].parent =
        IF below = {} THEN [root |-> "scratch"] ELSE r.cacheKey[Youngest(below)]

(***************************************************************************)
(* Renders are reproducible: a pipeline of the same Steps in the same      *)
(* order has the same document and the same cache keys, in whatever order  *)
(* and in whatever process its Steps were built.                           *)
(***************************************************************************)
Place(r, s) == IF s = NoStep THEN NoStep ELSE CHOOSE i \in DOMAIN r.ordered : r.ordered[i] = s

SameProgram(a, b) ==
  /\ Len(a.ordered) = Len(b.ordered)
  /\ \A i \in DOMAIN a.ordered :
       LET s == a.heap[a.ordered[i]]  t == b.heap[b.ordered[i]] IN
       /\ [s EXCEPT !.parent = NoStep] = [t EXCEPT !.parent = NoStep]
       /\ Place(a, s.parent) = Place(b, t.parent)

RebuildKeepsKeys ==
  \A m, n \in Compared :
    LET a == renders[m]  b == renders[n] IN
    SameProgram(a, b) =>
      /\ [i \in DOMAIN a.out |-> [a.out[i] EXCEPT !.step = NoStep]]
           = [i \in DOMAIN b.out |-> [b.out[i] EXCEPT !.step = NoStep]]
      /\ a.cacheKey = b.cacheKey

(***************************************************************************)
(* What an added Step leaves alone: an entry keeps its key and its         *)
(* snapshot when every command of its chain has a name no other Step lays  *)
(* claim to, or has none and stands behind as many commands as before.     *)
(***************************************************************************)
Undisturbed(a, i, b) ==
  LET step == a.heap[StepAt(a, i)] IN
  IF a.out[i].key.by = "name"
  THEN \A s \in DOMAIN b.heap \ {StepAt(a, i)} :
         b.heap[s].cmd # None => a.out[i].key.name \notin NamesOf(b.heap[s])
  ELSE \E j \in Entries(b) :
         /\ StepAt(b, j) = StepAt(a, i)
         /\ Cardinality({k \in Entries(b) : k < j}) = Cardinality({k \in Entries(a) : k < i})

KeysSurviveAddition ==
  stage = "done" =>
    LET a == renders[1]  b == renders[2] IN
    IsPrefix(a.heap, b.heap) =>
      \A i \in Entries(a), j \in Entries(b) :
        /\ StepAt(a, i) = StepAt(b, j)
        /\ \A k \in ChainOf(a, i) : Undisturbed(a, k, b)
        => a.out[i].key = b.out[j].key /\ a.cacheKey[i] = b.cacheKey[j]

(***************************************************************************)
(* "Cache forever, keyed only on (command, parent, env_keys)"              *)
(* (cache.py:31): a step that is still the same, on top of the same        *)
(* commands, keeps its snapshot.                                           *)
(***************************************************************************)
ForeverKeyedOnlyOnInputs ==
  stage = "done" =>
    LET a == renders[1]  b == renders[2] IN
    IsPrefix(a.heap, b.heap) =>
      \A i \in Entries(a), j \in Entries(b) :
        StepAt(a, i) = StepAt(b, j) => a.cacheKey[i] = b.cacheKey[j]
=============================================================================
