# Verification of harmont-py

harmont-py turns Python functions into CI pipelines. A user module decorates
functions (`@hm.pipeline`, `@hm.target`, `@hm.deploy`); a render calls them,
resolves their parameters like test fixtures, walks the chains of `Step`
values they return, orders and names the steps, computes the key every step's
VM snapshot is cached under, and prints one JSON envelope. Nothing runs
concurrently and nothing is persisted by the library itself. What is hard here
is the interaction of passes over a shared graph of Steps, names that come
from three sources, state that survives between renders of one process, and a
cache that is right only if its keys follow exactly the inputs of a step over
many builds.

This directory holds TLA+ modules of that program, TLC configurations and
TLAPS proofs. All paths below are under `src/harmont/`.

## Inventory

| Component | State it keeps | Operations | Hard part | What makes it correct |
|---|---|---|---|---|
| Step chains (`_step.py`) | the frozen Steps and their `parent` pointers | `scratch`, `wait`, `Step.sh`, `Step.fork` | sharing of prefixes, image inheritance through forks | the forest is acyclic; an image stops at the first command |
| Collection (`pipeline.py`, `_topo_collect`) | `seen`, `ordered`, the chain being climbed | one loop over leaves, a climb, an emission | leaves that share ancestors, waits between them | parent first, complete, no duplicates, waits are barriers |
| Keys and lowering (`_keys.py`, `pipeline.py`) | `keys`, `reserved`, slug counts, the dicts | `resolve_keys`, `_lower_to_dicts`, `_resolved_parent_key` | a name's fate depends on steps before and behind it | keys distinct but for an explicit one given twice, the documented precedence, `builds_in` finds its step |
| Cache keys (`keygen.py`, `cache.py`) | `resolved`, `cache["key"]` | `resolve_pipeline_keys`, `_resolve_policy`, `_path_hash` | builds at different times in different checkouts | a key changes exactly when an input of the chain does |
| Dependency injection (`_deps.py`, `_target.py`) | `_TARGETS_BY_NAME`, `_RESOLVING`, `_TARGET_CACHE` | `call_with_deps`, `resolve_deps`, the target wrapper, `clear_target_memo` | recursion through user code, exceptions, state left by an earlier render | the stack mirrors the calls, one run per render, cycles are found and only cycles |
| Deployments (`_deploy.py`) | `DEPLOYMENTS` | `deploy` and the wrapper it makes, `dep_graph`, `topo_order` | counters decremented in the sweep that reads them | dependencies first, an error exactly on a cycle |
| Registries (`_decorator.py`, `_registry.py`, `_deps.py`, `_deploy.py`) | `REGISTRATIONS`, `_TARGETS_BY_NAME`, `DEPLOYMENTS` | the three decorators, `clear_registry`, `clear_target_cache` | an import that fails half way and is tried again | nothing is replaced; a failed import leaves exactly what stands in front of the failure |
| Envelope (`_envelope.py`, `json_emit.py`) | none of its own | `dump_registry_json`, `_render_one`, `pipeline_to_json` | one pipeline that fails ends the render of all | values of one render only |
| Leaf coercion (`_unwrap.py`) | none | `as_leaves` | nested tuples, default actions of toolchains | leaves in order |
| Toolchains (`_toolchain.py`, `rust.py`, ... `composer.py`) | the Steps an object holds | `make_install_chain`, one factory per language | a cached install on `base=` | shared install step, cached chain down to its root |
| Triggers (`triggers.py`) | none | `push`, `pull_request`, `schedule` | - | argument checks |
| Dev driver (`dev/`) | none | the import of `.harmont/*.py`, `deploy`, `port`, `dump_registry_json` | calls of user code in the order of a graph it computes itself, keys resolved under fixed inputs, one key space for all deployments | the whole project or nothing, upstreams first, equal tags only for equal chains |

How they interact: decoration fills the registries; `dump_registry_json` clears
the target memo and calls every registration; the wrapper calls
`call_with_deps`, which calls targets and deployments recursively; the Steps
they return are coerced to leaves and given to `pipeline(leaves)`, which
collects, names and lowers them; `resolve_pipeline_keys` mutates the dicts in
place. The dev dump does the same with deployments in `topo_order`.

The hazards of each part, at their lines, are in `PROJECT.json`.

## Modules

| Module | Models | Uses |
|---|---|---|
| `StepChain` | `_step.py`: the heap of Steps and the operations that grow it | - |
| `EmissionOrder` | the abstract specification of the order of a pipeline's steps | `StepChain` |
| `Collection` | the value `_topo_collect` returns, as a function | `StepChain` |
| `TopoCollect` | `_topo_collect`, one action per loop iteration; implements `EmissionOrder`, returns `Collection`'s value | `Collection`, `EmissionOrder` |
| `KeyResolution` | `resolve_keys` and `_lower_to_dicts`, one action per iteration | `StepChain` |
| `Keygen` | the functions of `keygen.py`: policies, streams of files, the key of a step | - |
| `CacheKeys` | `resolve_pipeline_keys` over a history of renders | `Keygen` |
| `Lowering` | the passes of one pipeline together, over two versions of it | `KeyResolution`, `Collection`, `Keygen` |
| `TargetResolution` | `_deps.py`, `_target.py`, the deployment wrapper and the loops of the two dumps | - |
| `DeployOrder` | `dep_graph` and `topo_order` | - |
| `DevDump` | `dev/`: the calls of the deployments and their entries | `DeployOrder`, `Keygen` |
| `Registries` | the three decorators and registries, the import of `.harmont` | - |
| `Toolchains` | `_toolchain.py`, the fourteen languages, `_unwrap.py` | `StepChain` |
| `MC...` | values of constants for TLC | the module they instantiate |
| `StepChainProofs`, `TopoCollectProofs`, `KeyResolutionProofs` (with `Lowering`), `CacheKeysProofs`, `TargetResolutionProofs`, `DevDumpProofs` (with `DeployOrder`), `RegistriesProofs`, `ToolchainsProofs` | theorems | the module they are about |

Operators that a comment calls a mutant are wrong on purpose: each is a
variant of the definition behind it with a plausible bug, listed in
`PROJECT.json` with the property that catches it.

### How state and actions correspond to the code

**StepChain.** `heap` is the sequence of Steps created so far; a Step is its
index, which stands for Python's `id()`. `Sh`, `Fork`, `Wait` and `Scratch` are
the four constructors, `BaseImage` is the root `resolve_deps` injects. A Step
has the fields the passes read: `cmd`, `parent`, `is_wait`, `label`, `cache`,
`image`, `key_override`. `Reach` is the least set closed under `parent`; it is
written as an intersection and not by recursion, so that it can be proved
about.

**TopoCollect.** `leaves` is the argument, `at` the index of the for loop,
`chain` and `node` the locals of one iteration, `seen` and `ordered` the
accumulators, `pc` the place in the code. `EmitWaitLeaf`, `Climb`, `StopClimb`
and `EmitFromChain` are the bodies of the loops. User code (`BuildStep`) comes
first; then `CallPipeline` takes any tuple of Steps, repetitions included.

**KeyResolution.** The commands of `ordered` are named one by one: `UseOverride`,
`UseSlug` and `UseHash` are the three ways of the loop body and their guards
are its conditions; `StartResolve` stands for the code in front of the loop
(overrides, slugs and counts are functions of the heap, so only `reserved`,
which the loop changes, is a variable). `EmitWait`, `SkipPassthrough` and
`EmitCommand` are the body of `_lower_to_dicts`. A key is a record: a name, or
a hash over its pre-image. `ordered` is any parent-first enumeration of the
heap, which is what `TopoCollect` proves of the collection.

**Keygen, CacheKeys.** `world` is what a render reads besides the document: clock,
environment, files, pipeline identity (organisation and slug). `project` is
a pipeline, fixed in a behaviour, `Versions[project]` the documents it is lowered to as
the text of its commands is edited: the same steps under other texts, where a
hashed step key, which is over the text, moves with it (`VersionsHaveSameSteps`). `Change`
moves the world, or goes to another version. One render is `StartRender`, one action per step of
the document, and `FinishRender` or one of the two raising actions, which
append the outcome to `history`. `EnvSubset`, `ResolvePolicy` and `CacheKey`
(`Keygen`) are the functions of `keygen.py` with a digest standing for its
pre-image.
`PathHash` is what `_path_hash` feeds a digest: the bytes of a file, or for a
directory (`DirStream`) each relative path and content, a NUL behind both, in
the order of the paths. It tells directories apart only where no content holds
a NUL, which is the assumption `ContentsAreText`. `Parts` is what the recursion
of `_resolve_policy` visits; `Unresolvable` says that it raises on one of them.
Documents are what lowering emits (`DocsAreLowered`): `builds_in` is the key of an
earlier command, a key is a name or a hash over the parent's key (or nothing, behind
a fork), the command and its place. Names may be given twice, as an explicit `key=` may
(`_keys.py:74`). Then `resolved` finds the last cached step of that name, which is
what `Bearers` and `ChainOf` say: a step is keyed over that one, and where the
step it was chained from is uncached nothing is raised.

**TargetResolution.** `frames` is Python's call stack (a function and the
parameter it is binding), `resolving` is `_RESOLVING`, `memo` is
`_TARGET_CACHE` with the render each value was made in. `BindAtOnce`,
`BindUnknown`, `BindCycle` and `BindCall` are the branches of `resolve_deps`;
`Return`, `BodyRaises` and `Unwind` are the ways out of `call_with_deps`, with
the `finally` in both. A body may call targets itself ("explicit-call form",
`_target.py:24`): such calls stand behind the parameters of a function, in the order
the body makes them, and take the same way through the wrapper's memo and
`call_with_deps`. `Abort` is an exception that reaches the caller of the
render. `ImportCall` is a target called by user code outside any render. A
render is either of the two dumps, the envelope's over the pipelines or the dev
driver's over the deployments; `roots` is what it calls.

**DeployOrder.** A deployment is its place in the insertion order of
`DEPLOYMENTS`. `indeg`, `order` and `progressed` are the variables of
`topo_order`; `PassOver` and `Place` are the body of the sweep.

**Lowering.** `KeyResolution` with its free choice of an order replaced by the
value of `Collection`, followed by `KeyDocument`, the loop of
`resolve_pipeline_keys` as a function of the document (`CacheKeysOf`, with
`Keygen` instantiated for the key itself). `renders` keeps both documents.
Between them `Edit` changes one thing: a Step is added anywhere in the chains
and its leaf anywhere in the tuple, a command is changed, a step is chained from
another, leaves are permuted, or the same Steps are built in another order
(`Renumber`; in the program, targets called in another order).

**DevDump.** `DeployOrder` up to its result, then one action per deployment and
outcome of its call: `BindUnknown`, `CallRaises`, `FactoryRaises`,
`RaiseInKeygen` end the dump; `EnterImage`, `EnterChain` and `EnterUnhandled` append
an entry. `checkout` and `tmp` are the files of the worktree and of `/tmp`, chosen
when the calls begin. What a deployment returns is chosen where it is called:
all bodies are covered, and the calls inside are those of `TargetResolution`.

**Registries.** A project is a tuple of statements per file: a decorated
function with its triggers, its parameters and its name, a call of `hm.pipeline`
that is no decoration, or anything that raises. `line` is the place of the
import, `registry` the three registries as entries in insertion order.
`Decorate` and `RefuseDecoration` are the three decorators, whose checks come in
one order: arguments (triggers), signature, slug, duplicate, entry. `Ready` is
what happens between two imports: an edit of a statement, and a new process or
some of the helpers that clear. Only the dev driver imports the files itself;
for the envelope the caller does, and what holds here of the registries holds
there.

**Toolchains.** The fourteen language modules do the same thing with other
commands, so each is a `Recipe`: the policies of the steps behind the tool's
installation, whether the factory returns a toolchain that projects are spawned
from, and what `as_leaves` makes of the object. `CallFactory` (and `Spawn`) put
the calls of `Step.sh` that a chain consists of into `todo`, `MakeStep` makes
them one by one with the `Sh` of `StepChain`, and behind the last one the object
exists. `Act` is any of the methods `build`, `test`, `lint`, ...; a bare form
(`hm.rust.test()`) is a factory call and an `Act`. `Write` is user code that
builds Steps of its own, the bases of the next toolchain. After
`ReturnFromPipeline` the items of the return value are unwrapped in any order,
and `Render` is the failure condition of `resolve_pipeline_keys`.

## What is checked

| Run | Bounds | Shows |
|---|---|---|
| `topo_collect` | 4 Steps, 3 leaves | `TopoTypeOK`; `ImageStopsAtCommand`, `ParentFirst`, `EmittedOnce`, `Complete`, `WaitsAreBarriers`, `ResultIsCollected`, `CallReturns`, and the refinement `OrderSpec` |
| `key_resolution` | 4 Steps, 3 labels, 2 explicit keys | `KeyTypeOK`, `KeysDistinct`, `PrecedenceRespected`, `BuildsInResolves` |
| `cache_keys` | documents of up to 3 steps, named, hashed and with a key given twice, 2 renders, 1 change | `KeyFollowsInputs` in both directions, `RenderRaisesExactlyWhenUnsound` |
| `lowering` | 4 Steps and one more by the edit, 2 renders, 1 edit | `EqualKeysSameBuild`, `DuplicatesStayLocal`, `RebuildKeepsKeys`, `KeysSurviveAddition` |
| `target_resolution` | 5 functions, 2 renders | `StackMirrorsCalls`, `RunsMatchUses`, `MemoIsOfThisRender`, `OutcomeIsSound`, `RenderEnds` |
| `dev_dump` | 4 deployments, 3 chains | `DepsFirst`, `RaisesExactlyOnCycles`, `DepsDumpedFirst`, `EqualTagsEqualChains`, `DumpEnds` |
| `registries` | 2 files of 2 statements, 2 imports, 1 edit | `RegistriesMirrorImport`, `ImportSucceedsIffSound`, `NothingIsReplaced`, `DumpIsTheProject` |
| `toolchains` | 5 Steps, 2 of them or fewer written by the user, 5 recipes, 2 leaves | `NoImageIsIgnored`, `ProjectsShareInstall`, `UncachedParentIsUsers` |

Four runs end in a counterexample on purpose: they show where the code does not
do what its own comments say.

| Run | The comment | What happens |
|---|---|---|
| `fork_image` | a root's image is passed "down to the first emitted command step" (`_step.py:70`) | `root.fork().sh(...)` loses it |
| `same_name` | `name=` is for functions whose names collide (`_target.py:87`) | one that depends on the other is reported as a cycle |
| `lowering_forever` | a step cached forever is "keyed only on (command, parent, env_keys)" (`cache.py:31`) | a leaf put in front of an unlabelled one moves its snapshot |
| `dev_worktree` | watched files are read "from the source archive's checkout root" (`cache.py:58`) | the dump of the dev driver reads them below `/tmp` |

Other divergences seen while modelling, without a run of their own:

- A hashed step key covers the key of the direct parent, and the empty string
  when that is a fork; `_keys.py:6` and `_keys.py:114` speak of the resolved parent.
- A composition with `CacheNone` hits, since that resolves to the constant
  "none"; `cache.py:70` says "ONLY when every sub-policy hits" and `cache.py:23` that
  `CacheNone` never does. `KeyFollowsInputs` does not speak of chains that hold one.
- A cached step on an uncached parent raises "parent must be defined upstream and
  cached" (`keygen.py:82`), except where a cached step in front has the parent's
  explicit key: then it is keyed over that step (`RenderRaisesExactlyWhenUnsound` says
  which). Two equal steps with one explicit key share a snapshot.
- `topo_order` is not stable within a level (`_deploy.py:160`): a deployment freed in
  a sweep overtakes an earlier one of its level.
- A TTL shorter than a day splits a day, one longer joins days, against "Two
  builds within the same UTC day share a key" (`cache.py:45`). With a
  duration of a day the windows are the UTC days; `KeyFollowsInputs` speaks of windows. In the dev dump the time is always 0, so a TTL never expires.
- The dump promises a terminal key for every `from_` chain
  (`dev/_registry_dump.py:9-12`); one whose last step is uncached has none.
- Neither the image nor the env of a step enters its cache key, so steps that
  differ in those alone share a snapshot where their keys agree (in the dev dump,
  across deployments). The promises of `cache.py` name neither.
- The slug patterns end in `$`, which also matches before a final newline.
- `_deps.py:11` says a render clears the stack of names; it clears the memo only.
  The stack needs no clearing (`StackMirrorsCalls`).

### Why the bounds are enough

- Four Steps hold a shared prefix with two branches and a wait, a fork between
  two commands, and two chains; three leaves hold a wait between two branches,
  the same leaf twice, and a leaf above another. Every path of the loops is
  taken. The properties that matter are proved without bounds below.
- A key collision involves two claimants, a third step that holds the name as
  an explicit key, and a parent: four Steps. `build` and `build2` are two
  labels with one slug, `emoji` one with none, `n1` a slug that is also an
  explicit key.
- A key relates two renders, and a key that stands or moves wrongly does so over one
  change: before the first render it varies what that reads, between the two what
  the second does. The window is two ticks, so a boundary or none can
  lie between two renders. Chains of three carry a change over an intermediate step, and
  hold two steps of one name with a third on either. Every mix of names, hashes, a
  hash behind a fork and a name given twice is under every chain of three whose steps
  are uncached, forever or on_change; compositions are in documents of two, around a wait,
  every policy in one of one step. `Horizon` bounds the clock only.
- Two renders and one edit are what it takes to compare two versions; four Steps
  hold two commands with a fork between them, or three on one root with one
  explicit key twice, and the edit adds a fifth. All commands of the first version
  are the same: different ones are told apart more easily, and the edit puts in
  another. The leaves are the Steps nothing is chained from, and those of the
  first version stand in the order they were built in: every other program is a
  renumbering of one of these, which `Renumber` and `RebuildKeepsKeys` are about.
- Two files with two statements hold a pair of equal names in one registry and in
  two, within a file and across files, in front of and behind a statement that
  raises. `MCStatements` has a statement for every check that can refuse one, a name
  that a target may have and a pipeline may not, and one that is too long
  for a deployment only.
- The wirings of `MCTargetResolution` hold self-loops, loops of two and three
  through targets and deployments, diamonds, unknown names, targets called from
  the bodies of a pipeline, a target and a deployment, a raising body and functions that share a name. The second render starts from whatever the
  first one left.
- Five Steps hold the default chain of a language with a dependency layer and a
  toolchain on top of it, a project on each of two calls of `Spawn`, and a
  toolchain on an uncached command of the user. The five recipes of the run
  differ in every field of a recipe; the others repeat one of them up to what
  `as_leaves` refuses.
- Four deployments hold a cycle of three with one outside, and two levels of
  two. `upstreams` ranges over all relations, names nobody registered included.
  The three chains hold two that differ in the command of their root only, under
  the same labels, and one with a cached step on an uncached one.

### Fairness

`TopoSpec`, the `Spec` of `TargetResolution` and `DevSpec` assume
weak fairness of the steps of a call that has begun. It is justified: the
library is called by one thread, waits for nothing, and the bodies of user
functions are taken to return or raise. User code itself (`BuildStep`,
`StartRender`, `ImportCall`) is under no fairness: nobody has to call. `CacheKeys`,
`Lowering` and `Registries` state safety only; their loops run over a finite tuple.

## What is proved

Every theorem holds for every value of the constants; none is bounded by the
instances above. Each rests on an inductive invariant that TLC checked on the
run of its module before it was proved.

**Step chains** (`StepChainProofs`).
`ForestWellFormed`: `WellFormed` is inductive, since a constructor is given an
existing Step as its parent. `RootImageStopsAtCommand`: a Step with a parent
that bears the image of a root got it from that parent, which bears it too and is
no command (`ImageHandedDown`); so the Steps below it that bear it, down to the
root, are closed under `parent` and no command is among them. Its hypothesis, that the images user code names are not those of the
roots, is the one under which the origin of an image can be seen at all.

**Collection** (`TopoCollectProofs`).
`CollectIsTyped`, `CollectIsParentFirst`, `CollectEmitsOnce`, `CollectIsComplete`
follow from `TopoInv`. `ParentFirst` alone is not inductive: the climb stops at
a seen Step, so it must be known that what has been seen has been emitted
(`SeenEmitted`) and that what is left to emit is linked, each Step of `chain`
the child of the next and the last a child of `node` (`ChainLinked`). For
completeness, what the loops hold is reached by the leaves (`HoldsNeeded`), and
every leaf passed, with all it reaches, is out (`LeavesCovered`).
`WaitsStandAsBarriers` adds that nothing but what the leaves passed reach is
held when the next leaf is begun (`HoldsFirst`), so that a wait emitted there
stands behind exactly that (`BarriersSoFar`). `CollectImplementsOrder`:
`TopoSpec => OrderSpec`; every step maps to a step of `EmissionOrder` or to a
stutter. `CollectStopsRootImages` is `RootImageStopsAtCommand` under `TopoSpec`.

`CollectIsTheFunction` says that the loops compute the function `Collected`, which is
what entitles `Lowering` to use that function for the pass. It is about order and so
needs more than `TopoInv`. `CollectedInv` says, at each place of the code, what the
accumulators are: between two leaves `ordered` is the function's value for the leaves
passed and `seen` what these reach (`PassedCollected`); in the climb, what is still to
come above `node` and the `chain` read backwards are together the fresh part of the
leaf's chain (`ClimbCollects`); in the emission, `ordered` and the rest of `chain` read
backwards are the value for this leaf too (`EmitCollects`). `ChainIsFresh` keeps the
Steps of the chain apart from `seen`, so that the climb stops where the function does.

**Keys and lowering** (`KeyResolutionProofs`).
`KeysAreTyped`, `KeysAreDistinct`, `PrecedenceHolds`, `BuildsInFindsItsStep`
follow from `KeyInv`. `PrecedenceRespected` is not inductive alone: the code
decides on a slug by looking at `reserved` and the count of labels, the property
by looking at all claims of the pipeline. `ReservedNames` connects them:
`reserved` holds every explicit key, those of Steps not yet visited too, and
otherwise only slugs already given. Distinctness is then a consequence: two
equal names would each be claimed by the other, and `HashPositions` says that
hashes differ in their position. For `builds_in`, `Emitted` says that each dict
stands behind all its command ancestors; it rests on `AncestorsStandBefore`, that
in a parent-first enumeration the whole chain of a Step stands in front of it.

**Two versions of a pipeline** (`Lowering`, in `KeyResolutionProofs`).
`DuplicatesHarmTheirChainsOnly` and `EqualKeysMeanSameBuild` follow from `LowInv`:
`KeyInv` while a render is on its way, and of each render recorded that every entry's
chain is the entry and the chain of the last entry below it (`ChainStands`), over
whose cache key it is made when no other entry has that one's name (`KeyedOver`). Every
edit keeps the forest well formed (`WriteKeepsForest`, `ChangeKeepsForest`,
`RenumberKeepsForest`); what a Step reaches lies on one line (`ReachIsLine`), so the
command `_resolved_parent_key` stops at is the last of the chain in the document
(`ChainUnfolds`). Two chains with one key are then compared from their ends down,
and the nth commands of both are the same (`SameChainGrows`).

`RebuildingKeepsKeys` and `AdditionsKeepKeys` compare the documents of two whole
renders, which the state no longer explains: the first was made from a heap that has
been edited. `DocInv` therefore says of each render recorded that it is a function of its heap
and its order (`RenderFits`): the nth emitted step has the nth dict (`PlacesFit`), and
every entry has the key by the precedence, the `builds_in` and the policy of its Step (`EntryFits`).
To get there, it says of the render on its way that a hash given so far holds the number of
commands in front of its step (`HashesCount`) and that each dict stands at the number of
emitted Steps in front of it (`DictsStand`). For a rebuilt pipeline the
renumbering is then carried through names (`RebuiltKeys`), dicts (`RebuiltDicts`) and
the key function (`SameDictsSameKeys`); for an addition, names nobody else claims and
hashes behind as many commands as before stay along the chain
(`UndisturbedKeepKeys`), and so do the snapshots over them (`UndisturbedKeepSnapshots`).
The hypothesis of all four theorems, `NoneIsNoKey`, is
that None is not a key; it ranges over all values, so that it is no `ASSUME` of the
module but part of the theorems.

**Cache keys** (`CacheKeysProofs`).
`RenderRaisesWhenUnsound` follows from `KeysInv`: in
the loop, `resolved` holds under each key the cache key of the last cached command
passed that bears it (`ResolvedSoFar`), every cached command passed has found one, and
the renders recorded are right (`HistoryIsRight`).

`KeysFollowInputs` is the promise of the cache itself, in both directions: between
any two renders of a pipeline, its commands edited or not, the cache key of a step moves
if and only if an input of its chain has: what the policies name, and the command
where a step's own key is a hash. Chains with a `CacheNone` in a composition are left
out. It rests on four groups of lemmas.
- Each key recorded is made over the key of the step's parent (`KeyOf`), so two
  chains are compared from the first step at which they could differ, by position
  (`KeysTell`).
- What a policy resolves to is the same in two worlds exactly when each of its
  parts sees the same (`PolicyTells`), from the leaves (`LeafResolution`: equal
  quotients are equal windows, `WindowIsQuotient`; an unset variable reads as the
  empty string, `EnvIsSubset`) outwards to compositions.
- A path's stream tells contents apart (`PathHashTells`). The stream of a directory
  is taken apart from its end: behind the last NUL but one lies the last content, in
  front of it the last path (`LastBlock`), and the rest is a shorter stream
  (`BlocksAgree`). Without `ContentsAreText` this is false.
- The children of a directory have one sorted list (`SortedLists`), which exists
  since every child has a rank among them (`Ranks`).

**Dependency injection** (`TargetResolutionProofs`).
`ResolvingIsTheCallStack` follows from `StackInv`: a frame below another waits at
the parameter the upper one was called for, and no name is on the stack twice.
`MemoIsFresh` needs no more than itself: the memo is emptied where a render starts
and written only by a return within it. `TargetsRunAtMostOnce` follows from `RunInv`: a
target that is being called is not in the memo (`CalledIsNotMemoized`), and one
whose body has run is (`RunIsMemoized`).
`RunsAreCounted` is the equation of runs and uses. Uses are a set: the roots, and the
places of each run of a function. `UsesSoFar` relates it to a render on its way:
the runs of a pipeline or deployment, and the one that is in progress, are as many as
the roots called and the places bound or being bound in the runs so far, those
in progress included; a target has run or is running if there is one such place at all. A call adds a
use and a run in progress, a return turns the latter into a run and adds none, and
binding a memoized target adds a use of a target only, which has run (`RanIsSound`).
`RenderVerdictIsRight` follows from `SoundInv`, with both
directions of the verdict. What has run in a render without an error is closed
under its parameters, free of cycles and sound (`RanIsSound`), and holds every
root called. What is on the stack is needed (`CalledAreNeeded`) and depends on
all above it (`DownTheStack`), so a name found on the stack closes a cycle, and an
error has a reason among what is needed (`FailureIsReal`).

**Deployments and their dump** (`DevDumpProofs`).
`OrderIsDepsFirst`, `OrderRaisesOnCycles` follow from `OrderInv`: a counter is the
number of registered upstreams that are not in the order yet (`CountersMatch`),
although it is decremented in the sweep that reads it; a sweep without progress
has found nobody free (`NobodyFree`), so the rest are a set that waits for
itself; and nobody of such a set is ever placed (`NobodyOfADeadlock`).
`DumpKeepsDepsFirst`, `DumpRaisesOnCycles` and `DumpIsDepsFirst` follow from `DumpInv`: the entries follow the order.
`EqualTagsMeanEqualChains`: an entry has the keys of its chain (`EntriesKeyed`);
a key holds the key of its parent and no key is that of a root, so two chains
with one terminal key are compared from their ends down, and end together.

**Registries** (`RegistriesProofs`).
`RegistriesAreTheImport`, `DumpsAreWhole`, `ImportsFailForAReason` and the action
property `EntriesAreKept` follow from `ImportInv`: a registry is what it was before
plus what the statements passed declare (`Mirrored`), all of which were well formed
(`SoundSoFar`), and where an import failed its statement is refused
(`FailedAtRefused`). The lemmas `DeclaresConcat`, `SourceIsWhole` and `ExecutedMoves`
say how what is declared grows with the place of the import; `OrderIsOne`, that the
order of the file names is unique, whatever order the directory had.

**Toolchains** (`ToolchainsProofs`).
`SetupImagesCount`, `ProjectsShareOneInstall` and `StrandedByTheUser` follow from `ToolchainsInv`: the Steps that factories have
built carry images, policies and commands that fit what stands below them
(`ChainsInv`), the objects that exist hold such Steps (`ObjectsInv`), and so will
the calls of `sh` still to be made (`MakingInv`). Its lemmas say what `Above` of a
new Step is (`AboveParent`, `AboveStays`).

### Assumptions

The proofs use the named assumptions of the modules and no others; TLC evaluates
each of them on the runs.

| Assumption | What it says |
|---|---|
| `NoneIsNoValue`, `SlugType` | `None` is no other value, `Slug` gives slugs |
| `MaxStepsIsNat`, `MaxLeavesIsNat`, `MaxRendersIsNat`, `MaxDeploymentsIsNat` | the bounds are numbers |
| `DocsAreLowered`, `DocsAreDicts`, `ChainsAreLinear`, `ChainsAreDicts` | a document is a list of dicts as lowering emits it, whose cached steps have a policy of `Policies`. `DocsAreLowered` is less than `KeyResolution` concludes: keys need not be distinct |
| `VersionsHaveSameSteps` | the versions of a pipeline that `CacheKeys` compares differ in the text of commands and in the hashes over it, not in steps, chains or policies (`Lowering` edits those) |
| `HorizonIsNat`, `ContentsAreText` | the clock is a number; a file is a sequence of bytes without a NUL, a directory a finite nonempty map from names, which are no NUL, to such |
| `PoliciesAreKnown`, `PoliciesNest` | a policy is one of `cache.py`; a composition is not part of itself, since it is frozen when it is made |
| `ProjectsAreDecorated`, `FnsAreFinite` | what a decorator accepts: typed parameters, a dump of functions of its kind; a body calls decorated targets only; finitely many functions |
| `FilesAreOrdered`, `ProjectsType`, `SlugLengths` | finitely many files with an order of their names, statements per file; a deployment's slug is also short enough for a pipeline |
| `EditedCmdsType`, `CachedForever` | an edit puts in commands; `Lowering` is about pipelines whose commands are all cached forever, the other policies being `CacheKeys`' |
| `RolesAreCmds`, `ToolsHaveRecipes` | the commands of `Toolchains` are the roles of steps, every tool has a recipe |

### How the proofs deal with recursion

The prover has no induction with an operator as its parameter. Where a proof
needs induction over numbers, it is over the set of the numbers that have the
property (`UpTo`: a set that holds 0 and with every number the next holds
all). A recursive function is used only after a lemma has shown that it exists: a
table of its values is extended number by number (`TableExists`, `KeysExist`), or
given outright (`UpFromIsReach`: what a Step reaches; `FreshExists`, `EmittedExists`:
what is collected, by Step and by leaf), and
over policies by the innermost one that has no value yet (`ResolutionExists`).
`Closure`, a recursive function over a graph that may have cycles for all the
definition knows, exists because the least closed sets satisfy its equation
(`ClosureUnfolds`). A flattened list is built up block by block (`FlatExists`).
The lemmas about policies stand in `DevDumpProofs` and in `CacheKeysProofs`, since
neither module can extend the other: both have an `Init` and a `vars` of their own.

### Only model-checked

- Liveness (`CallReturns`, `RenderEnds`, `DumpEnds`): the prover has no fairness
  reasoning.

Every other property that a passing run checks (invariants, action properties, the
refinement) is stated by a theorem.

## What is not modelled

- The text of commands, labels and JSON; `slugify_label` is a constant function
  (`Slug`), a hash is injective, and no hash is spelled like a name.
- The wire form of triggers, deployments and the envelope, and the values that
  are copied into it (env, timeouts, runners, ports, volumes): layout, which no
  pass reads. The checks of those values are a Boolean in `DevDump`.
- `croniter`: a set of expressions it accepts.
- The command line of `python -m harmont.dev` and a project without `.harmont`,
  which exit before anything is imported.
- The defaults of a render (organisation, clock, working directory, process
  environment): they are its inputs here.
- What a command does in its VM: that the node installer of npm and elm runs apt-get
  itself, on a `base=` too (`_toolchain.py:44`), is nothing a Step tells.
- Bodies that catch an exception of what they call, that call it in dependence on
  values, or that call a pipeline or a deployment themselves.
- Argument checks of the factories (a refused version raises before a Step is
  built) and the globs of `haskell.py` and `ocaml.py`, which look at the working
  directory while `on_change` hashes below `base_path`: `OCaml` has both outcomes
  of its glob as alternatives.
- `typing.get_type_hints`: a parameter has its marker or not. That `dep_graph`
  evaluates annotations strictly is an outcome of `DevDump` (`RaiseOnHints`).
- A decorator on top of another one's wrapper.

## Plan

The modules of the plan exist, and every safety property of their runs is proved.
What is left is liveness, model-checked on the bounds above, and the parts that
"What is not modelled" lists.
