------------------------------ MODULE Toolchains ------------------------------
(***************************************************************************)
(* The language toolchains (harmont/_toolchain.py and one module for each  *)
(* language) build step chains for the user: a factory call makes the      *)
(* system packages, the tool and the project's dependencies, each a cached *)
(* Step on the one before, and the methods of the object it returns hang   *)
(* actions on the last.  base= puts the chain on a Step the user has, in   *)
(* place of the system packages.  What a pipeline function returns is      *)
(* coerced to leaves (harmont/_unwrap.py), and the render that follows     *)
(* fails where a cached step stands on an uncached command (CacheKeys).    *)
(*                                                                         *)
(* Every toolchain is a Recipe.  A command is known by its role; versions  *)
(* and texts are left out (a version that is refused raises before a Step  *)
(* is built).  The bare form hm.rust.test(...) is a call of the factory    *)
(* and one action on the object it returns.                                *)
(***************************************************************************)
EXTENDS StepChain, FiniteSets

CONSTANTS
  Tools,       \* the toolchains in use
  MaxWritten,  \* bound on the number of Steps user code writes itself
  MaxLeaves    \* bound on the number of leaves a pipeline returns

Setup == {"apt", "install", "layer"}     \* the roles of a toolchain's own Steps
Roles == Setup \cup {"user", "action"}
PolicyKinds == {"none", "ttl", "forever", "on_change"}

ASSUME RolesAreCmds == Cmds = Roles /\ Policies = PolicyKinds

-----------------------------------------------------------------------------
(***************************************************************************)
(* What the languages differ in: the policies of the Steps between the     *)
(* tool's installation and the object's `installed` (alternatives where    *)
(* they depend on the files present), whether the factory returns a        *)
(* toolchain that projects are spawned from, and what as_leaves makes of   *)
(* the object: an action on it, its `installed`, or a TypeError.  The      *)
(* install command of npm and elm is the node installer, which runs        *)
(* apt-get itself, on a base= too: an "install" like the others.           *)
(***************************************************************************)
Recipe(layers, spawns, leaf) == [layers |-> layers, spawns |-> spawns, leaf |-> leaf]

Rust == Recipe({<<>>}, FALSE, "action")
Haskell == Recipe({<<"on_change">>}, TRUE, "action")
Npm == Recipe({<<"on_change">>}, FALSE, "installed")
Elm == Recipe({<<"forever">>}, FALSE, "action")
Python == Recipe({<<"on_change">>}, FALSE, "refused")
Zig == Recipe({<<>>}, TRUE, "refused")
OCaml == Recipe({<<"on_change">>, <<"forever">>}, FALSE, "refused")
Ruby == Recipe({<<"on_change">>}, FALSE, "refused")
Perl == Recipe({<<"on_change">>}, FALSE, "refused")
Composer == Recipe({<<"on_change">>}, FALSE, "refused")
Go == Recipe({<<>>}, FALSE, "refused")
CMake == Recipe({<<>>}, FALSE, "refused")
Gradle == Recipe({<<>>}, FALSE, "refused")
Dotnet == Recipe({<<>>}, FALSE, "refused")

Recipes ==
  [rust |-> Rust, haskell |-> Haskell, npm |-> Npm, elm |-> Elm, python |-> Python,
   zig |-> Zig, ocaml |-> OCaml, ruby |-> Ruby, perl |-> Perl, composer |-> Composer,
   go |-> Go, cmake |-> CMake, gradle |-> Gradle, dotnet |-> Dotnet]

ASSUME ToolsHaveRecipes == Tools \subseteq DOMAIN Recipes

-----------------------------------------------------------------------------
VARIABLES
  stage,     \* "build", "unwrap" (as_leaves) and at last "ended"
  todo,      \* the calls of Step.sh a toolchain has yet to make
  cursor,    \* the Step the next of them is made on
  making,    \* the object they are made for
  objects,   \* the objects user code holds
  leaves,    \* the Steps coerced so far from what the pipeline returned
  written,   \* number of Steps user code has written itself
  outcome    \* "none", then "rendered", "uncached_parent" or "not_a_leaf"

locals == <<todo, cursor, making>>
vars == <<heap, stage, todo, cursor, making, objects, leaves, written, outcome>>

\* `of` is the `installed` of the toolchain a project was spawned from.
Object == [tool : Tools, spawns : BOOLEAN, installed : Nat, of : Nat]
RecipeOf(o) == Recipes[o.tool]

Init ==
  /\ BuildInit
  /\ stage = "build" /\ todo = <<>> /\ cursor = NoStep /\ making = None
  /\ objects = {} /\ leaves = {} /\ written = 0
  /\ outcome = "none"

UserTurn == stage = "build" /\ todo = <<>>

\* User code builds Steps of its own, on any Step it has.
Write ==
  /\ UserTurn /\ written < MaxWritten
  /\ \/ Scratch
     \/ \E img \in RootImages : BaseImage(img)
     \/ \E p \in StepIds : Fork(p, None)
     \/ \E p \in StepIds, cache \in {None, "forever"} :
          Sh(p, "user", None, cache, None, None)
  /\ written' = written + 1
  /\ UNCHANGED <<stage, todo, cursor, making, objects, leaves, outcome>>

ShCall(cmd, cache, image) == [cmd |-> cmd, cache |-> cache, image |-> image]
LayerCalls(layers) == [i \in DOMAIN layers |-> ShCall("layer", layers[i], None)]

\* Mutants of InstallCalls: the image is given to the tool's Step; the system
\* packages are not cached.
ImageOnInstall(base, image) ==
  (IF base = NoStep THEN <<ShCall("apt", "ttl", None)>> ELSE <<>>)
    \o <<ShCall("install", "forever", image)>>

AptUncached(base, image) ==
  (IF base = NoStep THEN <<ShCall("apt", None, image)>> ELSE <<>>)
    \o <<ShCall("install", "forever", None)>>

\* make_install_chain: with a base, the packages and the image are ignored.
InstallCalls(base, image) ==
  (IF base = NoStep THEN <<ShCall("apt", "ttl", image)>> ELSE <<>>)
    \o <<ShCall("install", "forever", None)>>

FitsIn(n) == Len(heap) + n <= MaxSteps

\* The calls are made from `base` on, or from a new scratch().
Begin(base, calls, object) ==
  /\ todo' = calls /\ making' = object
  /\ IF base = NoStep
     THEN FitsIn(Len(calls) + 1) /\ Scratch /\ cursor' = Len(heap) + 1
     ELSE FitsIn(Len(calls)) /\ cursor' = base /\ UNCHANGED heap

CallFactory(tool, base, image) ==
  /\ UserTurn
  /\ \E layers \in Recipes[tool].layers :
       Begin(base,
             InstallCalls(base, image)
               \o (IF Recipes[tool].spawns THEN <<>> ELSE LayerCalls(layers)),
             [tool |-> tool, spawns |-> Recipes[tool].spawns])
  /\ UNCHANGED <<stage, objects, leaves, written, outcome>>

\* Step.sh on the Step made last; behind the last call the object is there.
\* A project in the making already knows the toolchain it is spawned from.
MakeStep ==
  /\ todo # <<>>
  /\ LET call == Head(todo) IN Sh(cursor, call.cmd, None, call.cache, call.image, None)
  /\ cursor' = Len(heap) + 1 /\ todo' = Tail(todo)
  /\ IF Len(todo) = 1
     THEN /\ making' = None
          /\ objects' = objects \cup
               {[tool |-> making.tool, spawns |-> making.spawns, installed |-> cursor',
                 of |-> IF "of" \in DOMAIN making THEN making.of ELSE cursor']}
     ELSE UNCHANGED <<making, objects>>
  /\ UNCHANGED <<stage, leaves, written, outcome>>

\* Mutant: each project builds on a chain of its own.
SpawnAnew(t) ==
  /\ UserTurn /\ t.spawns
  /\ \E layers \in RecipeOf(t).layers :
       Begin(NoStep, InstallCalls(NoStep, None) \o LayerCalls(layers),
             [tool |-> t.tool, spawns |-> FALSE, of |-> t.installed])
  /\ UNCHANGED <<stage, objects, leaves, written, outcome>>

\* HaskellToolchain.package and ZigToolchain.project: a project without
\* layers is its toolchain's `installed` under another type.
Spawn(t) ==
  /\ UserTurn /\ t.spawns
  /\ \E layers \in RecipeOf(t).layers :
       IF layers = <<>>
       THEN /\ objects' = objects \cup {[t EXCEPT !.spawns = FALSE]}
            /\ UNCHANGED <<heap, todo, cursor, making>>
       ELSE /\ Begin(t.installed, LayerCalls(layers),
                     [tool |-> t.tool, spawns |-> FALSE, of |-> t.installed])
            /\ UNCHANGED objects
  /\ UNCHANGED <<stage, leaves, written, outcome>>

\* build, test, lint, ...: one Step on `installed`, with the caller's cache=
\* (the caller's image=, label= and the rest go to Step.sh as they are).
Act(o, cache) ==
  /\ UserTurn /\ ~o.spawns
  /\ Sh(o.installed, "action", None, cache, None, None)
  /\ UNCHANGED <<stage, todo, cursor, making, objects, leaves, written, outcome>>

-----------------------------------------------------------------------------
(* as_leaves over what a pipeline function returns, item by item: a Step,  *)
(* a toolchain's object or a nested tuple of them, which is flattened.     *)

LeafOf(o) == IF o.spawns THEN "refused" ELSE RecipeOf(o).leaf

ReturnFromPipeline ==
  /\ UserTurn /\ Len(heap) > 0
  /\ stage' = "unwrap"
  /\ UNCHANGED <<heap, todo, cursor, making, objects, leaves, written, outcome>>

TakeLeaf(leaf) ==
  /\ stage = "unwrap" /\ Cardinality(leaves) < MaxLeaves
  /\ leaves' = leaves \cup {leaf}
  /\ UNCHANGED <<stage, todo, cursor, making, objects, written, outcome>>

UnwrapStep(s) == TakeLeaf(s) /\ UNCHANGED heap

UnwrapInstalled(o) ==
  LeafOf(o) = "installed" /\ TakeLeaf(o.installed) /\ UNCHANGED heap

UnwrapByAction(o) ==
  /\ LeafOf(o) = "action"
  /\ TakeLeaf(Len(heap) + 1)
  /\ Sh(o.installed, "action", None, None, None, None)

End(how) ==
  /\ stage' = "ended" /\ outcome' = how
  /\ UNCHANGED <<heap, todo, cursor, making, objects, leaves, written>>

RefuseItem(o) == stage = "unwrap" /\ LeafOf(o) = "refused" /\ End("not_a_leaf")

-----------------------------------------------------------------------------
(* The render of the leaves: resolve_pipeline_keys raises where a cached   *)
(* command has a nearest command without a key.                            *)

Above(s) ==
  LET up[t \in StepIds] ==
        IF Parent(t) = NoStep THEN {} ELSE {Parent(t)} \cup up[Parent(t)]
  IN up[s]

CommandsAbove(s) == {a \in Above(s) : IsCommand(a)}
Nearest(s) == CHOOSE a \in CommandsAbove(s) : \A b \in CommandsAbove(s) : b <= a
HasKey(s) == heap[s].cache \notin {None, "none"}
Reached == UNION {Above(s) \cup {s} : s \in leaves}
Stranded(s) ==
  IsCommand(s) /\ HasKey(s) /\ CommandsAbove(s) # {} /\ ~HasKey(Nearest(s))

Render ==
  /\ stage = "unwrap" /\ leaves # {}
  /\ End(IF \E s \in Reached : Stranded(s) THEN "uncached_parent" ELSE "rendered")

Ended == stage = "ended" /\ UNCHANGED vars

Next ==
  \/ Write
  \/ \E tool \in Tools, base \in StepIds \cup {NoStep}, image \in Opt(StepImages) :
       CallFactory(tool, base, image)
  \/ MakeStep
  \/ \E t \in objects : Spawn(t)
  \/ \E o \in objects, cache \in {None, "forever"} : Act(o, cache)
  \/ ReturnFromPipeline
  \/ \E s \in StepIds : UnwrapStep(s)
  \/ \E o \in objects : UnwrapInstalled(o) \/ UnwrapByAction(o) \/ RefuseItem(o)
  \/ Render \/ Ended

Spec == Init /\ [][Next]_vars

-----------------------------------------------------------------------------
(***************************************************************************)
(* An image "is ignored when the step has a builds_in parent"              *)
(* (_step.py:34): no toolchain gives one to such a Step of its setup, not  *)
(* the one passed to the factory and not one inherited from a base.        *)
(***************************************************************************)
NoImageIsIgnored ==
  \A s \in StepIds :
    heap[s].cmd \in Setup /\ CommandsAbove(s) # {} => heap[s].image = None

(***************************************************************************)
(* All projects of one toolchain share its install Step, "a single install *)
(* node with N project chains fanning out from it" (zig.py:13): between a  *)
(* project and its toolchain nothing is installed again.                   *)
(***************************************************************************)
ProjectsShareInstall ==
  \A o \in objects :
    LET own == Above(o.installed) \cup {o.installed} IN
    /\ o.of \in own
    /\ \A s \in own : heap[s].cmd = "install" => s <= o.of

(***************************************************************************)
(* A toolchain never breaks a render by itself: where a cached step stands *)
(* on an uncached command, that command was written by the user.           *)
(***************************************************************************)
UncachedParentIsUsers ==
  outcome = "uncached_parent" =>
    \A s \in Reached : Stranded(s) => heap[Nearest(s)].cmd \in {"user", "action"}
=============================================================================
