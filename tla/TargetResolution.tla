--------------------------- MODULE TargetResolution ---------------------------
(***************************************************************************)
(* Fixture-style dependency injection (harmont/_deps.py, _target.py,       *)
(* _deploy.py): the functions a user decorates name their dependencies as  *)
(* parameters; a render calls every root (pipeline or deployment) and each *)
(* call resolves the parameters first, by calling what they name.          *)
(*                                                                         *)
(* The Python call stack is `frames`.  Three pieces of module state outlive*)
(* a call: the memo of target values, the stack of names being resolved    *)
(* that detects cycles, and the registries, which decoration has filled.   *)
(* An exception is the mode in which frames are left one after another.    *)
(***************************************************************************)
EXTENDS Naturals, Sequences, FiniteSets

CONSTANTS
  Fns,         \* decorated function objects
  Names,       \* function names and registry names
  Projects,    \* the sets of decorated functions considered
  MaxRenders   \* bound on the number of renders

Kinds == {"target", "deploy", "pipeline"}
\* "value": BaseImage, or a default; "call": a target the body calls itself.
Markers == {"target", "dep", "value", "call"}

(***************************************************************************)
(* A project: for every function its kind, its __name__, the name it is    *)
(* registered under, its parameters and behind them the targets its body   *)
(* calls ("explicit-call form", _target.py:24), whether its body raises in *)
(* the end; and what the two dumps call, in order: the pipelines of        *)
(* REGISTRATIONS, and the deployments as topo_order puts them              *)
(* (DeployOrder), none if it raises.  The decorators refuse duplicate      *)
(* names, and what a body calls is a decorated function.                   *)
(***************************************************************************)
Param == [marker : Markers, name : Names]
Project ==
  [kind : [Fns -> Kinds], fname : [Fns -> Names], reg : [Fns -> Names],
   params : [Fns -> Seq(Param)], raises : SUBSET Fns,
   dumps : [{"pipeline", "deploy"} -> Seq(Fns)]]

ASSUME ProjectsAreDecorated ==
  \A p \in Projects :
    /\ p \in Project
    /\ \A f, g \in Fns : p.kind[f] = p.kind[g] /\ p.reg[f] = p.reg[g] => f = g
    /\ \A f \in Fns : \A i \in DOMAIN p.params[f] :
         p.params[f][i].marker = "call" =>
           /\ \A j \in i .. Len(p.params[f]) : p.params[f][j].marker = "call"
           /\ \E g \in Fns : p.kind[g] = "target" /\ p.reg[g] = p.params[f][i].name
    /\ \A k \in DOMAIN p.dumps : \A i \in DOMAIN p.dumps[k] : p.kind[p.dumps[k][i]] = k
ASSUME FnsAreFinite == IsFiniteSet(Fns)
ASSUME MaxRendersIsNat == MaxRenders \in Nat

VARIABLES
  project,
  stage,      \* "idle", "import" (a call outside any render) or "render"
  roots,      \* what this render calls
  root,       \* index of the root being rendered
  frames,     \* the call stack: function and index of the parameter or call it is at
  resolving,  \* _RESOLVING
  memo,       \* _TARGET_CACHE: target -> the render its value was made in
  error,      \* the exception in flight, "none" when there is none
  render,     \* number of renders started
  runs,       \* how often each body ran to its end in this render
  outcome     \* how the last render ended

vars == <<project, stage, roots, root, frames, resolving, memo, error, render, runs, outcome>>

Put(f, x, v) == [y \in DOMAIN f \cup {x} |-> IF y = x THEN v ELSE f[y]]
FrontOf(s) == SubSeq(s, 1, Len(s) - 1)
Last(s) == s[Len(s)]

Params(f) == project.params[f]
RegistryOf(marker) == IF marker \in {"target", "call"} THEN "target" ELSE "deploy"
Registered(p) ==
  {f \in Fns : project.kind[f] = RegistryOf(p.marker) /\ project.reg[f] = p.name}
\* Mutant: deployments are memoized as well.
MemoizedOnceRun(f) ==
  \/ project.kind[f] = "target" /\ f \in DOMAIN memo
  \/ project.kind[f] = "deploy" /\ stage = "render" /\ runs[f] > 0

IsMemoized(f) == project.kind[f] = "target" /\ f \in DOMAIN memo
OnStack(f) == \E i \in DOMAIN resolving : resolving[i] = project.fname[f]

-----------------------------------------------------------------------------
Init ==
  /\ project \in Projects
  /\ stage = "idle" /\ roots = <<>> /\ root = 1 /\ frames = <<>> /\ resolving = <<>>
  /\ memo = <<>> /\ error = "none" /\ render = 0
  /\ runs = [f \in Fns |-> 0] /\ outcome = "none"

\* call_with_deps up to `try`: the name is looked for before it is pushed.
PushOn(stack, f) ==
  /\ frames' = Append(stack, [fn |-> f, at |-> 1])
  /\ resolving' = Append(resolving, project.fname[f])

\* Mutant: the memo outlives the render.
StartRenderWithMemo ==
  /\ stage = "idle" /\ render < MaxRenders
  /\ stage' = "render" /\ root' = 1 /\ render' = render + 1
  /\ \E k \in DOMAIN project.dumps : roots' = project.dumps[k] /\ roots' # <<>>
  /\ runs' = [f \in Fns |-> 0]
  /\ UNCHANGED <<project, frames, resolving, memo, error, outcome>>

\* dump_registry_json, the one of _envelope.py and the one of dev, clears the
\* memo and nothing else.
StartRender ==
  /\ stage = "idle" /\ render < MaxRenders
  /\ stage' = "render" /\ root' = 1 /\ render' = render + 1
  /\ \E k \in DOMAIN project.dumps : roots' = project.dumps[k] /\ roots' # <<>>
  /\ memo' = <<>>
  /\ runs' = [f \in Fns |-> 0]
  /\ UNCHANGED <<project, frames, resolving, error, outcome>>

\* User code may call a target while its module is imported.
ImportCall(f) ==
  /\ stage = "idle" /\ render < MaxRenders
  /\ project.kind[f] = "target" /\ ~IsMemoized(f) /\ ~OnStack(f)
  /\ stage' = "import"
  /\ PushOn(<<>>, f)
  /\ UNCHANGED <<project, roots, root, memo, error, render, runs, outcome>>

Running == stage \in {"import", "render"} /\ error = "none"

CallRoot ==
  /\ stage = "render" /\ error = "none"
  /\ frames = <<>> /\ root <= Len(roots)
  /\ LET f == roots[root] IN
       IF OnStack(f)
       THEN error' = "cycle" /\ UNCHANGED <<frames, resolving>>
       ELSE PushOn(<<>>, f) /\ UNCHANGED error
  /\ UNCHANGED <<project, stage, roots, root, memo, render, runs, outcome>>

Top == Last(frames)
Binding == Running /\ frames # <<>> /\ Top.at <= Len(Params(Top.fn))
CurrentParam == Params(Top.fn)[Top.at]
Advance(stack) == [stack EXCEPT ![Len(stack)].at = @ + 1]

\* BaseImage, a default, and a target that is memoized: no call is made.
BindAtOnce ==
  /\ Binding
  /\ \/ CurrentParam.marker = "value"
     \/ CurrentParam.marker # "value" /\ \E f \in Registered(CurrentParam) : IsMemoized(f)
  /\ frames' = Advance(frames)
  /\ UNCHANGED <<project, stage, roots, root, resolving, memo, error, render, runs, outcome>>

\* Mutant: an unknown name is bound to a default.
BindUnknownToDefault ==
  /\ Binding /\ CurrentParam.marker # "value"
  /\ Registered(CurrentParam) = {}
  /\ frames' = Advance(frames)
  /\ UNCHANGED <<project, stage, roots, root, resolving, memo, error, render, runs, outcome>>

BindUnknown ==
  /\ Binding /\ CurrentParam.marker # "value"
  /\ Registered(CurrentParam) = {}
  /\ error' = "unknown"
  /\ UNCHANGED <<project, stage, roots, root, frames, resolving, memo, render, runs, outcome>>

\* Mutant: a function that is being called is called again.  The rounds of the
\* recursion are alike, so the stack is cut back to where the last one began.
BindCycleByCall ==
  /\ Binding /\ CurrentParam.marker # "value"
  /\ \E f \in Registered(CurrentParam) :
       /\ ~IsMemoized(f) /\ OnStack(f)
       /\ IF \E i \in DOMAIN frames : frames[i].fn = f
          THEN LET i == CHOOSE i \in DOMAIN frames : frames[i].fn = f IN
                 /\ frames' = Append(SubSeq(frames, 1, i - 1), [fn |-> f, at |-> 1])
                 /\ resolving' = SubSeq(resolving, 1, i)
                 /\ UNCHANGED error
          ELSE error' = "cycle" /\ UNCHANGED <<frames, resolving>>
  /\ UNCHANGED <<project, stage, roots, root, memo, render, runs, outcome>>

\* call_with_deps finds the name on the stack, be it asked for by a parameter
\* or from a body.
BindCycle ==
  /\ Binding /\ CurrentParam.marker # "value"
  /\ \E f \in Registered(CurrentParam) : ~IsMemoized(f) /\ OnStack(f)
  /\ error' = "cycle"
  /\ UNCHANGED <<project, stage, roots, root, frames, resolving, memo, render, runs, outcome>>

BindCall ==
  /\ Binding /\ CurrentParam.marker # "value"
  /\ \E f \in Registered(CurrentParam) :
       ~IsMemoized(f) /\ ~OnStack(f) /\ PushOn(frames, f)
  /\ UNCHANGED <<project, stage, roots, root, memo, error, render, runs, outcome>>

Bound == Running /\ frames # <<>> /\ Top.at > Len(Params(Top.fn))
CountRun(f) == runs' = IF stage = "render" THEN [runs EXCEPT ![f] = @ + 1] ELSE runs

\* The body has made its calls and returns: `finally` pops the name, a target's
\* wrapper memoizes the value, and the caller goes on with it, be it a function
\* or the render itself.
Return ==
  /\ Bound /\ Top.fn \notin project.raises
  /\ CountRun(Top.fn)
  /\ resolving' = FrontOf(resolving)
  /\ memo' = IF project.kind[Top.fn] = "target" THEN Put(memo, Top.fn, render) ELSE memo
  /\ IF Len(frames) = 1
     THEN /\ frames' = <<>>
          /\ IF stage = "render" THEN root' = root + 1 /\ UNCHANGED stage
             ELSE stage' = "idle" /\ UNCHANGED root
     ELSE frames' = Advance(FrontOf(frames)) /\ UNCHANGED <<root, stage>>
  /\ UNCHANGED <<project, roots, error, render, outcome>>

BodyRaises ==
  /\ Bound /\ Top.fn \in project.raises
  /\ CountRun(Top.fn)
  /\ error' = "body"
  /\ UNCHANGED <<project, stage, roots, root, frames, resolving, memo, render, outcome>>

\* Mutant: the name is popped on return only, not in `finally`.
UnwindWithoutPop ==
  /\ error # "none" /\ frames # <<>>
  /\ frames' = FrontOf(frames)
  /\ UNCHANGED <<project, stage, roots, root, resolving, memo, error, render, runs, outcome>>

\* The exception leaves one frame; its `finally` pops the name.
Unwind ==
  /\ error # "none" /\ frames # <<>>
  /\ frames' = FrontOf(frames)
  /\ resolving' = FrontOf(resolving)
  /\ UNCHANGED <<project, stage, roots, root, memo, error, render, runs, outcome>>

\* One failing root ends the whole render.
Abort ==
  /\ error # "none" /\ frames = <<>>
  /\ stage' = "idle" /\ error' = "none"
  /\ outcome' = IF stage = "render" THEN error ELSE outcome
  /\ UNCHANGED <<project, roots, root, frames, resolving, memo, render, runs>>

FinishRender ==
  /\ stage = "render" /\ error = "none"
  /\ frames = <<>> /\ root > Len(roots)
  /\ stage' = "idle" /\ outcome' = "rendered"
  /\ UNCHANGED <<project, roots, root, frames, resolving, memo, error, render, runs>>

Step == CallRoot \/ BindAtOnce \/ BindUnknown \/ BindCycle \/ BindCall
          \/ Return \/ BodyRaises \/ Unwind \/ Abort \/ FinishRender

Ended == stage = "idle" /\ render = MaxRenders /\ UNCHANGED vars

Next == StartRender \/ (\E f \in Fns : ImportCall(f)) \/ Step \/ Ended

\* Once started, a call is executed to its end by one thread.
Spec == Init /\ [][Next]_vars /\ WF_vars(Step)

-----------------------------------------------------------------------------
(***************************************************************************)
(* The stack of names mirrors the calls in progress, through returns and   *)
(* exceptions alike, no name is on it twice, and between calls it is       *)
(* empty: a failed render leaves nothing behind that the next one would    *)
(* take for a cycle.                                                       *)
(***************************************************************************)
StackMirrorsCalls ==
  /\ resolving = [i \in DOMAIN frames |-> project.fname[frames[i].fn]]
  /\ \A i, j \in DOMAIN resolving : resolving[i] = resolving[j] => i = j
  /\ stage = "idle" => frames = <<>>

(***************************************************************************)
(* A target's body runs at most once per render, however many pipelines    *)
(* and targets name it: they all chain from the same Step.                 *)
(***************************************************************************)
TargetsRunOnce == stage = "render" => \A f \in Fns : project.kind[f] = "target" => runs[f] <= 1

(***************************************************************************)
(* And in a render that succeeds each target that is used has run once and *)
(* a deployment, which nothing memoizes, as often as it was used: once for *)
(* each place among the roots and for each run of a function that names    *)
(* it.  So a deployment behind two users is called for each of them, and   *)
(* the dump gets a value of its own (_deps.py:163-175).                    *)
(***************************************************************************)
PlacesOf(g, f) ==
  {i \in DOMAIN Params(g) :
     Params(g)[i].marker # "value" /\ f \in Registered(Params(g)[i])}
RootUses(f) == {i \in DOMAIN roots : roots[i] = f}
RunUses(f) == UNION {{g} \X (1 .. runs[g]) \X PlacesOf(g, f) : g \in Fns}
Uses(f) == Cardinality(RootUses(f)) + Cardinality(RunUses(f))

RunsMatchUses ==
  /\ TargetsRunOnce
  /\ stage = "idle" /\ outcome = "rendered" =>
       \A f \in Fns :
         runs[f] = IF project.kind[f] = "target" /\ Uses(f) > 0 THEN 1 ELSE Uses(f)

(***************************************************************************)
(* What a render binds was made by that render (_envelope.py:80-82): no    *)
(* value made at import time or by an earlier render, failed or not, is    *)
(* still in the memo.                                                      *)
(***************************************************************************)
MemoIsOfThisRender == stage = "render" => \A f \in DOMAIN memo : memo[f] = render

(***************************************************************************)
(* What a render depends on: the least set of functions that holds the     *)
(* roots and is closed under the registered parameters.                    *)
(***************************************************************************)
Callees(f) ==
  UNION {Registered(Params(f)[i]) :
           i \in {j \in DOMAIN Params(f) : Params(f)[j].marker # "value"}}
ClosureOf(S) ==
  {f \in Fns : \A C \in SUBSET Fns :
                 S \subseteq C /\ (\A g \in C : Callees(g) \subseteq C) => f \in C}
Needed == ClosureOf({roots[i] : i \in DOMAIN roots})
DependsOnItself(f) == f \in ClosureOf(Callees(f))
NamesUnknown(f) ==
  \E i \in DOMAIN Params(f) :
    Params(f)[i].marker # "value" /\ Registered(Params(f)[i]) = {}

NamesDistinct == \A f, g \in Fns : project.fname[f] = project.fname[g] => f = g

(***************************************************************************)
(* A render succeeds exactly when what it needs is sound: no function that *)
(* depends on itself, names an unknown dependency or raises.  So a cycle   *)
(* is never missed, and an acyclic project never refused; and a render     *)
(* that follows a failed one answers as if it were the first.              *)
(***************************************************************************)
OutcomeIsSound ==
  stage = "idle" /\ outcome # "none" /\ NamesDistinct =>
    (outcome = "rendered" <=>
       \A f \in Needed : ~DependsOnItself(f) /\ ~NamesUnknown(f) /\ f \notin project.raises)

(***************************************************************************)
(* Every render comes to an end, whatever the parameters name.             *)
(***************************************************************************)
RenderEnds == stage = "render" ~> stage = "idle"

(***************************************************************************)
(* "Override when the function name collides with another target"          *)
(* (_target.py:87-89): with distinct registered names a dependency cycle   *)
(* is reported only where a function depends on itself.                    *)
(***************************************************************************)
ReportedCycleIsReal ==
  error = "cycle" /\ stage = "render" => \E f \in Needed : DependsOnItself(f)
=============================================================================
