------------------------ MODULE TargetResolutionProofs ------------------------
(***************************************************************************)
(* Proofs about TargetResolution, for any project: the stack of names      *)
(* follows the calls, a render binds only values it made, a target runs    *)
(* once in a render and a deployment as often as it is used, and a render  *)
(* fails exactly on a project that is unsound.                             *)
(***************************************************************************)
EXTENDS TargetResolution, SequenceTheorems, FiniteSetTheorems, TLAPS

-----------------------------------------------------------------------------
(* The types of the variables.                                             *)
Frame == [fn : Fns, at : Nat \ {0}]

ResolutionTypeOK ==
  /\ project \in Projects
  /\ stage \in {"idle", "import", "render"}
  /\ roots \in Seq(Fns) /\ root \in Nat \ {0}
  /\ frames \in Seq(Frame)
  /\ DOMAIN memo \subseteq Fns
  /\ error \in {"none", "cycle", "unknown", "body"}
  /\ render \in Nat /\ runs \in [Fns -> Nat]
  /\ outcome \in {"none", "rendered", "cycle", "unknown", "body"}

(***************************************************************************)
(* The calls in progress: each was made for the parameter its caller       *)
(* stands at, and the first of a render is the root.                       *)
(***************************************************************************)
Calls(p, f) == p.marker # "value" /\ f \in Registered(p)

EachCalledByTheNext ==
  \A i \in DOMAIN frames : i + 1 \in DOMAIN frames =>
    /\ frames[i].at \in DOMAIN Params(frames[i].fn)
    /\ Calls(Params(frames[i].fn)[frames[i].at], frames[i + 1].fn)

RootIsCalled ==
  stage = "render" /\ frames # <<>> => root \in DOMAIN roots /\ frames[1].fn = roots[root]

IdleIsClean == stage = "idle" => error = "none" /\ frames = <<>>

StackInv ==
  /\ ResolutionTypeOK /\ StackMirrorsCalls
  /\ EachCalledByTheNext /\ RootIsCalled /\ IdleIsClean

-----------------------------------------------------------------------------
(* What a project is, and what its parameters name.                        *)
LEMMA ProjectTyped ==
  ASSUME ResolutionTypeOK, NEW f \in Fns
  PROVE  /\ project.kind[f] \in Kinds /\ project.fname[f] \in Names
         /\ Params(f) \in Seq(Param)
         /\ DOMAIN Params(f) = 1 .. Len(Params(f)) /\ Len(Params(f)) \in Nat
         /\ \A i \in DOMAIN Params(f) : Params(f)[i] \in Param
<1>1. project \in Project
  BY ProjectsAreDecorated DEF ResolutionTypeOK
<1>2. /\ project.kind[f] \in Kinds /\ project.fname[f] \in Names
      /\ Params(f) \in Seq(Param)
  BY <1>1 DEF Project, Params
<1> QED
  BY <1>2, LenProperties, ElementOfSeq

(* What a dump calls: functions it was given, none of them a target.       *)
LEMMA DumpedAreNoTargets ==
  ASSUME ResolutionTypeOK, NEW k \in DOMAIN project.dumps
  PROVE  /\ project.dumps[k] \in Seq(Fns)
         /\ \A i \in DOMAIN project.dumps[k] : project.kind[project.dumps[k][i]] # "target"
<1>1. project \in Projects
  BY DEF ResolutionTypeOK
<1>2. project.dumps \in [{"pipeline", "deploy"} -> Seq(Fns)]
  BY <1>1, ProjectsAreDecorated DEF Project
<1>3. \A i \in DOMAIN project.dumps[k] : project.kind[project.dumps[k][i]] = k
  BY <1>1, ProjectsAreDecorated
<1> QED
  BY <1>2, <1>3

(* A parameter names at most one function.                                 *)
LEMMA RegisteredOnce ==
  ASSUME ResolutionTypeOK, NEW p
  PROVE  \A f, g \in Registered(p) : f = g
BY ProjectsAreDecorated DEF ResolutionTypeOK, Registered

(* The top of a stack, the stack below it, and a step of its frame.        *)
LEMMA TopOfStack ==
  ASSUME NEW T, NEW s \in Seq(T), s # <<>>
  PROVE  /\ Len(s) \in Nat /\ Len(s) \in DOMAIN s /\ DOMAIN s = 1 .. Len(s)
         /\ Last(s) = s[Len(s)] /\ Last(s) \in T
         /\ FrontOf(s) \in Seq(T) /\ Len(FrontOf(s)) = Len(s) - 1
         /\ DOMAIN FrontOf(s) = 1 .. Len(s) - 1
         /\ \A i \in 1 .. Len(s) - 1 : FrontOf(s)[i] = s[i]
<1>1. /\ Len(s) \in Nat /\ DOMAIN s = 1 .. Len(s) /\ Len(s) # 0
  BY LenProperties, EmptySeq
<1>2. Last(s) = s[Len(s)] /\ Last(s) \in T
  BY <1>1, ElementOfSeq DEF Last
<1>3. \A i \in 1 .. Len(s) - 1 : s[i] \in T
  BY <1>1, ElementOfSeq
<1>4. /\ FrontOf(s) \in Seq(T) /\ Len(FrontOf(s)) = Len(s) - 1
      /\ \A i \in 1 .. Len(s) - 1 : FrontOf(s)[i] = s[i]
  BY <1>1, <1>3, SubSeqProperties DEF FrontOf
<1>5. DOMAIN FrontOf(s) = 1 .. Len(s) - 1
  BY <1>4, LenProperties
<1> QED
  BY <1>1, <1>2, <1>4, <1>5

LEMMA AdvancedStack ==
  ASSUME NEW s \in Seq(Frame), s # <<>>
  PROVE  /\ Advance(s) \in Seq(Frame) /\ Len(Advance(s)) = Len(s)
         /\ Advance(s) # <<>> /\ DOMAIN Advance(s) = DOMAIN s
         /\ \A i \in DOMAIN s : Advance(s)[i].fn = s[i].fn
         /\ \A i \in DOMAIN s : i # Len(s) => Advance(s)[i] = s[i]
         /\ Advance(s)[Len(s)].at = Last(s).at + 1
<1>1. Len(s) \in Nat /\ Len(s) \in DOMAIN s /\ DOMAIN s = 1 .. Len(s) /\ Last(s) = s[Len(s)]
  BY TopOfStack
<1>2. \A i \in DOMAIN s : s[i] \in Frame
  BY <1>1, ElementOfSeq
<1>3. [s[Len(s)] EXCEPT !.at = @ + 1] \in Frame
  BY <1>1, <1>2 DEF Frame
<1>4. Advance(s) = [s EXCEPT ![Len(s)] = [s[Len(s)] EXCEPT !.at = @ + 1]]
  BY DEF Advance
<1>5. Advance(s) \in Seq(Frame) /\ Len(Advance(s)) = Len(s)
  BY <1>1, <1>3, <1>4, ExceptSeq
<1>6. DOMAIN Advance(s) = DOMAIN s /\ Advance(s) # <<>>
  BY <1>1, <1>5, LenProperties
<1>7. \A i \in DOMAIN s : i # Len(s) => Advance(s)[i] = s[i]
  BY <1>4
<1>8. Advance(s)[Len(s)].at = Last(s).at + 1 /\ Advance(s)[Len(s)].fn = s[Len(s)].fn
  BY <1>1, <1>2, <1>4 DEF Frame
<1> QED
  BY <1>5, <1>6, <1>7, <1>8

(* What the frames hold.                                                   *)
LEMMA FramesTyped ==
  ASSUME NEW s \in Seq(Frame)
  PROVE  \A i \in DOMAIN s : s[i].fn \in Fns /\ s[i].at \in Nat \ {0}
<1>1. DOMAIN s = 1 .. Len(s)
  BY LenProperties
<1>2. \A i \in DOMAIN s : s[i] \in Frame
  BY <1>1, ElementOfSeq
<1> QED
  BY <1>2 DEF Frame

(* A call is pushed on both stacks.                                        *)
LEMMA Pushed ==
  ASSUME StackInv, NEW f \in Fns, PushOn(frames, f), UNCHANGED project
  PROVE  /\ Len(frames) \in Nat /\ DOMAIN frames = 1 .. Len(frames)
         /\ frames' \in Seq(Frame) /\ frames' # <<>>
         /\ DOMAIN frames' = 1 .. Len(frames) + 1
         /\ \A i \in DOMAIN frames : frames'[i] = frames[i]
         /\ frames'[Len(frames) + 1] = [fn |-> f, at |-> 1]
         /\ resolving' = [i \in DOMAIN frames' |-> project.fname[frames'[i].fn]]
         /\ ~OnStack(f) => \A i, j \in DOMAIN resolving' : resolving'[i] = resolving'[j] => i = j
<1> DEFINE n == Len(frames)
           frame == [fn |-> f, at |-> 1]
<1>1. frame \in Frame
  BY DEF Frame
<1>2. /\ frames \in Seq(Frame) /\ frames' = Append(frames, frame)
      /\ resolving' = Append(resolving, project.fname[f])
      /\ resolving = [i \in DOMAIN frames |-> project.fname[frames[i].fn]]
      /\ ResolutionTypeOK
  BY DEF StackInv, ResolutionTypeOK, PushOn, StackMirrorsCalls
<1> HIDE DEF frame
<1>3. /\ n \in Nat /\ DOMAIN frames = 1 .. n
      /\ frames' \in Seq(Frame) /\ Len(frames') = n + 1
      /\ DOMAIN frames' = 1 .. n + 1
      /\ \A i \in 1 .. n : frames'[i] = frames[i]
      /\ frames'[n + 1] = frame
  BY <1>1, <1>2, AppendProperties, LenProperties
<1>4. \A i \in 1 .. n : frames[i].fn \in Fns
  BY <1>2, <1>3, FramesTyped
<1>5. resolving \in Seq(Names) /\ project.fname[f] \in Names
  <2>1. resolving \in [1 .. n -> Names] /\ project.fname[f] \in Names
    BY <1>2, <1>3, <1>4, ProjectTyped
  <2>2. resolving \in UNION {[1 .. m -> Names] : m \in Nat}
    BY <1>3, <2>1
  <2> QED
    BY <2>1, <2>2, SeqDef
<1>6. /\ Len(resolving) = n /\ DOMAIN resolving = 1 .. n /\ DOMAIN resolving' = 1 .. n + 1
      /\ \A i \in 1 .. n : resolving'[i] = resolving[i]
      /\ resolving'[n + 1] = project.fname[f]
  <2>1. DOMAIN resolving = 1 .. n
    BY <1>2, <1>3
  <2>2. Len(resolving) = n
    BY <1>3, <1>5, <2>1, LenProperties
  <2> QED
    BY <1>2, <1>5, <2>1, <2>2, AppendProperties, LenProperties
<1>7. resolving' = [i \in DOMAIN frames' |-> project.fname[frames'[i].fn]]
  <2> DEFINE mirror == [i \in DOMAIN frames' |-> project.fname[frames'[i].fn]]
  <2>1. resolving' \in Seq(Names)
    BY <1>2, <1>5, AppendProperties
  <2>2. resolving' = [i \in 1 .. n + 1 |-> resolving'[i]]
    BY <1>6, <2>1, LenProperties
  <2>3. frame.fn = f
    BY DEF frame
  <2>4. \A i \in 1 .. n + 1 : resolving'[i] = project.fname[frames'[i].fn]
    BY <1>2, <1>3, <1>6, <2>3
  <2> QED
    BY <1>3, <2>2, <2>4
<1>8. ASSUME ~OnStack(f), NEW i \in 1 .. n + 1, NEW j \in 1 .. n + 1, resolving'[i] = resolving'[j]
      PROVE  i = j
  <2>1. \A k \in 1 .. n : resolving'[k] # resolving'[n + 1]
    BY <1>6, <1>8 DEF OnStack
  <2>2. CASE i \in 1 .. n /\ j \in 1 .. n
    BY <1>6, <1>8, <2>2 DEF StackInv, StackMirrorsCalls
  <2>3. CASE i = n + 1 \/ j = n + 1
    BY <1>3, <1>8, <2>1, <2>3
  <2> QED
    BY <1>3, <2>2, <2>3
<1>9. frames' # <<>>
  BY <1>3
<1> QED
  BY <1>3, <1>6, <1>7, <1>8, <1>9 DEF frame

(* The innermost call is left: its name is popped with it.                 *)
LEMMA Popped ==
  ASSUME StackInv, frames # <<>>
  PROVE  /\ FrontOf(resolving) = [i \in DOMAIN FrontOf(frames) |-> project.fname[frames[i].fn]]
         /\ \A i, j \in DOMAIN FrontOf(frames) :
              project.fname[frames[i].fn] = project.fname[frames[j].fn] => i = j
<1> DEFINE n == Len(frames)
<1>1. /\ frames \in Seq(Frame) /\ ResolutionTypeOK
      /\ resolving = [i \in DOMAIN frames |-> project.fname[frames[i].fn]]
  BY DEF StackInv, ResolutionTypeOK, StackMirrorsCalls
<1>2. /\ n \in Nat /\ DOMAIN frames = 1 .. n /\ n \in 1 .. n
      /\ DOMAIN FrontOf(frames) = 1 .. n - 1
  BY <1>1, TopOfStack
<1>3. \A i \in 1 .. n : frames[i].fn \in Fns
  BY <1>1, <1>2, FramesTyped
<1>4. resolving \in Seq(Names)
  <2>1. resolving \in [1 .. n -> Names]
    BY <1>1, <1>2, <1>3, ProjectTyped
  <2>2. resolving \in UNION {[1 .. m -> Names] : m \in Nat}
    BY <1>2, <2>1
  <2> QED
    BY <2>2, SeqDef
<1>5. DOMAIN resolving = 1 .. n /\ Len(resolving) = n /\ resolving # <<>>
  <2>1. DOMAIN resolving = 1 .. n
    BY <1>1, <1>2
  <2> QED
    BY <1>2, <1>4, <2>1, LenProperties
<1>6. /\ FrontOf(resolving) \in Seq(Names) /\ DOMAIN FrontOf(resolving) = 1 .. n - 1
      /\ \A i \in 1 .. n - 1 : FrontOf(resolving)[i] = resolving[i]
  BY <1>4, <1>5, TopOfStack
<1>7. FrontOf(resolving) = [i \in 1 .. n - 1 |-> FrontOf(resolving)[i]]
  BY <1>6, LenProperties
<1>8. \A i \in 1 .. n - 1 : FrontOf(resolving)[i] = project.fname[frames[i].fn]
  BY <1>1, <1>2, <1>6
<1>9. \A i, j \in 1 .. n - 1 : project.fname[frames[i].fn] = project.fname[frames[j].fn] => i = j
  BY <1>1, <1>2 DEF StackInv, StackMirrorsCalls
<1> QED
  BY <1>2, <1>7, <1>8, <1>9

-----------------------------------------------------------------------------
LEMMA InitStack == Init => StackInv
<1> SUFFICES ASSUME Init PROVE StackInv
  OBVIOUS
<1>1. /\ stage = "idle" /\ roots = <<>> /\ root = 1 /\ frames = <<>> /\ resolving = <<>>
      /\ memo = <<>> /\ error = "none" /\ render = 0 /\ project \in Projects
      /\ runs = [f \in Fns |-> 0] /\ outcome = "none"
  BY DEF Init
<1>2. roots \in Seq(Fns) /\ frames \in Seq(Frame) /\ DOMAIN memo = {}
  BY <1>1, EmptySeq
<1>3. ResolutionTypeOK
  BY <1>1, <1>2 DEF ResolutionTypeOK
<1>4. DOMAIN frames = {} /\ DOMAIN resolving = {}
  BY <1>1
<1>5. resolving = [i \in DOMAIN frames |-> project.fname[frames[i].fn]]
  BY <1>1, <1>4
<1> QED
  BY <1>1, <1>3, <1>4, <1>5
  DEF StackInv, StackMirrorsCalls, EachCalledByTheNext, RootIsCalled, IdleIsClean

(***************************************************************************)
(* A call: of a root, of what the current parameter names, or by user code *)
(* that is being imported.                                                 *)
(***************************************************************************)
Pushes(f) ==
  /\ f \in Fns /\ ~OnStack(f) /\ PushOn(frames, f)
  /\ UNCHANGED <<project, roots, root, memo, error, render, runs, outcome>> /\ error = "none"
  /\ \/ /\ stage = "idle" /\ stage' = "import" /\ frames = <<>>
        /\ project.kind[f] = "target" /\ ~IsMemoized(f)
     \/ /\ stage = "render" /\ stage' = "render" /\ frames = <<>>
        /\ root \in DOMAIN roots /\ f = roots[root]
     \/ /\ stage \in {"import", "render"} /\ stage' = stage /\ frames # <<>>
        /\ Top.at \in DOMAIN Params(Top.fn) /\ Calls(CurrentParam, f) /\ ~IsMemoized(f)

LEMMA CallsPush ==
  ASSUME StackInv,
         (\E f \in Fns : ImportCall(f)) \/ CallRoot \/ BindCall
  PROVE  \E f \in Fns : Pushes(f)
<1>0. /\ ResolutionTypeOK /\ StackMirrorsCalls /\ DOMAIN roots = 1 .. Len(roots)
      /\ Len(roots) \in Nat /\ root \in Nat \ {0}
      /\ \A i \in DOMAIN roots : roots[i] \in Fns
  BY LenProperties, ElementOfSeq DEF StackInv, ResolutionTypeOK
<1>1. ASSUME NEW f \in Fns, ImportCall(f) PROVE Pushes(f)
  BY <1>1 DEF ImportCall, Pushes, StackInv, IdleIsClean
<1>2. CASE CallRoot
  <2>1. root \in DOMAIN roots /\ frames = <<>>
    BY <1>0, <1>2 DEF CallRoot
  <2>2. ~OnStack(roots[root])
    BY <1>0, <2>1 DEF OnStack, StackMirrorsCalls
  <2> QED
    BY <1>0, <1>2, <2>1, <2>2 DEF CallRoot, Pushes
<1>3. CASE BindCall
  <2>1. PICK f \in Registered(CurrentParam) : ~IsMemoized(f) /\ ~OnStack(f) /\ PushOn(frames, f)
    BY <1>3 DEF BindCall
  <2>2. f \in Fns
    BY DEF Registered
  <2>3. Top \in Frame /\ Top.fn \in Fns /\ Top.at \in Nat \ {0}
    <3>1. Top \in Frame
      BY <1>0, <1>3, TopOfStack DEF BindCall, Binding, Top, ResolutionTypeOK
    <3> QED
      BY <3>1 DEF Frame
  <2>4. Top.at \in DOMAIN Params(Top.fn)
    BY <1>0, <1>3, <2>3, ProjectTyped DEF BindCall, Binding
  <2> QED
    BY <1>3, <2>1, <2>2, <2>4 DEF BindCall, Binding, Running, Pushes, Calls
<1> QED
  BY <1>1, <1>2, <1>3

LEMMA PushKeepsStack ==
  ASSUME StackInv, NEW f \in Fns, Pushes(f)
  PROVE  StackInv'
<1> DEFINE n == Len(frames)
<1>1. /\ n \in Nat /\ DOMAIN frames = 1 .. n
      /\ frames' \in Seq(Frame) /\ frames' # <<>> /\ DOMAIN frames' = 1 .. n + 1
      /\ \A i \in DOMAIN frames : frames'[i] = frames[i]
      /\ frames'[n + 1] = [fn |-> f, at |-> 1]
      /\ resolving' = [i \in DOMAIN frames' |-> project.fname[frames'[i].fn]]
      /\ \A i, j \in DOMAIN resolving' : resolving'[i] = resolving'[j] => i = j
  BY Pushed DEF Pushes
<1>2. UNCHANGED <<project, roots, root, memo, error, render, runs, outcome>>
  BY DEF Pushes
<1>3. stage' \in {"import", "render"} /\ error = "none"
  BY DEF Pushes
<1>4. ResolutionTypeOK'
  BY <1>1, <1>2, <1>3 DEF StackInv, ResolutionTypeOK
<1>5. StackMirrorsCalls' /\ IdleIsClean'
  BY <1>1, <1>2, <1>3 DEF StackMirrorsCalls, IdleIsClean
<1>6. frames # <<>> => n # 0
  BY <1>1, EmptySeq DEF StackInv, ResolutionTypeOK
<1>7. RootIsCalled'
  <2> SUFFICES ASSUME stage' = "render"
               PROVE  root \in DOMAIN roots /\ frames'[1].fn = roots[root]
    BY <1>2 DEF RootIsCalled
  <2>1. CASE frames = <<>>
    <3>1. n = 0 /\ root \in DOMAIN roots /\ f = roots[root]
      BY <2>1 DEF Pushes
    <3> QED
      BY <1>1, <3>1
  <2>2. CASE frames # <<>>
    <3>1. root \in DOMAIN roots /\ frames[1].fn = roots[root]
      BY <2>2 DEF Pushes, StackInv, RootIsCalled
    <3> QED
      BY <1>1, <1>6, <2>2, <3>1
  <2> QED
    BY <2>1, <2>2
<1>8. EachCalledByTheNext'
  <2> SUFFICES ASSUME NEW i \in 1 .. n
               PROVE  /\ frames'[i].at \in DOMAIN Params(frames'[i].fn)
                      /\ Calls(Params(frames'[i].fn)[frames'[i].at], frames'[i + 1].fn)
    BY <1>1, <1>2, SMTT(30) DEF EachCalledByTheNext, Calls, Registered, RegistryOf, Params
  <2>1. CASE i = n
    <3>1. frames # <<>> /\ Top = frames[n]
      BY <1>1, <2>1 DEF Top, Last
    <3>2. Top.at \in DOMAIN Params(Top.fn) /\ Calls(CurrentParam, f)
      BY <3>1 DEF Pushes
    <3> QED
      BY <1>1, <2>1, <3>1, <3>2 DEF CurrentParam
  <2>2. CASE i # n
    <3>1. i \in DOMAIN frames /\ i + 1 \in DOMAIN frames
      BY <1>1, <2>2
    <3> QED
      BY <1>1, <3>1 DEF StackInv, EachCalledByTheNext
  <2> QED
    BY <2>1, <2>2
<1> QED
  BY <1>4, <1>5, <1>7, <1>8 DEF StackInv

(* A parameter is bound without a call.                                    *)
LEMMA BindKeepsStack ==
  ASSUME StackInv, BindAtOnce
  PROVE  StackInv'
<1> DEFINE n == Len(frames)
<1>1. /\ frames' = Advance(frames) /\ frames # <<>> /\ stage \in {"import", "render"}
      /\ UNCHANGED <<project, stage, roots, root, resolving, memo, error, render, runs, outcome>>
      /\ frames \in Seq(Frame)
  BY DEF BindAtOnce, Binding, Running, StackInv, ResolutionTypeOK
<1>0. n \in Nat /\ n \in 1 .. n
  BY <1>1, TopOfStack
<1>2. /\ n \in Nat /\ DOMAIN frames = 1 .. n
      /\ frames' \in Seq(Frame) /\ DOMAIN frames' = 1 .. n /\ frames' # <<>>
      /\ \A i \in 1 .. n : frames'[i].fn = frames[i].fn
      /\ \A i \in 1 .. n : i # n => frames'[i] = frames[i]
  BY <1>1, AdvancedStack, TopOfStack
<1>3. ResolutionTypeOK' /\ IdleIsClean'
  BY <1>1, <1>2 DEF StackInv, ResolutionTypeOK, IdleIsClean
<1>4. StackMirrorsCalls'
  <2>1. resolving = [i \in 1 .. n |-> project.fname[frames[i].fn]]
    BY <1>2 DEF StackInv, StackMirrorsCalls
  <2>2. resolving' = [i \in 1 .. n |-> project.fname[frames'[i].fn]]
    BY <1>1, <1>2, <2>1
  <2>3. \A i, j \in DOMAIN resolving : resolving[i] = resolving[j] => i = j
    BY DEF StackInv, StackMirrorsCalls
  <2>4. stage # "idle"
    BY <1>1
  <2> QED
    BY <1>1, <1>2, <2>2, <2>3, <2>4 DEF StackMirrorsCalls
<1>5. RootIsCalled'
  <2>1. 1 \in 1 .. n
    BY <1>0
  <2> QED
    BY <1>1, <1>2, <2>1 DEF StackInv, RootIsCalled
<1>6. EachCalledByTheNext'
  <2> SUFFICES ASSUME NEW i \in 1 .. n, i + 1 \in 1 .. n
               PROVE  /\ frames'[i].at \in DOMAIN Params(frames'[i].fn)
                      /\ Calls(Params(frames'[i].fn)[frames'[i].at], frames'[i + 1].fn)
    BY <1>1, <1>2 DEF EachCalledByTheNext, Calls, Registered, RegistryOf, Params
  <2>0. i # n
    BY <1>0
  <2>1. frames'[i] = frames[i] /\ frames'[i + 1].fn = frames[i + 1].fn
    BY <1>2, <2>0
  <2> QED
    BY <1>2, <2>1 DEF StackInv, EachCalledByTheNext
<1> QED
  BY <1>3, <1>4, <1>5, <1>6 DEF StackInv

(***************************************************************************)
(* The innermost call is left: the stack is cut by one frame, and the      *)
(* frame below, if the call returned, goes on to its next parameter.       *)
(***************************************************************************)
Leaves ==
  /\ frames # <<>> /\ stage \in {"import", "render"}
  /\ resolving' = FrontOf(resolving)
  /\ \/ frames' = FrontOf(frames) /\ UNCHANGED stage
     \/ Len(frames) = 1 /\ frames' = <<>>
     \/ Len(frames) # 1 /\ frames' = Advance(FrontOf(frames)) /\ UNCHANGED <<root, stage>>
  /\ frames' # <<>> => UNCHANGED <<root, stage>>
  /\ stage' = "idle" => frames' = <<>> /\ error' = "none"
  /\ UNCHANGED <<project, roots>>

LEMMA LeaveKeepsStack ==
  ASSUME StackInv, Leaves,
         frames' \in Seq(Frame) => ResolutionTypeOK'
  PROVE  StackInv'
<1> DEFINE n == Len(frames)
<1>1. /\ frames \in Seq(Frame) /\ frames # <<>> /\ resolving' = FrontOf(resolving)
      /\ UNCHANGED <<project, roots>>
  BY DEF StackInv, ResolutionTypeOK, Leaves
<1>2. /\ n \in Nat /\ n \in 1 .. n /\ DOMAIN frames = 1 .. n
      /\ FrontOf(frames) \in Seq(Frame) /\ Len(FrontOf(frames)) = n - 1
      /\ DOMAIN FrontOf(frames) = 1 .. n - 1
      /\ \A i \in 1 .. n - 1 : FrontOf(frames)[i] = frames[i]
  BY <1>1, TopOfStack
<1>3. /\ FrontOf(resolving) = [i \in 1 .. n - 1 |-> project.fname[frames[i].fn]]
      /\ \A i, j \in 1 .. n - 1 :
           project.fname[frames[i].fn] = project.fname[frames[j].fn] => i = j
  BY <1>1, <1>2, Popped
<1>4. /\ frames' \in Seq(Frame) /\ DOMAIN frames' = 1 .. n - 1
      /\ \A i \in 1 .. n - 1 : frames'[i].fn = frames[i].fn
      /\ \A i \in 1 .. n - 1 : i + 1 \in 1 .. n - 1 => frames'[i] = frames[i]
  <2>1. CASE frames' = FrontOf(frames)
    BY <1>2, <2>1
  <2>2. CASE n = 1 /\ frames' = <<>>
    BY <1>2, <2>2, EmptySeq
  <2>3. CASE n # 1 /\ frames' = Advance(FrontOf(frames))
    <3>1. FrontOf(frames) # <<>>
      BY <1>2, <2>3
    <3> QED
      BY <1>2, <2>3, <3>1, AdvancedStack
  <2> QED
    BY <2>1, <2>2, <2>3 DEF Leaves
<1>5. ResolutionTypeOK'
  BY <1>4
<1>6. IdleIsClean'
  BY DEF Leaves, IdleIsClean
<1>7. StackMirrorsCalls'
  <2>1. resolving' = [i \in DOMAIN frames' |-> project.fname[frames'[i].fn]]
    BY <1>1, <1>3, <1>4
  <2>2. DOMAIN resolving' = 1 .. n - 1
    BY <1>4, <2>1
  <2>3. \A i, j \in DOMAIN resolving' : resolving'[i] = resolving'[j] => i = j
    BY <1>1, <1>3, <2>2
  <2> QED
    BY <1>1, <1>6, <2>1, <2>3 DEF StackMirrorsCalls, IdleIsClean
<1>8. RootIsCalled'
  <2> SUFFICES ASSUME stage' = "render", frames' # <<>>
               PROVE  root' \in DOMAIN roots /\ frames'[1].fn = roots[root']
    BY <1>1 DEF RootIsCalled
  <2>1. UNCHANGED <<root, stage>>
    BY DEF Leaves
  <2>2. 1 \in 1 .. n - 1
    BY <1>2, <1>4, EmptySeq, LenProperties
  <2> QED
    BY <1>1, <1>4, <2>1, <2>2 DEF StackInv, RootIsCalled
<1>9. EachCalledByTheNext'
  <2> SUFFICES ASSUME NEW i \in 1 .. n - 1, i + 1 \in 1 .. n - 1
               PROVE  /\ frames'[i].at \in DOMAIN Params(frames'[i].fn)
                      /\ Calls(Params(frames'[i].fn)[frames'[i].at], frames'[i + 1].fn)
    BY <1>1, <1>4 DEF EachCalledByTheNext, Calls, Registered, RegistryOf, Params
  <2>1. frames'[i] = frames[i]
    BY <1>4
  <2>2. frames'[i + 1].fn = frames[i + 1].fn
    BY <1>4
  <2>3. i \in DOMAIN frames /\ i + 1 \in DOMAIN frames
    BY <1>2
  <2> QED
    BY <2>1, <2>2, <2>3 DEF StackInv, EachCalledByTheNext
<1> QED
  BY <1>5, <1>6, <1>7, <1>8, <1>9 DEF StackInv

-----------------------------------------------------------------------------
(* Every other step leaves the stacks as they are, or is a Leaves.         *)
LEMMA ReturnLeaves == StackInv /\ Return => Leaves /\ (frames' \in Seq(Frame) => ResolutionTypeOK')
<1> SUFFICES ASSUME StackInv, Return
             PROVE  Leaves /\ (frames' \in Seq(Frame) => ResolutionTypeOK')
  OBVIOUS
<1>1. /\ ResolutionTypeOK /\ frames # <<>> /\ error = "none" /\ stage \in {"import", "render"}
      /\ CountRun(Top.fn)
      /\ resolving' = FrontOf(resolving)
      /\ memo' = IF project.kind[Top.fn] = "target" THEN Put(memo, Top.fn, render) ELSE memo
      /\ UNCHANGED <<project, roots, error, render, outcome>>
  BY DEF Return, Bound, Running, StackInv
<1>2. \/ /\ Len(frames) = 1 /\ frames' = <<>>
         /\ \/ stage = "render" /\ root' = root + 1 /\ UNCHANGED stage
            \/ stage # "render" /\ stage' = "idle" /\ UNCHANGED root
      \/ Len(frames) # 1 /\ frames' = Advance(FrontOf(frames)) /\ UNCHANGED <<root, stage>>
  BY DEF Return
<1>3. Top.fn \in Fns
  <2>1. Top \in Frame
    BY <1>1, TopOfStack DEF Top, ResolutionTypeOK
  <2> QED
    BY <2>1 DEF Frame
<1>4. runs' \in [Fns -> Nat]
  BY <1>1, <1>3 DEF CountRun, ResolutionTypeOK
<1>5. DOMAIN memo' \subseteq Fns
  BY <1>1, <1>3 DEF Put, ResolutionTypeOK
<1>6. root' \in Nat \ {0} /\ stage' \in {"idle", "import", "render"}
  BY <1>1, <1>2 DEF ResolutionTypeOK
<1>7. frames' \in Seq(Frame) => ResolutionTypeOK'
  BY <1>1, <1>4, <1>5, <1>6 DEF ResolutionTypeOK
<1> QED
  BY <1>1, <1>2, <1>7 DEF Leaves

LEMMA StackKeeps == StackInv /\ [Next]_vars => StackInv'
<1> SUFFICES ASSUME StackInv, [Next]_vars PROVE StackInv'
  OBVIOUS
<1>0. ResolutionTypeOK
  BY DEF StackInv
<1>1. CASE (\E f \in Fns : ImportCall(f)) \/ CallRoot \/ BindCall
  BY <1>1, CallsPush, PushKeepsStack
<1>2. CASE BindAtOnce
  BY <1>2, BindKeepsStack
<1>3. CASE Return
  BY <1>3, ReturnLeaves, LeaveKeepsStack
<1>4. CASE Unwind
  <2>1. stage \in {"import", "render"} /\ error # "none" /\ frames # <<>>
    BY <1>0, <1>4 DEF Unwind, StackInv, IdleIsClean, ResolutionTypeOK
  <2>2. Leaves
    BY <1>4, <2>1 DEF Unwind, Leaves
  <2>3. frames' \in Seq(Frame) => ResolutionTypeOK'
    BY <1>0, <1>4 DEF Unwind, ResolutionTypeOK
  <2> QED
    BY <2>2, <2>3, LeaveKeepsStack
<1>5. ASSUME UNCHANGED <<project, frames, resolving>>,
             ResolutionTypeOK', IdleIsClean', RootIsCalled'
      PROVE  StackInv'
  <2>1. EachCalledByTheNext'
    BY <1>5
    DEF StackInv, EachCalledByTheNext, Calls, Registered, RegistryOf, Params
  <2>2. StackMirrorsCalls'
    BY <1>5 DEF StackInv, StackMirrorsCalls, IdleIsClean
  <2> QED
    BY <1>5, <2>1, <2>2 DEF StackInv
<1>6. CASE BindUnknown \/ BindCycle \/ BodyRaises
  <2>1. /\ UNCHANGED <<project, frames, resolving, stage, root, roots, memo, render, outcome>>
        /\ stage # "idle" /\ error' \in {"unknown", "cycle", "body"}
    BY <1>6 DEF BindUnknown, BindCycle, BodyRaises, Binding, Bound, Running
  <2>2. runs' \in [Fns -> Nat]
    BY <1>0, <1>6 DEF BindUnknown, BindCycle, BodyRaises, CountRun, ResolutionTypeOK
  <2>3. ResolutionTypeOK'
    BY <1>0, <2>1, <2>2 DEF ResolutionTypeOK
  <2>4. IdleIsClean' /\ RootIsCalled'
    BY <2>1 DEF StackInv, IdleIsClean, RootIsCalled
  <2> QED
    BY <1>5, <2>1, <2>3, <2>4
<1>7. CASE Abort \/ FinishRender
  <2>1. /\ UNCHANGED <<project, frames, resolving, root, roots, memo, render, runs>>
        /\ stage' = "idle" /\ error' = "none" /\ frames = <<>>
        /\ outcome' \in {outcome, error, "rendered"}
    BY <1>7 DEF Abort, FinishRender
  <2>2. outcome' \in {"none", "rendered", "cycle", "unknown", "body"}
    BY <1>0, <2>1 DEF ResolutionTypeOK
  <2>3. ResolutionTypeOK'
    BY <1>0, <2>1, <2>2 DEF ResolutionTypeOK
  <2>4. IdleIsClean' /\ RootIsCalled'
    BY <2>1 DEF IdleIsClean, RootIsCalled
  <2> QED
    BY <1>5, <2>1, <2>3, <2>4
<1>8. CASE StartRender
  <2>1. /\ UNCHANGED <<project, frames, resolving, error, outcome>>
        /\ stage = "idle" /\ stage' = "render" /\ root' = 1 /\ render' = render + 1
        /\ \E k \in DOMAIN project.dumps : roots' = project.dumps[k]
        /\ memo' = <<>> /\ runs' = [f \in Fns |-> 0]
    BY <1>8 DEF StartRender
  <2>2. roots' \in Seq(Fns)
    BY <1>0, <2>1, DumpedAreNoTargets
  <2>3. ResolutionTypeOK'
    BY <1>0, <2>1, <2>2 DEF ResolutionTypeOK
  <2>4. IdleIsClean' /\ RootIsCalled'
    BY <2>1 DEF StackInv, IdleIsClean, RootIsCalled
  <2> QED
    BY <1>5, <2>1, <2>3, <2>4
<1>9. CASE UNCHANGED vars
  <2>1. ResolutionTypeOK' /\ IdleIsClean' /\ RootIsCalled'
    BY <1>9 DEF vars, StackInv, ResolutionTypeOK, IdleIsClean, RootIsCalled
  <2> QED
    BY <1>5, <1>9, <2>1 DEF vars
<1> QED
  BY <1>1, <1>2, <1>3, <1>4, <1>6, <1>7, <1>8, <1>9 DEF Next, Step, Ended

(***************************************************************************)
(* Whatever the parameters name and whatever raises, the stack of names    *)
(* that detects cycles is the stack of the calls, and it is left empty.    *)
(***************************************************************************)
THEOREM ResolvingIsTheCallStack == Spec => []StackMirrorsCalls
<1>1. StackInv => StackMirrorsCalls
  BY DEF StackInv
<1> QED
  BY InitStack, StackKeeps, <1>1, PTL DEF Spec

-----------------------------------------------------------------------------
(***************************************************************************)
(* The memo: emptied where a render starts, and written by its own calls.  *)
(***************************************************************************)
THEOREM MemoIsFresh == Spec => []MemoIsOfThisRender
<1>1. Init => MemoIsOfThisRender
  BY DEF Init, MemoIsOfThisRender
<1>2. MemoIsOfThisRender /\ [Next]_vars => MemoIsOfThisRender'
  <2> SUFFICES ASSUME MemoIsOfThisRender, [Next]_vars, stage' = "render", NEW f \in DOMAIN memo'
               PROVE  memo'[f] = render'
    BY DEF MemoIsOfThisRender
  <2>1. CASE StartRender
    BY <2>1 DEF StartRender
  <2>2. CASE Return
    <3>1. stage = "render" /\ render' = render
      BY <2>2 DEF Return, Bound, Running
    <3>2. memo' = IF project.kind[Top.fn] = "target" THEN Put(memo, Top.fn, render) ELSE memo
      BY <2>2 DEF Return
    <3> QED
      BY <3>1, <3>2 DEF Put, MemoIsOfThisRender
  <2>3. CASE UNCHANGED <<memo, render, stage>>
    BY <2>3 DEF MemoIsOfThisRender
  <2>4. \/ StartRender \/ Return \/ UNCHANGED <<memo, render, stage>>
        \/ stage' \in {"import", "idle"}
    BY DEF Next, Step, Ended, vars, ImportCall, CallRoot, BindAtOnce, BindUnknown, BindCycle,
           BindCall, BodyRaises, Unwind, Abort, FinishRender
  <2> QED
    BY <2>1, <2>2, <2>3, <2>4
<1> QED
  BY <1>1, <1>2, PTL DEF Spec

-----------------------------------------------------------------------------
(***************************************************************************)
(* One run of each target.  A target that has run is memoized, one that is *)
(* memoized is not called, and the roots are no targets.                   *)
(***************************************************************************)
RootsAreNoTargets == \A i \in DOMAIN roots : project.kind[roots[i]] # "target"
MemoIsOfTargets == \A f \in DOMAIN memo : project.kind[f] = "target"
CalledIsNotMemoized == \A i \in DOMAIN frames : frames[i].fn \notin DOMAIN memo
RunIsMemoized ==
  stage = "render" => \A f \in Fns : project.kind[f] = "target" =>
    /\ runs[f] \in {0, 1}
    /\ error = "none" /\ runs[f] = 1 => f \in DOMAIN memo

RunInv ==
  /\ StackInv /\ RootsAreNoTargets /\ MemoIsOfTargets
  /\ CalledIsNotMemoized /\ RunIsMemoized

(* Steps that call nobody leave the stack or cut it.                       *)
LEMMA OtherStepsShrink ==
  ASSUME StackInv, [Next]_vars,
         ~((\E f \in Fns : ImportCall(f)) \/ CallRoot \/ BindCall)
  PROVE  \A i \in DOMAIN frames' : i \in DOMAIN frames /\ frames'[i].fn = frames[i].fn
<1>1. frames \in Seq(Frame)
  BY DEF StackInv, ResolutionTypeOK
<1>2. CASE frames' = frames
  BY <1>2
<1>3. CASE frames # <<>> /\ frames' = FrontOf(frames)
  BY <1>1, <1>3, TopOfStack
<1>4. CASE frames' = <<>>
  BY <1>4
<1>5. CASE frames # <<>> /\ frames' = Advance(frames)
  BY <1>1, <1>5, AdvancedStack
<1>6. CASE frames # <<>> /\ Len(frames) # 1 /\ frames' = Advance(FrontOf(frames))
  <2>1. /\ FrontOf(frames) \in Seq(Frame) /\ FrontOf(frames) # <<>>
        /\ DOMAIN FrontOf(frames) = 1 .. Len(frames) - 1
        /\ DOMAIN frames = 1 .. Len(frames) /\ Len(frames) \in Nat
        /\ \A i \in 1 .. Len(frames) - 1 : FrontOf(frames)[i] = frames[i]
    <3>1. Len(FrontOf(frames)) = Len(frames) - 1 /\ Len(frames) \in Nat
      BY <1>1, <1>6, TopOfStack
    <3>2. FrontOf(frames) # <<>>
      BY <1>6, <3>1
    <3> QED
      BY <1>1, <1>6, <3>2, TopOfStack
  <2>2. \A i \in DOMAIN frames' : i \in 1 .. Len(frames) - 1
                                   /\ frames'[i].fn = FrontOf(frames)[i].fn
    BY <1>6, <2>1, AdvancedStack
  <2> QED
    BY <2>1, <2>2
<1>7. \/ frames' = frames
      \/ frames # <<>> /\ frames' = FrontOf(frames)
      \/ frames' = <<>>
      \/ frames # <<>> /\ frames' = Advance(frames)
      \/ frames # <<>> /\ Len(frames) # 1 /\ frames' = Advance(FrontOf(frames))
  BY DEF Next, Step, Ended, vars, StartRender, BindAtOnce, BindUnknown, BindCycle,
         Return, Bound, Binding, BodyRaises, Unwind, Abort, FinishRender
<1> QED
  BY <1>2, <1>3, <1>4, <1>5, <1>6, <1>7

(* The innermost call, and the others, which are calls of others.          *)
LEMMA TopIsOther ==
  ASSUME StackInv, frames # <<>>
  PROVE  /\ Top.fn \in Fns /\ Len(frames) \in Nat /\ Len(frames) \in DOMAIN frames
         /\ DOMAIN frames = 1 .. Len(frames) /\ Top = frames[Len(frames)]
         /\ \A i \in DOMAIN frames : frames[i].fn \in Fns
         /\ \A i \in DOMAIN frames : i # Len(frames) => frames[i].fn # Top.fn
<1>1. /\ frames \in Seq(Frame)
      /\ resolving = [i \in DOMAIN frames |-> project.fname[frames[i].fn]]
      /\ \A i, j \in DOMAIN resolving : resolving[i] = resolving[j] => i = j
  BY DEF StackInv, ResolutionTypeOK, StackMirrorsCalls
<1>2. /\ Len(frames) \in Nat /\ Len(frames) \in DOMAIN frames
      /\ DOMAIN frames = 1 .. Len(frames) /\ Top = frames[Len(frames)]
  BY <1>1, TopOfStack DEF Top
<1>3. \A i \in DOMAIN frames : frames[i].fn \in Fns
  BY <1>1, FramesTyped
<1> QED
  BY <1>1, <1>2, <1>3

LEMMA InitRun == Init => RunInv
<1> SUFFICES ASSUME Init PROVE RunInv
  OBVIOUS
<1>1. stage = "idle" /\ roots = <<>> /\ frames = <<>> /\ memo = <<>>
  BY DEF Init
<1> QED
  BY <1>1, InitStack
  DEF RunInv, RootsAreNoTargets, MemoIsOfTargets, CalledIsNotMemoized, RunIsMemoized

LEMMA RunKeeps == RunInv /\ [Next]_vars => RunInv'
<1> SUFFICES ASSUME RunInv, [Next]_vars PROVE RunInv'
  OBVIOUS
<1>0. /\ StackInv /\ StackInv' /\ ResolutionTypeOK /\ runs \in [Fns -> Nat]
      /\ RootsAreNoTargets /\ MemoIsOfTargets /\ CalledIsNotMemoized /\ RunIsMemoized
  BY StackKeeps DEF RunInv, StackInv, ResolutionTypeOK
<1>1. CASE (\E f \in Fns : ImportCall(f)) \/ CallRoot \/ BindCall
  <2>1. PICK f \in Fns : Pushes(f)
    BY <1>0, <1>1, CallsPush
  <2>2. UNCHANGED <<project, roots, memo, error, runs>>
    BY <2>1 DEF Pushes
  <2>3. stage' = "render" => stage = "render"
    BY <2>1 DEF Pushes
  <2>4. f \notin DOMAIN memo
    BY <1>0, <2>1 DEF Pushes, IsMemoized, RootsAreNoTargets, MemoIsOfTargets
  <2>5. /\ DOMAIN frames = 1 .. Len(frames) /\ DOMAIN frames' = 1 .. Len(frames) + 1
        /\ Len(frames) \in Nat
        /\ \A i \in DOMAIN frames : frames'[i] = frames[i]
        /\ frames'[Len(frames) + 1].fn = f
    <3>1. PushOn(frames, f) /\ UNCHANGED project
      BY <2>1 DEF Pushes
    <3>2. /\ DOMAIN frames = 1 .. Len(frames) /\ DOMAIN frames' = 1 .. Len(frames) + 1
          /\ Len(frames) \in Nat
          /\ \A i \in DOMAIN frames : frames'[i] = frames[i]
          /\ frames'[Len(frames) + 1] = [fn |-> f, at |-> 1]
      BY <1>0, <3>1, Pushed
    <3> QED
      BY <3>2
  <2>6. CalledIsNotMemoized'
    <3> SUFFICES ASSUME NEW i \in DOMAIN frames' PROVE frames'[i].fn \notin DOMAIN memo
      BY <2>2 DEF CalledIsNotMemoized
    <3>1. i \in DOMAIN frames \/ i = Len(frames) + 1
      BY <2>5
    <3> QED
      BY <1>0, <2>4, <2>5, <3>1 DEF CalledIsNotMemoized
  <2> QED
    BY <1>0, <2>2, <2>3, <2>6 DEF RunInv, RootsAreNoTargets, MemoIsOfTargets, RunIsMemoized
<1>2. CASE StartRender
  <2>1. /\ UNCHANGED <<project, frames>> /\ memo' = <<>> /\ runs' = [f \in Fns |-> 0]
        /\ \E k \in DOMAIN project.dumps : roots' = project.dumps[k]
    BY <1>2 DEF StartRender
  <2>2. RootsAreNoTargets'
    BY <1>0, <2>1, DumpedAreNoTargets DEF RootsAreNoTargets
  <2>3. DOMAIN memo' = {}
    BY <2>1
  <2>4. MemoIsOfTargets' /\ CalledIsNotMemoized' /\ RunIsMemoized'
    BY <2>1, <2>3 DEF MemoIsOfTargets, CalledIsNotMemoized, RunIsMemoized
  <2> QED
    BY <1>0, <2>2, <2>4 DEF RunInv
<1>3. CASE ~((\E f \in Fns : ImportCall(f)) \/ CallRoot \/ BindCall) /\ ~StartRender
  <2>1. \A i \in DOMAIN frames' : i \in DOMAIN frames /\ frames'[i].fn = frames[i].fn
    BY <1>0, <1>3, OtherStepsShrink
  <2>2. UNCHANGED <<project, roots>> /\ (stage' = "render" => stage = "render")
    BY <1>3 DEF Next, Step, Ended, vars, BindAtOnce, BindUnknown, BindCycle,
                Return, BodyRaises, Unwind, Abort, FinishRender
  <2>3. CASE Return
    <3>1. /\ frames # <<>> /\ error = "none"
          /\ memo' = IF project.kind[Top.fn] = "target" THEN Put(memo, Top.fn, render) ELSE memo
          /\ runs' = IF stage = "render" THEN [runs EXCEPT ![Top.fn] = @ + 1] ELSE runs
      BY <2>3 DEF Return, Bound, Running, CountRun
    <3>2. /\ Top.fn \in Fns /\ Len(frames) \in Nat /\ Top.fn \notin DOMAIN memo
          /\ \A i \in DOMAIN frames : i # Len(frames) => frames[i].fn # Top.fn
      BY <1>0, <3>1, TopIsOther DEF CalledIsNotMemoized
    <3>3. DOMAIN memo' = IF project.kind[Top.fn] = "target"
                         THEN DOMAIN memo \cup {Top.fn} ELSE DOMAIN memo
      BY <3>1 DEF Put
    <3>4. MemoIsOfTargets'
      BY <1>0, <2>2, <3>3 DEF MemoIsOfTargets
    <3>5. CalledIsNotMemoized'
      <4>1. \A i \in DOMAIN frames' : i # Len(frames)
        <5>1. CASE Len(frames) = 1 /\ frames' = <<>>
          BY <5>1
        <5>2. CASE Len(frames) # 1 /\ frames' = Advance(FrontOf(frames))
          <6>1. /\ FrontOf(frames) \in Seq(Frame) /\ Len(FrontOf(frames)) = Len(frames) - 1
                /\ DOMAIN FrontOf(frames) = 1 .. Len(frames) - 1
            BY <1>0, <3>1, TopOfStack DEF ResolutionTypeOK
          <6>2. FrontOf(frames) # <<>>
            BY <3>2, <5>2, <6>1
          <6>3. DOMAIN frames' = 1 .. Len(frames) - 1
            BY <5>2, <6>1, <6>2, AdvancedStack
          <6> QED
            BY <3>2, <6>3
        <5> QED
          BY <2>3, <5>1, <5>2 DEF Return
      <4>2. ASSUME NEW i \in DOMAIN frames' PROVE frames'[i].fn \notin DOMAIN memo'
        BY <1>0, <2>1, <3>2, <3>3, <4>1 DEF CalledIsNotMemoized
      <4> QED
        BY <4>2 DEF CalledIsNotMemoized
    <3>6. RunIsMemoized'
      <4> SUFFICES ASSUME stage' = "render", NEW f \in Fns, project.kind[f] = "target"
                   PROVE  /\ runs'[f] \in {0, 1}
                          /\ runs'[f] = 1 => f \in DOMAIN memo'
        BY <2>2 DEF RunIsMemoized
      <4>1. stage = "render"
        BY <2>2
      <4>2. CASE f = Top.fn
        <5>1. runs[f] = 0
          BY <1>0, <3>1, <3>2, <4>1, <4>2 DEF RunIsMemoized
        <5> QED
          BY <1>0, <3>1, <3>2, <3>3, <4>1, <4>2, <5>1
      <4>3. CASE f # Top.fn
        BY <1>0, <3>1, <3>3, <4>1, <4>3 DEF RunIsMemoized
      <4> QED
        BY <4>2, <4>3
    <3> QED
      BY <1>0, <2>2, <3>4, <3>5, <3>6 DEF RunInv, RootsAreNoTargets
  <2>4. CASE BodyRaises
    <3>1. /\ frames # <<>> /\ error = "none" /\ error' = "body" /\ UNCHANGED memo
          /\ runs' = IF stage = "render" THEN [runs EXCEPT ![Top.fn] = @ + 1] ELSE runs
      BY <2>4 DEF BodyRaises, Bound, Running, CountRun
    <3>2. Top.fn \in Fns /\ Top.fn \notin DOMAIN memo
      BY <1>0, <3>1, TopIsOther DEF CalledIsNotMemoized
    <3>3. MemoIsOfTargets' /\ CalledIsNotMemoized'
      BY <1>0, <2>1, <2>2, <3>1 DEF MemoIsOfTargets, CalledIsNotMemoized
    <3>4. RunIsMemoized'
      <4> SUFFICES ASSUME stage' = "render", NEW f \in Fns, project.kind[f] = "target"
                   PROVE  runs'[f] \in {0, 1}
        BY <2>2, <3>1 DEF RunIsMemoized
      <4>1. stage = "render" /\ runs[f] \in {0, 1}
        BY <1>0, <2>2 DEF RunIsMemoized
      <4>2. f = Top.fn => runs[f] = 0
        BY <1>0, <3>1, <3>2, <4>1 DEF RunIsMemoized
      <4> QED
        BY <1>0, <3>1, <3>2, <4>1, <4>2
    <3> QED
      BY <1>0, <2>2, <3>3, <3>4 DEF RunInv, RootsAreNoTargets
  <2>5. CASE ~Return /\ ~BodyRaises
    <3>1. UNCHANGED <<memo, runs>> /\ (stage' = "render" /\ error' = "none" => error = "none")
      BY <1>3, <2>5 DEF Next, Step, Ended, vars, BindAtOnce, BindUnknown, BindCycle,
                        Unwind, Abort, FinishRender
    <3>2. MemoIsOfTargets' /\ CalledIsNotMemoized'
      BY <1>0, <2>1, <2>2, <3>1 DEF MemoIsOfTargets, CalledIsNotMemoized
    <3>3. RunIsMemoized'
      BY <1>0, <2>2, <3>1 DEF RunIsMemoized
    <3> QED
      BY <1>0, <2>2, <3>2, <3>3 DEF RunInv, RootsAreNoTargets
  <2> QED
    BY <2>3, <2>4, <2>5
<1> QED
  BY <1>1, <1>2, <1>3

(***************************************************************************)
(* However many users a target has, and whichever of them fails, its body  *)
(* runs at most once in a render.                                          *)
(***************************************************************************)
THEOREM TargetsRunAtMostOnce == Spec => []TargetsRunOnce
<1>1. RunInv => TargetsRunOnce
  BY DEF RunInv, RunIsMemoized, TargetsRunOnce
<1> QED
  BY InitRun, RunKeeps, <1>1, PTL DEF Spec

-----------------------------------------------------------------------------
(* What a function names, and what it depends on.                          *)
LEMMA CalleesAreNamed ==
  ASSUME NEW f
  PROVE  /\ Callees(f) \subseteq Fns
         /\ \A g : g \in Callees(f) <=> \E i \in DOMAIN Params(f) : Calls(Params(f)[i], g)
<1>1. \A g : g \in Callees(f) <=> \E i \in DOMAIN Params(f) : Calls(Params(f)[i], g)
  BY DEF Callees, Calls
<1> QED
  BY <1>1 DEF Calls, Registered

Closed(C) == \A g \in C : Callees(g) \subseteq C

LEMMA ClosureIsLeast ==
  ASSUME NEW S, S \subseteq Fns
  PROVE  /\ S \subseteq ClosureOf(S) /\ ClosureOf(S) \subseteq Fns /\ Closed(ClosureOf(S))
         /\ \A C \in SUBSET Fns : S \subseteq C /\ Closed(C) => ClosureOf(S) \subseteq C
<1>1. S \subseteq ClosureOf(S) /\ ClosureOf(S) \subseteq Fns
  BY DEF ClosureOf
<1>2. \A C \in SUBSET Fns : S \subseteq C /\ Closed(C) => ClosureOf(S) \subseteq C
  BY DEF ClosureOf, Closed
<1>3. ASSUME NEW g \in ClosureOf(S), NEW h \in Callees(g)
      PROVE  h \in ClosureOf(S)
  <2>1. h \in Fns
    BY CalleesAreNamed
  <2>2. ASSUME NEW C \in SUBSET Fns, S \subseteq C, \A x \in C : Callees(x) \subseteq C
        PROVE  h \in C
    BY <2>2 DEF ClosureOf
  <2> QED
    BY <2>1, <2>2 DEF ClosureOf
<1>4. Closed(ClosureOf(S))
  BY <1>3 DEF Closed
<1> QED
  BY <1>1, <1>2, <1>4

(* Nothing that is reached is reached but through one of the first calls.  *)
LEMMA ClosureBegins ==
  ASSUME NEW S, S \subseteq Fns, NEW f \in ClosureOf(S)
  PROVE  f \in S \/ \E h \in S : f \in ClosureOf(Callees(h))
<1> DEFINE C == S \cup {x \in Fns : \E h \in S : x \in ClosureOf(Callees(h))}
<1>1. ASSUME NEW x \in C, NEW y \in Callees(x)
      PROVE  y \in C
  <2>1. y \in Fns
    BY CalleesAreNamed
  <2>2. CASE x \in S
    <3>1. y \in ClosureOf(Callees(x))
      BY CalleesAreNamed, ClosureIsLeast
    <3> QED
      BY <2>1, <2>2, <3>1
  <2>3. ASSUME NEW h \in S, x \in ClosureOf(Callees(h))
        PROVE  y \in C
    <3>1. y \in ClosureOf(Callees(h))
      BY <2>3, CalleesAreNamed, ClosureIsLeast DEF Closed
    <3> QED
      BY <2>1, <3>1
  <2> QED
    BY <2>2, <2>3
<1>2. Closed(C) /\ S \subseteq C /\ C \subseteq Fns
  BY <1>1 DEF Closed
<1>3. f \in C
  BY <1>2, ClosureIsLeast
<1> QED
  BY <1>3

(* A set in which no part calls itself in a circle.                        *)
Acyclic(C) == \A S \in SUBSET C : S # {} => \E s \in S : Callees(s) \cap S = {}

(* Adding to such a set what calls only into it.                           *)
LEMMA AcyclicGrows ==
  ASSUME NEW C \in SUBSET Fns, Closed(C), Acyclic(C),
         NEW f \in Fns, Callees(f) \subseteq C
  PROVE  Closed(C \cup {f}) /\ Acyclic(C \cup {f})
<1>1. Closed(C \cup {f})
  BY DEF Closed
<1>2. CASE f \in C
  <2>1. C \cup {f} = C
    BY <1>2
  <2> QED
    BY <1>1, <2>1
<1>3. ASSUME f \notin C, NEW S \in SUBSET (C \cup {f}), S # {}
      PROVE  \E s \in S : Callees(s) \cap S = {}
  <2>1. CASE S \ {f} = {}
    <3>1. S = {f}
      BY <1>3, <2>1
    <3> QED
      BY <1>3, <3>1
  <2>2. CASE S \ {f} # {}
    <3>1. S \ {f} \in SUBSET C
      OBVIOUS
    <3>2. PICK s \in S \ {f} : Callees(s) \cap (S \ {f}) = {}
      BY <2>2, <3>1 DEF Acyclic
    <3>3. f \notin Callees(s)
      BY <1>3, <3>1, <3>2 DEF Closed
    <3> QED
      BY <3>2, <3>3
  <2> QED
    BY <2>1, <2>2
<1> QED
  BY <1>1, <1>2, <1>3 DEF Acyclic

(* In a closed set of that kind nobody depends on itself.                  *)
LEMMA AcyclicIsSound ==
  ASSUME NEW C \in SUBSET Fns, Closed(C), Acyclic(C), NEW f \in C
  PROVE  ~DependsOnItself(f)
<1> SUFFICES ASSUME DependsOnItself(f) PROVE FALSE
  OBVIOUS
<1> DEFINE S == {g \in C : f \in ClosureOf(Callees(g))}
<1>1. f \in S
  BY DEF DependsOnItself
<1>2. PICK s \in S : Callees(s) \cap S = {}
  <2>1. S \in SUBSET C /\ S # {}
    BY <1>1
  <2> HIDE DEF S
  <2> QED
    BY <2>1 DEF Acyclic
<1>3. Callees(s) \subseteq Fns /\ Callees(s) \subseteq C
  BY CalleesAreNamed DEF Closed
<1>4. f \in Callees(s) \/ \E h \in Callees(s) : f \in ClosureOf(Callees(h))
  <2>1. f \in ClosureOf(Callees(s))
    OBVIOUS
  <2> QED
    BY <1>3, <2>1, ClosureBegins
<1> QED
  BY <1>1, <1>2, <1>3, <1>4

-----------------------------------------------------------------------------
(***************************************************************************)
(* The inductive invariant of a render.  As long as nothing has failed,    *)
(* what has run is sound: closed under calls, without a circle, and it     *)
(* covers the roots before the current one, the parameters that are bound  *)
(* and the memo.                                                           *)
(***************************************************************************)
Ran == {f \in Fns : runs[f] > 0}
Sure(f) == ~NamesUnknown(f) /\ f \notin project.raises

BoundAreRan ==
  \A i \in DOMAIN frames : \A j \in DOMAIN Params(frames[i].fn) :
    LET p == Params(frames[i].fn)[j] IN
    j < frames[i].at /\ p.marker # "value" => Registered(p) # {} /\ Registered(p) \subseteq Ran

RanIsSound ==
  stage = "render" /\ error = "none" =>
    /\ Closed(Ran) /\ Acyclic(Ran) /\ \A f \in Ran : Sure(f)
    /\ BoundAreRan
    /\ \A i \in DOMAIN roots : i < root => roots[i] \in Ran
    /\ DOMAIN memo \subseteq Ran

(***************************************************************************)
(* Who is called depends, directly or not, on nobody but those that are    *)
(* needed, and those above it on the stack depend on it; so a cycle that   *)
(* is found is one, unless two functions share a name.                     *)
(***************************************************************************)
CalledAreNeeded == stage = "render" => \A i \in DOMAIN frames : frames[i].fn \in Needed

DownTheStack ==
  \A i, j \in DOMAIN frames : i < j => frames[j].fn \in ClosureOf(Callees(frames[i].fn))

Unsound == \E f \in Needed : DependsOnItself(f) \/ ~Sure(f)

FailureIsReal == stage = "render" /\ error # "none" /\ NamesDistinct => Unsound

Verdict ==
  stage # "render" /\ outcome # "none" /\ NamesDistinct => (outcome = "rendered" <=> ~Unsound)

SoundInv ==
  /\ StackInv /\ RanIsSound
  /\ CalledAreNeeded /\ DownTheStack /\ FailureIsReal /\ Verdict

-----------------------------------------------------------------------------
(* What depends on the project and the roots alone.                        *)
LEMMA UnsoundFixed ==
  ASSUME UNCHANGED <<project, roots>>
  PROVE  /\ Needed' = Needed /\ Unsound' = Unsound /\ NamesDistinct' = NamesDistinct
<1>1. Needed' = Needed /\ NamesDistinct' = NamesDistinct
  BY DEF Needed, NamesDistinct, ClosureOf, Callees, Registered, RegistryOf, Params
<1>2. \A f : DependsOnItself(f)' = DependsOnItself(f) /\ Sure(f)' = Sure(f)
  BY DEF DependsOnItself, Sure, NamesUnknown, ClosureOf, Callees, Registered, RegistryOf, Params
<1> QED
  BY <1>1, <1>2 DEF Unsound

(* The next state's RanIsSound, said with this state's operators.          *)
LEMMA RanIsSoundNext ==
  ASSUME UNCHANGED project, NEW R, R = Ran',
         stage' = "render" /\ error' = "none" =>
           /\ Closed(R) /\ Acyclic(R) /\ \A f \in R : Sure(f)
           /\ \A i \in DOMAIN frames' : \A j \in DOMAIN Params(frames'[i].fn) :
                LET p == Params(frames'[i].fn)[j] IN
                j < frames'[i].at /\ p.marker # "value" =>
                  Registered(p) # {} /\ Registered(p) \subseteq R
           /\ \A i \in DOMAIN roots' : i < root' => roots'[i] \in R
           /\ DOMAIN memo' \subseteq R
  PROVE  RanIsSound'
<1> SUFFICES ASSUME stage' = "render", error' = "none"
             PROVE  /\ Closed(Ran)' /\ Acyclic(Ran)' /\ \A f \in Ran' : Sure(f)'
                    /\ BoundAreRan'
                    /\ \A i \in DOMAIN roots' : i < root' => roots'[i] \in Ran'
                    /\ DOMAIN memo' \subseteq Ran'
  BY DEF RanIsSound
<1>1. Closed(Ran)' /\ Acyclic(Ran)'
  <2>1. \A f : Callees(f)' = Callees(f)
    BY DEF Callees, Registered, RegistryOf, Params
  <2>2. Closed(R) /\ Acyclic(R)
    OBVIOUS
  <2>3. Closed(Ran)'
    BY <2>1, <2>2 DEF Closed
  <2>4. Acyclic(Ran)'
    BY <2>1, <2>2 DEF Acyclic
  <2> QED
    BY <2>3, <2>4
<1>2. \A f \in Ran' : Sure(f)'
  BY DEF Sure, NamesUnknown, Registered, RegistryOf, Params
<1>3. BoundAreRan'
  BY DEF BoundAreRan, Registered, RegistryOf, Params
<1> QED
  BY <1>1, <1>2, <1>3

LEMMA DownTheStackNext ==
  ASSUME UNCHANGED project,
         \A i, j \in DOMAIN frames' : i < j => frames'[j].fn \in ClosureOf(Callees(frames'[i].fn))
  PROVE  DownTheStack'
BY DEF DownTheStack, ClosureOf, Callees, Registered, RegistryOf, Params

(* What is needed is closed under calls and starts at the roots.           *)
LEMMA NeededIsClosed ==
  ASSUME ResolutionTypeOK
  PROVE  /\ Needed \subseteq Fns /\ Closed(Needed)
         /\ \A i \in DOMAIN roots : roots[i] \in Needed
         /\ \A C \in SUBSET Fns :
              Closed(C) /\ (\A i \in DOMAIN roots : roots[i] \in C) => Needed \subseteq C
<1> DEFINE S == {roots[i] : i \in DOMAIN roots}
<1>1. \A i \in DOMAIN roots : roots[i] \in Fns
  BY LenProperties, ElementOfSeq DEF ResolutionTypeOK
<1>2. S \subseteq Fns /\ Needed = ClosureOf(S)
  BY <1>1 DEF Needed
<1>3. \A i \in DOMAIN roots : roots[i] \in S
  OBVIOUS
<1>4. \A C : (\A i \in DOMAIN roots : roots[i] \in C) => S \subseteq C
  OBVIOUS
<1> HIDE DEF S
<1> QED
  BY <1>2, <1>3, <1>4, ClosureIsLeast

-----------------------------------------------------------------------------
LEMMA InitSound == Init => SoundInv
<1> SUFFICES ASSUME Init PROVE SoundInv
  OBVIOUS
<1>1. stage = "idle" /\ frames = <<>> /\ outcome = "none"
  BY DEF Init
<1> QED
  BY <1>1, InitStack
  DEF SoundInv, RanIsSound, CalledAreNeeded, DownTheStack, FailureIsReal, Verdict

LEMMA PushKeepsSound ==
  ASSUME SoundInv, NEW f \in Fns, Pushes(f)
  PROVE  RanIsSound' /\ CalledAreNeeded' /\ DownTheStack' /\ FailureIsReal' /\ Verdict'
<1> DEFINE n == Len(frames)
<1>0. StackInv /\ ResolutionTypeOK
  BY DEF SoundInv, StackInv
<1>1. /\ UNCHANGED <<project, roots, root, memo, error, render, runs, outcome>>
      /\ error = "none" /\ PushOn(frames, f)
      /\ stage' \in {"import", "render"}
      /\ stage' = "render" => stage = "render"
      /\ stage' # "render" => stage # "render"
  BY DEF Pushes
<1>2. /\ n \in Nat /\ DOMAIN frames = 1 .. n /\ DOMAIN frames' = 1 .. n + 1
      /\ \A i \in DOMAIN frames : frames'[i] = frames[i]
      /\ frames'[n + 1] = [fn |-> f, at |-> 1]
  BY <1>0, <1>1, Pushed
<1>3. frames'[n + 1].fn = f /\ frames'[n + 1].at = 1
  BY <1>2
<1>4. frames # <<>> => /\ n \in DOMAIN frames /\ frames[n] = Top
                       /\ \A i \in DOMAIN frames : frames[i].fn \in Fns
  BY <1>0, TopIsOther
<1>5. \/ frames # <<>> /\ f \in Callees(Top.fn)
      \/ frames = <<>> /\ (stage = "render" => f \in Needed)
  <2>1. CASE frames = <<>>
    <3>1. stage = "render" => root \in DOMAIN roots /\ f = roots[root]
      BY <2>1 DEF Pushes
    <3> QED
      BY <1>0, <2>1, <3>1, NeededIsClosed
  <2>2. CASE frames # <<>>
    <3>1. Top.at \in DOMAIN Params(Top.fn) /\ Calls(Params(Top.fn)[Top.at], f)
      BY <2>2 DEF Pushes, CurrentParam
    <3>2. \E i \in DOMAIN Params(Top.fn) : Calls(Params(Top.fn)[i], f)
      BY <3>1
    <3>3. f \in Callees(Top.fn)
      BY <3>2, CalleesAreNamed
    <3> QED
      BY <2>2, <3>3
  <2> QED
    BY <2>1, <2>2
<1>6. frames = <<>> => n = 0
  OBVIOUS
<1>7. RanIsSound'
  <2> SUFFICES ASSUME stage = "render", NEW i \in DOMAIN frames',
                      NEW j \in DOMAIN Params(frames'[i].fn), j < frames'[i].at
               PROVE  LET p == Params(frames'[i].fn)[j] IN
                      p.marker # "value" => Registered(p) # {} /\ Registered(p) \subseteq Ran
    <3>1. Ran' = Ran
      BY <1>1 DEF Ran
    <3> QED
      BY <1>1, <3>1, RanIsSoundNext DEF SoundInv, RanIsSound
  <2>1. CASE i = n + 1
    <3>1. frames'[i].fn = f /\ frames'[i].at = 1
      BY <1>3, <2>1
    <3>2. DOMAIN Params(f) = 1 .. Len(Params(f)) /\ Len(Params(f)) \in Nat
      BY <1>0, ProjectTyped
    <3>3. j \in 1 .. Len(Params(f)) /\ j < 1
      BY <3>1, <3>2
    <3> QED
      BY <3>2, <3>3
  <2>2. CASE i # n + 1
    <3>1. i \in DOMAIN frames
      BY <1>2, <2>2
    <3> QED
      BY <1>1, <1>2, <3>1 DEF SoundInv, RanIsSound, BoundAreRan
  <2> QED
    BY <2>1, <2>2
<1>8. CalledAreNeeded'
  <2> SUFFICES ASSUME stage = "render", NEW i \in DOMAIN frames'
               PROVE  frames'[i].fn \in Needed
    BY <1>1, UnsoundFixed DEF CalledAreNeeded
  <2>1. CASE i = n + 1
    <3>1. frames # <<>> => Top.fn \in Needed
      BY <1>4 DEF SoundInv, CalledAreNeeded
    <3>2. f \in Needed
      BY <1>0, <1>5, <3>1, NeededIsClosed DEF Closed
    <3> QED
      BY <1>3, <2>1, <3>2
  <2>2. CASE i # n + 1
    <3>1. i \in DOMAIN frames
      BY <1>2, <2>2
    <3> QED
      BY <1>2, <3>1 DEF SoundInv, CalledAreNeeded
  <2> QED
    BY <2>1, <2>2
<1>9. DownTheStack'
  <2> SUFFICES ASSUME NEW i \in DOMAIN frames', NEW j \in DOMAIN frames', i < j
               PROVE  frames'[j].fn \in ClosureOf(Callees(frames'[i].fn))
    BY <1>1, DownTheStackNext
  <2>1. i \in DOMAIN frames /\ frames'[i] = frames[i]
    <3>1. i \in DOMAIN frames
      BY <1>2
    <3> QED
      BY <1>2, <3>1
  <2>2. CASE j \in DOMAIN frames
    BY <1>2, <2>1, <2>2 DEF SoundInv, DownTheStack
  <2>3. CASE j = n + 1
    <3>1. frames # <<>> /\ f \in Callees(Top.fn) /\ frames'[j].fn = f
      BY <1>2, <1>3, <1>5, <1>6, <2>1, <2>3
    <3> DEFINE D == ClosureOf(Callees(frames[i].fn))
    <3>2. Callees(frames[i].fn) \subseteq D /\ Closed(D)
      BY CalleesAreNamed, ClosureIsLeast
    <3>3. CASE i = n
      BY <1>4, <2>1, <3>1, <3>2, <3>3
    <3>4. CASE i # n
      <4>1. n \in DOMAIN frames /\ i < n
        BY <1>2, <1>4, <2>1, <3>1, <3>4
      <4>2. Top.fn \in D
        BY <1>4, <2>1, <3>1, <4>1 DEF SoundInv, DownTheStack
      <4> QED
        BY <2>1, <3>1, <3>2, <4>2 DEF Closed
    <3> QED
      BY <3>3, <3>4
  <2> QED
    BY <1>2, <2>2, <2>3
<1>10. FailureIsReal' /\ Verdict'
  BY <1>1, UnsoundFixed DEF SoundInv, FailureIsReal, Verdict
<1> QED
  BY <1>7, <1>8, <1>9, <1>10

(* Every step but a call or the start of a render.                         *)
LEMMA OtherStepsKeepStack ==
  ASSUME SoundInv, [Next]_vars, ~StartRender,
         ~((\E f \in Fns : ImportCall(f)) \/ CallRoot \/ BindCall)
  PROVE  /\ UNCHANGED <<project, roots>> /\ (stage' = "render" => stage = "render")
         /\ CalledAreNeeded' /\ DownTheStack'
<1>1. \A i \in DOMAIN frames' : i \in DOMAIN frames /\ frames'[i].fn = frames[i].fn
  BY OtherStepsShrink DEF SoundInv
<1>2. UNCHANGED <<project, roots>> /\ (stage' = "render" => stage = "render")
  BY DEF Next, Step, Ended, vars, BindAtOnce, BindUnknown, BindCycle,
         Return, BodyRaises, Unwind, Abort, FinishRender
<1>3. CalledAreNeeded'
  BY <1>1, <1>2, UnsoundFixed DEF SoundInv, CalledAreNeeded
<1>4. DownTheStack'
  BY <1>1, <1>2, DownTheStackNext DEF SoundInv, DownTheStack
<1> QED
  BY <1>2, <1>3, <1>4

LEMMA BindKeepsSound ==
  ASSUME SoundInv, BindAtOnce
  PROVE  RanIsSound' /\ FailureIsReal' /\ Verdict'
<1> DEFINE n == Len(frames)
<1>0. StackInv /\ ResolutionTypeOK
  BY DEF SoundInv, StackInv
<1>1. /\ frames' = Advance(frames) /\ frames # <<>> /\ frames \in Seq(Frame)
      /\ UNCHANGED <<project, stage, roots, root, resolving, memo, error, render, runs, outcome>>
      /\ \/ CurrentParam.marker = "value"
         \/ \E f \in Registered(CurrentParam) : IsMemoized(f)
  BY <1>0 DEF BindAtOnce, Binding, ResolutionTypeOK
<1>2. /\ DOMAIN frames' = DOMAIN frames
      /\ \A i \in DOMAIN frames : frames'[i].fn = frames[i].fn
      /\ \A i \in DOMAIN frames : i # n => frames'[i] = frames[i]
      /\ frames'[n].at = Top.at + 1
  BY <1>1, AdvancedStack DEF Top
<1>3. n \in DOMAIN frames /\ frames[n] = Top
  BY <1>0, <1>1, TopIsOther
<1>4. RanIsSound'
  <2> SUFFICES ASSUME stage = "render", error = "none", NEW i \in DOMAIN frames,
                      NEW j \in DOMAIN Params(frames[i].fn), j < frames'[i].at,
                      Params(frames[i].fn)[j].marker # "value"
               PROVE  /\ Registered(Params(frames[i].fn)[j]) # {}
                      /\ Registered(Params(frames[i].fn)[j]) \subseteq Ran
    <3>1. Ran' = Ran
      BY <1>1 DEF Ran
    <3> QED
      BY <1>1, <1>2, <3>1, RanIsSoundNext DEF SoundInv, RanIsSound
  <2>0. /\ frames[i].fn \in Fns /\ frames[i].at \in Nat /\ j \in Nat
    <3>1. frames[i].fn \in Fns /\ frames[i].at \in Nat
      BY <1>1, FramesTyped
    <3>2. DOMAIN Params(frames[i].fn) = 1 .. Len(Params(frames[i].fn))
      BY <1>0, <3>1, ProjectTyped
    <3> QED
      BY <3>1, <3>2
  <2>1. CASE j < frames[i].at
    BY <2>1 DEF SoundInv, RanIsSound, BoundAreRan
  <2>2. CASE ~(j < frames[i].at)
    <3>1. i = n
      BY <1>2, <2>2
    <3>2. j = Top.at
      BY <1>2, <1>3, <2>0, <2>2, <3>1
    <3>3. Params(frames[i].fn)[j] = CurrentParam
      BY <1>3, <3>1, <3>2 DEF CurrentParam
    <3>4. PICK f \in Registered(CurrentParam) : IsMemoized(f)
      BY <1>1, <3>3
    <3>5. f \in Ran
      BY <3>4 DEF SoundInv, RanIsSound, IsMemoized
    <3> QED
      BY <1>0, <3>3, <3>4, <3>5, RegisteredOnce
  <2> QED
    BY <2>1, <2>2
<1>5. FailureIsReal' /\ Verdict'
  BY <1>1, UnsoundFixed DEF SoundInv, FailureIsReal, Verdict
<1> QED
  BY <1>4, <1>5

LEMMA FailKeepsSound ==
  ASSUME SoundInv, BindUnknown \/ BindCycle \/ BodyRaises
  PROVE  RanIsSound' /\ FailureIsReal' /\ Verdict'
<1>0. StackInv /\ ResolutionTypeOK
  BY DEF SoundInv, StackInv
<1>1. /\ UNCHANGED <<project, stage, roots, outcome>> /\ error' # "none" /\ frames # <<>>
  BY DEF BindUnknown, BindCycle, BodyRaises, Binding, Bound
<1>2. RanIsSound' /\ Verdict'
  BY <1>1, UnsoundFixed DEF SoundInv, RanIsSound, Verdict
<1>3. /\ Top.fn \in Fns /\ Len(frames) \in DOMAIN frames /\ Top = frames[Len(frames)]
      /\ DOMAIN frames = 1 .. Len(frames) /\ Len(frames) \in Nat
      /\ \A i \in DOMAIN frames : frames[i].fn \in Fns
  BY <1>0, <1>1, TopIsOther
<1>4. ASSUME stage = "render", NamesDistinct
      PROVE  Unsound
  <2>1. Top.fn \in Needed
    BY <1>3, <1>4 DEF SoundInv, CalledAreNeeded
  <2>2. ASSUME BindUnknown \/ BindCycle
        PROVE  /\ Top.at \in DOMAIN Params(Top.fn) /\ CurrentParam = Params(Top.fn)[Top.at]
               /\ CurrentParam.marker # "value"
    <3>1. Top.at \in Nat \ {0}
      BY <1>0, <1>3, FramesTyped DEF ResolutionTypeOK
    <3>2. Top.at <= Len(Params(Top.fn)) /\ CurrentParam.marker # "value"
      BY <2>2 DEF BindUnknown, BindCycle, Binding
    <3> QED
      BY <1>0, <1>3, <3>1, <3>2, ProjectTyped DEF CurrentParam
  <2>3. CASE BindUnknown
    <3>1. Registered(CurrentParam) = {}
      BY <2>3 DEF BindUnknown
    <3>2. NamesUnknown(Top.fn)
      BY <2>2, <2>3, <3>1 DEF NamesUnknown
    <3> QED
      BY <2>1, <3>2 DEF Unsound, Sure
  <2>4. CASE BindCycle
    <3>1. PICK f \in Registered(CurrentParam) : OnStack(f)
      BY <2>4 DEF BindCycle
    <3>2. f \in Callees(Top.fn) /\ f \in Fns
      BY <2>2, <2>4, CalleesAreNamed DEF Calls, Registered
    <3>3. PICK i \in DOMAIN frames : frames[i].fn = f
      <4>1. PICK i \in DOMAIN frames : project.fname[frames[i].fn] = project.fname[f]
        BY <1>0, <3>1 DEF OnStack, StackInv, StackMirrorsCalls
      <4> QED
        BY <1>3, <1>4, <3>2, <4>1 DEF NamesDistinct
    <3> DEFINE D == ClosureOf(Callees(f))
    <3>4. Callees(f) \subseteq D /\ Closed(D)
      BY CalleesAreNamed, ClosureIsLeast
    <3>5. f \in D
      <4>1. CASE i = Len(frames)
        BY <1>3, <3>2, <3>3, <3>4, <4>1
      <4>2. CASE i # Len(frames)
        <5>1. i < Len(frames)
          BY <1>3, <4>2
        <5>2. Top.fn \in D
          BY <1>3, <3>3, <5>1 DEF SoundInv, DownTheStack
        <5> QED
          BY <3>2, <3>4, <5>2 DEF Closed
      <4> QED
        BY <4>1, <4>2
    <3>6. f \in Needed
      BY <3>3, <1>4 DEF SoundInv, CalledAreNeeded
    <3> QED
      BY <3>5, <3>6 DEF Unsound, DependsOnItself
  <2>5. CASE BodyRaises
    BY <2>1, <2>5 DEF BodyRaises, Unsound, Sure
  <2> QED
    BY <2>3, <2>4, <2>5
<1>5. FailureIsReal'
  BY <1>1, <1>4, UnsoundFixed DEF FailureIsReal
<1> QED
  BY <1>2, <1>5

LEMMA ReturnKeepsSound ==
  ASSUME SoundInv, Return
  PROVE  RanIsSound' /\ FailureIsReal' /\ Verdict'
<1> DEFINE n == Len(frames)
           f == Top.fn
           R == Ran \cup {f}
<1>0. StackInv /\ ResolutionTypeOK /\ frames \in Seq(Frame)
  BY DEF SoundInv, StackInv, ResolutionTypeOK
<1>1. /\ error = "none" /\ frames # <<>> /\ Top.at > Len(Params(Top.fn))
      /\ f \notin project.raises /\ UNCHANGED <<project, roots, error, render, outcome>>
      /\ memo' = IF project.kind[f] = "target" THEN Put(memo, f, render) ELSE memo
      /\ runs' = IF stage = "render" THEN [runs EXCEPT ![f] = @ + 1] ELSE runs
      /\ stage' = "render" => stage = "render"
      /\ stage' # "render" => stage # "render"
  BY DEF Return, Bound, Running, CountRun
<1>2. \/ n = 1 /\ frames' = <<>> /\ (stage = "render" => root' = root + 1)
      \/ n # 1 /\ frames' = Advance(FrontOf(frames)) /\ root' = root
  BY DEF Return
<1>3. /\ f \in Fns /\ n \in Nat /\ n \in DOMAIN frames /\ Top = frames[n]
      /\ DOMAIN frames = 1 .. n /\ \A i \in DOMAIN frames : frames[i].fn \in Fns
  BY <1>0, <1>1, TopIsOther
<1>4. FailureIsReal' /\ Verdict'
  BY <1>1, UnsoundFixed DEF SoundInv, FailureIsReal, Verdict
<1>5. SUFFICES ASSUME stage = "render"
               PROVE  RanIsSound'
  BY <1>1, <1>4 DEF RanIsSound
<1>6. /\ Closed(Ran) /\ Acyclic(Ran) /\ \A g \in Ran : Sure(g)
      /\ BoundAreRan
      /\ \A i \in DOMAIN roots : i < root => roots[i] \in Ran
      /\ DOMAIN memo \subseteq Ran
  BY <1>1, <1>5 DEF SoundInv, RanIsSound
<1>7. Ran' = R /\ R \subseteq Fns
  BY <1>0, <1>1, <1>3, <1>5 DEF Ran, ResolutionTypeOK
<1>8. ASSUME NEW j \in DOMAIN Params(f), Params(f)[j].marker # "value"
      PROVE  Registered(Params(f)[j]) # {} /\ Registered(Params(f)[j]) \subseteq Ran
  <2>1. j < Top.at
    <3>1. /\ DOMAIN Params(f) = 1 .. Len(Params(f)) /\ Len(Params(f)) \in Nat
      BY <1>0, <1>3, ProjectTyped
    <3>2. Top.at \in Nat
      BY <1>0, <1>3, FramesTyped
    <3> QED
      BY <1>1, <3>1, <3>2
  <2> QED
    BY <1>3, <1>6, <1>8, <2>1 DEF BoundAreRan
<1>9. Sure(f) /\ Callees(f) \subseteq Ran
  <2>1. Sure(f)
    BY <1>1, <1>8 DEF Sure, NamesUnknown
  <2>2. ASSUME NEW g \in Callees(f) PROVE g \in Ran
    <3>1. PICK j \in DOMAIN Params(f) : Calls(Params(f)[j], g)
      BY CalleesAreNamed
    <3> QED
      BY <1>8, <3>1 DEF Calls
  <2> QED
    BY <2>1, <2>2
<1>10. Closed(R) /\ Acyclic(R) /\ \A g \in R : Sure(g)
  <2>1. Ran \in SUBSET Fns
    BY DEF Ran
  <2> HIDE DEF f
  <2> QED
    BY <1>3, <1>6, <1>9, <2>1, AcyclicGrows
<1>11. DOMAIN memo' \subseteq R
  BY <1>1, <1>6 DEF Put
<1>12. \A i \in DOMAIN roots : i < root' => roots[i] \in R
  <2>1. CASE n = 1
    <3>1. root \in DOMAIN roots /\ f = roots[root]
      BY <1>1, <1>3, <1>5, <2>1 DEF SoundInv, StackInv, RootIsCalled
    <3>2. root \in Nat /\ root' = root + 1 /\ DOMAIN roots = 1 .. Len(roots)
      BY <1>0, <1>2, <1>5, <2>1, LenProperties DEF ResolutionTypeOK
    <3>3. ASSUME NEW i \in DOMAIN roots, i < root' PROVE i < root \/ i = root
      BY <3>2, <3>3
    <3> QED
      BY <1>6, <3>1, <3>3
  <2>2. CASE n # 1
    BY <1>2, <1>6, <2>2
  <2> QED
    BY <2>1, <2>2
<1>13. ASSUME NEW i \in DOMAIN frames', NEW j \in DOMAIN Params(frames'[i].fn),
              j < frames'[i].at, Params(frames'[i].fn)[j].marker # "value"
       PROVE  /\ Registered(Params(frames'[i].fn)[j]) # {}
              /\ Registered(Params(frames'[i].fn)[j]) \subseteq R
  <2>1. n # 1 /\ frames' = Advance(FrontOf(frames))
    BY <1>2, <1>13
  <2>2. /\ FrontOf(frames) \in Seq(Frame) /\ Len(FrontOf(frames)) = n - 1
        /\ DOMAIN FrontOf(frames) = 1 .. n - 1
        /\ \A k \in 1 .. n - 1 : FrontOf(frames)[k] = frames[k]
    BY <1>0, <1>1, TopOfStack
  <2>3. FrontOf(frames) # <<>>
    BY <1>3, <2>1, <2>2
  <2>4. n - 1 \in 1 .. n - 1 /\ Last(FrontOf(frames)) = frames[n - 1]
    BY <1>3, <2>1, <2>2 DEF Last
  <2>5. /\ DOMAIN frames' = 1 .. n - 1 /\ frames'[i].fn = FrontOf(frames)[i].fn
        /\ i # n - 1 => frames'[i] = FrontOf(frames)[i]
        /\ frames'[n - 1].at = frames[n - 1].at + 1
    BY <1>13, <2>1, <2>2, <2>3, <2>4, AdvancedStack
  <2>6. i \in DOMAIN frames /\ frames'[i].fn = frames[i].fn
    BY <1>3, <1>13, <2>2, <2>5
  <2>7. CASE j < frames[i].at
    BY <1>6, <1>13, <2>6, <2>7 DEF BoundAreRan
  <2>8. CASE ~(j < frames[i].at)
    <3>1. i = n - 1
      BY <1>13, <2>2, <2>5, <2>8
    <3>2. frames[i].at \in Nat /\ j \in Nat
      <4>1. frames[i].at \in Nat /\ frames[i].fn \in Fns
        BY <1>0, <2>6, FramesTyped
      <4>2. DOMAIN Params(frames[i].fn) = 1 .. Len(Params(frames[i].fn))
        BY <1>0, <4>1, ProjectTyped
      <4> QED
        BY <1>13, <2>6, <4>1, <4>2
    <3>3. j = frames[i].at
      BY <1>13, <2>5, <2>8, <3>1, <3>2
    <3>4. i + 1 = n /\ i + 1 \in DOMAIN frames
      BY <1>3, <3>1
    <3>5. Calls(Params(frames[i].fn)[j], f)
      BY <1>3, <2>6, <3>3, <3>4 DEF SoundInv, StackInv, EachCalledByTheNext
    <3>6. f \in Registered(Params(frames[i].fn)[j])
      BY <3>5 DEF Calls
    <3>7. \A g \in Registered(Params(frames[i].fn)[j]) : g = f
      BY <1>0, <3>6, RegisteredOnce
    <3> QED
      BY <2>6, <3>6, <3>7
  <2> QED
    BY <2>7, <2>8
<1> QED
  BY <1>1, <1>7, <1>10, <1>11, <1>12, <1>13, RanIsSoundNext

(* How a render ends.                                                      *)
LEMMA EndKeepsSound ==
  ASSUME SoundInv, Abort \/ FinishRender
  PROVE  RanIsSound' /\ FailureIsReal' /\ Verdict'
<1>0. ResolutionTypeOK
  BY DEF SoundInv, StackInv
<1>1. UNCHANGED <<project, roots>> /\ stage' = "idle"
  BY DEF Abort, FinishRender
<1>2. RanIsSound' /\ FailureIsReal'
  BY <1>1 DEF RanIsSound, FailureIsReal
<1> SUFFICES Verdict'
  BY <1>2
<1>3. CASE Abort /\ stage # "render"
  BY <1>1, <1>3, UnsoundFixed DEF Abort, SoundInv, Verdict
<1>4. CASE Abort /\ stage = "render"
  <2>1. outcome' \in {"cycle", "unknown", "body"}
    BY <1>0, <1>4 DEF Abort, ResolutionTypeOK
  <2>2. NamesDistinct => Unsound
    BY <1>4 DEF Abort, SoundInv, FailureIsReal
  <2> QED
    BY <1>1, <2>1, <2>2, UnsoundFixed DEF Verdict
<1>5. CASE FinishRender
  <2>1. /\ stage = "render" /\ error = "none" /\ root > Len(roots) /\ outcome' = "rendered"
    BY <1>5 DEF FinishRender
  <2>2. /\ Closed(Ran) /\ Acyclic(Ran) /\ \A f \in Ran : Sure(f)
        /\ \A i \in DOMAIN roots : i < root => roots[i] \in Ran
    BY <2>1 DEF SoundInv, RanIsSound
  <2>3. \A i \in DOMAIN roots : i < root
    BY <1>0, <2>1, LenProperties DEF ResolutionTypeOK
  <2>4. Ran \in SUBSET Fns
    BY DEF Ran
  <2>5. Needed \subseteq Ran
    BY <1>0, <2>2, <2>3, <2>4, NeededIsClosed
  <2>6. \A f \in Needed : ~DependsOnItself(f) /\ Sure(f)
    BY <2>2, <2>4, <2>5, AcyclicIsSound
  <2>7. ~Unsound
    BY <2>6 DEF Unsound
  <2> QED
    BY <1>1, <2>1, <2>7, UnsoundFixed DEF Verdict
<1> QED
  BY <1>3, <1>4, <1>5

LEMMA StartKeepsSound ==
  ASSUME SoundInv, StartRender
  PROVE  RanIsSound' /\ CalledAreNeeded' /\ DownTheStack' /\ FailureIsReal' /\ Verdict'
<1>1. /\ stage' = "render" /\ root' = 1 /\ memo' = <<>> /\ runs' = [f \in Fns |-> 0]
      /\ error' = "none" /\ frames' = <<>> /\ UNCHANGED project /\ ResolutionTypeOK'
  BY StackKeeps DEF StartRender, SoundInv, StackInv, IdleIsClean, Next
<1>2. CalledAreNeeded' /\ DownTheStack' /\ FailureIsReal' /\ Verdict'
  BY <1>1 DEF CalledAreNeeded, DownTheStack, FailureIsReal, Verdict
<1>3. Ran' = {} /\ DOMAIN memo' = {} /\ DOMAIN frames' = {}
  BY <1>1 DEF Ran
<1>4. \A i \in DOMAIN roots' : ~(i < root')
  BY <1>1, LenProperties DEF ResolutionTypeOK
<1>5. Closed({}) /\ Acyclic({})
  BY DEF Closed, Acyclic
<1>6. RanIsSound'
  BY <1>1, <1>3, <1>4, <1>5, RanIsSoundNext
<1> QED
  BY <1>2, <1>6

LEMMA SoundKeeps == SoundInv /\ [Next]_vars => SoundInv'
<1> SUFFICES ASSUME SoundInv, [Next]_vars PROVE SoundInv'
  OBVIOUS
<1>1. StackInv'
  BY StackKeeps DEF SoundInv
<1>2. CASE (\E f \in Fns : ImportCall(f)) \/ CallRoot \/ BindCall
  <2>1. PICK f \in Fns : Pushes(f)
    BY <1>2, CallsPush DEF SoundInv
  <2> QED
    BY <1>1, <2>1, PushKeepsSound DEF SoundInv
<1>3. CASE StartRender
  BY <1>1, <1>3, StartKeepsSound DEF SoundInv
<1>4. CASE ~((\E f \in Fns : ImportCall(f)) \/ CallRoot \/ BindCall) /\ ~StartRender
  <2>1. /\ UNCHANGED <<project, roots>> /\ (stage' = "render" => stage = "render")
        /\ CalledAreNeeded' /\ DownTheStack'
    BY <1>4, OtherStepsKeepStack
  <2>2. CASE Unwind
    <3>1. error' = error /\ error # "none" /\ UNCHANGED <<stage, outcome>>
      BY <2>2 DEF Unwind
    <3> QED
      BY <1>1, <2>1, <3>1, UnsoundFixed DEF SoundInv, RanIsSound, FailureIsReal, Verdict
  <2>3. CASE UNCHANGED vars
    <3>1. UNCHANGED <<stage, outcome, error>> /\ Ran' = Ran
          /\ UNCHANGED <<project, roots, frames, root, memo>>
      BY <2>3 DEF vars, Ran
    <3>2. RanIsSound'
      BY <3>1, RanIsSoundNext DEF SoundInv, RanIsSound, BoundAreRan
    <3> QED
      BY <1>1, <2>1, <3>1, <3>2, UnsoundFixed DEF SoundInv, FailureIsReal, Verdict
  <2>4. CASE BindAtOnce
    BY <1>1, <2>1, <2>4, BindKeepsSound DEF SoundInv
  <2>5. CASE BindUnknown \/ BindCycle \/ BodyRaises
    BY <1>1, <2>1, <2>5, FailKeepsSound DEF SoundInv
  <2>6. CASE Return
    BY <1>1, <2>1, <2>6, ReturnKeepsSound DEF SoundInv
  <2>7. CASE Abort \/ FinishRender
    BY <1>1, <2>1, <2>7, EndKeepsSound DEF SoundInv
  <2> QED
    BY <1>4, <2>2, <2>3, <2>4, <2>5, <2>6, <2>7 DEF Next, Step, Ended
<1> QED
  BY <1>2, <1>3, <1>4

(***************************************************************************)
(* For any project whose functions have distinct names: a render succeeds  *)
(* exactly if nothing it needs depends on itself, names an unknown         *)
(* dependency or raises.  No cycle is missed, none is reported that is not *)
(* there, and neither import calls nor failed renders change the answer.   *)
(***************************************************************************)
THEOREM RenderVerdictIsRight == Spec => []OutcomeIsSound
<1>1. SoundInv => OutcomeIsSound
  BY DEF SoundInv, Verdict, Unsound, Sure, OutcomeIsSound
<1> QED
  BY InitSound, SoundKeeps, <1>1, PTL DEF Spec

-----------------------------------------------------------------------------
(***************************************************************************)
(* The uses that a render has made so far: the roots it has called, and    *)
(* in each run of a function, ended or in progress, the parameters that    *)
(* are bound or whose function is being called.                            *)
(***************************************************************************)
Past(fs, g, i) ==
  \E k \in DOMAIN fs : fs[k].fn = g /\ (i < fs[k].at \/ (i = fs[k].at /\ k < Len(fs)))

UsedIn(f, rs, fs) ==
  UNION {{u \in {g} \X (1 .. rs[g] + 1) \X PlacesOf(g, f) :
            u[2] <= rs[g] \/ Past(fs, g, u[3])} : g \in Fns}

CalledRoots(f, rt, fs) == {i \in RootUses(f) : i < rt \/ (i = rt /\ fs # <<>>)}
Pending(f, fs) == IF \E k \in DOMAIN fs : fs[k].fn = f THEN 1 ELSE 0

UsesCounted(f, rs, rt, fs) ==
  /\ IsFiniteSet(UsedIn(f, rs, fs))
  /\ project.kind[f] = "target" => (rs[f] + Pending(f, fs) > 0 <=> UsedIn(f, rs, fs) # {})
  /\ project.kind[f] # "target" =>
       rs[f] + Pending(f, fs) = Cardinality(CalledRoots(f, rt, fs)) + Cardinality(UsedIn(f, rs, fs))

UsesSoFar ==
  stage = "render" /\ error = "none" => \A f \in Fns : UsesCounted(f, runs, root, frames)

RunsAreUses(f) == runs[f] = IF project.kind[f] = "target" /\ Uses(f) > 0 THEN 1 ELSE Uses(f)

UsesInTheEnd ==
  stage # "render" /\ outcome = "rendered" => \A f \in Fns : RunsAreUses(f)

UsesInv == RunInv /\ SoundInv /\ UsesSoFar /\ UsesInTheEnd

(* What is a use, and how the set of them grows.                           *)
LEMMA UsedTriples ==
  ASSUME NEW f, NEW rs, NEW fs, NEW u
  PROVE  u \in UsedIn(f, rs, fs) <=>
           /\ u = <<u[1], u[2], u[3]>> /\ u[1] \in Fns
           /\ u[2] \in 1 .. rs[u[1]] + 1 /\ u[3] \in PlacesOf(u[1], f)
           /\ u[2] <= rs[u[1]] \/ Past(fs, u[1], u[3])
<1>1. u \in UsedIn(f, rs, fs) <=>
        \E g \in Fns : /\ u \in {g} \X (1 .. rs[g] + 1) \X PlacesOf(g, f)
                       /\ u[2] <= rs[g] \/ Past(fs, g, u[3])
  BY DEF UsedIn
<1>2. ASSUME NEW g
      PROVE  u \in {g} \X (1 .. rs[g] + 1) \X PlacesOf(g, f) <=>
               /\ u = <<u[1], u[2], u[3]>> /\ u[1] = g
               /\ u[2] \in 1 .. rs[g] + 1 /\ u[3] \in PlacesOf(g, f)
  OBVIOUS
<1> QED
  BY <1>1, <1>2

LEMMA SameUses ==
  ASSUME NEW f, NEW rs, NEW fs, NEW gs,
         \A g \in Fns : \A i \in PlacesOf(g, f) : Past(gs, g, i) <=> Past(fs, g, i)
  PROVE  UsedIn(f, rs, gs) = UsedIn(f, rs, fs)
<1>1. ASSUME NEW u PROVE u \in UsedIn(f, rs, gs) <=> u \in UsedIn(f, rs, fs)
  BY UsedTriples
<1> QED
  BY <1>1

LEMMA OneMoreUse ==
  ASSUME NEW f, NEW rs \in [Fns -> Nat], NEW fs, NEW gs, NEW g \in Fns,
         NEW i \in PlacesOf(g, f), ~Past(fs, g, i),
         \A h \in Fns : \A j \in PlacesOf(h, f) :
           Past(gs, h, j) <=> Past(fs, h, j) \/ (h = g /\ j = i)
  PROVE  /\ UsedIn(f, rs, gs) = UsedIn(f, rs, fs) \cup {<<g, rs[g] + 1, i>>}
         /\ <<g, rs[g] + 1, i>> \notin UsedIn(f, rs, fs)
<1> DEFINE use == <<g, rs[g] + 1, i>>
<1>0. rs[g] \in Nat /\ use[1] = g /\ use[2] = rs[g] + 1 /\ use[3] = i
  OBVIOUS
<1>1. use \notin UsedIn(f, rs, fs)
  <2> HIDE DEF use
  <2>1. use[2] > rs[use[1]] /\ ~Past(fs, use[1], use[3])
    BY <1>0
  <2> QED
    BY <1>0, <2>1, UsedTriples
<1>2. use \in UsedIn(f, rs, gs)
  <2>1. use = <<use[1], use[2], use[3]>> /\ use[2] \in 1 .. rs[g] + 1
    BY <1>0
  <2>2. Past(gs, g, i)
    OBVIOUS
  <2> HIDE DEF use
  <2> QED
    BY <1>0, <2>1, <2>2, UsedTriples
<1>3. ASSUME NEW u \in UsedIn(f, rs, fs) PROVE u \in UsedIn(f, rs, gs)
  BY UsedTriples
<1>4. ASSUME NEW u \in UsedIn(f, rs, gs), u \notin UsedIn(f, rs, fs) PROVE u = use
  <2>1. /\ u = <<u[1], u[2], u[3]>> /\ u[1] \in Fns
        /\ u[2] \in 1 .. rs[u[1]] + 1 /\ u[3] \in PlacesOf(u[1], f)
        /\ u[2] <= rs[u[1]] \/ Past(gs, u[1], u[3])
    BY UsedTriples
  <2>2. ~(u[2] <= rs[u[1]]) /\ ~Past(fs, u[1], u[3])
    BY <1>4, <2>1, UsedTriples
  <2>3. u[1] = g /\ u[3] = i
    BY <2>1, <2>2
  <2>4. u[2] = rs[g] + 1
    BY <1>0, <2>1, <2>2, <2>3
  <2> QED
    BY <2>1, <2>3, <2>4
<1> HIDE DEF use
<1>5. UsedIn(f, rs, gs) = UsedIn(f, rs, fs) \cup {use}
  BY <1>2, <1>3, <1>4
<1> QED
  BY <1>1, <1>5 DEF use

(* A run that ends has used all its places; they count as before.          *)
LEMMA EndedRunCounts ==
  ASSUME NEW f, NEW rs \in [Fns -> Nat], NEW qs, NEW fs, NEW gs, NEW g \in Fns,
         qs[g] = rs[g] + 1, \A h \in Fns : h # g => qs[h] = rs[h],
         \A i \in PlacesOf(g, f) : Past(fs, g, i) /\ ~Past(gs, g, i),
         \A h \in Fns : h # g => \A i \in PlacesOf(h, f) : Past(gs, h, i) <=> Past(fs, h, i)
  PROVE  UsedIn(f, qs, gs) = UsedIn(f, rs, fs)
<1>1. qs[g] = rs[g] + 1 /\ rs[g] \in Nat
  OBVIOUS
<1>2. ASSUME NEW u PROVE u \in UsedIn(f, qs, gs) <=> u \in UsedIn(f, rs, fs)
  <2>1. CASE u[1] # g
    <3>1. CASE u[1] \in Fns
      <4>1. qs[u[1]] = rs[u[1]]
        BY <2>1, <3>1
      <4>2. \A i \in PlacesOf(u[1], f) : Past(gs, u[1], i) <=> Past(fs, u[1], i)
        BY <2>1, <3>1
      <4>3. u \in UsedIn(f, qs, gs) <=>
              /\ u = <<u[1], u[2], u[3]>> /\ u[2] \in 1 .. qs[u[1]] + 1
              /\ u[3] \in PlacesOf(u[1], f)
              /\ u[2] <= qs[u[1]] \/ Past(gs, u[1], u[3])
        BY <3>1, UsedTriples
      <4>4. u \in UsedIn(f, rs, fs) <=>
              /\ u = <<u[1], u[2], u[3]>> /\ u[2] \in 1 .. rs[u[1]] + 1
              /\ u[3] \in PlacesOf(u[1], f)
              /\ u[2] <= rs[u[1]] \/ Past(fs, u[1], u[3])
        BY <3>1, UsedTriples
      <4> QED
        BY <4>1, <4>2, <4>3, <4>4
    <3>2. CASE u[1] \notin Fns
      BY <3>2, UsedTriples
    <3> QED
      BY <3>1, <3>2
  <2>2. CASE u[1] = g
    <3>1. u \in UsedIn(f, qs, gs) <=>
            /\ u = <<u[1], u[2], u[3]>> /\ u[2] \in 1 .. qs[g] + 1 /\ u[3] \in PlacesOf(g, f)
            /\ u[2] <= qs[g] \/ Past(gs, g, u[3])
      BY <2>2, UsedTriples
    <3>2. u \in UsedIn(f, rs, fs) <=>
            /\ u = <<u[1], u[2], u[3]>> /\ u[2] \in 1 .. rs[g] + 1 /\ u[3] \in PlacesOf(g, f)
            /\ u[2] <= rs[g] \/ Past(fs, g, u[3])
      BY <2>2, UsedTriples
    <3>3. u[3] \in PlacesOf(g, f) => Past(fs, g, u[3]) /\ ~Past(gs, g, u[3])
      OBVIOUS
    <3>4. u[2] \in 1 .. qs[g] + 1 /\ u[2] <= qs[g] <=> u[2] \in 1 .. rs[g] + 1
      BY <1>1
    <3> QED
      BY <3>1, <3>2, <3>3, <3>4
  <2> QED
    BY <2>1, <2>2
<1> QED
  BY <1>2

(* A place is a parameter, and it is of one function.                      *)
LEMMA PlacesAreParams ==
  ASSUME ResolutionTypeOK, NEW g \in Fns, NEW f
  PROVE  /\ PlacesOf(g, f) \subseteq DOMAIN Params(g)
         /\ \A i \in PlacesOf(g, f) : i \in Nat \ {0}
         /\ \A i \in DOMAIN Params(g) : i \in PlacesOf(g, f) <=> Calls(Params(g)[i], f)
         /\ \A h : \A i \in PlacesOf(g, f) : i \in PlacesOf(g, h) => h = f
<1>1. PlacesOf(g, f) = {i \in DOMAIN Params(g) : Calls(Params(g)[i], f)}
  BY DEF PlacesOf, Calls
<1>2. DOMAIN Params(g) = 1 .. Len(Params(g)) /\ Len(Params(g)) \in Nat
  BY ProjectTyped
<1>3. ASSUME NEW h, NEW i \in PlacesOf(g, f), i \in PlacesOf(g, h) PROVE h = f
  BY <1>3, RegisteredOnce DEF PlacesOf
<1>4. PlacesOf(g, f) \subseteq DOMAIN Params(g)
  BY <1>1
<1>5. \A i \in PlacesOf(g, f) : i \in Nat \ {0}
  BY <1>2, <1>4
<1>6. \A i \in DOMAIN Params(g) : i \in PlacesOf(g, f) <=> Calls(Params(g)[i], f)
  BY <1>1
<1> QED
  BY <1>3, <1>4, <1>5, <1>6

(* The place of the innermost call is not used yet.                        *)
LEMMA TopIsUnused ==
  ASSUME StackInv, frames # <<>>
  PROVE  \A j \in Nat : Past(frames, Top.fn, j) <=> j < Top.at
<1>1. /\ Len(frames) \in Nat /\ Len(frames) \in DOMAIN frames
      /\ DOMAIN frames = 1 .. Len(frames) /\ Top = frames[Len(frames)]
      /\ \A i \in DOMAIN frames : i # Len(frames) => frames[i].fn # Top.fn
  BY TopIsOther
<1> QED
  BY <1>1 DEF Past

LEMMA PushPast ==
  ASSUME StackInv, NEW f \in Fns, Pushes(f)
  PROVE  /\ frames = <<>> =>
              \A h \in Fns : \A j \in Nat \ {0} : Past(frames', h, j) <=> Past(frames, h, j)
         /\ frames # <<>> =>
              \A h \in Fns : \A j \in Nat \ {0} :
                Past(frames', h, j) <=> Past(frames, h, j) \/ (h = Top.fn /\ j = Top.at)
         /\ Pending(f, frames) = 0
         /\ \A h \in Fns : Pending(h, frames') = IF h = f THEN 1 ELSE Pending(h, frames)
<1> DEFINE n == Len(frames)
<1>1. /\ n \in Nat /\ DOMAIN frames = 1 .. n
      /\ frames' \in Seq(Frame) /\ frames' # <<>> /\ DOMAIN frames' = 1 .. n + 1
      /\ \A i \in DOMAIN frames : frames'[i] = frames[i]
      /\ frames'[n + 1] = [fn |-> f, at |-> 1]
  BY Pushed DEF Pushes
<1>2. Len(frames') = n + 1 /\ frames'[n + 1].fn = f /\ frames'[n + 1].at = 1
  BY <1>1, LenProperties
<1>0. n \in Nat
  BY <1>1
<1>3. \A i \in DOMAIN frames : frames[i].fn # f
  BY DEF Pushes, OnStack, StackInv, StackMirrorsCalls
<1>4. \A i \in DOMAIN frames : frames[i].at \in Nat
  BY FramesTyped DEF StackInv, ResolutionTypeOK
<1>5. ASSUME NEW h \in Fns, NEW j \in Nat \ {0}
      PROVE  Past(frames', h, j) <=>
               \E k \in 1 .. n : frames[k].fn = h /\ j <= frames[k].at
  <2>1. ASSUME NEW k \in 1 .. n + 1, frames'[k].fn = h,
               j < frames'[k].at \/ (j = frames'[k].at /\ k < n + 1)
        PROVE  k \in 1 .. n /\ frames[k].fn = h /\ j <= frames[k].at
    <3>1. k # n + 1
      BY <1>2, <2>1
    <3>2. k \in 1 .. n
      BY <1>1, <3>1
    <3> QED
      BY <1>1, <1>4, <2>1, <3>2
  <2>2. ASSUME NEW k \in 1 .. n, frames[k].fn = h, j <= frames[k].at
        PROVE  /\ k \in 1 .. n + 1 /\ frames'[k].fn = h
               /\ j < frames'[k].at \/ (j = frames'[k].at /\ k < n + 1)
    BY <1>1, <1>4, <2>2
  <2> QED
    BY <1>1, <1>2, <2>1, <2>2 DEF Past
<1>6. ASSUME frames = <<>>, NEW h \in Fns, NEW j \in Nat \ {0}
      PROVE  Past(frames', h, j) <=> Past(frames, h, j)
  <2>1. n = 0
    BY <1>6
  <2>2. DOMAIN frames = {} /\ 1 .. n = {}
    BY <1>1, <2>1
  <2>3. ~Past(frames, h, j)
    BY <2>2 DEF Past
  <2> QED
    BY <1>5, <2>2, <2>3
<1>7. ASSUME frames # <<>>, NEW h \in Fns, NEW j \in Nat \ {0}
      PROVE  Past(frames', h, j) <=> Past(frames, h, j) \/ (h = Top.fn /\ j = Top.at)
  <2>1. n \in 1 .. n /\ Top = frames[n]
    BY <1>1, <1>7, TopIsOther
  <2>2. Past(frames, h, j) \/ (h = Top.fn /\ j = Top.at) <=>
          \E k \in 1 .. n : frames[k].fn = h /\ j <= frames[k].at
    <3>1. ASSUME NEW k \in 1 .. n, frames[k].fn = h, j <= frames[k].at
          PROVE  Past(frames, h, j) \/ (h = Top.fn /\ j = Top.at)
      <4>1. CASE j < frames[k].at \/ k < n
        <5>1. j < frames[k].at \/ (j = frames[k].at /\ k < n)
          BY <1>1, <1>4, <3>1, <4>1
        <5> QED
          BY <1>1, <3>1, <5>1 DEF Past
      <4>2. CASE ~(j < frames[k].at) /\ ~(k < n)
        <5>1. k = n
          BY <1>0, <4>2
        <5>2. frames[k].at \in Nat
          BY <1>1, <1>4
        <5>3. j = frames[k].at
          BY <3>1, <4>2, <5>2
        <5> QED
          BY <2>1, <3>1, <5>1, <5>3
      <4> QED
        BY <4>1, <4>2
    <3>2. ASSUME Past(frames, h, j)
          PROVE  \E k \in 1 .. n : frames[k].fn = h /\ j <= frames[k].at
      BY <1>1, <1>4, <3>2 DEF Past
    <3>3. ASSUME h = Top.fn, j = Top.at
          PROVE  \E k \in 1 .. n : frames[k].fn = h /\ j <= frames[k].at
      BY <2>1, <3>3
    <3> QED
      BY <3>1, <3>2, <3>3
  <2> QED
    BY <1>5, <2>2
<1>8. Pending(f, frames) = 0
  BY <1>3 DEF Pending
<1>9. ASSUME NEW h \in Fns
      PROVE  Pending(h, frames') = IF h = f THEN 1 ELSE Pending(h, frames)
  <2>1. (\E k \in DOMAIN frames' : frames'[k].fn = h) <=>
          h = f \/ \E k \in DOMAIN frames : frames[k].fn = h
    <3>1. \A k \in 1 .. n + 1 : k \in 1 .. n \/ k = n + 1
      BY <1>1
    <3>2. n + 1 \in 1 .. n + 1 /\ 1 .. n \subseteq 1 .. n + 1
      BY <1>1
    <3> QED
      BY <1>1, <1>2, <3>1, <3>2
  <2> QED
    BY <2>1 DEF Pending
<1> QED
  BY <1>6, <1>7, <1>8, <1>9

(* A frame that goes on past its parameter has used it.                    *)
LEMMA AdvancePast ==
  ASSUME NEW s \in Seq(Frame), s # <<>>, NEW h, NEW j \in Nat \ {0}
  PROVE  /\ Past(Advance(s), h, j) <=> Past(s, h, j) \/ (h = Last(s).fn /\ j = Last(s).at)
         /\ Pending(h, Advance(s)) = Pending(h, s)
<1> DEFINE n == Len(s)
           t == Advance(s)
<1>1. /\ n \in Nat /\ n \in 1 .. n /\ DOMAIN s = 1 .. n /\ Last(s) = s[n]
      /\ \A k \in 1 .. n : s[k].at \in Nat
  BY TopOfStack, FramesTyped
<1>2. /\ Len(t) = n /\ DOMAIN t = 1 .. n
      /\ \A k \in 1 .. n : t[k].fn = s[k].fn
      /\ \A k \in 1 .. n : k # n => t[k] = s[k]
      /\ t[n].at = s[n].at + 1
  BY <1>1, AdvancedStack
<1> HIDE DEF t, n
<1>3. ASSUME NEW k \in 1 .. n
      PROVE  (j < t[k].at \/ (j = t[k].at /\ k < n)) <=>
               (j < s[k].at \/ (j = s[k].at /\ k < n)) \/ (k = n /\ j = s[n].at)
  <2>1. CASE k = n
    <3>1. t[k].at = s[k].at + 1 /\ s[k].at \in Nat /\ ~(k < n)
      BY <1>1, <1>2, <2>1
    <3>2. j < t[k].at <=> j < s[k].at \/ j = s[k].at
      BY <3>1
    <3>3. t[k].at = t[n].at /\ s[k].at = s[n].at
      BY <2>1
    <3> QED
      BY <2>1, <3>1, <3>2, <3>3
  <2>2. CASE k # n
    <3>1. t[k].at = s[k].at
      BY <1>2, <2>2
    <3> QED
      BY <2>2, <3>1
  <2> QED
    BY <2>1, <2>2
<1>4. Past(t, h, j) <=> Past(s, h, j) \/ (h = s[n].fn /\ j = s[n].at)
  <2>1. Past(t, h, j) <=>
          \E k \in 1 .. n : s[k].fn = h /\ (j < t[k].at \/ (j = t[k].at /\ k < n))
    BY <1>2 DEF Past
  <2>2. Past(s, h, j) <=>
          \E k \in 1 .. n : s[k].fn = h /\ (j < s[k].at \/ (j = s[k].at /\ k < n))
    BY <1>1 DEF Past
  <2> QED
    BY <1>1, <1>3, <2>1, <2>2
<1>5. Pending(h, t) = Pending(h, s)
  BY <1>1, <1>2 DEF Pending
<1> QED
  BY <1>1, <1>4, <1>5 DEF t, n

(* A call that returns: the frame below goes past the place it was for.    *)
LEMMA PopPast ==
  ASSUME StackInv, frames # <<>>, NEW gs,
         \/ Len(frames) = 1 /\ gs = <<>>
         \/ Len(frames) # 1 /\ gs = Advance(FrontOf(frames)),
         NEW h \in Fns
  PROVE  /\ \A j \in Nat \ {0} :
              /\ h # Top.fn => (Past(gs, h, j) <=> Past(frames, h, j))
              /\ h = Top.fn => ~Past(gs, h, j)
         /\ h # Top.fn => Pending(h, gs) = Pending(h, frames)
         /\ h = Top.fn => Pending(h, gs) = 0 /\ Pending(h, frames) = 1
<1> DEFINE n == Len(frames)
           Below(k, j) == frames[k].fn = h /\ (j < frames[k].at \/ (j = frames[k].at /\ k < n))
<1>1. /\ n \in Nat /\ n \in 1 .. n /\ DOMAIN frames = 1 .. n /\ Top = frames[n]
      /\ \A i \in 1 .. n : i # n => frames[i].fn # Top.fn
  BY TopIsOther
<1>2. frames \in Seq(Frame)
  BY DEF StackInv, ResolutionTypeOK
<1>3. n \in Nat /\ \A k \in 1 .. n : frames[k].at \in Nat
  BY <1>1, <1>2, FramesTyped
<1>4. \A j : Past(frames, h, j) <=> \E k \in 1 .. n : Below(k, j)
  BY <1>1 DEF Past
<1> HIDE DEF n
<1>5. \A k : k \in 1 .. n <=> k \in 1 .. n - 1 \/ k = n
  BY <1>1
<1>6. /\ \A j \in Nat \ {0} : Past(gs, h, j) <=> \E k \in 1 .. n - 1 : Below(k, j)
      /\ Pending(h, gs) = IF \E k \in 1 .. n - 1 : frames[k].fn = h THEN 1 ELSE 0
  <2>1. CASE n = 1
    <3>1. gs = <<>> /\ DOMAIN gs = {} /\ 1 .. n - 1 = {}
      BY <2>1 DEF n
    <3> QED
      BY <3>1 DEF Past, Pending
  <2>2. CASE n # 1
    <3> DEFINE s == FrontOf(frames)
    <3>0. 1 .. n - 1 \subseteq 1 .. n /\ n - 1 \in 1 .. n - 1
      BY <1>1, <2>2
    <3>1. /\ s \in Seq(Frame) /\ Len(s) = n - 1 /\ DOMAIN s = 1 .. n - 1
          /\ \A k \in 1 .. n - 1 : s[k] = frames[k]
      BY <1>2, TopOfStack DEF n
    <3>2. s # <<>> /\ Last(s) = frames[n - 1]
      <4>1. s # <<>>
        BY <3>0, <3>1
      <4> QED
        BY <3>0, <3>1, <4>1, TopOfStack
    <3>3. gs = Advance(s)
      BY <2>2 DEF n
    <3> HIDE DEF s
    <3>4. ASSUME NEW j \in Nat \ {0}
          PROVE  Past(gs, h, j) <=> \E k \in 1 .. n - 1 : Below(k, j)
      <4>1. Past(gs, h, j) <=>
              Past(s, h, j) \/ (h = frames[n - 1].fn /\ j = frames[n - 1].at)
        BY <3>1, <3>2, <3>3, AdvancePast
      <4>2. Past(s, h, j) <=>
              \E k \in 1 .. n - 1 : frames[k].fn = h
                 /\ (j < frames[k].at \/ (j = frames[k].at /\ k < n - 1))
        BY <3>1 DEF Past
      <4>3. ASSUME NEW k \in 1 .. n - 1 PROVE k < n /\ (k < n - 1 \/ k = n - 1)
        BY <1>3
      <4>4. n - 1 < n
        BY <1>3
      <4> QED
        BY <3>0, <4>1, <4>2, <4>3, <4>4
    <3>5. Pending(h, gs) = Pending(h, s)
      <4>1. 1 \in Nat \ {0}
        OBVIOUS
      <4> QED
        BY <3>1, <3>2, <3>3, <4>1, AdvancePast
    <3> QED
      BY <3>1, <3>4, <3>5 DEF Pending
  <2> QED
    BY <2>1, <2>2
<1>7. ASSUME h # Top.fn
      PROVE  \A k \in 1 .. n : frames[k].fn = h => k \in 1 .. n - 1
  BY <1>1, <1>5, <1>7
<1>8. ASSUME h = Top.fn
      PROVE  \A k \in 1 .. n - 1 : frames[k].fn # h
  <2>1. \A k \in 1 .. n - 1 : k \in 1 .. n /\ k # n
    BY <1>3
  <2> QED
    BY <1>1, <1>8, <2>1
<1>9. ASSUME NEW j \in Nat \ {0}
      PROVE  /\ h # Top.fn => (Past(gs, h, j) <=> Past(frames, h, j))
             /\ h = Top.fn => ~Past(gs, h, j)
  <2>1. ASSUME h # Top.fn PROVE Past(gs, h, j) <=> Past(frames, h, j)
    BY <1>4, <1>5, <1>6, <1>7, <2>1
  <2> QED
    BY <1>6, <1>8, <2>1
<1>10. h # Top.fn => Pending(h, gs) = Pending(h, frames)
  <2>1. ASSUME h # Top.fn
        PROVE  (\E k \in 1 .. n - 1 : frames[k].fn = h) <=> (\E k \in 1 .. n : frames[k].fn = h)
    BY <1>5, <1>7, <2>1
  <2> QED
    BY <1>1, <1>6, <2>1 DEF Pending
<1>11. h = Top.fn => Pending(h, gs) = 0 /\ Pending(h, frames) = 1
  BY <1>1, <1>6, <1>8 DEF Pending
<1> QED
  BY <1>9, <1>10, <1>11

(* The uses are counted by the functions of the project and the roots.     *)
LEMMA CountedNext ==
  ASSUME UNCHANGED <<project, roots>>,
         \A f \in Fns : UsesCounted(f, runs', root', frames')
  PROVE  UsesSoFar'
<1>1. \A g, f : PlacesOf(g, f)' = PlacesOf(g, f)
  BY DEF PlacesOf, Params, Registered, RegistryOf
<1>2. ASSUME NEW f \in Fns PROVE UsesCounted(f, runs, root, frames)'
  <2>1. UsedIn(f, runs, frames)' = UsedIn(f, runs', frames')
    BY <1>1 DEF UsedIn, Past
  <2>2. CalledRoots(f, root, frames)' = CalledRoots(f, root', frames')
    BY DEF CalledRoots, RootUses
  <2>3. Pending(f, frames)' = Pending(f, frames')
    BY DEF Pending
  <2>4. project' = project /\ UsesCounted(f, runs', root', frames')
    OBVIOUS
  <2> QED
    BY <2>1, <2>2, <2>3, <2>4 DEF UsesCounted
<1> QED
  BY <1>2 DEF UsesSoFar

LEMMA RootsFinite ==
  ASSUME ResolutionTypeOK, NEW f, NEW rt, NEW fs
  PROVE  /\ IsFiniteSet(CalledRoots(f, rt, fs)) /\ Cardinality(CalledRoots(f, rt, fs)) \in Nat
         /\ \A i \in CalledRoots(f, rt, fs) : i \in Nat
<1>1. DOMAIN roots = 1 .. Len(roots) /\ Len(roots) \in Nat
  BY LenProperties DEF ResolutionTypeOK
<1>2. IsFiniteSet(1 .. Len(roots))
  BY <1>1, FS_Interval
<1>3. CalledRoots(f, rt, fs) \subseteq 1 .. Len(roots)
  BY <1>1 DEF CalledRoots, RootUses
<1> QED
  BY <1>1, <1>2, <1>3, FS_Subset, FS_CardinalityType

(* A count that stays, and one that grows by a use that is found.          *)
LEMMA CountStays ==
  ASSUME ResolutionTypeOK, NEW f \in Fns, NEW rs, NEW rt, NEW fs, UsesCounted(f, rs, rt, fs),
         NEW qs, NEW qt, NEW gs,
         UsedIn(f, qs, gs) = UsedIn(f, rs, fs), CalledRoots(f, qt, gs) = CalledRoots(f, rt, fs),
         qs[f] + Pending(f, gs) = rs[f] + Pending(f, fs)
  PROVE  UsesCounted(f, qs, qt, gs)
BY DEF UsesCounted

LEMMA OneMorePlace ==
  ASSUME ResolutionTypeOK, NEW f \in Fns, NEW rs \in [Fns -> Nat], NEW rt, NEW fs, NEW gs, NEW use,
         UsesCounted(f, rs, rt, fs), use \notin UsedIn(f, rs, fs),
         UsedIn(f, rs, gs) = UsedIn(f, rs, fs) \cup {use},
         CalledRoots(f, rt, gs) = CalledRoots(f, rt, fs),
         project.kind[f] = "target" => rs[f] + Pending(f, gs) > 0,
         project.kind[f] # "target" => Pending(f, gs) = Pending(f, fs) + 1
  PROVE  UsesCounted(f, rs, rt, gs)
<1> DEFINE old == UsedIn(f, rs, fs)
           new == UsedIn(f, rs, gs)
           rooted == CalledRoots(f, rt, fs)
<1>1. IsFiniteSet(old) /\ new = old \cup {use} /\ use \notin old
  BY DEF UsesCounted
<1>2. Cardinality(rooted) \in Nat
  BY RootsFinite
<1>3. project.kind[f] # "target" =>
        rs[f] + Pending(f, fs) = Cardinality(rooted) + Cardinality(old)
  BY DEF UsesCounted
<1>4. rs[f] \in Nat /\ Pending(f, fs) \in Nat
  BY DEF Pending
<1> HIDE DEF old, new, rooted
<1>5. Cardinality(old) \in Nat
  BY <1>1, FS_CardinalityType
<1>6. IsFiniteSet(new) /\ Cardinality(new) = Cardinality(old) + 1 /\ new # {}
  BY <1>1, FS_AddElement
<1>7. project.kind[f] # "target" =>
        rs[f] + Pending(f, gs) = Cardinality(rooted) + Cardinality(new)
  BY <1>2, <1>3, <1>4, <1>5, <1>6
<1> QED
  BY <1>6, <1>7 DEF UsesCounted, old, new, rooted

LEMMA PushCounts ==
  ASSUME RunInv, UsesSoFar, NEW f \in Fns, Pushes(f)
  PROVE  UsesSoFar'
<1>0. /\ StackInv /\ ResolutionTypeOK /\ runs \in [Fns -> Nat] /\ RootsAreNoTargets
      /\ UNCHANGED <<project, roots, root, runs, error>> /\ error = "none"
      /\ frames' # <<>>
  BY Pushed DEF RunInv, StackInv, ResolutionTypeOK, Pushes
<1>1. SUFFICES ASSUME stage' = "render", NEW h \in Fns
               PROVE  UsesCounted(h, runs, root, frames')
  <2>1. CASE stage' = "render"
    BY <1>0, <1>1, <2>1, CountedNext
  <2>2. CASE stage' # "render"
    BY <2>2 DEF UsesSoFar
  <2> QED
    BY <2>1, <2>2
<1>2. stage = "render" /\ UsesCounted(h, runs, root, frames)
  BY <1>0, <1>1 DEF Pushes, UsesSoFar
<1>3. /\ Pending(f, frames) = 0
      /\ Pending(h, frames') = IF h = f THEN 1 ELSE Pending(h, frames)
  BY <1>0, PushPast
<1>4. runs[h] \in Nat /\ Pending(h, frames) \in Nat
  BY <1>0 DEF Pending
<1>5. CASE frames = <<>>
  <2>1. root \in DOMAIN roots /\ f = roots[root] /\ project.kind[f] # "target"
    BY <1>0, <1>2, <1>5 DEF Pushes, RootsAreNoTargets
  <2>2. UsedIn(h, runs, frames') = UsedIn(h, runs, frames)
    <3>1. \A g \in Fns : \A i \in PlacesOf(g, h) : Past(frames', g, i) <=> Past(frames, g, i)
      BY <1>0, <1>5, PushPast, PlacesAreParams
    <3> QED
      BY <3>1, SameUses
  <2>3. CASE h # f
    <3>1. root \notin RootUses(h)
      BY <2>1, <2>3 DEF RootUses
    <3>2. CalledRoots(h, root, frames') = CalledRoots(h, root, frames)
      BY <3>1 DEF CalledRoots
    <3>3. Pending(h, frames') = Pending(h, frames)
      BY <1>3, <2>3
    <3> QED
      BY <1>0, <1>2, <2>2, <3>2, <3>3, CountStays
  <2>4. CASE h = f
    <3> DEFINE old == CalledRoots(f, root, frames)
               new == CalledRoots(f, root, frames')
    <3>1. root \in Nat /\ \A i \in RootUses(f) : i \in Nat
      <4>1. DOMAIN roots = 1 .. Len(roots)
        BY <1>0, LenProperties DEF ResolutionTypeOK
      <4> QED
        BY <2>1, <4>1 DEF RootUses
    <3>2. new = old \cup {root} /\ root \notin old
      BY <1>0, <1>5, <2>1, <3>1 DEF CalledRoots, RootUses
    <3>3. IsFiniteSet(old) /\ Cardinality(old) \in Nat
      BY <1>0, RootsFinite
    <3>4. runs[f] + Pending(f, frames) = Cardinality(old) + Cardinality(UsedIn(f, runs, frames))
      BY <1>2, <2>1, <2>4 DEF UsesCounted
    <3>5. IsFiniteSet(UsedIn(f, runs, frames)) /\ Cardinality(UsedIn(f, runs, frames)) \in Nat
      BY <1>2, <2>4, FS_CardinalityType DEF UsesCounted
    <3>6. Pending(f, frames') = 1
      BY <1>3, <2>4
    <3> HIDE DEF old, new
    <3>7. Cardinality(new) = Cardinality(old) + 1
      BY <3>2, <3>3, FS_AddElement
    <3>8. runs[f] + Pending(f, frames') = Cardinality(new) + Cardinality(UsedIn(f, runs, frames))
      BY <1>3, <1>4, <2>4, <3>3, <3>4, <3>5, <3>6, <3>7
    <3> QED
      BY <2>1, <2>2, <2>4, <3>5, <3>8 DEF UsesCounted, new
  <2> QED
    BY <2>3, <2>4
<1>6. CASE frames # <<>>
  <2>1. /\ Top.fn \in Fns /\ Top.at \in DOMAIN Params(Top.fn) /\ Calls(CurrentParam, f)
    BY <1>0, <1>2, <1>6, TopIsOther DEF Pushes
  <2>2. Top.at \in PlacesOf(Top.fn, f) /\ Top.at \in Nat \ {0}
    BY <1>0, <2>1, PlacesAreParams DEF CurrentParam
  <2>3. CalledRoots(h, root, frames') = CalledRoots(h, root, frames)
    BY <1>0, <1>6 DEF CalledRoots
  <2>4. \A g \in Fns : \A j \in PlacesOf(g, h) :
          Past(frames', g, j) <=> Past(frames, g, j) \/ (g = Top.fn /\ j = Top.at)
    BY <1>0, <1>6, PushPast, PlacesAreParams
  <2>5. CASE h # f
    <3>1. Top.at \notin PlacesOf(Top.fn, h)
      BY <1>0, <2>1, <2>2, <2>5, PlacesAreParams
    <3>2. UsedIn(h, runs, frames') = UsedIn(h, runs, frames)
      BY <2>4, <3>1, SameUses
    <3>3. Pending(h, frames') = Pending(h, frames)
      BY <1>3, <2>5
    <3> QED
      BY <1>0, <1>2, <2>3, <3>2, <3>3, CountStays
  <2>6. CASE h = f
    <3> DEFINE use == <<Top.fn, runs[Top.fn] + 1, Top.at>>
    <3>1. ~Past(frames, Top.fn, Top.at)
      BY <1>0, <1>6, <2>2, TopIsUnused
    <3>2. /\ UsedIn(f, runs, frames') = UsedIn(f, runs, frames) \cup {use}
          /\ use \notin UsedIn(f, runs, frames)
      <4> DEFINE fn == Top.fn
                 at == Top.at
      <4>1. \A g \in Fns : \A j \in PlacesOf(g, f) :
              Past(frames', g, j) <=> Past(frames, g, j) \/ (g = fn /\ j = at)
        BY <2>4, <2>6
      <4>2. fn \in Fns /\ at \in PlacesOf(fn, f) /\ ~Past(frames, fn, at)
        BY <2>1, <2>2, <3>1
      <4>3. use = <<fn, runs[fn] + 1, at>>
        OBVIOUS
      <4>4. runs \in [Fns -> Nat]
        BY <1>0
      <4> HIDE DEF fn, at, use
      <4>5. /\ UsedIn(f, runs, frames') = UsedIn(f, runs, frames) \cup {<<fn, runs[fn] + 1, at>>}
            /\ <<fn, runs[fn] + 1, at>> \notin UsedIn(f, runs, frames)
        BY <4>1, <4>2, <4>4, OneMoreUse
      <4> QED
        BY <4>3, <4>5
    <3> HIDE DEF use
    <3>3. Pending(f, frames') = Pending(f, frames) + 1 /\ runs[f] + Pending(f, frames') > 0
      BY <1>3, <1>4, <2>6
    <3> QED
      BY <1>0, <1>2, <2>3, <2>6, <3>2, <3>3, OneMorePlace
  <2> QED
    BY <2>5, <2>6
<1> QED
  BY <1>5, <1>6

LEMMA BindCounts ==
  ASSUME RunInv, SoundInv, UsesSoFar, BindAtOnce
  PROVE  UsesSoFar'
<1>0. /\ StackInv /\ ResolutionTypeOK /\ frames \in Seq(Frame) /\ frames # <<>>
      /\ frames' = Advance(frames) /\ frames' # <<>>
      /\ UNCHANGED <<project, stage, roots, root, memo, error, runs>>
      /\ Top.at <= Len(Params(Top.fn))
      /\ \/ CurrentParam.marker = "value"
         \/ CurrentParam.marker # "value" /\ \E f \in Registered(CurrentParam) : IsMemoized(f)
  BY AdvancedStack DEF RunInv, StackInv, ResolutionTypeOK, BindAtOnce, Binding
<1>1. runs \in [Fns -> Nat]
  BY <1>0 DEF ResolutionTypeOK
<1>2. SUFFICES ASSUME stage = "render", error = "none", NEW h \in Fns
               PROVE  UsesCounted(h, runs, root, frames')
  <2>1. CASE stage = "render" /\ error = "none"
    BY <1>0, <1>2, <2>1, CountedNext
  <2>2. CASE ~(stage = "render" /\ error = "none")
    BY <1>0, <2>2 DEF UsesSoFar
  <2> QED
    BY <2>1, <2>2
<1>3. UsesCounted(h, runs, root, frames)
  BY <1>2 DEF UsesSoFar
<1> DEFINE fn == Top.fn
           at == Top.at
<1>4. fn \in Fns /\ at \in Nat \ {0} /\ Last(frames).fn = fn /\ Last(frames).at = at
  <2>1. Last(frames) \in Frame
    BY <1>0, TopOfStack
  <2> QED
    BY <2>1 DEF Frame, Top
<1>5. at \in DOMAIN Params(fn) /\ CurrentParam = Params(fn)[at]
  BY <1>0, <1>4, ProjectTyped DEF CurrentParam
<1>6. \A j \in Nat : Past(frames, fn, j) <=> j < at
  BY <1>0, TopIsUnused
<1> HIDE DEF fn, at
<1>7. /\ \A g \in Fns : \A j \in PlacesOf(g, h) :
           Past(frames', g, j) <=> Past(frames, g, j) \/ (g = fn /\ j = at)
      /\ Pending(h, frames') = Pending(h, frames)
  <2>1. \A g \in Fns : \A j \in PlacesOf(g, h) : j \in Nat \ {0}
    BY <1>0, PlacesAreParams
  <2>2. 1 \in Nat \ {0}
    OBVIOUS
  <2>3. Pending(h, frames') = Pending(h, frames)
    BY <1>0, <2>2, AdvancePast
  <2> QED
    BY <1>0, <1>4, <2>1, <2>3, AdvancePast
<1>8. CalledRoots(h, root, frames') = CalledRoots(h, root, frames)
  BY <1>0 DEF CalledRoots
<1>9. CASE at \notin PlacesOf(fn, h)
  <2>1. UsedIn(h, runs, frames') = UsedIn(h, runs, frames)
    BY <1>7, <1>9, SameUses
  <2> QED
    BY <1>0, <1>3, <1>7, <1>8, <2>1, CountStays
<1>10. CASE at \in PlacesOf(fn, h)
  <2> DEFINE use == <<fn, runs[fn] + 1, at>>
  <2>1. Calls(CurrentParam, h)
    BY <1>0, <1>4, <1>5, <1>10, PlacesAreParams
  <2>2. IsMemoized(h)
    BY <1>0, <2>1, RegisteredOnce DEF Calls
  <2>3. project.kind[h] = "target" /\ runs[h] > 0
    BY <1>2, <2>2 DEF IsMemoized, SoundInv, RanIsSound, Ran
  <2>4. ~Past(frames, fn, at)
    BY <1>4, <1>6
  <2>5. /\ UsedIn(h, runs, frames') = UsedIn(h, runs, frames) \cup {use}
        /\ use \notin UsedIn(h, runs, frames)
    BY <1>1, <1>4, <1>7, <1>10, <2>4, OneMoreUse
  <2>6. runs[h] + Pending(h, frames') > 0
    <3>1. runs[h] \in Nat /\ Pending(h, frames') \in {0, 1}
      BY <1>1 DEF Pending
    <3> QED
      BY <2>3, <3>1
  <2> HIDE DEF use
  <2> QED
    BY <1>0, <1>1, <1>3, <1>8, <2>3, <2>5, <2>6, OneMorePlace
<1> QED
  BY <1>9, <1>10

(* A return is no use: the run it counts was pending before.               *)
LEMMA ReturnCounts ==
  ASSUME RunInv, UsesSoFar, Return
  PROVE  UsesSoFar'
<1>0. /\ StackInv /\ ResolutionTypeOK /\ runs \in [Fns -> Nat] /\ root \in Nat
      /\ frames \in Seq(Frame) /\ frames # <<>>
      /\ UNCHANGED <<project, roots, error>>
      /\ Top.at > Len(Params(Top.fn)) /\ error = "none" /\ stage \in {"import", "render"}
  BY DEF RunInv, StackInv, ResolutionTypeOK, Return, Bound, Running
<1>1. \/ /\ Len(frames) = 1 /\ frames' = <<>>
         /\ \/ stage = "render" /\ root' = root + 1
            \/ stage # "render" /\ stage' = "idle"
      \/ Len(frames) # 1 /\ frames' = Advance(FrontOf(frames)) /\ UNCHANGED <<root, stage>>
  BY DEF Return
<1>2. SUFFICES ASSUME stage = "render", NEW h \in Fns
               PROVE  UsesCounted(h, runs', root', frames')
  <2>1. CASE stage = "render"
    BY <1>0, <1>2, <2>1, CountedNext
  <2>2. CASE stage # "render"
    BY <1>0, <1>1, <2>2 DEF UsesSoFar
  <2> QED
    BY <2>1, <2>2
<1>3. UsesCounted(h, runs, root, frames)
  BY <1>0, <1>2 DEF UsesSoFar
<1> DEFINE g == Top.fn
           gs == frames'
<1>4. g \in Fns /\ Top.at \in Nat /\ Len(Params(g)) \in Nat
  <2>1. Last(frames) \in Frame
    BY <1>0, TopOfStack
  <2> QED
    BY <1>0, <2>1, ProjectTyped DEF Frame, Top
<1>5. runs' = [runs EXCEPT ![g] = @ + 1]
  BY <1>2 DEF Return, CountRun
<1>6. \A k \in Fns :
        /\ \A j \in Nat \ {0} :
             /\ k # g => (Past(gs, k, j) <=> Past(frames, k, j))
             /\ k = g => ~Past(gs, k, j)
        /\ k # g => Pending(k, gs) = Pending(k, frames)
        /\ k = g => Pending(k, gs) = 0 /\ Pending(k, frames) = 1
  <2>1. \/ Len(frames) = 1 /\ gs = <<>>
        \/ Len(frames) # 1 /\ gs = Advance(FrontOf(frames))
    BY <1>1
  <2> HIDE DEF gs
  <2> QED
    BY <1>0, <2>1, PopPast
<1>7. \A i \in PlacesOf(g, h) : Past(frames, g, i)
  <2> SUFFICES ASSUME NEW i \in PlacesOf(g, h) PROVE Past(frames, g, i)
    OBVIOUS
  <2>1. i \in Nat /\ i \in DOMAIN Params(g)
    BY <1>0, <1>4, PlacesAreParams
  <2>2. DOMAIN Params(g) = 1 .. Len(Params(g))
    BY <1>0, <1>4, ProjectTyped
  <2>3. i < Top.at
    BY <1>0, <1>4, <2>1, <2>2
  <2> QED
    BY <1>0, <2>1, <2>3, TopIsUnused
<1>8. \A k \in Fns : \A i \in PlacesOf(k, h) : i \in Nat \ {0}
  BY <1>0, PlacesAreParams
<1> HIDE DEF g, gs
<1>9. UsedIn(h, runs', gs) = UsedIn(h, runs, frames)
  <2>1. \A i \in PlacesOf(g, h) : Past(frames, g, i) /\ ~Past(gs, g, i)
    BY <1>4, <1>6, <1>7, <1>8
  <2>2. \A k \in Fns : k # g => \A i \in PlacesOf(k, h) : Past(gs, k, i) <=> Past(frames, k, i)
    BY <1>6, <1>8
  <2> DEFINE qs == runs'
  <2>3. qs[g] = runs[g] + 1 /\ \A k \in Fns : k # g => qs[k] = runs[k]
    BY <1>0, <1>4, <1>5
  <2> HIDE DEF qs
  <2>4. UsedIn(h, qs, gs) = UsedIn(h, runs, frames)
    BY <1>0, <1>4, <2>1, <2>2, <2>3, EndedRunCounts
  <2> QED
    BY <2>4 DEF qs
<1>10. runs'[h] + Pending(h, gs) = runs[h] + Pending(h, frames)
  <2>1. CASE h = g
    BY <1>0, <1>5, <1>6, <2>1
  <2>2. CASE h # g
    BY <1>0, <1>5, <1>6, <2>2
  <2> QED
    BY <2>1, <2>2
<1>11. CalledRoots(h, root', gs) = CalledRoots(h, root, frames)
  <2>1. \A i \in RootUses(h) : i \in Nat
    <3>1. DOMAIN roots = 1 .. Len(roots)
      BY <1>0, LenProperties DEF ResolutionTypeOK
    <3> QED
      BY <3>1 DEF RootUses
  <2>2. CASE Len(frames) = 1
    <3>1. gs = <<>> /\ root' = root + 1
      BY <1>1, <1>2, <2>2 DEF gs
    <3>2. \A i \in Nat : i < root + 1 <=> i < root \/ i = root
      BY <1>0
    <3> QED
      BY <1>0, <2>1, <3>1, <3>2 DEF CalledRoots
  <2>3. CASE Len(frames) # 1
    <3>1. Len(frames) \in Nat /\ FrontOf(frames) \in Seq(Frame) /\ Len(FrontOf(frames)) = Len(frames) - 1
      BY <1>0, TopOfStack
    <3>2. FrontOf(frames) # <<>>
      BY <2>3, <3>1
    <3>3. gs # <<>> /\ root' = root
      BY <1>1, <2>3, <3>1, <3>2, AdvancedStack DEF gs
    <3> QED
      BY <1>0, <3>3 DEF CalledRoots
  <2> QED
    BY <2>2, <2>3
<1>12. UsesCounted(h, runs', root', gs)
  BY <1>0, <1>3, <1>9, <1>10, <1>11, CountStays
<1> QED
  BY <1>12 DEF gs

(* Where all roots are called and no call is in progress, the uses so far  *)
(* are all there are.                                                      *)
LEMMA AllAreUsed ==
  ASSUME ResolutionTypeOK, frames = <<>>, root > Len(roots), NEW f
  PROVE  CalledRoots(f, root, frames) = RootUses(f) /\ UsedIn(f, runs, frames) = RunUses(f)
<1>1. DOMAIN roots = 1 .. Len(roots) /\ Len(roots) \in Nat /\ root \in Nat
  BY LenProperties DEF ResolutionTypeOK
<1>2. \A i \in 1 .. Len(roots) : i < root
  BY <1>1
<1>3. CalledRoots(f, root, frames) = RootUses(f)
  BY <1>1, <1>2 DEF CalledRoots, RootUses
<1>4. \A g, i : ~Past(frames, g, i)
  BY DEF Past
<1>5. ASSUME NEW u PROVE u \in RunUses(f) <=> u \in UsedIn(f, runs, frames)
  <2>1. u \in RunUses(f) <=>
          \E g \in Fns : u \in {g} \X (1 .. runs[g]) \X PlacesOf(g, f)
    BY DEF RunUses
  <2>2. ASSUME NEW g \in Fns
        PROVE  u \in {g} \X (1 .. runs[g]) \X PlacesOf(g, f) <=>
                 /\ u = <<u[1], u[2], u[3]>> /\ u[1] = g
                 /\ u[2] \in 1 .. runs[g] /\ u[3] \in PlacesOf(g, f)
    OBVIOUS
  <2>3. ASSUME NEW g \in Fns, NEW k
        PROVE  k \in 1 .. runs[g] <=> k \in 1 .. runs[g] + 1 /\ k <= runs[g]
    <3>1. runs[g] \in Nat
      BY DEF ResolutionTypeOK
    <3> QED
      BY <3>1
  <2> QED
    BY <1>4, <2>1, <2>2, <2>3, UsedTriples
<1>6. UsedIn(f, runs, frames) = RunUses(f)
  BY <1>5
<1> QED
  BY <1>3, <1>6

LEMMA FinishCounts ==
  ASSUME RunInv, UsesSoFar, FinishRender
  PROVE  \A f \in Fns : RunsAreUses(f)
<1>0. /\ ResolutionTypeOK /\ runs \in [Fns -> Nat] /\ RootsAreNoTargets /\ RunIsMemoized
      /\ stage = "render" /\ error = "none" /\ frames = <<>> /\ root > Len(roots)
  BY DEF RunInv, StackInv, ResolutionTypeOK, FinishRender
<1> SUFFICES ASSUME NEW f \in Fns PROVE RunsAreUses(f)
  OBVIOUS
<1>1. /\ CalledRoots(f, root, frames) = RootUses(f) /\ UsedIn(f, runs, frames) = RunUses(f)
  BY <1>0, AllAreUsed
<1>2. UsesCounted(f, runs, root, frames)
  BY <1>0 DEF UsesSoFar
<1>3. Pending(f, frames) = 0
  BY <1>0 DEF Pending
<1>4. /\ runs[f] \in Nat /\ IsFiniteSet(RunUses(f)) /\ Cardinality(RunUses(f)) \in Nat
      /\ Cardinality(RootUses(f)) \in Nat
  BY <1>0, <1>1, <1>2, RootsFinite, FS_CardinalityType DEF UsesCounted
<1>5. CASE project.kind[f] = "target"
  <2>1. RootUses(f) = {}
    BY <1>0, <1>5 DEF RootUses, RootsAreNoTargets
  <2>2. Uses(f) = Cardinality(RunUses(f))
    BY <1>4, <2>1, FS_EmptySet DEF Uses
  <2>3. runs[f] \in {0, 1}
    BY <1>0, <1>5 DEF RunIsMemoized
  <2>4. runs[f] > 0 <=> RunUses(f) # {}
    BY <1>1, <1>2, <1>3, <1>4, <1>5 DEF UsesCounted
  <2>5. Uses(f) > 0 <=> RunUses(f) # {}
    <3>1. Cardinality(RunUses(f)) = 0 <=> RunUses(f) = {}
      BY <1>4, FS_EmptySet
    <3> QED
      BY <1>4, <2>2, <3>1
  <2>6. Uses(f) = 0 \/ Uses(f) > 0
    BY <1>4, <2>2
  <2> QED
    BY <1>5, <2>3, <2>4, <2>5, <2>6, <2>2, <1>4 DEF RunsAreUses
<1>6. CASE project.kind[f] # "target"
  <2>1. runs[f] + 0 = Cardinality(RootUses(f)) + Cardinality(RunUses(f))
    BY <1>1, <1>2, <1>3, <1>6 DEF UsesCounted
  <2>2. runs[f] = Uses(f)
    BY <1>4, <2>1 DEF Uses
  <2> QED
    BY <1>6, <2>2 DEF RunsAreUses
<1> QED
  BY <1>5, <1>6

(* A render starts with no use made.                                       *)
LEMMA StartCounts ==
  ASSUME StackInv, StartRender
  PROVE  UsesSoFar'
<1>1. /\ frames = <<>> /\ project' = project /\ frames' = frames
      /\ root' = 1 /\ runs' = [f \in Fns |-> 0] /\ roots' \in Seq(Fns)
  <2>1. \E k \in DOMAIN project.dumps : roots' = project.dumps[k]
    BY DEF StartRender
  <2>2. ResolutionTypeOK
    BY DEF StackInv
  <2> QED
    BY <2>1, <2>2, DumpedAreNoTargets DEF StartRender, StackInv, IdleIsClean
<1>2. DOMAIN roots' = 1 .. Len(roots')
  BY <1>1, LenProperties
<1>3. \A i \in DOMAIN roots' : ~(i < 1)
  BY <1>2
<1>4. ASSUME NEW f \in Fns PROVE UsesCounted(f, runs, root, frames)'
  <2>1. CalledRoots(f, root, frames)' = {}
    BY <1>1, <1>3 DEF CalledRoots, RootUses
  <2>2. UsedIn(f, runs, frames)' = {}
    <3>1. \A g, i : ~Past(frames', g, i)
      BY <1>1 DEF Past
    <3>2. ASSUME NEW g \in Fns, NEW k \in 1 .. runs'[g] + 1 PROVE ~(k <= runs'[g])
      <4>1. runs'[g] = 0
        BY <1>1
      <4> QED
        BY <3>2, <4>1
    <3>3. ASSUME NEW u, u \in UsedIn(f, runs, frames)' PROVE FALSE
      <4>1. PICK g \in Fns : /\ u \in {g} \X (1 .. runs'[g] + 1) \X PlacesOf(g, f)'
                             /\ u[2] <= runs'[g] \/ Past(frames', g, u[3])
        BY <3>3 DEF UsedIn, Past
      <4>2. u[2] \in 1 .. runs'[g] + 1
        BY <4>1
      <4> QED
        BY <3>1, <3>2, <4>1, <4>2
    <3> QED
      BY <3>3
  <2>3. Pending(f, frames)' = 0 /\ runs'[f] = 0
    BY <1>1 DEF Pending
  <2> QED
    BY <2>1, <2>2, <2>3, FS_EmptySet DEF UsesCounted
<1> QED
  BY <1>4 DEF UsesSoFar

LEMMA InitUses == Init => UsesInv
<1> SUFFICES ASSUME Init PROVE UsesInv
  OBVIOUS
<1>1. stage = "idle" /\ outcome = "none"
  BY DEF Init
<1> QED
  BY <1>1, InitRun, InitSound DEF UsesInv, UsesSoFar, UsesInTheEnd

LEMMA UsesKeeps == UsesInv /\ [Next]_vars => UsesInv'
<1> SUFFICES ASSUME UsesInv, [Next]_vars PROVE UsesInv'
  OBVIOUS
<1>0. /\ RunInv /\ SoundInv /\ UsesSoFar /\ UsesInTheEnd /\ StackInv /\ ResolutionTypeOK
      /\ RunInv' /\ SoundInv'
  BY RunKeeps, SoundKeeps DEF UsesInv, RunInv, StackInv
<1>1. UsesSoFar'
  <2>1. CASE (\E f \in Fns : ImportCall(f)) \/ CallRoot \/ BindCall
    BY <1>0, <2>1, CallsPush, PushCounts
  <2>2. CASE BindAtOnce
    BY <1>0, <2>2, BindCounts
  <2>3. CASE Return
    BY <1>0, <2>3, ReturnCounts
  <2>4. CASE StartRender
    BY <1>0, <2>4, StartCounts
  <2>5. CASE BindUnknown \/ BindCycle \/ BodyRaises \/ Unwind
    BY <2>5 DEF BindUnknown, BindCycle, BodyRaises, Unwind, UsesSoFar
  <2>6. CASE Abort \/ FinishRender
    BY <2>6 DEF Abort, FinishRender, UsesSoFar
  <2>7. CASE UNCHANGED vars
    <3>1. UNCHANGED <<project, roots, root, stage, error, runs, frames>>
      BY <2>7 DEF vars
    <3>2. CASE stage = "render" /\ error = "none"
      <4>1. \A f \in Fns : UsesCounted(f, runs', root', frames')
        BY <1>0, <3>1, <3>2 DEF UsesSoFar
      <4> QED
        BY <3>1, <4>1, CountedNext
    <3>3. CASE ~(stage = "render" /\ error = "none")
      BY <3>1, <3>3 DEF UsesSoFar
    <3> QED
      BY <3>2, <3>3
  <2> QED
    BY <2>1, <2>2, <2>3, <2>4, <2>5, <2>6, <2>7 DEF Next, Step, Ended
<1>2. UsesInTheEnd'
  <2> SUFFICES ASSUME stage' # "render", outcome' = "rendered"
               PROVE  \A f \in Fns : RunsAreUses(f)'
    BY DEF UsesInTheEnd
  <2>1. UNCHANGED <<project, roots, runs>> => \A f \in Fns : RunsAreUses(f)' <=> RunsAreUses(f)
    BY DEF RunsAreUses, Uses, RootUses, RunUses, PlacesOf, Params, Registered, RegistryOf
  <2>2. CASE FinishRender
    <3>1. UNCHANGED <<project, roots, runs>>
      BY <2>2 DEF FinishRender
    <3> QED
      BY <1>0, <2>1, <2>2, <3>1, FinishCounts
  <2>3. CASE ~FinishRender
    <3>1. stage # "render" /\ outcome = "rendered" /\ UNCHANGED <<project, roots, runs>>
      <4>1. CASE Return
        <5>1. CountRun(Top.fn) /\ UNCHANGED <<project, roots, outcome>>
          BY <4>1 DEF Return
        <5>2. stage # "render"
          BY <4>1 DEF Return
        <5> QED
          BY <5>1, <5>2 DEF CountRun
      <4>2. CASE BodyRaises
        BY <4>2 DEF BodyRaises, CountRun
      <4>3. CASE Abort
        BY <4>3, <1>0 DEF Abort, ResolutionTypeOK
      <4>4. CASE StartRender
        BY <4>4 DEF StartRender
      <4>5. CASE \E f \in Fns : ImportCall(f)
        BY <4>5 DEF ImportCall
      <4>6. CASE CallRoot \/ BindAtOnce \/ BindUnknown \/ BindCycle \/ BindCall \/ Unwind
                  \/ UNCHANGED vars
        BY <4>6 DEF CallRoot, BindAtOnce, BindUnknown, BindCycle, BindCall, Unwind, vars
      <4> QED
        BY <2>3, <4>1, <4>2, <4>3, <4>4, <4>5, <4>6 DEF Next, Step, Ended
    <3> QED
      BY <1>0, <2>1, <3>1 DEF UsesInTheEnd
  <2> QED
    BY <2>2, <2>3
<1> QED
  BY <1>0, <1>1, <1>2 DEF UsesInv

(***************************************************************************)
(* In a render that succeeds a target that is used has run once, and a     *)
(* pipeline or a deployment as often as it was used: as a root of the      *)
(* dump, or for a parameter of a function in each of its runs.             *)
(***************************************************************************)
THEOREM RunsAreCounted == Spec => []RunsMatchUses
<1>1. UsesInv => RunsMatchUses
  <2>1. RunInv => TargetsRunOnce
    BY DEF RunInv, RunIsMemoized, TargetsRunOnce
  <2> QED
    BY <2>1 DEF UsesInv, UsesInTheEnd, RunsAreUses, RunsMatchUses
<1> QED
  BY InitUses, UsesKeeps, <1>1, PTL DEF Spec
=============================================================================
