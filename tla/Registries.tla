------------------------------ MODULE Registries ------------------------------
(***************************************************************************)
(* How the registries fill: the files of .harmont are imported in the      *)
(* order of their names (dev/__main__.py), and @hm.pipeline, @hm.target    *)
(* and @hm.deploy enter what they decorate into REGISTRATIONS,             *)
(* _TARGETS_BY_NAME and DEPLOYMENTS.  The first statement that raises ends *)
(* the import and leaves what was entered before it.                       *)
(*                                                                         *)
(* The registries belong to the process.  A failed import is tried again   *)
(* in a new process, or in the same one, with or without the clear_        *)
(* helpers, after an edit of the project.  The helpers empty the memo and  *)
(* the stack of names too; those are TargetResolution's.                   *)
(***************************************************************************)
EXTENDS Naturals, SequencesExt

CONSTANTS
  None,
  Statements,     \* the statements of user files that matter here
  Files,          \* file names, as numbers in their order
  Projects,       \* the contents of .harmont: from Files to tuples of Statements
  PipelineSlugs,  \* the names _decorator._SLUG_RE matches
  DeploySlugs,    \* the names _deploy._SLUG_RE matches
  PrTypes,        \* the pull_request actions there are
  Crons,          \* the expressions croniter accepts
  MaxImports      \* bound on the number of imports

ASSUME FilesAreOrdered == Files \subseteq Nat /\ IsFiniteSet(Files)
ASSUME ProjectsType == \A p \in Projects : DOMAIN p = Files /\ \A f \in Files : p[f] \in Seq(Statements)
\* Both match [a-z][a-z0-9-]*; a deployment has 31 characters, a pipeline 64.
ASSUME SlugLengths == DeploySlugs \subseteq PipelineSlugs

VARIABLES
  project,   \* the files of .harmont
  registry,  \* the three registries: kind -> entries in their order
  phase,     \* "idle", "import", "imported", "failed"
  files,     \* the files of this import, in order
  line,      \* <<index into files, index of the next statement in the file>>
  before,    \* the registries when the import began
  imports,   \* the number of imports so far
  dump       \* what was dumped last, None until then

vars == <<project, registry, phase, files, line, before, imports, dump>>

Kinds == {"pipeline", "target", "deploy"}
EmptyRegistry == [kind \in Kinds |-> <<>>]
NamesIn(entries) == {entries[i].name : i \in DOMAIN entries}

-----------------------------------------------------------------------------
(* What a statement raises on.  A decorator's arguments are evaluated      *)
(* first, and the checks of the function come before those of the name.    *)

TriggerRefused(t) ==
  \/ t.event = "push" /\ (t.branch = None) = (t.tag = None)
  \/ t.event = "pull_request" /\ (t.types = {} \/ ~(t.types \subseteq PrTypes))
  \/ t.event = "schedule" /\ t.cron \notin Crons

\* Every parameter is a plain one and has a marker or a default.
SignatureRefused(params) ==
  \E i \in DOMAIN params : params[i] \in {"args", "kwargs", "positional_only", "unmarked"}

SlugRefused(s) ==
  \/ s.kind = "pipeline" /\ s.name \notin PipelineSlugs
  \/ s.kind = "deploy" /\ s.name \notin DeploySlugs

Malformed(s) ==
  \/ \E i \in DOMAIN s.triggers : TriggerRefused(s.triggers[i])
  \/ SignatureRefused(s.params)
  \/ SlugRefused(s)

\* hm.pipeline called with Steps only is the factory; anything else is the
\* decorator, which takes one positional argument.
CallRefused(args) == Len(args) > 1 /\ \E i \in DOMAIN args : args[i] # "step"

-----------------------------------------------------------------------------
Init ==
  /\ project \in Projects
  /\ registry = EmptyRegistry /\ before = EmptyRegistry
  /\ phase = "idle" /\ files = <<>> /\ line = <<1, 1>>
  /\ imports = 0 /\ dump = None

\* Mutant: in the order of the directory.
ListedOrders == SetToSeqs(Files)

InOrder(o) == Range(o) = Files /\ \A i, j \in DOMAIN o : i < j => o[i] < o[j]
ImportOrders == {o \in [1 .. Cardinality(Files) -> Files] : InOrder(o)}

StartImport ==
  /\ phase = "idle" /\ imports < MaxImports
  /\ phase' = "import" /\ imports' = imports + 1
  /\ files' \in ImportOrders /\ line' = <<1, 1>>
  /\ before' = registry
  /\ UNCHANGED <<project, registry, dump>>

InFile == phase = "import" /\ line[1] <= Len(files) /\ line[2] <= Len(project[files[line[1]]])
Statement == project[files[line[1]]][line[2]]

Proceed(r) ==
  /\ registry' = r
  /\ line' = <<line[1], line[2] + 1>>
  /\ UNCHANGED <<project, phase, files, before, imports, dump>>

Raise == phase' = "failed" /\ UNCHANGED <<project, registry, files, line, before, imports, dump>>

Decorating == InFile /\ Statement.kind \in Kinds

\* Each execution of a def makes a new function.
Function == [import |-> imports, file |-> files[line[1]], at |-> line[2]]

\* Mutant: the three registries are one namespace.
TakenAnywhere(kind, name) == \E k \in Kinds : name \in NamesIn(registry[k])

Taken(kind, name) == name \in NamesIn(registry[kind])

Entered(kind, name) ==
  [registry EXCEPT ![kind] = Append(@, [name |-> name, fn |-> Function])]

\* Mutant: the function is entered before it is checked.
RefuseEntered ==
  /\ Decorating
  /\ Malformed(Statement) \/ Taken(Statement.kind, Statement.name)
  /\ phase' = "failed" /\ registry' = Entered(Statement.kind, Statement.name)
  /\ UNCHANGED <<project, files, line, before, imports, dump>>

RefuseDecoration ==
  /\ Decorating
  /\ Malformed(Statement) \/ Taken(Statement.kind, Statement.name)
  /\ Raise

\* Mutant: the dict entry is assigned whether or not it is there.
AssignAnyway ==
  /\ Decorating /\ ~Malformed(Statement)
  /\ LET others == SelectSeq(registry[Statement.kind], LAMBDA e : e.name # Statement.name) IN
     Proceed([registry EXCEPT ![Statement.kind] =
                Append(others, [name |-> Statement.name, fn |-> Function])])

Decorate ==
  /\ Decorating
  /\ ~Malformed(Statement) /\ ~Taken(Statement.kind, Statement.name)
  /\ Proceed(Entered(Statement.kind, Statement.name))

CallPipeline == InFile /\ Statement.kind = "call" /\ ~CallRefused(Statement.args) /\ Proceed(registry)

RefuseCall == InFile /\ Statement.kind = "call" /\ CallRefused(Statement.args) /\ Raise

OtherRaises == InFile /\ Statement.kind = "raise" /\ Raise

NextFile ==
  /\ phase = "import" /\ line[1] <= Len(files) /\ line[2] > Len(project[files[line[1]]])
  /\ line' = <<line[1] + 1, 1>>
  /\ UNCHANGED <<project, registry, phase, files, before, imports, dump>>

FinishImport ==
  /\ phase = "import" /\ line[1] > Len(files)
  /\ phase' = "imported"
  /\ UNCHANGED <<project, registry, files, line, before, imports, dump>>

\* What the envelope and the registry dump walk over; they are rendered by
\* TargetResolution and DevDump.
Dump ==
  /\ phase = "imported" /\ dump = None
  /\ dump' = registry
  /\ UNCHANGED <<project, registry, phase, files, line, before, imports>>

Between == phase \in {"failed", "imported"} /\ imports < MaxImports

Ready(r) ==
  /\ Between
  /\ registry' = r
  /\ phase' = "idle" /\ files' = <<>> /\ line' = <<1, 1>> /\ dump' = None
  /\ before' = EmptyRegistry
  /\ \/ project' = project
     \/ \E f \in Files, s \in Statements : \E i \in DOMAIN project[f] :
          project' = [project EXCEPT ![f][i] = s]
  /\ UNCHANGED imports

NewProcess == Ready(EmptyRegistry)

\* In the same process: what the caller clears is gone, the rest is still there.
\* No helper clears DEPLOYMENTS.
TryAgain ==
  \E cleared \in SUBSET {"pipeline", "target"} :
    Ready([kind \in Kinds |-> IF kind \in cleared THEN <<>> ELSE registry[kind]])

Ended == phase \in {"failed", "imported"} /\ imports = MaxImports /\ UNCHANGED vars

Next == StartImport \/ RefuseDecoration \/ Decorate \/ CallPipeline \/ RefuseCall \/ OtherRaises
          \/ NextFile \/ FinishImport \/ Dump \/ NewProcess \/ TryAgain \/ Ended

Spec == Init /\ [][Next]_vars

-----------------------------------------------------------------------------
(***************************************************************************)
(* The statements of the project, in the order of the files.               *)
(***************************************************************************)
Source ==
  LET order == CHOOSE o \in [1 .. Cardinality(Files) -> Files] : InOrder(o) IN
  FlattenSeq([i \in DOMAIN order |-> project[order[i]]])

\* What a run of statements enters for a kind.
Declares(statements, kind) ==
  LET names[n \in 0 .. Len(statements)] ==
        IF n = 0 THEN <<>>
        ELSE IF statements[n].kind = kind THEN Append(names[n - 1], statements[n].name)
        ELSE names[n - 1]
  IN names[Len(statements)]

Names(entries) == [i \in DOMAIN entries |-> entries[i].name]

(***************************************************************************)
(* No name has two entries, and where an import stands, failed or not, the *)
(* registries hold what they held before and what the statements in front  *)
(* declare: nothing of the statement that raised.                          *)
(***************************************************************************)
Executed ==
  IF files = <<>> THEN <<>>
  ELSE FlattenSeq([i \in 1 .. line[1] - 1 |-> project[files[i]]])
         \o (IF line[1] > Len(files) THEN <<>> ELSE SubSeq(project[files[line[1]]], 1, line[2] - 1))

RegistriesMirrorImport ==
  phase # "idle" =>
    \A kind \in Kinds :
      /\ Names(registry[kind]) = Names(before[kind]) \o Declares(Executed, kind)
      /\ IsInjective(Names(registry[kind]))

(***************************************************************************)
(* A name keeps the function it was first given to: a registry is extended *)
(* or emptied as a whole, and nothing in it is replaced.                   *)
(***************************************************************************)
NothingIsReplaced ==
  [][\A kind \in Kinds : registry'[kind] = <<>> \/ IsPrefix(registry[kind], registry'[kind])]_vars

(***************************************************************************)
(* A dump from a new process is the whole project, in the order of its     *)
(* files, or there is none: no file that failed is left out of it          *)
(* (dev/__main__.py:28-29), and the order of the directory does not show.  *)
(***************************************************************************)
DumpIsTheProject ==
  dump # None /\ before = EmptyRegistry =>
    \A kind \in Kinds : Names(dump[kind]) = Declares(Source, kind)

(***************************************************************************)
(* An import that starts from empty registries succeeds on a project where *)
(* every statement is well formed and no kind declares a name twice: a     *)
(* pipeline, a target and a deployment may share one, and it does not      *)
(* matter which of them comes first.  Where names are left from an earlier *)
(* import, it succeeds only on a project that declares none of them.       *)
(***************************************************************************)
Sound(s) ==
  CASE s.kind = "raise" -> FALSE
    [] s.kind = "call" -> ~CallRefused(s.args)
    [] OTHER -> ~Malformed(s)

ImportSucceedsIffSound ==
  phase \in {"imported", "failed"} =>
    (phase = "imported" <=>
       /\ \A i \in DOMAIN Source : Sound(Source[i])
       /\ \A kind \in Kinds : IsInjective(Names(before[kind]) \o Declares(Source, kind)))
=============================================================================
