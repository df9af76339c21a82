------------------------------- MODULE DevDump -------------------------------
(***************************************************************************)
(* The registry dump of the local driver (harmont/dev): dump_registry_json *)
(* puts the deployments in the order of topo_order (DeployOrder), calls    *)
(* each of them and lowers what it returns to an entry.  A deployment that *)
(* is built from a Step carries the document of that Step's chain, whose   *)
(* cache keys (Keygen) the executor takes as image tags.                   *)
(*                                                                         *)
(* A deployment's function is called with the values of its upstreams,     *)
(* which calls those again; the calls themselves are TargetResolution.     *)
(* A function is taken to return the same at every call, so its result is  *)
(* chosen where the dump calls it.                                         *)
(***************************************************************************)
EXTENDS DeployOrder, Keygen

CONSTANTS
  Images,    \* published images
  Chains     \* the documents of from_ chains, in the order of the chain

ASSUME ChainsAreLinear ==
  \A c \in Chains : \A i \in DOMAIN c :
    c[i].builds_in = IF i = 1 THEN None ELSE c[i - 1].key

(***************************************************************************)
(* A chain is a list of dicts, whose policies are those of cache.py.       *)
(***************************************************************************)
ASSUME ChainsAreDicts ==
  \A c \in Chains :
    /\ c \in Seq(Range(c))
    /\ \A i \in Cached(c) : c[i].cache \in Policies

VARIABLES
  dump,      \* "order", "call", and at last "dumped" or a cause of failure
  entries,   \* the dict `deployments`, in its order
  checkout,  \* the files of the worktree
  tmp        \* the files of /tmp

dumpVars == <<dump, entries, checkout, tmp>>
devVars == <<vars, dumpVars>>

Opt(S) == S \cup {None}
Files == [Paths -> Opt(Contents)]

-----------------------------------------------------------------------------
(* _lower_from_step: the one pipeline, time and environment of every dump. *)
World(files) ==
  [pipeline |-> "hm-dev-build", now |-> 0, env |-> [k \in EnvKeys |-> None], files |-> files]

Keys(chain, files) ==
  LET key[i \in DOMAIN chain] ==
        IF i \notin Cached(chain) THEN None
        ELSE CacheKey(chain[i], IF i = 1 THEN [root |-> "scratch"] ELSE key[i - 1],
                             World(files))
  IN key

Unkeyable(chain, files) ==
  \E i \in Cached(chain) :
    \/ i > 1 /\ i - 1 \notin Cached(chain)
    \/ Unresolvable(chain[i].cache, World(files))

\* The arguments of hm.dev.deploy: `valid` is whether ports, env, volumes, cmd
\* and workdir pass their checks.
FactoryArgs == [image : Opt(Images), from_ : Opt(Chains), valid : BOOLEAN]
Refused(args) == (args.image = None) = (args.from_ = None) \/ ~args.valid

-----------------------------------------------------------------------------
DevInit ==
  /\ Init
  /\ dump = "order" /\ entries = <<>>
  /\ checkout = [p \in Paths |-> None] /\ tmp = [p \in Paths |-> None]

Order == dump = "order" /\ Step /\ UNCHANGED dumpVars

Fail(cause) == dump' = cause /\ UNCHANGED <<vars, entries, checkout, tmp>>

\* dep_graph evaluates every annotation; decoration tolerates one it cannot.
RaiseOnHints == dump = "order" /\ pc = "start" /\ registered > 0 /\ Fail("hints")

RaiseOnCycle == dump = "order" /\ pc = "raised" /\ Fail("cycle")

\* The files are chosen where the dump begins to look at them.
StartCalls ==
  /\ dump = "order" /\ pc = "sorted"
  /\ dump' = "call"
  /\ checkout' \in Files /\ tmp' \in Files
  /\ UNCHANGED <<vars, entries>>

Calling == dump = "call" /\ Len(entries) < Len(order)
Slug == order[Len(entries) + 1]

\* Mutant: an upstream nobody registered is passed over.
NoneUnknown == {}

\* Parameters are bound before the body runs.
UnknownUpstreams == upstreams[Slug] \ Slugs
BindUnknown == Calling /\ UnknownUpstreams # {} /\ Fail("unknown")
Called == Calling /\ UnknownUpstreams = {}

\* The body raises, or the decorator refuses what it returns.
CallRaises == Called /\ Fail("body")

\* The body calls the factory and that raises.
FactoryRaises(args) == Called /\ Refused(args) /\ Fail("body")

Returns(args) == Called /\ ~Refused(args)

RaiseInKeygen(args) ==
  Returns(args) /\ args.from_ # None /\ Unkeyable(args.from_, tmp) /\ Fail("keygen")

Enter(driver, image, chain, keys, deps) ==
  /\ entries' = Append(entries, [slug |-> Slug, driver |-> driver, image |-> image,
                                 chain |-> chain, keys |-> keys, deps |-> deps])
  /\ UNCHANGED <<vars, dump, checkout, tmp>>

EnterImage(args) ==
  /\ Returns(args) /\ args.from_ = None
  /\ Enter("local", args.image, <<>>, <<>>, upstreams[Slug])

EnterChain(args) ==
  /\ Returns(args) /\ args.from_ # None /\ ~Unkeyable(args.from_, tmp)
  /\ Enter("local", None, args.from_, Keys(args.from_, tmp), upstreams[Slug])

\* A deployment of another driver is passed through.
EnterUnhandled == Called /\ Enter("other", None, <<>>, <<>>, {})

FinishDump ==
  /\ dump = "call" /\ Len(entries) = Len(order)
  /\ dump' = "dumped"
  /\ UNCHANGED <<vars, entries, checkout, tmp>>

CallDeployment ==
  \/ BindUnknown \/ CallRaises \/ EnterUnhandled
  \/ \E args \in FactoryArgs :
       FactoryRaises(args) \/ RaiseInKeygen(args) \/ EnterImage(args) \/ EnterChain(args)

DumpStep == Order \/ RaiseOnHints \/ RaiseOnCycle \/ StartCalls \/ CallDeployment \/ FinishDump

Failures == {"hints", "cycle", "unknown", "body", "keygen"}
DumpEnded == dump \in Failures \cup {"dumped"} /\ UNCHANGED devVars

DevNext == DumpStep \/ DumpEnded

\* One thread; the bodies of the user's functions return or raise.
DevSpec == DevInit /\ [][DevNext]_devVars /\ WF_devVars(DumpStep)

-----------------------------------------------------------------------------
(***************************************************************************)
(* The consumer starts containers from the top of the dump: whatever an    *)
(* entry depends on stands above it, and in a dump that ends well every    *)
(* deployment stands once.                                                 *)
(***************************************************************************)
DepsDumpedFirst ==
  /\ \A i \in DOMAIN entries : \A u \in entries[i].deps :
       \E j \in 1 .. i - 1 : entries[j].slug = u
  /\ dump = "dumped" => \A s \in Slugs : \E i \in DOMAIN entries :
       \A j \in DOMAIN entries : entries[j].slug = s <=> j = i

(***************************************************************************)
(* All deployments share one pipeline name, so a terminal key is all that  *)
(* tells their images apart ("so the Rust executor can use the terminal    *)
(* key as the build-image tag", _registry_dump.py:10-12): where two of     *)
(* them are equal, the chains have the same keys, the same policies and,   *)
(* where the policy looks at it, the same commands.                        *)
(***************************************************************************)
Tagged == {i \in DOMAIN entries : entries[i].chain # <<>>
                                    /\ Cached(entries[i].chain) = DOMAIN entries[i].chain}
Tag(i) == entries[i].keys[Len(entries[i].keys)]

EqualTagsEqualChains ==
  \A i, j \in Tagged :
    Tag(i) = Tag(j) =>
      LET a == entries[i].chain  b == entries[j].chain IN
      /\ Len(a) = Len(b)
      /\ \A n \in DOMAIN a :
           /\ a[n].key = b[n].key
           /\ a[n].cache.policy = "forever" => a[n].cmd = b[n].cmd
           /\ a[n].cache.policy = b[n].cache.policy

(***************************************************************************)
(* Every dump comes to an end.                                             *)
(***************************************************************************)
DumpEnds == <>(dump \in Failures \cup {"dumped"})

(***************************************************************************)
(* "File hashes are computed at render time by harmont.keygen (paths are   *)
(* read from the source archive's checkout root)" (cache.py:57-59): a    *)
(* deployment whose chain watches files of the worktree is keyed over      *)
(* their content there.                                                    *)
(***************************************************************************)
WatchesTheWorktree ==
  \A i \in DOMAIN entries :
    ~Unkeyable(entries[i].chain, checkout) =>
      entries[i].keys = Keys(entries[i].chain, checkout)
=============================================================================
