-------------------------------- MODULE Keygen --------------------------------
(***************************************************************************)
(* The functions of harmont/keygen.py: what _resolve_policy makes of a     *)
(* policy, and the key of a step over it.  A SHA-256 digest is its         *)
(* pre-image.                                                              *)
(*                                                                         *)
(* A path holds a file, a sequence of bytes, or a directory, a function    *)
(* from the relative paths of the files below it, one byte each, to their  *)
(* bytes.                                                                  *)
(***************************************************************************)
EXTENDS Naturals, SequencesExt

CONSTANTS
  None,        \* Python's None, also an unset variable and a missing path
  Empty,       \* the empty string
  Policies,    \* the policies of a document, sub-policies included
  EnvKeys, Paths, Contents

\* x and all that is reached from it along the sets of `next`.
Closure(next, x) ==
  LET reached[y \in DOMAIN next] == {y} \cup UNION {reached[z] : z \in next[y]}
  IN reached[x]

Commands(doc) == {i \in DOMAIN doc : doc[i].type = "command"}
Cached(doc) == {i \in Commands(doc) : doc[i].cache # None /\ doc[i].cache.policy # "none"}

(***************************************************************************)
(* What _cache_to_dict makes of the classes of cache.py.                   *)
(***************************************************************************)
IsPolicy(p) ==
  CASE p.policy = "none" -> TRUE
    [] p.policy = "forever" -> p.env_keys \subseteq EnvKeys
    [] p.policy = "ttl" -> p.duration \in Nat /\ p.env_keys \subseteq EnvKeys
    [] p.policy = "on_change" -> p.paths \in Seq(Paths)
    [] p.policy = "compose" -> p.subs \in Seq(Policies)
    [] OTHER -> FALSE

ASSUME PoliciesAreKnown == \A p \in Policies : IsPolicy(p)

(***************************************************************************)
(* A composition is frozen (cache.py:68), so the policies in it were made  *)
(* before it: none is a part of itself.                                    *)
(***************************************************************************)
ASSUME PoliciesNest ==
  \A S \in (SUBSET Policies) \ {{}} :
    \E p \in S : p.policy = "compose" => \A i \in DOMAIN p.subs : p.subs[i] \notin S

Nul == 0
File(bytes) == [is |-> "file", bytes |-> bytes]
Dir(files) == [is |-> "dir", files |-> files]

(***************************************************************************)
(* The stream of a directory has no lengths, so it tells directories apart *)
(* only where no file holds a NUL; and nothing in it tells a directory     *)
(* without files from an empty file.                                       *)
(***************************************************************************)
ASSUME ContentsAreText ==
  \A c \in Contents :
    \/ c.is = "file" /\ c = File(c.bytes) /\ c.bytes \in Seq(Nat \ {Nul})
    \/ /\ c.is = "dir" /\ c = Dir(c.files)
       /\ IsFiniteSet(DOMAIN c.files) /\ DOMAIN c.files \in (SUBSET (Nat \ {Nul})) \ {{}}
       /\ c.files = [n \in DOMAIN c.files |-> c.files[n]]
       /\ \A n \in DOMAIN c.files : c.files[n] \in Seq(Nat \ {Nul})

-----------------------------------------------------------------------------
(* _resolve_policy.  An unset variable reads as the empty string.          *)

EnvSubset(env_keys, w) ==
  [k \in env_keys |-> IF w.env[k] = None THEN Empty ELSE w.env[k]]

\* The elements of a finite set of numbers in their order.
Sorted(S) ==
  CHOOSE s \in [1 .. Cardinality(S) -> S] : \A i, j \in DOMAIN s : i < j => s[i] < s[j]

\* Mutant: the contents are folded without the paths.
StreamOfContents(files) ==
  FlattenSeq([i \in 1 .. Cardinality(DOMAIN files) |-> files[Sorted(DOMAIN files)[i]] \o <<Nul>>])

\* What the loop of _path_hash feeds the digest, in the order of the paths.
DirStream(files) ==
  LET children == Sorted(DOMAIN files) IN
  FlattenSeq([i \in DOMAIN children |-> <<children[i], Nul>> \o files[children[i]] \o <<Nul>>])

\* _path_hash of a path that is there.
PathHash(content) ==
  IF content.is = "file" THEN content.bytes ELSE DirStream(content.files)

\* The policies a policy is made of, itself among them.
Parts(policy) ==
  Closure([p \in Policies |-> IF p.policy = "compose" THEN Range(p.subs) ELSE {}], policy)

\* The raising branches: on_change of a missing path, ttl of a duration that
\* int() cut down to 0 seconds.
Unresolvable(policy, w) ==
  \E p \in Parts(policy) :
    \/ p.policy = "on_change" /\ \E i \in DOMAIN p.paths : w.files[p.paths[i]] = None
    \/ p.policy = "ttl" /\ p.duration = 0

\* A policy lists its paths sorted.
ResolvePolicy(policy, cmd, w) ==
  LET res[p \in Policies] ==
        CASE p.policy = "none" -> [tag |-> "none"]
          [] p.policy = "forever" ->
               [tag |-> "forever", cmd |-> cmd, env |-> EnvSubset(p.env_keys, w)]
          [] p.policy = "ttl" ->
               [tag |-> "ttl", bucket |-> w.now \div p.duration,
                cmd |-> cmd, env |-> EnvSubset(p.env_keys, w)]
          [] p.policy = "on_change" ->
               [tag |-> "sha",
                hashes |-> [i \in DOMAIN p.paths |-> PathHash(w.files[p.paths[i]])]]
          [] OTHER ->
               [tag |-> "compose", parts |-> [i \in DOMAIN p.subs |-> res[p.subs[i]]]]
  IN res[policy]

\* Mutant: the key of the parent does not enter.
CacheKeyOfStepAlone(step, parent, w) ==
  [pipeline |-> w.pipeline, step |-> step.key,
   policy |-> ResolvePolicy(step.cache, step.cmd, w)]

CacheKey(step, parent, w) ==
  [pipeline |-> w.pipeline, step |-> step.key, parent |-> parent,
   policy |-> ResolvePolicy(step.cache, step.cmd, w)]
=============================================================================
