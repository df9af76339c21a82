--------------------------- MODULE CacheKeysProofs ---------------------------
(***************************************************************************)
(* Proofs about CacheKeys, for any pipelines and versions of them, any     *)
(* policies and contents and any number of renders and changes between     *)
(* them: a step keeps its key exactly while its inputs are the same, and a *)
(* render raises exactly where a cached step finds no cache key to build   *)
(* on or a policy that cannot be resolved.                                 *)
(***************************************************************************)
EXTENDS CacheKeys, TLAPS, SequenceTheorems, FiniteSetTheorems, WellFoundedInduction

-----------------------------------------------------------------------------
(* A document as lowering leaves it.                                       *)
IsLowered(d) ==
  /\ d \in Seq(Range(d))
  /\ \A i \in Commands(d) :
       \/ d[i].key.by = "name"
       \/ \E parent \in {None, d[i].builds_in} :
            d[i].key = HashKey(parent, d[i].cmd, Position(d, i))
  /\ \A i \in Cached(d) : d[i].cache \in Policies

(* The step whose cache key a step is keyed over.                          *)
ParentIndex(d, i) == Max(Bearers(d, i))

(* What a render must fail on, at the step i of the document d.            *)
Bad(d, i, w) ==
  \/ d[i].builds_in # None /\ Bearers(d, i) = {}
  \/ Unresolvable(d[i].cache, w)

LEMMA VersionIsLowered ==
  ASSUME NEW q \in Projects, NEW d \in Versions[q]
  PROVE  IsLowered(d)
<1>1. \A i \in Commands(d) : d[i].key.by = "name" \/ \E parent \in {None, d[i].builds_in} :
        d[i].key = HashKey(parent, d[i].cmd, Position(d, i))
  BY DocsAreLowered
<1>2. d \in Seq(Range(d)) /\ \A i \in Cached(d) : d[i].cache \in Policies
  BY DocsAreDicts
<1> QED
  BY <1>1, <1>2 DEF IsLowered

LEMMA VersionsAgree ==
  ASSUME NEW q \in Projects, NEW c \in Versions[q], NEW d \in Versions[q]
  PROVE  /\ SameSteps(c, d)
         /\ Cached(c) = Cached(d)
         /\ \A i \in Cached(c) : Bearers(c, i) = Bearers(d, i)
<1>1. SameSteps(c, d)
  BY VersionsHaveSameSteps
<1>2. Cached(c) = Cached(d)
  BY <1>1 DEF SameSteps, Cached
<1>3. ASSUME NEW i \in Cached(c)
      PROVE  Bearers(c, i) = Bearers(d, i)
  <2>1. i \in Commands(c) /\ \A j \in Cached(c) : j \in Commands(c)
    BY DEF Cached
  <2>2. /\ c[i].builds_in = None <=> d[i].builds_in = None
        /\ \A j \in Cached(c) : c[j].key = c[i].builds_in <=> d[j].key = d[i].builds_in
    BY <1>1, <2>1 DEF SameSteps
  <2> QED
    BY <1>2, <2>2 DEF Bearers
<1> QED
  BY <1>1, <1>2, <1>3

LEMMA AppendAny ==
  ASSUME NEW s, s \in Seq(Range(s)), NEW e
  PROVE  /\ Append(s, e) \in Seq(Range(Append(s, e)))
         /\ Len(s) \in Nat /\ DOMAIN s = 1 .. Len(s)
         /\ DOMAIN Append(s, e) = 1 .. Len(s) + 1
         /\ \A i \in 1 .. Len(s) : Append(s, e)[i] = s[i]
         /\ Append(s, e)[Len(s) + 1] = e
<1> DEFINE T == Range(s) \cup {e}
<1>1. s \in Seq(T)
  <2>1. Len(s) \in Nat /\ DOMAIN s = 1 .. Len(s) /\ s = [i \in 1 .. Len(s) |-> s[i]]
    BY LenProperties, SeqDef
  <2>2. s \in [1 .. Len(s) -> T]
    BY <2>1 DEF Range
  <2>3. s \in UNION {[1 .. m -> T] : m \in Nat}
    BY <2>1, <2>2
  <2> HIDE DEF T
  <2> QED
    BY <2>3, SeqDef
<1>2. e \in T
  OBVIOUS
<1>3. /\ Append(s, e) \in Seq(T) /\ Len(s) \in Nat /\ DOMAIN s = 1 .. Len(s)
      /\ Len(Append(s, e)) = Len(s) + 1
      /\ DOMAIN Append(s, e) = 1 .. Len(s) + 1
      /\ \A i \in 1 .. Len(s) : Append(s, e)[i] = s[i]
      /\ Append(s, e)[Len(s) + 1] = e
  <2> HIDE DEF T
  <2> QED
    BY <1>1, <1>2, AppendProperties, LenProperties
<1>4. Append(s, e) \in Seq(Range(Append(s, e)))
  <2> DEFINE a == Append(s, e)
             m == Len(s) + 1
  <2>1. m \in Nat /\ DOMAIN a = 1 .. m /\ a \in Seq(T)
    BY <1>3
  <2>2. a \in [1 .. m -> Range(a)]
    <3> HIDE DEF T, a, m
    <3>1. a = [i \in DOMAIN a |-> a[i]]
      BY <2>1, SeqDef
    <3> QED
      BY <2>1, <3>1 DEF Range
  <2>3. a \in UNION {[1 .. k -> Range(a)] : k \in Nat}
    <3> HIDE DEF T, a, m
    <3> QED
      BY <2>1, <2>2
  <2> HIDE DEF T, a, m
  <2>4. a \in Seq(Range(a))
    BY <2>3, SeqDef
  <2> QED
    BY <2>4 DEF a
<1> QED
  BY <1>3, <1>4

(* Where there is a bearer there is a last one.                            *)
LEMMA ParentIsLast ==
  ASSUME NEW d, IsLowered(d), NEW i \in Cached(d), Bearers(d, i) # {}
  PROVE  /\ ParentIndex(d, i) \in Bearers(d, i)
         /\ \A j \in Bearers(d, i) : j <= ParentIndex(d, i)
<1> DEFINE B == Bearers(d, i)
           R == {ss \in Nat \X Nat : ss[1] < ss[2]}
           T == {i - j : j \in B}
<1>1. i \in Nat /\ \A j \in B : j \in Nat /\ j < i
  BY LenProperties DEF IsLowered, Bearers, Cached, Commands
<1> HIDE DEF B
<1>2. IsWellFoundedOn(R, Nat)
  BY NatLessThanWellFounded DEF OpToRel
<1>3. T \subseteq Nat /\ T # {}
  BY <1>1 DEF B
<1>4. PICK t \in T : \A u \in T : ~(<<u, t>> \in R)
  <2> HIDE DEF T, R
  <2> QED
    BY <1>2, <1>3, WFMin
<1>5. PICK j \in B : t = i - j
  OBVIOUS
<1>6. ASSUME NEW m \in B
      PROVE  j >= m
  <2>1. ~(i - m < i - j)
    <3>1. i - m \in T /\ i - m \in Nat /\ t \in Nat
      BY <1>3
    <3> QED
      BY <1>4, <1>5, <3>1
  <2> QED
    BY <1>1, <1>5, <2>1
<1>7. ParentIndex(d, i) \in B /\ \A m \in B : ParentIndex(d, i) >= m
  <2>1. \E x \in B : \A m \in B : x >= m
    BY <1>5, <1>6
  <2>2. ParentIndex(d, i) = CHOOSE x \in B : \A m \in B : x >= m
    BY DEF ParentIndex, Max, B
  <2> QED
    BY <2>1, <2>2
<1> QED
  BY <1>1, <1>7 DEF B

-----------------------------------------------------------------------------
(* Induction over the numbers up to n, through the set they form.          *)
LEMMA UpTo ==
  ASSUME NEW n \in Nat, NEW P, 0 \in P, \A i \in 1 .. n : i - 1 \in P => i \in P
  PROVE  \A i \in 0 .. n : i \in P
<1> DEFINE R == {ss \in Nat \X Nat : ss[1] < ss[2]}
           missing == (0 .. n) \ P
<1>1. IsWellFoundedOn(R, Nat)
  BY NatLessThanWellFounded DEF OpToRel
<1>2. SUFFICES ASSUME missing # {} PROVE FALSE
  OBVIOUS
<1>3. missing \subseteq Nat
  OBVIOUS
<1>4. PICK x \in missing : \A y \in missing : ~(<<y, x>> \in R)
  <2> HIDE DEF R, missing
  <2> QED
    BY <1>1, <1>2, <1>3, WFMin
<1>5. x \in 1 .. n
  OBVIOUS
<1>6. x - 1 \in 0 .. n /\ x - 1 \in Nat /\ x - 1 < x /\ x \in Nat
  BY <1>5
<1>7. <<x - 1, x>> \in R
  BY <1>6
<1>8. x - 1 \notin missing
  BY <1>4, <1>7
<1> QED
  BY <1>5, <1>6, <1>8

-----------------------------------------------------------------------------
(***************************************************************************)
(* The stream of a directory.  A file below it is folded as a block; the   *)
(* stream is the concatenation of the blocks, which FlattenSeq makes from  *)
(* left to right.                                                          *)
(***************************************************************************)
Byte == Nat \ {Nul}
Block(name, bytes) == <<name, Nul>> \o bytes \o <<Nul>>

LEMMA BlockBytes ==
  ASSUME NEW name \in Byte, NEW bytes \in Seq(Byte)
  PROVE  LET b == Block(name, bytes) IN
         /\ b \in Seq(Nat) /\ Len(bytes) \in Nat /\ Len(b) = Len(bytes) + 3
         /\ b[1] = name /\ b[2] = Nul /\ b[Len(b)] = Nul
         /\ \A i \in 1 .. Len(bytes) : b[i + 2] = bytes[i] /\ bytes[i] # Nul
<1> DEFINE head == <<name, Nul>>
           most == head \o bytes
<1>1. /\ head \in Seq(Nat) /\ Len(head) = 2 /\ head[1] = name /\ head[2] = Nul
      /\ <<Nul>> \in Seq(Nat) /\ Len(<<Nul>>) = 1 /\ <<Nul>>[1] = Nul
  BY DEF Byte, Nul
<1>2. /\ bytes \in Seq(Nat) /\ Len(bytes) \in Nat
      /\ \A i \in 1 .. Len(bytes) : bytes[i] \in Byte
  BY LenProperties, ElementOfSeq DEF Byte
<1> HIDE DEF head
<1>3. /\ most \in Seq(Nat) /\ Len(most) = Len(bytes) + 2
      /\ most[1] = name /\ most[2] = Nul
      /\ \A i \in 1 .. Len(bytes) : most[i + 2] = bytes[i]
  <2>1. /\ most \in Seq(Nat) /\ Len(most) = 2 + Len(bytes)
        /\ \A i \in 1 .. 2 + Len(bytes) : most[i] = IF i <= 2 THEN head[i] ELSE bytes[i - 2]
    <3>1. /\ most \in Seq(Nat) /\ Len(most) = Len(head) + Len(bytes)
          /\ \A i \in 1 .. Len(head) + Len(bytes) :
               most[i] = IF i <= Len(head) THEN head[i] ELSE bytes[i - Len(head)]
      BY <1>1, <1>2, ConcatProperties
    <3> HIDE DEF most
    <3> QED
      BY <1>1, <3>1
  <2> HIDE DEF most
  <2>2. \A i \in 1 .. Len(bytes) : i + 2 \in 1 .. 2 + Len(bytes) /\ ~(i + 2 <= 2) /\ (i + 2) - 2 = i
    BY <1>2
  <2> QED
    BY <1>1, <1>2, <2>1, <2>2
<1> HIDE DEF most
<1> DEFINE b == most \o <<Nul>>
<1>4. /\ b \in Seq(Nat) /\ Len(b) = Len(most) + 1
      /\ \A i \in 1 .. Len(most) + 1 :
           b[i] = IF i <= Len(most) THEN most[i] ELSE <<Nul>>[i - Len(most)]
  BY <1>1, <1>3, ConcatProperties
<1>5. b = Block(name, bytes)
  BY DEF Block, most, head
<1> HIDE DEF b
<1>6. /\ Len(b) = Len(bytes) + 3 /\ b[1] = name /\ b[2] = Nul /\ b[Len(b)] = Nul
      /\ \A i \in 1 .. Len(bytes) : b[i + 2] = bytes[i]
  <2>1. \A i \in 1 .. Len(bytes) + 2 : b[i] = most[i]
    BY <1>2, <1>3, <1>4
  <2>2. b[Len(b)] = Nul
    BY <1>1, <1>2, <1>3, <1>4, SMTT(30)
  <2> QED
    BY <1>2, <1>3, <1>4, <2>1, <2>2, SMTT(30)
<1> QED
  BY <1>2, <1>4, <1>5, <1>6 DEF Byte

SameStream(x, c, d, y, e, h) == x \o Block(c, d) = y \o Block(e, h)

(* The last block of a stream is read off from its end, back to the NUL    *)
(* behind its name.                                                        *)
LEMMA LastBlock ==
  ASSUME NEW x \in Seq(Nat), NEW c \in Byte, NEW d \in Seq(Byte),
         NEW y \in Seq(Nat), NEW e \in Byte, NEW h \in Seq(Byte),
         SameStream(x, c, d, y, e, h)
  PROVE  x = y /\ c = e /\ d = h
<1> DEFINE p == Block(c, d)
           q == Block(e, h)
           z == x \o p
           w == y \o q
           X == Len(x)
           Y == Len(y)
<1>1. /\ p \in Seq(Nat) /\ Len(d) \in Nat /\ Len(p) = Len(d) + 3 /\ p[1] = c /\ p[2] = Nul
      /\ p[Len(p)] = Nul /\ \A i \in 1 .. Len(d) : p[i + 2] = d[i] /\ d[i] # Nul
  BY BlockBytes
<1>2. /\ q \in Seq(Nat) /\ Len(h) \in Nat /\ Len(q) = Len(h) + 3 /\ q[1] = e /\ q[2] = Nul
      /\ q[Len(q)] = Nul /\ \A i \in 1 .. Len(h) : q[i + 2] = h[i] /\ h[i] # Nul
  BY BlockBytes
<1> HIDE DEF p, q
<1>3. X \in Nat /\ Y \in Nat
  BY LenProperties
<1>4. /\ Len(z) = X + Len(p)
      /\ \A i \in 1 .. X + Len(p) : z[i] = IF i <= X THEN x[i] ELSE p[i - X]
  BY <1>1, ConcatProperties
<1>5. /\ Len(w) = Y + Len(q)
      /\ \A i \in 1 .. Y + Len(q) : w[i] = IF i <= Y THEN y[i] ELSE q[i - Y]
  BY <1>2, ConcatProperties
<1>6. z = w
  BY DEF p, q, SameStream
<1> DEFINE L == Len(z)
<1> HIDE DEF z, w, X, Y, L
<1>7. L = X + Len(d) + 3 /\ L = Y + Len(h) + 3 /\ L \in Nat
  <2>1. L = X + Len(p) /\ L = Y + Len(q)
    BY <1>4, <1>5, <1>6 DEF L
  <2> QED
    BY <1>1, <1>2, <1>3, <2>1
<1>8. /\ z[X + 2] = Nul
      /\ \A i \in X + 3 .. L - 1 : z[i] # Nul
  <2>1. \A i \in X + 1 .. L : z[i] = p[i - X]
    <3>1. \A i \in X + 1 .. L : i \in 1 .. X + Len(p) /\ ~(i <= X)
      BY <1>1, <1>3, <1>7
    <3> QED
      BY <1>4, <3>1
  <2>2. z[X + 2] = Nul
    <3>1. X + 2 \in X + 1 .. L /\ (X + 2) - X = 2
      BY <1>1, <1>3, <1>7
    <3> QED
      BY <1>1, <2>1, <3>1
  <2>3. ASSUME NEW i \in X + 3 .. L - 1
        PROVE  z[i] # Nul
    <3>1. i - X - 2 \in 1 .. Len(d) /\ (i - X - 2) + 2 = i - X /\ i \in X + 1 .. L
      BY <1>1, <1>3, <1>7, SMTT(30)
    <3> QED
      BY <1>1, <2>1, <3>1, ZenonT(60)
  <2> QED
    BY <2>2, <2>3
<1>9. /\ z[Y + 2] = Nul
      /\ \A i \in Y + 3 .. L - 1 : z[i] # Nul
  <2>1. \A i \in Y + 1 .. L : z[i] = q[i - Y]
    <3>1. \A i \in Y + 1 .. L : i \in 1 .. Y + Len(q) /\ ~(i <= Y)
      BY <1>2, <1>3, <1>7
    <3> QED
      BY <1>5, <1>6, <3>1
  <2>2. z[Y + 2] = Nul
    <3>1. Y + 2 \in Y + 1 .. L /\ (Y + 2) - Y = 2
      BY <1>2, <1>3, <1>7
    <3> QED
      BY <1>2, <2>1, <3>1
  <2>3. ASSUME NEW i \in Y + 3 .. L - 1
        PROVE  z[i] # Nul
    <3>1. i - Y - 2 \in 1 .. Len(h) /\ (i - Y - 2) + 2 = i - Y /\ i \in Y + 1 .. L
      BY <1>2, <1>3, <1>7
    <3> QED
      BY <1>2, <2>1, <3>1, ZenonT(60)
  <2> QED
    BY <2>2, <2>3
<1>10. X = Y
  <2>1. ~(X < Y)
    <3>1. X < Y => Y + 2 \in X + 3 .. L - 1
      BY <1>2, <1>3, <1>7
    <3> QED
      BY <1>8, <1>9, <3>1
  <2>2. ~(Y < X)
    <3>1. Y < X => X + 2 \in Y + 3 .. L - 1
      BY <1>1, <1>3, <1>7
    <3> QED
      BY <1>8, <1>9, <3>1
  <2> QED
    BY <1>3, <2>1, <2>2
<1>11. Len(d) = Len(h) /\ Len(p) = Len(q)
  BY <1>1, <1>2, <1>3, <1>7, <1>10
<1>12. x = y
  <2>1. \A i \in 1 .. X : x[i] = y[i]
    <3>1. \A i \in 1 .. X : i \in 1 .. X + Len(p) /\ i \in 1 .. Y + Len(q) /\ i <= X
      BY <1>1, <1>3, <1>10, <1>11
    <3> QED
      BY <1>4, <1>5, <1>6, <1>10, <3>1
  <2> QED
    BY <1>10, <2>1, SeqEqual DEF X, Y
<1>13. \A i \in 1 .. Len(p) : p[i] = q[i]
  <2> SUFFICES ASSUME NEW i \in 1 .. Len(p) PROVE p[i] = q[i]
    OBVIOUS
  <2>1. /\ X + i \in 1 .. X + Len(p) /\ X + i \in 1 .. Y + Len(q)
        /\ ~(X + i <= X) /\ (X + i) - X = i
    BY <1>1, <1>3, <1>10, <1>11
  <2>2. z[X + i] = p[i] /\ w[X + i] = q[i]
    BY <1>4, <1>5, <1>6, <1>10, <2>1
  <2> QED
    BY <1>6, <2>2
<1>14. c = e /\ \A i \in 1 .. Len(d) : d[i] = h[i]
  <2>1. 1 \in 1 .. Len(p) /\ \A i \in 1 .. Len(d) : i + 2 \in 1 .. Len(p)
    BY <1>1
  <2> QED
    BY <1>1, <1>2, <1>11, <1>13, <2>1
<1>15. d = h
  BY <1>11, <1>14, SeqEqual
<1> QED
  BY <1>12, <1>14, <1>15

(* The number of elements of S up to x puts S in order.                    *)
LEMMA Ranks ==
  ASSUME NEW S \in SUBSET Nat, IsFiniteSet(S)
  PROVE  \E rank \in [S -> 1 .. Cardinality(S)] :
           \A x, y \in S : x < y => rank[x] < rank[y]
<1> DEFINE UpToX(x) == {y \in S : y <= x}
           rank == [x \in S |-> Cardinality(UpToX(x))]
<1>1. ASSUME NEW x \in S
      PROVE  /\ IsFiniteSet(UpToX(x)) /\ UpToX(x) # {}
             /\ Cardinality(UpToX(x)) \in 1 .. Cardinality(S)
  <2>1. UpToX(x) \in SUBSET S /\ x \in UpToX(x)
    OBVIOUS
  <2> HIDE DEF UpToX
  <2>2. IsFiniteSet(UpToX(x)) /\ Cardinality(UpToX(x)) <= Cardinality(S)
    BY <2>1, FS_Subset
  <2>3. Cardinality(UpToX(x)) \in Nat /\ Cardinality(S) \in Nat /\ Cardinality(UpToX(x)) # 0
    BY <2>1, <2>2, FS_CardinalityType, FS_EmptySet
  <2> QED
    BY <2>1, <2>2, <2>3
<1>2. ASSUME NEW x \in S, NEW y \in S, x < y
      PROVE  Cardinality(UpToX(x)) < Cardinality(UpToX(y))
  <2>1. x \in Nat /\ y \in Nat /\ \A z \in S : z \in Nat
    OBVIOUS
  <2>2. UpToX(x) \in SUBSET UpToX(y) /\ y \in UpToX(y) /\ y \notin UpToX(x)
    <3>1. ~(y <= x) /\ y <= y /\ \A z \in S : z <= x => z <= y
      BY <1>2, <2>1
    <3> QED
      BY <3>1
  <2>3. IsFiniteSet(UpToX(y)) /\ IsFiniteSet(UpToX(x))
    BY <1>1
  <2> HIDE DEF UpToX
  <2>4. /\ Cardinality(UpToX(x)) <= Cardinality(UpToX(y))
        /\ Cardinality(UpToX(x)) # Cardinality(UpToX(y))
    BY <2>2, <2>3, FS_Subset
  <2>5. Cardinality(UpToX(x)) \in Nat /\ Cardinality(UpToX(y)) \in Nat
    BY <2>3, FS_CardinalityType
  <2> QED
    BY <2>4, <2>5
<1> HIDE DEF UpToX
<1>3. rank \in [S -> 1 .. Cardinality(S)]
  BY <1>1
<1>4. \A x, y \in S : x < y => rank[x] < rank[y]
  BY <1>2
<1> HIDE DEF rank
<1> QED
  BY <1>3, <1>4

(* A finite set of numbers has such a sequence.                            *)
LEMMA SortedLists ==
  ASSUME NEW S \in SUBSET Nat, IsFiniteSet(S)
  PROVE  /\ Cardinality(S) \in Nat /\ Sorted(S) \in [1 .. Cardinality(S) -> S]
         /\ \A x \in S : \E i \in 1 .. Cardinality(S) : Sorted(S)[i] = x
<1> DEFINE n == Cardinality(S)
           Ordered(s) == \A i, j \in DOMAIN s : i < j => s[i] < s[j]
<1>1. n \in Nat
  BY FS_CardinalityType
<1>2. PICK rank \in [S -> 1 .. n] : \A x, y \in S : x < y => rank[x] < rank[y]
  BY Ranks
<1>3. \A x, y \in S : rank[x] \in Nat /\ (rank[x] = rank[y] => x = y)
  <2> SUFFICES ASSUME NEW x \in S, NEW y \in S
               PROVE  rank[x] \in Nat /\ (rank[x] = rank[y] => x = y)
    OBVIOUS
  <2>1. rank[x] \in Nat /\ rank[y] \in Nat /\ x \in Nat /\ y \in Nat
    BY <1>1, <1>2
  <2>2. x < y => rank[x] < rank[y]
    BY <1>2
  <2>3. y < x => rank[y] < rank[x]
    BY <1>2
  <2> QED
    BY <2>1, <2>2, <2>3
<1>4. rank \in Injection(S, 1 .. n)
  BY <1>2, <1>3 DEF Injection, IsInjective
<1>5. rank \in Surjection(S, 1 .. n)
  <2>1. IsFiniteSet(1 .. n) /\ Cardinality(1 .. n) = n
    BY <1>1, FS_Interval
  <2> HIDE DEF n
  <2> QED
    BY <1>4, <2>1, FS_Injection DEF n
<1> DEFINE s == [i \in 1 .. n |-> CHOOSE x \in S : rank[x] = i]
<1>6. s \in [1 .. n -> S] /\ \A i \in 1 .. n : rank[s[i]] = i
  <2>1. \A i \in 1 .. n : \E x \in S : rank[x] = i
    BY <1>5 DEF Surjection
  <2> HIDE DEF n
  <2>2. \A i \in 1 .. n : s[i] \in S /\ rank[s[i]] = i
    BY <2>1
  <2> QED
    BY <2>2
<1>7. Ordered(s)
  <2> SUFFICES ASSUME NEW i \in 1 .. n, NEW j \in 1 .. n, i < j
               PROVE  s[i] < s[j]
    OBVIOUS
  <2> HIDE DEF s
  <2>1. s[i] \in S /\ s[j] \in S /\ rank[s[i]] = i /\ rank[s[j]] = j
    BY <1>6
  <2>2. s[j] < s[i] => j < i
    BY <1>2, <2>1
  <2>3. i # j /\ i \in Nat /\ j \in Nat /\ ~(j < i)
    BY <1>1
  <2>4. s[i] # s[j] /\ s[i] \in Nat /\ s[j] \in Nat
    BY <2>1, <2>3
  <2> QED
    BY <2>2, <2>3, <2>4
<1>8. Sorted(S) \in [1 .. n -> S] /\ Ordered(Sorted(S))
  <2> HIDE DEF s, Ordered
  <2>1. Sorted(S) = CHOOSE t \in [1 .. n -> S] : Ordered(t)
    BY DEF Sorted, Ordered
  <2> QED
    BY <1>6, <1>7, <2>1
<1>9. Sorted(S) \in Injection(1 .. n, S)
  <2>1. \A i, j \in 1 .. n : Sorted(S)[i] = Sorted(S)[j] => i = j
    <3> SUFFICES ASSUME NEW i \in 1 .. n, NEW j \in 1 .. n, Sorted(S)[i] = Sorted(S)[j], i # j
                 PROVE  FALSE
      OBVIOUS
    <3>1. i < j \/ j < i
      BY <1>1
    <3>2. Sorted(S)[i] < Sorted(S)[j] \/ Sorted(S)[j] < Sorted(S)[i]
      BY <1>8, <3>1
    <3>3. Sorted(S)[i] \in Nat
      BY <1>8
    <3> QED
      BY <3>2, <3>3
  <2> HIDE DEF n
  <2> QED
    BY <1>8, <2>1 DEF Injection, IsInjective
<1>10. Sorted(S) \in Surjection(1 .. n, S)
  <2>1. IsFiniteSet(1 .. n) /\ Cardinality(1 .. n) = n
    BY <1>1, FS_Interval
  <2> HIDE DEF n
  <2> QED
    BY <1>9, <2>1, FS_Injection DEF n
<1> QED
  BY <1>1, <1>8, <1>10 DEF Surjection
-----------------------------------------------------------------------------
(* FlattenSeq is recursive over the blocks; f has its value at each.       *)
FlatOver(f, b, i) == IF i = 1 THEN b[i] ELSE f[i - 1] \o b[i]
FlatTo(f, b, m) == f = [i \in 1 .. m |-> FlatOver(f, b, i)]

LEMMA FlatExists ==
  ASSUME NEW b, NEW n \in Nat
  PROVE  \E f : FlatTo(f, b, n)
<1> DEFINE P == {m \in Nat : \E f : FlatTo(f, b, m)}
<1>1. 0 \in P
  <2>1. FlatTo([i \in 1 .. 0 |-> 0], b, 0)
    BY DEF FlatTo
  <2> QED
    BY <2>1
<1>2. ASSUME NEW m \in 1 .. n, m - 1 \in P
      PROVE  m \in P
  <2>1. PICK f : FlatTo(f, b, m - 1)
    BY <1>2
  <2> DEFINE h == [i \in 1 .. m |-> IF i = m THEN FlatOver(f, b, m) ELSE f[i]]
  <2>2. \A i \in 1 .. m : i # m => i \in 1 .. m - 1
    OBVIOUS
  <2>3. \A i \in 1 .. m : i # 1 => h[i - 1] = f[i - 1]
    BY <2>2
  <2>4. ASSUME NEW i \in 1 .. m
        PROVE  FlatOver(h, b, i) = FlatOver(f, b, i)
    <3> HIDE DEF h
    <3> QED
      BY <2>3 DEF FlatOver
  <2>5. ASSUME NEW i \in 1 .. m
        PROVE  h[i] = FlatOver(f, b, i)
    BY <2>1, <2>2 DEF FlatTo
  <2>6. h = [i \in 1 .. m |-> h[i]]
    OBVIOUS
  <2> HIDE DEF h
  <2>7. FlatTo(h, b, m)
    BY <2>4, <2>5, <2>6 DEF FlatTo
  <2> QED
    BY <2>7
<1> HIDE DEF P
<1>3. n \in P
  BY <1>1, <1>2, UpTo
<1> QED
  BY <1>3 DEF P

LEMMA Flattened ==
  ASSUME NEW b \in Seq(Seq(Nat)), b # <<>>
  PROVE  /\ Len(b) \in Nat \ {0}
         /\ \E f : FlatTo(f, b, Len(b)) /\ FlattenSeq(b) = f[Len(b)]
<1> DEFINE flatten == CHOOSE f : FlatTo(f, b, Len(b))
<1>1. Len(b) \in Nat \ {0}
  BY LenProperties, EmptySeq
<1>2. FlatTo(flatten, b, Len(b))
  BY <1>1, FlatExists
<1>3. FlattenSeq(b) = flatten[Len(b)]
  BY <1>1 DEF FlattenSeq, FlatTo, FlatOver
<1> HIDE DEF flatten
<1> QED
  BY <1>1, <1>2, <1>3

(* The files of a directory as the loop meets them: c has their names, d   *)
(* their bytes, f the stream up to each.                                   *)
IsStream(f, c, d, n) ==
  /\ n \in Nat \ {0}
  /\ c \in [1 .. n -> Byte] /\ d \in [1 .. n -> Seq(Byte)] /\ f \in [1 .. n -> Seq(Nat)]
  /\ f[1] = Block(c[1], d[1])
  /\ \A i \in 2 .. n : f[i] = f[i - 1] \o Block(c[i], d[i])

IsFileMap(files) ==
  /\ IsFiniteSet(DOMAIN files) /\ DOMAIN files \in (SUBSET Byte) \ {{}}
  /\ files = [n \in DOMAIN files |-> files[n]]
  /\ \A n \in DOMAIN files : files[n] \in Seq(Byte)

LEMMA StreamOfFiles ==
  ASSUME NEW files, IsFileMap(files)
  PROVE  LET n == Cardinality(DOMAIN files)
             c == Sorted(DOMAIN files) IN
         /\ \A x \in DOMAIN files : \E i \in 1 .. n : c[i] = x
         /\ \A i \in 1 .. n : c[i] \in DOMAIN files
         /\ \E f : /\ IsStream(f, c, [i \in 1 .. n |-> files[c[i]]], n)
                   /\ DirStream(files) = f[n]
<1> DEFINE S == DOMAIN files
           n == Cardinality(S)
           c == Sorted(S)
           d == [i \in 1 .. n |-> files[c[i]]]
           b == [i \in 1 .. n |-> Block(c[i], files[c[i]])]
<1>1. S \in SUBSET Nat /\ IsFiniteSet(S) /\ S \subseteq Byte /\ S # {}
      /\ \A x \in S : files[x] \in Seq(Byte)
  BY DEF IsFileMap, Byte
<1> HIDE DEF S
<1>2. n \in Nat /\ c \in [1 .. n -> S] /\ \A x \in S : \E i \in 1 .. n : c[i] = x
  BY <1>1, SortedLists
<1>3. n # 0
  BY <1>1, FS_EmptySet
<1> HIDE DEF n, c
<1>4. \A i \in 1 .. n : c[i] \in Byte /\ d[i] \in Seq(Byte) /\ d[i] = files[c[i]]
  BY <1>1, <1>2
<1>5. \A i \in 1 .. n : b[i] = Block(c[i], d[i]) /\ b[i] \in Seq(Nat)
  <2> SUFFICES ASSUME NEW i \in 1 .. n
               PROVE  b[i] = Block(c[i], d[i]) /\ b[i] \in Seq(Nat)
    OBVIOUS
  <2> QED
    BY <1>4, BlockBytes
<1>6. b \in Seq(Seq(Nat)) /\ Len(b) = n /\ b # <<>>
  <2>1. b \in [1 .. n -> Seq(Nat)]
    <3>1. b = [i \in 1 .. n |-> b[i]]
      OBVIOUS
    <3> HIDE DEF b
    <3> QED
      BY <1>5, <3>1
  <2> HIDE DEF b
  <2>2. b \in Seq(Seq(Nat)) /\ Len(b) = n
    BY <1>2, <2>1, SeqDef, LenProperties
  <2> QED
    BY <1>3, <2>2, EmptySeq
<1>7. DirStream(files) = FlattenSeq(b)
  <2>1. DOMAIN c = 1 .. n
    BY <1>2
  <2> QED
    BY <2>1 DEF DirStream, Block, c, S
<1>8. PICK f : FlatTo(f, b, n) /\ FlattenSeq(b) = f[n]
  <2> HIDE DEF b
  <2> QED
    BY <1>6, Flattened
<1> HIDE DEF b
<1>9. /\ f = [i \in 1 .. n |-> f[i]] /\ f[1] = Block(c[1], d[1])
      /\ \A i \in 2 .. n : f[i] = f[i - 1] \o Block(c[i], d[i])
  <2> HIDE DEF d
  <2>1. f = [i \in 1 .. n |-> FlatOver(f, b, i)]
    BY <1>8 DEF FlatTo
  <2>2. \A i \in 1 .. n : f[i] = FlatOver(f, b, i)
    BY <2>1
  <2>3. f = [i \in 1 .. n |-> f[i]]
    BY <2>1
  <2>4. 1 \in 1 .. n /\ \A i \in 2 .. n : i \in 1 .. n /\ i # 1
    BY <1>2, <1>3
  <2>5. f[1] = b[1]
    BY <2>2, <2>4 DEF FlatOver
  <2>6. \A i \in 2 .. n : f[i] = f[i - 1] \o b[i]
    BY <2>2, <2>4 DEF FlatOver
  <2> QED
    BY <1>5, <2>3, <2>4, <2>5, <2>6
<1>10. \A i \in 1 .. n : f[i] \in Seq(Nat)
  <2> DEFINE P == {i \in Nat : i \in 1 .. n => f[i] \in Seq(Nat)}
  <2>1. 0 \in P
    OBVIOUS
  <2>2. ASSUME NEW i \in 1 .. n, i - 1 \in P
        PROVE  i \in P
    <3> HIDE DEF d
    <3>1. Block(c[i], d[i]) \in Seq(Nat)
      BY <1>4, BlockBytes
    <3>2. CASE i = 1
      BY <1>9, <3>1, <3>2
    <3>3. CASE i # 1
      <4>1. i \in 2 .. n /\ i - 1 \in 1 .. n
        BY <1>2, <3>3
      <4>2. f[i - 1] \in Seq(Nat) /\ f[i] = f[i - 1] \o Block(c[i], d[i])
        BY <1>9, <2>2, <4>1
      <4>3. f[i] \in Seq(Nat)
        BY <3>1, <4>2, ConcatProperties
      <4> QED
        BY <4>3
    <3> QED
      BY <3>2, <3>3
  <2> HIDE DEF P
  <2>3. \A i \in 0 .. n : i \in P
    BY <1>2, <2>1, <2>2, UpTo
  <2> QED
    BY <1>2, <2>3 DEF P
<1>11. IsStream(f, c, d, n)
  <2>1. c \in [1 .. n -> Byte] /\ d \in [1 .. n -> Seq(Byte)]
    BY <1>1, <1>2, <1>4
  <2>2. f \in [1 .. n -> Seq(Nat)]
    BY <1>9, <1>10
  <2> HIDE DEF d
  <2> QED
    BY <1>2, <1>3, <1>9, <2>1, <2>2 DEF IsStream
<1> QED
  BY <1>2, <1>7, <1>8, <1>11 DEF n, c, S

(* Two streams are taken apart from their ends, block by block.            *)
LEMMA BlocksAgree ==
  ASSUME NEW f, NEW c, NEW d, NEW n, IsStream(f, c, d, n),
         NEW g, NEW e, NEW h, NEW m, IsStream(g, e, h, m),
         n <= m, f[n] = g[m]
  PROVE  n = m /\ c = e /\ d = h
<1>1. /\ n \in Nat \ {0} /\ c \in [1 .. n -> Byte] /\ d \in [1 .. n -> Seq(Byte)]
      /\ f \in [1 .. n -> Seq(Nat)] /\ f[1] = Block(c[1], d[1])
      /\ \A i \in 2 .. n : f[i] = f[i - 1] \o Block(c[i], d[i])
  BY DEF IsStream
<1>2. /\ m \in Nat \ {0} /\ e \in [1 .. m -> Byte] /\ h \in [1 .. m -> Seq(Byte)]
      /\ g \in [1 .. m -> Seq(Nat)] /\ g[1] = Block(e[1], h[1])
      /\ \A i \in 2 .. m : g[i] = g[i - 1] \o Block(e[i], h[i])
  BY DEF IsStream
<1>3. ASSUME NEW i \in 2 .. n, NEW j \in 2 .. m, f[i] = g[j]
      PROVE  f[i - 1] = g[j - 1] /\ c[i] = e[j] /\ d[i] = h[j]
  <2>1. i \in 1 .. n /\ i - 1 \in 1 .. n /\ j \in 1 .. m /\ j - 1 \in 1 .. m
    BY <1>1, <1>2
  <2>2. /\ f[i - 1] \in Seq(Nat) /\ c[i] \in Byte /\ d[i] \in Seq(Byte)
        /\ g[j - 1] \in Seq(Nat) /\ e[j] \in Byte /\ h[j] \in Seq(Byte)
    BY <1>1, <1>2, <2>1
  <2>3. SameStream(f[i - 1], c[i], d[i], g[j - 1], e[j], h[j])
    BY <1>1, <1>2, <1>3 DEF SameStream
  <2> QED
    BY <2>2, <2>3, LastBlock
<1> DEFINE P == {k \in Nat : k < n => f[n - k] = g[m - k]}
<1>4. 0 \in P
  BY <1>1, <1>2
<1>5. ASSUME NEW k \in 1 .. n, k - 1 \in P
      PROVE  k \in P
  <2>1. CASE k < n
    <3>1. /\ n - (k - 1) \in 2 .. n /\ m - (k - 1) \in 2 .. m /\ k - 1 < n
          /\ (n - (k - 1)) - 1 = n - k /\ (m - (k - 1)) - 1 = m - k
      BY <1>1, <1>2, <2>1
    <3>2. f[n - (k - 1)] = g[m - (k - 1)]
      BY <1>5, <3>1
    <3>3. f[n - k] = g[m - k]
      <4> HIDE DEF P
      <4> QED
        BY <1>3, <3>1, <3>2
    <3> QED
      BY <3>3
  <2> QED
    BY <1>1, <2>1
<1> HIDE DEF P
<1>6. \A k \in 0 .. n : k \in P
  BY <1>1, <1>4, <1>5, UpTo
<1>7. \A k \in 0 .. n - 1 : f[n - k] = g[m - k]
  BY <1>1, <1>6 DEF P
<1>8. f[1] = g[m - n + 1]
  <2>1. n - 1 \in 0 .. n - 1 /\ n - (n - 1) = 1 /\ m - (n - 1) = m - n + 1
    BY <1>1, <1>2
  <2> QED
    BY <1>7, <2>1
<1>9. /\ c[1] \in Byte /\ d[1] \in Seq(Byte) /\ <<>> \in Seq(Nat)
      /\ <<>> \o Block(c[1], d[1]) = f[1]
  <2>1. c[1] \in Byte /\ d[1] \in Seq(Byte)
    BY <1>1
  <2>2. Block(c[1], d[1]) \in Seq(Nat)
    BY <2>1, BlockBytes
  <2> QED
    BY <1>1, <2>1, <2>2, ConcatEmptySeq, EmptySeq
<1>10. m = n
  <2>1. SUFFICES ASSUME n < m PROVE FALSE
    BY <1>1, <1>2
  <2> DEFINE j == m - n + 1
  <2>2. j \in 2 .. m /\ j \in 1 .. m /\ j - 1 \in 1 .. m
    BY <1>1, <1>2, <2>1
  <2> HIDE DEF j
  <2>3. g[j - 1] \in Seq(Nat) /\ e[j] \in Byte /\ h[j] \in Seq(Byte)
    BY <1>2, <2>2
  <2>4. SameStream(<<>>, c[1], d[1], g[j - 1], e[j], h[j])
    BY <1>2, <1>8, <1>9, <2>2 DEF j, SameStream
  <2>5. g[j - 1] = <<>>
    BY <1>9, <2>3, <2>4, LastBlock
  <2>6. ASSUME NEW i \in 1 .. m
        PROVE  Len(g[i]) # 0
    <3>1. e[i] \in Byte /\ h[i] \in Seq(Byte)
      BY <1>2
    <3> DEFINE b == Block(e[i], h[i])
    <3>2. b \in Seq(Nat) /\ Len(b) \in Nat \ {0}
      BY <3>1, BlockBytes
    <3> HIDE DEF b
    <3>3. CASE i = 1
      BY <1>2, <3>2, <3>3 DEF b
    <3>4. CASE i # 1
      <4>1. i \in 2 .. m /\ i - 1 \in 1 .. m
        BY <1>2, <3>4
      <4>2. g[i - 1] \in Seq(Nat) /\ g[i] = g[i - 1] \o b
        BY <1>2, <4>1 DEF b
      <4>3. Len(g[i]) = Len(g[i - 1]) + Len(b) /\ Len(g[i - 1]) \in Nat
        BY <3>2, <4>2, ConcatProperties, LenProperties
      <4> QED
        BY <3>2, <4>3
    <3> QED
      BY <3>3, <3>4
  <2> QED
    BY <2>2, <2>5, <2>6, EmptySeq
<1>11. ASSUME NEW i \in 1 .. n
       PROVE  c[i] = e[i] /\ d[i] = h[i]
  <2>1. n - i \in 0 .. n - 1 /\ n - (n - i) = i
    BY <1>1
  <2>2. f[i] = g[i]
    BY <1>7, <1>10, <2>1
  <2>3. CASE i = 1
    <3>1. e[1] \in Byte /\ h[1] \in Seq(Byte)
      BY <1>2
    <3>2. Block(e[1], h[1]) \in Seq(Nat)
      BY <3>1, BlockBytes
    <3>3. <<>> \o Block(e[1], h[1]) = g[1]
      BY <1>2, <3>2, ConcatEmptySeq
    <3>4. SameStream(<<>>, c[1], d[1], <<>>, e[1], h[1])
      BY <1>9, <2>2, <2>3, <3>3 DEF SameStream
    <3> QED
      BY <1>9, <2>3, <3>1, <3>4, LastBlock
  <2>4. CASE i # 1
    <3>1. i \in 2 .. n
      BY <1>1, <2>4
    <3> QED
      BY <1>3, <1>10, <2>2, <3>1
  <2> QED
    BY <2>3, <2>4
<1>12. c = e /\ d = h
  BY <1>1, <1>2, <1>10, <1>11
<1> QED
  BY <1>10, <1>12

LEMMA StreamTellsDirs ==
  ASSUME NEW a, IsFileMap(a), NEW b, IsFileMap(b), DirStream(a) = DirStream(b)
  PROVE  a = b
<1> DEFINE n == Cardinality(DOMAIN a)
           c == Sorted(DOMAIN a)
           d == [i \in 1 .. n |-> a[c[i]]]
           m == Cardinality(DOMAIN b)
           e == Sorted(DOMAIN b)
           h == [i \in 1 .. m |-> b[e[i]]]
<1>1. /\ \A x \in DOMAIN a : \E i \in 1 .. n : c[i] = x
      /\ \A i \in 1 .. n : c[i] \in DOMAIN a
  BY StreamOfFiles
<1>2. PICK f : IsStream(f, c, d, n) /\ DirStream(a) = f[n]
  BY StreamOfFiles
<1>3. /\ \A x \in DOMAIN b : \E i \in 1 .. m : e[i] = x
      /\ \A i \in 1 .. m : e[i] \in DOMAIN b
  BY StreamOfFiles
<1>4. PICK g : IsStream(g, e, h, m) /\ DirStream(b) = g[m]
  BY StreamOfFiles
<1>5. \A i \in 1 .. n : d[i] = a[c[i]]
  OBVIOUS
<1>6. \A i \in 1 .. m : h[i] = b[e[i]]
  OBVIOUS
<1> HIDE DEF n, c, d, m, e, h
<1>7. n = m /\ c = e /\ d = h
  <2>1. n \in Nat /\ m \in Nat
    BY <1>2, <1>4 DEF IsStream
  <2>2. f[n] = g[m]
    BY <1>2, <1>4
  <2>3. CASE n <= m
    BY <1>2, <1>4, <2>2, <2>3, BlocksAgree
  <2>4. CASE m <= n
    BY <1>2, <1>4, <2>2, <2>4, BlocksAgree
  <2> QED
    BY <2>1, <2>3, <2>4
<1>8. DOMAIN a = DOMAIN b
  BY <1>1, <1>3, <1>7
<1>9. \A x \in DOMAIN a : a[x] = b[x]
  BY <1>1, <1>5, <1>6, <1>7
<1> QED
  BY <1>8, <1>9 DEF IsFileMap

(* A directory ends in a NUL and a file has none.                          *)
LEMMA DirIsNoFile ==
  ASSUME NEW files, IsFileMap(files), NEW bytes \in Seq(Byte)
  PROVE  DirStream(files) # bytes
<1> DEFINE n == Cardinality(DOMAIN files)
           c == Sorted(DOMAIN files)
           d == [i \in 1 .. n |-> files[c[i]]]
<1>1. PICK f : IsStream(f, c, d, n) /\ DirStream(files) = f[n]
  BY StreamOfFiles
<1> HIDE DEF n, c, d
<1>2. /\ n \in Nat \ {0} /\ c[n] \in Byte /\ d[n] \in Seq(Byte)
      /\ (n = 1 => f[n] = Block(c[n], d[n]))
      /\ (n # 1 => f[n - 1] \in Seq(Nat) /\ f[n] = f[n - 1] \o Block(c[n], d[n]))
  <2>1. n \in Nat \ {0} /\ n \in 1 .. n /\ (n # 1 => n \in 2 .. n /\ n - 1 \in 1 .. n)
    BY <1>1 DEF IsStream
  <2> QED
    BY <1>1, <2>1 DEF IsStream
<1> DEFINE b == Block(c[n], d[n])
<1>3. b \in Seq(Nat) /\ Len(b) \in Nat \ {0} /\ b[Len(b)] = Nul
  BY <1>2, BlockBytes
<1> HIDE DEF b
<1>4. Len(f[n]) \in Nat \ {0} /\ f[n][Len(f[n])] = Nul
  <2>1. CASE n = 1
    BY <1>2, <1>3, <2>1 DEF b
  <2>2. CASE n # 1
    <3> DEFINE x == f[n - 1]
    <3>1. x \in Seq(Nat) /\ f[n] = x \o b /\ Len(x) \in Nat
      BY <1>2, <2>2, LenProperties DEF b
    <3> HIDE DEF x
    <3>2. /\ Len(f[n]) = Len(x) + Len(b)
          /\ \A i \in 1 .. Len(x) + Len(b) :
               f[n][i] = IF i <= Len(x) THEN x[i] ELSE b[i - Len(x)]
      BY <1>3, <3>1, ConcatProperties
    <3>3. /\ Len(x) + Len(b) \in 1 .. Len(x) + Len(b) /\ ~(Len(x) + Len(b) <= Len(x))
          /\ (Len(x) + Len(b)) - Len(x) = Len(b)
      BY <1>3, <3>1
    <3>4. f[n][Len(f[n])] = b[Len(b)]
      BY <3>2, <3>3
    <3> QED
      BY <1>3, <3>1, <3>2, <3>4
  <2> QED
    BY <2>1, <2>2
<1>5. \A i \in 1 .. Len(bytes) : bytes[i] # Nul
  <2>1. \A i \in 1 .. Len(bytes) : bytes[i] \in Byte
    BY ElementOfSeq
  <2> QED
    BY <2>1 DEF Byte
<1> QED
  BY <1>1, <1>4, <1>5

(***************************************************************************)
(* Over text a path hash tells contents apart.                             *)
(***************************************************************************)
LEMMA PathHashTells ==
  ASSUME NEW a \in Contents, NEW b \in Contents, PathHash(a) = PathHash(b)
  PROVE  a = b
<1> DEFINE Fits(x) ==
             \/ x.is = "file" /\ x = File(x.bytes) /\ x.bytes \in Seq(Byte)
             \/ x.is = "dir" /\ x = Dir(x.files) /\ IsFileMap(x.files)
<1>1. \A x \in Contents : Fits(x)
  BY ContentsAreText DEF Byte, IsFileMap
<1>2. Fits(a) /\ Fits(b)
  BY <1>1
<1>3. CASE a.is = "file" /\ b.is = "file"
  BY <1>2, <1>3 DEF PathHash
<1>4. CASE a.is = "dir" /\ b.is = "dir"
  <2>1. IsFileMap(a.files) /\ IsFileMap(b.files) /\ DirStream(a.files) = DirStream(b.files)
    BY <1>2, <1>4 DEF PathHash
  <2>2. a.files = b.files
    BY <2>1, StreamTellsDirs
  <2> QED
    BY <1>2, <1>4, <2>2
<1>5. CASE a.is = "dir" /\ b.is = "file"
  <2>1. IsFileMap(a.files) /\ b.bytes \in Seq(Byte) /\ DirStream(a.files) = b.bytes
    BY <1>2, <1>5 DEF PathHash
  <2> QED
    BY <2>1, DirIsNoFile
<1>6. CASE a.is = "file" /\ b.is = "dir"
  <2>1. IsFileMap(b.files) /\ a.bytes \in Seq(Byte) /\ DirStream(b.files) = a.bytes
    BY <1>2, <1>6 DEF PathHash
  <2> QED
    BY <2>1, DirIsNoFile
<1> QED
  BY <1>2, <1>3, <1>4, <1>5, <1>6

-----------------------------------------------------------------------------
(***************************************************************************)
(* ResolvePolicy is recursive over compositions.  Resolution is one step   *)
(* of it; g holds the results of the policies in p.                        *)
(***************************************************************************)
Resolution(g, p, cmd, w) ==
  CASE p.policy = "none" -> [tag |-> "none"]
    [] p.policy = "forever" ->
         [tag |-> "forever", cmd |-> cmd, env |-> EnvSubset(p.env_keys, w)]
    [] p.policy = "ttl" ->
         [tag |-> "ttl", bucket |-> w.now \div p.duration,
          cmd |-> cmd, env |-> EnvSubset(p.env_keys, w)]
    [] p.policy = "on_change" ->
         [tag |-> "sha",
          hashes |-> [i \in DOMAIN p.paths |-> PathHash(w.files[p.paths[i]])]]
    [] OTHER ->
         [tag |-> "compose", parts |-> [i \in DOMAIN p.subs |-> g[p.subs[i]]]]

Resolves(g, D, cmd, w) == g = [p \in D |-> Resolution(g, p, cmd, w)]

\* A set of policies that holds those its compositions are made of.
HoldsParts(D) ==
  /\ D \subseteq Policies
  /\ \A p \in D : p.policy = "compose" => \A i \in DOMAIN p.subs : p.subs[i] \in D

AgreeOnParts(g, h, p) ==
  p.policy = "compose" => \A i \in DOMAIN p.subs : g[p.subs[i]] = h[p.subs[i]]

LEMMA PolicyKnown ==
  ASSUME NEW p \in Policies
  PROVE  /\ p.policy \in {"none", "forever", "ttl", "on_change", "compose"}
         /\ p.policy = "compose" => p.subs \in Seq(Policies)
<1>1. IsPolicy(p)
  BY PoliciesAreKnown
<1> QED
  BY <1>1 DEF IsPolicy

LEMMA ResolutionOfParts ==
  ASSUME NEW g, NEW h, NEW p \in Policies, NEW cmd, NEW w, AgreeOnParts(g, h, p)
  PROVE  Resolution(g, p, cmd, w) = Resolution(h, p, cmd, w)
<1>1. p.policy = "compose" =>
        [i \in DOMAIN p.subs |-> g[p.subs[i]]] = [i \in DOMAIN p.subs |-> h[p.subs[i]]]
  BY DEF AgreeOnParts
<1>2. CASE p.policy = "compose"
  BY <1>1, <1>2 DEF Resolution
<1>3. CASE p.policy # "compose"
  BY <1>3, PolicyKnown DEF Resolution
<1> QED
  BY <1>2, <1>3

(* The least of some policies: none of them is a part of it.               *)
LEMMA InnermostPolicy ==
  ASSUME NEW S, S \subseteq Policies, S # {}
  PROVE  \E p \in S : p.policy = "compose" => \A i \in DOMAIN p.subs : p.subs[i] \notin S
BY PoliciesNest

LEMMA ResolutionsAgree ==
  ASSUME NEW cmd, NEW w, NEW D, NEW E, HoldsParts(D), HoldsParts(E),
         NEW g, NEW h, Resolves(g, D, cmd, w), Resolves(h, E, cmd, w)
  PROVE  \A p \in D \cap E : g[p] = h[p]
<1> DEFINE S == {p \in D \cap E : g[p] # h[p]}
<1> SUFFICES ASSUME S # {} PROVE FALSE
  OBVIOUS
<1>1. S \subseteq Policies
  BY DEF HoldsParts
<1>2. PICK p \in S : p.policy = "compose" => \A i \in DOMAIN p.subs : p.subs[i] \notin S
  <2> HIDE DEF S
  <2> QED
    BY <1>1, InnermostPolicy
<1>3. AgreeOnParts(g, h, p)
  BY <1>2 DEF AgreeOnParts, HoldsParts
<1>4. g[p] = Resolution(g, p, cmd, w) /\ h[p] = Resolution(h, p, cmd, w)
  BY <1>2 DEF Resolves
<1> QED
  BY <1>1, <1>2, <1>3, <1>4, ResolutionOfParts

LEMMA ResolutionExists ==
  ASSUME NEW cmd, NEW w
  PROVE  \E g : Resolves(g, Policies, cmd, w)
<1> DEFINE Solved == {p \in Policies : \E D \in SUBSET Policies :
                        HoldsParts(D) /\ p \in D /\ \E g : Resolves(g, D, cmd, w)}
           Value(p) == CHOOSE v : \E D \in SUBSET Policies : \E g :
                         HoldsParts(D) /\ p \in D /\ Resolves(g, D, cmd, w) /\ v = g[p]
           G == [p \in Solved |-> Value(p)]
<1>1. ASSUME NEW D \in SUBSET Policies, HoldsParts(D), NEW g, Resolves(g, D, cmd, w), NEW p \in D
      PROVE  p \in Solved /\ G[p] = g[p]
  <2>1. p \in Solved
    BY <1>1
  <2>2. PICK E, h : E \in SUBSET Policies /\ HoldsParts(E) /\ p \in E /\ Resolves(h, E, cmd, w) /\ Value(p) = h[p]
    <3> DEFINE Good(v) == \E F \in SUBSET Policies : \E h :
                            HoldsParts(F) /\ p \in F /\ Resolves(h, F, cmd, w) /\ v = h[p]
    <3>1. Good(g[p])
      BY <1>1
    <3>2. Good(Value(p))
      <4> HIDE DEF Good
      <4>1. Good(CHOOSE v : Good(v))
        BY <3>1
      <4> QED
        BY <4>1 DEF Good
    <3> QED
      BY <3>2
  <2> HIDE DEF Value
  <2>3. h[p] = g[p]
    BY <1>1, <2>2, ResolutionsAgree
  <2> QED
    BY <2>1, <2>2, <2>3
<1>2. HoldsParts(Solved)
  BY <1>1 DEF HoldsParts
<1>3. Resolves(G, Solved, cmd, w)
  <2>1. ASSUME NEW p \in Solved
        PROVE  G[p] = Resolution(G, p, cmd, w)
    <3>1. PICK D, g : D \in SUBSET Policies /\ HoldsParts(D) /\ p \in D /\ Resolves(g, D, cmd, w)
      BY <2>1
    <3> HIDE DEF G, Solved
    <3>2. \A q \in D : G[q] = g[q]
      BY <1>1, <3>1
    <3>3. AgreeOnParts(G, g, p)
      BY <3>1, <3>2 DEF AgreeOnParts, HoldsParts
    <3>4. g[p] = Resolution(g, p, cmd, w)
      BY <3>1 DEF Resolves
    <3> QED
      BY <3>1, <3>2, <3>3, <3>4, ResolutionOfParts
  <2>2. G = [p \in Solved |-> G[p]]
    OBVIOUS
  <2> HIDE DEF G, Solved
  <2> QED
    BY <2>1, <2>2 DEF Resolves
<1>4. ASSUME Policies \ Solved # {}
      PROVE  FALSE
  <2>1. PICK p \in Policies \ Solved :
          p.policy = "compose" => \A i \in DOMAIN p.subs : p.subs[i] \notin Policies \ Solved
    <3> HIDE DEF Solved
    <3>1. Policies \ Solved \subseteq Policies
      OBVIOUS
    <3> QED
      BY <1>4, <3>1, InnermostPolicy
  <2> DEFINE E == Solved \cup {p}
             h == [q \in E |-> IF q = p THEN Resolution(G, p, cmd, w) ELSE G[q]]
  <2>2. \A q \in Solved : h[q] = G[q] /\ q # p
    BY <2>1
  <2>3. h[p] = Resolution(G, p, cmd, w)
    OBVIOUS
  <2>4. h = [q \in E |-> h[q]]
    OBVIOUS
  <2> HIDE DEF G, h
  <2>5. HoldsParts(E) /\ E \in SUBSET Policies
    <3>1. p.policy = "compose" => \A i \in DOMAIN p.subs : p.subs[i] \in Policies
      BY PolicyKnown, ElementOfSeq, LenProperties
    <3> HIDE DEF Solved
    <3> QED
      BY <1>2, <2>1, <3>1 DEF HoldsParts
  <2>6. ASSUME NEW q \in E
        PROVE  h[q] = Resolution(h, q, cmd, w)
    <3>1. AgreeOnParts(G, h, q)
      <4> HIDE DEF Solved
      <4> QED
        BY <1>2, <2>1, <2>2, <2>5 DEF AgreeOnParts, HoldsParts
    <3>2. h[q] = Resolution(G, q, cmd, w)
      <4> HIDE DEF Solved
      <4> QED
        BY <1>3, <2>2, <2>3 DEF Resolves
    <3> QED
      BY <3>1, <3>2, ResolutionOfParts
  <2>7. Resolves(h, E, cmd, w)
    <3> HIDE DEF E
    <3> QED
      BY <2>4, <2>6 DEF Resolves
  <2>8. p \in Solved
    <3>1. p \in E
      OBVIOUS
    <3> QED
      BY <1>1, <2>5, <2>7, <3>1
  <2> QED
    BY <2>1, <2>8
<1> HIDE DEF G, Solved
<1>5. Solved = Policies
  BY <1>2, <1>4 DEF HoldsParts
<1> QED
  BY <1>3, <1>5

(* What ResolvePolicy makes of each policy, from one function for all.     *)
LEMMA ResolvedPolicies ==
  ASSUME NEW cmd, NEW w
  PROVE  \E g : \A p \in Policies :
           ResolvePolicy(p, cmd, w) = g[p] /\ g[p] = Resolution(g, p, cmd, w)
<1> DEFINE res == CHOOSE g : Resolves(g, Policies, cmd, w)
<1>1. Resolves(res, Policies, cmd, w)
  BY ResolutionExists
<1>2. ASSUME NEW p \in Policies
      PROVE  ResolvePolicy(p, cmd, w) = res[p]
  BY DEF ResolvePolicy, Resolves, Resolution
<1> HIDE DEF res
<1>3. \A p \in Policies : res[p] = Resolution(res, p, cmd, w)
  BY <1>1 DEF Resolves
<1> QED
  BY <1>2, <1>3

-----------------------------------------------------------------------------
(***************************************************************************)
(* Closure is recursive along `next`; whatever `next` is, the least closed *)
(* sets are a solution.                                                    *)
(***************************************************************************)
Reaches(f, next) == f = [y \in DOMAIN next |-> {y} \cup UNION {f[z] : z \in next[y]}]

LEMMA ClosureUnfolds ==
  ASSUME NEW next, \A y \in DOMAIN next : next[y] \subseteq DOMAIN next
  PROVE  \A y \in DOMAIN next :
           Closure(next, y) = {y} \cup UNION {Closure(next, z) : z \in next[y]}
<1> DEFINE D == DOMAIN next
           Closed(S) == \A z \in S : next[z] \subseteq S
           R(y) == {x \in D : \A S \in SUBSET D : y \in S /\ Closed(S) => x \in S}
           f == [y \in D |-> R(y)]
<1>1. ASSUME NEW y \in D
      PROVE  R(y) = {y} \cup UNION {R(z) : z \in next[y]}
  <2> DEFINE T == {y} \cup UNION {R(z) : z \in next[y]}
  <2>1. T \subseteq R(y)
    <3>1. y \in R(y)
      OBVIOUS
    <3>2. ASSUME NEW z \in next[y], NEW x \in R(z), NEW S \in SUBSET D, y \in S, Closed(S)
          PROVE  x \in S
      BY <3>2
    <3>3. ASSUME NEW z \in next[y], NEW x \in R(z)
          PROVE  x \in R(y)
      BY <3>2, <3>3
    <3> HIDE DEF R
    <3> QED
      BY <3>1, <3>3
  <2>2. T \in SUBSET D /\ y \in T /\ Closed(T)
    <3>1. T \in SUBSET D /\ y \in T
      OBVIOUS
    <3>2. \A z \in D : z \in R(z)
      OBVIOUS
    <3>3. ASSUME NEW z \in D, NEW x \in R(z), NEW v \in next[x]
          PROVE  v \in R(z)
      BY <3>3
    <3> HIDE DEF R
    <3>4. ASSUME NEW x \in T, NEW v \in next[x]
          PROVE  v \in T
      <4>1. CASE x = y
        BY <3>2, <3>4, <4>1
      <4>2. CASE x # y
        <5>1. PICK z \in next[y] : x \in R(z)
          BY <3>4, <4>2
        <5> QED
          BY <3>3, <3>4, <5>1
      <4> QED
        BY <4>1, <4>2
    <3> QED
      BY <3>1, <3>4
  <2>3. R(y) \subseteq T
    <3> HIDE DEF T, Closed
    <3> QED
      BY <2>2
  <2> QED
    BY <2>1, <2>3
<1>2. Reaches(f, next)
  <2>1. ASSUME NEW y \in D
        PROVE  R(y) = {y} \cup UNION {f[z] : z \in next[y]}
    <3>1. \A z \in next[y] : f[z] = R(z)
      OBVIOUS
    <3> HIDE DEF f, R
    <3> QED
      BY <1>1, <3>1
  <2>2. f = [y \in D |-> R(y)]
    OBVIOUS
  <2> HIDE DEF f, R
  <2> QED
    BY <2>1, <2>2 DEF Reaches
<1> DEFINE g == CHOOSE h : Reaches(h, next)
<1>3. Reaches(g, next)
  <2> HIDE DEF f
  <2> QED
    BY <1>2
<1>4. \A y : Closure(next, y) = g[y]
  BY DEF Closure, Reaches
<1> HIDE DEF g
<1>5. \A y \in D : g[y] = {y} \cup UNION {g[z] : z \in next[y]}
  BY <1>3 DEF Reaches
<1> QED
  BY <1>4, <1>5

(* A window of a TTL is the quotient of the time.                          *)
LEMMA Quotient ==
  ASSUME NEW t \in Nat, NEW d \in Nat \ {0}
  PROVE  /\ t \div d \in Nat /\ t \div d <= t
         /\ (t \div d) * d <= t /\ t < ((t \div d) + 1) * d
         /\ \A n \in Nat : n * d <= t /\ t < (n + 1) * d => n = t \div d
<1> DEFINE q == t \div d
<1>1. q \in Int /\ q * d <= t /\ t < (q + 1) * d
  OBVIOUS
<1> HIDE DEF q
<1>2. ASSUME NEW a \in Int, NEW b \in Int, a * d <= t, t < (b + 1) * d
      PROVE  a <= b
  <2> SUFFICES ASSUME b + 1 <= a PROVE FALSE
    OBVIOUS
  <2>1. (b + 1) * d <= a * d
    OBVIOUS
  <2>2. a * d \in Int /\ (b + 1) * d \in Int
    OBVIOUS
  <2> QED
    BY <1>2, <2>1, <2>2
<1>3. 0 <= q
  <2>1. 0 * d <= t
    OBVIOUS
  <2> QED
    BY <1>1, <1>2, <2>1
<1>4. q <= t
  <2>1. t < (t + 1) * d
    OBVIOUS
  <2> QED
    BY <1>1, <1>2, <2>1
<1>5. ASSUME NEW n \in Nat, n * d <= t, t < (n + 1) * d
      PROVE  n = q
  <2>1. n <= q /\ q <= n
    BY <1>1, <1>2, <1>5
  <2> QED
    BY <1>1, <2>1
<1> QED
  BY <1>1, <1>3, <1>4, <1>5 DEF q

LEMMA WindowIsQuotient ==
  ASSUME NEW d \in Nat \ {0}, NEW u \in Worlds, NEW v \in Worlds
  PROVE  u.now \div d = v.now \div d <=> SameWindow(d, u, v)
<1>1. u.now \in 0 .. Horizon /\ v.now \in 0 .. Horizon /\ Horizon \in Nat
  BY HorizonIsNat DEF Worlds
<1> DEFINE a == u.now
           b == v.now
<1>2. a \in Nat /\ b \in Nat /\ a <= Horizon
  BY <1>1
<1> HIDE DEF a, b
<1> DEFINE m == a \div d
           n == b \div d
<1>3. /\ m \in Nat /\ m <= a /\ m * d <= a /\ a < (m + 1) * d
      /\ \A k \in Nat : k * d <= a /\ a < (k + 1) * d => k = m
  BY <1>2, Quotient
<1>4. /\ n \in Nat /\ n * d <= b /\ b < (n + 1) * d
      /\ \A k \in Nat : k * d <= b /\ b < (k + 1) * d => k = n
  BY <1>2, Quotient
<1> HIDE DEF m, n
<1>5. ASSUME m = n
      PROVE  SameWindow(d, u, v)
  <2>1. m \in 0 .. Horizon
    BY <1>1, <1>2, <1>3
  <2> QED
    BY <1>3, <1>4, <1>5, <2>1 DEF SameWindow, a, b
<1>6. ASSUME SameWindow(d, u, v)
      PROVE  m = n
  <2>1. PICK k \in 0 .. Horizon : \A t \in {a, b} : k * d <= t /\ t < (k + 1) * d
    BY <1>6 DEF SameWindow, a, b
  <2> QED
    BY <1>1, <1>3, <1>4, <2>1
<1> QED
  BY <1>5, <1>6 DEF a, b, m, n

LEMMA EnvIsSubset ==
  ASSUME NEW K, NEW u, NEW v
  PROVE  EnvSubset(K, u) = EnvSubset(K, v) <=> SameEnv(K, u, v)
<1> DEFINE read(x) == IF x = None THEN Empty ELSE x
<1>1. EnvSubset(K, u) = [k \in K |-> read(u.env[k])] /\ EnvSubset(K, v) = [k \in K |-> read(v.env[k])]
  BY DEF EnvSubset
<1>2. \A x, y : read(x) = read(y) <=> x = y \/ {x, y} = {None, Empty}
  OBVIOUS
<1> HIDE DEF read
<1>3. EnvSubset(K, u) = EnvSubset(K, v) <=> \A k \in K : read(u.env[k]) = read(v.env[k])
  BY <1>1
<1> QED
  BY <1>2, <1>3 DEF SameEnv

(* A policy that is no composition resolves to the same exactly while what *)
(* it names is the same.                                                   *)
PartFails(p, w) ==
  \/ p.policy = "on_change" /\ \E i \in DOMAIN p.paths : w.files[p.paths[i]] = None
  \/ p.policy = "ttl" /\ p.duration = 0

LEMMA LeafResolution ==
  ASSUME NEW p \in Policies, p.policy \notin {"none", "compose"},
         NEW u \in Worlds, NEW v \in Worlds, ~PartFails(p, u), ~PartFails(p, v),
         NEW c, NEW d, NEW g, NEW h
  PROVE  Resolution(g, p, c, u) = Resolution(h, p, d, v) <=> PartHolds(p, c = d, u, v)
<1>1. IsPolicy(p)
  BY PoliciesAreKnown
<1>3. CASE p.policy = "forever"
  <2> DEFINE x == EnvSubset(p.env_keys, u)
             y == EnvSubset(p.env_keys, v)
  <2>1. /\ Resolution(g, p, c, u) = [tag |-> "forever", cmd |-> c, env |-> x]
        /\ Resolution(h, p, d, v) = [tag |-> "forever", cmd |-> d, env |-> y]
        /\ PartHolds(p, c = d, u, v) <=> c = d /\ SameEnv(p.env_keys, u, v)
    BY <1>3 DEF Resolution, PartHolds
  <2>2. x = y <=> SameEnv(p.env_keys, u, v)
    BY EnvIsSubset
  <2> HIDE DEF x, y
  <2> QED
    BY <2>1, <2>2
<1>4. CASE p.policy = "ttl"
  <2> DEFINE x == EnvSubset(p.env_keys, u)
             y == EnvSubset(p.env_keys, v)
             m == u.now \div p.duration
             n == v.now \div p.duration
  <2>1. /\ Resolution(g, p, c, u) = [tag |-> "ttl", bucket |-> m, cmd |-> c, env |-> x]
        /\ Resolution(h, p, d, v) = [tag |-> "ttl", bucket |-> n, cmd |-> d, env |-> y]
        /\ PartHolds(p, c = d, u, v)
             <=> c = d /\ SameEnv(p.env_keys, u, v) /\ SameWindow(p.duration, u, v)
    BY <1>4 DEF Resolution, PartHolds
  <2>2. x = y <=> SameEnv(p.env_keys, u, v)
    BY EnvIsSubset
  <2>3. p.duration \in Nat \ {0}
    BY <1>1, <1>4 DEF IsPolicy, PartFails
  <2>4. m = n <=> SameWindow(p.duration, u, v)
    BY <2>3, WindowIsQuotient
  <2> HIDE DEF x, y, m, n
  <2> QED
    BY <2>1, <2>2, <2>4
<1>5. CASE p.policy = "on_change"
  <2> DEFINE x == [i \in DOMAIN p.paths |-> PathHash(u.files[p.paths[i]])]
             y == [i \in DOMAIN p.paths |-> PathHash(v.files[p.paths[i]])]
             Same == \A i \in DOMAIN p.paths : u.files[p.paths[i]] = v.files[p.paths[i]]
  <2>1. /\ Resolution(g, p, c, u) = [tag |-> "sha", hashes |-> x]
        /\ Resolution(h, p, d, v) = [tag |-> "sha", hashes |-> y]
        /\ PartHolds(p, c = d, u, v) <=> Same
    BY <1>5 DEF Resolution, PartHolds
  <2>2. \A i \in DOMAIN p.paths : p.paths[i] \in Paths
    BY <1>1, <1>5, ElementOfSeq, LenProperties DEF IsPolicy
  <2>3. \A i \in DOMAIN p.paths : u.files[p.paths[i]] \in Contents /\ v.files[p.paths[i]] \in Contents
    BY <1>5, <2>2 DEF Worlds, PartFails
  <2>4. x = y <=> \A i \in DOMAIN p.paths : PathHash(u.files[p.paths[i]]) = PathHash(v.files[p.paths[i]])
    OBVIOUS
  <2>5. x = y <=> Same
    <3> HIDE DEF x, y
    <3> QED
      BY <2>3, <2>4, PathHashTells
  <2> HIDE DEF x, y, Same
  <2> QED
    BY <2>1, <2>5
<1> QED
  BY <1>3, <1>4, <1>5, PolicyKnown

LEMMA PartsUnfold ==
  ASSUME NEW p \in Policies
  PROVE  /\ p.policy # "compose" => Parts(p) = {p}
         /\ p.policy = "compose" =>
              /\ \A i \in DOMAIN p.subs : p.subs[i] \in Policies
              /\ Parts(p) = {p} \cup UNION {Parts(p.subs[i]) : i \in DOMAIN p.subs}
<1> DEFINE next == [q \in Policies |-> IF q.policy = "compose" THEN Range(q.subs) ELSE {}]
<1>1. \A q \in Policies : q.policy = "compose" => \A i \in DOMAIN q.subs : q.subs[i] \in Policies
  BY PolicyKnown, ElementOfSeq, LenProperties
<1>2. \A q \in DOMAIN next : next[q] \subseteq DOMAIN next
  BY <1>1 DEF Range
<1>3. \A q : Parts(q) = Closure(next, q)
  BY DEF Parts
<1>4. Closure(next, p) = {p} \cup UNION {Closure(next, q) : q \in next[p]}
  <2>1. p \in DOMAIN next
    OBVIOUS
  <2> HIDE DEF next
  <2> QED
    BY <1>2, <2>1, ClosureUnfolds
<1>5. next[p] = IF p.policy = "compose" THEN {p.subs[i] : i \in DOMAIN p.subs} ELSE {}
  BY DEF Range
<1> HIDE DEF next
<1>6. Parts(p) = {p} \cup UNION {Parts(q) : q \in next[p]}
  BY <1>3, <1>4
<1> QED
  BY <1>1, <1>5, <1>6

(***************************************************************************)
(* Over two worlds it can be resolved in, a policy resolves to the same    *)
(* exactly while each of its parts holds.                                  *)
(***************************************************************************)
PolicyStands(p, same, u, v) == \A q \in Parts(p) : PartHolds(q, same, u, v)

LEMMA PolicyTells ==
  ASSUME NEW p \in Policies, NEW u \in Worlds, NEW v \in Worlds,
         ~Unresolvable(p, u), ~Unresolvable(p, v),
         \A q \in Parts(p) : q.policy # "none", NEW c, NEW d
  PROVE  ResolvePolicy(p, c, u) = ResolvePolicy(p, d, v) <=> PolicyStands(p, c = d, u, v)
<1>1. PICK g : \A q \in Policies : ResolvePolicy(q, c, u) = g[q] /\ g[q] = Resolution(g, q, c, u)
  BY ResolvedPolicies
<1>2. PICK h : \A q \in Policies : ResolvePolicy(q, d, v) = h[q] /\ h[q] = Resolution(h, q, d, v)
  BY ResolvedPolicies
<1> DEFINE Good(q) == g[q] = h[q] <=> PolicyStands(q, c = d, u, v)
           Sound(q) == /\ ~Unresolvable(q, u) /\ ~Unresolvable(q, v)
                       /\ \A r \in Parts(q) : r.policy # "none"
           S == {q \in Policies : Sound(q) /\ ~Good(q)}
<1>3. \A q, w : Unresolvable(q, w) <=> \E r \in Parts(q) : PartFails(r, w)
  BY DEF Unresolvable, PartFails
<1>4. SUFFICES ASSUME S # {} PROVE FALSE
  <2>1. p \notin S => Good(p)
    OBVIOUS
  <2> HIDE DEF Good, S
  <2> QED
    BY <1>1, <1>2, <1>4, <2>1 DEF Good
<1>5. PICK q \in S : q.policy = "compose" => \A i \in DOMAIN q.subs : q.subs[i] \notin S
  <2>1. S \subseteq Policies
    OBVIOUS
  <2> HIDE DEF S
  <2> QED
    BY <1>4, <2>1, InnermostPolicy
<1>6. q \in Policies /\ Sound(q) /\ ~Good(q)
  OBVIOUS
<1>7. CASE q.policy # "compose"
  <2>1. Parts(q) = {q}
    BY <1>6, <1>7, PartsUnfold
  <2>2. ~PartFails(q, u) /\ ~PartFails(q, v) /\ q.policy # "none"
    BY <1>3, <1>6, <2>1
  <2>3. Resolution(g, q, c, u) = Resolution(h, q, d, v) <=> PartHolds(q, c = d, u, v)
    BY <1>6, <1>7, <2>2, LeafResolution
  <2>4. g[q] = Resolution(g, q, c, u) /\ h[q] = Resolution(h, q, d, v)
    BY <1>1, <1>2, <1>6
  <2> QED
    BY <1>6, <2>1, <2>3, <2>4 DEF PolicyStands
<1>8. CASE q.policy = "compose"
  <2>1. /\ \A i \in DOMAIN q.subs : q.subs[i] \in Policies
        /\ Parts(q) = {q} \cup UNION {Parts(q.subs[i]) : i \in DOMAIN q.subs}
    BY <1>6, <1>8, PartsUnfold
  <2>2. \A i \in DOMAIN q.subs : Sound(q.subs[i])
    <3>1. \A i \in DOMAIN q.subs : Parts(q.subs[i]) \subseteq Parts(q)
      BY <2>1
    <3> QED
      BY <1>3, <1>6, <3>1
  <2>3. \A i \in DOMAIN q.subs : Good(q.subs[i])
    <3> HIDE DEF Good, Sound
    <3> QED
      BY <1>5, <1>8, <2>1, <2>2
  <2>4. PolicyStands(q, c = d, u, v)
          <=> \A i \in DOMAIN q.subs : PolicyStands(q.subs[i], c = d, u, v)
    <3>1. PartHolds(q, c = d, u, v)
      BY <1>8 DEF PartHolds
    <3> QED
      BY <2>1, <3>1 DEF PolicyStands
  <2>5. g[q] = h[q] <=> \A i \in DOMAIN q.subs : g[q.subs[i]] = h[q.subs[i]]
    <3> DEFINE x == [i \in DOMAIN q.subs |-> g[q.subs[i]]]
               y == [i \in DOMAIN q.subs |-> h[q.subs[i]]]
    <3>1. g[q] = [tag |-> "compose", parts |-> x]
      BY <1>1, <1>6, <1>8 DEF Resolution
    <3>2. h[q] = [tag |-> "compose", parts |-> y]
      BY <1>2, <1>6, <1>8 DEF Resolution
    <3>3. x = y <=> \A i \in DOMAIN q.subs : g[q.subs[i]] = h[q.subs[i]]
      OBVIOUS
    <3> HIDE DEF x, y
    <3> QED
      BY <3>1, <3>2, <3>3
  <2> QED
    BY <1>6, <2>3, <2>4, <2>5
<1> QED
  BY <1>7, <1>8

-----------------------------------------------------------------------------
(***************************************************************************)
(* The inductive invariant.  While a render runs, every cached step behind *)
(* `at` was sound and has its key, made over that of its parent, and       *)
(* `resolved` holds the cache key of the last step of each step key; what  *)
(* a finished render recorded stands over a version of the same pipeline.  *)
(***************************************************************************)
StateTyped ==
  /\ project \in Projects /\ doc \in Versions[project]
  /\ stage \in {"idle", "resolve"}
  /\ at \in Nat \ {0}
  /\ history \in Seq(Range(history))
  /\ world \in Worlds

Passed == {i \in Cached(doc) : i < at}

\* The key of the step i of d, where k has the keys of the steps before it.
KeyOf(d, k, i, w) ==
  CacheKey(d[i], IF d[i].builds_in = None THEN [root |-> "scratch"] ELSE k[ParentIndex(d, i)], w)

LastOfItsKey(i) == \A j \in Passed : doc[j].key = doc[i].key => j <= i

ResolvedSoFar ==
  stage = "resolve" =>
    /\ DOMAIN cacheKey = DOMAIN doc
    /\ DOMAIN resolved = {doc[i].key : i \in Passed}
    /\ \A i \in Passed :
         /\ LastOfItsKey(i) => resolved[doc[i].key] = cacheKey[i]
         /\ cacheKey[i] = KeyOf(doc, cacheKey, i, world)
         /\ ~Bad(doc, i, world)

RecordIsRight(b) ==
  /\ b.doc \in Versions[project] /\ b.world \in Worlds
  /\ b.outcome = "raised" <=> \E i \in Cached(b.doc) : Bad(b.doc, i, b.world)
  /\ b.outcome = "rendered" =>
       \A i \in Cached(b.doc) : b.cacheKey[i] = KeyOf(b.doc, b.cacheKey, i, b.world)

HistoryIsRight == \A n \in DOMAIN history : RecordIsRight(history[n])

KeysInv == StateTyped /\ ResolvedSoFar /\ HistoryIsRight

LEMMA KeysInit == Init => KeysInv
<1> SUFFICES ASSUME Init PROVE KeysInv
  OBVIOUS
<1>1. history \in Seq(Range(history)) /\ DOMAIN history = {}
  BY EmptySeq DEF Init
<1> QED
  BY <1>1 DEF Init, KeysInv, StateTyped, ResolvedSoFar, HistoryIsRight

(* What is recorded is recorded with the verdict of the whole document.    *)
LEMMA RecordKeeps ==
  ASSUME KeysInv, NEW outcome \in {"raised", "rendered"}, Record(outcome),
         outcome = "raised" <=> \E i \in Cached(doc) : Bad(doc, i, world),
         outcome = "rendered" => \A i \in Cached(doc) : cacheKey[i] = KeyOf(doc, cacheKey, i, world)
  PROVE  KeysInv'
<1> DEFINE b == [doc |-> doc, world |-> world, outcome |-> outcome, cacheKey |-> cacheKey]
           n == Len(history)
<1>1. /\ history' = Append(history, b) /\ stage' = "idle"
      /\ UNCHANGED <<project, doc, world, at, resolved, cacheKey>>
  BY DEF Record
<1>2. /\ history' \in Seq(Range(history'))
      /\ n \in Nat /\ DOMAIN history = 1 .. n /\ DOMAIN history' = 1 .. n + 1
      /\ \A i \in 1 .. n : history'[i] = history[i]
      /\ history'[n + 1] = b
  BY <1>1, AppendAny DEF KeysInv, StateTyped
<1>3. /\ b.doc = doc /\ b.world = world /\ b.outcome = outcome /\ b.cacheKey = cacheKey
  OBVIOUS
<1>4. doc \in Versions[project] /\ world \in Worlds
  BY DEF KeysInv, StateTyped
<1> HIDE DEF b, n
<1>5. RecordIsRight(b)
  BY <1>3, <1>4 DEF RecordIsRight
<1>6. \A r : RecordIsRight(r)' = RecordIsRight(r)
  BY <1>1 DEF RecordIsRight
<1>7. \A i \in 1 .. n + 1 : i \in 1 .. n \/ i = n + 1
  BY <1>2
<1>8. HistoryIsRight'
  <2>1. \A i \in 1 .. n : RecordIsRight(history[i])
    BY <1>2 DEF KeysInv, HistoryIsRight
  <2>2. \A i \in 1 .. n + 1 : RecordIsRight(history'[i])
    BY <1>2, <1>5, <1>7, <2>1
  <2> QED
    BY <1>2, <1>6, <2>2 DEF HistoryIsRight
<1>9. StateTyped'
  BY <1>1, <1>2 DEF KeysInv, StateTyped
<1>10. ResolvedSoFar'
  BY <1>1 DEF ResolvedSoFar
<1> QED
  BY <1>8, <1>9, <1>10 DEF KeysInv

(* The bearers of the key a step builds in are among the steps passed, and *)
(* what `resolved` holds under that key is the cache key of the last.      *)
LEMMA ParentIsResolved ==
  ASSUME KeysInv, AtCached, doc[at].builds_in # None
  PROVE  /\ ParentKnown <=> Bearers(doc, at) # {}
         /\ ParentKnown => LookupParent = cacheKey[ParentIndex(doc, at)]
<1> DEFINE p == ParentIndex(doc, at)
<1>1. /\ stage = "resolve" /\ at \in Cached(doc) /\ IsLowered(doc)
      /\ DOMAIN resolved = {doc[i].key : i \in Passed}
      /\ \A i \in Passed : LastOfItsKey(i) => resolved[doc[i].key] = cacheKey[i]
  BY VersionIsLowered DEF AtCached, KeysInv, StateTyped, ResolvedSoFar
<1>2. Bearers(doc, at) = {i \in Passed : doc[i].key = doc[at].builds_in}
  BY DEF Bearers, Passed
<1>3. ParentKnown <=> Bearers(doc, at) # {}
  BY <1>1, <1>2 DEF ParentKnown
<1>4. ASSUME ParentKnown
      PROVE  LookupParent = cacheKey[p]
  <2>1. p \in Bearers(doc, at) /\ \A j \in Bearers(doc, at) : j <= p
    BY <1>1, <1>3, <1>4, ParentIsLast
  <2> HIDE DEF p
  <2>2. p \in Passed /\ doc[p].key = doc[at].builds_in /\ LastOfItsKey(p)
    BY <1>2, <2>1 DEF LastOfItsKey
  <2> QED
    BY <1>1, <2>2 DEF LookupParent
<1> QED
  BY <1>3, <1>4 DEF p

LEMMA KeysStep ==
  ASSUME KeysInv, [Next]_vars
  PROVE  KeysInv'
<1>1. /\ project \in Projects /\ doc \in Versions[project] /\ IsLowered(doc)
      /\ stage \in {"idle", "resolve"} /\ at \in Nat \ {0} /\ world \in Worlds
      /\ history \in Seq(Range(history)) /\ HistoryIsRight /\ ResolvedSoFar
  BY VersionIsLowered DEF KeysInv, StateTyped
<1>2. Len(doc) \in Nat /\ DOMAIN doc = 1 .. Len(doc)
  BY <1>1, LenProperties DEF IsLowered
<1>3. ASSUME UNCHANGED <<project, history>>
      PROVE  HistoryIsRight'
  BY <1>1, <1>3 DEF HistoryIsRight, RecordIsRight
<1>4. CASE Change
  <2>1. stage = "idle" /\ UNCHANGED <<project, stage, at, resolved, cacheKey, history>>
    BY <1>4 DEF Change
  <2>2. doc' \in Versions[project] /\ world' \in Worlds
    BY <1>1, <1>4 DEF Change
  <2> QED
    BY <1>1, <1>3, <2>1, <2>2 DEF KeysInv, StateTyped, ResolvedSoFar
<1>5. CASE StartRender
  <2>1. /\ stage' = "resolve" /\ at' = 1 /\ resolved' = <<>>
        /\ cacheKey' = [i \in DOMAIN doc |-> None] /\ UNCHANGED <<project, doc, world, history>>
    BY <1>5 DEF StartRender
  <2>2. Passed' = {}
    <3>1. \A i \in Cached(doc) : ~(i < 1)
      BY <1>2 DEF Cached, Commands
    <3> QED
      BY <2>1, <3>1 DEF Passed, Cached, Commands
  <2>3. DOMAIN resolved' = {}
    BY <2>1
  <2>4. ResolvedSoFar'
    BY <2>1, <2>2, <2>3 DEF ResolvedSoFar
  <2>5. StateTyped'
    BY <1>1, <2>1 DEF StateTyped
  <2> QED
    BY <1>3, <2>1, <2>4, <2>5 DEF KeysInv
<1>6. CASE SkipUncached
  <2>1. /\ stage = "resolve" /\ at <= Len(doc) /\ at \notin Cached(doc) /\ at' = at + 1
        /\ UNCHANGED <<project, doc, world, stage, resolved, cacheKey, history>>
    BY <1>6 DEF SkipUncached
  <2>2. \A i \in Cached(doc) : i < at + 1 <=> i < at
    BY <1>1, <1>2, <2>1 DEF Cached, Commands
  <2>3. Passed' = Passed
    BY <2>1, <2>2 DEF Passed, Cached, Commands
  <2>4. ResolvedSoFar'
    BY <1>1, <2>1, <2>3 DEF ResolvedSoFar, LastOfItsKey
  <2>5. StateTyped'
    BY <1>1, <2>1 DEF StateTyped
  <2> QED
    BY <1>3, <2>1, <2>4, <2>5 DEF KeysInv
<1>7. CASE ResolveStep
  <2> DEFINE key == CacheKey(doc[at], LookupParent, world)
  <2>1. /\ AtCached /\ ParentKnown /\ ~Unresolvable(doc[at].cache, world)
        /\ cacheKey' = [cacheKey EXCEPT ![at] = key]
        /\ resolved' = Put(resolved, doc[at].key, key)
        /\ at' = at + 1 /\ UNCHANGED <<project, doc, world, stage, history>>
    BY <1>7 DEF ResolveStep
  <2>2. stage = "resolve" /\ at \in Cached(doc) /\ at \in DOMAIN doc
    BY <2>1 DEF AtCached, Cached, Commands
  <2> DEFINE Over(i) == IF doc[i].builds_in = None THEN [root |-> "scratch"]
                        ELSE cacheKey[ParentIndex(doc, i)]
  <2> HIDE DEF key
  <2>3. \A i \in Cached(doc) : i < at + 1 <=> i < at \/ i = at
    BY <1>1, <1>2 DEF Cached, Commands
  <2>4. Passed' = Passed \cup {at}
    BY <2>1, <2>2, <2>3 DEF Passed, Cached, Commands
  <2>5. /\ DOMAIN cacheKey = DOMAIN doc /\ DOMAIN resolved = {doc[i].key : i \in Passed}
        /\ \A i \in Passed : /\ LastOfItsKey(i) => resolved[doc[i].key] = cacheKey[i]
                             /\ cacheKey[i] = KeyOf(doc, cacheKey, i, world)
                             /\ ~Bad(doc, i, world)
    BY <1>1, <2>2 DEF ResolvedSoFar
  <2>6. DOMAIN cacheKey' = DOMAIN doc /\ cacheKey'[at] = key
        /\ \A i \in DOMAIN doc : i # at => cacheKey'[i] = cacheKey[i]
    BY <2>1, <2>2, <2>5
  <2>7. ~Bad(doc, at, world)
    BY <2>1, ParentIsResolved DEF Bad, ParentKnown
  <2>8. \A i \in Passed' : ~Bad(doc, i, world) /\ i \in Cached(doc) /\ i <= at
    BY <1>1, <1>2, <2>2, <2>4, <2>5, <2>7 DEF Passed, Cached, Commands
  <2>9. ASSUME NEW i \in Passed', doc[i].builds_in # None
        PROVE  ParentIndex(doc, i) \in Passed
    <3> DEFINE p == ParentIndex(doc, i)
    <3>1. p \in Cached(doc) /\ p < i
      <4>1. p \in Bearers(doc, i)
        BY <1>1, <2>8, <2>9, ParentIsLast DEF Bad
      <4> HIDE DEF p
      <4> QED
        BY <4>1 DEF Bearers
    <3> HIDE DEF p
    <3>2. p < at
      BY <1>1, <1>2, <2>8, <3>1 DEF Cached, Commands
    <3> QED
      BY <3>1, <3>2 DEF Passed, p
  <2>10. \A i \in Passed : i \in DOMAIN doc /\ i # at /\ i < at /\ i \in Nat
    BY <1>1, <1>2 DEF Passed, Cached, Commands
  <2>11. ASSUME NEW i \in Passed'
         PROVE  KeyOf(doc, cacheKey', i, world) = CacheKey(doc[i], Over(i), world)
    <3>1. doc[i].builds_in # None => cacheKey'[ParentIndex(doc, i)] = cacheKey[ParentIndex(doc, i)]
      BY <2>6, <2>9, <2>10
    <3> QED
      BY <3>1 DEF KeyOf
  <2>12. LookupParent = Over(at)
    BY <2>1, ParentIsResolved DEF LookupParent
  <2>13. \A i \in Passed' : cacheKey'[i] = KeyOf(doc, cacheKey', i, world)
    <3>1. \A i \in Passed : cacheKey[i] = CacheKey(doc[i], Over(i), world)
      BY <2>5 DEF KeyOf
    <3>2. key = CacheKey(doc[at], Over(at), world)
      BY <2>12 DEF key
    <3> HIDE DEF Over
    <3> QED
      BY <2>4, <2>6, <2>10, <2>11, <3>1, <3>2
  <2>14. /\ DOMAIN resolved' = {doc[i].key : i \in Passed'}
         /\ \A i \in Passed' : LastOfItsKey(i)' => resolved'[doc[i].key] = cacheKey'[i]
    <3>1. /\ DOMAIN resolved' = {doc[i].key : i \in Passed} \cup {doc[at].key}
          /\ resolved'[doc[at].key] = key
          /\ \A x \in DOMAIN resolved : x # doc[at].key => resolved'[x] = resolved[x]
      BY <2>1, <2>5 DEF Put
    <3>2. ASSUME NEW i \in Passed, LastOfItsKey(i)'
          PROVE  resolved'[doc[i].key] = cacheKey'[i]
      <4>1. \A j \in Passed \cup {at} : doc[j].key = doc[i].key => j <= i
        BY <2>1, <2>4, <3>2 DEF LastOfItsKey
      <4>2. doc[at].key # doc[i].key /\ LastOfItsKey(i)
        BY <1>1, <2>10, <4>1 DEF LastOfItsKey
      <4>3. doc[i].key \in DOMAIN resolved /\ resolved[doc[i].key] = cacheKey[i]
        BY <2>5, <4>2
      <4> QED
        BY <2>6, <2>10, <3>1, <4>2, <4>3
    <3>3. DOMAIN resolved' = {doc[i].key : i \in Passed'}
      BY <2>4, <3>1
    <3> QED
      BY <2>4, <2>6, <3>1, <3>2, <3>3
  <2>15. ResolvedSoFar'
    <3>1. UNCHANGED <<doc, world>>
      BY <2>1
    <3>2. \A i : KeyOf(doc, cacheKey, i, world)' = KeyOf(doc, cacheKey', i, world)
      BY <3>1 DEF KeyOf, ParentIndex, Bearers, Commands, CacheKey, ResolvePolicy, EnvSubset
    <3>3. \A i : Bad(doc, i, world)' <=> Bad(doc, i, world)
      BY <3>1 DEF Bad, Bearers, Commands, Cached, Unresolvable
    <3> QED
      BY <2>6, <2>8, <2>13, <2>14, <3>1, <3>2, <3>3 DEF ResolvedSoFar
  <2>16. StateTyped'
    BY <1>1, <2>1 DEF StateTyped
  <2> QED
    BY <1>3, <2>1, <2>15, <2>16 DEF KeysInv
<1>8. CASE RaiseUncachedParent
  <2>1. AtCached /\ ~ParentKnown /\ Record("raised")
    BY <1>8 DEF RaiseUncachedParent
  <2>2. at \in Cached(doc) /\ doc[at].builds_in # None
    BY <2>1 DEF AtCached, ParentKnown
  <2>3. Bad(doc, at, world)
    BY <2>1, <2>2, ParentIsResolved DEF Bad
  <2> QED
    BY <2>1, <2>2, <2>3, RecordKeeps
<1>9. CASE RaiseInPolicy
  <2>1. AtCached /\ Unresolvable(doc[at].cache, world) /\ Record("raised")
    BY <1>9 DEF RaiseInPolicy
  <2>2. at \in Cached(doc) /\ Bad(doc, at, world)
    BY <2>1 DEF AtCached, Bad
  <2> QED
    BY <2>1, <2>2, RecordKeeps
<1>10. CASE FinishRender
  <2>1. stage = "resolve" /\ at > Len(doc) /\ Record("rendered")
    BY <1>10 DEF FinishRender
  <2>2. Passed = Cached(doc)
    BY <1>1, <1>2, <2>1 DEF Passed, Cached, Commands
  <2>3. \A i \in Cached(doc) : cacheKey[i] = KeyOf(doc, cacheKey, i, world) /\ ~Bad(doc, i, world)
    BY <1>1, <2>1, <2>2 DEF ResolvedSoFar
  <2> QED
    BY <2>1, <2>3, RecordKeeps
<1>11. CASE UNCHANGED vars
  BY <1>1, <1>3, <1>11
  DEF vars, KeysInv, StateTyped, ResolvedSoFar, LastOfItsKey, KeyOf, Passed, Bad, ParentIndex,
      Bearers, Cached, Commands
<1> QED
  BY <1>4, <1>5, <1>6, <1>7, <1>8, <1>9, <1>10, <1>11 DEF Next, Ended

LEMMA KeysInvariant == Spec => []KeysInv
<1> QED
  BY KeysInit, KeysStep, PTL DEF Spec

(***************************************************************************)
(* A render raises exactly where a cached step finds no cached step of the *)
(* key it builds in, or has a policy that cannot be resolved, whatever the *)
(* order of the steps and wherever in the document the loop meets it first.*)
(***************************************************************************)
THEOREM RenderRaisesWhenUnsound == Spec => []RenderRaisesExactlyWhenUnsound
<1>1. KeysInv => RenderRaisesExactlyWhenUnsound
  BY DEF KeysInv, HistoryIsRight, RecordIsRight, Bad, RenderRaisesExactlyWhenUnsound
<1> QED
  BY <1>1, KeysInvariant, PTL

-----------------------------------------------------------------------------
(* The chain of a step is the step and the chain of the one it builds in.  *)
LEMMA ChainUnfolds ==
  ASSUME NEW d, IsLowered(d), NEW i \in Cached(d)
  PROVE  /\ Bearers(d, i) = {} => ChainOf(d, i) = {i}
         /\ Bearers(d, i) # {} => ChainOf(d, i) = {i} \cup ChainOf(d, ParentIndex(d, i))
<1> DEFINE next == [j \in Cached(d) |->
                      IF Bearers(d, j) = {} THEN {} ELSE {Max(Bearers(d, j))}]
<1>1. \A j \in DOMAIN next : next[j] \subseteq DOMAIN next
  <2>1. \A j \in Cached(d) : Bearers(d, j) # {} => ParentIndex(d, j) \in Cached(d)
    BY ParentIsLast DEF Bearers
  <2> QED
    BY <2>1 DEF ParentIndex
<1>2. \A j : ChainOf(d, j) = Closure(next, j)
  BY DEF ChainOf
<1>3. Closure(next, i) = {i} \cup UNION {Closure(next, z) : z \in next[i]}
  <2>1. i \in DOMAIN next
    OBVIOUS
  <2> HIDE DEF next
  <2> QED
    BY <1>1, <2>1, ClosureUnfolds
<1>4. next[i] = IF Bearers(d, i) = {} THEN {} ELSE {ParentIndex(d, i)}
  BY DEF ParentIndex
<1> HIDE DEF next
<1>5. ChainOf(d, i) = {i} \cup UNION {ChainOf(d, z) : z \in next[i]}
  BY <1>2, <1>3
<1> QED
  BY <1>4, <1>5

(* The key of a step stands for the pipeline, the step's own key, the key  *)
(* below and the policy.                                                   *)
LEMMA KeysEqual ==
  ASSUME NEW s, NEW p, NEW u, NEW t, NEW q, NEW v
  PROVE  CacheKey(s, p, u) = CacheKey(t, q, v) <=>
           /\ u.pipeline = v.pipeline /\ s.key = t.key /\ p = q
           /\ ResolvePolicy(s.cache, s.cmd, u) = ResolvePolicy(t.cache, t.cmd, v)
BY DEF CacheKey

(* Over the same builds_in, two versions of a step have the same step key  *)
(* exactly if the key is a name or the command is the same.                *)
LEMMA StepKeysEqual ==
  ASSUME NEW a, NEW b, IsLowered(a.doc), IsLowered(b.doc), SameSteps(a.doc, b.doc),
         NEW i \in Commands(a.doc), a.doc[i].builds_in = b.doc[i].builds_in
  PROVE  a.doc[i].key = b.doc[i].key <=> NameStands(i, a, b)
<1> DEFINE s == a.doc[i]
           t == b.doc[i]
           n == Position(a.doc, i)
<1>1. /\ Commands(a.doc) = Commands(b.doc) /\ s.key.by = t.key.by
      /\ s.key.by = "name" => s.key = t.key
      /\ s.key.by = "hash" => (s.key.parent = None <=> t.key.parent = None)
  BY DEF SameSteps
<1>2. Position(b.doc, i) = n
  BY <1>1 DEF Position
<1>3. /\ s.key.by = "name" \/ \E x \in {None, s.builds_in} : s.key = HashKey(x, s.cmd, n)
      /\ t.key.by = "name" \/ \E x \in {None, t.builds_in} : t.key = HashKey(x, t.cmd, n)
  BY <1>1, <1>2 DEF IsLowered
<1>4. NameStands(i, a, b) <=> (s.key.by = "hash" => s.cmd = t.cmd)
  BY DEF NameStands
<1>5. s.builds_in = t.builds_in
  OBVIOUS
<1> HIDE DEF s, t, n
<1>6. ASSUME s.key.by = "name"
      PROVE  s.key = t.key <=> NameStands(i, a, b)
  BY <1>1, <1>4, <1>6
<1>7. ASSUME s.key.by # "name"
      PROVE  s.key = t.key <=> NameStands(i, a, b)
  <2>1. PICK x \in {None, s.builds_in} : s.key = HashKey(x, s.cmd, n)
    BY <1>3, <1>7
  <2>2. PICK y \in {None, t.builds_in} : t.key = HashKey(y, t.cmd, n)
    BY <1>1, <1>3, <1>7
  <2>3. /\ s.key.by = "hash" /\ s.key.parent = x /\ s.key.cmd = s.cmd
        /\ t.key.parent = y /\ t.key.cmd = t.cmd
    BY <2>1, <2>2 DEF HashKey
  <2>4. x = y
    BY <1>1, <1>5, <2>3
  <2> QED
    BY <1>4, <2>1, <2>2, <2>3, <2>4
<1> QED
  BY <1>6, <1>7 DEF s, t

(* A render that gave every cached step its key.                           *)
IsRendered(b) ==
  /\ IsLowered(b.doc) /\ b.world \in Worlds
  /\ \A i \in Cached(b.doc) : /\ b.cacheKey[i] = KeyOf(b.doc, b.cacheKey, i, b.world)
                              /\ ~Bad(b.doc, i, b.world)

(* Two renders of the same steps, which find the same parents.             *)
SameChains(c, d) ==
  /\ SameSteps(c, d) /\ Cached(c) = Cached(d)
  /\ \A i \in Cached(c) : Bearers(c, i) = Bearers(d, i)

LEMMA KeysTell ==
  ASSUME NEW a, NEW b, IsRendered(a), IsRendered(b), SameChains(a.doc, b.doc)
  PROVE  \A i \in Cached(a.doc) : ~HoldsCacheNone(a.doc, i) =>
           (a.cacheKey[i] = b.cacheKey[i] <=> InputsUnchanged(i, a, b))
<1> DEFINE Good(i) == ~HoldsCacheNone(a.doc, i) =>
                        (a.cacheKey[i] = b.cacheKey[i] <=> InputsUnchanged(i, a, b))
           S == {i \in Cached(a.doc) : ~Good(i)}
           R == {ss \in Nat \X Nat : ss[1] < ss[2]}
<1>1. /\ IsLowered(a.doc) /\ IsLowered(b.doc) /\ a.world \in Worlds /\ b.world \in Worlds
      /\ Cached(a.doc) = Cached(b.doc) /\ Commands(a.doc) = Commands(b.doc)
      /\ \A i \in Cached(a.doc) :
           /\ i \in Commands(a.doc) /\ i \in Nat
           /\ a.doc[i].cache = b.doc[i].cache /\ Bearers(a.doc, i) = Bearers(b.doc, i)
           /\ a.doc[i].builds_in = None <=> b.doc[i].builds_in = None
  <2>1. \A i \in Cached(a.doc) : i \in Commands(a.doc) /\ i \in Nat
    BY LenProperties DEF IsRendered, IsLowered, Cached, Commands
  <2> QED
    BY <2>1 DEF IsRendered, SameChains, SameSteps
<1>2. SUFFICES ASSUME S # {} PROVE FALSE
  OBVIOUS
<1>3. PICK i \in S : \A j \in S : ~(<<j, i>> \in R)
  <2>1. IsWellFoundedOn(R, Nat)
    BY NatLessThanWellFounded DEF OpToRel
  <2>2. S \subseteq Nat
    BY <1>1
  <2> HIDE DEF R, S
  <2> QED
    BY <1>2, <2>1, <2>2, WFMin
<1>4. /\ i \in Cached(a.doc) /\ i \in Commands(a.doc) /\ i \in Nat /\ ~Good(i)
      /\ i \in Cached(b.doc) /\ ~HoldsCacheNone(a.doc, i)
  BY <1>1
<1>5. \A j \in Cached(a.doc) : j < i => Good(j)
  <2> HIDE DEF Good
  <2> QED
    BY <1>1, <1>3, <1>4
<1> HIDE DEF S, R
<1> DEFINE p == a.doc[i].cache
           u == a.world
           v == b.world
           c == a.doc[i].cmd
           d == b.doc[i].cmd
           over == IF a.doc[i].builds_in = None THEN [root |-> "scratch"]
                   ELSE a.cacheKey[ParentIndex(a.doc, i)]
           under == IF b.doc[i].builds_in = None THEN [root |-> "scratch"]
                    ELSE b.cacheKey[ParentIndex(b.doc, i)]
           OwnHolds == NameStands(i, a, b) /\ PolicyHolds(i, a, b)
<1>6. a.cacheKey[i] = b.cacheKey[i] <=>
        /\ u.pipeline = v.pipeline /\ a.doc[i].key = b.doc[i].key /\ over = under
        /\ ResolvePolicy(p, c, u) = ResolvePolicy(p, d, v)
  <2>1. a.cacheKey[i] = CacheKey(a.doc[i], over, u) /\ b.cacheKey[i] = CacheKey(b.doc[i], under, v)
    BY <1>4 DEF IsRendered, KeyOf
  <2>2. b.doc[i].cache = p
    BY <1>1, <1>4
  <2> HIDE DEF over, under
  <2> QED
    BY <2>1, <2>2, KeysEqual
<1>7. ResolvePolicy(p, c, u) = ResolvePolicy(p, d, v) <=> PolicyHolds(i, a, b)
  <2>1. p \in Policies /\ ~Unresolvable(p, u) /\ ~Unresolvable(p, v)
    <3>1. ~Unresolvable(a.doc[i].cache, a.world) /\ ~Unresolvable(b.doc[i].cache, b.world)
      BY <1>4 DEF IsRendered, Bad
    <3> QED
      BY <1>1, <1>4, <3>1 DEF IsLowered
  <2>2. \A q \in Parts(p) : q.policy # "none"
    <3>1. i \in ChainOf(a.doc, i)
      BY <1>1, <1>4, ChainUnfolds
    <3> QED
      BY <1>4, <3>1 DEF HoldsCacheNone
  <2>3. ResolvePolicy(p, c, u) = ResolvePolicy(p, d, v) <=> PolicyStands(p, c = d, u, v)
    <3> HIDE DEF p, c, d
    <3> QED
      BY <1>1, <2>1, <2>2, PolicyTells
  <2> QED
    BY <2>3 DEF PolicyStands, PolicyHolds
<1>8. over = under => (a.doc[i].key = b.doc[i].key <=> NameStands(i, a, b))
  <2> SUFFICES ASSUME over = under
               PROVE  a.doc[i].builds_in = b.doc[i].builds_in
    BY <1>1, <1>4, StepKeysEqual DEF SameChains
  <2>1. CASE a.doc[i].builds_in = None
    BY <1>1, <1>4, <2>1
  <2>2. CASE a.doc[i].builds_in # None
    <3> DEFINE j == ParentIndex(a.doc, i)
    <3>1. j = ParentIndex(b.doc, i) /\ b.doc[i].builds_in # None
      BY <1>1, <1>4, <2>2 DEF ParentIndex
    <3>2. /\ j \in Cached(a.doc) /\ j \in Cached(b.doc)
          /\ a.doc[j].key = a.doc[i].builds_in /\ b.doc[j].key = b.doc[i].builds_in
      <4>1. j \in Bearers(a.doc, i)
        BY <1>1, <1>4, <2>2, ParentIsLast DEF IsRendered, Bad
      <4>2. j \in Bearers(b.doc, i)
        BY <1>1, <1>4, <4>1
      <4> HIDE DEF j
      <4> QED
        BY <4>1, <4>2 DEF Bearers
    <3>3. a.cacheKey[j] = b.cacheKey[j]
      BY <2>2, <3>1
    <3> HIDE DEF j
    <3>4. \A s, x, w : CacheKey(s, x, w).step = s.key
      BY DEF CacheKey
    <3>5. a.cacheKey[j].step = a.doc[j].key /\ b.cacheKey[j].step = b.doc[j].key
      <4>1. \A e, k, w : KeyOf(e, k, j, w).step = e[j].key
        BY <3>4 DEF KeyOf
      <4>2. /\ a.cacheKey[j] = KeyOf(a.doc, a.cacheKey, j, a.world)
            /\ b.cacheKey[j] = KeyOf(b.doc, b.cacheKey, j, b.world)
        BY <3>2 DEF IsRendered
      <4> QED
        BY <4>1, <4>2
    <3> QED
      BY <3>2, <3>3, <3>5
  <2> QED
    BY <2>1, <2>2
<1>9. CASE a.doc[i].builds_in = None
  <2>1. over = under
    BY <1>1, <1>4, <1>9
  <2>2. ChainOf(a.doc, i) = {i}
    <3>1. Bearers(a.doc, i) = {}
      BY <1>9 DEF Bearers
    <3> QED
      BY <1>1, <1>4, <3>1, ChainUnfolds
  <2>3. InputsUnchanged(i, a, b) <=> u.pipeline = v.pipeline /\ OwnHolds
    BY <2>2 DEF InputsUnchanged
  <2> QED
    BY <1>4, <1>6, <1>7, <1>8, <2>1, <2>3
<1>10. CASE a.doc[i].builds_in # None
  <2> DEFINE j == ParentIndex(a.doc, i)
  <2>1. Bearers(a.doc, i) # {}
    BY <1>4, <1>10 DEF IsRendered, Bad
  <2>2. j \in Cached(a.doc) /\ j < i
    BY <1>1, <1>4, <2>1, ParentIsLast DEF Bearers
  <2>3. over = a.cacheKey[j] /\ under = b.cacheKey[j]
    BY <1>1, <1>4, <1>10 DEF ParentIndex
  <2>4. ChainOf(a.doc, i) = {i} \cup ChainOf(a.doc, j)
    BY <1>1, <1>4, <2>1, ChainUnfolds
  <2> HIDE DEF j
  <2>5. Good(j)
    BY <1>5, <2>2
  <2>6. ~HoldsCacheNone(a.doc, j)
    BY <1>4, <2>4 DEF HoldsCacheNone
  <2>7. InputsUnchanged(i, a, b) <=> OwnHolds /\ InputsUnchanged(j, a, b)
    BY <2>4 DEF InputsUnchanged
  <2>8. InputsUnchanged(j, a, b) => u.pipeline = v.pipeline
    BY DEF InputsUnchanged
  <2>9. over = under <=> InputsUnchanged(j, a, b)
    BY <2>3, <2>5, <2>6
  <2> HIDE DEF over, under
  <2> QED
    BY <1>4, <1>6, <1>7, <1>8, <2>7, <2>8, <2>9
<1> QED
  BY <1>9, <1>10

(***************************************************************************)
(* Over any two renders of a pipeline, whatever was edited between them, a *)
(* step whose chain holds no CacheNone keeps its cache key if and only if  *)
(* nothing that its key is over has changed, for it and for each step      *)
(* below it: no stale snapshot is reused and no good one is thrown away.   *)
(***************************************************************************)
THEOREM KeysFollowInputs == Spec => []KeyFollowsInputs
<1>1. KeysInv => KeyFollowsInputs
  <2> SUFFICES ASSUME KeysInv, NEW m \in Rendered, NEW n \in Rendered,
                      NEW i \in Cached(history[m].doc), ~HoldsCacheNone(history[m].doc, i)
               PROVE  history[m].cacheKey[i] = history[n].cacheKey[i]
                        <=> InputsUnchanged(i, history[m], history[n])
    BY DEF KeyFollowsInputs
  <2>1. project \in Projects /\ RecordIsRight(history[m]) /\ RecordIsRight(history[n])
    BY DEF KeysInv, StateTyped, HistoryIsRight, Rendered
  <2>2. history[m].outcome = "rendered" /\ history[n].outcome = "rendered"
    BY DEF Rendered
  <2> DEFINE a == history[m]
             b == history[n]
  <2> HIDE DEF a, b
  <2>3. IsRendered(a) /\ IsRendered(b)
    <3>1. \A r : RecordIsRight(r) /\ r.outcome = "rendered" => IsRendered(r)
      BY <2>1, VersionIsLowered DEF RecordIsRight, IsRendered
    <3> QED
      BY <2>1, <2>2, <3>1 DEF a, b
  <2>4. SameChains(a.doc, b.doc)
    <3>1. a.doc \in Versions[project] /\ b.doc \in Versions[project]
      BY <2>1 DEF RecordIsRight, a, b
    <3> QED
      BY <2>1, <3>1, VersionsAgree DEF SameChains
  <2>5. \A k \in Cached(a.doc) : ~HoldsCacheNone(a.doc, k) =>
          (a.cacheKey[k] = b.cacheKey[k] <=> InputsUnchanged(k, a, b))
    BY <2>3, <2>4, KeysTell
  <2> QED
    BY <2>5 DEF a, b
<1> QED
  BY <1>1, KeysInvariant, PTL
=============================================================================
