--------------------------- MODULE RegistriesProofs ---------------------------
(***************************************************************************)
(* Proofs about Registries, for any files, statements and projects and any *)
(* number of imports in one process or in several: where an import stands  *)
(* the registries mirror the statements it has executed, no entry is ever  *)
(* replaced, a dump is the whole project, and an import succeeds exactly   *)
(* on a sound project.                                                     *)
(***************************************************************************)
EXTENDS Registries, TLAPS, SequenceTheorems, NaturalsInduction, WellFoundedInduction,
        FiniteSetTheorems

-----------------------------------------------------------------------------
(* Induction up to a number, over a set in place of a predicate.           *)
LEMMA UpTo ==
  ASSUME NEW n \in Nat, NEW P, 0 \in P, \A i \in 1 .. n : i - 1 \in P => i \in P
  PROVE  \A i \in 0 .. n : i \in P
<1> DEFINE R == {ss \in Nat \X Nat : ss[1] < ss[2]}
           missing == (0 .. n) \ P
<1>1. IsWellFoundedOn(R, Nat)
  BY NatLessThanWellFounded DEF OpToRel
<1>2. SUFFICES ASSUME missing # {} PROVE FALSE
  OBVIOUS
<1>3. missing \subseteq Nat
  OBVIOUS
<1>4. PICK x \in missing : \A y \in missing : ~(<<y, x>> \in R)
  <2> HIDE DEF R, missing
  <2> QED
    BY <1>1, <1>2, <1>3, WFMin
<1>5. x \in 1 .. n
  OBVIOUS
<1>6. x - 1 \in 0 .. n /\ x - 1 \in Nat /\ x - 1 < x /\ x \in Nat
  BY <1>5
<1>7. <<x - 1, x>> \in R
  BY <1>6
<1>8. x - 1 \notin missing
  BY <1>4, <1>7
<1> QED
  BY <1>5, <1>6, <1>8

(* What a statement adds to the names declared before it.                  *)
Extended(names, e, kind) == IF e.kind = kind THEN Append(names, e.name) ELSE names

IsTable(g, s, kind) ==
  g = [n \in 0 .. Len(s) |->
         IF n = 0 THEN <<>>
         ELSE IF s[n].kind = kind THEN Append(g[n - 1], s[n].name)
         ELSE g[n - 1]]

(* The recursion of Declares is well defined: there is a table of what the *)
(* first statements declare.                                               *)
LEMMA TableExists ==
  ASSUME NEW S, NEW s \in Seq(S), NEW kind
  PROVE  \E g : IsTable(g, s, kind)
<1> DEFINE Part(g, m) == g = [n \in 0 .. m |-> IF n = 0 THEN <<>>
                                               ELSE IF s[n].kind = kind
                                                    THEN Append(g[n - 1], s[n].name)
                                                    ELSE g[n - 1]]
           P == {m \in Nat : \E g : Part(g, m)}
<1>0. Len(s) \in Nat
  BY LenProperties
<1>1. 0 \in P
  <2>1. Part([n \in 0 .. 0 |-> <<>>], 0)
    OBVIOUS
  <2> QED
    BY <2>1
<1>2. ASSUME NEW m \in 1 .. Len(s), m - 1 \in P
      PROVE  m \in P
  <2>1. PICK g : Part(g, m - 1)
    BY <1>2
  <2> DEFINE h == [n \in 0 .. m |-> IF n = m THEN Extended(g[m - 1], s[m], kind) ELSE g[n]]
  <2>2. /\ m \in Nat /\ m # 0 /\ m - 1 \in 0 .. m - 1
        /\ \A n \in 0 .. m : n # m => n \in 0 .. m - 1
        /\ \A n \in 0 .. m : n # 0 => n - 1 \in 0 .. m - 1 /\ n - 1 \in 0 .. m /\ n - 1 # m
    BY <1>0
  <2>3. \A n \in 0 .. m : n # m => h[n] = IF n = 0 THEN <<>>
                                          ELSE IF s[n].kind = kind
                                               THEN Append(g[n - 1], s[n].name)
                                               ELSE g[n - 1]
    BY <2>1, <2>2
  <2>4. \A n \in 0 .. m : n # 0 => h[n - 1] = g[n - 1]
    BY <2>2
  <2>5. h[m] = IF s[m].kind = kind THEN Append(g[m - 1], s[m].name) ELSE g[m - 1]
    BY <2>2 DEF Extended
  <2>6. \A n \in 0 .. m : h[n] = IF n = 0 THEN <<>>
                                 ELSE IF s[n].kind = kind
                                      THEN Append(h[n - 1], s[n].name)
                                      ELSE h[n - 1]
    BY <2>2, <2>3, <2>4, <2>5
  <2>7. h = [n \in 0 .. m |-> h[n]]
    OBVIOUS
  <2> HIDE DEF h
  <2>8. Part(h, m)
    BY <2>6, <2>7
  <2> QED
    BY <2>2, <2>8
<1>3. Len(s) \in P
  <2> HIDE DEF P
  <2>1. \A i \in 0 .. Len(s) : i \in P
    BY <1>0, <1>1, <1>2, UpTo
  <2> QED
    BY <1>0, <2>1
<1> QED
  BY <1>3 DEF IsTable

LEMMA DeclaresTable ==
  ASSUME NEW S, NEW s \in Seq(S), NEW kind
  PROVE  \E g : /\ DOMAIN g = 0 .. Len(s) /\ g[0] = <<>>
                /\ \A n \in 1 .. Len(s) : g[n] = Extended(g[n - 1], s[n], kind)
                /\ Declares(s, kind) = g[Len(s)]
<1> DEFINE t == CHOOSE g : IsTable(g, s, kind)
<1>1. IsTable(t, s, kind)
  BY TableExists
<1>2. Declares(s, kind) = t[Len(s)]
  BY DEF Declares, IsTable
<1> HIDE DEF t
<1>3. Len(s) \in Nat
  BY LenProperties
<1>4. DOMAIN t = 0 .. Len(s) /\ t[0] = <<>>
  BY <1>1, <1>3 DEF IsTable
<1>5. ASSUME NEW n \in 1 .. Len(s)
      PROVE  t[n] = Extended(t[n - 1], s[n], kind)
  <2>1. n \in 0 .. Len(s) /\ n # 0
    BY <1>3
  <2> QED
    BY <1>1, <2>1 DEF IsTable, Extended
<1> QED
  BY <1>2, <1>4, <1>5

LEMMA AppendToConcat ==
  ASSUME NEW T, NEW s \in Seq(T), NEW t \in Seq(T), NEW e \in T
  PROVE  /\ s \o Append(t, e) = Append(s \o t, e)
         /\ s \o t \in Seq(T) /\ Append(t, e) \in Seq(T)
<1>1. /\ s \o t \in Seq(T) /\ Append(t, e) \in Seq(T) /\ <<e>> \in Seq(T)
  BY ConcatProperties, AppendProperties
<1>2. Append(t, e) = t \o <<e>> /\ Append(s \o t, e) = (s \o t) \o <<e>>
  BY <1>1, AppendIsConcat
<1>3. (s \o t) \o <<e>> = s \o (t \o <<e>>)
  BY <1>1, ConcatAssociative
<1> QED
  BY <1>1, <1>2, <1>3

(* Named(S, N, kind): the statements in S of the kind have their names in  *)
(* N.  What a run of them declares is then a sequence of names.            *)
Named(S, N, kind) == \A e \in S : e.kind = kind => e.name \in N

LEMMA TablesType ==
  ASSUME NEW S, NEW N, NEW kind, Named(S, N, kind), NEW s \in Seq(S), NEW g,
         g[0] = <<>>,
         \A n \in 1 .. Len(s) : g[n] = Extended(g[n - 1], s[n], kind)
  PROVE  \A n \in 0 .. Len(s) : g[n] \in Seq(N)
<1> DEFINE P == {n \in Nat : g[n] \in Seq(N)}
<1>0. Len(s) \in Nat /\ DOMAIN s = 1 .. Len(s) /\ \A n \in 1 .. Len(s) : s[n] \in S
  BY LenProperties, ElementOfSeq
<1>1. 0 \in P
  BY EmptySeq
<1>2. ASSUME NEW n \in 1 .. Len(s), n - 1 \in P
      PROVE  n \in P
  <2>1. n \in Nat /\ g[n - 1] \in Seq(N) /\ s[n] \in S
    BY <1>0, <1>2
  <2>2. s[n].kind = kind => Append(g[n - 1], s[n].name) \in Seq(N)
    BY <2>1, AppendProperties DEF Named
  <2> QED
    BY <2>1, <2>2 DEF Extended
<1>3. \A n \in 0 .. Len(s) : n \in P
  <2> HIDE DEF P
  <2> QED
    BY <1>0, <1>1, <1>2, UpTo
<1> QED
  BY <1>3

LEMMA DeclaresType ==
  ASSUME NEW S, NEW N, NEW kind, Named(S, N, kind), NEW s \in Seq(S)
  PROVE  Declares(s, kind) \in Seq(N)
<1>1. PICK g : /\ DOMAIN g = 0 .. Len(s) /\ g[0] = <<>>
               /\ \A n \in 1 .. Len(s) : g[n] = Extended(g[n - 1], s[n], kind)
               /\ Declares(s, kind) = g[Len(s)]
  BY DeclaresTable
<1>2. Len(s) \in 0 .. Len(s)
  BY LenProperties
<1> QED
  BY <1>1, <1>2, TablesType

(* Runs in a row declare in a row.                                         *)
LEMMA DeclaresConcat ==
  ASSUME NEW S, NEW N, NEW kind, Named(S, N, kind), NEW s \in Seq(S), NEW t \in Seq(S)
  PROVE  Declares(s \o t, kind) = Declares(s, kind) \o Declares(t, kind)
<1> DEFINE u == s \o t
           k == Len(s)
           m == Len(t)
<1>1. /\ k \in Nat /\ m \in Nat /\ u \in Seq(S) /\ Len(u) = k + m
      /\ \A i \in 1 .. k : u[i] = s[i]
      /\ \A i \in 1 .. m : u[k + i] = t[i]
      /\ \A i \in 1 .. m : t[i] \in S
  <2>1. /\ k \in Nat /\ m \in Nat /\ u \in Seq(S) /\ Len(u) = k + m
        /\ \A i \in 1 .. k + m : u[i] = IF i <= k THEN s[i] ELSE t[i - k]
    BY ConcatProperties, LenProperties
  <2>2. \A i \in 1 .. m : k + i \in 1 .. k + m /\ ~(k + i <= k) /\ (k + i) - k = i
    BY <2>1
  <2>3. \A i \in 1 .. k : i \in 1 .. k + m /\ i <= k
    BY <2>1
  <2>4. \A i \in 1 .. m : t[i] \in S
    BY ElementOfSeq
  <2> QED
    BY <2>1, <2>2, <2>3, <2>4
<1>2. PICK a : /\ a[0] = <<>> /\ Declares(s, kind) = a[k]
               /\ \A n \in 1 .. k : a[n] = Extended(a[n - 1], s[n], kind)
  BY DeclaresTable
<1>3. PICK b : /\ b[0] = <<>> /\ Declares(t, kind) = b[m]
               /\ \A n \in 1 .. m : b[n] = Extended(b[n - 1], t[n], kind)
  BY DeclaresTable
<1>4. PICK g : /\ g[0] = <<>> /\ Declares(u, kind) = g[k + m]
               /\ \A n \in 1 .. k + m : g[n] = Extended(g[n - 1], u[n], kind)
  <2>1. \E h : /\ DOMAIN h = 0 .. Len(u) /\ h[0] = <<>>
               /\ \A n \in 1 .. Len(u) : h[n] = Extended(h[n - 1], u[n], kind)
               /\ Declares(u, kind) = h[Len(u)]
    <3> HIDE DEF u
    <3> QED
      BY <1>1, DeclaresTable
  <2> HIDE DEF u
  <2> QED
    BY <1>1, <2>1
<1>5. a[k] \in Seq(N) /\ \A i \in 0 .. m : b[i] \in Seq(N)
  <2>1. k \in 0 .. k
    BY <1>1
  <2> QED
    BY <1>2, <1>3, <2>1, TablesType
<1> HIDE DEF u, k, m
<1>6. \A i \in 0 .. k : g[i] = a[i]
  <2> DEFINE P == {i \in Nat : g[i] = a[i]}
  <2>1. 0 \in P
    BY <1>2, <1>4
  <2>2. ASSUME NEW i \in 1 .. k, i - 1 \in P
        PROVE  i \in P
    <3>1. i \in 1 .. k + m /\ i \in Nat
      BY <1>1
    <3>2. g[i] = Extended(g[i - 1], u[i], kind) /\ a[i] = Extended(a[i - 1], s[i], kind)
      BY <1>2, <1>4, <3>1
    <3> QED
      BY <1>1, <2>2, <3>1, <3>2
  <2>3. \A i \in 0 .. k : i \in P
    <3> HIDE DEF P
    <3> QED
      BY <1>1, <2>1, <2>2, UpTo
  <2> QED
    BY <2>3
<1>7. \A i \in 0 .. m : g[k + i] = a[k] \o b[i]
  <2> DEFINE P == {i \in Nat : g[k + i] = a[k] \o b[i]}
  <2>1. 0 \in P
    <3>1. k \in 0 .. k /\ k + 0 = k
      BY <1>1
    <3>2. g[k + 0] = a[k]
      BY <1>6, <3>1
    <3>3. a[k] \o b[0] = a[k]
      BY <1>3, <1>5, ConcatEmptySeq
    <3> QED
      BY <3>2, <3>3
  <2>2. ASSUME NEW i \in 1 .. m, i - 1 \in P
        PROVE  i \in P
    <3>1. /\ k + i \in 1 .. k + m /\ (k + i) - 1 = k + (i - 1) /\ i \in Nat
          /\ i - 1 \in 0 .. m
      BY <1>1
    <3>2. g[k + i] = Extended(a[k] \o b[i - 1], t[i], kind)
      BY <1>1, <1>4, <2>2, <3>1
    <3>3. b[i] = Extended(b[i - 1], t[i], kind)
      BY <1>3
    <3>4. t[i].kind = kind => a[k] \o Append(b[i - 1], t[i].name) = Append(a[k] \o b[i - 1], t[i].name)
      <4> SUFFICES ASSUME t[i].kind = kind
                   PROVE  a[k] \o Append(b[i - 1], t[i].name) = Append(a[k] \o b[i - 1], t[i].name)
        OBVIOUS
      <4>1. t[i].name \in N
        BY <1>1 DEF Named
      <4>2. b[i - 1] \in Seq(N)
        BY <1>5, <3>1
      <4> DEFINE x == a[k]
                 y == b[i - 1]
                 z == t[i].name
      <4>3. x \in Seq(N) /\ y \in Seq(N) /\ z \in N
        BY <1>5, <4>1, <4>2
      <4> HIDE DEF x, y, z
      <4>4. x \o Append(y, z) = Append(x \o y, z)
        BY <4>3, AppendToConcat
      <4> QED
        BY <4>4 DEF x, y, z
    <3>5. g[k + i] = a[k] \o b[i]
      BY <3>2, <3>3, <3>4 DEF Extended
    <3> QED
      BY <3>1, <3>5
  <2>3. \A i \in 0 .. m : i \in P
    <3> HIDE DEF P
    <3> QED
      BY <1>1, <2>1, <2>2, UpTo
  <2> QED
    BY <2>3
<1>8. m \in 0 .. m
  BY <1>1
<1> QED
  BY <1>2, <1>3, <1>4, <1>7, <1>8 DEF u

LEMMA DeclaresOne ==
  ASSUME NEW e, NEW kind
  PROVE  Declares(<<e>>, kind) = Extended(<<>>, e, kind)
<1> DEFINE s == <<e>>
<1>1. s \in Seq({e}) /\ Len(s) = 1 /\ s[1] = e
  OBVIOUS
<1> HIDE DEF s
<1>2. PICK g : /\ g[0] = <<>> /\ Declares(s, kind) = g[Len(s)]
               /\ \A n \in 1 .. Len(s) : g[n] = Extended(g[n - 1], s[n], kind)
  BY <1>1, DeclaresTable
<1>3. g[1] = Extended(g[0], e, kind)
  BY <1>1, <1>2
<1> QED
  BY <1>1, <1>2, <1>3 DEF s

LEMMA DeclaresNone ==
  ASSUME NEW kind
  PROVE  Declares(<<>>, kind) = <<>>
<1> DEFINE s == <<>>
<1>1. s \in Seq({}) /\ Len(s) = 0
  OBVIOUS
<1> HIDE DEF s
<1>2. PICK g : g[0] = <<>> /\ Declares(s, kind) = g[Len(s)]
  BY <1>1, DeclaresTable
<1> QED
  BY <1>1, <1>2 DEF s

-----------------------------------------------------------------------------
(* The files in a row.  FirstOf(ss, n): what the first n of them hold.     *)
FirstOf(ss, n) == FlattenSeq([i \in 1 .. n |-> ss[i]])

IsFlattened(g, ss) ==
  g = [i \in 1 .. Len(ss) |-> IF i = 1 THEN ss[i] ELSE g[i - 1] \o ss[i]]

LEMMA FlattenedExists ==
  ASSUME NEW ss, Len(ss) \in Nat
  PROVE  \E g : IsFlattened(g, ss)
<1> DEFINE Part(g, m) == g = [i \in 1 .. m |-> IF i = 1 THEN ss[i] ELSE g[i - 1] \o ss[i]]
           P == {m \in Nat : \E g : Part(g, m)}
<1>1. 0 \in P
  <2>1. Part([i \in 1 .. 0 |-> <<>>], 0)
    OBVIOUS
  <2> QED
    BY <2>1
<1>2. ASSUME NEW m \in 1 .. Len(ss), m - 1 \in P
      PROVE  m \in P
  <2>1. PICK g : Part(g, m - 1)
    BY <1>2
  <2> DEFINE h == [i \in 1 .. m |-> IF i # m THEN g[i]
                                    ELSE IF i = 1 THEN ss[i] ELSE g[i - 1] \o ss[i]]
  <2>2. /\ m \in Nat
        /\ \A i \in 1 .. m : i # m => i \in 1 .. m - 1
        /\ \A i \in 1 .. m : i # 1 => i - 1 \in 1 .. m /\ i - 1 # m
    OBVIOUS
  <2>3. \A i \in 1 .. m : i # m => h[i] = IF i = 1 THEN ss[i] ELSE g[i - 1] \o ss[i]
    BY <2>1, <2>2
  <2>4. \A i \in 1 .. m : i # 1 => h[i - 1] = g[i - 1]
    BY <2>2
  <2>5. h[m] = IF m = 1 THEN ss[m] ELSE g[m - 1] \o ss[m]
    OBVIOUS
  <2>6. \A i \in 1 .. m : h[i] = IF i = 1 THEN ss[i] ELSE h[i - 1] \o ss[i]
    BY <2>3, <2>4, <2>5
  <2>7. h = [i \in 1 .. m |-> h[i]]
    OBVIOUS
  <2> HIDE DEF h
  <2>8. Part(h, m)
    BY <2>6, <2>7
  <2> QED
    BY <2>2, <2>8
<1>3. Len(ss) \in P
  <2> HIDE DEF P
  <2>1. \A i \in 0 .. Len(ss) : i \in P
    BY <1>1, <1>2, UpTo
  <2> QED
    BY <2>1
<1> QED
  BY <1>3 DEF IsFlattened

IsFlatTable(g, ss, n) ==
  /\ n # 0 => g[1] = ss[1] /\ FirstOf(ss, n) = g[n]
  /\ \A i \in 2 .. n : g[i] = g[i - 1] \o ss[i]
  /\ n = 0 => FirstOf(ss, n) = <<>>

LEMMA FlattenTable ==
  ASSUME NEW ss, NEW n \in Nat
  PROVE  \E g : IsFlatTable(g, ss, n)
<1> DEFINE tt == [i \in 1 .. n |-> ss[i]]
           t == CHOOSE g : IsFlattened(g, tt)
<1>1. Len(tt) = n
  OBVIOUS
<1>2. IsFlattened(t, tt)
  <2> HIDE DEF tt
  <2> QED
    BY <1>1, FlattenedExists
<1>3. n # 0 => FlattenSeq(tt) = t[n]
  <2> HIDE DEF tt
  <2> QED
    BY <1>1 DEF FlattenSeq, IsFlattened
<1>4. n = 0 => FlattenSeq(tt) = <<>>
  <2>1. n = 0 => tt = <<>>
    OBVIOUS
  <2> HIDE DEF tt
  <2> QED
    BY <1>1, <2>1 DEF FlattenSeq
<1> HIDE DEF t
<1>5. t = [i \in 1 .. n |-> IF i = 1 THEN tt[i] ELSE t[i - 1] \o tt[i]]
  <2> HIDE DEF tt
  <2> QED
    BY <1>1, <1>2 DEF IsFlattened
<1>6. \A i \in 1 .. n : tt[i] = ss[i]
  OBVIOUS
<1> HIDE DEF tt
<1>7. n # 0 => t[1] = ss[1]
  <2>1. n # 0 => 1 \in 1 .. n
    OBVIOUS
  <2> QED
    BY <1>5, <1>6, <2>1
<1>8. \A i \in 2 .. n : t[i] = t[i - 1] \o ss[i]
  <2>1. \A i \in 2 .. n : i \in 1 .. n /\ i # 1
    OBVIOUS
  <2> QED
    BY <1>5, <1>6, <2>1
<1>9. FirstOf(ss, n) = FlattenSeq(tt)
  BY DEF FirstOf, tt
<1> QED
  BY <1>3, <1>4, <1>7, <1>8, <1>9 DEF IsFlatTable

(* One more file.                                                          *)
LEMMA FirstOfNext ==
  ASSUME NEW T, NEW ss, NEW n \in Nat, \A i \in 1 .. n + 1 : ss[i] \in Seq(T)
  PROVE  /\ FirstOf(ss, 0) = <<>>
         /\ FirstOf(ss, n) \in Seq(T)
         /\ FirstOf(ss, n + 1) = FirstOf(ss, n) \o ss[n + 1]
<1>1. PICK a : IsFlatTable(a, ss, n)
  BY FlattenTable
<1>2. n + 1 \in Nat /\ n + 1 # 0
  OBVIOUS
<1>3. PICK b : IsFlatTable(b, ss, n + 1)
  <2> DEFINE m == n + 1
  <2>1. m \in Nat
    OBVIOUS
  <2> HIDE DEF m
  <2>2. \E g : IsFlatTable(g, ss, m)
    BY <2>1, FlattenTable
  <2> QED
    BY <2>2 DEF m
<1>4. FirstOf(ss, 0) = <<>>
  <2>1. \E g : IsFlatTable(g, ss, 0)
    BY FlattenTable
  <2> QED
    BY <2>1 DEF IsFlatTable
<1>5. \A i \in 0 .. n : i # 0 => b[i] = a[i] /\ a[i] \in Seq(T)
  <2> DEFINE P == {i \in Nat : i # 0 => b[i] = a[i] /\ a[i] \in Seq(T)}
  <2>1. 0 \in P
    OBVIOUS
  <2>2. ASSUME NEW i \in 1 .. n, i - 1 \in P
        PROVE  i \in P
    <3>1. i \in Nat /\ i \in 1 .. n + 1 /\ ss[i] \in Seq(T)
      OBVIOUS
    <3>2. CASE i = 1
      BY <1>1, <1>2, <1>3, <3>1, <3>2 DEF IsFlatTable
    <3>3. CASE i # 1
      <4>1. i \in 2 .. n /\ i \in 2 .. n + 1 /\ i - 1 # 0
        BY <3>3
      <4>2. b[i - 1] = a[i - 1] /\ a[i - 1] \in Seq(T)
        BY <2>2, <4>1
      <4>3. b[i] = b[i - 1] \o ss[i] /\ a[i] = a[i - 1] \o ss[i]
        BY <1>1, <1>3, <4>1 DEF IsFlatTable
      <4>4. a[i] \in Seq(T)
        BY <3>1, <4>2, <4>3, ConcatProperties
      <4> QED
        BY <3>1, <4>2, <4>3, <4>4
    <3> QED
      BY <3>2, <3>3
  <2>3. \A i \in 0 .. n : i \in P
    <3> HIDE DEF P
    <3> QED
      BY <2>1, <2>2, UpTo
  <2> QED
    BY <2>3
<1>6. CASE n = 0
  <2>1. FirstOf(ss, n + 1) = ss[n + 1] /\ ss[n + 1] \in Seq(T)
    BY <1>2, <1>3, <1>6 DEF IsFlatTable
  <2> QED
    BY <1>4, <1>6, <2>1, ConcatEmptySeq, EmptySeq
<1>7. CASE n # 0
  <2>1. n \in 0 .. n /\ n + 1 \in 2 .. n + 1 /\ (n + 1) - 1 = n
    BY <1>7
  <2>2. b[n + 1] = b[n] \o ss[n + 1] /\ FirstOf(ss, n + 1) = b[n + 1]
    BY <1>2, <1>3, <2>1 DEF IsFlatTable
  <2>3. FirstOf(ss, n) = a[n] /\ b[n] = a[n] /\ a[n] \in Seq(T)
    BY <1>1, <1>5, <1>7, <2>1 DEF IsFlatTable
  <2> QED
    BY <1>4, <2>2, <2>3
<1> QED
  BY <1>6, <1>7

Continues(T, x, y) == \E rest \in Seq(T) : y = x \o rest

(* What the first files hold comes first in what all of them hold.         *)
LEMMA FirstOfIsPrefix ==
  ASSUME NEW T, NEW ss, NEW n \in Nat, NEW m \in Nat, n <= m,
         \A i \in 1 .. m : ss[i] \in Seq(T)
  PROVE  Continues(T, FirstOf(ss, n), FirstOf(ss, m))
<1>0. \A i \in 0 .. m : FirstOf(ss, i) \in Seq(T)
  <2> TAKE i \in 0 .. m
  <2>1. CASE i = 0
    <3>1. \E g : IsFlatTable(g, ss, 0)
      BY FlattenTable
    <3> QED
      BY <2>1, <3>1, EmptySeq DEF IsFlatTable
  <2>2. CASE i # 0
    <3>1. i - 1 \in Nat /\ (i - 1) + 1 = i /\ \A j \in 1 .. i : j \in 1 .. m
      BY <2>2
    <3>2. FirstOf(ss, i) = FirstOf(ss, i - 1) \o ss[i] /\ FirstOf(ss, i - 1) \in Seq(T)
      <4> DEFINE k == i - 1
      <4>1. k \in Nat /\ k + 1 = i /\ \A j \in 1 .. k + 1 : ss[j] \in Seq(T)
        BY <3>1
      <4> HIDE DEF k
      <4>2. FirstOf(ss, k) \in Seq(T) /\ FirstOf(ss, k + 1) = FirstOf(ss, k) \o ss[k + 1]
        BY <4>1, FirstOfNext
      <4> QED
        BY <4>1, <4>2 DEF k
    <3>3. ss[i] \in Seq(T)
      BY <2>2
    <3> QED
      BY <3>2, <3>3, ConcatProperties
  <2> QED
    BY <2>1, <2>2
<1> DEFINE P == {k \in Nat : \E rest \in Seq(T) : FirstOf(ss, n + k) = FirstOf(ss, n) \o rest}
<1>1. 0 \in P
  <2>1. FirstOf(ss, n + 0) = FirstOf(ss, n) \o <<>> /\ <<>> \in Seq(T)
    BY <1>0, ConcatEmptySeq, EmptySeq
  <2> QED
    BY <2>1
<1>2. ASSUME NEW k \in 1 .. m - n, k - 1 \in P
      PROVE  k \in P
  <2>1. PICK rest \in Seq(T) : FirstOf(ss, n + (k - 1)) = FirstOf(ss, n) \o rest
    BY <1>2
  <2> DEFINE j == n + (k - 1)
  <2>2. j \in Nat /\ j + 1 = n + k /\ j + 1 <= m /\ j + 1 \in 1 .. m /\ k \in Nat
    OBVIOUS
  <2> HIDE DEF j
  <2>3. ss[j + 1] \in Seq(T) /\ \A i \in 1 .. j + 1 : ss[i] \in Seq(T)
    BY <2>2
  <2>4. FirstOf(ss, j + 1) = FirstOf(ss, j) \o ss[j + 1]
    BY <2>2, <2>3, FirstOfNext
  <2>5. FirstOf(ss, n + k) = (FirstOf(ss, n) \o rest) \o ss[j + 1]
    BY <2>1, <2>2, <2>4 DEF j
  <2> DEFINE x == FirstOf(ss, n)
             y == ss[j + 1]
  <2>6. x \in Seq(T) /\ y \in Seq(T)
    BY <1>0, <2>3
  <2>7. FirstOf(ss, n + k) = (x \o rest) \o y
    BY <2>5
  <2> HIDE DEF x, y
  <2>8. (x \o rest) \o y = x \o (rest \o y)
    BY <2>6, ConcatAssociative
  <2>9. rest \o y \in Seq(T)
    BY <2>6, ConcatProperties
  <2> QED
    BY <2>2, <2>7, <2>8, <2>9 DEF x
<1>3. m - n \in Nat /\ m - n \in 0 .. m - n /\ n + (m - n) = m
  OBVIOUS
<1>4. m - n \in P
  <2> HIDE DEF P
  <2>1. \A i \in 0 .. m - n : i \in P
    BY <1>1, <1>2, <1>3, UpTo
  <2> QED
    BY <1>3, <2>1
<1> QED
  BY <1>3, <1>4 DEF Continues

-----------------------------------------------------------------------------
(* What an import has executed at a line, as a function of the project and *)
(* the order of the files.                                                 *)
Parts(p, fs) == [i \in DOMAIN fs |-> p[fs[i]]]

ExecutedAt(p, fs, l) ==
  IF fs = <<>> THEN <<>>
  ELSE FlattenSeq([i \in 1 .. l[1] - 1 |-> p[fs[i]]])
         \o (IF l[1] > Len(fs) THEN <<>> ELSE SubSeq(p[fs[l[1]]], 1, l[2] - 1))

Whole(p, fs) == FirstOf(Parts(p, fs), Len(fs))

IsLine(p, fs, a, b) ==
  /\ a \in 1 .. Len(fs) + 1 /\ b \in Nat \ {0}
  /\ a <= Len(fs) => b <= Len(p[fs[a]]) + 1

PartsAreRuns(T, p, fs) ==
  /\ Len(fs) \in Nat /\ DOMAIN fs = 1 .. Len(fs)
  /\ \A i \in 1 .. Len(fs) : Parts(p, fs)[i] = p[fs[i]] /\ p[fs[i]] \in Seq(T)
  /\ \A n \in 0 .. Len(fs) :
       /\ FirstOf(Parts(p, fs), n) = FlattenSeq([i \in 1 .. n |-> p[fs[i]]])
       /\ FirstOf(Parts(p, fs), n) \in Seq(T)
  /\ FirstOf(Parts(p, fs), 0) = <<>>
  /\ \A n \in 1 .. Len(fs) :
       FirstOf(Parts(p, fs), n) = FirstOf(Parts(p, fs), n - 1) \o p[fs[n]]

LEMMA PartsFacts ==
  ASSUME NEW T, NEW p, NEW fs \in Seq(Files), \A f \in Files : p[f] \in Seq(T)
  PROVE  PartsAreRuns(T, p, fs)
<1>1. /\ Len(fs) \in Nat /\ DOMAIN fs = 1 .. Len(fs)
      /\ \A i \in 1 .. Len(fs) : fs[i] \in Files
  BY LenProperties, ElementOfSeq
<1>2. \A i \in 1 .. Len(fs) : Parts(p, fs)[i] = p[fs[i]] /\ p[fs[i]] \in Seq(T)
  BY <1>1 DEF Parts
<1>3. \A n \in 0 .. Len(fs) : FirstOf(Parts(p, fs), n) = FlattenSeq([i \in 1 .. n |-> p[fs[i]]])
  <2> TAKE n \in 0 .. Len(fs)
  <2>1. \A i \in 1 .. n : i \in 1 .. Len(fs)
    BY <1>1
  <2>2. [i \in 1 .. n |-> Parts(p, fs)[i]] = [i \in 1 .. n |-> p[fs[i]]]
    BY <1>2, <2>1
  <2> QED
    BY <2>2 DEF FirstOf
<1>4. FirstOf(Parts(p, fs), 0) = <<>>
  <2>1. \E g : IsFlatTable(g, Parts(p, fs), 0)
    BY FlattenTable
  <2> QED
    BY <2>1 DEF IsFlatTable
<1>5. \A n \in 0 .. Len(fs) : FirstOf(Parts(p, fs), n) \in Seq(T)
  <2> TAKE n \in 0 .. Len(fs)
  <2> DEFINE ss == Parts(p, fs)
  <2>1. n \in Nat /\ 0 <= n /\ 0 \in Nat /\ \A i \in 1 .. n : ss[i] \in Seq(T)
    BY <1>1, <1>2
  <2> HIDE DEF ss
  <2>2. Continues(T, FirstOf(ss, 0), FirstOf(ss, n))
    BY <2>1, FirstOfIsPrefix
  <2>3. PICK rest \in Seq(T) : FirstOf(ss, n) = FirstOf(ss, 0) \o rest
    BY <2>2 DEF Continues
  <2> QED
    BY <1>4, <2>3, ConcatEmptySeq DEF ss
<1>6. ASSUME NEW n \in 1 .. Len(fs)
      PROVE  FirstOf(Parts(p, fs), n) = FirstOf(Parts(p, fs), n - 1) \o p[fs[n]]
  <2> DEFINE k == n - 1
  <2>1. k \in Nat /\ k + 1 = n /\ \A i \in 1 .. k + 1 : i \in 1 .. Len(fs)
    BY <1>1
  <2> HIDE DEF k
  <2>2. FirstOf(Parts(p, fs), k + 1) = FirstOf(Parts(p, fs), k) \o Parts(p, fs)[k + 1]
    BY <1>2, <2>1, FirstOfNext
  <2> QED
    BY <1>2, <2>1, <2>2 DEF k
<1> QED
  BY <1>1, <1>2, <1>3, <1>4, <1>5, <1>6 DEF PartsAreRuns

ExecutedIsRun(T, p, fs, a, b) ==
  /\ ExecutedAt(p, fs, <<a, b>>) =
       FirstOf(Parts(p, fs), a - 1)
         \o (IF a > Len(fs) THEN <<>> ELSE SubSeq(p[fs[a]], 1, b - 1))
  /\ FirstOf(Parts(p, fs), a - 1) \in Seq(T)
  /\ a <= Len(fs) => SubSeq(p[fs[a]], 1, b - 1) \in Seq(T)
  /\ ExecutedAt(p, fs, <<a, b>>) \in Seq(T)

LEMMA ExecutedIs ==
  ASSUME NEW T, NEW p, NEW fs \in Seq(Files), \A f \in Files : p[f] \in Seq(T),
         NEW a, NEW b, IsLine(p, fs, a, b)
  PROVE  ExecutedIsRun(T, p, fs, a, b)
<1>0. PartsAreRuns(T, p, fs)
  BY PartsFacts
<1>1. /\ Len(fs) \in Nat /\ a \in Nat /\ b \in Nat /\ a - 1 \in 0 .. Len(fs)
  BY LenProperties DEF IsLine
<1>2. /\ FirstOf(Parts(p, fs), a - 1) = FlattenSeq([i \in 1 .. a - 1 |-> p[fs[i]]])
      /\ FirstOf(Parts(p, fs), a - 1) \in Seq(T)
  BY <1>0, <1>1 DEF PartsAreRuns
<1>3. a <= Len(fs) => SubSeq(p[fs[a]], 1, b - 1) \in Seq(T)
  <2> SUFFICES ASSUME a <= Len(fs) PROVE SubSeq(p[fs[a]], 1, b - 1) \in Seq(T)
    OBVIOUS
  <2>1. a \in 1 .. Len(fs) /\ p[fs[a]] \in Seq(T) /\ b <= Len(p[fs[a]]) + 1
    BY <1>0, <1>1 DEF PartsAreRuns, IsLine
  <2>2. 1 \in Int /\ b - 1 \in Int /\ \A i \in 1 .. b - 1 : p[fs[a]][i] \in T
    BY <1>1, <2>1, LenProperties, ElementOfSeq
  <2> QED
    BY <2>2, SubSeqProperties
<1>4. ExecutedAt(p, fs, <<a, b>>) =
        FirstOf(Parts(p, fs), a - 1) \o (IF a > Len(fs) THEN <<>> ELSE SubSeq(p[fs[a]], 1, b - 1))
  <2>1. CASE fs # <<>>
    BY <1>2, <2>1 DEF ExecutedAt
  <2>2. CASE fs = <<>>
    <3>1. Len(fs) = 0 /\ a = 1 /\ a - 1 = 0 /\ a > Len(fs)
      BY <1>1, <2>2
    <3>0. FirstOf(Parts(p, fs), 0) = <<>>
      BY <1>0 DEF PartsAreRuns
    <3>2. FirstOf(Parts(p, fs), a - 1) = <<>>
      BY <3>0, <3>1
    <3>3. <<>> \o <<>> = <<>>
      BY EmptySeq, ConcatEmptySeq
    <3> QED
      BY <2>2, <3>1, <3>2, <3>3 DEF ExecutedAt
  <2> QED
    BY <2>1, <2>2
<1>5. ExecutedAt(p, fs, <<a, b>>) \in Seq(T)
  <2> DEFINE x == FirstOf(Parts(p, fs), a - 1)
             y == IF a > Len(fs) THEN <<>> ELSE SubSeq(p[fs[a]], 1, b - 1)
  <2>1. x \in Seq(T) /\ ExecutedAt(p, fs, <<a, b>>) = x \o y
    BY <1>2, <1>4
  <2>2. y \in Seq(T)
    BY <1>1, <1>3, EmptySeq
  <2> HIDE DEF x, y
  <2> QED
    BY <2>1, <2>2, ConcatProperties
<1> QED
  BY <1>2, <1>3, <1>4, <1>5 DEF ExecutedIsRun

(* Nothing at the start; one statement more behind each; the next file     *)
(* adds nothing yet; and at the end, all of it.                            *)
Moves(T, p, fs, a, b) ==
  /\ a = 1 /\ b = 1 => ExecutedAt(p, fs, <<a, b>>) = <<>>
  /\ a > Len(fs) => ExecutedAt(p, fs, <<a, b>>) = Whole(p, fs)
  /\ a <= Len(fs) /\ b <= Len(p[fs[a]]) =>
       /\ IsLine(p, fs, a, b + 1)
       /\ p[fs[a]][b] \in T
       /\ ExecutedAt(p, fs, <<a, b + 1>>) = ExecutedAt(p, fs, <<a, b>>) \o <<p[fs[a]][b]>>
       /\ Continues(T, ExecutedAt(p, fs, <<a, b>>) \o <<p[fs[a]][b]>>, Whole(p, fs))
  /\ a <= Len(fs) /\ b > Len(p[fs[a]]) =>
       /\ IsLine(p, fs, a + 1, 1)
       /\ ExecutedAt(p, fs, <<a + 1, 1>>) = ExecutedAt(p, fs, <<a, b>>)

LEMMA ExecutedMoves ==
  ASSUME NEW T, NEW p, NEW fs \in Seq(Files), \A f \in Files : p[f] \in Seq(T),
         NEW a, NEW b, IsLine(p, fs, a, b)
  PROVE  Moves(T, p, fs, a, b)
<1> DEFINE n == Len(fs)
           F(i) == FirstOf(Parts(p, fs), i)
<1>0. /\ n \in Nat /\ a \in Nat /\ b \in Nat \ {0} /\ a - 1 \in 0 .. n /\ a \in 1 .. n + 1
  BY LenProperties DEF IsLine
<1>10. /\ \A i \in 1 .. n : p[fs[i]] \in Seq(T) /\ Parts(p, fs)[i] \in Seq(T)
       /\ F(0) = <<>>
       /\ \A i \in 0 .. n : F(i) \in Seq(T)
       /\ \A i \in 1 .. n : F(i) = F(i - 1) \o p[fs[i]]
  <2>1. PartsAreRuns(T, p, fs)
    BY PartsFacts
  <2> QED
    BY <2>1 DEF PartsAreRuns
<1>11. ASSUME NEW c, NEW d, IsLine(p, fs, c, d)
      PROVE  /\ ExecutedAt(p, fs, <<c, d>>) =
                  F(c - 1) \o (IF c > n THEN <<>> ELSE SubSeq(p[fs[c]], 1, d - 1))
             /\ F(c - 1) \in Seq(T)
  <2>1. ExecutedIsRun(T, p, fs, c, d)
    BY <1>11, ExecutedIs
  <2> QED
    BY <2>1 DEF ExecutedIsRun
<1>12. Whole(p, fs) = F(n)
  BY DEF Whole
<1>13. \A i \in 0 .. n : Continues(T, F(i), F(n))
  <2> TAKE i \in 0 .. n
  <2> DEFINE ss == Parts(p, fs)
  <2>1. i \in Nat /\ i <= n /\ n \in Nat /\ \A j \in 1 .. n : ss[j] \in Seq(T)
    BY <1>0, <1>10
  <2> HIDE DEF ss, n
  <2>2. Continues(T, FirstOf(ss, i), FirstOf(ss, n))
    BY <2>1, FirstOfIsPrefix
  <2> QED
    BY <2>2 DEF ss
<1>14. /\ a \in 1 .. n + 1 /\ b \in Nat \ {0}
      /\ a <= n => b <= Len(p[fs[a]]) + 1
  BY DEF IsLine
<1>15. ASSUME NEW c \in 1 .. n + 1, NEW d \in Nat \ {0}, c <= n => d <= Len(p[fs[c]]) + 1
      PROVE  IsLine(p, fs, c, d)
  BY <1>15 DEF IsLine
<1> HIDE DEF F
<1>1. /\ ExecutedAt(p, fs, <<a, b>>) =
           F(a - 1) \o (IF a > n THEN <<>> ELSE SubSeq(p[fs[a]], 1, b - 1))
      /\ F(a - 1) \in Seq(T)
  BY <1>11
<1> HIDE DEF n
<1>2. a = 1 /\ b = 1 => ExecutedAt(p, fs, <<a, b>>) = <<>>
  <2> SUFFICES ASSUME a = 1, b = 1 PROVE ExecutedAt(p, fs, <<a, b>>) = <<>>
    OBVIOUS
  <2>1. F(a - 1) = <<>>
    <3>1. a - 1 = 0
      OBVIOUS
    <3> QED
      BY <1>10, <3>1
  <2>2. SubSeq(p[fs[a]], 1, b - 1) = <<>>
    <3>1. 1 \in Int /\ b - 1 \in Int /\ b - 1 < 1
      OBVIOUS
    <3> QED
      BY <3>1, SubSeqEmpty
  <2>3. <<>> \o <<>> = <<>>
    BY EmptySeq, ConcatEmptySeq
  <2> QED
    BY <1>1, <2>1, <2>2, <2>3
<1>3. a > n => ExecutedAt(p, fs, <<a, b>>) = Whole(p, fs)
  <2> SUFFICES ASSUME a > n PROVE ExecutedAt(p, fs, <<a, b>>) = Whole(p, fs)
    OBVIOUS
  <2>1. a - 1 = n
    BY <1>0
  <2> QED
    BY <1>1, <1>12, <2>1, ConcatEmptySeq
<1>4. ASSUME a <= n, b <= Len(p[fs[a]])
      PROVE  /\ IsLine(p, fs, a, b + 1)
             /\ p[fs[a]][b] \in T
             /\ ExecutedAt(p, fs, <<a, b + 1>>) = ExecutedAt(p, fs, <<a, b>>) \o <<p[fs[a]][b]>>
             /\ \E rest \in Seq(T) :
                  Whole(p, fs) = (ExecutedAt(p, fs, <<a, b>>) \o <<p[fs[a]][b]>>) \o rest
  <2> DEFINE s == p[fs[a]]
             x == F(a - 1)
             y == SubSeq(s, 1, b - 1)
             z == <<s[b]>>
             w == SubSeq(s, b + 1, Len(s))
  <2>0. a \in 1 .. n /\ ~(a > n)
    BY <1>0, <1>4
  <2>1. s \in Seq(T) /\ Len(s) \in Nat /\ b \in 1 .. Len(s) /\ s[b] \in T
    <3>1. s \in Seq(T)
      BY <1>10, <2>0
    <3>2. Len(s) \in Nat /\ b \in 1 .. Len(s)
      BY <1>0, <1>4, <3>1, LenProperties
    <3> QED
      BY <3>1, <3>2, ElementOfSeq
  <2>2. IsLine(p, fs, a, b + 1)
    BY <1>0, <1>4, <1>15, <2>1
  <2>3. ExecutedAt(p, fs, <<a, b>>) = x \o y
    BY <1>1, <2>0
  <2>4. ExecutedAt(p, fs, <<a, b + 1>>) = x \o SubSeq(s, 1, b)
    <3>1. (b + 1) - 1 = b
      BY <1>0
    <3> QED
      BY <1>11, <2>0, <2>2, <3>1
  <2>5. x \in Seq(T) /\ y \in Seq(T) /\ z \in Seq(T) /\ w \in Seq(T)
    <3>1. 1 \in Int /\ b - 1 \in Int /\ \A i \in 1 .. b - 1 : s[i] \in T
      BY <2>1, ElementOfSeq
    <3>2. b + 1 \in Int /\ Len(s) \in Int /\ \A i \in b + 1 .. Len(s) : s[i] \in T
      BY <2>1, ElementOfSeq
    <3>3. y \in Seq(T)
      BY <3>1, SubSeqProperties
    <3>4. w \in Seq(T)
      BY <3>2, SubSeqProperties
    <3> QED
      BY <1>1, <2>1, <3>3, <3>4
  <2>6. SubSeq(s, 1, b) = y \o z
    <3>1. 1 \in 1 .. Len(s) /\ b \in 1 .. Len(s)
      BY <2>1
    <3> QED
      BY <2>1, <3>1, SubSeqRecursiveSecond
  <2>7. s = (y \o z) \o w
    <3>1. 1 \in 1 .. Len(s) + 1 /\ b \in 1 - 1 .. Len(s) /\ Len(s) \in b .. Len(s)
      BY <2>1
    <3>2. SubSeq(s, 1, b) \o SubSeq(s, b + 1, Len(s)) = SubSeq(s, 1, Len(s))
      BY <2>1, <3>1, ConcatAdjacentSubSeq
    <3>3. SubSeq(s, 1, Len(s)) = s
      BY <2>1, SubSeqFull
    <3> QED
      BY <2>6, <3>2, <3>3
  <2>8. PICK r \in Seq(T) : Whole(p, fs) = F(a) \o r
    <3>1. a \in 0 .. n
      BY <1>0, <2>0
    <3>2. Continues(T, F(a), F(n))
      BY <1>13, <3>1
    <3> QED
      BY <1>12, <3>2 DEF Continues
  <2>9. F(a) = x \o s
    BY <1>10, <2>0
  <2>10. s[b] \in T
    BY <2>1
  <2> HIDE DEF s, x, y, z, w
  <2>11. y \o z \in Seq(T) /\ x \o y \in Seq(T) /\ (x \o y) \o z \in Seq(T)
    <3>1. y \o z \in Seq(T)
      BY <2>5, ConcatProperties
    <3>2. x \o y \in Seq(T)
      BY <2>5, ConcatProperties
    <3>3. (x \o y) \o z \in Seq(T)
      BY <2>5, <3>2, ConcatProperties
    <3> QED
      BY <3>1, <3>2, <3>3
  <2>12. x \o (y \o z) = (x \o y) \o z
    BY <2>5, ConcatAssociative, SMTT(30)
  <2>13. ExecutedAt(p, fs, <<a, b + 1>>) = ExecutedAt(p, fs, <<a, b>>) \o z
    BY <2>3, <2>4, <2>6, <2>12
  <2>14. Whole(p, fs) = (ExecutedAt(p, fs, <<a, b>>) \o z) \o (w \o r) /\ w \o r \in Seq(T)
    <3>1. x \o ((y \o z) \o w) = (x \o (y \o z)) \o w
      BY <2>5, <2>11, ConcatAssociative, SMTT(30)
    <3>2. (((x \o y) \o z) \o w) \o r = ((x \o y) \o z) \o (w \o r)
      BY <2>5, <2>8, <2>11, ConcatAssociative, SMTT(30)
    <3>3. w \o r \in Seq(T)
      BY <2>5, <2>8, ConcatProperties
    <3>4. Whole(p, fs) = (((x \o y) \o z) \o w) \o r
      BY <2>7, <2>8, <2>9, <2>12, <3>1
    <3> QED
      BY <2>3, <3>2, <3>3, <3>4
  <2>15. \E rest \in Seq(T) : Whole(p, fs) = (ExecutedAt(p, fs, <<a, b>>) \o z) \o rest
    BY <2>14
  <2> QED
    BY <2>2, <2>10, <2>13, <2>15 DEF s, z
<1>5. ASSUME a <= n, b > Len(p[fs[a]])
      PROVE  /\ IsLine(p, fs, a + 1, 1)
             /\ ExecutedAt(p, fs, <<a + 1, 1>>) = ExecutedAt(p, fs, <<a, b>>)
  <2> DEFINE s == p[fs[a]]
  <2>0. a \in 1 .. n /\ ~(a > n) /\ (a + 1) - 1 = a
    BY <1>0, <1>5
  <2>1. s \in Seq(T) /\ Len(s) \in Nat
    BY <1>10, <2>0, LenProperties
  <2>2. b - 1 = Len(s)
    BY <1>0, <1>5, <1>14, <2>1, SMTT(30)
  <2>3. ExecutedAt(p, fs, <<a, b>>) = F(a - 1) \o s
    <3>1. SubSeq(s, 1, b - 1) = s
      BY <2>1, <2>2, SubSeqFull
    <3> QED
      BY <1>1, <2>0, <3>1
  <2>4. a + 1 <= n => p[fs[a + 1]] \in Seq(T) /\ Len(p[fs[a + 1]]) \in Nat
    <3>1. a + 1 <= n => a + 1 \in 1 .. n
      BY <1>0
    <3> QED
      BY <1>10, <3>1, LenProperties
  <2>5. IsLine(p, fs, a + 1, 1)
    BY <1>0, <1>15, <2>0, <2>4
  <2>6. ExecutedAt(p, fs, <<a + 1, 1>>) = F(a) \o (IF a + 1 > n THEN <<>> ELSE SubSeq(p[fs[a + 1]], 1, 0))
        /\ F(a) \in Seq(T)
    <3>1. 1 - 1 = 0
      OBVIOUS
    <3> QED
      BY <1>11, <2>0, <2>5, <3>1
  <2>7. SubSeq(p[fs[a + 1]], 1, 0) = <<>>
    BY SubSeqEmpty
  <2>8. F(a) \o <<>> = F(a)
    BY <2>6, ConcatEmptySeq
  <2>9. F(a) = F(a - 1) \o s
    BY <1>10, <2>0
  <2> HIDE DEF s
  <2> QED
    BY <2>3, <2>5, <2>6, <2>7, <2>8, <2>9
<1> QED
  BY <1>2, <1>3, <1>4, <1>5 DEF n, Moves, Continues

-----------------------------------------------------------------------------
(* The order of the names is one: Source goes through the files as an      *)
(* import does.                                                            *)
LEMMA OrderIsOne ==
  ASSUME NEW o \in ImportOrders, NEW q \in ImportOrders
  PROVE  o = q /\ o \in Seq(Files)
<1> DEFINE n == Cardinality(Files)
<1>1. n \in Nat
  BY FilesAreOrdered, FS_CardinalityType
<1>2. /\ o \in [1 .. n -> Files] /\ q \in [1 .. n -> Files]
      /\ InOrder(o) /\ InOrder(q)
  BY DEF ImportOrders
<1> HIDE DEF n
<1>3. Files \subseteq Nat
  BY FilesAreOrdered
<1>4. ASSUME NEW k \in Nat, \A i \in 1 .. k : i \in 1 .. n => o[i] = q[i], k + 1 \in 1 .. n
      PROVE  o[k + 1] = q[k + 1]
  <2> DEFINE m == k + 1
  <2>1. ASSUME NEW x \in [1 .. n -> Files], NEW y \in [1 .. n -> Files], InOrder(x), InOrder(y),
               \A i \in 1 .. k : i \in 1 .. n => x[i] = y[i]
        PROVE  ~(x[m] < y[m])
    <3> SUFFICES ASSUME x[m] < y[m] PROVE FALSE
      OBVIOUS
    <3>1. x[m] \in Range(y)
      BY <1>4, <2>1 DEF InOrder
    <3>2. PICK j \in 1 .. n : y[j] = x[m]
      BY <2>1, <3>1 DEF Range
    <3>7. m \in 1 .. n
      BY <1>4
    <3>8. x[m] \in Files /\ y[m] \in Files
      <4> HIDE DEF m
      <4> QED
        BY <2>1, <3>7
    <3>3. j \in Nat /\ m \in 1 .. n /\ x[m] \in Nat /\ y[m] \in Nat
      <4>1. j \in Nat
        BY <1>1, <3>2
      <4> QED
        BY <1>3, <3>7, <3>8, <4>1
    <3>4. j # m
      BY <3>2, <3>3
    <3>5. CASE j < m
      <4>1. j \in 1 .. k
        BY <3>3, <3>5
      <4>2. x[j] = x[m]
        BY <2>1, <3>2, <4>1
      <4>3. x[j] < x[m]
        BY <2>1, <3>3, <3>5 DEF InOrder
      <4> QED
        BY <3>3, <4>2, <4>3
    <3>6. CASE m < j
      <4>1. y[m] < y[j]
        BY <2>1, <3>3, <3>6 DEF InOrder
      <4> QED
        BY <3>2, <3>3, <4>1
    <3> QED
      BY <3>3, <3>4, <3>5, <3>6
  <2>2. ~(o[m] < q[m]) /\ ~(q[m] < o[m])
    BY <1>2, <1>4, <2>1
  <2>3. o[m] \in Nat /\ q[m] \in Nat
    BY <1>2, <1>3, <1>4
  <2> QED
    BY <2>2, <2>3
<1> DEFINE P == {k \in Nat : \A i \in 1 .. k : i \in 1 .. n => o[i] = q[i]}
<1>5. 0 \in P
  OBVIOUS
<1>6. ASSUME NEW k \in 1 .. n, k - 1 \in P
      PROVE  k \in P
  <2> DEFINE j == k - 1
  <2>1. j \in Nat /\ j + 1 = k /\ \A i \in 1 .. j : i \in 1 .. n => o[i] = q[i]
    BY <1>1, <1>6
  <2>2. \A i \in 1 .. k : i \in 1 .. j \/ i = k
    BY <1>1
  <2> HIDE DEF j
  <2>3. o[j + 1] = q[j + 1]
    BY <1>4, <2>1
  <2> QED
    BY <2>1, <2>2, <2>3
<1>7. n \in P
  <2> HIDE DEF P
  <2>1. \A i \in 0 .. n : i \in P
    BY <1>1, <1>5, <1>6, UpTo
  <2> QED
    BY <1>1, <2>1
<1>8. o = q
  BY <1>2, <1>7
<1>9. o \in UNION {[1 .. k -> Files] : k \in Nat}
  BY <1>1, <1>2
<1> QED
  BY <1>8, <1>9, SeqDef

LEMMA SourceIsWhole ==
  ASSUME files \in ImportOrders
  PROVE  Source = Whole(project, files)
<1> DEFINE order == CHOOSE o \in [1 .. Cardinality(Files) -> Files] : InOrder(o)
<1>1. order \in ImportOrders
  BY DEF ImportOrders
<1>2. order = files /\ files \in Seq(Files)
  <2> HIDE DEF order
  <2> QED
    BY <1>1, OrderIsOne
<1>3. DOMAIN files = 1 .. Len(files)
  BY <1>2, LenProperties
<1>4. Source = FlattenSeq([i \in DOMAIN files |-> project[files[i]]])
  <2>1. Source = FlattenSeq([i \in DOMAIN order |-> project[order[i]]])
    BY DEF Source
  <2> HIDE DEF order
  <2> QED
    BY <1>2, <2>1
<1>5. [i \in DOMAIN files |-> project[files[i]]] = [i \in 1 .. Len(files) |-> Parts(project, files)[i]]
  BY <1>3 DEF Parts
<1> QED
  BY <1>4, <1>5 DEF Whole, FirstOf


-----------------------------------------------------------------------------
(* The inductive invariant.                                                *)
StatementNames == {s.name : s \in {t \in Statements : t.kind \in Kinds}}
Entry == [name : StatementNames, fn : [import : Nat, file : Files, at : Nat]]

StateTyped ==
  /\ DOMAIN project = Files /\ \A f \in Files : project[f] \in Seq(Statements)
  /\ registry \in [Kinds -> Seq(Entry)] /\ before \in [Kinds -> Seq(Entry)]
  /\ phase \in {"idle", "import", "imported", "failed"} /\ imports \in Nat

OnALine ==
  phase # "idle" =>
    /\ files \in ImportOrders /\ line = <<line[1], line[2]>>
    /\ IsLine(project, files, line[1], line[2])
    /\ phase = "imported" => line[1] > Len(files)

NamesOnce == \A kind \in Kinds : IsInjective(Names(registry[kind]))

Mirrored ==
  phase # "idle" =>
    \A kind \in Kinds : Names(registry[kind]) = Names(before[kind]) \o Declares(Executed, kind)

SoundSoFar == phase # "idle" => \A i \in DOMAIN Executed : Sound(Executed[i])

AtStatement == line[1] <= Len(files) /\ line[2] <= Len(project[files[line[1]]])

Refused ==
  ~Sound(Statement) \/ (Statement.kind \in Kinds /\ Taken(Statement.kind, Statement.name))

FailedAtRefused == phase = "failed" => AtStatement /\ Refused

DumpedAsIs == dump # None => phase = "imported" /\ dump = registry

ImportInv ==
  /\ StateTyped /\ OnALine /\ NamesOnce /\ Mirrored /\ SoundSoFar
  /\ FailedAtRefused /\ DumpedAsIs

LEMMA ExecutedThen ==
  /\ Executed = ExecutedAt(project, files, line)
  /\ Executed' = ExecutedAt(project', files', line')
<1>1. Executed = ExecutedAt(project, files, line)
  BY DEF Executed, ExecutedAt
<1>2. Executed' = ExecutedAt(project', files', line')
  BY DEF Executed, ExecutedAt
<1> QED
  BY <1>1, <1>2

(* Where the import stands, and where it goes.                             *)
LEMMA Here ==
  ASSUME StateTyped, OnALine, phase # "idle"
  PROVE  /\ files \in Seq(Files) /\ Len(files) \in Nat
         /\ line[1] \in Nat /\ line[2] \in Nat
         /\ Executed \in Seq(Statements)
         /\ line[1] > Len(files) => Executed = Source
         /\ AtStatement =>
              /\ Statement \in Statements /\ files[line[1]] \in Files
              /\ IsLine(project, files, line[1], line[2] + 1)
              /\ ExecutedAt(project, files, <<line[1], line[2] + 1>>) = Executed \o <<Statement>>
              /\ Continues(Statements, Executed \o <<Statement>>, Source)
         /\ line[1] <= Len(files) /\ ~AtStatement =>
              /\ IsLine(project, files, line[1] + 1, 1)
              /\ ExecutedAt(project, files, <<line[1] + 1, 1>>) = Executed
<1> DEFINE a == line[1]
           b == line[2]
<1>1. /\ files \in ImportOrders /\ line = <<a, b>> /\ IsLine(project, files, a, b)
      /\ \A f \in Files : project[f] \in Seq(Statements)
  BY DEF StateTyped, OnALine
<1>2. files \in Seq(Files) /\ Source = Whole(project, files)
  BY <1>1, OrderIsOne, SourceIsWhole
<1>3. Executed = ExecutedAt(project, files, <<a, b>>)
  BY <1>1, ExecutedThen
<1>4. Len(files) \in Nat /\ a \in Nat /\ b \in Nat /\ (a <= Len(files) => files[a] \in Files)
  <2>1. Len(files) \in Nat /\ a \in 1 .. Len(files) + 1 /\ b \in Nat
    BY <1>1, <1>2, LenProperties DEF IsLine
  <2>2. a <= Len(files) => a \in 1 .. Len(files)
    BY <2>1
  <2> QED
    BY <1>2, <2>1, <2>2, ElementOfSeq
<1> HIDE DEF a, b
<1>5. Executed \in Seq(Statements)
  BY <1>1, <1>2, <1>3, ExecutedIs DEF ExecutedIsRun
<1>13. Moves(Statements, project, files, a, b)
  BY <1>1, <1>2, ExecutedMoves
<1>6. a > Len(files) => Executed = Source
  BY <1>2, <1>3, <1>13 DEF Moves
<1>7. ASSUME a <= Len(files), b <= Len(project[files[a]])
      PROVE  /\ IsLine(project, files, a, b + 1)
             /\ project[files[a]][b] \in Statements
             /\ ExecutedAt(project, files, <<a, b + 1>>) = Executed \o <<project[files[a]][b]>>
             /\ Continues(Statements, Executed \o <<project[files[a]][b]>>, Source)
  BY <1>2, <1>3, <1>7, <1>13 DEF Moves
<1>8. a <= Len(files) => Len(project[files[a]]) \in Nat
  <2>1. a <= Len(files) => project[files[a]] \in Seq(Statements)
    BY <1>1, <1>4
  <2> QED
    BY <2>1, LenProperties
<1>9. ASSUME a <= Len(files), ~(b <= Len(project[files[a]]))
      PROVE  /\ IsLine(project, files, a + 1, 1)
             /\ ExecutedAt(project, files, <<a + 1, 1>>) = Executed
  <2>1. b > Len(project[files[a]])
    <3> DEFINE z == Len(project[files[a]])
    <3>1. z \in Nat /\ ~(b <= z)
      BY <1>8, <1>9
    <3> HIDE DEF z
    <3>2. b > z
      BY <1>4, <3>1
    <3> QED
      BY <3>2 DEF z
  <2> QED
    BY <1>3, <1>9, <1>13, <2>1 DEF Moves
<1>10. AtStatement <=> a <= Len(files) /\ b <= Len(project[files[a]])
  BY DEF AtStatement, a, b
<1>11. Statement = project[files[a]][b]
  BY DEF Statement, a, b
<1>12. /\ a > Len(files) => Executed = Source
       /\ AtStatement =>
            /\ Statement \in Statements /\ files[a] \in Files
            /\ IsLine(project, files, a, b + 1)
            /\ ExecutedAt(project, files, <<a, b + 1>>) = Executed \o <<Statement>>
            /\ Continues(Statements, Executed \o <<Statement>>, Source)
       /\ a <= Len(files) /\ ~AtStatement =>
            /\ IsLine(project, files, a + 1, 1)
            /\ ExecutedAt(project, files, <<a + 1, 1>>) = Executed
  BY <1>4, <1>6, <1>7, <1>9, <1>10, <1>11
<1> QED
  BY <1>2, <1>4, <1>5, <1>12 DEF a, b

(* Names and the one more.                                                 *)
LEMMA NamesAppend ==
  ASSUME NEW s \in Seq(Entry), NEW e \in Entry
  PROVE  /\ Names(s) \in Seq(StatementNames) /\ e.name \in StatementNames
         /\ Names(Append(s, e)) = Append(Names(s), e.name)
         /\ Append(s, e) \in Seq(Entry)
         /\ NamesIn(s) = {Names(s)[i] : i \in DOMAIN Names(s)}
<1>1. /\ Len(s) \in Nat /\ DOMAIN s = 1 .. Len(s) /\ \A i \in 1 .. Len(s) : s[i] \in Entry
      /\ Append(s, e) \in Seq(Entry)
  BY LenProperties, ElementOfSeq, AppendProperties
<1>2. Names(s) = [i \in 1 .. Len(s) |-> s[i].name]
  BY <1>1 DEF Names
<1>3. \A i \in 1 .. Len(s) : s[i].name \in StatementNames
  BY <1>1 DEF Entry
<1>4. Names(s) \in Seq(StatementNames) /\ Len(Names(s)) = Len(s)
  BY <1>1, <1>2, <1>3
<1>5. e.name \in StatementNames
  BY DEF Entry
<1>6. Names(Append(s, e)) = Append(Names(s), e.name)
  <2>1. /\ DOMAIN Append(s, e) = 1 .. Len(s) + 1
        /\ \A i \in 1 .. Len(s) : Append(s, e)[i] = s[i]
        /\ Append(s, e)[Len(s) + 1] = e
    BY <1>1, AppendProperties
  <2>2. /\ DOMAIN Append(Names(s), e.name) = 1 .. Len(s) + 1
        /\ \A i \in 1 .. Len(s) : Append(Names(s), e.name)[i] = Names(s)[i]
        /\ Append(Names(s), e.name)[Len(s) + 1] = e.name
        /\ Append(Names(s), e.name) \in Seq(StatementNames)
    BY <1>4, <1>5, AppendProperties
  <2>3. Append(Names(s), e.name) = [i \in 1 .. Len(s) + 1 |-> Append(Names(s), e.name)[i]]
    BY <2>2, SeqDef
  <2>4. \A i \in 1 .. Len(s) + 1 : i \in 1 .. Len(s) \/ i = Len(s) + 1
    BY <1>1
  <2>5. \A i \in 1 .. Len(s) + 1 : Append(s, e)[i].name = Append(Names(s), e.name)[i]
    BY <1>2, <2>1, <2>2, <2>4
  <2>6. Names(Append(s, e)) = [i \in 1 .. Len(s) + 1 |-> Append(s, e)[i].name]
    BY <2>1 DEF Names
  <2> QED
    BY <2>3, <2>5, <2>6
<1>7. NamesIn(s) = {Names(s)[i] : i \in DOMAIN Names(s)}
  BY <1>1, <1>2 DEF NamesIn
<1> QED
  BY <1>1, <1>4, <1>5, <1>6, <1>7

LEMMA NoneNamed == Names(<<>>) = <<>> /\ IsInjective(<<>>)
  BY DEF Names, IsInjective

(* One more stays without repetition when it is new, and a repetition is   *)
(* not mended by what follows.                                             *)
LEMMA OneMore ==
  ASSUME NEW T, NEW s \in Seq(T), NEW x \in T, NEW t \in Seq(T)
  PROVE  /\ IsInjective(s) /\ x \notin {s[i] : i \in DOMAIN s} => IsInjective(Append(s, x))
         /\ x \in {s[i] : i \in DOMAIN s} => ~IsInjective((s \o <<x>>) \o t)
<1>1. /\ Len(s) \in Nat /\ DOMAIN s = 1 .. Len(s)
      /\ DOMAIN Append(s, x) = 1 .. Len(s) + 1
      /\ \A i \in 1 .. Len(s) : Append(s, x)[i] = s[i]
      /\ Append(s, x)[Len(s) + 1] = x
      /\ Append(s, x) \in Seq(T) /\ Len(Append(s, x)) = Len(s) + 1
  BY LenProperties, AppendProperties
<1>2. ASSUME IsInjective(s), x \notin {s[i] : i \in DOMAIN s}
      PROVE  IsInjective(Append(s, x))
  <2>1. \A i \in 1 .. Len(s) + 1 : i \in 1 .. Len(s) \/ i = Len(s) + 1
    BY <1>1
  <2> QED
    BY <1>1, <1>2, <2>1 DEF IsInjective
<1>3. ASSUME x \in {s[i] : i \in DOMAIN s}
      PROVE  ~IsInjective((s \o <<x>>) \o t)
  <2>1. PICK i \in 1 .. Len(s) : s[i] = x
    BY <1>1, <1>3
  <2> DEFINE u == Append(s, x)
             v == u \o t
  <2>2. s \o <<x>> = u
    BY AppendIsConcat
  <2>3. u \in Seq(T) /\ Len(u) = Len(s) + 1 /\ u[i] = x /\ u[Len(s) + 1] = x
    BY <1>1, <2>1
  <2> HIDE DEF u
  <2>4. /\ Len(t) \in Nat /\ DOMAIN v = 1 .. Len(u) + Len(t)
        /\ \A j \in 1 .. Len(u) + Len(t) : v[j] = IF j <= Len(u) THEN u[j] ELSE t[j - Len(u)]
    <3>1. /\ Len(t) \in Nat /\ v \in Seq(T) /\ Len(v) = Len(u) + Len(t)
          /\ \A j \in 1 .. Len(u) + Len(t) : v[j] = IF j <= Len(u) THEN u[j] ELSE t[j - Len(u)]
      BY <2>3, ConcatProperties, LenProperties
    <3> HIDE DEF v
    <3>2. DOMAIN v = 1 .. Len(v)
      BY <3>1, LenProperties
    <3> QED
      BY <3>1, <3>2
  <2>5. /\ i \in 1 .. Len(u) + Len(t) /\ i <= Len(u) /\ i # Len(s) + 1
        /\ Len(s) + 1 \in 1 .. Len(u) + Len(t) /\ Len(s) + 1 <= Len(u)
    BY <1>1, <2>3, <2>4
  <2> HIDE DEF v
  <2>6. v[i] = x /\ v[Len(s) + 1] = x
    BY <2>3, <2>4, <2>5
  <2>7. ~IsInjective(v)
    BY <2>4, <2>5, <2>6 DEF IsInjective
  <2> QED
    BY <2>2, <2>7 DEF v
<1> QED
  BY <1>2, <1>3


LEMMA InitImport ==
  ASSUME Init
  PROVE  ImportInv
<1>1. DOMAIN project = Files /\ \A f \in Files : project[f] \in Seq(Statements)
  BY ProjectsType DEF Init
<1>2. /\ registry = EmptyRegistry /\ before = EmptyRegistry /\ phase = "idle"
      /\ imports = 0 /\ dump = None
  BY DEF Init
<1>3. EmptyRegistry \in [Kinds -> Seq(Entry)] /\ \A kind \in Kinds : EmptyRegistry[kind] = <<>>
  BY EmptySeq DEF EmptyRegistry
<1>4. StateTyped
  BY <1>1, <1>2, <1>3 DEF StateTyped
<1>5. NamesOnce
  BY <1>2, <1>3, NoneNamed DEF NamesOnce
<1>6. OnALine /\ Mirrored /\ SoundSoFar /\ FailedAtRefused /\ DumpedAsIs
  BY <1>2 DEF OnALine, Mirrored, SoundSoFar, FailedAtRefused, DumpedAsIs
<1> QED
  BY <1>4, <1>5, <1>6 DEF ImportInv

LEMMA StartKeeps ==
  ASSUME ImportInv, StartImport
  PROVE  ImportInv'
<1>1. /\ phase' = "import" /\ imports' = imports + 1 /\ files' \in ImportOrders
      /\ line' = <<1, 1>> /\ before' = registry /\ registry' = registry
      /\ project' = project /\ dump' = dump /\ phase = "idle"
  BY DEF StartImport
<1>2. StateTyped'
  BY <1>1 DEF ImportInv, StateTyped
<1>3. files' \in Seq(Files) /\ \A f \in Files : project[f] \in Seq(Statements)
  BY <1>1, OrderIsOne DEF ImportInv, StateTyped
<1>4. IsLine(project, files', 1, 1)
  <2>1. Len(files') \in Nat /\ (1 <= Len(files') => files'[1] \in Files)
    <3>1. Len(files') \in Nat
      BY <1>3, LenProperties
    <3>2. 1 <= Len(files') => 1 \in 1 .. Len(files')
      BY <3>1
    <3> QED
      BY <1>3, <3>1, <3>2, ElementOfSeq
  <2>2. 1 <= Len(files') => Len(project[files'[1]]) \in Nat
    BY <1>3, <2>1, LenProperties
  <2> QED
    BY <2>1, <2>2 DEF IsLine
<1>5. OnALine'
  BY <1>1, <1>4 DEF OnALine
<1>6. Executed' = <<>>
  <2>1. Moves(Statements, project, files', 1, 1)
    BY <1>3, <1>4, ExecutedMoves
  <2>2. ExecutedAt(project, files', <<1, 1>>) = <<>>
    BY <2>1 DEF Moves
  <2> QED
    BY <1>1, <2>2, ExecutedThen
<1>7. NamesOnce'
  BY <1>1 DEF ImportInv, NamesOnce
<1>8. Mirrored'
  <2>1. ASSUME NEW kind \in Kinds
        PROVE  Names(registry[kind]) = Names(registry[kind]) \o Declares(<<>>, kind)
    <3>1. registry[kind] \in Seq(Entry)
      BY DEF ImportInv, StateTyped
    <3>2. Names(registry[kind]) \in Seq(StatementNames)
      <4>1. Len(registry[kind]) \in Nat /\ DOMAIN registry[kind] = 1 .. Len(registry[kind])
            /\ \A i \in DOMAIN registry[kind] : registry[kind][i] \in Entry
        BY <3>1, LenProperties, ElementOfSeq
      <4> QED
        BY <4>1 DEF Names, Entry
    <3> QED
      BY <3>2, DeclaresNone, ConcatEmptySeq
  <2> QED
    BY <1>1, <1>6, <2>1 DEF Mirrored
<1>9. SoundSoFar' /\ FailedAtRefused' /\ DumpedAsIs'
  BY <1>1, <1>6 DEF ImportInv, SoundSoFar, FailedAtRefused, DumpedAsIs
<1> QED
  BY <1>2, <1>5, <1>7, <1>8, <1>9 DEF ImportInv

(* What an import that raises leaves.                                      *)
LEMMA RaiseKeeps ==
  ASSUME ImportInv, AtStatement, Refused, phase = "import", Raise
  PROVE  ImportInv'
<1>1. /\ phase' = "failed" /\ project' = project /\ registry' = registry /\ files' = files
      /\ line' = line /\ before' = before /\ imports' = imports /\ dump' = dump
  BY DEF Raise
<1>2. StateTyped'
  BY <1>1 DEF ImportInv, StateTyped
<1>3. OnALine'
  BY <1>1 DEF ImportInv, OnALine
<1>4. Executed' = Executed
  BY <1>1, ExecutedThen
<1>5. NamesOnce' /\ Mirrored' /\ SoundSoFar'
  BY <1>1, <1>4 DEF ImportInv, NamesOnce, Mirrored, SoundSoFar
<1>6. AtStatement' /\ Refused' /\ Statement' = Statement
  BY <1>1 DEF AtStatement, Refused, Statement, Taken
<1>7. FailedAtRefused' /\ DumpedAsIs'
  BY <1>1, <1>6 DEF ImportInv, FailedAtRefused, DumpedAsIs
<1> QED
  BY <1>2, <1>3, <1>5, <1>7 DEF ImportInv

(* What a statement that does not raise leaves: kind gets one entry more   *)
(* when the statement declares one.                                        *)
Gets(r, e) ==
  IF Statement.kind \in Kinds
  THEN e.name = Statement.name /\ e \in Entry
         /\ r = [registry EXCEPT ![Statement.kind] = Append(@, e)]
  ELSE r = registry

LEMMA ProceedKeeps ==
  ASSUME ImportInv, AtStatement, phase = "import", Sound(Statement),
         Statement.kind \in Kinds => ~Taken(Statement.kind, Statement.name),
         NEW r, NEW e, Gets(r, e), Proceed(r)
  PROVE  ImportInv'
<1>1. /\ registry' = r /\ line' = <<line[1], line[2] + 1>> /\ project' = project
      /\ phase' = phase /\ files' = files /\ before' = before /\ imports' = imports
      /\ dump' = dump
  BY DEF Proceed
<1>0. StateTyped /\ OnALine /\ NamesOnce /\ Mirrored /\ SoundSoFar /\ DumpedAsIs
  BY DEF ImportInv
<1>2. /\ files \in Seq(Files) /\ Executed \in Seq(Statements)
      /\ line[1] \in Nat /\ line[2] \in Nat
      /\ Statement \in Statements
      /\ IsLine(project, files, line[1], line[2] + 1)
      /\ ExecutedAt(project, files, <<line[1], line[2] + 1>>) = Executed \o <<Statement>>
  BY <1>0, Here
<1>3. registry \in [Kinds -> Seq(Entry)]
  BY <1>0 DEF StateTyped
<1>4. registry' \in [Kinds -> Seq(Entry)]
  <2>1. CASE Statement.kind \in Kinds
    <3>1. Append(registry[Statement.kind], e) \in Seq(Entry)
      BY <1>3, <2>1, NamesAppend DEF Gets
    <3> QED
      BY <1>1, <1>3, <2>1, <3>1 DEF Gets
  <2>2. CASE Statement.kind \notin Kinds
    BY <1>1, <1>3, <2>2 DEF Gets
  <2> QED
    BY <2>1, <2>2
<1>5. StateTyped'
  BY <1>0, <1>1, <1>4 DEF StateTyped
<1>6. OnALine'
  BY <1>0, <1>1, <1>2 DEF OnALine
<1>7. Executed' = Executed \o <<Statement>>
  BY <1>1, <1>2, ExecutedThen
<1>8. SoundSoFar'
  <2> DEFINE x == Executed
             y == Statement
  <2>1. x \in Seq(Statements) /\ y \in Statements /\ Sound(y) /\ \A i \in DOMAIN x : Sound(x[i])
    BY <1>0, <1>2 DEF SoundSoFar
  <2> HIDE DEF x, y
  <2>2. x \o <<y>> = Append(x, y)
    BY <2>1, AppendIsConcat
  <2>3. /\ Len(x) \in Nat /\ DOMAIN x = 1 .. Len(x)
        /\ DOMAIN Append(x, y) = 1 .. Len(x) + 1
        /\ \A i \in 1 .. Len(x) : Append(x, y)[i] = x[i]
        /\ Append(x, y)[Len(x) + 1] = y
    BY <2>1, LenProperties, AppendProperties
  <2>4. \A i \in 1 .. Len(x) + 1 : i \in 1 .. Len(x) \/ i = Len(x) + 1
    BY <2>3
  <2>5. \A i \in DOMAIN Append(x, y) : Sound(Append(x, y)[i])
    BY <2>1, <2>3, <2>4
  <2> QED
    BY <1>7, <2>2, <2>5 DEF SoundSoFar, x, y
<1>9. ASSUME NEW kind \in Kinds
      PROVE  /\ IsInjective(Names(registry'[kind]))
             /\ Names(registry'[kind]) = Names(before[kind]) \o Declares(Executed', kind)
  <2> DEFINE b == Names(before[kind])
             d == Declares(Executed, kind)
  <2>1. Named(Statements, StatementNames, kind)
    BY DEF Named, StatementNames
  <2>2. b \in Seq(StatementNames) /\ d \in Seq(StatementNames)
    <3>1. before[kind] \in Seq(Entry)
      BY <1>0 DEF StateTyped
    <3>2. /\ Len(before[kind]) \in Nat /\ DOMAIN before[kind] = 1 .. Len(before[kind])
          /\ \A i \in DOMAIN before[kind] : before[kind][i] \in Entry
      BY <3>1, LenProperties, ElementOfSeq
    <3>3. b \in Seq(StatementNames)
      BY <3>2 DEF Names, Entry
    <3> QED
      BY <1>2, <2>1, <3>3, DeclaresType
  <2>3. Names(registry[kind]) = b \o d /\ IsInjective(Names(registry[kind]))
    BY <1>0 DEF Mirrored, NamesOnce
  <2>4. Declares(Executed', kind) = d \o Extended(<<>>, Statement, kind)
    <3> DEFINE z == <<Statement>>
    <3>1. z \in Seq(Statements) /\ Declares(z, kind) = Extended(<<>>, Statement, kind)
      BY <1>2, DeclaresOne
    <3> HIDE DEF z
    <3>2. Declares(Executed \o z, kind) = d \o Declares(z, kind)
      BY <1>2, <2>1, <3>1, DeclaresConcat
    <3> QED
      BY <1>7, <3>1, <3>2 DEF z
  <2> HIDE DEF b, d
  <2>5. CASE Statement.kind = kind
    <3>1. /\ e \in Entry /\ e.name = Statement.name
          /\ registry'[kind] = Append(registry[kind], e)
      BY <1>1, <1>3, <2>5 DEF Gets
    <3>2. /\ Names(registry[kind]) \in Seq(StatementNames) /\ e.name \in StatementNames
          /\ Names(registry'[kind]) = Append(Names(registry[kind]), e.name)
          /\ NamesIn(registry[kind]) =
               {Names(registry[kind])[i] : i \in DOMAIN Names(registry[kind])}
      BY <1>3, <3>1, NamesAppend
    <3>3. e.name \notin NamesIn(registry[kind])
      BY <2>5, <3>1 DEF Taken
    <3>4. IsInjective(Append(Names(registry[kind]), e.name))
      BY <2>3, <3>2, <3>3, EmptySeq, OneMore
    <3>5. Extended(<<>>, Statement, kind) = <<e.name>>
      <4>1. Append(<<>>, e.name) = <<e.name>>
        OBVIOUS
      <4> QED
        BY <2>5, <3>1, <4>1 DEF Extended
    <3>6. Append(b \o d, e.name) = b \o (d \o <<e.name>>)
      <4>1. d \o <<e.name>> = Append(d, e.name)
        BY <2>2, <3>2, AppendIsConcat
      <4> QED
        BY <2>2, <3>2, <4>1, AppendToConcat
    <3> QED
      BY <2>3, <2>4, <3>2, <3>4, <3>5, <3>6 DEF b
  <2>6. CASE Statement.kind # kind
    <3>1. registry'[kind] = registry[kind]
      <4>1. CASE Statement.kind \in Kinds
        BY <1>1, <1>3, <2>6, <4>1 DEF Gets
      <4>2. CASE Statement.kind \notin Kinds
        BY <1>1, <4>2 DEF Gets
      <4> QED
        BY <4>1, <4>2
    <3>2. d \o Extended(<<>>, Statement, kind) = d
      BY <2>2, <2>6, ConcatEmptySeq DEF Extended
    <3> QED
      BY <2>3, <2>4, <3>1, <3>2 DEF b
  <2> QED
    BY <2>5, <2>6
<1>10. NamesOnce' /\ Mirrored'
  BY <1>1, <1>9 DEF NamesOnce, Mirrored
<1>11. FailedAtRefused' /\ DumpedAsIs'
  BY <1>0, <1>1 DEF FailedAtRefused, DumpedAsIs
<1> QED
  BY <1>5, <1>6, <1>8, <1>10, <1>11 DEF ImportInv


LEMMA NextKeeps ==
  ASSUME ImportInv, [Next]_vars
  PROVE  ImportInv'
<1>0. StateTyped /\ OnALine /\ NamesOnce /\ Mirrored /\ SoundSoFar /\ FailedAtRefused /\ DumpedAsIs
  BY DEF ImportInv
<1>1. CASE StartImport
  BY <1>1, StartKeeps
<1>2. CASE RefuseDecoration
  <2>1. AtStatement /\ phase = "import" /\ Raise
    BY <1>2 DEF RefuseDecoration, Decorating, InFile, AtStatement
  <2>2. Refused
    <3>1. Statement.kind \in Kinds
      BY <1>2 DEF RefuseDecoration, Decorating
    <3>2. Statement.kind # "raise" /\ Statement.kind # "call"
      BY <3>1 DEF Kinds
    <3> QED
      BY <1>2, <3>1, <3>2 DEF RefuseDecoration, Refused, Sound
  <2> QED
    BY <2>1, <2>2, RaiseKeeps
<1>3. CASE Decorate
  <2> DEFINE e == [name |-> Statement.name, fn |-> Function]
             r == Entered(Statement.kind, Statement.name)
  <2>1. /\ AtStatement /\ phase = "import" /\ Statement.kind \in Kinds /\ Proceed(r)
        /\ ~Malformed(Statement) /\ ~Taken(Statement.kind, Statement.name)
    BY <1>3 DEF Decorate, Decorating, InFile, AtStatement
  <2>2. Statement.kind # "raise" /\ Statement.kind # "call"
    BY <2>1 DEF Kinds
  <2>3. Sound(Statement)
    BY <2>1, <2>2 DEF Sound
  <2>4. Statement \in Statements /\ files[line[1]] \in Files /\ line[2] \in Nat
    BY <1>0, <2>1, Here
  <2>5. e \in Entry
    <3>1. Statement.name \in StatementNames
      BY <2>1, <2>4 DEF StatementNames
    <3>2. Function \in [import : Nat, file : Files, at : Nat]
      BY <1>0, <2>4 DEF Function, StateTyped
    <3> QED
      BY <3>1, <3>2 DEF Entry
  <2>6. Gets(r, e)
    BY <2>1, <2>5 DEF Gets, Entered
  <2> HIDE DEF r, e
  <2> QED
    BY <2>1, <2>3, <2>6, ProceedKeeps
<1>4. CASE CallPipeline
  <2>1. /\ AtStatement /\ phase = "import" /\ Statement.kind = "call" /\ Proceed(registry)
        /\ ~CallRefused(Statement.args)
    BY <1>4 DEF CallPipeline, InFile, AtStatement
  <2>2. Statement.kind \notin Kinds /\ Sound(Statement)
    BY <2>1 DEF Kinds, Sound
  <2>3. Gets(registry, 0)
    BY <2>2 DEF Gets
  <2> QED
    BY <2>1, <2>2, <2>3, ProceedKeeps
<1>5. CASE RefuseCall
  <2>1. /\ AtStatement /\ phase = "import" /\ Raise /\ Refused
    BY <1>5 DEF RefuseCall, InFile, AtStatement, Refused, Sound
  <2> QED
    BY <2>1, RaiseKeeps
<1>6. CASE OtherRaises
  <2>1. /\ AtStatement /\ phase = "import" /\ Raise /\ Refused
    BY <1>6 DEF OtherRaises, InFile, AtStatement, Refused, Sound
  <2> QED
    BY <2>1, RaiseKeeps
<1>7. CASE NextFile
  <2>1. /\ line' = <<line[1] + 1, 1>> /\ project' = project /\ registry' = registry
        /\ phase' = phase /\ files' = files /\ before' = before /\ imports' = imports
        /\ dump' = dump /\ phase = "import" /\ line[1] <= Len(files)
        /\ line[2] > Len(project[files[line[1]]])
    BY <1>7 DEF NextFile
  <2>2. ~AtStatement
    <3>1. Len(project[files[line[1]]]) \in Nat /\ line[2] \in Nat
      <4>1. /\ files \in Seq(Files) /\ Len(files) \in Nat /\ line[1] \in Nat /\ line[2] \in Nat
        BY <1>0, <2>1, Here
      <4>2. line[1] \in 1 .. Len(files)
        BY <1>0, <2>1, <4>1 DEF OnALine, IsLine
      <4>3. project[files[line[1]]] \in Seq(Statements)
        BY <1>0, <4>1, <4>2, ElementOfSeq DEF StateTyped
      <4> QED
        BY <4>1, <4>3, LenProperties
    <3> QED
      BY <2>1, <3>1 DEF AtStatement
  <2>3. /\ IsLine(project, files, line[1] + 1, 1)
        /\ ExecutedAt(project, files, <<line[1] + 1, 1>>) = Executed
    BY <1>0, <2>1, <2>2, Here
  <2>4. Executed' = Executed
    BY <2>1, <2>3, ExecutedThen
  <2>5. StateTyped' /\ OnALine'
    BY <1>0, <2>1, <2>3 DEF StateTyped, OnALine
  <2>6. NamesOnce' /\ Mirrored' /\ SoundSoFar'
    BY <1>0, <2>1, <2>4 DEF NamesOnce, Mirrored, SoundSoFar
  <2>7. FailedAtRefused' /\ DumpedAsIs'
    BY <1>0, <2>1 DEF FailedAtRefused, DumpedAsIs
  <2> QED
    BY <2>5, <2>6, <2>7 DEF ImportInv
<1>8. CASE FinishImport
  <2>1. /\ phase = "import" /\ line[1] > Len(files) /\ phase' = "imported"
        /\ project' = project /\ registry' = registry /\ files' = files /\ line' = line
        /\ before' = before /\ imports' = imports /\ dump' = dump
    BY <1>8 DEF FinishImport
  <2>2. Executed' = Executed
    BY <2>1, ExecutedThen
  <2>3. StateTyped' /\ OnALine'
    BY <1>0, <2>1 DEF StateTyped, OnALine
  <2>4. NamesOnce' /\ Mirrored' /\ SoundSoFar' /\ FailedAtRefused' /\ DumpedAsIs'
    BY <1>0, <2>1, <2>2 DEF NamesOnce, Mirrored, SoundSoFar, FailedAtRefused, DumpedAsIs
  <2> QED
    BY <2>3, <2>4 DEF ImportInv
<1>9. CASE Dump
  <2>1. /\ phase = "imported" /\ dump' = registry /\ phase' = phase
        /\ project' = project /\ registry' = registry /\ files' = files /\ line' = line
        /\ before' = before /\ imports' = imports
    BY <1>9 DEF Dump
  <2>2. Executed' = Executed
    BY <2>1, ExecutedThen
  <2>3. StateTyped' /\ OnALine'
    BY <1>0, <2>1 DEF StateTyped, OnALine
  <2>4. NamesOnce' /\ Mirrored' /\ SoundSoFar' /\ FailedAtRefused' /\ DumpedAsIs'
    BY <1>0, <2>1, <2>2 DEF NamesOnce, Mirrored, SoundSoFar, FailedAtRefused, DumpedAsIs
  <2> QED
    BY <2>3, <2>4 DEF ImportInv
<1>10. ASSUME NEW r, Ready(r), r \in [Kinds -> Seq(Entry)],
              \A kind \in Kinds : r[kind] = <<>> \/ r[kind] = registry[kind]
       PROVE  ImportInv'
  <2>1. /\ registry' = r /\ phase' = "idle" /\ dump' = None /\ before' = EmptyRegistry
        /\ imports' = imports
        /\ project' = project \/ \E f \in Files, s \in Statements : \E i \in DOMAIN project[f] :
                                   project' = [project EXCEPT ![f][i] = s]
    BY <1>10 DEF Ready
  <2>2. DOMAIN project' = Files /\ \A f \in Files : project'[f] \in Seq(Statements)
    <3>0. DOMAIN project = Files /\ \A f \in Files : project[f] \in Seq(Statements)
      BY <1>0 DEF StateTyped
    <3>1. CASE project' = project
      BY <3>0, <3>1
    <3>2. ASSUME NEW f \in Files, NEW s \in Statements, NEW i \in DOMAIN project[f],
                 project' = [project EXCEPT ![f][i] = s]
          PROVE  DOMAIN project' = Files /\ \A g \in Files : project'[g] \in Seq(Statements)
      <4>1. [project[f] EXCEPT ![i] = s] \in Seq(Statements)
        BY <3>0, ExceptSeq, LenProperties
      <4>2. project' = [project EXCEPT ![f] = [project[f] EXCEPT ![i] = s]]
        BY <3>2
      <4> DEFINE t == [project[f] EXCEPT ![i] = s]
      <4> HIDE DEF t
      <4> QED
        BY <3>0, <4>1, <4>2 DEF t
    <3> QED
      BY <2>1, <3>1, <3>2
  <2>3. EmptyRegistry \in [Kinds -> Seq(Entry)]
    BY EmptySeq DEF EmptyRegistry
  <2>4. StateTyped'
    BY <1>0, <1>10, <2>1, <2>2, <2>3 DEF StateTyped
  <2>5. NamesOnce'
    BY <1>0, <1>10, <2>1, NoneNamed DEF NamesOnce
  <2>6. OnALine' /\ Mirrored' /\ SoundSoFar' /\ FailedAtRefused' /\ DumpedAsIs'
    BY <2>1 DEF OnALine, Mirrored, SoundSoFar, FailedAtRefused, DumpedAsIs
  <2> QED
    BY <2>4, <2>5, <2>6 DEF ImportInv
<1>11. CASE NewProcess
  <2>1. EmptyRegistry \in [Kinds -> Seq(Entry)] /\ \A kind \in Kinds : EmptyRegistry[kind] = <<>>
    BY EmptySeq DEF EmptyRegistry
  <2> QED
    BY <1>10, <1>11, <2>1 DEF NewProcess
<1>12. CASE TryAgain
  <2>1. PICK cleared \in SUBSET {"pipeline", "target"} :
          Ready([kind \in Kinds |-> IF kind \in cleared THEN <<>> ELSE registry[kind]])
    BY <1>12 DEF TryAgain
  <2> DEFINE r == [kind \in Kinds |-> IF kind \in cleared THEN <<>> ELSE registry[kind]]
  <2>2. registry \in [Kinds -> Seq(Entry)]
    BY <1>0 DEF StateTyped
  <2>3. r \in [Kinds -> Seq(Entry)] /\ \A kind \in Kinds : r[kind] = <<>> \/ r[kind] = registry[kind]
    BY <2>2, EmptySeq
  <2> HIDE DEF r
  <2> QED
    BY <1>10, <2>1, <2>3 DEF r
<1>13. CASE UNCHANGED vars
  <2>1. /\ project' = project /\ registry' = registry /\ phase' = phase /\ files' = files
        /\ line' = line /\ before' = before /\ imports' = imports /\ dump' = dump
    BY <1>13 DEF vars
  <2>2. Executed' = Executed
    BY <2>1, ExecutedThen
  <2>3. StateTyped' /\ OnALine'
    BY <1>0, <2>1 DEF StateTyped, OnALine
  <2>4. NamesOnce' /\ Mirrored' /\ SoundSoFar' /\ DumpedAsIs'
    BY <1>0, <2>1, <2>2 DEF NamesOnce, Mirrored, SoundSoFar, DumpedAsIs
  <2>5. FailedAtRefused'
    BY <1>0, <2>1 DEF FailedAtRefused, AtStatement, Refused, Statement, Taken
  <2> QED
    BY <2>3, <2>4, <2>5 DEF ImportInv
<1>14. CASE Ended
  BY <1>13, <1>14 DEF Ended
<1> QED
  BY <1>1, <1>2, <1>3, <1>4, <1>5, <1>6, <1>7, <1>8, <1>9, <1>11, <1>12, <1>13, <1>14 DEF Next

LEMMA ImportsKeepInv == Spec => []ImportInv
<1>1. Init => ImportInv
  BY InitImport
<1>2. ImportInv /\ [Next]_vars => ImportInv'
  BY NextKeeps
<1> QED
  BY <1>1, <1>2, PTL DEF Spec

(***************************************************************************)
(* Whatever the files hold and however often they are imported, no         *)
(* registry has a name twice, and where an import stands the registries    *)
(* are what was there before it and what the statements in front declare.  *)
(***************************************************************************)
THEOREM RegistriesAreTheImport == Spec => []RegistriesMirrorImport
<1>1. ImportInv => RegistriesMirrorImport
  BY DEF ImportInv, Mirrored, NamesOnce, RegistriesMirrorImport
<1> QED
  BY <1>1, ImportsKeepInv, PTL

(***************************************************************************)
(* A dump from a new process is the whole project in the order of the      *)
(* names of its files.                                                     *)
(***************************************************************************)
THEOREM DumpsAreWhole == Spec => []DumpIsTheProject
<1>1. ImportInv => DumpIsTheProject
  <2> SUFFICES ASSUME ImportInv, dump # None, before = EmptyRegistry, NEW kind \in Kinds
               PROVE  Names(dump[kind]) = Declares(Source, kind)
    BY DEF DumpIsTheProject
  <2>1. StateTyped /\ OnALine /\ Mirrored /\ phase = "imported" /\ dump = registry
    BY DEF ImportInv, DumpedAsIs
  <2>2. Executed = Source /\ Executed \in Seq(Statements)
    BY <2>1, Here DEF OnALine
  <2>3. Names(registry[kind]) = Names(<<>>) \o Declares(Source, kind)
    BY <2>1, <2>2 DEF Mirrored, EmptyRegistry
  <2>4. Declares(Source, kind) \in Seq(StatementNames)
    <3>1. Named(Statements, StatementNames, kind)
      BY DEF Named, StatementNames
    <3> QED
      BY <2>2, <3>1, DeclaresType
  <2> QED
    BY <2>1, <2>3, <2>4, NoneNamed, ConcatEmptySeq
<1> QED
  BY <1>1, ImportsKeepInv, PTL


LEMMA StandsInItself ==
  ASSUME NEW T, NEW s \in Seq(T)
  PROVE  IsPrefix(s, s)
<1>1. Len(s) \in Nat /\ Len(s) <= Len(s)
  BY LenProperties
<1> QED
  BY <1>1 DEF IsPrefix

LEMMA ExtendedIsPrefix ==
  ASSUME NEW T, NEW s \in Seq(T), NEW x \in T
  PROVE  IsPrefix(s, Append(s, x))
<1>1. Len(s) \in Nat /\ Len(Append(s, x)) = Len(s) + 1
  BY LenProperties, AppendProperties
<1>2. SubSeq(s, 1, Len(s)) = s
  BY SubSeqFull
<1>3. SubSeq(Append(s, x), 1, Len(s)) = s
  <2>1. Append(s, x) = s \o <<x>> /\ <<x>> \in Seq(T)
    BY AppendIsConcat
  <2>2. SubSeq(s \o <<x>>, 1, Len(s)) = SubSeq(s, 1, Len(s))
    <3> DEFINE t == <<x>>
    <3>1. t \in Seq(T)
      BY <2>1
    <3> HIDE DEF t
    <3> QED
      BY <1>1, <3>1, SubSeqOfConcat1
  <2> QED
    BY <1>2, <2>1, <2>2
<1> QED
  BY <1>1, <1>2, <1>3 DEF IsPrefix

(***************************************************************************)
(* What a registry holds stays as it is: an import only adds behind it,    *)
(* and it goes as a whole, when it is cleared or with the process.         *)
(***************************************************************************)
THEOREM EntriesAreKept == Spec => NothingIsReplaced
<1> DEFINE Kept == \A kind \in Kinds : registry'[kind] = <<>> \/ IsPrefix(registry[kind], registry'[kind])
<1>1. ASSUME ImportInv, [Next]_vars
      PROVE  [Kept]_vars
  <2>0. StateTyped /\ registry \in [Kinds -> Seq(Entry)]
    BY <1>1 DEF ImportInv, StateTyped
  <2>1. ASSUME registry' = registry PROVE Kept
    <3>1. \A kind \in Kinds : IsPrefix(registry[kind], registry[kind])
      <4> TAKE kind \in Kinds
      <4>1. registry[kind] \in Seq(Entry)
        BY <2>0
      <4> QED
        BY <4>1, StandsInItself
    <3> QED
      BY <2>1, <3>1
  <2>2. CASE Decorate
    <3> DEFINE k == Statement.kind
               e == [name |-> Statement.name, fn |-> Function]
    <3>1. AtStatement /\ phase = "import" /\ k \in Kinds /\ Proceed(Entered(k, Statement.name))
      BY <2>2 DEF Decorate, Decorating, InFile, AtStatement
    <3>2. Statement \in Statements /\ files[line[1]] \in Files /\ line[2] \in Nat
      BY <1>1, <3>1, Here DEF ImportInv
    <3>3. e \in Entry
      <4>1. Statement.name \in StatementNames
        BY <3>1, <3>2 DEF StatementNames
      <4>2. Function \in [import : Nat, file : Files, at : Nat]
        BY <2>0, <3>2 DEF Function, StateTyped
      <4> QED
        BY <4>1, <4>2 DEF Entry
    <3>4. registry' = [registry EXCEPT ![k] = Append(@, e)]
      BY <3>1 DEF Proceed, Entered
    <3> HIDE DEF k, e
    <3>5. ASSUME NEW kind \in Kinds
          PROVE  IsPrefix(registry[kind], registry'[kind])
      <4>1. registry[kind] \in Seq(Entry)
        BY <2>0
      <4>2. registry'[kind] = registry[kind] \/ registry'[kind] = Append(registry[kind], e)
        BY <2>0, <3>1, <3>4
      <4> QED
        BY <3>3, <4>1, <4>2, StandsInItself, ExtendedIsPrefix
    <3> QED
      BY <3>5
  <2>3. CASE NewProcess
    <3>1. registry' = EmptyRegistry
      BY <2>3 DEF NewProcess, Ready
    <3> QED
      BY <3>1 DEF EmptyRegistry
  <2>4. CASE TryAgain
    <3>1. PICK cleared \in SUBSET {"pipeline", "target"} :
            registry' = [kind \in Kinds |-> IF kind \in cleared THEN <<>> ELSE registry[kind]]
      BY <2>4 DEF TryAgain, Ready
    <3>2. ASSUME NEW kind \in Kinds
          PROVE  registry'[kind] = <<>> \/ IsPrefix(registry[kind], registry'[kind])
      <4>1. registry'[kind] = <<>> \/ registry'[kind] = registry[kind]
        BY <3>1
      <4>2. IsPrefix(registry[kind], registry[kind])
        <5>1. registry[kind] \in Seq(Entry)
          BY <2>0
        <5> QED
          BY <5>1, StandsInItself
      <4> QED
        BY <4>1, <4>2
    <3> QED
      BY <3>2
  <2>5. CASE \/ StartImport \/ RefuseDecoration \/ CallPipeline \/ RefuseCall \/ OtherRaises
             \/ NextFile \/ FinishImport \/ Dump \/ Ended \/ UNCHANGED vars
    <3>1. registry' = registry
      BY <2>5 DEF StartImport, RefuseDecoration, CallPipeline, RefuseCall, OtherRaises, Raise,
                  Proceed, NextFile, FinishImport, Dump, Ended, vars
    <3> QED
      BY <2>1, <3>1
  <2> HIDE DEF Kept
  <2> QED
    BY <1>1, <2>2, <2>3, <2>4, <2>5 DEF Next
<1>2. Spec => [][Kept]_vars
  <2> HIDE DEF Kept
  <2> QED
    BY <1>1, ImportsKeepInv, PTL DEF Spec
<1> QED
  BY <1>2 DEF NothingIsReplaced

(* An element stands in what continues a sequence, too.                    *)
LEMMA StandsBefore ==
  ASSUME NEW T, NEW s \in Seq(T), NEW x \in T, NEW y, Continues(T, s \o <<x>>, y)
  PROVE  \E i \in DOMAIN y : y[i] = x
<1> DEFINE u == Append(s, x)
           i == Len(s) + 1
<1>1. PICK rest \in Seq(T) : y = u \o rest
  BY AppendIsConcat DEF Continues
<1>2. u \in Seq(T) /\ Len(u) = i /\ u[i] = x /\ i \in Nat /\ i >= 1
  BY LenProperties, AppendProperties
<1> HIDE DEF u, i
<1>3. /\ Len(rest) \in Nat /\ y \in Seq(T) /\ Len(y) = i + Len(rest)
      /\ \A j \in 1 .. i + Len(rest) : y[j] = IF j <= Len(u) THEN u[j] ELSE rest[j - Len(u)]
  BY <1>1, <1>2, ConcatProperties, LenProperties
<1>4. DOMAIN y = 1 .. Len(y)
  BY <1>3, LenProperties
<1>5. i \in 1 .. i + Len(rest) /\ i <= Len(u)
  BY <1>2, <1>3
<1> QED
  BY <1>2, <1>3, <1>4, <1>5

(* What is declared from a statement on stands behind what is declared     *)
(* before it.                                                              *)
Splits(kind, s, t) == Declares(s \o t, kind) = Declares(s, kind) \o Declares(t, kind)

LEMMA DeclaresSplits ==
  ASSUME NEW S, NEW N, NEW kind, Named(S, N, kind), NEW s \in Seq(S), NEW t \in Seq(S)
  PROVE  Splits(kind, s, t)
<1>1. Declares(s \o t, kind) = Declares(s, kind) \o Declares(t, kind)
  BY DeclaresConcat
<1> QED
  BY <1>1 DEF Splits

Around(N, kind, s, e, rest, b) ==
  /\ b \o Declares((s \o <<e>>) \o rest, kind)
       = ((b \o Declares(s, kind)) \o <<e.name>>) \o Declares(rest, kind)
  /\ b \o Declares(s, kind) \in Seq(N) /\ Declares(rest, kind) \in Seq(N)
  /\ e.name \in N

LEMMA DeclaresAround ==
  ASSUME NEW S, NEW N, NEW kind, Named(S, N, kind), NEW s \in Seq(S), NEW e \in S,
         e.kind = kind, NEW rest \in Seq(S), NEW b \in Seq(N)
  PROVE  Around(N, kind, s, e, rest, b)
<1> DEFINE z == <<e>>
           w == <<e.name>>
           d == Declares(s, kind)
           r == Declares(rest, kind)
<1>1. z \in Seq(S) /\ e.name \in N
  BY DEF Named
<1>2. d \in Seq(N) /\ r \in Seq(N) /\ w \in Seq(N)
  BY <1>1, DeclaresType
<1>3. Declares(z, kind) = w
  <2>1. Declares(z, kind) = Extended(<<>>, e, kind)
    BY DeclaresOne
  <2>2. Append(<<>>, e.name) = w
    OBVIOUS
  <2> QED
    BY <2>1, <2>2 DEF Extended
<1> HIDE DEF z, w
<1>4. s \o z \in Seq(S)
  BY <1>1, ConcatProperties
<1>5. Declares((s \o z) \o rest, kind) = Declares(s \o z, kind) \o r
  <2>1. Splits(kind, s \o z, rest)
    <3> DEFINE u == s \o z
    <3>1. u \in Seq(S)
      BY <1>4
    <3> HIDE DEF u
    <3>2. Splits(kind, u, rest)
      BY <3>1, DeclaresSplits
    <3> QED
      BY <3>2 DEF u
  <2> QED
    BY <2>1 DEF Splits
<1>6. Declares(s \o z, kind) = d \o w
  <2>1. Splits(kind, s, z)
    BY <1>1, DeclaresSplits
  <2> QED
    BY <1>3, <2>1 DEF Splits
<1> HIDE DEF d, r
<1>7. b \o d \in Seq(N) /\ d \o w \in Seq(N)
  BY <1>2, ConcatProperties
<1>8. ASSUME NEW x \in Seq(N), NEW y \in Seq(N), NEW v \in Seq(N)
      PROVE  (x \o y) \o v = x \o (y \o v)
  BY ConcatAssociative
<1>9. b \o ((d \o w) \o r) = ((b \o d) \o w) \o r
  <2>1. (b \o (d \o w)) \o r = b \o ((d \o w) \o r)
    BY <1>2, <1>7, <1>8, Zenon
  <2>2. (b \o d) \o w = b \o (d \o w)
    BY <1>2, <1>8, Zenon
  <2> QED
    BY <2>1, <2>2
<1> QED
  <2>1. b \o Declares((s \o z) \o rest, kind) = ((b \o d) \o w) \o r
    BY <1>5, <1>6, <1>9
  <2> QED
    BY <1>1, <1>2, <1>7, <2>1 DEF Around, z, w, d, r

(***************************************************************************)
(* An import succeeds when every statement of the project is well formed   *)
(* and no name is declared twice or left from before, and it fails         *)
(* otherwise.                                                              *)
(***************************************************************************)
THEOREM ImportsFailForAReason == Spec => []ImportSucceedsIffSound
<1> DEFINE Free == /\ \A i \in DOMAIN Source : Sound(Source[i])
                   /\ \A kind \in Kinds : IsInjective(Names(before[kind]) \o Declares(Source, kind))
<1>1. ASSUME ImportInv, phase = "imported"
      PROVE  Free
  <2>1. Executed = Source
    BY <1>1, Here DEF ImportInv, OnALine
  <2>2. \A i \in DOMAIN Source : Sound(Source[i])
    BY <1>1, <2>1 DEF ImportInv, SoundSoFar
  <2>3. \A kind \in Kinds : IsInjective(Names(before[kind]) \o Declares(Source, kind))
    BY <1>1, <2>1 DEF ImportInv, Mirrored, NamesOnce
  <2> QED
    BY <2>2, <2>3
<1>2. ASSUME ImportInv, phase = "failed"
      PROVE  ~Free
  <2>1. /\ AtStatement /\ Refused /\ Statement \in Statements /\ Executed \in Seq(Statements)
        /\ Continues(Statements, Executed \o <<Statement>>, Source)
        /\ registry \in [Kinds -> Seq(Entry)] /\ before \in [Kinds -> Seq(Entry)]
        /\ \A kind \in Kinds : Names(registry[kind]) = Names(before[kind]) \o Declares(Executed, kind)
    <3>1. StateTyped /\ OnALine /\ AtStatement /\ Refused
      BY <1>2 DEF ImportInv, FailedAtRefused
    <3>2. \A kind \in Kinds : Names(registry[kind]) = Names(before[kind]) \o Declares(Executed, kind)
      BY <1>2 DEF ImportInv, Mirrored
    <3> QED
      BY <1>2, <3>1, <3>2, Here DEF StateTyped
  <2>2. CASE ~Sound(Statement)
    <3>1. \E i \in DOMAIN Source : Source[i] = Statement
      BY <2>1, StandsBefore
    <3> QED
      BY <2>2, <3>1
  <2>3. CASE Statement.kind \in Kinds /\ Taken(Statement.kind, Statement.name)
    <3> DEFINE k == Statement.kind
               x == Statement.name
               b == Names(before[k])
               d == Declares(Executed, k)
               z == <<Statement>>
    <3>1. PICK rest \in Seq(Statements) : Source = (Executed \o z) \o rest
      BY <2>1 DEF Continues
    <3>2. Named(Statements, StatementNames, k)
      BY <2>3 DEF Named, StatementNames
    <3>4. b \in Seq(StatementNames)
      <4>1. before[k] \in Seq(Entry)
        BY <2>1, <2>3
      <4>2. /\ Len(before[k]) \in Nat /\ DOMAIN before[k] = 1 .. Len(before[k])
            /\ \A i \in DOMAIN before[k] : before[k][i] \in Entry
        BY <4>1, LenProperties, ElementOfSeq
      <4> QED
        BY <4>2 DEF Names, Entry
    <3>5. /\ Names(registry[k]) = b \o d
          /\ x \in {Names(registry[k])[i] : i \in DOMAIN Names(registry[k])}
      <4>1. registry[k] \in Seq(Entry)
        BY <2>1, <2>3
      <4>2. /\ DOMAIN Names(registry[k]) = DOMAIN registry[k]
            /\ \A i \in DOMAIN registry[k] : Names(registry[k])[i] = registry[k][i].name
        BY DEF Names
      <4>3. x \in NamesIn(registry[k])
        BY <2>3 DEF Taken
      <4>4. PICK i \in DOMAIN registry[k] : registry[k][i].name = x
        BY <4>3 DEF NamesIn
      <4> QED
        BY <2>1, <2>3, <4>2, <4>4
    <3>6. /\ b \o Declares(Source, k) = ((b \o d) \o <<x>>) \o Declares(rest, k)
          /\ b \o d \in Seq(StatementNames) /\ Declares(rest, k) \in Seq(StatementNames)
          /\ x \in StatementNames
      <4> DEFINE y == Statement
      <4>1. y \in Statements /\ y.kind = k /\ y.name = x
        BY <2>1
      <4> HIDE DEF y, k, b, x
      <4>2. Around(StatementNames, k, Executed, y, rest, b)
        BY <2>1, <3>2, <3>4, <4>1, DeclaresAround
      <4> QED
        BY <3>1, <4>1, <4>2 DEF Around, y
    <3> HIDE DEF k, x, b, d, z
    <3>10. ~IsInjective(((b \o d) \o <<x>>) \o Declares(rest, k))
      <4> DEFINE y == b \o d
      <4>1. y \in Seq(StatementNames) /\ x \in {y[i] : i \in DOMAIN y}
        BY <3>5, <3>6
      <4> HIDE DEF y
      <4>2. ~IsInjective((y \o <<x>>) \o Declares(rest, k))
        BY <3>6, <4>1, OneMore
      <4> QED
        BY <4>2 DEF y
    <3>11. ~IsInjective(Names(before[k]) \o Declares(Source, k))
      BY <3>6, <3>10 DEF b
    <3> QED
      BY <2>3, <3>11 DEF k
  <2> QED
    BY <2>1, <2>2, <2>3 DEF Refused
<1>3. ImportInv => ImportSucceedsIffSound
  <2> HIDE DEF Free
  <2>1. ImportInv /\ phase \in {"imported", "failed"} => (phase = "imported" <=> Free)
    BY <1>1, <1>2
  <2> QED
    BY <2>1 DEF ImportSucceedsIffSound, Free
<1> QED
  BY <1>3, ImportsKeepInv, PTL
=============================================================================
