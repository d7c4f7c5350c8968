--------------------------- MODULE SetupIniProofs ---------------------------
(***************************************************************************)
(* Proofs about the walk over the configuration files.  The lists are      *)
(* recursive functions; what they compute for every input follows from the *)
(* least natural number for which it would not (Least).                    *)
(***************************************************************************)
EXTENDS SetupIni, FiniteSetTheorems, SequenceTheorems, TLAPS

\* A set of natural numbers has a least element.
LEMMA Least ==
    ASSUME NEW T, T \subseteq Nat, T # {}
    PROVE  \E m \in T : \A k \in T : m <= k
<1> DEFINE R == OpToRel(<, Nat)
<1>1. IsWellFoundedOn(R, Nat)
  BY NatLessThanWellFounded
<1>2. \A k, m \in Nat : k < m => <<k, m>> \in R
  BY DEF OpToRel
<1> HIDE DEF R
<1>3. PICK m \in T : \A k \in T : <<k, m>> \notin R
  BY <1>1, WFMin
<1>4. SUFFICES ASSUME NEW k \in T, ~(m <= k) PROVE FALSE
  OBVIOUS
<1>5. k \in Nat /\ m \in Nat /\ k < m
  BY <1>4
<1>6. <<k, m>> \in R
  BY <1>2, <1>5
<1> QED BY <1>3, <1>6

\* Induction up to N, for a set: the induction theorems of the library have
\* an operator in its place.
LEMMA UpTo ==
    ASSUME NEW N \in Nat, NEW T, 0 \in T, \A n \in 1..N : n - 1 \in T => n \in T
    PROVE  \A n \in 0..N : n \in T
<1> DEFINE Bad == {n \in 0..N : n \notin T}
<1>1. SUFFICES ASSUME Bad # {} PROVE FALSE
  OBVIOUS
<1>2. Bad \subseteq Nat
  OBVIOUS
<1>3. PICK m \in Bad : \A k \in Bad : m <= k
  <2> HIDE DEF Bad
  <2> QED BY <1>1, <1>2, Least
<1>4. m \in 1..N /\ m - 1 \notin Bad /\ m - 1 \in 0..N
  BY <1>3
<1> QED BY <1>3, <1>4

\* Additions is the function its definition says.
LEMMA AdditionsDef ==
    ASSUME NEW s, NEW v, Len(v) \in Nat
    PROVE  Additions(s, v) =
              [n \in 0..Len(v) |-> IF n = 0 THEN s ELSE AddOne(Additions(s, v)[n - 1], v[n])]
<1> DEFINE Eq(g, m) == g = [n \in 0..m |-> IF n = 0 THEN s ELSE AddOne(g[n - 1], v[n])]
           Good == {m \in Nat : \E g : Eq(g, m)}
<1>1. 0 \in Good
  <2>1. Eq([n \in 0..0 |-> s], 0)
    OBVIOUS
  <2> QED BY <2>1
<1>2. ASSUME NEW m \in 1..Len(v), m - 1 \in Good PROVE m \in Good
  <2>1. PICK g : Eq(g, m - 1)
    BY <1>2
  <2> DEFINE h == [n \in 0..m |-> IF n < m THEN g[n] ELSE AddOne(g[m - 1], v[m])]
  <2>2. \A n \in 0..(m - 1) : g[n] = IF n = 0 THEN s ELSE AddOne(g[n - 1], v[n])
    BY <2>1
  <2>3. ASSUME NEW n \in 0..m
        PROVE  h[n] = IF n = 0 THEN s ELSE AddOne(h[n - 1], v[n])
    <3>1. CASE n < m
      <4>1. n \in 0..(m - 1) /\ h[n] = g[n] /\ (n # 0 => h[n - 1] = g[n - 1])
        BY <3>1
      <4> QED BY <4>1, <2>2
    <3>2. CASE n = m
      <4>1. h[n - 1] = g[m - 1] /\ h[n] = AddOne(g[m - 1], v[m]) /\ n # 0
        BY <3>2
      <4> QED BY <4>1, <3>2
    <3> QED BY <3>1, <3>2
  <2>4. h = [n \in 0..m |-> h[n]]
    OBVIOUS
  <2>5. Eq(h, m)
    <3> HIDE DEF h
    <3> QED BY <2>3, <2>4
  <2>6. m \in Nat
    OBVIOUS
  <2> HIDE DEF h, Eq
  <2> QED BY <2>5, <2>6
<1>3. Len(v) \in Good
  <2> HIDE DEF Good
  <2>1. \A n \in 1..Len(v) : n - 1 \in Good => n \in Good
    BY <1>2
  <2>2. Len(v) \in Nat
    OBVIOUS
  <2>3. \A n \in 0..Len(v) : n \in Good
    BY <1>1, <2>1, <2>2, UpTo
  <2> QED BY <2>2, <2>3
<1> QED BY <1>3 DEF Additions

\* Each list of Additions begins with s, has what the elements so far add, and
\* nothing twice.
AddedTo(list, s, S, added) ==
    /\ list \in Seq(S) /\ Len(s) <= Len(list)
    /\ \A i \in 1..Len(s) : list[i] = s[i]
    /\ \A x : x \in ToSet(list) <=> x \in ToSet(s) \/ x \in added
    /\ IsInjective(s) => IsInjective(list)

LEMMA AddOneAdds ==
    ASSUME NEW S, NEW list \in Seq(S), NEW s \in Seq(S), NEW x \in S, NEW added,
           AddedTo(list, s, S, added)
    PROVE  AddedTo(AddOne(list, x), s, S, added \cup {x})
<1>1. CASE x \in ToSet(list)
  BY <1>1 DEF AddedTo, AddOne
<1>2. CASE x \notin ToSet(list)
  <2> DEFINE new == Append(list, x)
  <2>1. AddOne(list, x) = new
    BY <1>2 DEF AddOne
  <2>2. /\ new \in Seq(S) /\ Len(new) = Len(list) + 1 /\ new[Len(list) + 1] = x
        /\ \A i \in 1..Len(list) : new[i] = list[i]
    OBVIOUS
  <2>3. DOMAIN new = 1..(Len(list) + 1) /\ DOMAIN list = 1..Len(list)
    OBVIOUS
  <2>4. \A y : y \in ToSet(new) <=> y \in ToSet(list) \/ y = x
    <3> HIDE DEF new
    <3> QED BY <2>2, <2>3 DEF ToSet
  <2>5. \A i \in 1..Len(list) : list[i] # x
    BY <1>2, <2>3 DEF ToSet
  <2>6. IsInjective(list) => IsInjective(new)
    <3> HIDE DEF new
    <3> QED BY <2>2, <2>3, <2>5 DEF IsInjective
  <2>7. Len(s) <= Len(new) /\ \A i \in 1..Len(s) : new[i] = s[i]
    <3> HIDE DEF new
    <3> QED BY <2>2 DEF AddedTo
  <2> HIDE DEF new
  <2> QED BY <2>1, <2>2, <2>4, <2>6, <2>7 DEF AddedTo
<1> QED BY <1>1, <1>2

LEMMA AddAllAdds ==
    ASSUME NEW S, NEW s \in Seq(S), NEW v \in Seq(S)
    PROVE  AddedTo(AddAll(s, v), s, S, ToSet(v))
<1> DEFINE upto(n) == {v[i] : i \in 1..n}
           Good == {n \in 0..Len(v) : AddedTo(Additions(s, v)[n], s, S, upto(n))}
<1>1. \A n \in 0..Len(v) : Additions(s, v)[n] =
         IF n = 0 THEN s ELSE AddOne(Additions(s, v)[n - 1], v[n])
  <2>1. Len(v) \in Nat
    OBVIOUS
  <2> QED BY <2>1, AdditionsDef
<1>2. 0 \in Good
  BY <1>1 DEF AddedTo
<1>3. ASSUME NEW n \in 1..Len(v), n - 1 \in Good PROVE n \in Good
  <2>1. Additions(s, v)[n] = AddOne(Additions(s, v)[n - 1], v[n])
    BY <1>1
  <2>2. v[n] \in S /\ Additions(s, v)[n - 1] \in Seq(S)
    BY <1>3 DEF AddedTo
  <2>3. upto(n) = upto(n - 1) \cup {v[n]}
    OBVIOUS
  <2>4. AddedTo(AddOne(Additions(s, v)[n - 1], v[n]), s, S, upto(n - 1) \cup {v[n]})
    <3> HIDE DEF upto
    <3> QED BY <1>3, <2>2, AddOneAdds
  <2> HIDE DEF upto
  <2>5. AddedTo(Additions(s, v)[n], s, S, upto(n))
    BY <2>1, <2>3, <2>4
  <2> QED BY <2>5
<1>4. Len(v) \in Good
  <2> HIDE DEF Good
  <2>1. \A n \in 1..Len(v) : n - 1 \in Good => n \in Good
    BY <1>3
  <2>2. Len(v) \in Nat
    OBVIOUS
  <2>3. \A n \in 0..Len(v) : n \in Good
    BY <1>2, <2>1, <2>2, UpTo
  <2> QED BY <2>2, <2>3
<1>5. upto(Len(v)) = ToSet(v)
  BY DEF ToSet
<1> HIDE DEF upto
<1> QED BY <1>4, <1>5 DEF AddAll
-----------------------------------------------------------------------------
\* What ExecRules makes of a list when it comes to section e.
Extended(list, e) == IF Told(e) THEN Append(list, e) ELSE list

\* So is ExecRules.
LEMMA ExecRulesDef ==
    ASSUME NEW v, Len(v) \in Nat
    PROVE  ExecRules(v) =
              [n \in 0..Len(v) |-> IF n = 0 THEN <<>>
                   ELSE Extended(ExecRules(v)[n - 1], v[n])]
<1> DEFINE Eq(g, m) == g = [n \in 0..m |-> IF n = 0 THEN <<>> ELSE Extended(g[n - 1], v[n])]
           Good == {m \in Nat : \E g : Eq(g, m)}
<1>1. 0 \in Good
  <2>1. Eq([n \in 0..0 |-> <<>>], 0)
    OBVIOUS
  <2> QED BY <2>1
<1>2. ASSUME NEW m \in 1..Len(v), m - 1 \in Good PROVE m \in Good
  <2>1. PICK g : Eq(g, m - 1)
    BY <1>2
  <2> DEFINE h == [n \in 0..m |-> IF n < m THEN g[n] ELSE Extended(g[m - 1], v[m])]
  <2>2. \A n \in 0..(m - 1) : g[n] = IF n = 0 THEN <<>> ELSE Extended(g[n - 1], v[n])
    BY <2>1
  <2>3. ASSUME NEW n \in 0..m
        PROVE  h[n] = IF n = 0 THEN <<>> ELSE Extended(h[n - 1], v[n])
    <3>1. CASE n < m
      <4>1. n \in 0..(m - 1) /\ h[n] = g[n] /\ (n # 0 => h[n - 1] = g[n - 1])
        BY <3>1
      <4> QED BY <4>1, <2>2
    <3>2. CASE n = m
      <4>1. h[n - 1] = g[m - 1] /\ h[n] = Extended(g[m - 1], v[m]) /\ n # 0
        BY <3>2
      <4> QED BY <4>1, <3>2
    <3> QED BY <3>1, <3>2
  <2>4. h = [n \in 0..m |-> h[n]]
    OBVIOUS
  <2>5. Eq(h, m)
    <3> HIDE DEF h
    <3> QED BY <2>3, <2>4
  <2>6. m \in Nat
    OBVIOUS
  <2> HIDE DEF h, Eq
  <2> QED BY <2>5, <2>6
<1>3. Len(v) \in Good
  <2> HIDE DEF Good
  <2>1. \A n \in 1..Len(v) : n - 1 \in Good => n \in Good
    BY <1>2
  <2>2. Len(v) \in Nat
    OBVIOUS
  <2>3. \A n \in 0..Len(v) : n \in Good
    BY <1>1, <2>1, <2>2, UpTo
  <2> QED BY <2>2, <2>3
<1> QED BY <1>3 DEF ExecRules, Extended

\* Counting: finitely many places, one more, those of two lists.
LEMMA PlacesFinite ==
    ASSUME NEW S, NEW s \in Seq(S), NEW x
    PROVE  IsFiniteSet(Places(s, x)) /\ Times(s, x) \in Nat
<1>1. Places(s, x) \in SUBSET (1..Len(s)) /\ Len(s) \in Nat
  BY DEF Places
<1>2. IsFiniteSet(1..Len(s))
  BY <1>1, FS_Interval
<1> QED BY <1>1, <1>2, FS_Subset, FS_CardinalityType DEF Times

LEMMA TimesAppend ==
    ASSUME NEW S, NEW s \in Seq(S), NEW y \in S, NEW x
    PROVE  Times(Append(s, y), x) = IF y = x THEN Times(s, x) + 1 ELSE Times(s, x)
<1>1. /\ Len(s) \in Nat /\ DOMAIN s = 1..Len(s) /\ DOMAIN Append(s, y) = 1..(Len(s) + 1)
      /\ Append(s, y)[Len(s) + 1] = y /\ \A i \in 1..Len(s) : Append(s, y)[i] = s[i]
  OBVIOUS
<1>2. CASE y = x
  <2>1. Places(Append(s, y), x) = Places(s, x) \cup {Len(s) + 1}
    BY <1>1, <1>2 DEF Places
  <2>2. Len(s) + 1 \notin Places(s, x)
    BY <1>1 DEF Places
  <2> QED BY <1>2, <2>1, <2>2, PlacesFinite, FS_AddElement DEF Times
<1>3. CASE y # x
  <2>1. Places(Append(s, y), x) = Places(s, x)
    BY <1>1, <1>3 DEF Places
  <2> QED BY <1>3, <2>1 DEF Times
<1> QED BY <1>2, <1>3

LEMMA TimesConcat ==
    ASSUME NEW S, NEW s \in Seq(S), NEW t \in Seq(S), NEW x
    PROVE  Times(s \o t, x) = Times(s, x) + Times(t, x)
<1> DEFINE n == Len(s)
           A == Places(s, x)
           B == Places(t, x)
           C == {k \in (n + 1)..(n + Len(t)) : t[k - n] = x}
           f == [i \in B |-> n + i]
<1>1. /\ n \in Nat /\ Len(t) \in Nat /\ DOMAIN s = 1..n /\ DOMAIN t = 1..Len(t)
      /\ DOMAIN (s \o t) = 1..(n + Len(t))
      /\ \A i \in 1..(n + Len(t)) : (s \o t)[i] = IF i <= n THEN s[i] ELSE t[i - n]
  OBVIOUS
<1>2. Places(s \o t, x) = A \cup C
  <2> DEFINE w == s \o t
  <2>1. /\ n \in Nat /\ Len(t) \in Nat /\ DOMAIN s = 1..n /\ DOMAIN w = 1..(n + Len(t))
        /\ \A i \in 1..(n + Len(t)) : w[i] = IF i <= n THEN s[i] ELSE t[i - n]
    BY <1>1
  <2> HIDE DEF n, w
  <2> QED BY <2>1 DEF Places
<1>3. A \cap C = {}
  <2> HIDE DEF n
  <2> QED BY <1>1 DEF Places
<1>4. IsFiniteSet(A) /\ IsFiniteSet(B)
  BY PlacesFinite
<1>5. f \in Bijection(B, C)
  <2>1. \A i \in B : n + i \in C
    BY <1>1 DEF Places
  <2>2. \A k \in C : k - n \in B /\ n + (k - n) = k
    BY <1>1 DEF Places
  <2>3. \A i, j \in B : n + i = n + j => i = j
    BY <1>1 DEF Places
  <2> HIDE DEF B, C
  <2> QED BY <2>1, <2>2, <2>3 DEF Bijection, Injection, Surjection, IsInjective
<1>6. IsFiniteSet(C) /\ Cardinality(C) = Cardinality(B)
  <2>1. ExistsBijection(B, C)
    BY <1>5 DEF ExistsBijection
  <2> HIDE DEF B, C
  <2> QED BY <1>4, <2>1, FS_Bijection
<1>7. Cardinality(A \cup C) = Cardinality(A) + Cardinality(C) - Cardinality({})
  <2> HIDE DEF A, C
  <2> QED BY <1>3, <1>4, <1>6, FS_Union
<1>8. Cardinality({}) = 0 /\ Cardinality(A) \in Nat /\ Cardinality(B) \in Nat
  BY <1>4, FS_EmptySet, FS_CardinalityType
<1> QED BY <1>2, <1>6, <1>7, <1>8 DEF Times

\* The rules of a file are its sections that have both keys, each as often.
LEMMA ReadExecTimes ==
    ASSUME NEW v \in Seq(Exec), NEW e
    PROVE  LET r == ExecRules(v)[Len(v)]
           IN  r \in Seq(Exec) /\ Times(r, e) = IF Told(e) THEN Times(v, e) ELSE 0
<1> DEFINE r(n) == ExecRules(v)[n]
           t(n) == SubSeq(v, 1, n)
           Good == {n \in 0..Len(v) :
                       r(n) \in Seq(Exec) /\ Times(r(n), e) = IF Told(e) THEN Times(t(n), e) ELSE 0}
<1>1. Len(v) \in Nat
  OBVIOUS
<1>2. \A n \in 0..Len(v) : r(n) = IF n = 0 THEN <<>> ELSE Extended(r(n - 1), v[n])
  BY <1>1, ExecRulesDef
<1>3. Times(<<>>, e) = 0
  <2>1. Places(<<>>, e) = {}
    BY DEF Places
  <2> QED BY <2>1, FS_EmptySet DEF Times
<1>4. 0 \in Good
  <2>1. t(0) = <<>>
    OBVIOUS
  <2>2. r(0) = <<>>
    BY <1>1, <1>2
  <2> HIDE DEF r, t
  <2>3. r(0) \in Seq(Exec) /\ Times(r(0), e) = 0 /\ Times(t(0), e) = 0
    <3>1. r(0) \in Seq(Exec)
      <4>1. <<>> \in Seq(Exec)
        OBVIOUS
      <4> QED BY <2>2, <4>1, Zenon
    <3>2. Times(r(0), e) = Times(<<>>, e)
      BY <2>2, Zenon
    <3>3. Times(t(0), e) = Times(<<>>, e)
      BY <2>1, Zenon
    <3> QED BY <1>3, <3>1, <3>2, <3>3, Zenon
  <2>4. 0 \in 0..Len(v)
    BY <1>1
  <2> QED BY <2>3, <2>4
<1>5. ASSUME NEW n \in 1..Len(v), n - 1 \in Good PROVE n \in Good
  <2>1. v[n] \in Exec /\ t(n) = Append(t(n - 1), v[n]) /\ t(n - 1) \in Seq(Exec)
    OBVIOUS
  <2>2. r(n) = Extended(r(n - 1), v[n])
    BY <1>2
  <2>3. r(n - 1) \in Seq(Exec) /\ Times(r(n - 1), e) = IF Told(e) THEN Times(t(n - 1), e) ELSE 0
    BY <1>5
  <2> HIDE DEF r, t
  <2>4. Times(t(n), e) = IF v[n] = e THEN Times(t(n - 1), e) + 1 ELSE Times(t(n - 1), e)
    BY <2>1, TimesAppend
  <2>5. Times(t(n - 1), e) \in Nat
    BY <2>1, PlacesFinite
  <2>6. CASE Told(v[n])
    <3>1. r(n) = Append(r(n - 1), v[n])
      BY <2>2, <2>6 DEF Extended
    <3>2. Times(r(n), e) = IF v[n] = e THEN Times(r(n - 1), e) + 1 ELSE Times(r(n - 1), e)
      BY <2>1, <2>3, <3>1, TimesAppend
    <3>3. r(n) \in Seq(Exec)
      BY <2>1, <2>3, <3>1
    <3>4. Times(r(n), e) = IF Told(e) THEN Times(t(n), e) ELSE 0
      BY <2>3, <2>4, <2>5, <2>6, <3>2
    <3> QED BY <3>3, <3>4
  <2>7. CASE ~Told(v[n])
    <3>1. r(n) = r(n - 1)
      BY <2>2, <2>7 DEF Extended
    <3>2. Times(r(n), e) = IF Told(e) THEN Times(t(n), e) ELSE 0
      BY <2>3, <2>4, <2>7, <3>1
    <3> QED BY <2>3, <3>1, <3>2
  <2> QED BY <2>6, <2>7
<1>6. Len(v) \in Good
  <2> HIDE DEF Good
  <2>1. \A n \in 1..Len(v) : n - 1 \in Good => n \in Good
    BY <1>5
  <2>2. \A n \in 0..Len(v) : n \in Good
    BY <1>1, <1>4, <2>1, UpTo
  <2> QED BY <1>1, <2>2
<1>7. t(Len(v)) = v
  OBVIOUS
<1> QED BY <1>6, <1>7
-----------------------------------------------------------------------------
\* No file is in the list twice: what ReadOnce needs of the walk.
IniInv == IniTypeOK /\ IsInjective(files)

\* What is appended has the types of the lists.
LEMMA ConfigFilesTyped ==
    ASSUME NEW F \in [Flag -> BOOLEAN], NEW D \in Seq(Dir)
    PROVE  handle_config_files(F, D) \in Seq(File)
<1>1. IniOf[StowDir] \in File /\ HomeFiles \in Seq(File) /\ \A i \in DOMAIN D : IniOf[D[i]] \in File
  BY IniAssumption
<1> DEFINE E == [i \in DOMAIN D |-> IniOf[D[i]]]
<1>2. E \in Seq(File)
  <2>1. DOMAIN D = 1..Len(D) /\ Len(D) \in Nat
    OBVIOUS
  <2> QED BY <1>1, <2>1
<1>3. <<IniOf[StowDir]>> \in Seq(File) /\ <<>> \in Seq(File)
  BY <1>1
<1> DEFINE x == IF F["in-home"] THEN HomeFiles ELSE <<>>
           y == IF F["in-stow-dir"] THEN <<IniOf[StowDir]>> ELSE <<>>
           z == IF F["in-other-stow-dirs"] THEN E ELSE <<>>
<1>4. x \in Seq(File) /\ y \in Seq(File) /\ z \in Seq(File)
  <2> HIDE DEF E
  <2> QED BY <1>1, <1>2, <1>3
<1>5. handle_config_files(F, D) = x \o y \o z
  BY DEF handle_config_files
<1> HIDE DEF x, y, z
<1> QED BY <1>4, <1>5

LEMMA RulesOfFile ==
    ASSUME NEW c \in Settings
    PROVE  c.exec \in Seq(Exec) /\ c.nignore \in Seq(Seq(Rule))
<1>1. PICK s : s = c.nignore /\ s \in Seq(Seq(Rule) \ {<<>>})
  BY DEF Settings
<1>2. s \in Seq(Seq(Rule))
  BY <1>1
<1> QED BY <1>1, <1>2 DEF Settings

LEMMA NIgnoreTyped ==
    ASSUME NEW c \in Settings
    PROVE  read_nignore(c) \in Seq(Seq(NIgnore)) /\ Len(read_nignore(c)) = Len(c.nignore)
<1>1. c.nignore \in Seq(Seq(Rule))
  BY RulesOfFile
<1> DEFINE chain(i) == [j \in DOMAIN c.nignore[i] |->
                          [name |-> c.nignore[i][j], empty |-> c.nignore[i][j] \notin c.sections]]
<1>2. ASSUME NEW i \in DOMAIN c.nignore PROVE chain(i) \in Seq(NIgnore)
  <2>1. c.nignore[i] \in Seq(Rule)
    BY <1>1
  <2>2. \A j \in DOMAIN c.nignore[i] :
           [name |-> c.nignore[i][j], empty |-> c.nignore[i][j] \notin c.sections] \in NIgnore
    BY <2>1 DEF NIgnore
  <2>3. Len(c.nignore[i]) \in Nat /\ DOMAIN c.nignore[i] = 1..Len(c.nignore[i])
    BY <2>1
  <2> QED BY <2>2, <2>3
<1>3. Len(c.nignore) \in Nat /\ DOMAIN c.nignore = 1..Len(c.nignore)
  BY <1>1
<1>4. read_nignore(c) = [i \in DOMAIN c.nignore |-> chain(i)]
  BY DEF read_nignore
<1> HIDE DEF chain
<1> QED BY <1>2, <1>3, <1>4

\* A file that is read is of the type of the settings, and what it adds too.
LEMMA ReadTyped ==
    ASSUME IniInv, Read
    PROVE  LET c == disk[Current]
               more == c.files \o handle_config_files(flags', stow_dirs')
           IN  /\ c \in Settings /\ Current \in File /\ next \in 1..Len(files)
               /\ flags' \in [Flag -> BOOLEAN] /\ more \in Seq(File)
               /\ AddedTo(files', files, File, ToSet(more))
               /\ AddedTo(stow_dirs', stow_dirs, Dir, ToSet(c.dirs))
               /\ exec' \in Seq(Exec) /\ nignores' \in Seq(Seq(NIgnore))
<1> DEFINE c == disk[Current]
           more == c.files \o handle_config_files(flags', stow_dirs')
<1>1. next \in 1..Len(files) /\ Current \in DOMAIN disk /\ Current \in File
  BY DEF IniInv, IniTypeOK, Read, Current
<1>2. c \in Settings
  <2>1. PICK S \in SUBSET File : disk \in [S -> Contents]
    BY DEF IniInv, IniTypeOK
  <2> QED BY <1>1, <2>1, IniAssumption
<1>3. flags' \in [Flag -> BOOLEAN]
  <2>1. PICK S \in SUBSET Flag : c.flags \in [S -> BOOLEAN]
    BY <1>2 DEF Settings
  <2>2. flags' = Overwrite(c.flags) /\ flags \in [Flag -> BOOLEAN]
    BY DEF Read, IniInv, IniTypeOK
  <2> HIDE DEF c
  <2> QED BY <2>1, <2>2 DEF Overwrite
<1>4. c.dirs \in Seq(Dir) /\ c.files \in Seq(File) /\ c.exec \in Seq(Exec)
  BY <1>2 DEF Settings
<1>5. AddedTo(stow_dirs', stow_dirs, Dir, ToSet(c.dirs))
  BY <1>4, AddAllAdds DEF Read, IniInv, IniTypeOK
<1>6. more \in Seq(File)
  <2>1. handle_config_files(flags', stow_dirs') \in Seq(File)
    BY <1>3, <1>5, ConfigFilesTyped DEF AddedTo
  <2> HIDE DEF c
  <2> QED BY <1>4, <2>1
<1>7. AddedTo(files', files, File, ToSet(more))
  <2>1. files' = AddAll(files, more) /\ files \in Seq(File)
    BY DEF Read, IniInv, IniTypeOK
  <2> HIDE DEF more
  <2> QED BY <1>6, <2>1, AddAllAdds
<1>8. exec' \in Seq(Exec)
  <2>1. read_exec(c) \in Seq(Exec)
    <3>1. \A e : ExecRules(c.exec)[Len(c.exec)] \in Seq(Exec)
      <4> HIDE DEF c
      <4> QED BY <1>4, ReadExecTimes
    <3> QED BY <3>1 DEF read_exec
  <2>2. exec' = exec \o read_exec(c) /\ exec \in Seq(Exec)
    BY DEF Read, IniInv, IniTypeOK
  <2> QED BY <2>1, <2>2
<1>9. nignores' \in Seq(Seq(NIgnore))
  <2>1. nignores' = nignores \o read_nignore(c) /\ nignores \in Seq(Seq(NIgnore))
    BY DEF Read, IniInv, IniTypeOK
  <2>2. read_nignore(c) \in Seq(Seq(NIgnore))
    BY <1>2, NIgnoreTyped
  <2> QED BY <2>1, <2>2
<1> QED BY <1>1, <1>2, <1>3, <1>5, <1>6, <1>7, <1>8, <1>9

\* The command line sets the flags that have a switch and names no file twice.
LEMMA InitIni ==
    ASSUME Init
    PROVE  IniInv /\ next = 1 /\ \A f \in Flag \ Switch : ~flags[f]
<1>1. PICK a \in Asked :
          /\ files = AddAll(<<>>, a.files) /\ stow_dirs = AddAll(<<StowDir>>, a.dirs)
          /\ links = a.links /\ flags = [f \in Flag |-> f \in DOMAIN a.flags /\ a.flags[f]]
  BY DEF Init
<1>2. a.files \in Seq(File) /\ a.dirs \in Seq(Dir) /\ a.links \subseteq Link /\ DOMAIN a.flags \subseteq Switch
  BY IniAssumption DEF Settings
<1>3. PICK S \in SUBSET Flag : a.flags \in [S -> BOOLEAN]
  BY IniAssumption DEF Settings
<1>4. AddedTo(files, <<>>, File, ToSet(a.files))
  <2>1. <<>> \in Seq(File)
    OBVIOUS
  <2> QED BY <1>1, <1>2, <2>1, AddAllAdds
<1>5. AddedTo(stow_dirs, <<StowDir>>, Dir, ToSet(a.dirs))
  <2>1. <<StowDir>> \in Seq(Dir)
    BY IniAssumption
  <2> QED BY <1>1, <1>2, <2>1, AddAllAdds
<1>6. flags \in [Flag -> BOOLEAN]
  <2>1. \A f \in Flag : (f \in DOMAIN a.flags /\ a.flags[f]) \in BOOLEAN
    BY Zenon
  <2> QED BY <1>1, <2>1, Zenon
<1>7. \A f \in Flag \ Switch : ~flags[f]
  BY <1>1, <1>2
<1>8. IsInjective(files)
  <2>1. IsInjective(<<>>)
    BY DEF IsInjective
  <2> QED BY <1>4, <2>1 DEF AddedTo
<1>9. IniTypeOK
  <2>1. files \in Seq(File) /\ stow_dirs \in Seq(Dir)
    BY <1>4, <1>5 DEF AddedTo
  <2>2. 1 \in 1..(Len(files) + 1)
    BY <2>1
  <2>3. <<>> \in Seq(Exec) /\ <<>> \in Seq(Seq(NIgnore))
    OBVIOUS
  <2>4. exec \in Seq(Exec) /\ nignores \in Seq(Seq(NIgnore)) /\ kept \subseteq Link /\ targets \subseteq Link
    <3>1. exec = <<>> /\ nignores = <<>> /\ kept = {} /\ targets = {}
      BY DEF Init
    <3> QED BY <2>3, <3>1, Zenon
  <2>5. next = 1 /\ disk \in UNION {[T -> Contents] : T \in SUBSET File} /\ links \subseteq Link
    BY <1>1, <1>2 DEF Init
  <2> QED BY <1>6, <2>1, <2>2, <2>4, <2>5 DEF IniTypeOK
<1>10. next = 1
  BY DEF Init
<1> QED BY <1>7, <1>8, <1>9, <1>10 DEF IniInv

LEMMA NextIni ==
    ASSUME IniInv, [Next]_vars
    PROVE  IniInv'
<1>1. CASE Read
  <2> DEFINE c == disk[Current]
  <2>1. /\ c \in Settings /\ next \in 1..Len(files) /\ flags' \in [Flag -> BOOLEAN]
        /\ files' \in Seq(File) /\ Len(files) <= Len(files') /\ (IsInjective(files) => IsInjective(files'))
        /\ stow_dirs' \in Seq(Dir) /\ exec' \in Seq(Exec) /\ nignores' \in Seq(Seq(NIgnore))
    BY <1>1, ReadTyped DEF AddedTo
  <2>2. links' \subseteq Link /\ kept' \subseteq Link /\ targets' \subseteq Link
    <3>1. c.links \subseteq Link
      BY <2>1 DEF Settings
    <3>2. links' \subseteq Link
      BY <1>1, <3>1 DEF Read, IniInv, IniTypeOK
    <3> QED BY <1>1, <3>2 DEF Read, IniInv, IniTypeOK
  <2>3. next' \in 1..(Len(files') + 1)
    <3>1. next' = next + 1 /\ Len(files) \in Nat /\ Len(files') \in Nat
      BY <1>1, <2>1 DEF Read, IniInv, IniTypeOK
    <3> QED BY <2>1, <3>1
  <2>4. disk' \in UNION {[S -> Contents] : S \in SUBSET File}
    BY <1>1 DEF Read, IniInv, IniTypeOK
  <2> QED BY <2>1, <2>2, <2>3, <2>4 DEF IniInv, IniTypeOK
<1>2. CASE Pass
  <2>1. next' \in 1..(Len(files) + 1)
    BY <1>2 DEF Pass, IniInv, IniTypeOK
  <2> QED BY <1>2, <2>1 DEF Pass, IniInv, IniTypeOK, rules
<1>3. CASE UNCHANGED vars
  BY <1>3 DEF vars, IniInv, IniTypeOK, rules
<1> QED BY <1>1, <1>2, <1>3 DEF Next

LEMMA IniInvariant == Spec => []IniInv
<1>1. Init => IniInv
  BY InitIni
<1>2. IniInv /\ [Next]_vars => IniInv'
  BY NextIni
<1> QED BY <1>1, <1>2, PTL DEF Spec

\* The variables keep their types on every host (SetupIni's state).
THEOREM IniTypeCorrect == Spec => []IniTypeOK
<1>1. IniInv => IniTypeOK
  BY DEF IniInv
<1> QED BY <1>1, IniInvariant, PTL
-----------------------------------------------------------------------------
\* The place of the file that is read joins those of the files seen.
LEMMA SeenRead ==
    ASSUME IniInv, Read
    PROVE  /\ Seen' = Seen \cup {next} /\ next \notin Seen
           /\ \A i \in Seen \cup {next} : i \in DOMAIN files /\ i \in 1..next /\ files'[i] = files[i]
<1>1. /\ next \in 1..Len(files) /\ \A i \in 1..Len(files) : files'[i] = files[i]
  BY ReadTyped DEF AddedTo
<1>2. disk' = disk /\ next' = next + 1 /\ Current \in DOMAIN disk
  BY DEF Read
<1>3. Len(files) \in Nat /\ DOMAIN files = 1..Len(files)
  BY DEF IniInv, IniTypeOK
<1>4. \A i \in 1..next : files'[i] = files[i] /\ i \in DOMAIN files
  BY <1>1, <1>3
<1>5. Seen' = {i \in 1..next : files'[i] \in DOMAIN disk}
  BY <1>1, <1>2 DEF Seen
<1>6. Seen' = Seen \cup {next}
  BY <1>1, <1>2, <1>4, <1>5 DEF Seen, Current
<1> QED BY <1>1, <1>4, <1>6 DEF Seen

LEMMA SeenPass ==
    ASSUME IniInv, Pass
    PROVE  Seen' = Seen
<1>1. next \in Nat /\ next' = next + 1 /\ files' = files /\ disk' = disk /\ files[next] \notin DOMAIN disk
  BY DEF IniInv, IniTypeOK, Pass, Current
<1>2. Seen' = {i \in 1..next : files[i] \in DOMAIN disk}
  BY <1>1 DEF Seen
<1> QED BY <1>1, <1>2 DEF Seen

LEMMA NextTargets ==
    ASSUME IniInv, TargetsAdded, [Next]_vars
    PROVE  TargetsAdded'
<1>1. CASE Read
  BY <1>1 DEF Read, TargetsAdded
<1>2. CASE Pass
  BY <1>2, SeenPass DEF Pass, TargetsAdded
<1>3. CASE UNCHANGED vars
  <2>1. Seen' = Seen
    BY <1>3 DEF vars, Seen
  <2> QED BY <1>3, <2>1 DEF vars, TargetsAdded
<1> QED BY <1>1, <1>2, <1>3 DEF Next

\* Whatever the files say and in whichever order they are read: once one has
\* been, the keep and protect lists have the targets of all links named so far
\* when the flag says so (handle_keep_dirs, handle_protect_dirs).
THEOREM TargetsComplete == Spec => []TargetsAdded
<1>1. Init => TargetsAdded
  <2>1. SUFFICES ASSUME Init PROVE Seen = {}
    BY DEF TargetsAdded
  <2>2. next = 1
    BY <2>1, InitIni
  <2> QED BY <2>2 DEF Seen
<1>2. IniInv /\ TargetsAdded /\ [Next]_vars => TargetsAdded'
  BY NextTargets
<1> QED BY <1>1, <1>2, IniInvariant, PTL DEF Spec
-----------------------------------------------------------------------------
LEMMA ConcatSet ==
    ASSUME NEW S, NEW s \in Seq(S), NEW t \in Seq(S)
    PROVE  s \o t \in Seq(S) /\ ToSet(s) \subseteq ToSet(s \o t) /\ ToSet(t) \subseteq ToSet(s \o t)
<1> DEFINE w == s \o t
           n == Len(s)
<1>1. /\ n \in Nat /\ Len(t) \in Nat /\ DOMAIN s = 1..n /\ DOMAIN t = 1..Len(t)
      /\ DOMAIN w = 1..(n + Len(t)) /\ w \in Seq(S)
      /\ \A i \in 1..(n + Len(t)) : w[i] = IF i <= n THEN s[i] ELSE t[i - n]
  OBVIOUS
<1>2. \A i \in DOMAIN s : i \in DOMAIN w /\ w[i] = s[i]
  <2> HIDE DEF w, n
  <2> QED BY <1>1
<1>3. \A i \in DOMAIN t : n + i \in DOMAIN w /\ w[n + i] = t[i]
  <2> HIDE DEF w, n
  <2> QED BY <1>1
<1> HIDE DEF w, n
<1>4. ToSet(s) \subseteq ToSet(w)
  BY <1>2 DEF ToSet
<1>5. ToSet(t) \subseteq ToSet(w)
  BY <1>3 DEF ToSet
<1> QED BY <1>1, <1>4, <1>5 DEF w

\* What each flag asks for is among what handle_config_files appends.
LEMMA ConfigFilesAsked ==
    ASSUME NEW F \in [Flag -> BOOLEAN], NEW D \in Seq(Dir)
    PROVE  LET more == handle_config_files(F, D)
           IN  /\ F["in-home"] => ToSet(HomeFiles) \subseteq ToSet(more)
               /\ F["in-stow-dir"] => IniOf[StowDir] \in ToSet(more)
               /\ F["in-other-stow-dirs"] => {IniOf[d] : d \in ToSet(D)} \subseteq ToSet(more)
<1>1. IniOf[StowDir] \in File /\ HomeFiles \in Seq(File) /\ \A i \in DOMAIN D : IniOf[D[i]] \in File
  BY IniAssumption
<1> DEFINE E == [i \in DOMAIN D |-> IniOf[D[i]]]
           x == IF F["in-home"] THEN HomeFiles ELSE <<>>
           y == IF F["in-stow-dir"] THEN <<IniOf[StowDir]>> ELSE <<>>
           z == IF F["in-other-stow-dirs"] THEN E ELSE <<>>
<1>2. E \in Seq(File)
  <2>1. DOMAIN D = 1..Len(D) /\ Len(D) \in Nat
    OBVIOUS
  <2> QED BY <1>1, <2>1
<1>3. {IniOf[d] : d \in ToSet(D)} = ToSet(E)
  BY DEF ToSet
<1>4. <<IniOf[StowDir]>> \in Seq(File) /\ <<>> \in Seq(File) /\ IniOf[StowDir] \in ToSet(<<IniOf[StowDir]>>)
  BY <1>1 DEF ToSet
<1>5. x \in Seq(File) /\ y \in Seq(File) /\ z \in Seq(File)
  <2> HIDE DEF E
  <2> QED BY <1>1, <1>2, <1>4
<1>6. handle_config_files(F, D) = x \o y \o z
  BY DEF handle_config_files
<1>7. /\ F["in-home"] => ToSet(x) = ToSet(HomeFiles)
      /\ F["in-stow-dir"] => IniOf[StowDir] \in ToSet(y)
      /\ F["in-other-stow-dirs"] => ToSet(z) = ToSet(E)
  <2> HIDE DEF E
  <2> QED BY <1>4
<1>8. /\ ToSet(x) \subseteq ToSet(x \o y \o z) /\ ToSet(y) \subseteq ToSet(x \o y \o z)
      /\ ToSet(z) \subseteq ToSet(x \o y \o z)
  <2> HIDE DEF x, y, z
  <2>1. x \o y \in Seq(File) /\ ToSet(x) \subseteq ToSet(x \o y) /\ ToSet(y) \subseteq ToSet(x \o y)
    BY <1>5, ConcatSet
  <2>2. ToSet(x \o y) \subseteq ToSet((x \o y) \o z) /\ ToSet(z) \subseteq ToSet((x \o y) \o z)
    BY <1>5, <2>1, ConcatSet
  <2> QED BY <2>1, <2>2
<1> HIDE DEF x, y, z, E
<1> QED BY <1>3, <1>6, <1>7, <1>8

LEMMA NextClosed ==
    ASSUME IniInv, FilesClosed, [Next]_vars
    PROVE  FilesClosed'
<1>1. CASE Read
  <2> DEFINE c == disk[Current]
             asked == handle_config_files(flags', stow_dirs')
             more == c.files \o asked
  <2>1. /\ c \in Settings /\ flags' \in [Flag -> BOOLEAN] /\ stow_dirs' \in Seq(Dir)
        /\ \A x : x \in ToSet(files') <=> x \in ToSet(files) \/ x \in ToSet(more)
    BY <1>1, ReadTyped DEF AddedTo
  <2>2. c.files \in Seq(File) /\ asked \in Seq(File)
    BY <2>1, ConfigFilesTyped DEF Settings
  <2>3. ToSet(c.files) \subseteq ToSet(more) /\ ToSet(asked) \subseteq ToSet(more)
    <3> HIDE DEF c, asked
    <3> QED BY <2>2, ConcatSet
  <2>4. ToSet(files) \subseteq ToSet(files') /\ ToSet(c.files) \subseteq ToSet(files')
        /\ ToSet(asked) \subseteq ToSet(files')
    <3> HIDE DEF c, asked, more
    <3> QED BY <2>1, <2>3
  <2>5. \A i \in Seen' : ToSet(disk'[files'[i]].files) \subseteq ToSet(files')
    <3>1. disk' = disk /\ disk[files[next]].files = c.files
      BY <1>1 DEF Read, Current
    <3>2. ASSUME NEW i \in Seen \cup {next} PROVE ToSet(disk'[files'[i]].files) \subseteq ToSet(files')
      <4>1. files'[i] = files[i]
        BY <1>1, SeenRead
      <4>2. CASE i = next
        BY <2>4, <3>1, <4>1, <4>2
      <4>3. CASE i \in Seen
        BY <2>4, <3>1, <4>1, <4>3 DEF FilesClosed
      <4> QED BY <4>2, <4>3
    <3> QED BY <1>1, <3>2, SeenRead
  <2>6. /\ flags'["in-home"] => ToSet(HomeFiles) \subseteq ToSet(asked)
        /\ flags'["in-stow-dir"] => IniOf[StowDir] \in ToSet(asked)
        /\ flags'["in-other-stow-dirs"] => {IniOf[d] : d \in ToSet(stow_dirs')} \subseteq ToSet(asked)
    BY <2>1, ConfigFilesAsked
  <2> HIDE DEF c, asked, more
  <2> QED BY <2>4, <2>5, <2>6 DEF FilesClosed
<1>2. CASE Pass
  BY <1>2, SeenPass DEF Pass, FilesClosed
<1>3. CASE UNCHANGED vars
  <2>1. Seen' = Seen
    BY <1>3 DEF vars, Seen
  <2> QED BY <1>3, <2>1 DEF vars, FilesClosed
<1> QED BY <1>1, <1>2, <1>3 DEF Next

\* However the files name each other, what those that have been read ask for
\* is on the list and will be read (handle_config_files).
THEOREM NothingForgotten == Spec => []FilesClosed
<1>1. Init => FilesClosed
  <2> SUFFICES ASSUME Init PROVE FilesClosed
    OBVIOUS
  <2>1. next = 1 /\ \A f \in Flag \ Switch : ~flags[f]
    BY InitIni
  <2>2. Seen = {}
    BY <2>1 DEF Seen
  <2>3. ~flags["in-home"] /\ ~flags["in-stow-dir"] /\ ~flags["in-other-stow-dirs"]
    BY <2>1 DEF Flag, Switch
  <2> QED BY <2>2, <2>3 DEF FilesClosed
<1>2. IniInv /\ FilesClosed /\ [Next]_vars => FilesClosed'
  BY NextClosed
<1> QED BY <1>1, <1>2, IniInvariant, PTL DEF Spec
-----------------------------------------------------------------------------
\* ReadOnce for every rule, also one that no file has.
Reading == {files[i] : i \in Seen}
ExecSources(e) == UNION {Sources(f, e) : f \in Reading}
NIgnoreSources == UNION {{f} \X DOMAIN disk[f].nignore : f \in Reading}

RulesOnce ==
    /\ \A e \in Exec : Times(exec, e) = IF Told(e) THEN Cardinality(ExecSources(e)) ELSE 0
    /\ Len(nignores) = Cardinality(NIgnoreSources)

LEMMA PairsWith ==
    ASSUME NEW x, NEW A, IsFiniteSet(A)
    PROVE  IsFiniteSet({x} \X A) /\ Cardinality({x} \X A) = Cardinality(A)
<1>1. IsFiniteSet({x}) /\ Cardinality({x}) = 1
  BY FS_Singleton
<1>2. IsFiniteSet({x} \X A) /\ Cardinality({x} \X A) = Cardinality({x}) * Cardinality(A)
  BY <1>1, FS_Product
<1>3. Cardinality(A) \in Nat
  BY FS_CardinalityType
<1> QED BY <1>1, <1>2, <1>3

LEMMA DisjointUnion ==
    ASSUME NEW A, NEW B, IsFiniteSet(A), IsFiniteSet(B), A \cap B = {}
    PROVE  Cardinality(A \cup B) = Cardinality(A) + Cardinality(B)
<1>1. Cardinality(A \cup B) = Cardinality(A) + Cardinality(B) - Cardinality(A \cap B)
  BY FS_Union
<1>2. Cardinality({}) = 0 /\ Cardinality(A) \in Nat /\ Cardinality(B) \in Nat
  BY FS_EmptySet, FS_CardinalityType
<1>3. Cardinality(A \cap B) = 0
  BY <1>2, Zenon
<1> QED BY <1>1, <1>2, <1>3

\* The files read are finitely many, and so are their sections.
LEMMA ReadingFinite ==
    ASSUME IniInv
    PROVE  IsFiniteSet(Reading) /\ \A f \in Reading : disk[f] \in Settings
<1>1. Seen \in SUBSET (1..(next - 1)) /\ next - 1 \in Int
  BY DEF Seen, IniInv, IniTypeOK
<1>2. IsFiniteSet(Seen)
  <2>1. 1 \in Int
    OBVIOUS
  <2>2. IsFiniteSet(1..(next - 1))
    BY <1>1, <2>1, FS_Interval
  <2> QED BY <1>1, <2>2, FS_Subset
<1> DEFINE g == [i \in Seen |-> files[i]]
<1>3. g \in Surjection(Seen, Reading)
  BY DEF Surjection, Reading
<1>4. IsFiniteSet(Reading)
  <2> HIDE DEF g
  <2> QED BY <1>2, <1>3, FS_Surjection
<1>5. \A f \in Reading : disk[f] \in Settings
  <2>1. PICK S \in SUBSET File : disk \in [S -> Contents]
    BY DEF IniInv, IniTypeOK
  <2>2. \A f \in Reading : f \in DOMAIN disk
    BY DEF Reading, Seen
  <2> QED BY <2>1, <2>2, IniAssumption
<1> QED BY <1>4, <1>5

LEMMA SourcesFinite ==
    ASSUME IniInv, NEW e
    PROVE  /\ IsFiniteSet(ExecSources(e)) /\ IsFiniteSet(NIgnoreSources)
           /\ \A f : disk[f] \in Settings =>
                 /\ IsFiniteSet(Sources(f, e)) /\ Cardinality(Sources(f, e)) = Times(disk[f].exec, e)
                 /\ IsFiniteSet({f} \X DOMAIN disk[f].nignore)
                 /\ Cardinality({f} \X DOMAIN disk[f].nignore) = Len(disk[f].nignore)
<1>1. ASSUME NEW f, disk[f] \in Settings
      PROVE  /\ IsFiniteSet(Sources(f, e)) /\ Cardinality(Sources(f, e)) = Times(disk[f].exec, e)
             /\ IsFiniteSet({f} \X DOMAIN disk[f].nignore)
             /\ Cardinality({f} \X DOMAIN disk[f].nignore) = Len(disk[f].nignore)
  <2>1. disk[f].exec \in Seq(Exec) /\ disk[f].nignore \in Seq(Seq(Rule))
    BY <1>1, RulesOfFile
  <2>2. IsFiniteSet(Places(disk[f].exec, e))
    BY <2>1, PlacesFinite
  <2>3. IsFiniteSet(Sources(f, e)) /\ Cardinality(Sources(f, e)) = Times(disk[f].exec, e)
    BY <2>2, PairsWith DEF Sources, Times
  <2> DEFINE n == Len(disk[f].nignore)
  <2>4. n \in Nat /\ DOMAIN disk[f].nignore = 1..n
    BY <2>1
  <2>5. IsFiniteSet(1..n) /\ Cardinality(1..n) = n
    <3>1. 1 \in Int /\ n \in Int
      BY <2>4
    <3>2. IsFiniteSet(1..n) /\ Cardinality(1..n) = IF 1 > n THEN 0 ELSE n - 1 + 1
      <4> HIDE DEF n
      <4> QED BY <3>1, FS_Interval
    <3> HIDE DEF n
    <3> QED BY <2>4, <3>2
  <2>6. IsFiniteSet({f} \X DOMAIN disk[f].nignore) /\ Cardinality({f} \X DOMAIN disk[f].nignore) = n
    <3> HIDE DEF n
    <3> QED BY <2>4, <2>5, PairsWith
  <2> QED BY <2>3, <2>6
<1>2. IsFiniteSet(ExecSources(e))
  <2> DEFINE P == {Sources(f, e) : f \in Reading}
             g == [f \in Reading |-> Sources(f, e)]
  <2>1. g \in Surjection(Reading, P)
    BY DEF Surjection
  <2>2. IsFiniteSet(P)
    <3> HIDE DEF g, P
    <3> QED BY <2>1, ReadingFinite, FS_Surjection
  <2>3. \A T \in P : IsFiniteSet(T)
    BY <1>1, ReadingFinite
  <2> HIDE DEF P
  <2>4. IsFiniteSet(UNION P)
    BY <2>2, <2>3, FS_UNION
  <2> QED BY <2>4 DEF ExecSources, P
<1>3. IsFiniteSet(NIgnoreSources)
  <2> DEFINE P == {{f} \X DOMAIN disk[f].nignore : f \in Reading}
             g == [f \in Reading |-> {f} \X DOMAIN disk[f].nignore]
  <2>1. g \in Surjection(Reading, P)
    BY DEF Surjection
  <2>2. IsFiniteSet(P)
    <3> HIDE DEF g, P
    <3> QED BY <2>1, ReadingFinite, FS_Surjection
  <2>3. \A T \in P : IsFiniteSet(T)
    BY <1>1, ReadingFinite
  <2> HIDE DEF P
  <2>4. IsFiniteSet(UNION P)
    BY <2>2, <2>3, FS_UNION
  <2> QED BY <2>4 DEF NIgnoreSources, P
<1> QED BY <1>1, <1>2, <1>3

\* A file that is read is not among those that were.
LEMMA ReadingGrows ==
    ASSUME IniInv, Read
    PROVE  Reading' = Reading \cup {Current} /\ Current \notin Reading
<1>1. /\ Seen' = Seen \cup {next} /\ next \notin Seen
      /\ \A i \in Seen \cup {next} : i \in DOMAIN files /\ files'[i] = files[i]
  BY SeenRead
<1>2. Reading' = Reading \cup {Current}
  BY <1>1 DEF Reading, Current
<1>3. \A i \in Seen : files[i] # files[next]
  BY <1>1 DEF IniInv, IsInjective
<1> QED BY <1>2, <1>3 DEF Reading, Current

LEMMA ReadRules ==
    ASSUME IniInv, RulesOnce, Read
    PROVE  RulesOnce'
<1> DEFINE c == disk[Current]
<1>1. /\ c \in Settings /\ disk' = disk
      /\ exec' = exec \o read_exec(c) /\ nignores' = nignores \o read_nignore(c)
      /\ exec \in Seq(Exec) /\ nignores \in Seq(Seq(NIgnore)) /\ c.exec \in Seq(Exec)
  BY ReadTyped DEF Read, IniInv, IniTypeOK, Settings
<1>2. Reading' = Reading \cup {Current} /\ Current \notin Reading
  BY ReadingGrows
<1>3. ASSUME NEW e \in Exec
      PROVE  Times(exec', e) = IF Told(e) THEN Cardinality(ExecSources(e)') ELSE 0
  <2> DEFINE r == read_exec(c)
  <2>1. r \in Seq(Exec) /\ Times(r, e) = IF Told(e) THEN Times(c.exec, e) ELSE 0
    <3> HIDE DEF c
    <3> QED BY <1>1, ReadExecTimes DEF read_exec
  <2>2. Times(exec', e) = Times(exec, e) + Times(r, e)
    <3>1. exec' = exec \o r /\ exec \in Seq(Exec)
      BY <1>1
    <3> HIDE DEF r
    <3> QED BY <2>1, <3>1, TimesConcat
  <2>3. ExecSources(e)' = ExecSources(e) \cup Sources(Current, e)
    BY <1>1, <1>2 DEF ExecSources, Sources
  <2>4. ExecSources(e) \cap Sources(Current, e) = {}
    BY <1>2 DEF ExecSources, Sources
  <2>5. /\ IsFiniteSet(ExecSources(e)) /\ IsFiniteSet(Sources(Current, e))
        /\ Cardinality(Sources(Current, e)) = Times(c.exec, e)
    BY <1>1, SourcesFinite
  <2>6. Cardinality(ExecSources(e) \cup Sources(Current, e)) = Cardinality(ExecSources(e)) + Times(c.exec, e)
    BY <2>4, <2>5, DisjointUnion
  <2>7. Cardinality(ExecSources(e)) \in Nat /\ Times(c.exec, e) \in Nat
    BY <1>1, <2>5, FS_CardinalityType, PlacesFinite
  <2>8. Times(exec, e) = IF Told(e) THEN Cardinality(ExecSources(e)) ELSE 0
    BY DEF RulesOnce
  <2> HIDE DEF c, r
  <2> QED BY <2>1, <2>2, <2>3, <2>6, <2>7, <2>8
<1>4. Len(nignores') = Cardinality(NIgnoreSources')
  <2> DEFINE own == {Current} \X DOMAIN c.nignore
  <2>1. read_nignore(c) \in Seq(Seq(NIgnore)) /\ Len(read_nignore(c)) = Len(c.nignore)
    BY <1>1, NIgnoreTyped
  <2>2. Len(nignores') = Len(nignores) + Len(c.nignore)
    <3> DEFINE more == read_nignore(c)
    <3>1. nignores' = nignores \o more /\ nignores \in Seq(Seq(NIgnore))
      BY <1>1
    <3>2. more \in Seq(Seq(NIgnore)) /\ Len(more) = Len(c.nignore)
      BY <2>1
    <3> HIDE DEF more
    <3>3. Len(nignores \o more) = Len(nignores) + Len(more)
      BY <3>1, <3>2, ConcatProperties
    <3> QED BY <3>1, <3>2, <3>3
  <2>3. NIgnoreSources' = NIgnoreSources \cup own
    BY <1>1, <1>2 DEF NIgnoreSources
  <2>4. NIgnoreSources \cap own = {}
    BY <1>2 DEF NIgnoreSources
  <2>5. IsFiniteSet(NIgnoreSources) /\ IsFiniteSet(own) /\ Cardinality(own) = Len(c.nignore)
    BY <1>1, SourcesFinite
  <2>6. Cardinality(NIgnoreSources \cup own) = Cardinality(NIgnoreSources) + Len(c.nignore)
    <3> HIDE DEF own
    <3> QED BY <2>4, <2>5, DisjointUnion
  <2> HIDE DEF own
  <2> QED BY <2>2, <2>3, <2>6 DEF RulesOnce
<1> HIDE DEF c
<1> QED BY <1>3, <1>4 DEF RulesOnce

LEMMA NextRules ==
    ASSUME IniInv, RulesOnce, [Next]_vars
    PROVE  RulesOnce'
<1>1. CASE Read
  BY <1>1, ReadRules
<1>2. ASSUME Seen' = Seen, UNCHANGED <<disk, files, exec, nignores>> PROVE RulesOnce'
  <2>1. Reading' = Reading
    BY <1>2 DEF Reading
  <2>2. NIgnoreSources' = NIgnoreSources /\ \A e \in Exec : ExecSources(e)' = ExecSources(e)
    BY <1>2, <2>1 DEF NIgnoreSources, ExecSources, Sources
  <2> QED BY <1>2, <2>2 DEF RulesOnce
<1>3. CASE Pass
  BY <1>2, <1>3, SeenPass DEF Pass, rules
<1>4. CASE UNCHANGED vars
  <2>1. Seen' = Seen
    BY <1>4 DEF vars, Seen
  <2> QED BY <1>2, <1>4, <2>1 DEF vars, rules
<1> QED BY <1>1, <1>3, <1>4 DEF Next

\* However the files name each other, and themselves, each is read once: its
\* exec rules and its nignore chains are there once (match_only_once).
THEOREM RulesReadOnce == Spec => []ReadOnce
<1>1. Init => RulesOnce
  <2> SUFFICES ASSUME Init PROVE RulesOnce
    OBVIOUS
  <2>1. next = 1 /\ exec = <<>> /\ nignores = <<>>
    BY DEF Init
  <2>2. Reading = {}
    BY <2>1 DEF Reading, Seen
  <2>3. NIgnoreSources = {} /\ \A e : ExecSources(e) = {}
    BY <2>2 DEF NIgnoreSources, ExecSources
  <2>4. \A e : Places(exec, e) = {}
    BY <2>1 DEF Places
  <2>5. Len(nignores) = 0
    BY <2>1
  <2> QED BY <2>3, <2>4, <2>5, FS_EmptySet DEF RulesOnce, Times
<1>2. IniInv /\ RulesOnce /\ [Next]_vars => RulesOnce'
  BY NextRules
<1>3. IniInv /\ RulesOnce => ReadOnce
  <2> SUFFICES ASSUME IniInv, RulesOnce PROVE ReadOnce
    OBVIOUS
  <2>1. \A e \in (UNION {ToSet(disk[f].exec) : f \in Reading}) \cup ToSet(exec) : e \in Exec
    <3>1. exec \in Seq(Exec) /\ \A f \in Reading : disk[f].exec \in Seq(Exec)
      BY ReadingFinite DEF IniInv, IniTypeOK, Settings
    <3>2. ASSUME NEW t \in Seq(Exec) PROVE ToSet(t) \subseteq Exec
      BY DEF ToSet
    <3>3. ToSet(exec) \subseteq Exec /\ \A f \in Reading : ToSet(disk[f].exec) \subseteq Exec
      BY <3>1, <3>2
    <3> QED BY <3>3
  <2> QED BY <2>1 DEF RulesOnce, ReadOnce, Reading, ExecSources, NIgnoreSources
<1> QED BY <1>1, <1>2, <1>3, IniInvariant, PTL DEF Spec
-----------------------------------------------------------------------------
\* The list never has more files than there are names, so that the walk, which
\* goes one file further with every step, comes to its end.
ListBounded == IsFiniteSet(File) => Len(files) <= Cardinality(File)

THEOREM WalkBounded == Spec => []ListBounded
<1>1. ASSUME IniInv PROVE ListBounded
  <2> SUFFICES ASSUME IsFiniteSet(File) PROVE Len(files) <= Cardinality(File)
    BY DEF ListBounded
  <2>1. files \in [1..Len(files) -> File] /\ Len(files) \in Nat
    BY <1>1 DEF IniInv, IniTypeOK
  <2>2. files \in Injection(1..Len(files), File)
    BY <1>1, <2>1 DEF IniInv, IsInjective, Injection
  <2>3. Cardinality(1..Len(files)) <= Cardinality(File)
    BY <2>2, FS_Injection
  <2>4. Cardinality(1..Len(files)) = Len(files)
    <3> DEFINE n == Len(files)
    <3>1. n \in Nat /\ n \in Int /\ 1 \in Int
      BY <2>1
    <3>2. Cardinality(1..n) = IF 1 > n THEN 0 ELSE n - 1 + 1
      <4> HIDE DEF n
      <4> QED BY <3>1, FS_Interval
    <3> HIDE DEF n
    <3>3. Cardinality(1..n) = n
      BY <3>1, <3>2
    <3> QED BY <3>3 DEF n
  <2> QED BY <2>3, <2>4
<1> QED BY <1>1, IniInvariant, PTL
=============================================================================
