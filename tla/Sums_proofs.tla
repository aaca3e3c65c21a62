---------------------------- MODULE Sums_proofs -----------------------------
(***************************************************************************)
(* Sums, for functions on any finite set: what is taken from a sum, added  *)
(* to it, and renamed in it.                                               *)
(***************************************************************************)
EXTENDS Sums, FiniteSetTheorems, TLAPS

-----------------------------------------------------------------------------
(* Induction, over sets where the library has it over operators.           *)
LEMMA NaturalInduction ==
  ASSUME NEW T, 0 \in T, \A n \in Nat : n \in T => n + 1 \in T
  PROVE  Nat \subseteq T
<1> SUFFICES ASSUME Nat \ T # {} PROVE FALSE
  OBVIOUS
<1>1. PICK n \in Nat \ T : \A m \in Nat \ T : ~ (<<m, n>> \in OpToRel(<, Nat))
  BY NatLessThanWellFounded, WFMin
<1>2. ASSUME NEW m \in Nat \ T PROVE ~ (m < n)
  BY <1>1, <1>2, Zenon DEF OpToRel
<1>3. n \in Nat /\ n \notin T
  OBVIOUS
<1>4. n - 1 \in Nat
  BY <1>3
<1>5. n - 1 \in T
  BY <1>2, <1>4, SMT
<1> QED BY <1>3, <1>4, <1>5, SMT

LEMMA SubsetInduction ==
  ASSUME NEW S, IsFiniteSet(S), NEW T,
         \A s \in SUBSET S : (\A r \in SUBSET s : r # s => r \in T) => s \in T
  PROVE  SUBSET S \subseteq T
<1> SUFFICES ASSUME (SUBSET S) \ T # {} PROVE FALSE
  OBVIOUS
<1>1. IsWellFoundedOn(StrictSubsetOrdering(S), SUBSET S)
  <2>1. FiniteSubsetsOf(S) = SUBSET S
    BY FS_FiniteSubsetsOfFinite
  <2>2. IsWellFoundedOn(StrictSubsetOrdering(S), FiniteSubsetsOf(S))
    BY FS_StrictSubsetOrderingWellFounded
  <2> QED BY <2>1, <2>2
<1>2. PICK s \in (SUBSET S) \ T : \A r \in (SUBSET S) \ T : ~ (<<r, s>> \in StrictSubsetOrdering(S))
  <2> DEFINE bad == (SUBSET S) \ T
             R == StrictSubsetOrdering(S)
  <2>1. bad \subseteq SUBSET S /\ bad # {}
    OBVIOUS
  <2> HIDE DEF bad, R
  <2>2. \E s \in bad : \A r \in bad : ~ (<<r, s>> \in R)
    BY <1>1, <2>1, WFMin DEF R
  <2> QED BY <2>2 DEF bad, R
<1>3. ASSUME NEW r \in SUBSET s, r # s PROVE r \in T
  <2>1. r \in SUBSET S /\ <<r, s>> \in (SUBSET S) \X (SUBSET S)
    OBVIOUS
  <2>2. <<r, s>> \in StrictSubsetOrdering(S)
    BY <2>1, <1>3 DEF StrictSubsetOrdering
  <2> QED BY <1>2, <2>1, <2>2
<1> QED BY <1>3

-----------------------------------------------------------------------------
(* What MapThenSumSet computes is a function on the sets that are left to  *)
(* sum up.                                                                 *)
Step(g, f, s) ==
  IF s = {} THEN 0 ELSE g[CHOOSE x \in s : TRUE] + f[s \ {CHOOSE x \in s : TRUE}]
SumsUp(g, f, S) == f = [s \in SUBSET S |-> Step(g, f, s)]

LEMMA SumsUpExists ==
  ASSUME NEW g, NEW S, IsFiniteSet(S)
  PROVE  \E f : SumsUp(g, f, S)
<1> DEFINE Small(n) == {s \in SUBSET S : Cardinality(s) <= n}
           T == {n \in Nat : \E f : f = [s \in Small(n) |-> Step(g, f, s)]}
<1>1. \A s \in SUBSET S : IsFiniteSet(s) /\ Cardinality(s) \in Nat /\ Cardinality(s) <= Cardinality(S)
  BY FS_Subset, FS_CardinalityType
<1>2. 0 \in T
  <2> DEFINE f == [s \in Small(0) |-> 0]
  <2>1. \A s \in Small(0) : s = {}
    BY <1>1, FS_EmptySet
  <2>2. f = [s \in Small(0) |-> Step(g, f, s)]
    BY <2>1 DEF Step
  <2> QED BY <2>2
<1>3. ASSUME NEW n \in Nat, n \in T PROVE n + 1 \in T
  <2>1. PICK f : f = [s \in Small(n) |-> Step(g, f, s)]
    BY <1>3
  <2> DEFINE h == [s \in Small(n + 1) |-> Step(g, f, s)]
  <2>2. ASSUME NEW s \in Small(n + 1) PROVE Step(g, f, s) = Step(g, h, s)
    <3>1. CASE s = {}
      BY <3>1 DEF Step
    <3>2. CASE s # {}
      <4> DEFINE x == CHOOSE y \in s : TRUE
                 r == s \ {x}
      <4>1. x \in s
        BY <3>2
      <4> HIDE DEF x
      <4>2. Cardinality(r) = Cardinality(s) - 1 /\ r \in SUBSET S
        BY <1>1, <4>1, FS_RemoveElement
      <4>3. r \in Small(n) /\ r \in Small(n + 1)
        BY <1>1, <4>2, SMT
      <4>4. f[r] = Step(g, f, r) /\ h[r] = Step(g, f, r)
        BY <2>1, <4>3
      <4> QED BY <4>4, <3>2 DEF Step, x
    <3> QED BY <3>1, <3>2
  <2>3. h = [s \in Small(n + 1) |-> Step(g, h, s)]
    <3>1. h = [s \in Small(n + 1) |-> Step(g, f, s)]
      OBVIOUS
    <3> HIDE DEF h, Small
    <3> QED BY <2>2, <3>1
  <2>4. n + 1 \in Nat
    OBVIOUS
  <2> HIDE DEF h, Small
  <2>5. \E e : e = [s \in Small(n + 1) |-> Step(g, e, s)]
    BY <2>3
  <2> QED BY <2>4, <2>5
<1>4. Cardinality(S) \in T
  <2> HIDE DEF T
  <2>1. Nat \subseteq T
    BY <1>2, <1>3, NaturalInduction
  <2> QED BY <2>1, <1>1
<1>5. Small(Cardinality(S)) = SUBSET S
  BY <1>1
<1> QED BY <1>4, <1>5 DEF SumsUp

LEMMA TotalSumsUp ==
  ASSUME NEW g, IsFiniteSet(DOMAIN g)
  PROVE  \E f : SumsUp(g, f, DOMAIN g) /\ Total(g) = f[DOMAIN g]
<1> DEFINE h == CHOOSE h : h = [s \in SUBSET DOMAIN g |-> Step(g, h, s)]
<1>1. SumsUp(g, h, DOMAIN g)
  BY SumsUpExists DEF SumsUp
<1>2. Total(g) = h[DOMAIN g]
  BY DEF Total, MapThenSumSet, MapThenFoldSet, Step
<1> QED BY <1>1, <1>2

LEMMA AnyOrder ==
  ASSUME NEW S, IsFiniteSet(S), NEW g \in [S -> Int], NEW f, SumsUp(g, f, S)
  PROVE  \A s \in SUBSET S : f[s] \in Int /\ \A x \in s : f[s] = g[x] + f[s \ {x}]
<1> DEFINE T == {s \in SUBSET S : f[s] \in Int /\ \A x \in s : f[s] = g[x] + f[s \ {x}]}
<1>1. ASSUME NEW s \in SUBSET S, \A r \in SUBSET s : r # s => r \in T
      PROVE  s \in T
  <2>1. CASE s = {}
    BY <2>1 DEF SumsUp, Step
  <2>2. CASE s # {}
    <3> DEFINE x == CHOOSE y \in s : TRUE
    <3>1. x \in s /\ f[s] = g[x] + f[s \ {x}]
      BY <2>2 DEF SumsUp, Step
    <3> HIDE DEF x
    <3>2. f[s \ {x}] \in Int /\ g[x] \in Int
      BY <1>1, <3>1
    <3>3. ASSUME NEW y \in s, y # x PROVE f[s] = g[y] + f[s \ {y}]
      <4>1. s \ {x} \in T /\ s \ {y} \in T /\ y \in s \ {x} /\ x \in s \ {y}
        BY <1>1, <3>1, <3>3
      <4> DEFINE rest == (s \ {x}) \ {y}
      <4>2. f[s \ {x}] = g[y] + f[rest]
        BY <4>1
      <4>3. f[s \ {y}] = g[x] + f[rest]
        <5>1. rest = (s \ {y}) \ {x}
          OBVIOUS
        <5> QED BY <4>1, <5>1
      <4>4. f[rest] \in Int /\ g[y] \in Int
        BY <1>1, <3>1
      <4> HIDE DEF rest
      <4> QED BY <3>1, <3>2, <4>2, <4>3, <4>4
    <3>4. f[s] \in Int
      BY <3>1, <3>2
    <3> QED BY <3>1, <3>3, <3>4
  <2> QED BY <2>1, <2>2
<1> HIDE DEF T
<1>2. SUBSET S \subseteq T
  BY <1>1, SubsetInduction
<1> QED BY <1>2 DEF T

LEMMA TotalOfPart ==
  ASSUME NEW S, IsFiniteSet(S), NEW g \in [S -> Int], NEW f, SumsUp(g, f, S), NEW s \in SUBSET S
  PROVE  Total(Restrict(g, s)) = f[s]
<1> DEFINE p == Restrict(g, s)
<1>1. DOMAIN p = s /\ p \in [s -> Int] /\ \A x \in s : p[x] = g[x]
  BY DEF Restrict
<1> HIDE DEF p
<1>2. IsFiniteSet(s)
  BY FS_Subset
<1>3. PICK h : SumsUp(p, h, s) /\ Total(p) = h[s]
  BY <1>1, <1>2, TotalSumsUp
<1> DEFINE T == {r \in SUBSET s : h[r] = f[r]}
<1>4. ASSUME NEW r \in SUBSET s, \A q \in SUBSET r : q # r => q \in T
      PROVE  r \in T
  <2>1. CASE r = {}
    BY <2>1, <1>3 DEF SumsUp, Step
  <2>2. CASE r # {}
    <3>1. PICK x : x \in r
      BY <2>2
    <3>2. h[r] = p[x] + h[r \ {x}]
      BY <1>1, <1>2, <1>3, <3>1, AnyOrder
    <3>3. f[r] = g[x] + f[r \ {x}]
      <4>1. r \in SUBSET S
        OBVIOUS
      <4> QED BY <3>1, <4>1, AnyOrder
    <3>4. r \ {x} \in T
      BY <1>4, <3>1
    <3> QED BY <1>1, <3>1, <3>2, <3>3, <3>4
  <2> QED BY <2>1, <2>2
<1> HIDE DEF T
<1>5. s \in T
  BY <1>2, <1>4, SubsetInduction
<1> QED BY <1>3, <1>5 DEF T, p

(* One term may be taken from a sum, whichever it is.                      *)
LEMMA TakeOne ==
  ASSUME NEW S, IsFiniteSet(S), NEW g \in [S -> Int]
  PROVE  /\ Total(g) \in Int
         /\ S = {} => Total(g) = 0
         /\ \A x \in S : Total(g) = g[x] + Total(Restrict(g, S \ {x}))
<1>1. PICK f : SumsUp(g, f, S)
  BY SumsUpExists
<1>2. Restrict(g, S) = g
  BY DEF Restrict
<1>3. Total(g) = f[S]
  BY <1>1, <1>2, TotalOfPart
<1>4. f[S] \in Int /\ \A x \in S : f[S] = g[x] + f[S \ {x}]
  <2>1. S \in SUBSET S
    OBVIOUS
  <2>2. \A s \in SUBSET S : f[s] \in Int /\ \A x \in s : f[s] = g[x] + f[s \ {x}]
    BY <1>1, AnyOrder
  <2> QED BY <2>1, <2>2
<1>5. \A x \in S : Total(Restrict(g, S \ {x})) = f[S \ {x}]
  BY <1>1, TotalOfPart
<1>6. S = {} => f[S] = 0
  BY <1>1 DEF SumsUp, Step
<1> QED BY <1>3, <1>4, <1>5, <1>6

LEMMA TakeOneOfPart ==
  ASSUME NEW S, IsFiniteSet(S), NEW g \in [S -> Int], NEW s \in SUBSET S
  PROVE  /\ Total(Restrict(g, s)) \in Int
         /\ s = {} => Total(Restrict(g, s)) = 0
         /\ \A x \in s : Total(Restrict(g, s)) = g[x] + Total(Restrict(g, s \ {x}))
<1> DEFINE p == Restrict(g, s)
<1>1. p \in [s -> Int] /\ \A x \in s : p[x] = g[x]
  BY DEF Restrict
<1>2. \A x \in s : Restrict(p, s \ {x}) = Restrict(g, s \ {x})
  BY DEF Restrict
<1> HIDE DEF p
<1>3. IsFiniteSet(s)
  BY FS_Subset
<1>4. /\ Total(p) \in Int
      /\ s = {} => Total(p) = 0
      /\ \A x \in s : Total(p) = p[x] + Total(Restrict(p, s \ {x}))
  BY <1>1, <1>3, TakeOne
<1> QED BY <1>1, <1>2, <1>4 DEF p

(* One term is replaced.                                                   *)
LEMMA ReplaceOne ==
  ASSUME NEW S, IsFiniteSet(S), NEW g \in [S -> Int], NEW h \in [S -> Int], NEW x \in S,
         \A y \in S : y # x => h[y] = g[y]
  PROVE  Total(h) = Total(g) - g[x] + h[x]
<1>1. Restrict(h, S \ {x}) = Restrict(g, S \ {x})
  BY DEF Restrict
<1>2. Total(g) = g[x] + Total(Restrict(g, S \ {x}))
  BY TakeOne
<1>3. Total(h) = h[x] + Total(Restrict(h, S \ {x}))
  BY TakeOne
<1>4. Total(Restrict(g, S \ {x})) \in Int
  BY TakeOneOfPart
<1> QED BY <1>1, <1>2, <1>3, <1>4

(* No term of a sum of natural numbers exceeds it.                         *)
LEMMA TermsBelowTotal ==
  ASSUME NEW S, IsFiniteSet(S), NEW g \in [S -> Nat]
  PROVE  Total(g) \in Nat /\ \A x \in S : g[x] <= Total(g)
<1> DEFINE Sum(s) == Total(Restrict(g, s))
           T == {s \in SUBSET S : Sum(s) \in Nat}
<1>1. g \in [S -> Int]
  OBVIOUS
<1>2. \A s \in SUBSET S : /\ s = {} => Sum(s) = 0
                          /\ \A x \in s : Sum(s) = g[x] + Sum(s \ {x})
  BY <1>1, TakeOneOfPart
<1> HIDE DEF Sum
<1>3. ASSUME NEW s \in SUBSET S, \A r \in SUBSET s : r # s => r \in T
      PROVE  s \in T
  <2>1. CASE s = {}
    BY <1>2, <2>1
  <2>2. CASE s # {}
    <3>1. PICK x : x \in s
      BY <2>2
    <3>2. s \ {x} \in T /\ g[x] \in Nat
      BY <1>3, <3>1
    <3> QED BY <1>2, <3>1, <3>2
  <2> QED BY <2>1, <2>2
<1> HIDE DEF T
<1>4. SUBSET S \subseteq T
  BY <1>3, SubsetInduction
<1>5. Sum(S) \in Nat /\ \A x \in S : Sum(S \ {x}) \in Nat
  BY <1>4 DEF T
<1>6. \A x \in S : Sum(S) = g[x] + Sum(S \ {x})
  <2>1. S \in SUBSET S
    OBVIOUS
  <2> QED BY <1>2, <2>1
<1>7. Sum(S) = Total(g)
  <2>1. Restrict(g, S) = g
    BY DEF Restrict
  <2> QED BY <2>1 DEF Sum
<1>8. ASSUME NEW x \in S PROVE g[x] <= Sum(S)
  <2>1. g[x] \in Nat /\ Sum(S \ {x}) \in Nat /\ Sum(S) = g[x] + Sum(S \ {x})
    BY <1>5, <1>6
  <2> QED BY <2>1
<1> QED BY <1>5, <1>7, <1>8

(* Terms that are zero may be left out.                                    *)
LEMMA LeaveOutZeros ==
  ASSUME NEW S, IsFiniteSet(S), NEW g \in [S -> Int], NEW U \in SUBSET S,
         \A x \in S \ U : g[x] = 0
  PROVE  Total(g) = Total(Restrict(g, U))
<1> DEFINE Sum(s) == Total(Restrict(g, s))
           T == {s \in SUBSET S : Sum(s) = Sum(s \cap U)}
<1>1. \A s \in SUBSET S : Sum(s) \in Int /\ \A x \in s : Sum(s) = g[x] + Sum(s \ {x})
  BY TakeOneOfPart
<1> HIDE DEF Sum
<1>2. ASSUME NEW s \in SUBSET S, \A r \in SUBSET s : r # s => r \in T
      PROVE  s \in T
  <2>1. CASE s \subseteq U
    <3>1. s \cap U = s
      BY <2>1
    <3> QED BY <3>1
  <2>2. CASE ~ (s \subseteq U)
    <3>1. PICK x \in s : x \notin U
      BY <2>2
    <3>2. s \ {x} \in T /\ (s \ {x}) \cap U = s \cap U
      BY <1>2, <3>1
    <3>3. Sum(s) = g[x] + Sum(s \ {x}) /\ g[x] = 0
      BY <1>1, <3>1
    <3>4. Sum(s \ {x}) \in Int
      BY <1>1
    <3>5. Sum(s) = Sum(s \ {x})
      BY <3>3, <3>4
    <3> QED BY <3>2, <3>5
  <2> QED BY <2>1, <2>2
<1> HIDE DEF T
<1>3. S \in T /\ S \cap U = U
  BY <1>2, SubsetInduction
<1>4. Restrict(g, S) = g
  BY DEF Restrict
<1> QED BY <1>3, <1>4 DEF T, Sum

LEMMA TotalOfZeros ==
  ASSUME NEW S, IsFiniteSet(S), NEW g \in [S -> Int], \A x \in S : g[x] = 0
  PROVE  Total(g) = 0
<1>1. Total(g) = Total(Restrict(g, {}))
  BY LeaveOutZeros
<1> QED BY <1>1, TakeOneOfPart

LEMMA ZerosOfTotal ==
  ASSUME NEW S, IsFiniteSet(S), NEW g \in [S -> Nat], Total(g) = 0
  PROVE  \A x \in S : g[x] = 0
<1>1. \A x \in S : g[x] \in Nat /\ g[x] <= 0
  BY TermsBelowTotal
<1> QED BY <1>1

(* The terms may be renamed.                                               *)
Renames(b, h, I, g, S) ==
  /\ b \in [I -> S]
  /\ \A i, j \in I : b[i] = b[j] => i = j
  /\ \A x \in S : \E i \in I : b[i] = x
  /\ \A i \in I : h[i] = g[b[i]]

LEMMA RenameTerms ==
  ASSUME NEW S, IsFiniteSet(S), NEW g \in [S -> Int],
         NEW I, IsFiniteSet(I), NEW h \in [I -> Int], NEW b, Renames(b, h, I, g, S)
  PROVE  Total(h) = Total(g)
<1> DEFINE Image(J) == {b[i] : i \in J}
           Sum(s) == Total(Restrict(g, s))
           Renamed(J) == Total(Restrict(h, J))
           T == {J \in SUBSET I : Renamed(J) = Sum(Image(J))}
<1>1. /\ b \in [I -> S]
      /\ \A i, j \in I : b[i] = b[j] => i = j
      /\ \A x \in S : \E i \in I : b[i] = x
      /\ \A i \in I : h[i] = g[b[i]]
  BY DEF Renames
<1>2. \A s \in SUBSET S : /\ Sum(s) \in Int
                          /\ s = {} => Sum(s) = 0
                          /\ \A x \in s : Sum(s) = g[x] + Sum(s \ {x})
  BY TakeOneOfPart
<1>3. \A J \in SUBSET I : /\ J = {} => Renamed(J) = 0
                          /\ \A i \in J : Renamed(J) = h[i] + Renamed(J \ {i})
  BY TakeOneOfPart
<1> HIDE DEF Sum, Renamed
<1>4. ASSUME NEW J \in SUBSET I, \A K \in SUBSET J : K # J => K \in T
      PROVE  J \in T
  <2>1. CASE J = {}
    <3>1. Image(J) = {} /\ Image(J) \in SUBSET S
      BY <2>1
    <3> QED BY <1>2, <1>3, <2>1, <3>1
  <2>2. CASE J # {}
    <3>1. PICK i : i \in J
      BY <2>2
    <3>2. Image(J) \in SUBSET S /\ b[i] \in Image(J) /\ Image(J \ {i}) = Image(J) \ {b[i]}
      BY <1>1, <3>1
    <3> HIDE DEF Image
    <3>3. J \ {i} \in T
      BY <1>4, <3>1
    <3> QED BY <1>1, <1>2, <1>3, <3>1, <3>2, <3>3
  <2> QED BY <2>1, <2>2
<1> HIDE DEF T
<1>5. I \in T
  BY <1>4, SubsetInduction
<1>6. Image(I) = S
  BY <1>1
<1>7. Restrict(g, S) = g /\ Restrict(h, I) = h
  BY DEF Restrict
<1> QED BY <1>5, <1>6, <1>7 DEF T, Sum, Renamed

(* A list takes one number at its front, and drops its last.               *)
LEMMA ShiftTotal ==
  ASSUME NEW n \in Nat \ {0}, NEW g \in [1 .. n -> Int], NEW h \in [1 .. n -> Int],
         \A i \in 2 .. n : h[i] = g[i - 1]
  PROVE  Total(h) = Total(g) + h[1] - g[n]
<1> DEFINE W == 1 .. n
           I == W \ {n}
           S == W \ {1}
           b == [i \in I |-> i + 1]
           p == Restrict(h, S)
           q == Restrict(g, I)
<1>1. IsFiniteSet(W) /\ IsFiniteSet(I) /\ IsFiniteSet(S)
  <2>1. IsFiniteSet(W)
    BY FS_Interval
  <2> HIDE DEF W
  <2> QED BY <2>1, FS_RemoveElement
<1>2. g \in [W -> Int] /\ h \in [W -> Int] /\ 1 \in W /\ n \in W /\ I \subseteq W
  OBVIOUS
<1>3. /\ Total(h) = h[1] + Total(p)
      /\ Total(g) = g[n] + Total(q)
      /\ Total(q) \in Int
  <2> HIDE DEF W
  <2>1. IsFiniteSet(W) /\ g \in [W -> Int] /\ h \in [W -> Int] /\ 1 \in W /\ n \in W
    BY <1>1, <1>2
  <2>2. Total(h) = h[1] + Total(p)
    BY <2>1, TakeOne
  <2>3. Total(g) = g[n] + Total(q)
    BY <2>1, TakeOne
  <2>4. I \in SUBSET W
    OBVIOUS
  <2>5. Total(q) \in Int
    <3> HIDE DEF I
    <3> QED BY <2>1, <2>4, TakeOneOfPart
  <2> QED BY <2>2, <2>3, <2>5
<1>4. p \in [S -> Int] /\ b \in [I -> S]
  BY DEF Restrict
<1>5. q \in [I -> Int] /\ \A i \in I : q[i] = p[b[i]]
  BY DEF Restrict
<1>6. Renames(b, q, I, p, S)
  <2>1. \A x \in S : x - 1 \in I /\ b[x - 1] = x
    OBVIOUS
  <2>2. \A i, j \in I : b[i] = b[j] => i = j
    OBVIOUS
  <2> HIDE DEF b
  <2> QED BY <1>4, <1>5, <2>1, <2>2 DEF Renames
<1>7. h[1] \in Int /\ g[n] \in Int
  OBVIOUS
<1> HIDE DEF W, I, S, b, p, q
<1>8. Total(q) = Total(p)
  BY <1>1, <1>4, <1>5, <1>6, RenameTerms
<1> QED BY <1>3, <1>7, <1>8
=============================================================================
