---------------------------- MODULE PagingProofs ----------------------------
(***************************************************************************)
(* Proofs about Paging, for any rows, ties, limits and changes.  A walk is *)
(* followed by what is still behind its offset: the rows the next pages    *)
(* can give.                                                               *)
(***************************************************************************)
EXTENDS Paging, FiniteSetTheorems, WellFoundedInduction, TLAPS

-----------------------------------------------------------------------------
(***************************************************************************)
(* The rows of L behind the first n: what OFFSET n leaves.                 *)
(***************************************************************************)
Rests(L, s, n) ==
  {K \in SUBSET L :
     /\ Cardinality(K) = IF n < Cardinality(L) THEN Cardinality(L) - n ELSE 0
     /\ \A i \in L \ K, j \in K : s[i] >= s[j]}

(***************************************************************************)
(* The stamp a row has at first.                                           *)
(***************************************************************************)
FirstStamp(i) == Cardinality({j \in FirstRows \ SameTime : j <= i})

(***************************************************************************)
(* The rows that had, at first, the time of one the client was given: the  *)
(* database may swap it with them from one page to the next.               *)
(***************************************************************************)
Tied(S) == {i \in FirstRows : \E j \in S \cap FirstRows : FirstStamp(j) = FirstStamp(i)}

(***************************************************************************)
(* Given: what the client was given or only a tie keeps from it.  Ungiven: *)
(* the rows of the list, as the first page finds it, that are neither.     *)
(***************************************************************************)
Given == seen \cup Tied(seen)
Ungiven == (IF walk = "start" THEN listed ELSE initial) \ Given

(***************************************************************************)
(* Rows have the same stamp only when they were inserted together.         *)
(***************************************************************************)
StampInv ==
  /\ \A i \in Rows : stamp[i] <= newest
  /\ \A i, j \in Rows :
       i # j /\ stamp[i] = stamp[j] /\ stamp[i] > 0
         => i \in FirstRows /\ j \in FirstRows /\ FirstStamp(i) = FirstStamp(j)

(***************************************************************************)
(* In whatever order the next page finds the rows of the same time: at     *)
(* most one row that is due was overtaken for each that left, and of the   *)
(* rows before the offset all but one for each that joined were given.     *)
(***************************************************************************)
OffsetInv ==
  walk # "ended" =>
    /\ repeats + Cardinality(seen) = offset
    /\ \A K \in Rests(listed, stamp, offset) :
         /\ Cardinality(Ungiven \ K) <= left
         /\ offset <= joined + Cardinality(Given \ K)

PagingInv == TypeOK /\ StampInv /\ OffsetInv /\ MissedBounded /\ RepeatsBounded

-----------------------------------------------------------------------------
(***************************************************************************)
(* Sizes of finite sets.                                                   *)
(***************************************************************************)
LEMMA SizeSubset ==
  ASSUME NEW S, IsFiniteSet(S), NEW A, A \subseteq S
  PROVE  /\ IsFiniteSet(A)
         /\ Cardinality(A) \in Nat
         /\ Cardinality(S) \in Nat
         /\ Cardinality(A) <= Cardinality(S)
         /\ Cardinality(A) = Cardinality(S) => A = S
         /\ Cardinality(S \ A) = Cardinality(S) - Cardinality(A)
<1>1. /\ IsFiniteSet(A)
      /\ Cardinality(A) <= Cardinality(S)
      /\ Cardinality(A) = Cardinality(S) => A = S
  BY FS_Subset
<1>2. Cardinality(A) \in Nat /\ Cardinality(S) \in Nat
  BY <1>1, FS_CardinalityType
<1>3. S \cap A = A
  OBVIOUS
<1>4. Cardinality(S \ A) = Cardinality(S) - Cardinality(A)
  BY <1>3, FS_Difference
<1> QED
  BY <1>1, <1>2, <1>4

(***************************************************************************)
(* A set that two sets cover has no more elements than both have.          *)
(***************************************************************************)
LEMMA SizeCover ==
  ASSUME NEW A, NEW B, NEW C, IsFiniteSet(B), IsFiniteSet(C), A \subseteq B \cup C
  PROVE  /\ IsFiniteSet(A)
         /\ Cardinality(A) \in Nat
         /\ Cardinality(A) <= Cardinality(B) + Cardinality(C)
<1>1. /\ IsFiniteSet(B \cup C)
      /\ Cardinality(B \cup C) = Cardinality(B) + Cardinality(C) - Cardinality(B \cap C)
  BY FS_Union
<1>2. IsFiniteSet(B \cap C)
  BY FS_Intersection
<1>3. Cardinality(B) \in Nat /\ Cardinality(C) \in Nat /\ Cardinality(B \cap C) \in Nat
  BY <1>2, FS_CardinalityType
<1>4. IsFiniteSet(A) /\ Cardinality(A) \in Nat /\ Cardinality(A) <= Cardinality(B \cup C)
  BY <1>1, SizeSubset
<1> QED
  BY <1>1, <1>3, <1>4

(***************************************************************************)
(* Sizes of disjoint sets add up.                                          *)
(***************************************************************************)
LEMMA SizeDisjoint ==
  ASSUME NEW A, NEW B, IsFiniteSet(A), IsFiniteSet(B), A \cap B = {}
  PROVE  /\ IsFiniteSet(A \cup B)
         /\ Cardinality(A) \in Nat
         /\ Cardinality(B) \in Nat
         /\ Cardinality(A \cup B) = Cardinality(A) + Cardinality(B)
<1>1. Cardinality(A) \in Nat /\ Cardinality(B) \in Nat
  BY FS_CardinalityType
<1>2. Cardinality(A \cap B) = 0
  BY FS_EmptySet
<1>3. /\ IsFiniteSet(A \cup B)
      /\ Cardinality(A \cup B) = Cardinality(A) + Cardinality(B) - Cardinality(A \cap B)
  BY FS_Union
<1> QED
  BY <1>1, <1>2, <1>3

(***************************************************************************)
(* A subset of one row has no row or one.                                  *)
(***************************************************************************)
LEMMA SizeAtMostOne ==
  ASSUME NEW A, NEW i, A \subseteq {i}
  PROVE  IsFiniteSet(A) /\ Cardinality(A) \in {0, 1} /\ Cardinality(A) <= 1
<1>1. A = {} \/ A = {i}
  OBVIOUS
<1> QED
  <2>1. CASE A = {}
    BY <2>1, FS_EmptySet
  <2>2. CASE A = {i}
    <3>1. IsFiniteSet({i}) /\ Cardinality({i}) = 1
      BY FS_Singleton
    <3> QED
      BY <2>2, <3>1
  <2> QED
    BY <1>1, <2>1, <2>2

(***************************************************************************)
(* A nonempty set of stamps has a least one.                               *)
(***************************************************************************)
LEMMA Least ==
  ASSUME NEW S \in SUBSET Nat, S # {}
  PROVE  \E x \in S : \A y \in S : x <= y
<1>1. IsWellFoundedOn(OpToRel(<, Nat), Nat)
  BY NatLessThanWellFounded
<1>2. PICK x \in S : \A y \in S : ~(<<y, x>> \in OpToRel(<, Nat))
  BY <1>1, WFMin
<1>3. ASSUME NEW y \in S PROVE x <= y
  <2>1. y \in Nat /\ x \in Nat
    OBVIOUS
  <2>2. ~(y < x)
    BY <1>2, <2>1 DEF OpToRel
  <2> QED
    BY <2>1, <2>2
<1> QED
  BY <1>3

(***************************************************************************)
(* A nonempty set of rows has an oldest one.                               *)
(***************************************************************************)
LEMMA Oldest ==
  ASSUME NEW S, S # {}, NEW s, \A i \in S : s[i] \in Nat
  PROVE  \E d \in S : \A i \in S : s[i] >= s[d]
<1> DEFINE V == {s[i] : i \in S}
<1>1. V \in SUBSET Nat /\ V # {}
  OBVIOUS
<1>2. PICK x \in V : \A y \in V : x <= y
  BY <1>1, Least
<1>3. PICK d \in S : x = s[d]
  OBVIOUS
<1>4. ASSUME NEW i \in S PROVE s[i] >= s[d]
  <2>1. s[i] \in V
    OBVIOUS
  <2>2. x <= s[i]
    BY <1>2, <2>1
  <2> QED
    BY <2>2, <1>3
<1> QED
  BY <1>4

(***************************************************************************)
(* And a newest one, when their stamps are below a bound.                  *)
(***************************************************************************)
LEMMA Newest ==
  ASSUME NEW S, S # {}, NEW s, NEW B \in Nat, \A i \in S : s[i] \in 0 .. B
  PROVE  \E d \in S : \A i \in S : s[d] >= s[i]
<1> DEFINE r == [i \in S |-> B - s[i]]
<1>1. \A i \in S : r[i] \in Nat
  OBVIOUS
<1> HIDE DEF r
<1>2. PICK d \in S : \A i \in S : r[i] >= r[d]
  BY <1>1, Oldest
<1>3. ASSUME NEW i \in S PROVE s[d] >= s[i]
  <2>1. r[i] = B - s[i] /\ r[d] = B - s[d] /\ r[i] >= r[d]
    BY <1>2 DEF r
  <2> QED
    BY <2>1
<1> QED
  BY <1>3

-----------------------------------------------------------------------------
(***************************************************************************)
(* A rest has a size that is a number, and rests of the same offset have   *)
(* the same size.                                                          *)
(***************************************************************************)
LEMMA RestSize ==
  ASSUME NEW L, IsFiniteSet(L), NEW s, NEW n \in Nat, NEW K \in Rests(L, s, n)
  PROVE  /\ K \subseteq L
         /\ IsFiniteSet(K)
         /\ Cardinality(K) \in Nat
         /\ Cardinality(L) \in Nat
         /\ Cardinality(K) = IF n < Cardinality(L) THEN Cardinality(L) - n ELSE 0
         /\ \A i \in L \ K, j \in K : s[i] >= s[j]
<1>1. /\ K \subseteq L
      /\ Cardinality(K) = IF n < Cardinality(L) THEN Cardinality(L) - n ELSE 0
      /\ \A i \in L \ K, j \in K : s[i] >= s[j]
  BY DEF Rests
<1> QED
  BY <1>1, SizeSubset

(***************************************************************************)
(* A row leaves the list: at most one row comes up from behind the offset. *)
(***************************************************************************)
LEMMA RemoveRow ==
  ASSUME NEW L, IsFiniteSet(L), NEW s, \A j \in L : s[j] \in Nat,
         NEW n \in Nat, NEW i \in L, NEW K1 \in Rests(L \ {i}, s, n)
  PROVE  \E K \in Rests(L, s, n) :
           K1 \subseteq K /\ IsFiniteSet(K \ K1) /\ Cardinality(K \ K1) <= 1
<1>1. /\ IsFiniteSet(L \ {i})
      /\ Cardinality(L) \in Nat
      /\ Cardinality(L \ {i}) = Cardinality(L) - 1
  BY FS_RemoveElement, FS_CardinalityType
<1>2. /\ K1 \subseteq L \ {i}
      /\ IsFiniteSet(K1)
      /\ Cardinality(K1) \in Nat
      /\ Cardinality(K1) = IF n < Cardinality(L) - 1 THEN Cardinality(L) - 1 - n ELSE 0
      /\ \A x \in (L \ {i}) \ K1, j \in K1 : s[x] >= s[j]
  BY <1>1, RestSize
<1>3. CASE Cardinality(L) <= n
  <2>1. K1 = {}
    BY <1>1, <1>2, <1>3, FS_EmptySet
  <2>2. {} \in Rests(L, s, n)
    BY <1>1, <1>3, FS_EmptySet DEF Rests
  <2> QED
    BY <2>1, <2>2, SizeAtMostOne
<1>4. CASE n < Cardinality(L)
  <2>1. PICK d \in L \ K1 : \A x \in L \ K1 : s[x] >= s[d]
    <3>1. L \ K1 # {}
      BY <1>2
    <3>2. \A x \in L \ K1 : s[x] \in Nat
      OBVIOUS
    <3> QED
      BY <3>1, <3>2, Oldest
  <2> DEFINE K == K1 \cup {d}
  <2>2. Cardinality(K) = Cardinality(L) - n
    <3>1. Cardinality(K1) = Cardinality(L) - 1 - n
      BY <1>1, <1>2, <1>4
    <3>2. Cardinality(K) = Cardinality(K1) + 1
      BY <1>2, <2>1, FS_AddElement
    <3> QED
      BY <1>1, <3>1, <3>2
  <2>3. ASSUME NEW x \in L \ K, NEW j \in K PROVE s[x] >= s[j]
    <3>1. x \in L \ K1 /\ s[x] >= s[d]
      BY <2>1
    <3>2. CASE j = d
      BY <3>1, <3>2
    <3>3. CASE j \in K1 /\ x # i
      BY <1>2, <3>1, <3>3
    <3>4. CASE j \in K1 /\ x = i
      <4>1. d \in (L \ {i}) \ K1
        BY <2>1, <3>4
      <4>2. s[d] >= s[j]
        BY <1>2, <3>4, <4>1
      <4>3. s[x] \in Nat /\ s[d] \in Nat /\ s[j] \in Nat
        BY <1>2, <3>1, <3>4, <4>1
      <4> QED
        BY <3>1, <4>2, <4>3
    <3> QED
      BY <3>2, <3>3, <3>4
  <2>4. K \in Rests(L, s, n)
    BY <1>2, <1>4, <2>2, <2>3 DEF Rests
  <2>5. K \ K1 \subseteq {d}
    OBVIOUS
  <2> QED
    BY <2>4, <2>5, SizeAtMostOne
<1> QED
  BY <1>1, <1>3, <1>4

(***************************************************************************)
(* A row joins the list: at most one row goes behind the offset.           *)
(***************************************************************************)
LEMMA AddRow ==
  ASSUME NEW L, IsFiniteSet(L), NEW s, NEW B \in Nat,
         NEW n \in Nat, NEW i, i \notin L, \A j \in L \cup {i} : s[j] \in 0 .. B,
         NEW K1 \in Rests(L \cup {i}, s, n)
  PROVE  \E K \in Rests(L, s, n) :
           K \subseteq K1 /\ IsFiniteSet(K1 \ K) /\ Cardinality(K1 \ K) <= 1
<1>1. /\ IsFiniteSet(L \cup {i})
      /\ Cardinality(L) \in Nat
      /\ Cardinality(L \cup {i}) = Cardinality(L) + 1
  BY FS_AddElement, FS_CardinalityType
<1>2. /\ K1 \subseteq L \cup {i}
      /\ IsFiniteSet(K1)
      /\ Cardinality(K1) \in Nat
      /\ Cardinality(K1) = IF n < Cardinality(L) + 1 THEN Cardinality(L) + 1 - n ELSE 0
      /\ \A x \in (L \cup {i}) \ K1, j \in K1 : s[x] >= s[j]
  BY <1>1, RestSize
<1>3. ASSUME NEW m \in K1,
             \A x \in L \ (K1 \ {m}), j \in K1 \ {m} : s[x] >= s[j],
             K1 \ {m} \subseteq L
      PROVE  \E K \in Rests(L, s, n) :
               K \subseteq K1 /\ IsFiniteSet(K1 \ K) /\ Cardinality(K1 \ K) <= 1
  <2>1. Cardinality(K1 \ {m}) = Cardinality(K1) - 1
    BY <1>2, FS_RemoveElement
  <2>2. Cardinality(K1) # 0
    BY <1>2, FS_EmptySet
  <2>3. Cardinality(K1 \ {m}) = IF n < Cardinality(L) THEN Cardinality(L) - n ELSE 0
    BY <1>1, <1>2, <2>1, <2>2
  <2>4. K1 \ {m} \in Rests(L, s, n)
    BY <1>3, <2>3 DEF Rests
  <2>5. K1 \ (K1 \ {m}) \subseteq {m} /\ K1 \ {m} \subseteq K1
    OBVIOUS
  <2> QED
    BY <2>4, <2>5, SizeAtMostOne
<1>4. CASE i \in K1
  <2>1. \A x \in L \ (K1 \ {i}), j \in K1 \ {i} : s[x] >= s[j]
    BY <1>2
  <2>2. K1 \ {i} \subseteq L
    BY <1>2
  <2> QED
    BY <1>3, <1>4, <2>1, <2>2
<1>5. CASE K1 = {}
  <2>1. ~(n < Cardinality(L) + 1)
    BY <1>1, <1>2, <1>5, FS_EmptySet
  <2>2. {} \in Rests(L, s, n)
    BY <1>1, <2>1, FS_EmptySet DEF Rests
  <2> QED
    BY <1>5, <2>2, SizeAtMostOne
<1>6. CASE i \notin K1 /\ K1 # {}
  <2>1. PICK m \in K1 : \A x \in K1 : s[m] >= s[x]
    BY <1>2, <1>6, Newest
  <2>2. \A x \in L \ (K1 \ {m}), j \in K1 \ {m} : s[x] >= s[j]
    BY <1>2, <2>1
  <2>3. K1 \ {m} \subseteq L
    BY <1>2, <1>6
  <2> QED
    BY <1>3, <2>2, <2>3
<1> QED
  BY <1>4, <1>5, <1>6

(***************************************************************************)
(* One change of the list: row i leaves it, joins it, or moves.            *)
(***************************************************************************)
LEMMA ChangedRests ==
  ASSUME NEW L, IsFiniteSet(L), NEW s, NEW t, NEW B \in Nat, NEW n \in Nat,
         NEW i, NEW in, in \subseteq {i},
         \A j \in L : s[j] \in 0 .. B,
         \A j \in (L \ {i}) \cup in : t[j] \in 0 .. B,
         \A j \in L \ {i} : t[j] = s[j],
         NEW K1 \in Rests((L \ {i}) \cup in, t, n)
  PROVE  \E K \in Rests(L, s, n) :
           /\ IsFiniteSet(K \ K1)
           /\ IsFiniteSet(K1 \ K)
           /\ Cardinality(K \ K1) <= Cardinality({i} \cap L)
           /\ Cardinality(K1 \ K) <= Cardinality(in)
<1> DEFINE M == L \ {i}
<1>0. IsFiniteSet(M)
  BY FS_Difference
<1>1. PICK K2 \in Rests(M, t, n) :
        /\ K2 \subseteq K1
        /\ IsFiniteSet(K1 \ K2)
        /\ Cardinality(K1 \ K2) <= Cardinality(in)
  <2>1. CASE in = {}
    <3>1. K1 \in Rests(M, t, n)
      BY <2>1
    <3>2. K1 \ K1 = {} /\ IsFiniteSet({}) /\ Cardinality({}) = 0
      BY FS_EmptySet
    <3>3. IsFiniteSet(K1 \ K1) /\ Cardinality(K1 \ K1) <= Cardinality(in)
      BY <2>1, <3>2
    <3> QED
      BY <3>1, <3>3
  <2>2. CASE in = {i}
    <3>1. Cardinality(in) = 1
      BY <2>2, FS_Singleton
    <3>2. i \notin M /\ \A j \in M \cup {i} : t[j] \in 0 .. B
      BY <2>2
    <3>3. K1 \in Rests(M \cup {i}, t, n)
      BY <2>2
    <3> HIDE DEF M
    <3>4. \E K \in Rests(M, t, n) :
            K \subseteq K1 /\ IsFiniteSet(K1 \ K) /\ Cardinality(K1 \ K) <= 1
      BY <1>0, <3>2, <3>3, AddRow, SMTT(30)
    <3> QED
      BY <3>1, <3>4
  <2> QED
    BY <2>1, <2>2
<1>2. K2 \in Rests(M, s, n)
  BY DEF Rests
<1>3. PICK K \in Rests(L, s, n) :
        /\ K2 \subseteq K
        /\ IsFiniteSet(K \ K2)
        /\ Cardinality(K \ K2) <= Cardinality({i} \cap L)
  <2>1. CASE i \notin L
    <3>1. M = L /\ {i} \cap L = {}
      BY <2>1
    <3>2. K2 \ K2 = {} /\ IsFiniteSet({}) /\ Cardinality({}) = 0
      BY FS_EmptySet
    <3>3. IsFiniteSet(K2 \ K2) /\ Cardinality(K2 \ K2) <= Cardinality({i} \cap L)
      BY <3>1, <3>2
    <3> QED
      BY <1>2, <3>1, <3>3
  <2>2. CASE i \in L
    <3>1. {i} \cap L = {i}
      BY <2>2
    <3>2. Cardinality({i} \cap L) = 1
      BY <3>1, FS_Singleton
    <3>3. \A j \in L : s[j] \in Nat
      OBVIOUS
    <3>4. \E K \in Rests(L, s, n) :
            K2 \subseteq K /\ IsFiniteSet(K \ K2) /\ Cardinality(K \ K2) <= 1
      BY <1>2, <2>2, <3>3, RemoveRow
    <3> QED
      BY <3>2, <3>4
  <2> QED
    BY <2>1, <2>2
<1>4. K \ K1 \subseteq K \ K2 /\ K1 \ K \subseteq K1 \ K2
  BY <1>1, <1>3
<1>5. /\ IsFiniteSet(K \ K1) /\ Cardinality(K \ K1) <= Cardinality(K \ K2)
      /\ IsFiniteSet(K1 \ K) /\ Cardinality(K1 \ K) <= Cardinality(K1 \ K2)
      /\ Cardinality(K \ K1) \in Nat /\ Cardinality(K \ K2) \in Nat
      /\ Cardinality(K1 \ K) \in Nat /\ Cardinality(K1 \ K2) \in Nat
  BY <1>1, <1>3, <1>4, SizeSubset
<1>6. Cardinality(in) \in Nat /\ Cardinality({i} \cap L) \in Nat
  BY SizeAtMostOne
<1>7. /\ Cardinality(K \ K1) <= Cardinality({i} \cap L)
      /\ Cardinality(K1 \ K) <= Cardinality(in)
  BY <1>1, <1>3, <1>5, <1>6
<1> QED
  BY <1>5, <1>7

-----------------------------------------------------------------------------
(***************************************************************************)
(* The minimum of two numbers, as Prefixes uses it.                        *)
(***************************************************************************)
LEMMA MinOfTwo ==
  ASSUME NEW a \in Nat, NEW b \in Nat
  PROVE  Min({a, b}) = IF a < b THEN a ELSE b
<1>1. \E x \in {a, b} : \A y \in {a, b} : x <= y
  OBVIOUS
<1>2. /\ Min({a, b}) \in {a, b}
      /\ \A y \in {a, b} : Min({a, b}) <= y
  BY <1>1 DEF Min
<1> QED
  BY <1>2

(***************************************************************************)
(* What is not among the first n rows is a rest.                           *)
(***************************************************************************)
LEMMA PrefixLeavesRest ==
  ASSUME IsFiniteSet(listed), NEW n \in Nat, NEW F \in Prefixes(n)
  PROVE  F \subseteq listed /\ listed \ F \in Rests(listed, stamp, n)
<1>1. /\ F \subseteq listed
      /\ Cardinality(F) = Min({n, Cardinality(listed)})
      /\ \A i \in F, j \in listed \ F : stamp[i] >= stamp[j]
  BY DEF Prefixes
<1>2. /\ Cardinality(listed) \in Nat
      /\ Cardinality(listed \ F) = Cardinality(listed) - Cardinality(F)
  BY <1>1, SizeSubset
<1>3. Cardinality(F) = IF n < Cardinality(listed) THEN n ELSE Cardinality(listed)
  BY <1>1, <1>2, MinOfTwo
<1>4. Cardinality(listed \ F)
        = IF n < Cardinality(listed) THEN Cardinality(listed) - n ELSE 0
  BY <1>2, <1>3
<1>5. \A i \in listed \ (listed \ F), j \in listed \ F : stamp[i] >= stamp[j]
  BY <1>1
<1> QED
  BY <1>1, <1>4, <1>5 DEF Rests

(***************************************************************************)
(* A page is what one rest has and the next has not.                       *)
(***************************************************************************)
LEMMA PageBetweenRests ==
  ASSUME IsFiniteSet(listed), NEW limit \in Nat, NEW from \in Nat,
         NEW P \in Page(limit, from)
  PROVE  \E K0 \in Rests(listed, stamp, from), K1 \in Rests(listed, stamp, from + limit) :
           K1 \subseteq K0 /\ P = K0 \ K1
<1>1. PICK p \in Prefixes(from) \X Prefixes(from + limit) :
        p[1] \subseteq p[2] /\ P = p[2] \ p[1]
  BY DEF Page
<1>2. /\ p[1] \in Prefixes(from)
      /\ p[2] \in Prefixes(from + limit)
  OBVIOUS
<1>3. from + limit \in Nat
  OBVIOUS
<1>4. /\ p[1] \subseteq listed /\ listed \ p[1] \in Rests(listed, stamp, from)
      /\ p[2] \subseteq listed /\ listed \ p[2] \in Rests(listed, stamp, from + limit)
  BY <1>2, <1>3, PrefixLeavesRest
<1>5. /\ listed \ p[2] \subseteq listed \ p[1]
      /\ P = (listed \ p[1]) \ (listed \ p[2])
  BY <1>1, <1>4
<1> QED
  BY <1>4, <1>5

(***************************************************************************)
(* Whatever order the database takes for rows of the same time on the next *)
(* page: a row it puts before the offset then and did not put there now    *)
(* has the time of a row of this page.                                     *)
(***************************************************************************)
LEMMA PageTies ==
  ASSUME NEW L, IsFiniteSet(L), NEW s, \A j \in L : s[j] \in Nat,
         NEW n \in Nat, NEW m \in Nat, n < m,
         NEW K0 \in Rests(L, s, n), NEW K1 \in Rests(L, s, m), K1 \subseteq K0,
         NEW K2 \in Rests(L, s, m), NEW x \in K1 \ K2
  PROVE  \E p \in K0 \ K1 : s[p] = s[x]
<1>1. /\ K0 \subseteq L /\ IsFiniteSet(K0) /\ Cardinality(K0) \in Nat
      /\ Cardinality(L) \in Nat
      /\ Cardinality(K0) = IF n < Cardinality(L) THEN Cardinality(L) - n ELSE 0
      /\ \A i \in L \ K0, j \in K0 : s[i] >= s[j]
  BY RestSize
<1>2. /\ K1 \subseteq L /\ IsFiniteSet(K1) /\ Cardinality(K1) \in Nat
      /\ Cardinality(K1) = IF m < Cardinality(L) THEN Cardinality(L) - m ELSE 0
      /\ \A i \in L \ K1, j \in K1 : s[i] >= s[j]
  BY RestSize
<1>3. /\ K2 \subseteq L /\ IsFiniteSet(K2)
      /\ Cardinality(K2) = IF m < Cardinality(L) THEN Cardinality(L) - m ELSE 0
      /\ \A i \in L \ K2, j \in K2 : s[i] >= s[j]
  BY RestSize
<1>4. PICK y \in K2 : y \notin K1
  <2>1. ~(K2 \subseteq K1)
    BY <1>2, <1>3, SizeSubset
  <2> QED
    BY <2>1
<1>5. s[x] \in Nat /\ s[y] \in Nat /\ s[x] >= s[y] /\ s[y] >= s[x]
  BY <1>2, <1>3, <1>4
<1>6. CASE y \in K0
  BY <1>4, <1>5, <1>6
<1>7. CASE y \notin K0
  <2>1. Cardinality(K1) # 0
    BY <1>2, FS_EmptySet
  <2>2. Cardinality(K0) # Cardinality(K1)
    BY <1>1, <1>2, <2>1
  <2>3. PICK p \in K0 : p \notin K1
    <3>1. K0 # K1
      BY <2>2
    <3> QED
      BY <3>1
  <2>4. /\ s[p] \in Nat
        /\ s[y] >= s[p]
        /\ s[p] >= s[x]
    BY <1>1, <1>2, <1>3, <1>4, <1>7, <2>3
  <2> QED
    BY <1>5, <2>3, <2>4
<1> QED
  BY <1>6, <1>7

(***************************************************************************)
(* A page that is not full is the last: nothing is left behind it.         *)
(***************************************************************************)
LEMMA ShortPageIsLast ==
  ASSUME NEW L, IsFiniteSet(L), NEW s, NEW n \in Nat, NEW l \in Nat,
         NEW K0 \in Rests(L, s, n), NEW K1 \in Rests(L, s, n + l), K1 \subseteq K0
  PROVE  /\ Cardinality(K0 \ K1) \in Nat
         /\ Cardinality(K0 \ K1) <= l
         /\ Cardinality(K0 \ K1) < l => K1 = {}
<1>1. /\ IsFiniteSet(K0) /\ Cardinality(K0) \in Nat
      /\ Cardinality(L) \in Nat
      /\ Cardinality(K0) = IF n < Cardinality(L) THEN Cardinality(L) - n ELSE 0
  BY RestSize
<1>2. /\ IsFiniteSet(K1) /\ Cardinality(K1) \in Nat
      /\ Cardinality(K1) = IF n + l < Cardinality(L) THEN Cardinality(L) - (n + l) ELSE 0
  BY RestSize
<1>3. /\ Cardinality(K0 \ K1) = Cardinality(K0) - Cardinality(K1)
      /\ Cardinality(K1) <= Cardinality(K0)
  BY <1>1, SizeSubset
<1>4. /\ Cardinality(K0 \ K1) \in Nat
      /\ Cardinality(K0 \ K1) <= l
      /\ Cardinality(K0 \ K1) < l => Cardinality(K1) = 0
  BY <1>1, <1>2, <1>3
<1> QED
  BY <1>2, <1>4, FS_EmptySet

-----------------------------------------------------------------------------
(***************************************************************************)
(* Two rows of different times had different stamps at first.              *)
(***************************************************************************)
LEMMA FirstStampsDiffer ==
  ASSUME NEW i \in FirstRows \ SameTime, NEW j \in FirstRows \ SameTime,
         FirstStamp(i) = FirstStamp(j)
  PROVE  i = j
<1> DEFINE Below(k) == {r \in FirstRows \ SameTime : r <= k}
<1>1. IsFiniteSet(FirstRows) /\ FirstRows \subseteq Nat
  BY PagingAssumption, FS_Subset
<1>2. ASSUME NEW a \in FirstRows \ SameTime, NEW b \in FirstRows \ SameTime, a < b
      PROVE  FirstStamp(a) # FirstStamp(b)
  <2>1. IsFiniteSet(Below(b))
    BY <1>1, SizeSubset
  <2>2. Below(a) \subseteq Below(b) /\ b \in Below(b) /\ b \notin Below(a)
    <3>1. a \in Nat /\ b \in Nat /\ \A r \in FirstRows : r \in Nat
      BY <1>1
    <3>2. \A r \in FirstRows : r <= a => r <= b
      BY <1>2, <3>1
    <3>3. b <= b /\ ~(b <= a)
      BY <1>2, <3>1
    <3> QED
      BY <3>2, <3>3
  <2>3. Cardinality(Below(a)) # Cardinality(Below(b))
    <3> HIDE DEF Below
    <3> QED
      BY <2>1, <2>2, SizeSubset
  <2> QED
    BY <2>3 DEF FirstStamp
<1>3. i \in Nat /\ j \in Nat
  BY <1>1
<1>4. ~(i < j) /\ ~(j < i)
  BY <1>2
<1> QED
  BY <1>3, <1>4

(***************************************************************************)
(* Every first row has a stamp.                                            *)
(***************************************************************************)
LEMMA FirstStampType ==
  ASSUME NEW i \in FirstRows
  PROVE  FirstStamp(i) \in 1 .. Cardinality(FirstRows \ SameTime)
<1> DEFINE Below == {r \in FirstRows \ SameTime : r <= i}
<1>1. IsFiniteSet(FirstRows \ SameTime) /\ FirstRows \subseteq Nat
  BY PagingAssumption, FS_Subset
<1>2. \E r \in FirstRows \ SameTime : r <= i
  BY <1>1, PagingAssumption
<1>3. Below # {} /\ Below \subseteq FirstRows \ SameTime
  BY <1>2
<1>4. FirstStamp(i) = Cardinality(Below)
  BY DEF FirstStamp
<1> HIDE DEF Below
<1>5. /\ IsFiniteSet(Below)
      /\ Cardinality(Below) \in Nat
      /\ Cardinality(FirstRows \ SameTime) \in Nat
      /\ Cardinality(Below) <= Cardinality(FirstRows \ SameTime)
  BY <1>1, <1>3, SizeSubset
<1>6. Cardinality(Below) # 0
  BY <1>3, <1>5, FS_EmptySet
<1> QED
  BY <1>4, <1>5, <1>6

(***************************************************************************)
(* The rows that only a tie keeps from counting are no more than the rows  *)
(* inserted in the microsecond of the row before: each of those rows, or   *)
(* the row it is tied with, is one of these.                               *)
(***************************************************************************)
LEMMA TiesBounded ==
  ASSUME NEW S
  PROVE  /\ IsFiniteSet(Tied(S) \ S)
         /\ Cardinality(Tied(S) \ S) \in Nat
         /\ Cardinality(Tied(S) \ S) <= Cardinality(SameTime)
<1> DEFINE Mate(i) == CHOOSE j \in S \cap FirstRows : FirstStamp(j) = FirstStamp(i)
           f == [i \in Tied(S) \ S |-> IF i \in SameTime THEN i ELSE Mate(i)]
<1>1. IsFiniteSet(SameTime)
  BY PagingAssumption, FS_Subset
<1>2. ASSUME NEW i \in Tied(S) \ S
      PROVE  /\ i \in FirstRows
             /\ Mate(i) \in S \cap FirstRows
             /\ FirstStamp(Mate(i)) = FirstStamp(i)
  <2>1. i \in FirstRows /\ \E j \in S \cap FirstRows : FirstStamp(j) = FirstStamp(i)
    BY DEF Tied
  <2> QED
    BY <2>1
<1>3. ASSUME NEW i \in Tied(S) \ S, i \notin SameTime
      PROVE  Mate(i) \in SameTime
  <2>1. Mate(i) # i
    BY <1>2
  <2> QED
    BY <1>2, <1>3, <2>1, FirstStampsDiffer
<1> HIDE DEF Mate
<1>4. f \in [Tied(S) \ S -> SameTime]
  BY <1>3
<1>5. ASSUME NEW i \in Tied(S) \ S, NEW j \in Tied(S) \ S, f[i] = f[j]
      PROVE  i = j
  <2>1. CASE i \in SameTime /\ j \in SameTime
    BY <1>5, <2>1
  <2>2. CASE i \in SameTime /\ j \notin SameTime
    BY <1>2, <1>5, <2>2
  <2>3. CASE i \notin SameTime /\ j \in SameTime
    BY <1>2, <1>5, <2>3
  <2>4. CASE i \notin SameTime /\ j \notin SameTime
    <3>1. Mate(i) = Mate(j)
      BY <1>5, <2>4
    <3>2. /\ FirstStamp(i) = FirstStamp(j)
          /\ i \in FirstRows \ SameTime
          /\ j \in FirstRows \ SameTime
      BY <1>2, <2>4, <3>1
    <3> QED
      BY <3>2, FirstStampsDiffer
  <2> QED
    BY <2>1, <2>2, <2>3, <2>4
<1> HIDE DEF f
<1>6. f \in Injection(Tied(S) \ S, SameTime)
  BY <1>4, <1>5 DEF Injection, IsInjective
<1>7. /\ IsFiniteSet(Tied(S) \ S)
      /\ Cardinality(Tied(S) \ S) <= Cardinality(SameTime)
  BY <1>1, <1>6, FS_Injection
<1> QED
  BY <1>7, FS_CardinalityType

-----------------------------------------------------------------------------
(***************************************************************************)
(* Every set of rows is finite.                                            *)
(***************************************************************************)
LEMMA FiniteState ==
  ASSUME TypeOK
  PROVE  /\ IsFiniteSet(listed) /\ IsFiniteSet(seen) /\ IsFiniteSet(initial)
         /\ IsFiniteSet(Tied(seen)) /\ IsFiniteSet(Given) /\ IsFiniteSet(Ungiven)
<1>1. listed \subseteq Rows /\ seen \subseteq Rows /\ initial \subseteq Rows
  BY DEF TypeOK
<1>2. Tied(seen) \subseteq Rows
  BY PagingAssumption DEF Tied
<1>3. Given \subseteq Rows /\ Ungiven \subseteq Rows
  BY <1>1, <1>2 DEF Given, Ungiven
<1> QED
  BY <1>1, <1>2, <1>3, PagingAssumption, FS_Subset

(***************************************************************************)
(* The first stamps are within the bound of the model.                     *)
(***************************************************************************)
LEMMA MaxStampType == MaxStamp \in Nat /\ Cardinality(FirstRows \ SameTime) \in 0 .. MaxStamp
<1>1. IsFiniteSet(FirstRows)
  BY PagingAssumption, FS_Subset
<1>2. /\ Cardinality(FirstRows) \in Nat
      /\ Cardinality(FirstRows \ SameTime) \in Nat
      /\ Cardinality(FirstRows \ SameTime) <= Cardinality(FirstRows)
  BY <1>1, SizeSubset
<1> QED
  BY <1>2, PagingAssumption DEF MaxStamp

(***************************************************************************)
(* Before the first page everything is behind the offset.                  *)
(***************************************************************************)
LEMMA PagingInit ==
  ASSUME Init
  PROVE  PagingInv
<1>1. /\ table \in Tables /\ filtered \in BOOLEAN /\ listed \subseteq FirstRows
      /\ newest = Cardinality(FirstRows \ SameTime)
      /\ walk = "start" /\ offset = 0 /\ seen = {} /\ repeats = 0
      /\ initial = {} /\ left = 0 /\ joined = 0
  BY DEF Init
<1>2. /\ stamp = [i \in Rows |-> stamp[i]]
      /\ \A i \in FirstRows : stamp[i] = FirstStamp(i)
      /\ \A i \in Rows \ FirstRows : stamp[i] = 0
  BY PagingAssumption DEF Init, FirstStamp
<1>3. \A i \in Rows : /\ stamp[i] \in 0 .. newest
                      /\ stamp[i] > 0 <=> i \in FirstRows
  BY <1>1, <1>2, FirstStampType, MaxStampType
<1>4. TypeOK
  <2>1. newest \in 0 .. MaxStamp /\ MaxStamp \in Nat
    BY <1>1, MaxStampType
  <2>2. stamp \in [Rows -> 0 .. MaxStamp]
    <3>1. \A i \in Rows : stamp[i] \in 0 .. MaxStamp
      BY <1>3, <2>1
    <3> QED
      BY <1>2, <3>1
  <2>3. listed \subseteq {i \in Rows : stamp[i] > 0}
    BY <1>1, <1>3, PagingAssumption
  <2> QED
    BY <1>1, <2>1, <2>2, <2>3, PagingAssumption DEF TypeOK
<1>5. StampInv
  <2>1. \A i \in Rows : stamp[i] <= newest
    BY <1>1, <1>3, MaxStampType
  <2> QED
    BY <1>2, <1>3, <2>1 DEF StampInv
<1>6. OffsetInv
  <2>1. IsFiniteSet(listed)
    BY <1>4, FiniteState
  <2>2. ASSUME NEW K \in Rests(listed, stamp, 0) PROVE K = listed
    <3>1. /\ K \subseteq listed /\ Cardinality(listed) \in Nat
          /\ Cardinality(K) = IF 0 < Cardinality(listed) THEN Cardinality(listed) - 0 ELSE 0
      BY <2>1, RestSize
    <3>2. Cardinality(K) = Cardinality(listed)
      BY <3>1
    <3> QED
      BY <2>1, <3>1, <3>2, SizeSubset
  <2>3. Ungiven \ listed = {}
    BY <1>1 DEF Ungiven
  <2>4. ASSUME NEW K \in Rests(listed, stamp, 0)
        PROVE  /\ Cardinality(Ungiven \ K) <= left
               /\ 0 <= joined + Cardinality(Given \ K)
    <3>1. Cardinality(Ungiven \ K) = 0
      BY <2>2, <2>3, FS_EmptySet
    <3>2. IsFiniteSet(Given)
      BY <1>4, FiniteState
    <3>3. Cardinality(Given \ K) \in Nat
      BY <3>2, SizeSubset
    <3> QED
      BY <1>1, <3>1, <3>3
  <2>5. Cardinality(seen) = 0
    BY <1>1, FS_EmptySet
  <2> QED
    BY <1>1, <2>4, <2>5 DEF OffsetInv
<1>7. MissedBounded
  BY <1>1 DEF MissedBounded
<1>8. RepeatsBounded
  <2>1. IsFiniteSet(SameTime)
    BY PagingAssumption, FS_Subset
  <2>2. Cardinality(SameTime) \in Nat
    BY <2>1, FS_CardinalityType
  <2> QED
    BY <1>1, <2>2 DEF RepeatsBounded
<1> QED
  BY <1>4, <1>5, <1>6, <1>7, <1>8 DEF PagingInv

-----------------------------------------------------------------------------
(***************************************************************************)
(* Every list handler reads a page of at least one row and hands it out.   *)
(***************************************************************************)
LEMMA ListsReceive ==
  ASSUME NEW asked \in Asked,
         ListJobs(asked) \/ ListWorkers(asked) \/ ListDeadLetters(asked)
  PROVE  \E limit \in Nat \ {0} : \E page \in Page(limit, offset) :
           walk # "ended" /\ Receive(page, limit)
<1>1. EffectiveLimit(asked) \in Nat \ {0}
  BY PagingAssumption DEF EffectiveLimit
<1>2. /\ walk # "ended"
      /\ \E page \in Page(EffectiveLimit(asked), offset) : Receive(page, EffectiveLimit(asked))
  BY DEF ListJobs, ListWorkers, ListDeadLetters, JobsList, WorkersList, DeadLettersList
<1> QED
  BY <1>1, <1>2

(***************************************************************************)
(* A page keeps the walk in step with the list.                            *)
(***************************************************************************)
LEMMA ReceiveStep ==
  ASSUME PagingInv, NEW limit \in Nat \ {0}, NEW page \in Page(limit, offset),
         walk # "ended", Receive(page, limit)
  PROVE  PagingInv'
<1>1. TypeOK /\ StampInv /\ OffsetInv
  BY DEF PagingInv
<1>2. /\ IsFiniteSet(listed) /\ IsFiniteSet(seen)
      /\ IsFiniteSet(Given) /\ IsFiniteSet(Ungiven)
      /\ offset \in Nat /\ offset + limit \in Nat
      /\ repeats \in Nat /\ left \in Nat /\ joined \in Nat
  BY <1>1, FiniteState, PagingAssumption DEF TypeOK
<1>3. PICK K0 \in Rests(listed, stamp, offset), K1 \in Rests(listed, stamp, offset + limit) :
        K1 \subseteq K0 /\ page = K0 \ K1
  BY <1>2, PageBetweenRests
<1>4. /\ K0 \subseteq listed /\ K1 \subseteq listed /\ IsFiniteSet(K0) /\ IsFiniteSet(K1)
      /\ page \subseteq listed /\ IsFiniteSet(page)
  <2>1. /\ K0 \subseteq listed /\ IsFiniteSet(K0)
        /\ K1 \subseteq listed /\ IsFiniteSet(K1)
    BY <1>2, RestSize
  <2>2. page \subseteq K0
    BY <1>3
  <2> QED
    BY <2>1, <2>2, SizeSubset
<1>5. /\ Cardinality(page) \in Nat
      /\ Cardinality(page) <= limit
      /\ Cardinality(page) < limit => K1 = {}
  BY <1>2, <1>3, ShortPageIsLast
<1>6. /\ walk' = IF Cardinality(page) < limit THEN "ended" ELSE "going"
      /\ offset' = offset + limit
      /\ seen' = seen \cup page
      /\ repeats' = repeats + Cardinality(seen \cap page)
      /\ initial' = IF walk = "start" THEN listed ELSE initial
      /\ UNCHANGED <<table, filtered, stamp, listed, newest, left, joined>>
  BY DEF Receive
<1>7. /\ repeats + Cardinality(seen) = offset
      /\ Cardinality(Ungiven \ K0) <= left
      /\ offset <= joined + Cardinality(Given \ K0)
  BY <1>1, <1>3 DEF OffsetInv
<1>8. TypeOK'
  <2>1. IsFiniteSet(seen \cap page)
    BY <1>2, SizeSubset
  <2>2. repeats' \in Nat
    BY <1>2, <1>6, <2>1, FS_CardinalityType
  <2>3. listed \subseteq Rows /\ seen' \subseteq Rows /\ initial' \subseteq Rows
    BY <1>1, <1>4, <1>6 DEF TypeOK
  <2>4. walk' \in {"start", "going", "ended"} /\ offset' \in Nat
    BY <1>2, <1>6
  <2> QED
    BY <1>1, <1>6, <2>2, <2>3, <2>4 DEF TypeOK
<1>9. StampInv'
  BY <1>1, <1>6 DEF StampInv
<1>10. repeats' + Cardinality(seen') = offset + Cardinality(page)
  <2>1. Cardinality(seen') = Cardinality(seen) + Cardinality(page) - Cardinality(seen \cap page)
    BY <1>2, <1>4, <1>6, FS_Union
  <2>2. IsFiniteSet(seen \cap page)
    BY <1>2, SizeSubset
  <2>3. Cardinality(seen \cap page) \in Nat /\ Cardinality(seen) \in Nat
    BY <1>2, <2>2, FS_CardinalityType
  <2> QED
    BY <1>2, <1>5, <1>6, <1>7, <2>1, <2>3
<1>11. /\ seen \subseteq seen' /\ page \subseteq seen'
       /\ Given' = seen' \cup Tied(seen') /\ Tied(seen) \subseteq Tied(seen')
       /\ Given \subseteq Given'
       /\ Ungiven' = (IF walk = "start" THEN listed ELSE initial) \ Given'
  BY <1>6 DEF Given, Ungiven, Tied
<1>12. /\ IsFiniteSet(Given') /\ IsFiniteSet(Ungiven') /\ IsFiniteSet(seen')
       /\ Cardinality(Given') \in Nat /\ Cardinality(Ungiven') \in Nat
  <2>1. /\ Tied(seen') \subseteq Rows /\ seen' \subseteq Rows
        /\ (IF walk = "start" THEN listed ELSE initial) \subseteq Rows
    BY <1>1, <1>8, PagingAssumption DEF Tied, TypeOK
  <2>2. Given' \subseteq Rows /\ Ungiven' \subseteq Rows
    BY <1>11, <2>1
  <2> QED
    BY <2>1, <2>2, PagingAssumption, SizeSubset
<1>13. ASSUME NEW K2 \in Rests(listed, stamp, offset + limit)
       PROVE  K1 \ K2 \subseteq Given'
  <2>1. SUFFICES ASSUME NEW x \in K1 \ K2
                 PROVE  x \in Given'
    OBVIOUS
  <2>2. /\ \A j \in listed : stamp[j] \in Nat
        /\ \A j \in listed : stamp[j] > 0 /\ j \in Rows
    BY <1>1, MaxStampType DEF TypeOK
  <2>3. PICK p \in K0 \ K1 : stamp[p] = stamp[x]
    <3>1. /\ IsFiniteSet(listed) /\ K1 \subseteq K0
          /\ offset \in Nat /\ offset + limit \in Nat /\ offset < offset + limit
      BY <1>2, <1>3
    <3>2. \A j \in listed : stamp[j] \in Nat
      BY <2>2
    <3>3. \E p \in K0 \ K1 : stamp[p] = stamp[x]
      BY <3>1, <3>2, PageTies
    <3> QED
      BY <3>3
  <2>4. p \in Rows /\ x \in Rows /\ stamp[x] > 0 /\ p \in seen' /\ p # x
    BY <1>3, <1>4, <1>11, <2>2, <2>3
  <2>5. p \in FirstRows /\ x \in FirstRows /\ FirstStamp(p) = FirstStamp(x)
    BY <1>1, <2>3, <2>4 DEF StampInv
  <2> QED
    BY <1>11, <2>4, <2>5 DEF Tied
<1>14. ASSUME NEW K2 \in Rests(listed, stamp, offset + limit)
       PROVE  Cardinality(Ungiven' \ K2) <= left
  <2>1. Ungiven' \ K2 \subseteq Ungiven \ K0
    BY <1>3, <1>11, <1>13 DEF Ungiven
  <2>2. IsFiniteSet(Ungiven \ K0)
    BY <1>2, SizeSubset
  <2>3. /\ Cardinality(Ungiven' \ K2) \in Nat
        /\ Cardinality(Ungiven \ K0) \in Nat
        /\ Cardinality(Ungiven' \ K2) <= Cardinality(Ungiven \ K0)
    BY <2>1, <2>2, SizeSubset
  <2> QED
    BY <1>2, <1>7, <2>3
<1>15. ASSUME NEW K2 \in Rests(listed, stamp, offset + limit)
       PROVE  offset + Cardinality(page) <= joined + Cardinality(Given' \ K2)
  <2> DEFINE Both == Given' \ (K1 \cup K2)
  <2>1. /\ IsFiniteSet(K2)
        /\ IsFiniteSet(Given \ K0) /\ IsFiniteSet(Given' \ K1) /\ IsFiniteSet(Both)
        /\ IsFiniteSet(K1 \ K2) /\ IsFiniteSet(K2 \ K1)
    BY <1>2, <1>4, <1>12, RestSize, FS_Difference
  <2>2. /\ Cardinality(Given \ K0) \in Nat
        /\ Cardinality((Given \ K0) \cup page) = Cardinality(Given \ K0) + Cardinality(page)
        /\ IsFiniteSet((Given \ K0) \cup page)
    <3>1. (Given \ K0) \cap page = {}
      BY <1>3
    <3> QED
      BY <1>4, <2>1, <3>1, SizeDisjoint
  <2>3. Cardinality((Given \ K0) \cup page) <= Cardinality(Given' \ K1)
    <3>1. (Given \ K0) \cup page \subseteq Given' \ K1
      BY <1>3, <1>11
    <3> QED
      BY <2>1, <3>1, SizeSubset
  <2>4. Cardinality(K1 \ K2) = Cardinality(K2 \ K1)
    <3>1. Cardinality(K1) = Cardinality(K2)
      BY DEF Rests
    <3>2. /\ Cardinality(K1 \ K2) = Cardinality(K1) - Cardinality(K1 \cap K2)
          /\ Cardinality(K2 \ K1) = Cardinality(K2) - Cardinality(K2 \cap K1)
      BY <1>4, <2>1, FS_Difference
    <3>3. K1 \cap K2 = K2 \cap K1
      OBVIOUS
    <3> QED
      BY <3>1, <3>2, <3>3
  <2>5. /\ Cardinality(Given' \ K1) \in Nat
        /\ Cardinality(Given' \ K1) <= Cardinality(Both) + Cardinality(K2 \ K1)
    <3>1. Given' \ K1 \subseteq Both \cup (K2 \ K1)
      OBVIOUS
    <3> QED
      BY <2>1, <3>1, SizeCover
  <2>6. /\ Cardinality(Both) \in Nat
        /\ Cardinality(K1 \ K2) \in Nat
        /\ Cardinality(Given' \ K2) = Cardinality(Both) + Cardinality(K1 \ K2)
    <3>1. Both \cap (K1 \ K2) = {}
      OBVIOUS
    <3>2. Given' \ K2 = Both \cup (K1 \ K2)
      BY <1>13
    <3> QED
      BY <2>1, <3>1, <3>2, SizeDisjoint
  <2> HIDE DEF Both
  <2> QED
    BY <1>2, <1>5, <1>7, <2>2, <2>3, <2>4, <2>5, <2>6
<1>16. OffsetInv'
  <2>1. ASSUME walk' # "ended"
        PROVE  repeats' + Cardinality(seen') = offset' /\ Cardinality(page) = limit
    BY <1>2, <1>5, <1>6, <1>10, <2>1
  <2>2. ASSUME walk' # "ended", NEW K2 \in Rests(listed', stamp', offset')
        PROVE  /\ Cardinality(Ungiven' \ K2) <= left'
               /\ offset' <= joined' + Cardinality(Given' \ K2)
    <3>1. K2 \in Rests(listed, stamp, offset + limit)
      BY <1>6
    <3>2. Cardinality(Ungiven' \ K2) <= left
      BY <1>14, <3>1
    <3>3. offset + Cardinality(page) <= joined + Cardinality(Given' \ K2)
      BY <1>15, <3>1
    <3> QED
      BY <1>6, <2>1, <2>2, <3>2, <3>3
  <2> QED
    BY <2>1, <2>2 DEF OffsetInv
<1>17. /\ IsFiniteSet(Tied(seen') \ seen')
       /\ Cardinality(Tied(seen') \ seen') \in Nat
       /\ Cardinality(Tied(seen') \ seen') <= Cardinality(SameTime)
       /\ Cardinality(SameTime) \in Nat
  BY TiesBounded, PagingAssumption, SizeSubset, FS_Subset
<1>18. MissedBounded'
  <2>1. SUFFICES ASSUME walk' = "ended"
                 PROVE  Cardinality((initial' \cap listed') \ seen')
                          <= left' + Cardinality(SameTime)
    BY DEF MissedBounded
  <2>2. K1 = {}
    BY <1>5, <1>6, <2>1
  <2>3. Cardinality(Ungiven') <= left
    <3>1. Ungiven' \ K1 = Ungiven'
      BY <2>2
    <3> QED
      BY <1>14, <3>1
  <2>4. (initial' \cap listed') \ seen' \subseteq Ungiven' \cup (Tied(seen') \ seen')
    BY <1>6, <1>11
  <2>5. /\ Cardinality((initial' \cap listed') \ seen') \in Nat
        /\ Cardinality((initial' \cap listed') \ seen')
             <= Cardinality(Ungiven') + Cardinality(Tied(seen') \ seen')
    BY <1>12, <1>17, <2>4, SizeCover
  <2> QED
    BY <1>2, <1>6, <1>12, <1>17, <2>3, <2>5
<1>19. RepeatsBounded'
  <2>1. offset + Cardinality(page) <= joined + Cardinality(Given' \ K1)
    BY <1>15
  <2>2. /\ Cardinality(Given' \ K1) \in Nat
        /\ Cardinality(Given' \ K1) <= Cardinality(seen') + Cardinality(Tied(seen') \ seen')
    <3>1. Given' \ K1 \subseteq seen' \cup (Tied(seen') \ seen')
      BY <1>11
    <3> QED
      BY <1>12, <1>17, <3>1, SizeCover
  <2>3. Cardinality(seen') \in Nat
    BY <1>12, FS_CardinalityType
  <2>4. repeats' <= joined + Cardinality(SameTime)
    BY <1>2, <1>5, <1>8, <1>10, <1>17, <2>1, <2>2, <2>3 DEF TypeOK
  <2> QED
    BY <1>6, <2>4 DEF RepeatsBounded
<1> QED
  BY <1>8, <1>9, <1>16, <1>18, <1>19 DEF PagingInv

-----------------------------------------------------------------------------
(***************************************************************************)
(* A change of the table, as the walk meets it: row i leaves the list if   *)
(* it is there, takes a new stamp or keeps its own, and is back if it is   *)
(* in "in".                                                                *)
(***************************************************************************)
Moves(i, newStamp, in) ==
  /\ in \subseteq {i}
  /\ Change(newStamp, {i} \cap listed, in)
  /\ \/ /\ newStamp = stamp
        /\ newest' = newest
        /\ in # {} => stamp[i] > 0
     \/ /\ newStamp = [stamp EXCEPT ![i] = newest + 1]
        /\ newest < MaxStamp
        /\ newest' = newest + 1

(***************************************************************************)
(* Insert, Heartbeat, Leave, Join and Delete are such changes.             *)
(***************************************************************************)
LEMMA ChangesMove ==
  ASSUME TypeOK, NEW i \in Rows,
         Insert(i) \/ Heartbeat(i) \/ Leave(i) \/ Join(i) \/ Delete(i)
  PROVE  \E newStamp, in : Moves(i, newStamp, in)
<1>1. CASE Insert(i)
  <2>1. PICK in \in Matches(i) : Change(Stamped(i, newest + 1), {}, in)
    BY <1>1 DEF Insert
  <2>2. in \subseteq {i}
    BY DEF Matches
  <2>3. i \notin listed
    BY <1>1 DEF Insert, TypeOK
  <2>4. {i} \cap listed = {}
    BY <2>3
  <2>5. Moves(i, Stamped(i, newest + 1), in)
    BY <1>1, <2>1, <2>2, <2>4 DEF Insert, Moves, Stamped
  <2> QED
    BY <2>5
<1>2. CASE Heartbeat(i)
  <2>1. PICK in \in Matches(i) : Change(Stamped(i, newest + 1), {i} \cap listed, in)
    BY <1>2 DEF Heartbeat
  <2>2. in \subseteq {i}
    BY DEF Matches
  <2>3. Moves(i, Stamped(i, newest + 1), in)
    BY <1>2, <2>1, <2>2 DEF Heartbeat, Moves, Stamped
  <2> QED
    BY <2>3
<1>3. CASE Leave(i) \/ Delete(i)
  <2>1. i \in listed /\ Change(stamp, {i}, {}) /\ newest' = newest
    BY <1>3 DEF Leave, Delete
  <2>2. {i} \cap listed = {i}
    BY <2>1
  <2>3. Moves(i, stamp, {})
    BY <2>1, <2>2 DEF Moves
  <2> QED
    BY <2>3
<1>4. CASE Join(i)
  <2>1. i \notin listed /\ stamp[i] > 0 /\ Change(stamp, {}, {i}) /\ newest' = newest
    BY <1>4 DEF Join
  <2>2. {i} \cap listed = {}
    BY <2>1
  <2>3. Moves(i, stamp, {i})
    BY <2>1, <2>2 DEF Moves
  <2> QED
    BY <2>3
<1> QED
  BY <1>1, <1>2, <1>3, <1>4

(***************************************************************************)
(* A change costs the walk at most what left and joined count for it.      *)
(***************************************************************************)
LEMMA MoveStep ==
  ASSUME PagingInv, NEW i \in Rows, NEW newStamp, NEW in, Moves(i, newStamp, in)
  PROVE  PagingInv'
<1>1. TypeOK /\ StampInv /\ OffsetInv /\ RepeatsBounded
  BY DEF PagingInv
<1>2. /\ in \subseteq {i}
      /\ walk = "going"
      /\ left + joined < MaxChanges
      /\ stamp' = newStamp
      /\ listed' = (listed \ ({i} \cap listed)) \cup in
      /\ left' = left + Cardinality({i} \cap listed)
      /\ joined' = joined + Cardinality(in)
      /\ UNCHANGED <<table, filtered, walk, offset, seen, repeats, initial>>
  BY DEF Moves, Change, clientVars
<1>3. /\ left \in Nat /\ joined \in Nat /\ offset \in Nat /\ repeats \in Nat
      /\ newest \in 0 .. MaxStamp /\ MaxStamp \in Nat /\ MaxChanges \in Nat
      /\ IsFiniteSet(listed) /\ IsFiniteSet(Given) /\ IsFiniteSet(Ungiven)
      /\ \A j \in Rows : stamp[j] \in 0 .. MaxStamp
      /\ listed \subseteq Rows
  BY <1>1, FiniteState, MaxStampType, PagingAssumption DEF TypeOK
<1>4. /\ Cardinality(in) \in {0, 1} /\ Cardinality({i} \cap listed) \in {0, 1}
      /\ IsFiniteSet(in) /\ IsFiniteSet({i} \cap listed)
  BY <1>2, SizeAtMostOne
<1>5. /\ \A j \in Rows \ {i} : stamp'[j] = stamp[j]
      /\ stamp' \in [Rows -> 0 .. MaxStamp]
      /\ newest' \in 0 .. MaxStamp
      /\ \/ stamp' = stamp /\ newest' = newest /\ (in # {} => stamp[i] > 0)
         \/ stamp'[i] = newest + 1 /\ newest' = newest + 1
  BY <1>1, <1>2, <1>3 DEF Moves, TypeOK
<1>6. listed' = (listed \ {i}) \cup in
  BY <1>2
<1>7. TypeOK'
  <2>1. listed' \subseteq {j \in Rows : stamp'[j] > 0}
    <3>1. \A j \in listed \ {i} : j \in Rows /\ stamp'[j] > 0
      BY <1>1, <1>5 DEF TypeOK
    <3>2. in # {} => stamp'[i] > 0
      BY <1>3, <1>5
    <3> QED
      BY <1>2, <1>6, <3>1, <3>2
  <2>2. left' \in 0 .. MaxChanges + 1 /\ joined' \in 0 .. MaxChanges + 1
    BY <1>2, <1>3, <1>4
  <2> QED
    BY <1>1, <1>2, <1>5, <2>1, <2>2 DEF TypeOK
<1>8. StampInv'
  <2>1. CASE stamp' = stamp /\ newest' = newest
    BY <1>1, <2>1 DEF StampInv
  <2>2. CASE stamp'[i] = newest + 1 /\ newest' = newest + 1
    <3>1. \A j \in Rows \ {i} : stamp'[j] = stamp[j] /\ stamp[j] <= newest
      BY <1>1, <1>5 DEF StampInv
    <3>2. \A j \in Rows \ {i} : stamp'[j] # stamp'[i] /\ stamp'[j] <= newest'
      BY <1>3, <2>2, <3>1
    <3>3. \A j \in Rows : stamp'[j] <= newest'
      BY <1>3, <2>2, <3>2
    <3>4. ASSUME NEW j \in Rows, NEW k \in Rows,
                 j # k, stamp'[j] = stamp'[k], stamp'[j] > 0
          PROVE  j \in FirstRows /\ k \in FirstRows /\ FirstStamp(j) = FirstStamp(k)
      <4>1. j # i /\ k # i
        BY <3>2, <3>4
      <4>2. stamp[j] = stamp[k] /\ stamp[j] > 0
        BY <3>1, <3>4, <4>1
      <4> QED
        BY <1>1, <3>4, <4>2 DEF StampInv
    <3> QED
      BY <3>3, <3>4 DEF StampInv
  <2> QED
    BY <1>5, <2>1, <2>2
<1>9. Given' = Given /\ Ungiven' = Ungiven
  BY <1>2 DEF Given, Ungiven
<1>10. ASSUME NEW K1 \in Rests(listed', stamp', offset)
       PROVE  /\ Cardinality(Ungiven \ K1) <= left'
              /\ offset <= joined' + Cardinality(Given \ K1)
  <2>1. K1 \in Rests((listed \ {i}) \cup in, stamp', offset)
    BY <1>6
  <2>2. /\ \A j \in listed : stamp[j] \in 0 .. MaxStamp
        /\ \A j \in (listed \ {i}) \cup in : stamp'[j] \in 0 .. MaxStamp
        /\ \A j \in listed \ {i} : stamp'[j] = stamp[j]
    BY <1>2, <1>3, <1>5
  <2>3. PICK K \in Rests(listed, stamp, offset) :
          /\ IsFiniteSet(K \ K1)
          /\ IsFiniteSet(K1 \ K)
          /\ Cardinality(K \ K1) <= Cardinality({i} \cap listed)
          /\ Cardinality(K1 \ K) <= Cardinality(in)
    BY <1>2, <1>3, <2>1, <2>2, ChangedRests
  <2>4. /\ Cardinality(Ungiven \ K) <= left
        /\ offset <= joined + Cardinality(Given \ K)
    BY <1>1, <1>2 DEF OffsetInv
  <2>5. /\ IsFiniteSet(Ungiven \ K) /\ IsFiniteSet(Given \ K1)
        /\ Cardinality(Ungiven \ K) \in Nat /\ Cardinality(Given \ K1) \in Nat
        /\ Cardinality(K \ K1) \in Nat /\ Cardinality(K1 \ K) \in Nat
    BY <1>3, <2>3, SizeSubset, FS_CardinalityType
  <2>6. /\ Cardinality(Ungiven \ K1) \in Nat
        /\ Cardinality(Ungiven \ K1) <= Cardinality(Ungiven \ K) + Cardinality(K \ K1)
    <3>1. Ungiven \ K1 \subseteq (Ungiven \ K) \cup (K \ K1)
      OBVIOUS
    <3> QED
      BY <2>3, <2>5, <3>1, SizeCover
  <2>7. /\ Cardinality(Given \ K) \in Nat
        /\ Cardinality(Given \ K) <= Cardinality(Given \ K1) + Cardinality(K1 \ K)
    <3>1. Given \ K \subseteq (Given \ K1) \cup (K1 \ K)
      OBVIOUS
    <3> QED
      BY <2>3, <2>5, <3>1, SizeCover
  <2>8. Cardinality(Ungiven \ K1) <= left'
    BY <1>2, <1>3, <1>4, <2>3, <2>4, <2>5, <2>6
  <2>9. offset <= joined' + Cardinality(Given \ K1)
    BY <1>2, <1>3, <1>4, <2>3, <2>4, <2>5, <2>7
  <2> QED
    BY <2>8, <2>9
<1>11. OffsetInv'
  <2>1. repeats' + Cardinality(seen') = offset'
    BY <1>1, <1>2 DEF OffsetInv
  <2>2. ASSUME NEW K1 \in Rests(listed', stamp', offset')
        PROVE  /\ Cardinality(Ungiven' \ K1) <= left'
               /\ offset' <= joined' + Cardinality(Given' \ K1)
    <3>1. K1 \in Rests(listed', stamp', offset)
      BY <1>2
    <3> QED
      BY <1>2, <1>9, <1>10, <3>1
  <2> QED
    BY <2>1, <2>2 DEF OffsetInv
<1>12. MissedBounded'
  BY <1>2 DEF MissedBounded
<1>13. RepeatsBounded'
  <2>1. IsFiniteSet(SameTime)
    BY PagingAssumption, FS_Subset
  <2>2. Cardinality(SameTime) \in Nat
    BY <2>1, FS_CardinalityType
  <2> QED
    BY <1>1, <1>2, <1>3, <1>4, <2>2 DEF RepeatsBounded
<1> QED
  BY <1>7, <1>8, <1>11, <1>12, <1>13 DEF PagingInv

(***************************************************************************)
(* The invariant is inductive.                                             *)
(***************************************************************************)
LEMMA PagingStep ==
  ASSUME PagingInv, [Next]_vars
  PROVE  PagingInv'
<1>1. CASE UNCHANGED vars
  BY <1>1 DEF vars, clientVars, PagingInv, TypeOK, StampInv, OffsetInv, Given, Ungiven,
              MissedBounded, RepeatsBounded
<1>2. ASSUME NEW asked \in Asked,
             ListJobs(asked) \/ ListWorkers(asked) \/ ListDeadLetters(asked)
      PROVE  PagingInv'
  <2>1. PICK limit \in Nat \ {0} : \E page \in Page(limit, offset) :
          walk # "ended" /\ Receive(page, limit)
    BY <1>2, ListsReceive
  <2>2. PICK page \in Page(limit, offset) : walk # "ended" /\ Receive(page, limit)
    BY <2>1
  <2> QED
    BY <2>2, ReceiveStep
<1>3. ASSUME NEW i \in Rows,
             Insert(i) \/ Heartbeat(i) \/ Leave(i) \/ Join(i) \/ Delete(i)
      PROVE  PagingInv'
  <2>1. TypeOK
    BY DEF PagingInv
  <2>2. PICK newStamp, in : Moves(i, newStamp, in)
    BY <1>3, <2>1, ChangesMove
  <2> QED
    BY <2>2, MoveStep
<1> QED
  BY <1>1, <1>2, <1>3 DEF Next

(***************************************************************************)
(* And holds always.                                                       *)
(***************************************************************************)
LEMMA PagingAlways == Spec => []PagingInv
<1>1. Init => PagingInv
  BY PagingInit
<1>2. PagingInv /\ [Next]_vars => PagingInv'
  BY PagingStep
<1> QED
  BY <1>1, <1>2, PTL DEF Spec

(***************************************************************************)
(* A walk over a list and the changes behind its back keep every row of    *)
(* the list stamped and every counter in its range.                        *)
(***************************************************************************)
THEOREM PagingTyped == Spec => []TypeOK
<1>1. PagingInv => TypeOK
  BY DEF PagingInv
<1> QED
  BY <1>1, PagingAlways, PTL

(***************************************************************************)
(* A client that walks GET /jobs, /workers or /dead-letters to the end     *)
(* with LIMIT and OFFSET misses at most one row for each that left the     *)
(* list or moved in it meanwhile, and one for each row with the time of    *)
(* another, whatever order the database gives rows of the same time on     *)
(* each page: rows that are inserted meanwhile hide none.                  *)
(***************************************************************************)
THEOREM WalkMissesFew == Spec => []MissedBounded
<1>1. PagingInv => MissedBounded
  BY DEF PagingInv
<1> QED
  BY <1>1, PagingAlways, PTL

(***************************************************************************)
(* And it is given a row again at most once for each that joined the list  *)
(* or moved in it, and once for each with the time of another.             *)
(***************************************************************************)
THEOREM WalkRepeatsFew == Spec => []RepeatsBounded
<1>1. PagingInv => RepeatsBounded
  BY DEF PagingInv
<1> QED
  BY <1>1, PagingAlways, PTL
=============================================================================
