---- MODULE ReadsProofs ----
(***************************************************************************)
(* Theorems about the reads, for any number of writers, movements, pages   *)
(* and commits between two statements.                                     *)
(*                                                                         *)
(* They are about the sum of a ledger and the order of a page, so the      *)
(* first part is the induction over data these need.  It rests on the      *)
(* least element of a set of naturals (WFMin), since a theorem with an     *)
(* operator parameter cannot be instantiated.                              *)
(***************************************************************************)
EXTENDS Reads, WellFoundedInduction, FunctionTheorems, FiniteSetTheorems,
        SequenceTheorems, TLAPS

LEMMA LeastNumber ==
  ASSUME NEW T \in SUBSET Nat, T # {}
  PROVE  \E n \in T : \A m \in T : n <= m
<1> PICK R : R = OpToRel(<, Nat)
  OBVIOUS
<1>1. IsWellFoundedOn(R, Nat)
  BY NatLessThanWellFounded
<1>2. \A x, y \in Nat : y < x => <<y, x>> \in R
  BY DEF OpToRel
<1>3. PICK x \in T : \A y \in T : ~ (<<y, x>> \in R)
  BY <1>1, WFMin
<1>4. \A y \in T : ~ (y < x)
  BY ONLY <1>2, <1>3, T \in SUBSET Nat
<1> QED BY ONLY <1>4, T \in SUBSET Nat

LEMMA Induct ==
  ASSUME NEW G, 0 \in G, \A n \in Nat : n \in G => n + 1 \in G
  PROVE  \A n \in Nat : n \in G
<1> DEFINE T == {n \in Nat : n \notin G}
<1>1. SUFFICES ASSUME T # {} PROVE FALSE
  OBVIOUS
<1>2. PICK n \in T : \A m \in T : n <= m
  BY <1>1, LeastNumber
<1>3. n # 0 /\ n - 1 \in Nat /\ n - 1 \notin T
  BY <1>2
<1> QED BY <1>2, <1>3

-----------------------------------------------------------------------------
(* Sums                                                                    *)

Chosen(s) == CHOOSE x \in s : TRUE

\* T sums the amounts of a over the subsets of D, the way FoldSeq does.
IsTotal(T, a, D) ==
  T = [s \in SUBSET D |->
         IF s = {} THEN 0 ELSE a[Chosen(s)].amount + T[s \ {Chosen(s)}]]

LEMMA SumUnfolds ==
  ASSUME NEW a
  PROVE  Sum(a) = (CHOOSE T : IsTotal(T, a, DOMAIN a))[DOMAIN a]
BY Zenon DEF Sum, FoldSeq, FoldFunction, FoldFunctionOnSet, MapThenFoldSet,
             IsTotal, Chosen

LEMMA ChosenIn == ASSUME NEW s, s # {} PROVE Chosen(s) \in s
BY DEF Chosen

\* Subsets of D with n elements at most.
Small(D, n) == {s \in SUBSET D : Cardinality(s) <= n}

\* The recursion is well founded: on subsets of any size there is a total.
LEMMA TotalExists ==
  ASSUME NEW a, NEW D, IsFiniteSet(D)
  PROVE  \E T : IsTotal(T, a, D)
<1> DEFINE Sums(T, s) == IF s = {} THEN 0 ELSE a[Chosen(s)].amount + T[s \ {Chosen(s)}]
           G == {n \in Nat : \E T : T = [s \in Small(D, n) |-> Sums(T, s)]}
<1>1. \A s \in SUBSET D : IsFiniteSet(s) /\ Cardinality(s) \in Nat
  BY FS_Subset, FS_CardinalityType
<1>2. 0 \in G
  <2>1. \A s \in Small(D, 0) : s = {}
    BY <1>1, FS_EmptySet DEF Small
  <2>2. [s \in Small(D, 0) |-> 0] = [s \in Small(D, 0) |-> Sums([r \in Small(D, 0) |-> 0], s)]
    BY <2>1
  <2> QED BY <2>2
<1>3. ASSUME NEW n \in Nat, n \in G PROVE n + 1 \in G
  <2>1. PICK T : T = [s \in Small(D, n) |-> Sums(T, s)]
    BY <1>3
  <2> DEFINE U == [s \in Small(D, n + 1) |-> Sums(T, s)]
  <2>2. ASSUME NEW s \in Small(D, n + 1), s # {}
        PROVE  s \ {Chosen(s)} \in Small(D, n) /\ s \ {Chosen(s)} \in Small(D, n + 1)
    <3>1. Cardinality(s \ {Chosen(s)}) = Cardinality(s) - 1
      BY <1>1, <2>2, ChosenIn, FS_RemoveElement DEF Small
    <3> QED BY <1>1, <3>1 DEF Small
  <2>3. \A s \in Small(D, n) : s \in Small(D, n + 1)
    BY <1>1 DEF Small
  <2>4. \A s \in Small(D, n) : U[s] = T[s]
    BY <2>1, <2>3
  <2>5. \A s \in Small(D, n + 1) : Sums(T, s) = Sums(U, s)
    BY <2>2, <2>4
  <2>6. U = [s \in Small(D, n + 1) |-> Sums(T, s)]
    OBVIOUS
  <2> HIDE DEF U, Sums
  <2>7. U = [s \in Small(D, n + 1) |-> Sums(U, s)]
    BY <2>5, <2>6
  <2>8. n + 1 \in Nat /\ \E V : V = [s \in Small(D, n + 1) |-> Sums(V, s)]
    BY <2>7
  <2> QED BY <2>8, Zenon
<1>4. Cardinality(D) \in G
  <2> HIDE DEF G
  <2>1. \A n \in Nat : n \in G
    BY <1>2, <1>3, Induct
  <2> QED BY <2>1, FS_CardinalityType
<1>5. Small(D, Cardinality(D)) = SUBSET D
  BY FS_Subset DEF Small
<1> QED BY <1>4, <1>5 DEF IsTotal

\* Two totals agree on the subsets on which their sequences do.
LEMMA TotalsAgree ==
  ASSUME NEW a, NEW b, NEW D, NEW E, NEW T, NEW U, IsFiniteSet(D),
         IsTotal(T, a, D), IsTotal(U, b, E),
         D \subseteq E, \A i \in D : a[i] = b[i]
  PROVE  \A s \in SUBSET D : T[s] = U[s]
<1> DEFINE G == {n \in Nat : \A s \in SUBSET D : Cardinality(s) = n => T[s] = U[s]}
<1>1. \A s \in SUBSET D : IsFiniteSet(s) /\ Cardinality(s) \in Nat
  BY FS_Subset, FS_CardinalityType
<1>2. 0 \in G
  <2>1. \A s \in SUBSET D : Cardinality(s) = 0 => s = {}
    BY <1>1, FS_EmptySet
  <2>2. T[{}] = 0 /\ U[{}] = 0
    BY DEF IsTotal
  <2> QED BY <2>1, <2>2
<1>3. ASSUME NEW n \in Nat, n \in G PROVE n + 1 \in G
  <2>1. SUFFICES ASSUME NEW s \in SUBSET D, Cardinality(s) = n + 1 PROVE T[s] = U[s]
    OBVIOUS
  <2>2. s # {}
    BY <2>1, FS_EmptySet
  <2> DEFINE x == Chosen(s)
             r == s \ {x}
  <2>3. x \in s
    BY <2>2, ChosenIn
  <2>4. Cardinality(r) = n /\ r \in SUBSET D
    <3> HIDE DEF x
    <3>1. Cardinality(s \ {x}) = Cardinality(s) - 1
      BY <1>1, <2>3, FS_RemoveElement
    <3> QED BY <1>1, <2>1, <3>1
  <2>5. T[r] = U[r]
    BY <1>3, <2>4
  <2>6. T[s] = a[x].amount + T[r] /\ U[s] = b[x].amount + U[r]
    BY <2>2 DEF IsTotal
  <2> QED BY <2>3, <2>5, <2>6
<1> HIDE DEF G
<1>4. \A n \in Nat : n \in G
  BY <1>2, <1>3, Induct
<1> QED BY <1>1, <1>4 DEF G

LEMMA TotalInt ==
  ASSUME NEW a, NEW D, IsFiniteSet(D), NEW T, IsTotal(T, a, D),
         \A i \in D : a[i].amount \in Int
  PROVE  \A s \in SUBSET D : T[s] \in Int
<1> DEFINE G == {n \in Nat : \A s \in SUBSET D : Cardinality(s) = n => T[s] \in Int}
<1>1. \A s \in SUBSET D : IsFiniteSet(s) /\ Cardinality(s) \in Nat
  BY FS_Subset, FS_CardinalityType
<1>2. 0 \in G
  <2>1. \A s \in SUBSET D : Cardinality(s) = 0 => s = {}
    BY <1>1, FS_EmptySet
  <2>2. T[{}] = 0
    BY DEF IsTotal
  <2> QED BY <2>1, <2>2
<1>3. ASSUME NEW n \in Nat, n \in G PROVE n + 1 \in G
  <2>1. SUFFICES ASSUME NEW s \in SUBSET D, Cardinality(s) = n + 1 PROVE T[s] \in Int
    OBVIOUS
  <2>2. s # {}
    BY <2>1, FS_EmptySet
  <2> DEFINE x == Chosen(s)
  <2>3. x \in s
    BY <2>2, ChosenIn
  <2>4. T[s] = a[x].amount + T[s \ {x}]
    BY <2>2 DEF IsTotal
  <2> HIDE DEF x
  <2>5. Cardinality(s \ {x}) = Cardinality(s) - 1
    BY <1>1, <2>3, FS_RemoveElement
  <2>6. T[s \ {x}] \in Int
    BY <1>1, <1>3, <2>1, <2>5
  <2> QED BY <2>3, <2>4, <2>6
<1> HIDE DEF G
<1>4. \A n \in Nat : n \in G
  BY <1>2, <1>3, Induct
<1> QED BY <1>1, <1>4 DEF G

\* Which element is taken out first does not matter.
AnyTakenOut(T, a, D) ==
  \A s \in SUBSET D : \A y \in s : T[s] = a[y].amount + T[s \ {y}]

LEMMA TotalOfAny ==
  ASSUME NEW a, NEW D, IsFiniteSet(D), NEW T, IsTotal(T, a, D),
         \A i \in D : a[i].amount \in Int
  PROVE  AnyTakenOut(T, a, D)
<1> DEFINE Right(s) == \A y \in s : T[s] = a[y].amount + T[s \ {y}]
           G == {n \in Nat : \A s \in SUBSET D : Cardinality(s) = n => Right(s)}
<1>1. \A s \in SUBSET D : IsFiniteSet(s) /\ Cardinality(s) \in Nat
  BY FS_Subset, FS_CardinalityType
<1>2. 0 \in G
  <2>1. \A s \in SUBSET D : Cardinality(s) = 0 => s = {}
    BY <1>1, FS_EmptySet
  <2>2. Right({})
    OBVIOUS
  <2> QED BY <2>1, <2>2
<1>3. ASSUME NEW n \in Nat, n \in G PROVE n + 1 \in G
  <2>1. SUFFICES ASSUME NEW s \in SUBSET D, Cardinality(s) = n + 1 PROVE Right(s)
    OBVIOUS
  <2>2. s # {}
    BY <2>1, FS_EmptySet
  <2> DEFINE x == Chosen(s)
  <2>3. x \in s
    BY <2>2, ChosenIn
  <2>4. \A y \in s : s \ {y} \in SUBSET D /\ Cardinality(s \ {y}) = n
    BY <1>1, <2>1, FS_RemoveElement
  <2>5. \A y \in s : Right(s \ {y})
    BY <1>3, <2>4
  <2>6. T[s] = a[x].amount + T[s \ {x}]
    BY <2>2 DEF IsTotal
  <2> HIDE DEF x
  <2>7. ASSUME NEW y \in s PROVE T[s] = a[y].amount + T[s \ {y}]
    <3>1. CASE x = y
      BY <2>6, <3>1
    <3>2. CASE x # y
      <4> DEFINE r == (s \ {x}) \ {y}
      <4>1. r = (s \ {y}) \ {x} /\ y \in s \ {x} /\ x \in s \ {y}
        BY <2>3, <3>2
      <4>2. T[s \ {x}] = a[y].amount + T[r] /\ T[s \ {y}] = a[x].amount + T[r]
        BY <2>3, <2>5, <4>1
      <4>3. T[r] \in Int
        BY TotalInt
      <4> HIDE DEF r
      <4>4. a[x].amount \in Int /\ a[y].amount \in Int
        BY <2>3
      <4> QED BY <2>6, <4>2, <4>3, <4>4
    <3> QED BY <3>1, <3>2
  <2> QED BY <2>7
<1> HIDE DEF G
<1>4. \A n \in Nat : n \in G
  BY <1>2, <1>3, Induct
<1> QED BY <1>1, <1>4 DEF G, AnyTakenOut

\* The running total of a sequence, over the sets of its places.
Total(a) == CHOOSE T : IsTotal(T, a, DOMAIN a)

LEMMA SumTotal ==
  ASSUME NEW a \in Seq(Entries)
  PROVE  /\ IsTotal(Total(a), a, 1 .. Len(a)) /\ IsFiniteSet(1 .. Len(a))
         /\ Sum(a) = Total(a)[1 .. Len(a)] /\ Sum(a) \in Int
         /\ \A i \in 1 .. Len(a) : a[i].amount \in Int
<1>1. DOMAIN a = 1 .. Len(a) /\ Len(a) \in Nat
  OBVIOUS
<1>2. IsFiniteSet(1 .. Len(a))
  BY <1>1, FS_Interval
<1>3. IsTotal(Total(a), a, 1 .. Len(a))
  BY <1>1, <1>2, TotalExists DEF Total
<1>4. Sum(a) = Total(a)[1 .. Len(a)]
  <2>1. Sum(a) = Total(a)[DOMAIN a]
    BY SumUnfolds, Zenon DEF Total
  <2> QED BY <1>1, <2>1
<1>5. \A i \in 1 .. Len(a) : a[i].amount \in Int
  <2>1. \A i \in 1 .. Len(a) : a[i] \in Entries
    OBVIOUS
  <2> QED BY <2>1 DEF Entries
<1> QED BY <1>2, <1>3, <1>4, <1>5, TotalInt

LEMMA SumOfNone == Sum(<<>>) = 0
<1>1. <<>> \in Seq(Entries) /\ 1 .. Len(<<>>) = {}
  OBVIOUS
<1>2. Total(<<>>)[{}] = 0
  BY <1>1, SumTotal DEF IsTotal
<1> QED BY <1>1, <1>2, SumTotal

\* What the last entry adds.
LEMMA SumOfPrefix ==
  ASSUME NEW a \in Seq(Entries), NEW n \in 1 .. Len(a)
  PROVE  Sum(SubSeq(a, 1, n)) = a[n].amount + Sum(SubSeq(a, 1, n - 1))
<1> DEFINE p == SubSeq(a, 1, n)
           q == SubSeq(a, 1, n - 1)
<1>1. /\ p \in Seq(Entries) /\ Len(p) = n /\ \A i \in 1 .. n : p[i] = a[i]
      /\ q \in Seq(Entries) /\ Len(q) = n - 1 /\ \A i \in 1 .. n - 1 : q[i] = a[i]
  OBVIOUS
<1> HIDE DEF p, q
<1>2. n \in Nat /\ n \in 1 .. n /\ (1 .. n) \ {n} = 1 .. n - 1
      /\ 1 .. n - 1 \subseteq 1 .. n /\ \A i \in 1 .. n - 1 : q[i] = p[i]
  BY <1>1
<1>3. /\ IsTotal(Total(p), p, 1 .. n) /\ IsFiniteSet(1 .. n)
      /\ \A i \in 1 .. n : p[i].amount \in Int
      /\ Sum(p) = Total(p)[1 .. n]
  BY <1>1, SumTotal
<1>4. /\ IsTotal(Total(q), q, 1 .. n - 1) /\ IsFiniteSet(1 .. n - 1)
      /\ Sum(q) = Total(q)[1 .. n - 1]
  BY <1>1, SumTotal
<1>5. Total(p)[1 .. n] = p[n].amount + Total(p)[(1 .. n) \ {n}]
  <2>1. AnyTakenOut(Total(p), p, 1 .. n)
    BY <1>3, TotalOfAny
  <2> QED BY <1>2, <2>1 DEF AnyTakenOut
<1>6. Total(q)[1 .. n - 1] = Total(p)[1 .. n - 1]
  <2>1. \A r \in SUBSET (1 .. n - 1) : Total(q)[r] = Total(p)[r]
    <3> DEFINE D == 1 .. n - 1
               E == 1 .. n
               T == Total(q)
               U == Total(p)
    <3>1. /\ IsTotal(T, q, D) /\ IsTotal(U, p, E) /\ IsFiniteSet(D)
          /\ D \subseteq E /\ \A i \in D : q[i] = p[i]
      BY <1>2, <1>3, <1>4
    <3> HIDE DEF D, E, T, U
    <3>2. \A r \in SUBSET D : T[r] = U[r]
      BY <3>1, TotalsAgree
    <3> QED BY <3>2 DEF D, T, U
  <2> QED BY <2>1
<1>7. Sum(p) = a[n].amount + Sum(q)
  BY <1>1, <1>2, <1>3, <1>4, <1>5, <1>6
<1> QED BY <1>7 DEF p, q

\* A sum may be cut anywhere.
LEMMA SumOfConcat ==
  ASSUME NEW s \in Seq(Entries), NEW t \in Seq(Entries)
  PROVE  Sum(s \o t) = Sum(s) + Sum(t)
<1> DEFINE u == s \o t
           G == {k \in Nat : k <= Len(t) =>
                   Sum(SubSeq(u, 1, Len(s) + k)) = Sum(s) + Sum(SubSeq(t, 1, k))}
<1>1. /\ u \in Seq(Entries) /\ Len(u) = Len(s) + Len(t)
      /\ Len(s) \in Nat /\ Len(t) \in Nat
      /\ \A i \in 1 .. Len(t) : u[Len(s) + i] = t[i]
  OBVIOUS
<1>2. 0 \in G
  <2>1. SubSeq(u, 1, Len(s)) = s /\ SubSeq(t, 1, 0) = <<>>
    OBVIOUS
  <2>2. Len(s) + 0 = Len(s) /\ Sum(s) + 0 = Sum(s)
    BY <1>1, SumTotal
  <2> HIDE DEF u
  <2> QED BY <2>1, <2>2, SumOfNone
<1> HIDE DEF u
<1>3. ASSUME NEW k \in Nat, k \in G PROVE k + 1 \in G
  <2>1. SUFFICES ASSUME k + 1 <= Len(t)
        PROVE Sum(SubSeq(u, 1, Len(s) + (k + 1))) = Sum(s) + Sum(SubSeq(t, 1, k + 1))
    OBVIOUS
  <2>2. Sum(SubSeq(u, 1, Len(s) + k)) = Sum(s) + Sum(SubSeq(t, 1, k))
    BY <1>3, <2>1, <1>1
  <2>3. /\ Len(s) + (k + 1) \in 1 .. Len(u) /\ Len(s) + (k + 1) - 1 = Len(s) + k
        /\ k + 1 \in 1 .. Len(t) /\ (k + 1) - 1 = k
    BY <1>1, <2>1
  <2>4. Sum(SubSeq(u, 1, Len(s) + (k + 1)))
          = u[Len(s) + (k + 1)].amount + Sum(SubSeq(u, 1, Len(s) + k))
    <3> DEFINE m == Len(s) + (k + 1)
    <3>1. m \in 1 .. Len(u) /\ m - 1 = Len(s) + k
      BY <2>3
    <3> HIDE DEF m
    <3>2. Sum(SubSeq(u, 1, m)) = u[m].amount + Sum(SubSeq(u, 1, m - 1))
      BY <1>1, <3>1, SumOfPrefix
    <3> QED BY <3>1, <3>2 DEF m
  <2>5. Sum(SubSeq(t, 1, k + 1)) = t[k + 1].amount + Sum(SubSeq(t, 1, k))
    BY <2>3, SumOfPrefix
  <2>6. u[Len(s) + (k + 1)] = t[k + 1]
    BY <1>1, <2>3
  <2>7. SubSeq(t, 1, k) \in Seq(Entries)
    BY <1>1, <2>3
  <2>8. t[k + 1].amount \in Int /\ Sum(s) \in Int /\ Sum(SubSeq(t, 1, k)) \in Int
    BY <2>3, <2>7, SumTotal
  <2> QED BY <2>2, <2>4, <2>5, <2>6, <2>8
<1>4. Len(t) \in G
  <2> HIDE DEF G
  <2>1. \A n \in Nat : n \in G
    BY <1>2, <1>3, Induct
  <2> QED BY <1>1, <2>1
<1>5. SubSeq(u, 1, Len(s) + Len(t)) = u /\ SubSeq(t, 1, Len(t)) = t
  BY <1>1, SubSeqFull
<1>6. Sum(SubSeq(u, 1, Len(s) + Len(t))) = Sum(s) + Sum(SubSeq(t, 1, Len(t)))
  BY <1>1, <1>4 DEF G
<1> QED BY <1>5, <1>6 DEF u

LEMMA SumSplit ==
  ASSUME NEW a \in Seq(Entries), NEW j \in 0 .. Len(a), NEW i \in 0 .. j
  PROVE  /\ Sum(SubSeq(a, 1, j)) = Sum(SubSeq(a, 1, i)) + Sum(SubSeq(a, i + 1, j))
         /\ Sum(SubSeq(a, 1, i)) \in Int /\ Sum(SubSeq(a, i + 1, j)) \in Int
<1>1. /\ SubSeq(a, 1, i) \in Seq(Entries) /\ SubSeq(a, i + 1, j) \in Seq(Entries)
  OBVIOUS
<1>2. SubSeq(a, 1, i) \o SubSeq(a, i + 1, j) = SubSeq(a, 1, j)
  BY ConcatAdjacentSubSeq
<1> QED BY <1>1, <1>2, SumOfConcat, SumTotal

-----------------------------------------------------------------------------
(* The order of the ledger, and a page of it                               *)

LEMMA AfterIsAnOrder ==
  ASSUME NEW a \in Entries, NEW b \in Entries, NEW c \in Entries
  PROVE  /\ ~After(a, a)
         /\ After(a, b) /\ After(b, c) => After(a, c)
         /\ a.id # b.id => After(a, b) \/ After(b, a)
<1>1. \A e \in Entries :
        /\ e.created \in Nat /\ e.id[1] \in Nat /\ e.id[2] \in Nat /\ e.id[3] \in Nat
        /\ e.id = <<e.id[1], e.id[2], e.id[3]>>
  BY DEF Entries
<1>2. ~After(a, a)
  BY <1>1 DEF After, Less
<1>3. After(a, b) /\ After(b, c) => After(a, c)
  BY <1>1 DEF After, Less
<1>4. a.id # b.id => After(a, b) \/ After(b, a)
  <2>1. a.id # b.id => \/ a.id[1] # b.id[1] \/ a.id[2] # b.id[2] \/ a.id[3] # b.id[3]
    BY <1>1
  <2> QED BY <1>1, <2>1 DEF After, Less
<1> QED BY <1>2, <1>3, <1>4

\* No two entries of a set have one id.
Keyed(S) == \A e, f \in S : e # f => e.id # f.id

\* ORDER BY gives every entry of a set a place of its own, and fills them all.
LEMMA Places ==
  ASSUME NEW S \in SUBSET Entries, IsFiniteSet(S), Keyed(S)
  PROVE  /\ Cardinality(S) \in Nat
         /\ \A e \in S : Place(e, S) \in 1 .. Cardinality(S)
         /\ \A e, f \in S : After(f, e) => Place(e, S) < Place(f, S)
         /\ \A i \in 1 .. Cardinality(S) : \E e \in S : Place(e, S) = i
<1> DEFINE UpTo(e) == {x \in S : x = e \/ After(e, x)}
           n == Cardinality(S)
<1>1. \A e \in S : /\ IsFiniteSet(UpTo(e)) /\ Cardinality(UpTo(e)) \in Nat
                   /\ Cardinality(UpTo(e)) <= n
  BY FS_Subset, FS_CardinalityType
<1>2. n \in Nat
  BY FS_CardinalityType
<1>3. \A e \in S : Place(e, S) \in 1 .. n
  <2>1. \A e \in S : Place(e, S) = Cardinality(UpTo(e)) /\ e \in UpTo(e)
    BY DEF Place
  <2>2. \A e \in S : Cardinality(UpTo(e)) # 0
    BY <1>1, <2>1, FS_EmptySet
  <2> HIDE DEF UpTo, n
  <2> QED BY <1>1, <1>2, <2>1, <2>2
<1>4. ASSUME NEW e \in S, NEW f \in S, After(f, e) PROVE Place(e, S) < Place(f, S)
  <2>1. e \in Entries /\ f \in Entries
    OBVIOUS
  <2>2. UpTo(e) \subseteq UpTo(f)
    BY <1>4, AfterIsAnOrder
  <2>3. f \in UpTo(f) /\ f \notin UpTo(e)
    BY <1>4, <2>1, AfterIsAnOrder
  <2>4. Cardinality(UpTo(e)) <= Cardinality(UpTo(f)) /\ UpTo(e) # UpTo(f)
        /\ (Cardinality(UpTo(f)) = Cardinality(UpTo(e)) => UpTo(f) = UpTo(e))
    BY <1>1, <2>2, <2>3, FS_Subset
  <2>5. Place(e, S) = Cardinality(UpTo(e)) /\ Place(f, S) = Cardinality(UpTo(f))
    BY DEF Place
  <2> HIDE DEF UpTo
  <2> QED BY <1>1, <2>4, <2>5
<1>5. \A i \in 1 .. n : \E e \in S : Place(e, S) = i
  <2> DEFINE place == [e \in S |-> Place(e, S)]
  <2>1. place \in [S -> 1 .. n]
    BY <1>3
  <2>2. \A e, f \in S : e # f => place[e] # place[f]
    <3> SUFFICES ASSUME NEW e \in S, NEW f \in S, e # f PROVE place[e] # place[f]
      OBVIOUS
    <3>1. After(e, f) \/ After(f, e)
      BY AfterIsAnOrder DEF Keyed
    <3>2. Place(e, S) \in Nat /\ Place(f, S) \in Nat
      BY <1>3
    <3> QED BY <1>4, <3>1, <3>2
  <2> HIDE DEF place
  <2>3. place \in Injection(S, 1 .. n)
    BY <2>1, <2>2, Fun_IsInj
  <2>4. IsFiniteSet(1 .. n) /\ Cardinality(1 .. n) = n
    BY <1>2, FS_Interval
  <2>5. place \in Surjection(S, 1 .. n)
    BY <2>3, <2>4, FS_Injection
  <2>6. \A i \in 1 .. n : \E e \in S : place[e] = i
    BY <2>5, Fun_SurjectionProperties
  <2> QED BY <2>6 DEF place
<1> QED BY <1>2, <1>3, <1>4, <1>5

\* A page is ascending, lies behind its cursor, and is either all there is or
\* Limit entries with everything else behind the last of them.
LEMMA PageIsFirst ==
  ASSUME NEW c, Rest(c) \in SUBSET Entries, IsFiniteSet(Rest(c)), Keyed(Rest(c))
  PROVE  LET page == Page(c) IN
         /\ page \in Seq(Entries) /\ Len(page) <= Limit
         /\ \A i \in 1 .. Len(page) : page[i] \in Rest(c)
         /\ \A i, j \in 1 .. Len(page) : i < j => After(page[j], page[i])
         /\ \A e \in Rest(c) :
              \/ \E i \in 1 .. Len(page) : page[i] = e
              \/ Len(page) = Limit /\ After(e, page[Limit])
<1> DEFINE S == Rest(c)
           n == Cardinality(S)
           m == IF n < Limit THEN n ELSE Limit
           page == Page(c)
<1>1. Limit \in Nat \ {0}
  BY ReadsAssumption
<1>2. /\ n \in Nat /\ \A e \in S : Place(e, S) \in 1 .. n
      /\ \A e, f \in S : After(f, e) => Place(e, S) < Place(f, S)
      /\ \A i \in 1 .. n : \E e \in S : Place(e, S) = i
  BY Places
<1>3. m \in Nat /\ m <= Limit /\ 1 .. m \subseteq 1 .. n /\ (m = Limit \/ m = n)
  <2> HIDE DEF n
  <2> QED BY <1>1, <1>2
<1>4. page = [i \in 1 .. m |-> CHOOSE e \in S : Place(e, S) = i]
  BY DEF Page
<1> HIDE DEF page, m, n
<1>5. \A i \in 1 .. m : page[i] \in S /\ Place(page[i], S) = i
  <2> SUFFICES ASSUME NEW i \in 1 .. m PROVE page[i] \in S /\ Place(page[i], S) = i
    OBVIOUS
  <2>1. \E e \in S : Place(e, S) = i
    BY <1>2, <1>3
  <2> HIDE DEF S
  <2> QED BY <1>4, <2>1
<1>6. page \in Seq(Entries) /\ Len(page) = m
  <2>1. page \in [1 .. m -> Entries]
    BY <1>4, <1>5
  <2> QED BY <1>3, <2>1
<1>7. \A e, f \in S : /\ e # f => After(e, f) \/ After(f, e)
                      /\ Place(e, S) < Place(f, S) => After(f, e)
  <2> SUFFICES ASSUME NEW e \in S, NEW f \in S
               PROVE  /\ e # f => After(e, f) \/ After(f, e)
                      /\ Place(e, S) < Place(f, S) => After(f, e)
    OBVIOUS
  <2>1. e # f => After(e, f) \/ After(f, e)
    BY AfterIsAnOrder DEF Keyed
  <2>2. Place(e, S) \in Nat /\ Place(f, S) \in Nat
    BY <1>2
  <2> HIDE DEF S
  <2> QED BY <1>2, <2>1, <2>2
<1> HIDE DEF S
<1>8. \A i, j \in 1 .. m : i < j => After(page[j], page[i])
  BY <1>5, <1>7
<1>9. ASSUME NEW e \in S
      PROVE  (\E i \in 1 .. m : page[i] = e) \/ (m = Limit /\ After(e, page[m]))
  <2> DEFINE i == Place(e, S)
  <2>1. i \in 1 .. n
    BY <1>2
  <2>2. CASE i \in 1 .. m
    <3>1. Place(page[i], S) = i /\ page[i] \in S
      BY <1>5, <2>2
    <3>2. page[i] = e
      BY <1>2, <1>7, <3>1
    <3> QED BY <2>2, <3>2
  <2>3. CASE i \notin 1 .. m
    <3>1. m = Limit /\ m < i /\ m \in 1 .. m
      BY <1>1, <1>2, <1>3, <2>1, <2>3
    <3>2. Place(page[m], S) < Place(e, S) /\ page[m] \in S
      BY <1>5, <3>1
    <3> QED BY <1>7, <3>1, <3>2
  <2> QED BY <2>2, <2>3
<1> QED BY <1>3, <1>5, <1>6, <1>8, <1>9 DEF S, page

-----------------------------------------------------------------------------
(* The invariants                                                          *)

Started == \A x \in Writers : wpc[x] # "idle" => stamp[x] \in Nat

\* Every id is made once, also in the transaction that is still open; only
\* who holds the wallet is in one.
IdsUnique ==
  /\ \A i, j \in 1 .. Len(ledger) : i # j => ledger[i].id # ledger[j].id
  /\ \A x \in Writers : wpc[x] = "open" =>
       /\ lock = x
       /\ \A i, j \in 1 .. Len(staged[x]) :
            i # j => staged[x][i].id # staged[x][j].id
       /\ \A i \in 1 .. Len(staged[x]), j \in 1 .. Len(ledger) :
            staged[x][i].id # ledger[j].id

\* The stored balance is the sum of the entries at every commit, and what the
\* first read of a reconciliation saw of both is a past state of them.
Balanced ==
  /\ balance = Sum(ledger)
  /\ stored # None =>
       /\ stored.entries <= Len(ledger)
       /\ stored.balance = Sum(SubSeq(ledger, 1, stored.entries))
  /\ report # None =>
       /\ stored # None
       /\ stored.entries <= report.checkedEntries
       /\ report.checkedEntries <= Len(ledger)

\* The cursor is the last entry the reader was given.
AtCursor ==
  /\ readAt <= Len(ledger)
  /\ ~ended => IF cursor = None THEN pages = <<>>
               ELSE pages # <<>> /\ cursor = pages[Len(pages)]

LedgerInv == TypeOK /\ Started /\ IdsUnique /\ Balanced
ReadsInv == LedgerInv /\ MismatchIsOvertaken /\ AtCursor /\ PagesAscend /\ NothingSkipped

LEMMA CommittedKeyed ==
  ASSUME TypeOK, IdsUnique, NEW c
  PROVE  Rest(c) \in SUBSET Entries /\ IsFiniteSet(Rest(c)) /\ Keyed(Rest(c))
<1> DEFINE n == Len(ledger)
<1>1. ledger \in Seq(Entries) /\ n \in Nat /\ \A i \in 1 .. n : ledger[i] \in Entries
  BY DEF TypeOK
<1>2. Committed(n) \in SUBSET Entries
  BY <1>1 DEF Committed
<1>3. IsFiniteSet(Committed(n))
  <2> DEFINE f == [i \in 1 .. n |-> ledger[i]]
  <2>1. f \in Surjection(1 .. n, Committed(n))
    BY Fun_IsSurj DEF Committed
  <2>2. IsFiniteSet(1 .. n)
    BY <1>1, FS_Interval
  <2> QED BY <2>1, <2>2, FS_Surjection
<1>4. Keyed(Committed(n))
  BY DEF Keyed, Committed, IdsUnique
<1>5. Rest(c) \subseteq Committed(n)
  BY DEF Rest
<1> QED BY <1>2, <1>3, <1>4, <1>5, FS_Subset DEF Keyed

LEMMA InitReads == Init => ReadsInv
<1> SUFFICES ASSUME Init PROVE ReadsInv
  OBVIOUS
<1>1. OpeningEntry \in Entries /\ OpeningEntry.amount = Opening /\ Opening \in Int
  BY ReadsAssumption DEF OpeningEntry, Entries
<1>2. ledger = <<OpeningEntry>> /\ ledger \in Seq(Entries) /\ Len(ledger) = 1
  BY <1>1 DEF Init
<1>3. TypeOK
  <2>1. <<>> \in Seq(Entries) /\ balance \in Int
    BY <1>1 DEF Init
  <2> QED BY <1>2, <2>1 DEF Init, TypeOK
<1>4. Sum(ledger) = Opening
  <2>1. ledger[1] = OpeningEntry /\ 1 \in 1 .. Len(ledger) /\ 1 - 1 = 0
    BY <1>2
  <2>2. SubSeq(ledger, 1, 1) = ledger
    BY <1>2, SubSeqFull
  <2>3. SubSeq(ledger, 1, 0) = <<>>
    BY SubSeqEmpty
  <2>4. Sum(SubSeq(ledger, 1, 1)) = ledger[1].amount + Sum(SubSeq(ledger, 1, 1 - 1))
    BY <1>2, <2>1, SumOfPrefix
  <2>5. Sum(SubSeq(ledger, 1, 1 - 1)) = 0
    BY <2>1, <2>3, SumOfNone
  <2>6. ledger[1].amount = Opening
    BY <1>1, <2>1
  <2>7. Sum(ledger) = Opening + 0
    BY <2>2, <2>4, <2>5, <2>6
  <2> QED BY <1>1, <2>7
<1>5. Started /\ IdsUnique
  BY <1>2 DEF Init, Started, IdsUnique
<1>6. Balanced /\ MismatchIsOvertaken
  BY <1>2, <1>4 DEF Init, Balanced, MismatchIsOvertaken
<1>7. AtCursor /\ PagesAscend /\ NothingSkipped
  BY <1>2 DEF Init, AtCursor, PagesAscend, NothingSkipped, Passes, Committed
<1> QED BY <1>3, <1>5, <1>6, <1>7 DEF ReadsInv, LedgerInv

-----------------------------------------------------------------------------
(* Writers                                                                 *)

\* A ledger that grows keeps its past: what was read of it stays as it was.
LEMMA LedgerGrows ==
  ASSUME ReadsInv, NEW s \in Seq(Entries), ledger' = ledger \o s,
         UNCHANGED <<pageVars, auditVars>>, balance' = balance + Sum(s)
  PROVE  Balanced' /\ MismatchIsOvertaken' /\ AtCursor' /\ PagesAscend' /\ NothingSkipped'
<1>1. /\ ledger \in Seq(Entries) /\ readAt \in Nat
      /\ stored \in [balance : Int, entries : Nat] \cup {None}
      /\ report \in [difference : Int, consistent : BOOLEAN, checkedEntries : Nat] \cup {None}
  BY DEF ReadsInv, LedgerInv, TypeOK
<1>2. /\ ledger' \in Seq(Entries) /\ Len(ledger') = Len(ledger) + Len(s)
      /\ Len(ledger) \in Nat /\ Len(s) \in Nat
      /\ \A i \in 1 .. Len(ledger) : ledger'[i] = ledger[i]
  BY <1>1
<1>3. \A i, j \in Nat : 1 <= i /\ j <= Len(ledger) =>
        SubSeq(ledger', i, j) = SubSeq(ledger, i, j)
  BY <1>1, <1>2
<1>4. Balanced'
  <2>1. balance' = Sum(ledger')
    BY <1>1, SumOfConcat DEF ReadsInv, LedgerInv, Balanced
  <2>2. ASSUME stored # None
        PROVE  /\ stored.entries <= Len(ledger')
               /\ stored.balance = Sum(SubSeq(ledger', 1, stored.entries))
    <3>1. /\ stored.entries \in Nat /\ stored.entries <= Len(ledger)
          /\ stored.balance = Sum(SubSeq(ledger, 1, stored.entries))
      BY <1>1, <2>2 DEF ReadsInv, LedgerInv, Balanced
    <3>2. SubSeq(ledger', 1, stored.entries) = SubSeq(ledger, 1, stored.entries)
      BY <1>3, <3>1
    <3>3. stored.entries <= Len(ledger')
      BY <1>2, <3>1
    <3> QED BY <3>1, <3>2, <3>3
  <2>3. ASSUME report # None PROVE report.checkedEntries <= Len(ledger')
    BY <1>1, <1>2, <2>3 DEF ReadsInv, LedgerInv, Balanced
  <2> QED BY <2>1, <2>2, <2>3 DEF ReadsInv, LedgerInv, Balanced, auditVars
<1>5. MismatchIsOvertaken'
  <2> SUFFICES ASSUME report # None
               PROVE  report.difference =
                        -Sum(SubSeq(ledger', stored.entries + 1, report.checkedEntries))
    BY DEF MismatchIsOvertaken, auditVars
  <2>1. /\ stored # None /\ stored.entries \in Nat /\ report.checkedEntries \in Nat
        /\ report.checkedEntries <= Len(ledger)
    BY <1>1 DEF ReadsInv, LedgerInv, Balanced
  <2>2. SubSeq(ledger', stored.entries + 1, report.checkedEntries)
          = SubSeq(ledger, stored.entries + 1, report.checkedEntries)
    <3>1. stored.entries + 1 \in Nat /\ 1 <= stored.entries + 1
      BY <2>1
    <3> QED BY <1>3, <2>1, <3>1
  <2> QED BY <2>2 DEF ReadsInv, MismatchIsOvertaken
<1>6. AtCursor' /\ PagesAscend'
  BY <1>1, <1>2 DEF ReadsInv, AtCursor, PagesAscend, pageVars
<1>7. NothingSkipped'
  <2>1. \A i \in 1 .. readAt : ledger'[i] = ledger[i]
    BY <1>1, <1>2 DEF ReadsInv, AtCursor
  <2>2. {ledger'[i] : i \in 1 .. readAt} = {ledger[i] : i \in 1 .. readAt}
    BY <2>1
  <2> QED BY <2>2 DEF ReadsInv, NothingSkipped, Committed, pageVars
<1> QED BY <1>4, <1>5, <1>6, <1>7

\* Nothing but the clock and the writers' own variables changes.
LEMMA ReadersStay ==
  ASSUME ReadsInv, UNCHANGED <<balance, ledger, pageVars, auditVars>>
  PROVE  Balanced' /\ MismatchIsOvertaken' /\ AtCursor' /\ PagesAscend' /\ NothingSkipped'
BY DEF ReadsInv, LedgerInv, Balanced, MismatchIsOvertaken, AtCursor, PagesAscend,
       NothingSkipped, Committed, pageVars, auditVars

LEMMA BeginReads ==
  ASSUME ReadsInv, NEW x \in Writers, Begin(x)
  PROVE  ReadsInv'
<1>1. TypeOK /\ Started /\ IdsUnique
  BY DEF ReadsInv, LedgerInv
<1>2. TypeOK' /\ Started' /\ IdsUnique'
  BY <1>1 DEF Begin, TypeOK, Started, IdsUnique, pageVars, auditVars
<1> QED BY <1>2, ReadersStay DEF ReadsInv, LedgerInv, Begin

LEMMA ApplyReads ==
  ASSUME ReadsInv, NEW x \in Writers, Apply(x)
  PROVE  ReadsInv'
<1>1. TypeOK /\ Started /\ IdsUnique
  BY DEF ReadsInv, LedgerInv
<1>2. PICK r \in FreshTies :
        staged' = [staged EXCEPT ![x] =
                     [i \in 1 .. Len(Movements[x]) |->
                        [created |-> stamp[x], id |-> <<now, r, i>>,
                         amount |-> Movements[x][i]]]]
  BY DEF Apply
<1> DEFINE n == Len(Movements[x])
           s == [i \in 1 .. n |-> [created |-> stamp[x], id |-> <<now, r, i>>,
                                   amount |-> Movements[x][i]]]
<1>3. Movements[x] \in Seq(Int) /\ n \in Nat /\ Cardinality(Writers) \in Nat
  BY ReadsAssumption, FS_CardinalityType
<1>4. /\ r \in Nat
      /\ \A i \in 1 .. Len(ledger) : <<ledger[i].id[1], ledger[i].id[2]>> # <<now, r>>
  BY <1>3 DEF FreshTies
<1>5. now \in Nat /\ stamp[x] \in Nat
  BY <1>1 DEF Apply, TypeOK, Started
<1>6. s \in Seq(Entries) /\ Len(s) = n /\ \A i \in 1 .. n : s[i].id = <<now, r, i>>
  <2>1. \A i \in 1 .. n : s[i] \in Entries
    BY <1>3, <1>4, <1>5 DEF Entries
  <2>2. s \in [1 .. n -> Entries] /\ \A i \in 1 .. n : s[i].id = <<now, r, i>>
    BY <2>1
  <2>3. n \in Nat
    BY <1>3
  <2> HIDE DEF s, n
  <2>4. s \in Seq(Entries) /\ Len(s) = n
    BY <2>2, <2>3
  <2> QED BY <2>2, <2>4
<1> HIDE DEF s, n
<1>7. staged'[x] = s /\ \A y \in Writers \ {x} : staged'[y] = staged[y] /\ wpc'[y] = wpc[y]
  BY <1>1, <1>2 DEF Apply, TypeOK, s, n
<1>8. wpc' = [wpc EXCEPT ![x] = "open"] /\ lock' = x /\ lock = None
      /\ UNCHANGED <<now, stamp, balance, ledger, pageVars, auditVars>>
  BY DEF Apply
<1>9. TypeOK' /\ Started'
  <2>1. staged' \in [Writers -> Seq(Entries)]
    BY <1>1, <1>2, <1>6 DEF TypeOK, s, n
  <2> QED BY <1>1, <1>5, <1>8, <2>1 DEF TypeOK, Started, pageVars, auditVars
<1>10. IdsUnique'
  <2>1. \A y \in Writers \ {x} : wpc'[y] # "open"
    BY <1>1, <1>7, <1>8, ReadsAssumption DEF IdsUnique
  <2>2. \A i, j \in 1 .. n : i # j => s[i].id # s[j].id
    BY <1>6
  <2>3. \A i \in 1 .. n, j \in 1 .. Len(ledger) : s[i].id # ledger[j].id
    <3> SUFFICES ASSUME NEW i \in 1 .. n, NEW j \in 1 .. Len(ledger), s[i].id = ledger[j].id
                 PROVE  FALSE
      OBVIOUS
    <3>1. ledger[j].id[1] = now /\ ledger[j].id[2] = r
      BY <1>6
    <3> QED BY <1>4, <3>1
  <2> QED BY <1>1, <1>6, <1>7, <1>8, <2>1, <2>2, <2>3 DEF IdsUnique
<1> QED BY <1>8, <1>9, <1>10, ReadersStay DEF ReadsInv, LedgerInv

LEMMA CommitReads ==
  ASSUME ReadsInv, NEW x \in Writers, Commit(x)
  PROVE  ReadsInv'
<1>1. TypeOK /\ Started /\ IdsUnique
  BY DEF ReadsInv, LedgerInv
<1> DEFINE s == staged[x]
<1>2. /\ wpc[x] = "open" /\ wpc' = [wpc EXCEPT ![x] = "done"]
      /\ staged' = [staged EXCEPT ![x] = <<>>] /\ lock' = None
      /\ UNCHANGED <<now, stamp, pageVars, auditVars>>
      /\ ledger' = ledger \o s /\ balance' = balance + Sum(s)
  BY DEF Commit, EndWriter
<1>3. s \in Seq(Entries) /\ ledger \in Seq(Entries) /\ balance \in Int /\ Sum(s) \in Int
  BY <1>1, SumTotal DEF TypeOK
<1>4. /\ ledger' \in Seq(Entries) /\ Len(ledger') = Len(ledger) + Len(s)
      /\ Len(ledger) \in Nat /\ Len(s) \in Nat
      /\ \A i \in 1 .. Len(ledger') :
           ledger'[i] = IF i <= Len(ledger) THEN ledger[i] ELSE s[i - Len(ledger)]
  BY <1>2, <1>3
<1>5. TypeOK' /\ Started'
  <2>1. balance' \in Int
    BY <1>2, <1>3
  <2>2. staged' \in [Writers -> Seq(Entries)]
    BY <1>1, <1>2 DEF TypeOK
  <2> QED BY <1>1, <1>2, <1>4, <2>1, <2>2 DEF TypeOK, Started, pageVars, auditVars
<1>6. IdsUnique'
  <2>1. \A y \in Writers : wpc'[y] # "open"
    BY <1>1, <1>2 DEF IdsUnique, TypeOK
  <2>2. /\ \A i, j \in 1 .. Len(ledger) : i # j => ledger[i].id # ledger[j].id
        /\ \A i, j \in 1 .. Len(s) : i # j => s[i].id # s[j].id
        /\ \A i \in 1 .. Len(s), j \in 1 .. Len(ledger) : s[i].id # ledger[j].id
    BY <1>1, <1>2 DEF IdsUnique
  <2> HIDE DEF s
  <2>3. \A i, j \in 1 .. Len(ledger') : i # j => ledger'[i].id # ledger'[j].id
    <3> SUFFICES ASSUME NEW i \in 1 .. Len(ledger'), NEW j \in 1 .. Len(ledger'), i # j
                 PROVE  ledger'[i].id # ledger'[j].id
      OBVIOUS
    <3>1. CASE i <= Len(ledger) /\ j <= Len(ledger)
      BY <1>4, <2>2, <3>1
    <3>2. CASE i <= Len(ledger) /\ ~(j <= Len(ledger))
      <4>1. j - Len(ledger) \in 1 .. Len(s) /\ i \in 1 .. Len(ledger)
        BY <1>4, <3>2
      <4> QED BY <1>4, <2>2, <3>2, <4>1
    <3>3. CASE ~(i <= Len(ledger)) /\ j <= Len(ledger)
      <4>1. i - Len(ledger) \in 1 .. Len(s) /\ j \in 1 .. Len(ledger)
        BY <1>4, <3>3
      <4> QED BY <1>4, <2>2, <3>3, <4>1
    <3>4. CASE ~(i <= Len(ledger)) /\ ~(j <= Len(ledger))
      <4>1. i - Len(ledger) \in 1 .. Len(s) /\ j - Len(ledger) \in 1 .. Len(s)
            /\ i - Len(ledger) # j - Len(ledger)
        BY <1>4, <3>4
      <4> QED BY <1>4, <2>2, <3>4, <4>1
    <3> QED BY <3>1, <3>2, <3>3, <3>4
  <2> QED BY <2>1, <2>3 DEF IdsUnique
<1> HIDE DEF s
<1> QED BY <1>2, <1>3, <1>5, <1>6, LedgerGrows DEF ReadsInv, LedgerInv

LEMMA RollbackReads ==
  ASSUME ReadsInv, NEW x \in Writers, Rollback(x)
  PROVE  ReadsInv'
<1>1. TypeOK /\ Started /\ IdsUnique
  BY DEF ReadsInv, LedgerInv
<1>2. /\ wpc[x] = "open" /\ wpc' = [wpc EXCEPT ![x] = "done"]
      /\ staged' = [staged EXCEPT ![x] = <<>>] /\ lock' = None
      /\ UNCHANGED <<now, stamp, balance, ledger, pageVars, auditVars>>
  BY DEF Rollback, EndWriter
<1>3. \A y \in Writers : wpc'[y] # "open"
  BY <1>1, <1>2 DEF IdsUnique, TypeOK
<1>4. TypeOK' /\ Started' /\ IdsUnique'
  BY <1>1, <1>2, <1>3 DEF TypeOK, Started, IdsUnique, pageVars, auditVars
<1> QED BY <1>2, <1>4, ReadersStay DEF ReadsInv, LedgerInv

-----------------------------------------------------------------------------
(* Readers                                                                 *)

LEMMA TickReads ==
  ASSUME ReadsInv, Tick
  PROVE  ReadsInv'
<1>1. TypeOK' /\ Started' /\ IdsUnique'
  BY DEF ReadsInv, LedgerInv, Tick, TypeOK, Started, IdsUnique, writeVars, pageVars, auditVars
<1> QED BY <1>1, ReadersStay DEF ReadsInv, LedgerInv, Tick, writeVars

LEMMA FindWalletReads ==
  ASSUME ReadsInv, FindWallet
  PROVE  ReadsInv'
<1>1. /\ ledger \in Seq(Entries) /\ balance \in Int /\ balance = Sum(ledger)
      /\ Len(ledger) \in Nat
  BY DEF ReadsInv, LedgerInv, TypeOK, Balanced
<1>2. /\ stored = None /\ stored' = [balance |-> balance, entries |-> Len(ledger)]
      /\ UNCHANGED <<now, writeVars, pageVars, report>>
  BY DEF FindWallet
<1>3. report = None
  BY <1>2 DEF ReadsInv, LedgerInv, Balanced
<1>4. TypeOK' /\ Started' /\ IdsUnique'
  <2>1. stored' \in [balance : Int, entries : Nat]
    BY <1>1, <1>2
  <2> QED BY <1>2, <2>1
       DEF ReadsInv, LedgerInv, TypeOK, Started, IdsUnique, writeVars, pageVars
<1>5. Balanced'
  <2>1. SubSeq(ledger, 1, Len(ledger)) = ledger
    BY <1>1, SubSeqFull
  <2>2. stored'.entries = Len(ledger) /\ stored'.balance = balance
    BY <1>2
  <2>3. /\ stored'.entries <= Len(ledger)
        /\ stored'.balance = Sum(SubSeq(ledger, 1, stored'.entries))
    <3>1. SubSeq(ledger, 1, stored'.entries) = ledger
      BY <2>1, <2>2
    <3>2. Len(ledger) <= Len(ledger)
      BY <1>1
    <3> QED BY <1>1, <2>2, <3>1, <3>2, Zenon
  <2>4. balance' = balance /\ ledger' = ledger /\ report' = None
    BY <1>2, <1>3 DEF writeVars
  <2> QED BY <1>1, <2>3, <2>4 DEF Balanced
<1>6. MismatchIsOvertaken'
  BY <1>2, <1>3 DEF MismatchIsOvertaken
<1>7. AtCursor' /\ PagesAscend' /\ NothingSkipped'
  BY <1>2 DEF ReadsInv, AtCursor, PagesAscend, NothingSkipped, Committed, writeVars, pageVars
<1> QED BY <1>4, <1>5, <1>6, <1>7 DEF ReadsInv, LedgerInv

\* The heart of it: the sum of all entries is that of those the first read
\* could see, and of those committed since.
LEMMA RecalculateReads ==
  ASSUME ReadsInv, Recalculate
  PROVE  ReadsInv'
<1> DEFINE n == Len(ledger)
           d == stored.balance - Sum(ledger)
<1>1. /\ ledger \in Seq(Entries) /\ n \in Nat /\ stored # None
      /\ stored.entries \in Nat /\ stored.balance \in Int /\ stored.entries <= n
      /\ stored.balance = Sum(SubSeq(ledger, 1, stored.entries))
  BY DEF ReadsInv, LedgerInv, TypeOK, Balanced, Recalculate
<1>2. /\ report' = [difference |-> d, consistent |-> d = 0, checkedEntries |-> n]
      /\ UNCHANGED <<now, writeVars, pageVars, stored>>
  BY DEF Recalculate
<1>3. Sum(ledger) \in Int /\ d \in Int
  BY <1>1, SumTotal
<1>4. d = -Sum(SubSeq(ledger, stored.entries + 1, n))
  <2>1. n \in 0 .. Len(ledger) /\ stored.entries \in 0 .. n
    BY <1>1
  <2>2. /\ Sum(SubSeq(ledger, 1, n)) = Sum(SubSeq(ledger, 1, stored.entries))
                                       + Sum(SubSeq(ledger, stored.entries + 1, n))
        /\ Sum(SubSeq(ledger, 1, stored.entries)) \in Int
        /\ Sum(SubSeq(ledger, stored.entries + 1, n)) \in Int
    BY <1>1, <2>1, SumSplit
  <2>3. SubSeq(ledger, 1, n) = ledger
    BY <1>1, SubSeqFull
  <2> DEFINE old == Sum(SubSeq(ledger, 1, stored.entries))
             new == Sum(SubSeq(ledger, stored.entries + 1, n))
  <2>4. Sum(ledger) = old + new /\ old \in Int /\ new \in Int /\ d = old - Sum(ledger)
    BY <1>1, <2>2, <2>3
  <2> HIDE DEF old, new, d
  <2>5. d = -new
    BY <2>4
  <2> QED BY <2>5 DEF new
<1>10. n \in Nat /\ d \in Int /\ (d = 0) \in BOOLEAN
  BY <1>1, <1>3
<1> HIDE DEF d, n
<1>5. report'.difference = d /\ report'.checkedEntries = n
      /\ report' \in [difference : Int, consistent : BOOLEAN, checkedEntries : Nat]
  <2> DEFINE c == d = 0
  <2>1. report' = [difference |-> d, consistent |-> c, checkedEntries |-> n]
    BY <1>2
  <2>2. c \in BOOLEAN
    BY <1>10
  <2> HIDE DEF c
  <2>3. report'.difference = d /\ report'.checkedEntries = n
    BY <2>1
  <2>4. report' \in [difference : Int, consistent : BOOLEAN, checkedEntries : Nat]
    BY <1>10, <2>1, <2>2, Zenon
  <2> QED BY <2>3, <2>4
<1>6. TypeOK' /\ Started' /\ IdsUnique'
  <2>1. UNCHANGED <<now, writeVars, pageVars, stored>>
    BY <1>2
  <2> QED BY <1>5, <2>1
       DEF ReadsInv, LedgerInv, TypeOK, Started, IdsUnique, writeVars, pageVars
<1>7. Balanced'
  <2>1. n <= Len(ledger) /\ stored.entries <= n
    BY <1>1 DEF n
  <2> QED BY <1>1, <1>2, <1>5, <2>1 DEF ReadsInv, LedgerInv, Balanced, writeVars
<1>8. MismatchIsOvertaken'
  BY <1>2, <1>4, <1>5 DEF MismatchIsOvertaken, writeVars
<1>9. AtCursor' /\ PagesAscend' /\ NothingSkipped'
  BY <1>2 DEF ReadsInv, AtCursor, PagesAscend, NothingSkipped, Committed, writeVars, pageVars
<1> QED BY <1>6, <1>7, <1>8, <1>9 DEF ReadsInv, LedgerInv

LEMMA ReadPageReads ==
  ASSUME ReadsInv, ReadPage
  PROVE  ReadsInv'
<1> DEFINE page == Page(cursor)
           n == Len(page)
           m == Len(pages)
<1>1. TypeOK /\ IdsUnique /\ AtCursor /\ PagesAscend /\ NothingSkipped
  BY DEF ReadsInv, LedgerInv
<1>2. /\ ledger \in Seq(Entries) /\ pages \in Seq(Entries) /\ cursor \in Entries \cup {None}
      /\ Len(ledger) \in Nat /\ m \in Nat /\ readAt \in Nat
  BY <1>1 DEF TypeOK
<1>3. /\ ~ended /\ pages' = pages \o page /\ ended' = (n < Limit)
      /\ cursor' = IF n < Limit THEN cursor ELSE page[n]
      /\ readAt' = IF cursor = None THEN Len(ledger) ELSE readAt
      /\ UNCHANGED <<now, writeVars, auditVars>>
  BY DEF ReadPage, NextCursor
<1>4. /\ page \in Seq(Entries) /\ n <= Limit
      /\ \A i \in 1 .. n : page[i] \in Rest(cursor)
      /\ \A i, j \in 1 .. n : i < j => After(page[j], page[i])
      /\ \A e \in Rest(cursor) : \/ \E i \in 1 .. n : page[i] = e
                                 \/ n = Limit /\ After(e, page[Limit])
  BY <1>1, CommittedKeyed, PageIsFirst
<1> HIDE DEF page
<1>5. /\ n \in Nat /\ Limit \in Nat \ {0} /\ None \notin Entries
      /\ \A i \in 1 .. n : page[i] \in Entries /\ Passes(page[i], cursor)
  BY <1>4, ReadsAssumption DEF Rest
<1>6. /\ pages' \in Seq(Entries) /\ Len(pages') = m + n
      /\ \A i \in 1 .. m : pages'[i] = pages[i]
      /\ \A i \in 1 .. n : pages'[m + i] = page[i]
  BY <1>2, <1>3, <1>4
<1>8. TypeOK' /\ Started' /\ IdsUnique' /\ Balanced' /\ MismatchIsOvertaken'
  <2>1. cursor' \in Entries \cup {None} /\ ended' \in BOOLEAN /\ readAt' \in Nat
    <3>1. n < Limit \/ n \in 1 .. n
      BY <1>4, <1>5
    <3>2. cursor' \in Entries \cup {None}
      BY <1>2, <1>3, <1>5, <3>1
    <3>3. ended' \in BOOLEAN
      BY <1>3
    <3>4. readAt' \in Nat
      BY <1>2, <1>3
    <3> QED BY <3>2, <3>3, <3>4
  <2>2. TypeOK'
    BY <1>1, <1>3, <1>6, <2>1 DEF TypeOK, writeVars, auditVars
  <2>3. Started' /\ IdsUnique'
    BY <1>3 DEF ReadsInv, LedgerInv, Started, IdsUnique, writeVars
  <2>4. Balanced' /\ MismatchIsOvertaken'
    BY <1>3 DEF ReadsInv, LedgerInv, Balanced, MismatchIsOvertaken, writeVars, auditVars
  <2> QED BY <2>2, <2>3, <2>4
<1>9. AtCursor'
  <2>1. readAt' <= Len(ledger')
    BY <1>1, <1>2, <1>3 DEF AtCursor, writeVars
  <2>2. ASSUME ~ended'
        PROVE  cursor' # None /\ pages' # <<>> /\ cursor' = pages'[Len(pages')]
    <3>0. ~(n < Limit)
      BY <1>3, <2>2
    <3>1. n = Limit /\ n \in 1 .. n /\ cursor' = page[n]
      BY <1>3, <1>4, <1>5, <3>0
    <3>2. pages'[m + n] = page[n] /\ page[n] \in Entries /\ m + n # 0
      BY <1>2, <1>5, <1>6, <3>1
    <3> QED BY <1>5, <1>6, <3>1, <3>2
  <2> QED BY <2>1, <2>2 DEF AtCursor
<1>10. PagesAscend'
  <2> SUFFICES ASSUME NEW i \in 1 .. m + n, NEW j \in 1 .. m + n, i < j
               PROVE  After(pages'[j], pages'[i])
    BY <1>6 DEF PagesAscend
  <2>1. CASE j <= m
    <3>1. i \in 1 .. m /\ j \in 1 .. m
      BY <1>2, <2>1
    <3> QED BY <1>1, <1>6, <3>1 DEF PagesAscend
  <2>2. CASE i <= m /\ ~(j <= m)
    <3> DEFINE k == j - m
    <3>1. k \in 1 .. n /\ j = m + k /\ i \in 1 .. m /\ m \in 1 .. m
      BY <1>2, <1>5, <2>2
    <3>2. cursor # None /\ cursor = pages[m]
      BY <1>1, <1>2, <1>3, <3>1 DEF AtCursor
    <3>3. After(page[k], pages[m])
      BY <1>5, <3>1, <3>2 DEF Passes
    <3>4. i = m \/ After(pages[m], pages[i])
      BY <1>1, <1>2, <3>1 DEF PagesAscend
    <3>5. page[k] \in Entries /\ pages[m] \in Entries /\ pages[i] \in Entries
      BY <1>2, <1>5, <3>1
    <3>6. pages'[j] = page[k] /\ pages'[i] = pages[i]
      BY <1>6, <3>1
    <3> QED BY <3>3, <3>4, <3>5, <3>6, AfterIsAnOrder
  <2>3. CASE ~(i <= m) /\ ~(j <= m)
    <3>1. i - m \in 1 .. n /\ j - m \in 1 .. n /\ i - m < j - m
          /\ i = m + (i - m) /\ j = m + (j - m)
      BY <1>2, <1>5, <2>3
    <3>2. After(page[j - m], page[i - m])
      BY <1>4, <3>1
    <3>3. pages'[j] = page[j - m] /\ pages'[i] = page[i - m]
      BY <1>6, <3>1
    <3> QED BY <3>2, <3>3
  <2> QED BY <1>2, <2>1, <2>2, <2>3
<1>11. NothingSkipped'
  <2>0. ledger' = ledger
    BY <1>3 DEF writeVars
  <2> SUFFICES ASSUME NEW e \in {ledger[i] : i \in 1 .. readAt'}
               PROVE  (~ended' /\ (cursor' = None \/ After(e, cursor'))) \/ e \in ToSet(pages')
    BY <2>0 DEF NothingSkipped, Committed, Passes
  <2>6. readAt' \in Nat /\ readAt' <= Len(ledger)
    BY <1>1, <1>2, <1>3 DEF AtCursor
  <2>1. e \in Committed(Len(ledger))
    <3>1. PICK i \in 1 .. readAt' : e = ledger[i]
      OBVIOUS
    <3>2. i \in 1 .. Len(ledger)
      BY <1>2, <2>6
    <3> QED BY <3>1, <3>2 DEF Committed
  <2>2. Passes(e, cursor) \/ e \in ToSet(pages)
    <3>1. CASE cursor = None
      BY <3>1 DEF Passes
    <3>2. CASE cursor # None
      <4>1. readAt' = readAt
        BY <1>3, <3>2
      <4>2. e \in Committed(readAt)
        BY <4>1 DEF Committed
      <4> QED BY <1>1, <4>2 DEF NothingSkipped
    <3> QED BY <3>1, <3>2
  <2>3. ToSet(pages') = {pages'[i] : i \in 1 .. m + n} /\ ToSet(pages) = {pages[i] : i \in 1 .. m}
    <3>1. DOMAIN pages' = 1 .. m + n /\ DOMAIN pages = 1 .. m
      BY <1>2, <1>6
    <3> QED BY <3>1, Zenon DEF ToSet
  <2>4. CASE e \in ToSet(pages)
    <3>1. PICK i \in 1 .. m : e = pages[i]
      BY <2>3, <2>4
    <3>2. i \in 1 .. m + n /\ pages'[i] = e
      BY <1>2, <1>5, <1>6, <3>1
    <3> QED BY <2>3, <3>2
  <2>5. CASE Passes(e, cursor)
    <3>1. e \in Rest(cursor)
      BY <2>1, <2>5 DEF Rest
    <3>2. CASE \E i \in 1 .. n : page[i] = e
      <4>1. PICK i \in 1 .. n : page[i] = e
        BY <3>2
      <4>2. m + i \in 1 .. m + n /\ pages'[m + i] = e
        BY <1>2, <1>5, <1>6, <4>1
      <4> QED BY <2>3, <4>2
    <3>3. CASE n = Limit /\ After(e, page[Limit])
      <4>1. ~(n < Limit) /\ n = Limit
        BY <1>5, <3>3
      <4>2. ~ended'
        BY <1>3, <4>1, Zenon
      <4>3. cursor' = page[Limit]
        BY <1>3, <4>1, Zenon
      <4> QED BY <3>3, <4>2, <4>3, Zenon
    <3> QED BY <1>4, <3>1, <3>2, <3>3
  <2> QED BY <2>2, <2>4, <2>5
<1> QED BY <1>8, <1>9, <1>10, <1>11 DEF ReadsInv, LedgerInv

-----------------------------------------------------------------------------
(* The theorems                                                            *)

LEMMA StutterReads == ASSUME ReadsInv, UNCHANGED vars PROVE ReadsInv'
BY ReadersStay DEF ReadsInv, LedgerInv, TypeOK, Started, IdsUnique, vars, writeVars,
                   pageVars, auditVars

LEMMA StepReads == ReadsInv /\ [Next]_vars => ReadsInv'
<1> SUFFICES ASSUME ReadsInv, [Next]_vars PROVE ReadsInv'
  OBVIOUS
<1>1. CASE Tick
  BY <1>1, TickReads
<1>2. CASE ReadPage
  BY <1>2, ReadPageReads
<1>3. CASE FindWallet
  BY <1>3, FindWalletReads
<1>4. CASE Recalculate
  BY <1>4, RecalculateReads
<1>5. ASSUME NEW x \in Writers, Begin(x) \/ Apply(x) \/ Commit(x) \/ Rollback(x)
      PROVE  ReadsInv'
  BY <1>5, BeginReads, ApplyReads, CommitReads, RollbackReads
<1>6. CASE UNCHANGED vars
  BY <1>6, StutterReads
<1> QED BY <1>1, <1>2, <1>3, <1>4, <1>5, <1>6 DEF Next

LEMMA ReadsHold == Spec => []ReadsInv
<1> QED BY InitReads, StepReads, PTL DEF Spec

\* Reconciliation (wallet, then entries, in two statements) is off by exactly
\* the sum of what committed between the two, so it never accuses books that
\* are right when nothing did, for any number of writers and entries.
THEOREM AuditsAccuseNobody == Spec => []MismatchIsOvertaken
<1>1. ReadsInv => MismatchIsOvertaken
  BY DEF ReadsInv
<1> QED BY <1>1, ReadsHold, PTL

\* The pages of a ledger, one after the other, are in its order and repeat
\* nothing, whatever commits while they are read.
THEOREM PagesNeverRepeat == Spec => []PagesAscend
<1>1. ReadsInv => PagesAscend
  BY DEF ReadsInv
<1> QED BY <1>1, ReadsHold, PTL

\* What was committed before the first page was asked for is on some page, or
\* still ahead of the cursor.
THEOREM PagesSkipNothing == Spec => []NothingSkipped
<1>1. ReadsInv => NothingSkipped
  BY DEF ReadsInv
<1> QED BY <1>1, ReadsHold, PTL
====
