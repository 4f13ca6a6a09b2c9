--------------------------- MODULE Induction_proofs ---------------------------
(***************************************************************************)
(* Induction and recursion stated of sets and functions instead of         *)
(* predicates and operators, so that every proof can instantiate them: the *)
(* set holds the values of which the claim is true, the function maps what *)
(* a loop holds to what it holds one turn later.  The last section is      *)
(* about sums and products over finite sets, as the folds of the library   *)
(* compute them.                                                           *)
(***************************************************************************)
EXTENDS Integers, FiniteSetTheorems, WellFoundedInduction, TLAPS

LEMMA SmallestMember ==
  ASSUME NEW S, S \subseteq Nat, S # {}
  PROVE  \E x \in S : \A y \in S : x <= y
<1>1. PICK x \in S : \A y \in S : ~ (<<y, x>> \in OpToRel(<, Nat))
  BY NatLessThanWellFounded, WFMin
<1>2. ASSUME NEW y \in S PROVE x <= y
  <2>1. y \in Nat /\ x \in Nat
    OBVIOUS
  <2>2. ~ (y < x)
    <3>1. <<y, x>> \in Nat \X Nat
      BY <2>1
    <3>. QED  BY <1>1, <3>1 DEF OpToRel
  <2>. QED  BY <2>1, <2>2
<1>. QED  BY <1>2

(* What holds at 0 and carries over from each turn to the next holds at N. *)
LEMMA UpwardInduction ==
  ASSUME NEW N \in Nat, NEW P, 0 \in P,
         \A n \in 0 .. N - 1 : n \in P => n + 1 \in P
  PROVE  0 .. N \subseteq P
<1>. SUFFICES ASSUME {n \in 0 .. N : n \notin P} # {} PROVE FALSE
  OBVIOUS
<1>. DEFINE bad == {n \in 0 .. N : n \notin P}
<1>1. PICK m \in bad : \A n \in bad : m <= n
  <2>1. bad \subseteq Nat
    OBVIOUS
  <2>. QED  BY <2>1, SmallestMember
<1>2. m \in 1 .. N /\ m - 1 \in 0 .. N - 1
  BY <1>1
<1>3. m - 1 \in P
  BY <1>1, <1>2
<1>. QED  BY <1>1, <1>2, <1>3

(* The same, one element at a time, for a finite set. *)
LEMMA SetInduction ==
  ASSUME NEW S, IsFiniteSet(S), NEW P, {} \in P,
         \A T \in SUBSET S : \A x \in S \ T : T \in P => T \cup {x} \in P
  PROVE  S \in P
<1>. DEFINE Q == {n \in 0 .. Cardinality(S) : \A T \in SUBSET S : Cardinality(T) = n => T \in P}
            N == Cardinality(S)
<1>1. N \in Nat
  BY FS_CardinalityType
<1>2. 0 \in Q
  <2>1. ASSUME NEW T \in SUBSET S, Cardinality(T) = 0 PROVE T \in P
    BY <2>1, FS_Subset, FS_EmptySet
  <2>. QED  BY <1>1, <2>1
<1>3. ASSUME NEW n \in 0 .. N - 1, n \in Q PROVE n + 1 \in Q
  <2>1. ASSUME NEW T \in SUBSET S, Cardinality(T) = n + 1 PROVE T \in P
    <3>1. IsFiniteSet(T)
      BY FS_Subset
    <3>0. n \in Nat /\ Cardinality(T) # 0
      BY <1>1, <2>1
    <3>2. PICK x \in T : TRUE
      BY <3>0, <3>1, FS_EmptySet
    <3>. DEFINE U == T \ {x}
    <3>3. IsFiniteSet(U) /\ Cardinality(U) = n
      <4>1. IsFiniteSet(U) /\ Cardinality(U) = Cardinality(T) - 1
        BY <3>1, FS_RemoveElement
      <4>. QED  BY <2>1, <3>0, <4>1
    <3>4. U \in P
      BY <1>3, <3>3
    <3>5. U \cup {x} \in P
      BY <3>4
    <3>6. U \cup {x} = T
      OBVIOUS
    <3>. QED  BY <3>5, <3>6
  <2>2. n + 1 \in 0 .. N
    BY <1>1
  <2>. QED  BY <2>1, <2>2
<1>. HIDE DEF Q, N
<1>4. 0 .. N \subseteq Q
  BY <1>1, <1>2, <1>3, UpwardInduction
<1>5. N \in Q
  BY <1>1, <1>4
<1>. QED  BY <1>5 DEF Q, N

(* f is the course of a loop of N turns: what it holds after each of them. *)
Course(f, N, S, start, turn) ==
  /\ f \in [0 .. N -> S] /\ f[0] = start
  /\ \A n \in 1 .. N : f[n] = turn[n][f[n - 1]]

(* A loop of N turns has a course, whatever each turn makes of what it finds. *)
LEMMA CourseExists ==
  ASSUME NEW N \in Nat, NEW S, NEW start \in S, NEW turn \in [1 .. N -> [S -> S]]
  PROVE  \E f : Course(f, N, S, start, turn)
<1>. DEFINE P == {m \in 0 .. N : \E f : Course(f, m, S, start, turn)}
<1>1. 0 \in P
  <2>1. Course([n \in 0 .. 0 |-> start], 0, S, start, turn)
    BY DEF Course
  <2>. QED  BY <2>1
<1>2. ASSUME NEW m \in 0 .. N - 1, m \in P PROVE m + 1 \in P
  <2>1. PICK f : Course(f, m, S, start, turn)
    BY <1>2
  <2>. DEFINE g == [n \in 0 .. m + 1 |-> IF n = m + 1 THEN turn[m + 1][f[m]] ELSE f[n]]
  <2>2. m + 1 \in 1 .. N /\ f[m] \in S
    BY <2>1 DEF Course
  <2>3. turn[m + 1][f[m]] \in S
    BY <2>2
  <2>4. g \in [0 .. m + 1 -> S] /\ g[0] = start
    BY <2>1, <2>3 DEF Course
  <2>5. ASSUME NEW n \in 1 .. m + 1 PROVE g[n] = turn[n][g[n - 1]]
    <3>1. g[n - 1] = f[n - 1]
      BY <2>5
    <3>2. CASE n = m + 1
      BY <3>1, <3>2
    <3>3. CASE n # m + 1
      <4>1. n \in 1 .. m
        BY <3>3
      <4>. QED  BY <2>1, <3>1, <3>3, <4>1 DEF Course
    <3>. QED  BY <3>2, <3>3
  <2>. HIDE DEF g
  <2>6. Course(g, m + 1, S, start, turn)
    BY <2>4, <2>5 DEF Course
  <2>. QED  BY <2>2, <2>6
<1>3. 0 .. N \subseteq P
  <2>. HIDE DEF P
  <2>. QED  BY <1>1, <1>2, UpwardInduction
<1>. QED  BY <1>3

-----------------------------------------------------------------------------
(* Folds and sums over a finite set. *)

(* What holds of a set whenever it holds of all its proper subsets holds of *)
(* every finite set. *)
LEMMA SubsetInduction ==
  ASSUME NEW S, IsFiniteSet(S), NEW P,
         \A T \in SUBSET S : (\A U \in SUBSET T : U # T => U \in P) => T \in P
  PROVE  SUBSET S \subseteq P
<1>. DEFINE Q == {n \in Nat : \A T \in SUBSET S : Cardinality(T) <= n => T \in P}
            N == Cardinality(S)
<1>1. N \in Nat /\ \A T \in SUBSET S : IsFiniteSet(T) /\ Cardinality(T) \in Nat /\ Cardinality(T) <= N
  BY FS_CardinalityType, FS_Subset
<1>2. ASSUME NEW n \in Nat, NEW T \in SUBSET S, Cardinality(T) <= n + 1,
             \A V \in SUBSET S : Cardinality(V) <= n => V \in P
      PROVE  T \in P
  <2>1. ASSUME NEW U \in SUBSET T, U # T PROVE U \in P
    <3>1. IsFiniteSet(T) /\ U \in SUBSET S
      BY <1>1
    <3>2. Cardinality(U) \in Nat /\ Cardinality(T) \in Nat /\ Cardinality(U) < Cardinality(T)
      BY <1>1, <2>1, <3>1, FS_Subset
    <3>3. Cardinality(U) <= n
      BY <1>2, <3>2
    <3>. QED  BY <1>2, <3>1, <3>3
  <2>. QED  BY <2>1
<1>3. 0 \in Q
  <2>1. ASSUME NEW T \in SUBSET S, Cardinality(T) <= 0 PROVE T \in P
    <3>1. T = {}
      BY <1>1, <2>1, FS_EmptySet
    <3>2. \A U \in SUBSET T : U # T => U \in P
      BY <3>1
    <3>. QED  BY <3>2
  <2>. QED  BY <2>1
<1>4. ASSUME NEW n \in 0 .. N - 1, n \in Q PROVE n + 1 \in Q
  BY <1>2, <1>4
<1>. HIDE DEF Q
<1>5. 0 .. N \subseteq Q
  <2>. HIDE DEF N
  <2>. QED  BY <1>1, <1>3, <1>4, UpwardInduction
<1>6. N \in Q
  BY <1>1, <1>5
<1>. QED  BY <1>1, <1>6 DEF Q

(* fold holds what a fold over each subset of S makes of it, the elements *)
(* taken as pick says; and there is such a fold. *)
FoldsOver(fold, S, base, turn, pick) ==
  fold = [T \in SUBSET S |-> IF T = {} THEN base ELSE turn[pick[T]][fold[T \ {pick[T]}]]]

HasFold(S, A, base, turn, pick) ==
  \E fold \in [SUBSET S -> A] : FoldsOver(fold, S, base, turn, pick)

CanFold(S, A, base, turn, pick) ==
  /\ IsFiniteSet(S) /\ base \in A /\ turn \in [S -> [A -> A]]
  /\ \A T \in SUBSET S : T # {} => pick[T] \in T

LEMMA FoldsExist ==
  ASSUME NEW S, NEW A, NEW base, NEW turn, NEW pick, CanFold(S, A, base, turn, pick)
  PROVE  HasFold(S, A, base, turn, pick)
<1>. DEFINE N == Cardinality(S)
            Folds == [SUBSET S -> A]
            start == [T \in SUBSET S |-> base]
            value(fold, T) == IF T = {} THEN base ELSE turn[pick[T]][fold[T \ {pick[T]}]]
            next(fold) == [T \in SUBSET S |-> value(fold, T)]
            round == [n \in 1 .. N |-> [fold \in Folds |-> next(fold)]]
<1>0. /\ IsFiniteSet(S) /\ base \in A /\ turn \in [S -> [A -> A]]
      /\ \A T \in SUBSET S : T # {} => pick[T] \in T
  BY DEF CanFold
<1>1. N \in Nat /\ \A T \in SUBSET S : IsFiniteSet(T) /\ Cardinality(T) \in 0 .. N
  BY <1>0, FS_CardinalityType, FS_Subset
<1>2. \A T \in SUBSET S : T # {} => pick[T] \in S /\ T \ {pick[T]} \in SUBSET S
  BY <1>0
<1>3. ASSUME NEW fold \in Folds, NEW T \in SUBSET S PROVE value(fold, T) \in A
  BY <1>0, <1>2
<1>4. round \in [1 .. N -> [Folds -> Folds]]
  <2>1. ASSUME NEW fold \in Folds PROVE next(fold) \in Folds
    <3>1. \A T \in SUBSET S : value(fold, T) \in A
      <4>. HIDE DEF Folds, value
      <4>. QED  BY <1>3
    <3>. HIDE DEF value
    <3>. QED  BY <3>1
  <2>. HIDE DEF next, Folds
  <2>. QED  BY <2>1
<1>5. start \in Folds
  BY <1>0
<1>6. PICK f : Course(f, N, Folds, start, round)
  <2>. HIDE DEF Folds, start, round, N
  <2>. QED  BY <1>1, <1>4, <1>5, CourseExists
<1>. DEFINE fold == [T \in SUBSET S |-> f[Cardinality(T)][T]]
<1>7. ASSUME NEW T \in SUBSET S PROVE fold[T] = value(fold, T)
  <2>1. CASE T = {}
    <3>1. Cardinality(T) = 0
      BY <2>1, FS_EmptySet
    <3>. QED  BY <1>6, <2>1, <3>1 DEF Course
  <2>2. CASE T # {}
    <3>. DEFINE n == Cardinality(T)
                U == T \ {pick[T]}
    <3>1. n \in 1 .. N /\ Cardinality(U) = n - 1
      <4>1. IsFiniteSet(T) /\ pick[T] \in T
        BY <1>0, <1>1, <2>2
      <4>2. Cardinality(U) = n - 1
        BY <4>1, FS_RemoveElement
      <4>3. n # 0
        BY <4>1, FS_EmptySet
      <4>. QED  BY <1>1, <4>2, <4>3
    <3>2. f[n] = round[n][f[n - 1]] /\ f[n - 1] \in Folds
      <4>. HIDE DEF round, Folds, n
      <4>1. n \in 1 .. N /\ n - 1 \in 0 .. N
        BY <3>1, <1>1
      <4>. QED  BY <1>6, <4>1 DEF Course
    <3>3. f[n][T] = turn[pick[T]][f[n - 1][U]]
      BY <2>2, <3>1, <3>2
    <3>. QED  BY <2>2, <3>1, <3>3
  <2>. QED  BY <2>1, <2>2
<1>8. fold \in Folds
  <2>1. ASSUME NEW T \in SUBSET S PROVE f[Cardinality(T)][T] \in A
    <3>1. f[Cardinality(T)] \in Folds
      <4>. HIDE DEF Folds
      <4>. QED  BY <1>1, <1>6 DEF Course
    <3>. QED  BY <3>1
  <2>. QED  BY <2>1
<1>9. fold = [T \in SUBSET S |-> value(fold, T)]
  <2>. DEFINE r == [T \in SUBSET S |-> value(fold, T)]
  <2>1. fold = [T \in SUBSET S |-> fold[T]]
    OBVIOUS
  <2>2. \A T \in SUBSET S : fold[T] = r[T]
    <3>. HIDE DEF fold, value
    <3>. QED  BY <1>7
  <2>3. r = [T \in SUBSET S |-> r[T]]
    OBVIOUS
  <2>. HIDE DEF value
  <2>. QED  BY <2>1, <2>2, <2>3
<1>. QED  BY <1>8, <1>9 DEF FoldsOver, HasFold

(* sum holds the sum of the weights over each subset of S, the elements *)
(* taken in the order CHOOSE gives. *)
Some(T) == CHOOSE x \in T : TRUE

SumsOver(sum, S, weight) ==
  sum = [T \in SUBSET S |-> IF T = {} THEN 0 ELSE weight[Some(T)] + sum[T \ {Some(T)}]]

LEMMA SumsExist ==
  ASSUME NEW S, IsFiniteSet(S), NEW weight \in [S -> Int]
  PROVE  \E sum : SumsOver(sum, S, weight)
<1>. DEFINE turn == [x \in S |-> [n \in Int |-> weight[x] + n]]
            pick == [T \in SUBSET S |-> Some(T)]
<1>1. turn \in [S -> [Int -> Int]] /\ \A T \in SUBSET S : T # {} => pick[T] \in T /\ pick[T] = Some(T)
  BY DEF Some
<1>2. \A x \in S, n \in Int : turn[x][n] = weight[x] + n
  OBVIOUS
<1>. HIDE DEF turn, pick
<1>3. HasFold(S, Int, 0, turn, pick)
  <2>1. CanFold(S, Int, 0, turn, pick)
    BY <1>1 DEF CanFold
  <2>. QED  BY <2>1, FoldsExist
<1>4. PICK sum \in [SUBSET S -> Int] : FoldsOver(sum, S, 0, turn, pick)
  BY <1>3 DEF HasFold
<1>. DEFINE a(T) == IF T = {} THEN 0 ELSE turn[pick[T]][sum[T \ {pick[T]}]]
            b(T) == IF T = {} THEN 0 ELSE weight[Some(T)] + sum[T \ {Some(T)}]
<1>5. \A T \in SUBSET S : a(T) = b(T)
  <2>. TAKE T \in SUBSET S
  <2>1. CASE T # {}
    <3>1. Some(T) \in S /\ sum[T \ {Some(T)}] \in Int
      BY <1>1, <2>1
    <3>. QED  BY <1>1, <1>2, <2>1, <3>1
  <2>. QED  BY <2>1
<1>6. sum = [T \in SUBSET S |-> a(T)]
  BY <1>4 DEF FoldsOver
<1>7. sum = [T \in SUBSET S |-> b(T)]
  <2>. HIDE DEF a, b
  <2>. QED  BY <1>5, <1>6
<1>. QED  BY <1>7 DEF SumsOver

LEMMA SumsTyped ==
  ASSUME NEW S, IsFiniteSet(S), NEW weight \in [S -> Int], NEW sum, SumsOver(sum, S, weight)
  PROVE  sum \in [SUBSET S -> Int]
<1>. DEFINE P == {T \in SUBSET S : sum[T] \in Int}
<1>1. ASSUME NEW T \in SUBSET S, \A U \in SUBSET T : U # T => U \in P PROVE T \in P
  <2>1. CASE T = {}
    BY <2>1 DEF SumsOver
  <2>2. CASE T # {}
    <3>1. Some(T) \in T
      BY <2>2 DEF Some
    <3>2. T \ {Some(T)} \in P
      BY <1>1, <3>1
    <3>3. weight[Some(T)] \in Int /\ sum[T \ {Some(T)}] \in Int
      BY <3>1, <3>2
    <3>4. sum[T] = weight[Some(T)] + sum[T \ {Some(T)}]
      BY <2>2 DEF SumsOver
    <3>. QED  BY <3>3, <3>4
  <2>. QED  BY <2>1, <2>2
<1>. HIDE DEF P
<1>2. SUBSET S \subseteq P
  BY <1>1, SubsetInduction
<1>3. \A T \in SUBSET S : sum[T] \in Int
  BY <1>2 DEF P
<1>. QED  BY <1>3 DEF SumsOver

(* Any element may be taken first. *)
LEMMA SumsAnyFirst ==
  ASSUME NEW S, IsFiniteSet(S), NEW weight \in [S -> Int], NEW sum, SumsOver(sum, S, weight)
  PROVE  \A T \in SUBSET S : \A x \in T : sum[T] = weight[x] + sum[T \ {x}]
<1>. DEFINE P == {T \in SUBSET S : \A x \in T : sum[T] = weight[x] + sum[T \ {x}]}
<1>1. ASSUME NEW T \in SUBSET S, \A U \in SUBSET T : U # T => U \in P PROVE T \in P
  <2>. SUFFICES ASSUME NEW x \in T PROVE sum[T] = weight[x] + sum[T \ {x}]
    OBVIOUS
  <2>. DEFINE c == Some(T)
  <2>1. c \in T
    BY DEF Some
  <2>2. sum[T] = weight[c] + sum[T \ {c}]
    BY DEF SumsOver
  <2>. HIDE DEF c
  <2>3. CASE x = c
    BY <2>2, <2>3
  <2>4. CASE x # c
    <3>1. T \ {c} \in P /\ T \ {x} \in P
      BY <1>1, <2>1
    <3>2. sum[T \ {c}] = weight[x] + sum[(T \ {c}) \ {x}]
      BY <2>4, <3>1
    <3>3. sum[T \ {x}] = weight[c] + sum[(T \ {x}) \ {c}]
      BY <2>1, <2>4, <3>1
    <3>4. (T \ {c}) \ {x} = (T \ {x}) \ {c} /\ (T \ {c}) \ {x} \in SUBSET S
      OBVIOUS
    <3>5. sum[(T \ {x}) \ {c}] \in Int /\ weight[x] \in Int /\ weight[c] \in Int
      <4>1. sum \in [SUBSET S -> Int]
        BY SumsTyped
      <4>. QED  BY <2>1, <3>4, <4>1
    <3>6. sum[(T \ {c}) \ {x}] = sum[(T \ {x}) \ {c}]
      BY <3>4
    <3>. QED  BY <2>2, <3>2, <3>3, <3>5, <3>6
  <2>. QED  BY <2>3, <2>4
<1>. HIDE DEF P
<1>2. SUBSET S \subseteq P
  BY <1>1, SubsetInduction
<1>. QED  BY <1>2 DEF P

(* Sums of weights that agree are the same, whatever sets they are subsets of. *)
LEMMA SumsAgree ==
  ASSUME NEW S, IsFiniteSet(S), NEW weight \in [S -> Int], NEW sum, SumsOver(sum, S, weight),
         NEW R, IsFiniteSet(R), NEW other \in [R -> Int], NEW that, SumsOver(that, R, other),
         NEW V, V \subseteq S, V \subseteq R, \A x \in V : weight[x] = other[x]
  PROVE  sum[V] = that[V]
<1>. DEFINE P == {T \in SUBSET V : sum[T] = that[T]}
<1>1. ASSUME NEW T \in SUBSET V, \A U \in SUBSET T : U # T => U \in P PROVE T \in P
  <2>0. T \in SUBSET S /\ T \in SUBSET R
    OBVIOUS
  <2>1. CASE T = {}
    BY <2>0, <2>1 DEF SumsOver
  <2>2. CASE T # {}
    <3>1. Some(T) \in T
      BY <2>2 DEF Some
    <3>2. T \ {Some(T)} \in P
      BY <1>1, <3>1
    <3>3. sum[T] = weight[Some(T)] + sum[T \ {Some(T)}]
      BY <2>0, <2>2 DEF SumsOver
    <3>4. that[T] = other[Some(T)] + that[T \ {Some(T)}]
      BY <2>0, <2>2 DEF SumsOver
    <3>. QED  BY <3>1, <3>2, <3>3, <3>4
  <2>. QED  BY <2>1, <2>2
<1>. HIDE DEF P
<1>2. IsFiniteSet(V)
  BY FS_Subset
<1>3. SUBSET V \subseteq P
  BY <1>1, <1>2, SubsetInduction
<1>. QED  BY <1>3 DEF P

(* The same for products of positive factors. *)
ProductsOver(prod, S, factor) ==
  prod = [T \in SUBSET S |-> IF T = {} THEN 1 ELSE factor[Some(T)] * prod[T \ {Some(T)}]]

LEMMA ProductsExist ==
  ASSUME NEW S, IsFiniteSet(S), NEW factor \in [S -> Nat \ {0}]
  PROVE  \E prod : ProductsOver(prod, S, factor)
<1>. DEFINE Pos == Nat \ {0}
            turn == [x \in S |-> [n \in Pos |-> factor[x] * n]]
            pick == [T \in SUBSET S |-> Some(T)]
<1>0. \A m, n \in Pos : m * n \in Pos
  OBVIOUS
<1>1. turn \in [S -> [Pos -> Pos]] /\ \A T \in SUBSET S : T # {} => pick[T] \in T /\ pick[T] = Some(T)
  <2>1. \A x \in S : factor[x] \in Pos
    OBVIOUS
  <2>2. \A x \in S, n \in Pos : factor[x] * n \in Pos
    <3>. HIDE DEF Pos
    <3>. QED  BY <1>0, <2>1
  <2>. HIDE DEF Pos
  <2>. QED  BY <2>2 DEF Some
<1>2. \A x \in S, n \in Pos : turn[x][n] = factor[x] * n
  OBVIOUS
<1>3. HasFold(S, Pos, 1, turn, pick)
  <2>1. 1 \in Pos
    OBVIOUS
  <2>. HIDE DEF turn, pick, Pos
  <2>2. CanFold(S, Pos, 1, turn, pick)
    BY <1>1, <2>1 DEF CanFold
  <2>. QED  BY <2>2, FoldsExist
<1>. HIDE DEF turn, pick, Pos
<1>4. PICK prod \in [SUBSET S -> Pos] : FoldsOver(prod, S, 1, turn, pick)
  BY <1>3 DEF HasFold
<1>. DEFINE a(T) == IF T = {} THEN 1 ELSE turn[pick[T]][prod[T \ {pick[T]}]]
            b(T) == IF T = {} THEN 1 ELSE factor[Some(T)] * prod[T \ {Some(T)}]
<1>5. \A T \in SUBSET S : a(T) = b(T)
  <2>. TAKE T \in SUBSET S
  <2>1. CASE T # {}
    <3>1. Some(T) \in S /\ prod[T \ {Some(T)}] \in Pos
      BY <1>1, <2>1
    <3>. QED  BY <1>1, <1>2, <2>1, <3>1
  <2>. QED  BY <2>1
<1>6. prod = [T \in SUBSET S |-> a(T)]
  BY <1>4 DEF FoldsOver
<1>7. prod = [T \in SUBSET S |-> b(T)]
  <2>. HIDE DEF a, b
  <2>. QED  BY <1>5, <1>6
<1>. QED  BY <1>7 DEF ProductsOver

LEMMA ProductsTyped ==
  ASSUME NEW S, IsFiniteSet(S), NEW factor \in [S -> Nat \ {0}],
         NEW prod, ProductsOver(prod, S, factor)
  PROVE  \A T \in SUBSET S : prod[T] \in Nat \ {0}
<1>. DEFINE P == {T \in SUBSET S : prod[T] \in Nat \ {0}}
<1>1. ASSUME NEW T \in SUBSET S, \A U \in SUBSET T : U # T => U \in P PROVE T \in P
  <2>1. CASE T = {}
    BY <2>1 DEF ProductsOver
  <2>2. CASE T # {}
    <3>1. Some(T) \in T
      BY <2>2 DEF Some
    <3>2. T \ {Some(T)} \in P
      BY <1>1, <3>1
    <3>3. PICK m, n \in Nat \ {0} : m = factor[Some(T)] /\ n = prod[T \ {Some(T)}]
      BY <3>1, <3>2
    <3>4. prod[T] = m * n
      BY <2>2, <3>3 DEF ProductsOver
    <3>5. m * n \in Nat \ {0}
      OBVIOUS
    <3>. QED  BY <3>4, <3>5
  <2>. QED  BY <2>1, <2>2
<1>. HIDE DEF P
<1>2. SUBSET S \subseteq P
  BY <1>1, SubsetInduction
<1>. QED  BY <1>2 DEF P

LEMMA ProductsAnyFirst ==
  ASSUME NEW S, IsFiniteSet(S), NEW factor \in [S -> Nat \ {0}],
         NEW prod, ProductsOver(prod, S, factor)
  PROVE  \A T \in SUBSET S : \A x \in T : prod[T] = factor[x] * prod[T \ {x}]
<1>. DEFINE P == {T \in SUBSET S : \A x \in T : prod[T] = factor[x] * prod[T \ {x}]}
<1>1. ASSUME NEW T \in SUBSET S, \A U \in SUBSET T : U # T => U \in P PROVE T \in P
  <2>. SUFFICES ASSUME NEW x \in T PROVE prod[T] = factor[x] * prod[T \ {x}]
    OBVIOUS
  <2>. DEFINE c == Some(T)
  <2>1. c \in T
    BY DEF Some
  <2>2. prod[T] = factor[c] * prod[T \ {c}]
    BY DEF ProductsOver
  <2>. HIDE DEF c
  <2>3. CASE x = c
    BY <2>2, <2>3
  <2>4. CASE x # c
    <3>1. T \ {c} \in P /\ T \ {x} \in P
      BY <1>1, <2>1
    <3>2. prod[T \ {c}] = factor[x] * prod[(T \ {c}) \ {x}]
      BY <2>4, <3>1
    <3>3. prod[T \ {x}] = factor[c] * prod[(T \ {x}) \ {c}]
      BY <2>1, <2>4, <3>1
    <3>4. (T \ {c}) \ {x} = (T \ {x}) \ {c} /\ (T \ {c}) \ {x} \in SUBSET S
      OBVIOUS
    <3>5. PICK p, m, n \in Nat \ {0} : p = prod[(T \ {x}) \ {c}] /\ m = factor[x] /\ n = factor[c]
      BY <2>1, <3>4, ProductsTyped
    <3>6. prod[T] = n * (m * p)
      BY <2>2, <3>2, <3>4, <3>5
    <3>7. factor[x] * prod[T \ {x}] = m * (n * p)
      BY <3>3, <3>5
    <3>8. n * (m * p) = m * (n * p)
      OBVIOUS
    <3>. QED  BY <3>6, <3>7, <3>8
  <2>. QED  BY <2>3, <2>4
<1>. HIDE DEF P
<1>2. SUBSET S \subseteq P
  BY <1>1, SubsetInduction
<1>. QED  BY <1>2 DEF P
===============================================================================
