------------------------------ MODULE SumTheorems ------------------------------
(***************************************************************************)
(* What the proofs need to know of finite sets of numbers, of folds, of    *)
(* sums and of sequences of messages.  MapThenFoldSet, which               *)
(* MapThenSumSet, FoldLeft and FoldRight are made of, is the value of a    *)
(* recursive function on subsets.  For steps given as functions, such a    *)
(* function exists and what every step keeps holds of its values; a sum of *)
(* weights does not depend on the order in which the function takes them.  *)
(***************************************************************************)
EXTENDS Sequences, FiniteSetsExt, TLAPS, FiniteSetTheorems, WellFoundedInduction

-----------------------------------------------------------------------------
(* Folds over finite sets.                                                  *)

\* a set of numbers that is not empty has a least element
LEMMA LeastNatural ==
  ASSUME NEW S, S \subseteq Nat, S # {}
  PROVE  \E n \in S : \A k \in S : n <= k
<1>1. PICK n \in S : \A k \in S : <<k, n>> \notin OpToRel(<, Nat)
  BY NatLessThanWellFounded, WFMin
<1>2. \A k \in S : ~(k < n)
  BY <1>1 DEF OpToRel
<1> QED BY <1>2

\* induction with the induction hypothesis as a set
LEMMA UpTo ==
  ASSUME NEW N \in Nat, NEW S, 0 \in S,
         \A i \in 0 .. N : i # N /\ i \in S => i + 1 \in S
  PROVE  \A i \in 0 .. N : i \in S
<1> DEFINE Bad == {i \in 0 .. N : i \notin S}
<1> SUFFICES ASSUME Bad # {} PROVE FALSE
  OBVIOUS
<1>1. PICK n \in Bad : \A k \in Bad : n <= k
  <2>1. Bad \subseteq Nat
    OBVIOUS
  <2> HIDE DEF Bad
  <2> QED BY <2>1, LeastNatural
<1>2. n \in 0 .. N /\ n # 0 /\ n - 1 \in 0 .. N
  BY <1>1
<1>3. n - 1 \in S
  BY <1>1, <1>2
<1>4. n \in S
  <2>1. (n - 1) + 1 \in S
    BY <1>2, <1>3
  <2> QED BY <1>2, <2>1
<1> QED BY <1>1, <1>4

\* if {} is good, and a set is good when every set with one element less is, then all
\* subsets of a finite set are
LEMMA SubsetInduction ==
  ASSUME NEW D, IsFiniteSet(D), NEW Good, {} \in Good,
         \A S \in SUBSET D : S # {} /\ (\A x \in S : S \ {x} \in Good) => S \in Good
  PROVE  \A S \in SUBSET D : S \in Good
<1> DEFINE Bad == {n \in Nat : \E S \in SUBSET D : S \notin Good /\ Cardinality(S) = n}
<1>1. \A S \in SUBSET D : IsFiniteSet(S) /\ Cardinality(S) \in Nat
  BY FS_Subset, FS_CardinalityType
<1>2. SUFFICES ASSUME Bad # {} PROVE FALSE
  BY <1>1
<1>3. PICK n \in Bad : \A k \in Bad : n <= k
  <2>1. Bad \subseteq Nat
    OBVIOUS
  <2> HIDE DEF Bad
  <2> QED BY <1>2, <2>1, LeastNatural
<1>4. PICK S \in SUBSET D : S \notin Good /\ Cardinality(S) = n
  BY <1>3
<1>5. ASSUME NEW x \in S PROVE S \ {x} \in Good
  <2>1. Cardinality(S \ {x}) = Cardinality(S) - 1
    BY <1>1, FS_RemoveElement
  <2>2. S \ {x} \in SUBSET D
    OBVIOUS
  <2>3. Cardinality(S \ {x}) \in Nat /\ Cardinality(S \ {x}) < n
    BY <1>1, <1>3, <1>4, <2>1, <2>2
  <2> QED BY <1>3, <2>2, <2>3
<1> QED BY <1>4, <1>5

\* f is the recursive function of a fold over D from base, in the order of choice, by
\* the steps of step
IsFold(f, D, base, choice, step) ==
    \A S \in SUBSET D :
        f[S] = IF S = {} THEN base ELSE step[choice[S]][f[S \ {choice[S]}]]

\* a fold whose steps take the states Ok to states Ok
CanFold(D, Ok, base, choice, step) ==
    /\ IsFiniteSet(D)
    /\ base \in Ok
    /\ \A S \in SUBSET D : S # {} => choice[S] \in S
    /\ step \in [D -> [Ok -> Ok]]

\* such a fold exists and stays in Ok
LEMMA FoldExists ==
  ASSUME NEW D, NEW Ok, NEW base, NEW choice, NEW step, CanFold(D, Ok, base, choice, step)
  PROVE  \E f : f \in [SUBSET D -> Ok] /\ IsFold(f, D, base, choice, step)
<1> DEFINE Level(n) == {S \in SUBSET D : Cardinality(S) <= n}
           Part(f, n) ==
             /\ f \in [Level(n) -> Ok]
             /\ \A S \in Level(n) :
                  f[S] = IF S = {} THEN base ELSE step[choice[S]][f[S \ {choice[S]}]]
           Bad == {n \in Nat : ~\E f : Part(f, n)}
<1>0. /\ IsFiniteSet(D) /\ base \in Ok /\ step \in [D -> [Ok -> Ok]]
      /\ \A S \in SUBSET D : S # {} => choice[S] \in S
  BY DEF CanFold
<1>1. \A S \in SUBSET D : IsFiniteSet(S) /\ Cardinality(S) \in Nat
  BY <1>0, FS_Subset, FS_CardinalityType
<1>2. \A S \in SUBSET D : Cardinality(S) = 0 <=> S = {}
  BY <1>1, FS_EmptySet
<1>3. ASSUME NEW S \in SUBSET D, S # {}
      PROVE  /\ choice[S] \in D /\ S \ {choice[S]} \in SUBSET D
             /\ Cardinality(S \ {choice[S]}) = Cardinality(S) - 1
  BY <1>0, <1>1, <1>3, FS_RemoveElement
<1>4. 0 \notin Bad
  <2>1. Level(0) = {{}}
    BY <1>1, <1>2
  <2>2. Part([S \in Level(0) |-> base], 0)
    BY <1>0, <2>1
  <2> QED BY <2>2
<1>5. ASSUME NEW n \in Nat, n \notin Bad
      PROVE  n + 1 \notin Bad
  <2>1. PICK f : Part(f, n)
    BY <1>5
  <2> DEFINE g == [S \in Level(n + 1) |->
                     IF Cardinality(S) <= n THEN f[S]
                     ELSE step[choice[S]][f[S \ {choice[S]}]]]
  <2>2. ASSUME NEW S \in Level(n + 1)
        PROVE  /\ g[S] \in Ok
               /\ g[S] = IF S = {} THEN base ELSE step[choice[S]][g[S \ {choice[S]}]]
    <3>0. S \in SUBSET D /\ Cardinality(S) \in Nat /\ Cardinality(S) <= n + 1
      BY <1>1, SMTT(60)
    <3>1. CASE Cardinality(S) <= n
      <4>1. g[S] = f[S] /\ S \in Level(n)
        BY <3>1
      <4>2. CASE S = {}
        BY <1>0, <4>1, <4>2, <2>1
      <4>3. CASE S # {}
        <5>1. /\ S \ {choice[S]} \in SUBSET D
              /\ Cardinality(S \ {choice[S]}) <= n /\ Cardinality(S \ {choice[S]}) <= n + 1
          BY <3>0, <3>1, <1>3, <4>3
        <5>2. g[S \ {choice[S]}] = f[S \ {choice[S]}]
          BY <5>1
        <5> QED BY <2>1, <4>1, <4>3, <5>2
      <4> QED BY <4>2, <4>3
    <3>2. CASE ~(Cardinality(S) <= n)
      <4>1. S # {}
        BY <3>2, <3>0, <1>2
      <4>2. /\ S \ {choice[S]} \in Level(n) /\ Cardinality(S \ {choice[S]}) <= n + 1
            /\ Cardinality(S \ {choice[S]}) <= n /\ choice[S] \in D
        BY <3>0, <3>2, <1>3, <4>1
      <4>3. g[S \ {choice[S]}] = f[S \ {choice[S]}] /\ f[S \ {choice[S]}] \in Ok
        BY <2>1, <4>2
      <4>4. g[S] = step[choice[S]][f[S \ {choice[S]}]]
        BY <3>2
      <4>5. step[choice[S]] \in [Ok -> Ok]
        BY <1>0, <4>2
      <4>6. g[S] \in Ok
        BY <4>3, <4>4, <4>5
      <4> HIDE DEF g
      <4> QED BY <4>1, <4>3, <4>4, <4>6
    <3> QED BY <3>1, <3>2
  <2>3. g \in [Level(n + 1) -> Ok]
    <3>1. g = [S \in Level(n + 1) |-> g[S]]
      OBVIOUS
    <3> HIDE DEF g
    <3> QED BY <2>2, <3>1
  <2>4. Part(g, n + 1)
    <3> HIDE DEF g
    <3> QED BY <2>2, <2>3
  <2> QED BY <2>4
<1>6. Bad = {}
  <2> SUFFICES ASSUME Bad # {} PROVE FALSE
    OBVIOUS
  <2>0. Bad \subseteq Nat
    OBVIOUS
  <2>1. PICK n \in Bad : \A k \in Bad : n <= k
    <3> HIDE DEF Bad
    <3> QED BY <2>0, LeastNatural
  <2>2. n # 0 /\ n - 1 \in Nat /\ ~(n <= n - 1) /\ (n - 1) + 1 = n
    <3> HIDE DEF Bad
    <3> QED BY <1>4, <2>0, <2>1
  <2>3. n - 1 \notin Bad
    BY <2>1, <2>2
  <2> HIDE DEF Bad
  <2> QED BY <1>5, <2>1, <2>2, <2>3
<1>7. Cardinality(D) \in Nat /\ Cardinality(D) \notin Bad
  BY <1>1, <1>6
<1>8. PICK f : Part(f, Cardinality(D))
  BY <1>7
<1>9. Level(Cardinality(D)) = SUBSET D
  <2>1. \A S \in SUBSET D : Cardinality(S) <= Cardinality(D)
    BY <1>0, FS_Subset
  <2> QED BY <2>1
<1> QED BY <1>8, <1>9 DEF IsFold

\* a finite set of numbers that is not empty has a greatest element
LEMMA GreatestNatural ==
  ASSUME NEW S, S \subseteq Nat, IsFiniteSet(S), S # {}
  PROVE  \E x \in S : \A y \in S : x >= y
<1> DEFINE Good == {T \in SUBSET S : T # {} => \E x \in T : \A y \in T : x >= y}
<1>1. ASSUME NEW T \in SUBSET S, T # {}, \A x \in T : T \ {x} \in Good
      PROVE  \E x \in T : \A y \in T : x >= y
  <2>1. PICK z \in T : TRUE
    BY <1>1
  <2>2. CASE T = {z}
    BY <2>2
  <2>3. CASE T # {z}
    <3>1. T \ {z} # {} /\ T \ {z} \in Good
      BY <1>1, <2>1, <2>3
    <3>2. PICK x \in T \ {z} : \A y \in T \ {z} : x >= y
      BY <3>1
    <3>3. x \in Nat /\ z \in Nat /\ T \subseteq Nat
      OBVIOUS
    <3>4. CASE x >= z
      BY <3>2, <3>4
    <3>5. CASE z >= x
      <4>1. \A y \in T : z >= y
        BY <3>2, <3>3, <3>5
      <4> QED BY <4>1
    <3> QED BY <3>3, <3>4, <3>5
  <2> QED BY <2>2, <2>3
<1>2. \A T \in SUBSET S : T \in Good
  <2>1. {} \in Good
    OBVIOUS
  <2>2. \A T \in SUBSET S : T # {} /\ (\A x \in T : T \ {x} \in Good) => T \in Good
    BY <1>1
  <2> HIDE DEF Good
  <2> QED BY <2>1, <2>2, SubsetInduction
<1> QED BY <1>2

-----------------------------------------------------------------------------
(* Sums.                                                                    *)

\* the recursive function of the sum of the weights w over parts of D
SumsUp(f, D, w) ==
    f = [T \in SUBSET D |->
            IF T = {} THEN 0 ELSE LET x == CHOOSE x \in T : TRUE IN w[x] + f[T \ {x}]]

\* it exists
LEMMA SumsExist ==
  ASSUME NEW D, IsFiniteSet(D), NEW w, w \in [D -> Nat]
  PROVE  \E f : SumsUp(f, D, w)
<1> DEFINE choice == [T \in SUBSET D |-> CHOOSE x \in T : TRUE]
           step   == [x \in D |-> [n \in Nat |-> w[x] + n]]
<1>1. \A T \in SUBSET D : T # {} => choice[T] \in T
  OBVIOUS
<1>2. step \in [D -> [Nat -> Nat]]
  OBVIOUS
<1>3. CanFold(D, Nat, 0, choice, step)
  BY <1>1, <1>2 DEF CanFold
<1>4. PICK f : f \in [SUBSET D -> Nat] /\ IsFold(f, D, 0, choice, step)
  <2> HIDE DEF choice, step
  <2> QED BY <1>3, FoldExists
<1>5. ASSUME NEW T \in SUBSET D
      PROVE  f[T] = IF T = {} THEN 0
                    ELSE LET x == CHOOSE x \in T : TRUE IN w[x] + f[T \ {x}]
  <2>1. CASE T = {}
    BY <1>4, <2>1 DEF IsFold
  <2>2. CASE T # {}
    <3> DEFINE x == CHOOSE x \in T : TRUE
    <3>1. f[T] = step[choice[T]][f[T \ {choice[T]}]] /\ choice[T] = x
      BY <1>4, <2>2 DEF IsFold
    <3>2. x \in D /\ f[T \ {x}] \in Nat
      BY <1>4, <2>2
    <3> QED BY <2>2, <3>1, <3>2
  <2> QED BY <2>1, <2>2
<1> QED BY <1>4, <1>5, Zenon DEF SumsUp

\* the order of the elements does not matter
LEMMA SumAnyOrder ==
  ASSUME NEW D, IsFiniteSet(D), NEW w, w \in [D -> Nat], NEW f, SumsUp(f, D, w)
  PROVE  \A T \in SUBSET D : /\ f[T] \in Nat
                             /\ \A z \in T : f[T] = w[z] + f[T \ {z}]
<1> DEFINE Numbers == {T \in SUBSET D : f[T] \in Nat}
           Good    == {T \in SUBSET D : \A z \in T : f[T] = w[z] + f[T \ {z}]}
<1>1. f[{}] = 0
  BY DEF SumsUp
<1>2. ASSUME NEW T \in SUBSET D, T # {}
      PROVE  \E y \in T : f[T] = w[y] + f[T \ {y}]
  <2> DEFINE y == CHOOSE x \in T : TRUE
  <2>1. y \in T /\ f[T] = w[y] + f[T \ {y}]
    BY <1>2 DEF SumsUp
  <2> HIDE DEF y
  <2> QED BY <2>1
<1>3. \A T \in SUBSET D : T \in Numbers
  <2>1. {} \in Numbers
    BY <1>1
  <2>2. ASSUME NEW T \in SUBSET D, T # {}, \A x \in T : T \ {x} \in Numbers
        PROVE  T \in Numbers
    <3>1. PICK y \in T : f[T] = w[y] + f[T \ {y}]
      BY <1>2, <2>2
    <3>2. w[y] \in Nat /\ f[T \ {y}] \in Nat
      BY <2>2
    <3> QED BY <3>1, <3>2
  <2>3. \A T \in SUBSET D : T # {} /\ (\A x \in T : T \ {x} \in Numbers) => T \in Numbers
    BY <2>2
  <2> HIDE DEF Numbers
  <2> QED BY <2>1, <2>3, SubsetInduction
<1>4. ASSUME NEW T \in SUBSET D, T # {}, \A x \in T : T \ {x} \in Good, NEW z \in T
      PROVE  f[T] = w[z] + f[T \ {z}]
  <2>1. PICK y \in T : f[T] = w[y] + f[T \ {y}]
    BY <1>2, <1>4
  <2>2. CASE z # y
    <3> DEFINE U == (T \ {y}) \ {z}
    <3>1. f[T \ {y}] = w[z] + f[U]
      BY <1>4, <2>2
    <3>2. U = (T \ {z}) \ {y} /\ U \in SUBSET D
      OBVIOUS
    <3>3. f[T \ {z}] = w[y] + f[U]
      BY <1>4, <2>2, <3>2
    <3>4. w[z] \in Nat /\ w[y] \in Nat /\ f[U] \in Nat
      BY <1>3, <3>2
    <3> HIDE DEF U
    <3> QED BY <2>1, <3>1, <3>3, <3>4
  <2> QED BY <2>1, <2>2
<1>5. \A T \in SUBSET D : T \in Good
  <2>1. \A T \in SUBSET D : T # {} /\ (\A x \in T : T \ {x} \in Good) => T \in Good
    BY <1>4
  <2>2. {} \in Good
    OBVIOUS
  <2> HIDE DEF Good
  <2> QED BY <2>1, <2>2, SubsetInduction
<1> QED BY <1>3, <1>5

\* nor does the set the function was made for
LEMMA SumsAgree ==
  ASSUME NEW D, IsFiniteSet(D), NEW S, S \subseteq D, NEW w, NEW v,
         \A x \in S : w[x] = v[x],
         NEW f, SumsUp(f, D, w), NEW g, SumsUp(g, S, v)
  PROVE  f[S] = g[S]
<1> DEFINE Good == {T \in SUBSET S : f[T] = g[T]}
<1>1. {} \in Good
  BY DEF SumsUp
<1>2. ASSUME NEW T \in SUBSET S, T # {}, \A x \in T : T \ {x} \in Good
      PROVE  f[T] = g[T]
  <2> DEFINE y == CHOOSE x \in T : TRUE
  <2>1. y \in T /\ f[T] = w[y] + f[T \ {y}] /\ g[T] = v[y] + g[T \ {y}]
    BY <1>2 DEF SumsUp
  <2> HIDE DEF y
  <2> QED BY <1>2, <2>1
<1>3. \A T \in SUBSET S : T \in Good
  <2>1. \A T \in SUBSET S : T # {} /\ (\A x \in T : T \ {x} \in Good) => T \in Good
    BY <1>2
  <2>2. IsFiniteSet(S)
    BY FS_Subset
  <2> HIDE DEF Good
  <2> QED BY <1>1, <2>1, <2>2, SubsetInduction
<1> QED BY <1>3

\* what weighs nothing can be left out
LEMMA SumOfPart ==
  ASSUME NEW D, IsFiniteSet(D), NEW w, w \in [D -> Nat], NEW f, SumsUp(f, D, w),
         NEW S, S \subseteq D, \A x \in D \ S : w[x] = 0
  PROVE  f[D] = f[S]
<1> DEFINE Good == {T \in SUBSET D : f[T] = f[T \cap S]}
<1>1. ASSUME NEW T \in SUBSET D, T # {}, \A x \in T : T \ {x} \in Good
      PROVE  f[T] = f[T \cap S]
  <2>1. PICK z \in T : TRUE
    BY <1>1
  <2>2. f[T] = w[z] + f[T \ {z}] /\ f[T \ {z}] = f[(T \ {z}) \cap S]
    BY <1>1, SumAnyOrder
  <2>3. CASE z \in S
    <3>1. (T \ {z}) \cap S = (T \cap S) \ {z} /\ T \cap S \in SUBSET D /\ z \in T \cap S
      BY <2>3
    <3>2. f[T \cap S] = w[z] + f[(T \cap S) \ {z}]
      BY <3>1, SumAnyOrder
    <3> QED BY <2>2, <3>1, <3>2
  <2>4. CASE z \notin S
    <3>1. (T \ {z}) \cap S = T \cap S /\ T \cap S \in SUBSET D /\ w[z] = 0
      BY <2>4
    <3>2. f[T \cap S] \in Nat
      BY <3>1, SumAnyOrder
    <3> QED BY <2>2, <3>1, <3>2
  <2> QED BY <2>3, <2>4
<1>2. \A T \in SUBSET D : T \in Good
  <2>1. {} \in Good
    OBVIOUS
  <2>2. \A T \in SUBSET D : T # {} /\ (\A x \in T : T \ {x} \in Good) => T \in Good
    BY <1>1
  <2> HIDE DEF Good
  <2> QED BY <2>1, <2>2, SubsetInduction
<1>3. D \cap S = S
  OBVIOUS
<1> QED BY <1>2, <1>3

\* smaller weights have a smaller sum
LEMMA SumsOrdered ==
  ASSUME NEW D, IsFiniteSet(D), NEW w, w \in [D -> Nat], NEW v, v \in [D -> Nat],
         \A x \in D : w[x] <= v[x],
         NEW f, SumsUp(f, D, w), NEW g, SumsUp(g, D, v)
  PROVE  f[D] <= g[D]
<1> DEFINE Good == {T \in SUBSET D : f[T] <= g[T]}
<1>1. ASSUME NEW T \in SUBSET D, T # {}, \A x \in T : T \ {x} \in Good
      PROVE  f[T] <= g[T]
  <2>1. PICK z \in T : TRUE
    BY <1>1
  <2>2. f[T] = w[z] + f[T \ {z}] /\ g[T] = v[z] + g[T \ {z}]
    BY SumAnyOrder
  <2>3. f[T \ {z}] \in Nat /\ g[T \ {z}] \in Nat /\ f[T \ {z}] <= g[T \ {z}]
    BY <1>1, SumAnyOrder
  <2>4. w[z] \in Nat /\ v[z] \in Nat /\ w[z] <= v[z]
    OBVIOUS
  <2> QED BY <2>2, <2>3, <2>4
<1>2. \A T \in SUBSET D : T \in Good
  <2>1. {} \in Good
    BY DEF SumsUp
  <2>2. \A T \in SUBSET D : T # {} /\ (\A x \in T : T \ {x} \in Good) => T \in Good
    BY <1>1
  <2> HIDE DEF Good
  <2> QED BY <2>1, <2>2, SubsetInduction
<1> QED BY <1>2

-----------------------------------------------------------------------------
(* The sum of the weights w of the members of S, and of a part of S.        *)
SumOver(w, S) == MapThenSumSet(LAMBDA x : w[x], S)

\* it is the value of a recursive function
LEMMA SumOverIs ==
  ASSUME NEW S, IsFiniteSet(S), NEW w, w \in [S -> Nat]
  PROVE  \E f : SumsUp(f, S, w) /\ SumOver(w, S) = f[S]
<1> DEFINE iter[T \in SUBSET S] ==
             IF T = {} THEN 0
             ELSE LET x == CHOOSE x \in T : TRUE IN w[x] + iter[T \ {x}]
<1>1. PICK f : SumsUp(f, S, w)
  <2> HIDE DEF iter
  <2> QED BY SumsExist
<1>2. f = [T \in SUBSET S |->
             IF T = {} THEN 0
             ELSE LET x == CHOOSE x \in T : TRUE IN w[x] + f[T \ {x}]]
  <2> HIDE DEF iter
  <2> QED BY <1>1 DEF SumsUp
<1>3. iter = [T \in SUBSET S |->
                IF T = {} THEN 0
                ELSE LET x == CHOOSE x \in T : TRUE IN w[x] + iter[T \ {x}]]
  BY <1>2
<1>4. SumOver(w, S) = iter[S]
  BY DEF SumOver, MapThenSumSet, MapThenFoldSet
<1> HIDE DEF iter
<1>5. SumsUp(iter, S, w)
  BY <1>3 DEF SumsUp
<1> QED BY <1>4, <1>5

\* it is a number, and none but 0 if nothing weighs anything
LEMMA SumOverTyped ==
  ASSUME NEW S, IsFiniteSet(S), NEW w, w \in [S -> Nat]
  PROVE  SumOver(w, S) \in Nat /\ ((\A x \in S : w[x] = 0) => SumOver(w, S) = 0)
<1>1. PICK f : SumsUp(f, S, w) /\ SumOver(w, S) = f[S]
  BY SumOverIs
<1>2. f[S] \in Nat
  BY <1>1, SumAnyOrder
<1>3. ASSUME \A x \in S : w[x] = 0 PROVE f[S] = 0
  <2>1. f[S] = f[{}]
    BY <1>1, <1>3, SumOfPart
  <2> QED BY <1>1, <2>1 DEF SumsUp
<1> QED BY <1>1, <1>2, <1>3

\* it grows with the weights
LEMMA SumOverOrdered ==
  ASSUME NEW S, IsFiniteSet(S), NEW w, w \in [S -> Nat], NEW v, v \in [S -> Nat],
         \A x \in S : w[x] <= v[x]
  PROVE  SumOver(w, S) <= SumOver(v, S)
<1>1. PICK f : SumsUp(f, S, w) /\ SumOver(w, S) = f[S]
  BY SumOverIs
<1>2. PICK g : SumsUp(g, S, v) /\ SumOver(v, S) = g[S]
  BY SumOverIs
<1> QED BY <1>1, <1>2, SumsOrdered

\* as much as the weight that changes
LEMMA SumOverChanges ==
  ASSUME NEW S, IsFiniteSet(S), NEW w, w \in [S -> Nat], NEW v, v \in [S -> Nat],
         NEW z \in S, \A x \in S : x # z => w[x] = v[x]
  PROVE  SumOver(w, S) - w[z] = SumOver(v, S) - v[z]
<1>1. PICK f : SumsUp(f, S, w) /\ SumOver(w, S) = f[S]
  BY SumOverIs
<1>2. PICK g : SumsUp(g, S, v) /\ SumOver(v, S) = g[S]
  BY SumOverIs
<1>3. f[S] = w[z] + f[S \ {z}] /\ g[S] = v[z] + g[S \ {z}]
  BY <1>1, <1>2, SumAnyOrder
<1>4. f[S \ {z}] = g[S \ {z}]
  <2> DEFINE R == S \ {z}
             u == [x \in R |-> w[x]]
  <2>1. R \subseteq S /\ IsFiniteSet(R) /\ u \in [R -> Nat]
    BY FS_Subset
  <2>2. \A x \in R : w[x] = u[x] /\ v[x] = u[x]
    OBVIOUS
  <2> HIDE DEF R, u
  <2>3. PICK h : SumsUp(h, R, u)
    BY <2>1, SumsExist
  <2>4. f[R] = h[R] /\ g[R] = h[R]
    BY <1>1, <1>2, <2>1, <2>2, <2>3, SumsAgree
  <2> QED BY <2>4 DEF R
<1>5. w[z] \in Nat /\ v[z] \in Nat /\ f[S \ {z}] \in Nat
  BY <1>1, SumAnyOrder
<1> QED BY <1>1, <1>2, <1>3, <1>4, <1>5

\* what weighs nothing can be left out of it
LEMMA SumOverPart ==
  ASSUME NEW S, IsFiniteSet(S), NEW w, w \in [S -> Nat], NEW T, T \subseteq S,
         \A x \in S \ T : w[x] = 0
  PROVE  SumOver(w, S) = SumOver([x \in T |-> w[x]], T)
<1> DEFINE v == [x \in T |-> w[x]]
<1>1. IsFiniteSet(T) /\ v \in [T -> Nat] /\ \A x \in T : w[x] = v[x]
  BY FS_Subset
<1> HIDE DEF v
<1>2. PICK f : SumsUp(f, S, w) /\ SumOver(w, S) = f[S]
  BY SumOverIs
<1>3. PICK g : SumsUp(g, T, v) /\ SumOver(v, T) = g[T]
  BY <1>1, SumOverIs
<1>4. f[S] = f[T]
  BY <1>2, SumOfPart
<1>5. f[T] = g[T]
  BY <1>1, <1>2, <1>3, SumsAgree
<1> QED BY <1>2, <1>3, <1>4, <1>5 DEF v

\* f has the sums over the parts of S
PartSums(f, S, w) ==
    /\ SumOver(w, S) = f[S] /\ f[{}] = 0
    /\ \A T \in SUBSET S : f[T] \in Nat /\ \A x \in T : f[T] = w[x] + f[T \ {x}]

\* there is such a function
LEMMA SumOverParts ==
  ASSUME NEW S, IsFiniteSet(S), NEW w, w \in [S -> Nat]
  PROVE  \E f : PartSums(f, S, w)
<1>1. PICK f : SumsUp(f, S, w) /\ SumOver(w, S) = f[S]
  BY SumOverIs
<1>2. \A T \in SUBSET S : f[T] \in Nat /\ \A x \in T : f[T] = w[x] + f[T \ {x}]
  BY <1>1, SumAnyOrder
<1>3. f[{}] = 0
  BY <1>1 DEF SumsUp
<1> QED BY <1>1, <1>2, <1>3 DEF PartSums

\* it is at least any of the weights
LEMMA SumOverAtLeast ==
  ASSUME NEW S, IsFiniteSet(S), NEW w, w \in [S -> Nat], NEW z \in S
  PROVE  w[z] <= SumOver(w, S)
<1>1. PICK f : PartSums(f, S, w)
  BY SumOverParts
<1>2. S \in SUBSET S /\ S \ {z} \in SUBSET S /\ w[z] \in Nat
  OBVIOUS
<1>3. f[S] = w[z] + f[S \ {z}] /\ f[S \ {z}] \in Nat
  BY <1>1, <1>2 DEF PartSums
<1> QED BY <1>1, <1>2, <1>3 DEF PartSums

\* with one member more, it is that much more
LEMMA SumOverMore ==
  ASSUME NEW S, IsFiniteSet(S), NEW z, z \notin S, NEW w, w \in [S \cup {z} -> Nat],
         NEW v, v \in [S -> Nat], \A x \in S : w[x] = v[x]
  PROVE  SumOver(w, S \cup {z}) = SumOver(v, S) + w[z]
<1> DEFINE D == S \cup {z}
<1>1. IsFiniteSet(D) /\ S \subseteq D /\ D \ {z} = S /\ z \in D /\ w \in [D -> Nat]
  BY FS_AddElement
<1> HIDE DEF D
<1>2. PICK f : SumsUp(f, D, w) /\ SumOver(w, D) = f[D]
  BY <1>1, SumOverIs
<1>3. PICK g : SumsUp(g, S, v) /\ SumOver(v, S) = g[S]
  BY SumOverIs
<1>4. f[D] = w[z] + f[S] /\ f[S] \in Nat /\ w[z] \in Nat
  BY <1>1, <1>2, SumAnyOrder
<1>5. f[S] = g[S]
  BY <1>1, <1>2, <1>3, SumsAgree
<1> QED BY <1>2, <1>3, <1>4, <1>5 DEF D

\* weights that exceed others by a multiple of third ones have a sum that does
LEMMA SumOverScaled ==
  ASSUME NEW S, IsFiniteSet(S), NEW m \in Nat,
         NEW v, v \in [S -> Nat], NEW u, u \in [S -> Nat], NEW w, w \in [S -> Nat],
         \A x \in S : v[x] + m * u[x] <= w[x]
  PROVE  SumOver(v, S) + m * SumOver(u, S) <= SumOver(w, S)
<1>1. PICK f : PartSums(f, S, v)
  BY SumOverParts
<1>2. PICK g : PartSums(g, S, u)
  BY SumOverParts
<1>3. PICK h : PartSums(h, S, w)
  BY SumOverParts
<1> DEFINE Good == {T \in SUBSET S : f[T] + m * g[T] <= h[T]}
<1>4. ASSUME NEW T \in SUBSET S, T # {}, \A x \in T : T \ {x} \in Good
      PROVE  f[T] + m * g[T] <= h[T]
  <2>1. PICK z \in T : TRUE
    BY <1>4
  <2>2. f[T] = v[z] + f[T \ {z}] /\ g[T] = u[z] + g[T \ {z}] /\ h[T] = w[z] + h[T \ {z}]
    BY <1>1, <1>2, <1>3 DEF PartSums
  <2>3. f[T \ {z}] \in Nat /\ g[T \ {z}] \in Nat /\ h[T \ {z}] \in Nat
    BY <1>1, <1>2, <1>3 DEF PartSums
  <2>4. f[T \ {z}] + m * g[T \ {z}] <= h[T \ {z}]
    BY <1>4
  <2>5. v[z] \in Nat /\ u[z] \in Nat /\ w[z] \in Nat /\ v[z] + m * u[z] <= w[z]
    OBVIOUS
  <2>6. ASSUME NEW a \in Nat, NEW b \in Nat PROVE m * (a + b) = m * a + m * b /\ m * a \in Nat
    OBVIOUS
  <2>7. m * g[T] = m * u[z] + m * g[T \ {z}] /\ m * u[z] \in Nat /\ m * g[T \ {z}] \in Nat
    BY <2>2, <2>3, <2>5, <2>6
  <2> QED BY <2>2, <2>3, <2>4, <2>5, <2>7
<1>5. \A T \in SUBSET S : T \in Good
  <2>1. {} \in Good
    <3>1. f[{}] = 0 /\ g[{}] = 0 /\ h[{}] = 0
      BY <1>1, <1>2, <1>3 DEF PartSums
    <3> QED BY <3>1
  <2>2. \A T \in SUBSET S : T # {} /\ (\A x \in T : T \ {x} \in Good) => T \in Good
    BY <1>4
  <2> HIDE DEF Good
  <2> QED BY <2>1, <2>2, SubsetInduction
<1> QED BY <1>1, <1>2, <1>3, <1>5 DEF PartSums

\* the weights w are v but for z, which weighs k more
Grown(w, v, S, z, k) ==
    /\ v \in [S -> Nat] /\ w \in [S -> Nat] /\ z \in S
    /\ \A x \in S : x # z => w[x] = v[x]
    /\ w[z] = v[z] + k

\* so does their sum
LEMMA SumOverGrows ==
  ASSUME NEW S, IsFiniteSet(S), NEW w, NEW v, NEW z, NEW k \in Nat, Grown(w, v, S, z, k)
  PROVE  SumOver(w, S) = SumOver(v, S) + k /\ SumOver(v, S) \in Nat
<1>1. SumOver(w, S) - w[z] = SumOver(v, S) - v[z]
  BY SumOverChanges DEF Grown
<1>2. SumOver(w, S) \in Nat
  BY SumOverTyped DEF Grown
<1>3. SumOver(v, S) \in Nat
  BY SumOverTyped DEF Grown
<1>4. w[z] \in Nat /\ v[z] \in Nat /\ w[z] = v[z] + k
  BY DEF Grown
<1> QED BY <1>1, <1>2, <1>3, <1>4

\* a sum that is no greater than another stays so if both grow as much
LEMMA SumsGrowTogether ==
  ASSUME NEW S, IsFiniteSet(S), NEW z, NEW k \in Nat, NEW w, NEW v, Grown(w, v, S, z, k),
         NEW e, NEW d, Grown(e, d, S, z, k), SumOver(d, S) <= SumOver(v, S)
  PROVE  SumOver(e, S) <= SumOver(w, S)
<1>1. SumOver(e, S) = SumOver(d, S) + k /\ SumOver(d, S) \in Nat
  BY SumOverGrows
<1>2. SumOver(w, S) = SumOver(v, S) + k /\ SumOver(v, S) \in Nat
  BY SumOverGrows
<1> QED BY <1>1, <1>2

\* what moves from one weight to another leaves the sum as it is
LEMMA SumOverMoves ==
  ASSUME NEW S, IsFiniteSet(S), NEW k \in Nat, NEW u,
         NEW v, NEW z, Grown(u, v, S, z, k), NEW w, NEW y, Grown(u, w, S, y, k)
  PROVE  SumOver(w, S) = SumOver(v, S)
<1>1. SumOver(u, S) = SumOver(v, S) + k /\ SumOver(v, S) \in Nat
  BY SumOverGrows
<1>2. SumOver(u, S) = SumOver(w, S) + k /\ SumOver(w, S) \in Nat
  BY SumOverGrows
<1> QED BY <1>1, <1>2

-----------------------------------------------------------------------------
(* Channels, by the messages they hold.  What is said of a channel is said  *)
(* with a set of messages: it has one of the set, it has at most one, none  *)
(* of the second set comes after one of the first.                          *)

Has(s, M) == \E i \in DOMAIN s : s[i] \in M
Once(s, M) == \A i, j \in DOMAIN s : s[i] \in M /\ s[j] \in M => i = j
Ending(s, E, T) == \A i, j \in DOMAIN s : s[i] \in E /\ s[j] \in T => j <= i

\* nothing is in an empty channel
LEMMA HasEmpty ==
  ASSUME NEW M
  PROVE  ~Has(<<>>, M) /\ Once(<<>>, M) /\ \A T : Ending(<<>>, M, T)
  BY DEF Has, Once, Ending

\* a channel with one more message
LEMMA HasAppend ==
  ASSUME NEW S, NEW s \in Seq(S), NEW e \in S
  PROVE  /\ Append(s, e) \in Seq(S)
         /\ \A M : Has(Append(s, e), M) <=> Has(s, M) \/ e \in M
<1>1. /\ Append(s, e) \in Seq(S) /\ DOMAIN Append(s, e) = DOMAIN s \cup {Len(s) + 1}
      /\ \A i \in DOMAIN s : Append(s, e)[i] = s[i]
      /\ Append(s, e)[Len(s) + 1] = e
  OBVIOUS
<1> DEFINE t == Append(s, e)
<1> HIDE DEF t
<1> QED BY <1>1 DEF Has, t

\* it still has at most one of M, and no message of T behind one of E
LEMMA OnceAppend ==
  ASSUME NEW S, NEW s \in Seq(S), NEW e \in S
  PROVE  /\ \A M : Once(s, M) /\ (e \in M => ~Has(s, M)) => Once(Append(s, e), M)
         /\ \A E, T : Ending(s, E, T) /\ (e \in T => ~Has(s, E)) => Ending(Append(s, e), E, T)
<1> DEFINE t == Append(s, e)
<1>1. /\ DOMAIN t = DOMAIN s \cup {Len(s) + 1} /\ DOMAIN s = 1 .. Len(s) /\ Len(s) \in Nat
      /\ \A i \in DOMAIN s : t[i] = s[i]
      /\ t[Len(s) + 1] = e
  OBVIOUS
<1> HIDE DEF t
<1>2. ASSUME NEW M, Once(s, M), e \in M => ~Has(s, M),
             NEW i \in DOMAIN t, NEW j \in DOMAIN t, t[i] \in M, t[j] \in M
      PROVE  i = j
  BY <1>1, <1>2 DEF Once, Has
<1>3. ASSUME NEW E, NEW T, Ending(s, E, T), e \in T => ~Has(s, E),
             NEW i \in DOMAIN t, NEW j \in DOMAIN t, t[i] \in E, t[j] \in T
      PROVE  j <= i
  <2>1. CASE i \in DOMAIN s /\ j \in DOMAIN s
    BY <2>1, <1>1, <1>3 DEF Ending
  <2>2. CASE i = Len(s) + 1
    BY <2>2, <1>1, <1>3
  <2>3. CASE i \in DOMAIN s /\ j = Len(s) + 1
    BY <2>3, <1>1, <1>3 DEF Has
  <2> QED BY <2>1, <2>2, <2>3, <1>1
<1>4. \A M : Once(s, M) /\ (e \in M => ~Has(s, M)) => Once(t, M)
  BY <1>2 DEF Once
<1>5. \A E, T : Ending(s, E, T) /\ (e \in T => ~Has(s, E)) => Ending(t, E, T)
  BY <1>3 DEF Ending
<1> QED BY <1>4, <1>5 DEF t

\* a channel without its first message
LEMMA HasTail ==
  ASSUME NEW S, NEW s \in Seq(S), s # <<>>
  PROVE  /\ Head(s) \in S /\ Tail(s) \in Seq(S)
         /\ \A M : Has(s, M) <=> Head(s) \in M \/ Has(Tail(s), M)
         /\ \A M : Once(s, M) => Once(Tail(s), M) /\ (Head(s) \in M => ~Has(Tail(s), M))
         /\ \A E, T : Ending(s, E, T) =>
               Ending(Tail(s), E, T) /\ (Head(s) \in E => ~Has(Tail(s), T))
<1> DEFINE t == Tail(s)
<1>1. /\ Tail(s) \in Seq(S) /\ Head(s) = s[1] /\ s[1] \in S
      /\ Len(s) \in Nat \ {0} /\ DOMAIN s = 1 .. Len(s) /\ DOMAIN t = 1 .. Len(s) - 1
      /\ \A i \in DOMAIN t : t[i] = s[i + 1]
  OBVIOUS
<1> HIDE DEF t
<1>2. /\ 1 \in DOMAIN s /\ \A i \in DOMAIN t : i \in Nat \ {0} /\ i + 1 \in DOMAIN s
      /\ \A i \in DOMAIN s : i # 1 => i - 1 \in DOMAIN t /\ t[i - 1] = s[i]
  BY <1>1
<1>3. ASSUME NEW M PROVE Has(s, M) <=> Head(s) \in M \/ Has(t, M)
  BY <1>1, <1>2 DEF Has
<1>4. ASSUME NEW M, Once(s, M) PROVE Once(t, M) /\ (Head(s) \in M => ~Has(t, M))
  <2>1. ASSUME NEW i \in DOMAIN t, NEW j \in DOMAIN t, t[i] \in M, t[j] \in M PROVE i = j
    <3>1. i + 1 = j + 1
      BY <2>1, <1>1, <1>2, <1>4 DEF Once
    <3> QED BY <3>1, <1>2
  <2>2. ASSUME Head(s) \in M, NEW j \in DOMAIN t, t[j] \in M PROVE FALSE
    <3>1. 1 = j + 1
      BY <2>2, <1>1, <1>2, <1>4 DEF Once
    <3> QED BY <3>1, <1>2
  <2> QED BY <2>1, <2>2 DEF Once, Has
<1>5. ASSUME NEW E, NEW T, Ending(s, E, T)
      PROVE  Ending(t, E, T) /\ (Head(s) \in E => ~Has(t, T))
  <2>1. ASSUME NEW i \in DOMAIN t, NEW j \in DOMAIN t, t[i] \in E, t[j] \in T PROVE j <= i
    <3>1. j + 1 <= i + 1
      BY <2>1, <1>1, <1>2, <1>5 DEF Ending
    <3> QED BY <3>1, <1>2
  <2>2. ASSUME Head(s) \in E, NEW j \in DOMAIN t, t[j] \in T PROVE FALSE
    <3>1. j + 1 <= 1
      BY <2>2, <1>1, <1>2, <1>5 DEF Ending
    <3> QED BY <3>1, <1>2
  <2> QED BY <2>1, <2>2 DEF Ending, Has
<1> QED BY <1>1, <1>3, <1>4, <1>5 DEF t

=============================================================================
