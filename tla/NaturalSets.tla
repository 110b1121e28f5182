---------------------------- MODULE NaturalSets ----------------------------
(***************************************************************************)
(* Min and Max of sets of naturals, induction over numbers and over finite *)
(* sets, and what the proofs need of the folds of the library: that there  *)
(* are functions that obey their equations, and that a sum is the same in  *)
(* any order.  A property to be proved by induction is given as the set of *)
(* what has it.                                                            *)
(***************************************************************************)
EXTENDS FiniteSetsExt, Integers, WellFoundedInduction, FiniteSetTheorems, TLAPS

Below == {pair \in Nat \X Nat : pair[1] < pair[2]}

LEMMA BelowIsWellFounded == IsWellFoundedOn(Below, Nat)
<1>1. Below = OpToRel(<, Nat)
  BY DEF OpToRel, Below
<1> QED
  BY <1>1, NatLessThanWellFounded

LEMMA MinOfNaturals ==
  ASSUME NEW S, S \subseteq Nat, S # {}
  PROVE  /\ Min(S) \in S
         /\ \A x \in S : Min(S) <= x
<1>1. PICK least \in S : \A y \in S : ~(<<y, least>> \in Below)
  BY WFMin, BelowIsWellFounded
<1>2. \A x, y \in Nat : x < y => <<x, y>> \in Below
  BY DEF Below
<1>3. \A y \in S : least <= y
  <2> TAKE y \in S
  <2>1. least \in Nat /\ y \in Nat /\ ~(y < least)
    BY <1>1, <1>2
  <2> QED BY <2>1
<1> QED
  BY <1>3 DEF Min

LEMMA MaxOfNaturals ==
  ASSUME NEW S, NEW bound \in Nat, S \subseteq 0..bound, S # {}
  PROVE  /\ Max(S) \in S
         /\ \A x \in S : x <= Max(S)
<1> DEFINE above == {u \in Nat : \A x \in S : x <= u}
<1>1. bound \in above /\ above \subseteq Nat
  OBVIOUS
<1>2. /\ Min(above) \in above
      /\ \A u \in above : Min(above) <= u
  <2> HIDE DEF above
  <2> QED BY <1>1, MinOfNaturals
<1>3. Min(above) \in S
  <2> SUFFICES ASSUME Min(above) \notin S PROVE FALSE
    OBVIOUS
  <2> DEFINE top == Min(above)
  <2>1. top \in Nat /\ \A x \in S : x <= top
    BY <1>2
  <2> HIDE DEF top, above
  <2>2. \A x \in S : x \in Nat /\ x < top
    BY <2>1 DEF top
  <2>3. /\ top - 1 \in Nat
        /\ \A x \in S : x <= top - 1
    <3>1. top - 1 \in Nat
      <4>1. PICK x \in S : TRUE
        OBVIOUS
      <4>2. x \in Nat /\ x < top
        BY <2>2
      <4> QED BY <4>2, <2>1
    <3>2. ASSUME NEW x \in S PROVE x <= top - 1
      <4>1. x \in Nat /\ x < top
        BY <2>2
      <4> QED BY <4>1, <2>1
    <3> QED BY <3>1, <3>2
  <2>4. top - 1 \in above
    BY <2>3 DEF above
  <2> QED BY <2>1, <2>4, <1>2 DEF top
<1>4. \E x \in S : \A y \in S : x >= y
  <2> DEFINE top == Min(above)
  <2>1. top \in S /\ \A x \in S : x <= top
    BY <1>2, <1>3
  <2> HIDE DEF top
  <2> QED BY <2>1
<1> HIDE DEF above
<1> QED
  BY <1>4 DEF Max

-----------------------------------------------------------------------------
(* Induction and recursion *)

\* What holds of 0, and of each number after one it holds of, holds up to n.
LEMMA NaturalsUpTo ==
  ASSUME NEW P, NEW n \in Nat, 0 \in P, \A k \in 0..n - 1 : k \in P => k + 1 \in P
  PROVE  \A k \in 0..n : k \in P
<1> SUFFICES ASSUME NEW m \in 0..n, m \notin P PROVE FALSE
  OBVIOUS
<1> DEFINE Bad == {k \in 0..n : k \notin P}
<1>1. Bad \subseteq Nat /\ m \in Bad
  OBVIOUS
<1> HIDE DEF Bad
<1>2. Min(Bad) \in Bad /\ \A x \in Bad : Min(Bad) <= x
  BY <1>1, MinOfNaturals
<1> DEFINE least == Min(Bad)
<1> HIDE DEF least
<1>3. least \in 0..n /\ least \notin P
  BY <1>2 DEF Bad, least
<1>4. least # 0 /\ least - 1 \in 0..n - 1
  BY <1>3
<1>5. least - 1 \notin Bad
  BY <1>1, <1>2, <1>3 DEF least
<1>6. least - 1 \in P
  BY <1>4, <1>5 DEF Bad
<1>7. least - 1 + 1 \in P /\ least - 1 + 1 = least
  BY <1>3, <1>4, <1>6
<1> QED
  BY <1>3, <1>7

\* What holds of {}, and of a set when it holds of all it is without one element, holds
\* of every subset of a finite set.
LEMMA FiniteSubsets ==
  ASSUME NEW P, NEW T, IsFiniteSet(T), {} \in P,
         \A s \in SUBSET T : s # {} /\ (\A x \in s : s \ {x} \in P) => s \in P
  PROVE  \A s \in SUBSET T : s \in P
<1> DEFINE Q == {k \in Nat : \A s \in SUBSET T : Cardinality(s) = k => s \in P}
<1>1. \A s \in SUBSET T : IsFiniteSet(s) /\ Cardinality(s) \in Nat
  BY FS_Subset, FS_CardinalityType
<1>2. 0 \in Q
  BY <1>1, FS_EmptySet
<1>3. ASSUME NEW k \in Nat, k \in Q PROVE k + 1 \in Q
  <2> SUFFICES ASSUME NEW s \in SUBSET T, Cardinality(s) = k + 1 PROVE s \in P
    OBVIOUS
  <2>1. s # {}
    BY <1>1, FS_EmptySet
  <2>2. ASSUME NEW x \in s PROVE s \ {x} \in P
    <3>1. s \ {x} \in SUBSET T /\ Cardinality(s \ {x}) = k
      BY <1>1, FS_RemoveElement
    <3> QED BY <1>3, <3>1
  <2> QED BY <2>1, <2>2
<1> HIDE DEF Q
<1>4. ASSUME NEW n \in Nat PROVE n \in Q
  BY <1>2, <1>3, NaturalsUpTo
<1> QED
  BY <1>1, <1>4 DEF Q

\* A function of the subsets of T that takes one element, picked, after the other.
CanRecurse(T, V, base, step, pick) ==
  /\ IsFiniteSet(T) /\ base \in V /\ step \in [T \X V -> V]
  /\ \A s \in SUBSET T : s # {} => pick[s] \in s

Recurses(f, T, V, base, step, pick) ==
  /\ f \in [SUBSET T -> V]
  /\ f[{}] = base
  /\ \A s \in SUBSET T : s # {} => f[s] = step[<<pick[s], f[s \ {pick[s]}]>>]

\* There is such a function: it is the least relation closed under its equations.
LEMMA RecursionOnSets ==
  ASSUME NEW T, NEW V, NEW base, NEW step, NEW pick, CanRecurse(T, V, base, step, pick)
  PROVE  \E f : Recurses(f, T, V, base, step, pick)
<1>a. /\ IsFiniteSet(T) /\ base \in V /\ step \in [T \X V -> V]
      /\ \A s \in SUBSET T : s # {} => pick[s] \in s
  BY DEF CanRecurse
<1> DEFINE Pairs == (SUBSET T) \X V
           Closed(Q) ==
             /\ <<{}, base>> \in Q
             /\ \A s \in SUBSET T, v \in V :
                  s # {} /\ <<s \ {pick[s]}, v>> \in Q => <<s, step[<<pick[s], v>>]>> \in Q
           R == {p \in Pairs : \A Q \in SUBSET Pairs : Closed(Q) => p \in Q}
<1>0. \A s \in SUBSET T, v \in V : s # {} => step[<<pick[s], v>>] \in V
  BY <1>a
<1>1. Closed(R)
  <2>1. <<{}, base>> \in R
    <3>1. <<{}, base>> \in Pairs
      <4>1. {} \in SUBSET T /\ base \in V
        BY <1>a
      <4> QED BY <4>1, Zenon
    <3>2. ASSUME NEW Q \in SUBSET Pairs, Closed(Q) PROVE <<{}, base>> \in Q
      BY <3>2
    <3> QED BY <3>1, <3>2
  <2>2. ASSUME NEW s \in SUBSET T, NEW v \in V, s # {}, <<s \ {pick[s]}, v>> \in R
        PROVE  <<s, step[<<pick[s], v>>]>> \in R
    <3>1. <<s, step[<<pick[s], v>>]>> \in Pairs
      <4>1. step[<<pick[s], v>>] \in V
        BY <1>0, <2>2
      <4> QED BY <4>1, Zenon
    <3>2. ASSUME NEW Q \in SUBSET Pairs, Closed(Q)
          PROVE  <<s, step[<<pick[s], v>>]>> \in Q
      BY <2>2, <3>2
    <3> QED BY <3>1, <3>2
  <2> HIDE DEF R
  <2> QED BY <2>1, <2>2
<1>2. \A Q \in SUBSET Pairs : Closed(Q) => R \subseteq Q
  OBVIOUS
<1>3. R \subseteq Pairs
  OBVIOUS
<1> HIDE DEF R
<1> DEFINE One == {s \in SUBSET T : \E v \in V : \A w \in V : <<s, w>> \in R <=> w = v}
<1>4. {} \in One
  <2> DEFINE Q == R \ {p \in Pairs : p[1] = {} /\ p[2] # base}
  <2>1. Closed(Q)
    <3>1. <<{}, base>> \in Q
      BY <1>1
    <3>2. ASSUME NEW s \in SUBSET T, NEW v \in V, s # {}, <<s \ {pick[s]}, v>> \in Q
          PROVE  <<s, step[<<pick[s], v>>]>> \in Q
      BY <1>1, <3>2
    <3> HIDE DEF Q
    <3> QED BY <3>1, <3>2
  <2>2. R \subseteq Q
    <3>1. Q \in SUBSET Pairs
      BY <1>3
    <3> HIDE DEF Q, Closed
    <3> QED BY <1>2, <2>1, <3>1
  <2>3. \A w \in V : <<{}, w>> \in R => w = base
    BY <2>2
  <2>4. <<{}, base>> \in R
    BY <1>1
  <2> HIDE DEF Q
  <2>5. \A w \in V : <<{}, w>> \in R <=> w = base
    BY <2>3, <2>4
  <2> QED BY <1>a, <2>5, Zenon
<1>5. ASSUME NEW s \in SUBSET T, s # {}, \A x \in s : s \ {x} \in One
      PROVE  s \in One
  <2>1. PICK v \in V : \A w \in V : <<s \ {pick[s]}, w>> \in R <=> w = v
    BY <1>a, <1>5
  <2> DEFINE next == step[<<pick[s], v>>]
             Q == R \ {p \in Pairs : p[1] = s /\ p[2] # next}
  <2>2. next \in V /\ <<s, next>> \in R
    BY <1>0, <1>1, <1>5, <2>1
  <2>3. Closed(Q)
    <3>1. <<{}, base>> \in Q
      BY <1>1, <1>5
    <3>2. ASSUME NEW u \in SUBSET T, NEW w \in V, u # {}, <<u \ {pick[u]}, w>> \in Q
          PROVE  <<u, step[<<pick[u], w>>]>> \in Q
      <4>1. <<u \ {pick[u]}, w>> \in R /\ <<u, step[<<pick[u], w>>]>> \in R
        BY <1>1, <3>2
      <4>2. CASE u = s
        <5>1. w = v
          BY <2>1, <4>1, <4>2
        <5> QED BY <4>1, <4>2, <5>1
      <4>3. CASE u # s
        BY <4>1, <4>3
      <4> QED BY <4>2, <4>3
    <3> HIDE DEF Q
    <3> QED BY <3>1, <3>2
  <2>4. R \subseteq Q
    <3>1. Q \in SUBSET Pairs
      BY <1>3
    <3> HIDE DEF Q, Closed
    <3> QED BY <1>2, <2>3, <3>1
  <2>5. \A w \in V : <<s, w>> \in R => w = next
    BY <2>4
  <2> HIDE DEF Q, next
  <2>6. \A w \in V : <<s, w>> \in R <=> w = next
    BY <2>2, <2>5
  <2> QED BY <2>2, <2>6, Zenon
<1>6. \A s \in SUBSET T : s \in One
  <2> HIDE DEF One
  <2> QED BY <1>a, <1>4, <1>5, FiniteSubsets
<1> DEFINE f == [s \in SUBSET T |-> CHOOSE v \in V : <<s, v>> \in R]
<1>7. ASSUME NEW s \in SUBSET T
      PROVE  f[s] \in V /\ \A w \in V : <<s, w>> \in R <=> w = f[s]
  BY <1>6
<1>8. f \in [SUBSET T -> V]
  BY <1>7
<1>9. f[{}] = base
  BY <1>a, <1>1, <1>7
<1>10. ASSUME NEW s \in SUBSET T, s # {}
       PROVE  f[s] = step[<<pick[s], f[s \ {pick[s]}]>>]
  <2>1. s \ {pick[s]} \in SUBSET T
    OBVIOUS
  <2>2. f[s \ {pick[s]}] \in V /\ <<s \ {pick[s]}, f[s \ {pick[s]}]>> \in R
    <3> HIDE DEF f, R
    <3> QED BY <1>7, <2>1
  <2> HIDE DEF f
  <2>3. <<s, step[<<pick[s], f[s \ {pick[s]}]>>]>> \in R
    BY <1>1, <1>10, <2>2
  <2>4. step[<<pick[s], f[s \ {pick[s]}]>>] \in V
    BY <1>0, <1>10, <2>2
  <2> QED BY <1>7, <2>3, <2>4
<1> HIDE DEF f
<1> QED
  BY <1>8, <1>9, <1>10 DEF Recurses

\* The last of 1..k, and what is before it.
LEMMA MaxOfInterval ==
  ASSUME NEW k \in Nat, k # 0
  PROVE  Max(1..k) = k /\ (1..k) \ {k} = 1..k - 1
<1>1. 1..k \subseteq 0..k /\ 1..k # {} /\ k \in 1..k
  OBVIOUS
<1>2. Max(1..k) \in 1..k /\ \A x \in 1..k : x <= Max(1..k)
  BY <1>1, MaxOfNaturals
<1>3. Max(1..k) = k
  BY <1>1, <1>2
<1> QED
  BY <1>3

\* A function on the subsets of 1..n that takes the last element first.
FoldsUpTo(f, n, V, base, step) ==
  /\ f \in [SUBSET (1..n) -> V] /\ f[{}] = base
  /\ \A s \in SUBSET (1..n) : s # {} =>
       /\ Max(s) \in s /\ f[s \ {Max(s)}] \in V
       /\ f[s] = step[<<Max(s), f[s \ {Max(s)}]>>]
  /\ \A k \in 0..n : f[1..k] \in V
  /\ \A k \in 1..n : f[1..k] = step[<<k, f[1..k - 1]>>]
CanFold(n, V, base, step) == n \in Nat /\ base \in V /\ step \in [(1..n) \X V -> V]

\* There is such a function on the subsets of 1..n.
LEMMA RecursionOnIntervals ==
  ASSUME NEW n, NEW V, NEW base, NEW step, CanFold(n, V, base, step)
  PROVE  \E f : FoldsUpTo(f, n, V, base, step)
<1> DEFINE pick == [s \in SUBSET (1..n) |-> Max(s)]
<1>1. IsFiniteSet(1..n) /\ n \in Nat
  BY FS_Interval DEF CanFold
<1>2. ASSUME NEW s \in SUBSET (1..n), s # {} PROVE pick[s] \in s /\ pick[s] = Max(s)
  <2>1. s \subseteq 0..n
    OBVIOUS
  <2> QED BY <1>1, <1>2, <2>1, MaxOfNaturals
<1> HIDE DEF pick
<1>3. CanRecurse(1..n, V, base, step, pick)
  BY <1>1, <1>2 DEF CanRecurse, CanFold
<1>4. PICK f : Recurses(f, 1..n, V, base, step, pick)
  BY <1>3, RecursionOnSets
<1>5. f \in [SUBSET (1..n) -> V] /\ f[{}] = base
  BY <1>4 DEF Recurses
<1>6. \A s \in SUBSET (1..n) : s # {} => f[s] = step[<<Max(s), f[s \ {Max(s)}]>>]
  BY <1>2, <1>4, Zenon DEF Recurses
<1>7. ASSUME NEW s \in SUBSET (1..n), s # {}
      PROVE  Max(s) \in s /\ f[s \ {Max(s)}] \in V
  BY <1>2, <1>5, <1>7
<1>8. \A k \in 0..n : 1..k \in SUBSET (1..n) /\ f[1..k] \in V
  BY <1>1, <1>5
<1>9. ASSUME NEW k \in 1..n PROVE f[1..k] = step[<<k, f[1..k - 1]>>]
  <2>1. k \in Nat /\ k # 0
    BY <1>1
  <2>4. 1..k \in SUBSET (1..n) /\ k \in 1..k
    BY <1>1
  <2>2. Max(1..k) = k /\ (1..k) \ {k} = 1..k - 1
    BY <2>1, MaxOfInterval
  <2>3. f[1..k] = step[<<Max(1..k), f[(1..k) \ {Max(1..k)}]>>]
    BY <1>6, <2>4, Zenon
  <2> QED BY <2>2, <2>3, Zenon
<1> QED
  BY <1>5, <1>6, <1>7, <1>8, <1>9 DEF FoldsUpTo

\* Two such functions agree when they start alike and go on alike.
Alike(n, f, g) ==
  /\ n \in Nat /\ f[{}] = g[{}]
  /\ \A s \in SUBSET (1..n) :
       s # {} /\ f[s \ {Max(s)}] = g[s \ {Max(s)}] => f[s] = g[s]

\* Two that are alike return the same for 1..n.
LEMMA FoldsAgree ==
  ASSUME NEW n, NEW f, NEW g, Alike(n, f, g)
  PROVE  f[1..n] = g[1..n]
<1>a. /\ n \in Nat /\ f[{}] = g[{}]
      /\ \A s \in SUBSET (1..n) :
           s # {} /\ f[s \ {Max(s)}] = g[s \ {Max(s)}] => f[s] = g[s]
  BY DEF Alike
<1> DEFINE P == {s \in SUBSET (1..n) : f[s] = g[s]}
<1>1. {} \in P /\ IsFiniteSet(1..n)
  BY <1>a, FS_Interval
<1>2. ASSUME NEW s \in SUBSET (1..n), s # {}, \A x \in s : s \ {x} \in P PROVE s \in P
  <2>1. s \subseteq 0..n
    OBVIOUS
  <2>2. Max(s) \in s
    BY <1>a, <1>2, <2>1, MaxOfNaturals
  <2> QED BY <1>a, <1>2, <2>2
<1>3. \A s \in SUBSET (1..n) : s \in P
  <2> DEFINE T == 1..n
  <2> HIDE DEF P, T
  <2>1. /\ IsFiniteSet(T) /\ {} \in P
        /\ \A s \in SUBSET T : s # {} /\ (\A x \in s : s \ {x} \in P) => s \in P
    BY <1>1, <1>2 DEF T
  <2>2. \A s \in SUBSET T : s \in P
    BY <2>1, FiniteSubsets
  <2> QED BY <2>2 DEF T
<1> QED
  BY <1>3

-----------------------------------------------------------------------------
(* Sums *)

\* f adds up the naturals w[x] of each subset of T.
AddsUp(f, w, T) ==
  /\ f \in [SUBSET T -> Nat] /\ f[{}] = 0
  /\ \A s \in SUBSET T : \A x \in s : f[s] = w[x] + f[s \ {x}]
SumsAre(f, w, T) ==
  \A s \in SUBSET T : \A v : DOMAIN v = s /\ (\A x \in s : v[x] = w[x]) => SumFunction(v) = f[s]
CanAddUp(w, T) == IsFiniteSet(T) /\ \A x \in T : w[x] \in Nat

\* SumFunction does not depend on the order it adds in.
LEMMA SumsAddUp ==
  ASSUME NEW w, NEW T, CanAddUp(w, T)
  PROVE  \E f : AddsUp(f, w, T) /\ SumsAre(f, w, T)
<1>a. IsFiniteSet(T) /\ \A x \in T : w[x] \in Nat
  BY DEF CanAddUp
<1> DEFINE pick == [s \in SUBSET T |-> CHOOSE x \in s : TRUE]
           step == [p \in T \X Nat |-> w[p[1]] + p[2]]
<1>1. \A s \in SUBSET T : s # {} => pick[s] \in s /\ pick[s] = (CHOOSE x \in s : TRUE)
  OBVIOUS
<1>2. step \in [T \X Nat -> Nat] /\ \A x \in T, n \in Nat : step[<<x, n>>] = w[x] + n
  BY <1>a
<1> HIDE DEF pick, step
<1>3. PICK f \in [SUBSET T -> Nat] :
         /\ f[{}] = 0
         /\ \A s \in SUBSET T : s # {} => f[s] = step[<<pick[s], f[s \ {pick[s]}]>>]
  <2>1. CanRecurse(T, Nat, 0, step, pick)
    BY <1>a, <1>1, <1>2 DEF CanRecurse
  <2>2. PICK f : Recurses(f, T, Nat, 0, step, pick)
    BY <2>1, RecursionOnSets
  <2> QED BY <2>2 DEF Recurses
<1>4. ASSUME NEW s \in SUBSET T, s # {}
      PROVE  LET x == CHOOSE y \in s : TRUE IN f[s] = w[x] + f[s \ {x}]
  <2>1. /\ pick[s] \in T /\ s \ {pick[s]} \in SUBSET T
        /\ f[s] = step[<<pick[s], f[s \ {pick[s]}]>>] /\ f[s \ {pick[s]}] \in Nat
    BY <1>1, <1>3, <1>4
  <2>2. f[s] = w[pick[s]] + f[s \ {pick[s]}]
    BY <1>2, <2>1
  <2> QED BY <1>1, <1>4, <2>2
<1>5. ASSUME NEW s \in SUBSET T, NEW v, DOMAIN v = s, \A x \in s : v[x] = w[x]
      PROVE  SumFunction(v) = f[s]
  <2> DEFINE Rec(it) == it = [u \in SUBSET s |->
                           IF u = {} THEN 0
                           ELSE LET x == CHOOSE y \in u : TRUE IN v[x] + it[u \ {x}]]
             iter == CHOOSE it : Rec(it)
             g == [u \in SUBSET s |-> f[u]]
  <2>1. SumFunction(v) = iter[s]
    BY <1>5 DEF SumFunction, SumFunctionOnSet, FoldFunctionOnSet, MapThenFoldSet
  <2>2. Rec(g)
    <3>1. ASSUME NEW u \in SUBSET s
          PROVE  g[u] = IF u = {} THEN 0
                        ELSE LET x == CHOOSE y \in u : TRUE IN v[x] + g[u \ {x}]
      <4>1. CASE u = {}
        BY <1>3, <4>1
      <4>2. CASE u # {}
        <5> DEFINE x == CHOOSE y \in u : TRUE
        <5>1. x \in u /\ u \in SUBSET T /\ u \ {x} \in SUBSET s
          BY <4>2
        <5>2. f[u] = w[x] + f[u \ {x}]
          BY <1>4, <4>2, <5>1
        <5>3. v[x] = w[x] /\ g[u] = f[u] /\ g[u \ {x}] = f[u \ {x}]
          BY <1>5, <5>1
        <5> HIDE DEF g, x
        <5>4. g[u] = v[x] + g[u \ {x}]
          BY <5>2, <5>3
        <5> QED BY <4>2, <5>4 DEF x
      <4> QED BY <4>1, <4>2
    <3> HIDE DEF g
    <3> QED BY <3>1 DEF g
  <2>3. Rec(iter)
    <3> HIDE DEF Rec, g
    <3> QED BY <2>2
  <2> HIDE DEF iter
  <2>4. iter[{}] = f[{}]
    BY <1>3, <2>3
  <2>5. ASSUME NEW u \in SUBSET s, u # {}
        PROVE  \E x \in u : iter[u \ {x}] = f[u \ {x}] => iter[u] = f[u]
    <3> DEFINE x == CHOOSE y \in u : TRUE
    <3>1. u \in SUBSET T /\ x \in u
      BY <2>5
    <3>2. f[u] = w[x] + f[u \ {x}]
      BY <1>4, <2>5, <3>1
    <3>3. iter[u] = v[x] + iter[u \ {x}]
      BY <2>3, <2>5
    <3>4. v[x] = w[x]
      BY <1>5, <3>1
    <3> HIDE DEF x
    <3> QED BY <3>1, <3>2, <3>3, <3>4
  <2>6. IsFiniteSet(s)
    BY <1>a, FS_Subset
  <2>7. \A u \in SUBSET s : iter[u] = f[u]
    <3> DEFINE P == {u \in SUBSET s : iter[u] = f[u]}
    <3>1. {} \in P
      BY <2>4
    <3>2. ASSUME NEW u \in SUBSET s, u # {}, \A x \in u : u \ {x} \in P PROVE u \in P
      BY <2>5, <3>2
    <3>3. \A u \in SUBSET s : u \in P
      <4> HIDE DEF P
      <4> QED BY <2>6, <3>1, <3>2, FiniteSubsets
    <3> QED BY <3>3
  <2> QED BY <2>1, <2>7
<1> HIDE DEF pick
<1>6. ASSUME NEW s \in SUBSET T,
             \A r \in SUBSET s : r # s => \A x \in r : f[r] = w[x] + f[r \ {x}]
      PROVE  \A x \in s : f[s] = w[x] + f[s \ {x}]
  <2> SUFFICES ASSUME NEW x \in s PROVE f[s] = w[x] + f[s \ {x}]
    OBVIOUS
  <2>1. PICK y \in s : f[s] = w[y] + f[s \ {y}]
    BY <1>4
  <2>2. CASE x = y
    BY <2>1, <2>2
  <2>3. CASE x # y
    <3> DEFINE rest == (s \ {x}) \ {y}
    <3>1. rest = (s \ {y}) \ {x} /\ x \in s \ {y} /\ y \in s \ {x} /\ rest \in SUBSET T
      BY <2>3
    <3>2. f[s \ {y}] = w[x] + f[rest]
      BY <1>6, <3>1
    <3>3. f[s \ {x}] = w[y] + f[rest]
      BY <1>6, <3>1
    <3>4. f[rest] \in Nat /\ w[x] \in Nat /\ w[y] \in Nat
      BY <1>a, <1>3, <3>1
    <3> HIDE DEF rest
    <3> QED BY <2>1, <3>2, <3>3, <3>4
  <2> QED BY <2>2, <2>3
<1>7. \A s \in SUBSET T : \A x \in s : f[s] = w[x] + f[s \ {x}]
  <2> DEFINE P == {s \in SUBSET T : \A r \in SUBSET s : \A x \in r : f[r] = w[x] + f[r \ {x}]}
  <2>1. {} \in P
    OBVIOUS
  <2>2. ASSUME NEW s \in SUBSET T, s # {}, \A x \in s : s \ {x} \in P PROVE s \in P
    <3>1. ASSUME NEW r \in SUBSET s, r # s PROVE \A x \in r : f[r] = w[x] + f[r \ {x}]
      <4>1. PICK y \in s : y \notin r
        BY <3>1
      <4>2. s \ {y} \in P /\ r \in SUBSET (s \ {y})
        BY <2>2, <4>1
      <4> QED BY <4>2
    <3>2. \A x \in s : f[s] = w[x] + f[s \ {x}]
      BY <1>6, <3>1
    <3> QED BY <3>1, <3>2
  <2>3. \A s \in SUBSET T : s \in P
    <3> HIDE DEF P
    <3> QED BY <1>a, <2>1, <2>2, FiniteSubsets
  <2> QED BY <2>3
<1> QED
  BY <1>3, <1>5, <1>7 DEF AddsUp, SumsAre

=============================================================================
