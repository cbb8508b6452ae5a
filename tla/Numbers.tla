------------------------------ MODULE Numbers ------------------------------
(***************************************************************************)
(* Facts about natural numbers that the proofs of several modules need.    *)
(***************************************************************************)
EXTENDS Integers, WellFoundedInduction, TLAPS

\* A non-empty set of naturals has a least element: where a scan or a count stops.
LEMMA LeastElement ==
  ASSUME NEW T \in SUBSET Nat, T # {}
  PROVE  \E x \in T : \A y \in T : ~(y < x)
<1>1. PICK x \in T : \A y \in T : <<y, x>> \notin OpToRel(<, Nat)
  BY NatLessThanWellFounded, WFMin, Zenon
<1>2. ASSUME NEW y \in T, y < x PROVE FALSE
  <2>1. <<y, x>> \in OpToRel(<, Nat)
    BY <1>2 DEF OpToRel
  <2> QED BY <1>1, <2>1
<1> QED BY <1>2

\* Induction on a set of numbers: what holds for 0 and, with a number, for the next
\* one, holds for all up to N.
LEMMA CountsUp ==
  ASSUME NEW N \in Nat, NEW T \in SUBSET Nat, 0 \in T,
         \A n \in Nat : n < N /\ n \in T => n + 1 \in T
  PROVE  \A n \in 0 .. N : n \in T
<1> SUFFICES ASSUME NEW m \in (0 .. N) \ T PROVE FALSE
  OBVIOUS
<1>0. (0 .. N) \ T \in SUBSET Nat /\ (0 .. N) \ T # {}
  OBVIOUS
<1>1. PICK x \in (0 .. N) \ T : \A y \in (0 .. N) \ T : ~(y < x)
  BY <1>0, LeastElement
<1>2. x # 0 /\ x - 1 \in 0 .. N /\ x - 1 < x /\ x - 1 \in Nat /\ (x - 1) + 1 = x /\ x - 1 < N
  BY <1>1
<1> QED BY <1>1, <1>2

\* The courses of a loop of N turns that starts at first: its values, turn by turn.
Courses(S, first, turn, N) ==
  {f \in [0 .. N -> S] : f[0] = first /\ \A n \in 1 .. N : f[n] = turn[<<n - 1, f[n - 1]>>]}

\* A loop whose turns stay in S has a course.
LEMMA LoopRuns ==
  ASSUME NEW S, NEW first \in S, NEW N \in Nat,
         NEW turn \in [(0 .. N - 1) \X S -> S]
  PROVE  Courses(S, first, turn, N) # {}
<1> DEFINE Runs(m) ==
      \E f \in [0 .. m -> S] : f[0] = first /\ \A n \in 1 .. m : f[n] = turn[<<n - 1, f[n - 1]>>]
    T == {m \in Nat : Runs(m)}
<1>1. 0 \in T
  <2> DEFINE f == [n \in 0 .. 0 |-> first]
  <2>1. f \in [0 .. 0 -> S] /\ f[0] = first /\ 1 .. 0 = {}
    OBVIOUS
  <2> HIDE DEF f
  <2> QED BY <2>1
<1>2. ASSUME NEW m \in Nat, m < N, m \in T PROVE m + 1 \in T
  <2>1. PICK f \in [0 .. m -> S] :
          f[0] = first /\ \A n \in 1 .. m : f[n] = turn[<<n - 1, f[n - 1]>>]
    BY <1>2
  <2> DEFINE g == [n \in 0 .. m + 1 |-> IF n = m + 1 THEN turn[<<m, f[m]>>] ELSE f[n]]
  <2>2. g \in [0 .. m + 1 -> S]
    <3>1. turn[<<m, f[m]>>] \in S
      BY <1>2, <2>1
    <3>2. ASSUME NEW n \in 0 .. m + 1, n # m + 1 PROVE f[n] \in S
      BY <1>2, <2>1, <3>2
    <3> QED BY <3>1, <3>2
  <2>3. g[0] = first /\ g[m + 1] = turn[<<m, f[m]>>]
    BY <1>2, <2>1
  <2>4. ASSUME NEW n \in 1 .. m + 1 PROVE g[n] = turn[<<n - 1, g[n - 1]>>]
    <3>1. n - 1 \in 0 .. m + 1 /\ n - 1 # m + 1 /\ g[n - 1] = f[n - 1]
      BY <1>2, <2>4
    <3>2. CASE n = m + 1
      <4>1. n - 1 = m
        BY <1>2, <3>2
      <4> QED BY <2>3, <3>1, <3>2, <4>1
    <3>3. CASE n # m + 1
      <4>1. n \in 1 .. m /\ g[n] = f[n]
        BY <1>2, <2>4, <3>3
      <4> QED BY <2>1, <3>1, <4>1
    <3> QED BY <3>2, <3>3
  <2> HIDE DEF g
  <2>5. Runs(m + 1)
    BY <2>2, <2>3, <2>4
  <2> QED BY <2>5
<1>3. N \in T
  <2>1. T \in SUBSET Nat /\ N \in 0 .. N
    OBVIOUS
  <2> HIDE DEF T
  <2>2. \A n \in 0 .. N : n \in T
    BY <1>1, <1>2, <2>1, CountsUp
  <2> QED BY <2>1, <2>2
<1> QED BY <1>3 DEF Courses

\* The results f of a search in D that ends in stop with a value or goes on elsewhere.
IsSearch(f, D, stop, value, next) ==
  f = [x \in D |-> IF x \in stop THEN value[x] ELSE f[next[x]]]

\* A search that goes on in something smaller each time has results.
LEMMA SearchEnds ==
  ASSUME NEW D, NEW stop \in SUBSET D, NEW value, NEW next \in [D -> D],
         NEW N \in Nat, NEW size \in [D -> 0 .. N],
         \A x \in D \ stop : size[next[x]] < size[x]
  PROVE  \E f : IsSearch(f, D, stop, value, next)
<1> DEFINE Ends(m) ==
      \E f : \A x \in D :
        size[x] <= m => f[x] = IF x \in stop THEN value[x] ELSE f[next[x]]
    T == {m \in Nat : Ends(m)}
<1>0. \A x \in D : size[x] \in Nat /\ size[x] <= N /\ next[x] \in D
  OBVIOUS
<1>1. 0 \in T
  <2> DEFINE f == [x \in D |-> value[x]]
  <2>1. ASSUME NEW x \in D, size[x] <= 0 PROVE x \in stop /\ f[x] = value[x]
    BY <1>0, <2>1
  <2> HIDE DEF f
  <2>2. Ends(0)
    BY <2>1
  <2> QED BY <2>2
<1>2. ASSUME NEW m \in Nat, m < N, m \in T PROVE m + 1 \in T
  <2>1. PICK f : \A x \in D :
          size[x] <= m => f[x] = IF x \in stop THEN value[x] ELSE f[next[x]]
    BY <1>2
  <2> DEFINE g == [x \in D |-> IF x \in stop THEN value[x] ELSE f[next[x]]]
  <2>3. ASSUME NEW x \in D, size[x] <= m + 1
        PROVE  g[x] = IF x \in stop THEN value[x] ELSE g[next[x]]
    <3>1. CASE x \in stop
      BY <3>1
    <3>2. CASE x \notin stop
      <4>1. next[x] \in D /\ size[next[x]] <= m
        BY <1>0, <1>2, <2>3, <3>2
      <4>2. g[next[x]] = f[next[x]]
        BY <2>1, <4>1
      <4> QED BY <3>2, <4>2
    <3> QED BY <3>1, <3>2
  <2> HIDE DEF g
  <2>4. Ends(m + 1)
    BY <2>3
  <2> QED BY <2>4
<1>3. N \in T
  <2>1. T \in SUBSET Nat /\ N \in 0 .. N
    OBVIOUS
  <2> HIDE DEF T
  <2>2. \A n \in 0 .. N : n \in T
    BY <1>1, <1>2, <2>1, CountsUp
  <2> QED BY <2>1, <2>2
<1>4. PICK f : \A x \in D : size[x] <= N => f[x] = IF x \in stop THEN value[x] ELSE f[next[x]]
  BY <1>3
<1> DEFINE g == [x \in D |-> f[x]]
<1>5. g = [x \in D |-> IF x \in stop THEN value[x] ELSE g[next[x]]]
  BY <1>0, <1>4
<1> HIDE DEF g
<1> QED BY <1>5 DEF IsSearch

=============================================================================
