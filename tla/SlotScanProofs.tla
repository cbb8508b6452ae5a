--------------------------- MODULE SlotScanProofs ---------------------------
(***************************************************************************)
(* Proof that the loop of EmuFS's scan for a descriptor ends at the slot   *)
(* ScanPicks describes, on tables of any size.                             *)
(***************************************************************************)
EXTENDS SlotScan, Numbers, TLAPS

\* The candidate after n turns over a table.
Candidate(u, o, n, m) ==
  \/ /\ m < n /\ Vacant(u, o, m)
     /\ \A t \in Slots : t < m => ~Vacant(u, o, t)
  \/ /\ \A t \in Slots : t < n => ~Vacant(u, o, t)
     /\ \/ /\ m < n /\ Cached(u, o, m)
           /\ \A t \in Slots : m < t /\ t < n => ~InUseNotOpen(u, o, t)
           /\ \A t \in Slots : t < m /\ Cached(u, o, t) =>
                \E d \in Slots : t < d /\ d < m /\ InUseNotOpen(u, o, d)
        \/ /\ m < n /\ InUseNotOpen(u, o, m)
           /\ \A t \in Slots : m < t /\ t < n => ~Cached(u, o, t)
        \/ m = 0 /\ \A t \in Slots : t < n => u[t] /\ o[t]

LEMMA TurnKeepsCandidate ==
  ASSUME NEW u \in [Slots -> BOOLEAN], NEW o \in [Slots -> BOOLEAN],
         NEW n \in Slots, NEW m \in Slots, Candidate(u, o, n, m)
  PROVE  Turn(u, o, n, m) \in Slots /\ Candidate(u, o, n + 1, Turn(u, o, n, m))
<1> DEFINE moved == IF ~u[n] /\ u[m] THEN n ELSE m
           next == IF ~o[n] /\ o[moved] THEN n ELSE moved
<1>0. Slots \subseteq Nat /\ n \in Nat /\ m \in Nat
  BY NumSlotsAssumption DEF Slots
<1>1. Turn(u, o, n, m) = next
  BY DEF Turn
<1>2. \A t \in Slots : t < n + 1 <=> t < n \/ t = n
  BY <1>0
<1>3. n < n + 1 /\ (m < n => m < n + 1)
  BY <1>0
<1>4. CASE m < n /\ Vacant(u, o, m) /\ \A t \in Slots : t < m => ~Vacant(u, o, t)
  <2>1. next = m
    BY <1>4 DEF Vacant
  <2> QED BY <1>1, <1>3, <1>4, <2>1 DEF Candidate
<1> USE DEF Vacant, Cached, InUseNotOpen
<1>5. CASE /\ \A t \in Slots : t < n => ~Vacant(u, o, t)
           /\ m < n /\ Cached(u, o, m)
           /\ \A t \in Slots : m < t /\ t < n => ~InUseNotOpen(u, o, t)
           /\ \A t \in Slots : t < m /\ Cached(u, o, t) =>
                \E d \in Slots : t < d /\ d < m /\ InUseNotOpen(u, o, d)
  <2>1. CASE o[n]
    <3>1. next = m
      BY <1>5, <2>1
    <3>2. \A t \in Slots : t < n + 1 => ~Vacant(u, o, t)
      BY <1>2, <1>5, <2>1
    <3>3. \A t \in Slots : m < t /\ t < n + 1 => ~InUseNotOpen(u, o, t)
      BY <1>2, <1>5, <2>1
    <3> QED BY <1>1, <1>3, <1>5, <3>1, <3>2, <3>3 DEF Candidate
  <2>2. CASE ~o[n] /\ u[n]
    <3>1. next = n
      BY <1>5, <2>2
    <3>2. \A t \in Slots : t < n + 1 => ~Vacant(u, o, t)
      BY <1>2, <1>5, <2>2
    <3>3. \A t \in Slots : ~(n < t /\ t < n + 1)
      BY <1>0
    <3> QED BY <1>1, <1>3, <2>2, <3>1, <3>2, <3>3 DEF Candidate
  <2>3. CASE ~o[n] /\ ~u[n]
    <3>1. next = n
      BY <1>5, <2>3
    <3> QED BY <1>1, <1>3, <1>5, <2>3, <3>1 DEF Candidate
  <2> QED BY <2>1, <2>2, <2>3
<1>6. CASE /\ \A t \in Slots : t < n => ~Vacant(u, o, t)
           /\ m < n /\ InUseNotOpen(u, o, m)
           /\ \A t \in Slots : m < t /\ t < n => ~Cached(u, o, t)
  <2>1. CASE u[n]
    <3>1. next = m
      BY <1>6, <2>1
    <3>2. \A t \in Slots : t < n + 1 => ~Vacant(u, o, t)
      BY <1>2, <1>6, <2>1
    <3>3. \A t \in Slots : m < t /\ t < n + 1 => ~Cached(u, o, t)
      BY <1>2, <1>6, <2>1
    <3> QED BY <1>1, <1>3, <1>6, <3>1, <3>2, <3>3 DEF Candidate
  <2>2. CASE ~u[n]
    <3>1. next = n
      BY <1>6, <2>2
    <3>2. CASE o[n]
      <4>1. \A t \in Slots : t < n + 1 => ~Vacant(u, o, t)
        BY <1>2, <1>6, <3>2
      <4>2. \A t \in Slots : ~(n < t /\ t < n + 1)
        BY <1>0
      <4>3. \A t \in Slots : t < n /\ Cached(u, o, t) => t < m
        BY <1>0, <1>6
      <4> QED BY <1>1, <1>3, <1>6, <2>2, <3>1, <3>2, <4>1, <4>2, <4>3 DEF Candidate
    <3>3. CASE ~o[n]
      BY <1>1, <1>3, <1>6, <2>2, <3>1, <3>3 DEF Candidate
    <3> QED BY <3>2, <3>3
  <2> QED BY <2>1, <2>2
<1>7. CASE m = 0 /\ \A t \in Slots : t < n => u[t] /\ o[t]
  <2>1. n = 0 \/ (u[m] /\ o[m])
    BY <1>0, <1>7
  <2>2. \A t \in Slots : ~(n < t /\ t < n + 1)
    BY <1>0
  <2>3. \A t \in Slots : t < n => ~Vacant(u, o, t) /\ ~Cached(u, o, t) /\ ~InUseNotOpen(u, o, t)
    BY <1>7
  <2>4. CASE u[n] /\ o[n]
    <3>1. next = m
      BY <1>7, <2>1, <2>4
    <3>2. \A t \in Slots : t < n + 1 => u[t] /\ o[t]
      BY <1>2, <1>7, <2>4
    <3> QED BY <1>1, <1>7, <3>1, <3>2 DEF Candidate
  <2>5. CASE ~(u[n] /\ o[n])
    <3>1. next = n
      BY <1>7, <2>1, <2>5
    <3>2. CASE Vacant(u, o, n)
      BY <1>1, <1>3, <2>3, <3>1, <3>2 DEF Candidate
    <3>3. CASE ~Vacant(u, o, n)
      <4>1. \A t \in Slots : t < n + 1 => ~Vacant(u, o, t)
        BY <1>2, <2>3, <3>3
      <4> QED BY <1>1, <1>3, <2>2, <2>3, <2>5, <3>1, <4>1 DEF Candidate
    <3> QED BY <3>2, <3>3
  <2> QED BY <2>4, <2>5
<1>8. Turn(u, o, n, m) \in Slots
  BY <1>1
<1> HIDE DEF Vacant, Cached, InUseNotOpen
<1> QED BY <1>4, <1>5, <1>6, <1>7, <1>8 DEF Candidate

\* On every table of any size the loop of RegisterFileDescriptor and
\* FindAvailableFileDescriptor (EmuFS.cpp) ends at the slot ScanPicks describes, and
\* at a slot in use exactly when ScanPicks describes none.
THEOREM LoopEndsAtThePick ==
  ASSUME NEW u \in [Slots -> BOOLEAN], NEW o \in [Slots -> BOOLEAN]
  PROVE  \A s \in Slots : ScanPicks(u, o, s) <=> s = Match(u, o) /\ ~u[Match(u, o)]
<1> DEFINE turn == [x \in (0 .. NumSlots - 1) \X Slots |-> Turn(u, o, x[1], x[2])]
           Course(f) == [n \in 0 .. NumSlots |-> IF n = 0 THEN 0 ELSE Turn(u, o, n - 1, f[n - 1])]
<1>0. Slots \subseteq Nat /\ 0 \in Slots /\ NumSlots \in Nat /\ Slots = 0 .. NumSlots - 1
  BY NumSlotsAssumption DEF Slots
<1>1. \A n \in 0 .. NumSlots - 1, s \in Slots :
        turn[<<n, s>>] \in Slots /\ turn[<<n, s>>] = Turn(u, o, n, s)
  BY <1>0 DEF Turn
<1>2. PICK f \in Courses(Slots, 0, turn, NumSlots) : TRUE
  <2>1. turn \in [(0 .. NumSlots - 1) \X Slots -> Slots]
    BY <1>0 DEF Turn
  <2>2. 0 \in Slots /\ NumSlots \in Nat
    BY <1>0
  <2> HIDE DEF turn
  <2>3. Courses(Slots, 0, turn, NumSlots) # {}
    BY <2>1, <2>2, LoopRuns
  <2> QED BY <2>3
<1>3. f = Course(f)
  <2>0. f \in [0 .. NumSlots -> Slots] /\ f[0] = 0
        /\ \A n \in 1 .. NumSlots : f[n] = turn[<<n - 1, f[n - 1]>>]
    BY <1>2 DEF Courses
  <2>1. ASSUME NEW n \in 1 .. NumSlots PROVE n - 1 \in 0 .. NumSlots - 1 /\ f[n - 1] \in Slots
    <3>1. n - 1 \in 0 .. NumSlots - 1 /\ n - 1 \in 0 .. NumSlots
      BY <1>0
    <3> QED BY <2>0, <3>1
  <2> HIDE DEF turn
  <2>2. \A n \in 1 .. NumSlots : turn[<<n - 1, f[n - 1]>>] = Turn(u, o, n - 1, f[n - 1])
    BY <1>1, <2>1
  <2>3. \A n \in 0 .. NumSlots : n # 0 => n \in 1 .. NumSlots
    BY <1>0
  <2> QED BY <2>0, <2>2, <2>3
<1> DEFINE g == CHOOSE f1 : f1 = Course(f1)
<1>4. g = Course(g) /\ Match(u, o) = g[NumSlots]
  BY <1>3 DEF Match
<1>5. g[0] = 0 /\ \A n \in Slots : g[n + 1] = Turn(u, o, n, g[n])
  <2> HIDE DEF g
  <2>1. \A n \in Slots : n + 1 \in 0 .. NumSlots /\ n + 1 # 0 /\ (n + 1) - 1 = n
    BY <1>0
  <2>2. g[0] = 0
    BY <1>0, <1>4
  <2>3. ASSUME NEW n \in Slots PROVE g[n + 1] = Turn(u, o, n, g[n])
    BY <1>4, <2>1
  <2> QED BY <2>2, <2>3
<1> HIDE DEF g
<1> DEFINE T == {n \in Nat : g[n] \in Slots /\ Candidate(u, o, n, g[n])}
<1>6. 0 \in T
  <2>1. \A t \in Slots : ~(t < 0)
    BY <1>0
  <2> QED BY <1>0, <1>5, <2>1 DEF Candidate
<1>7. ASSUME NEW n \in Nat, n < NumSlots, n \in T PROVE n + 1 \in T
  <2>1. n \in Slots
    BY <1>0, <1>7
  <2>2. g[n] \in Slots /\ Candidate(u, o, n, g[n])
    BY <1>7
  <2>3. Turn(u, o, n, g[n]) \in Slots /\ Candidate(u, o, n + 1, Turn(u, o, n, g[n]))
    BY <2>1, <2>2, TurnKeepsCandidate
  <2> QED BY <1>5, <2>1, <2>3
<1>8. g[NumSlots] \in Slots /\ Candidate(u, o, NumSlots, g[NumSlots])
  <2>1. T \in SUBSET Nat /\ NumSlots \in 0 .. NumSlots
    BY <1>0
  <2> HIDE DEF T
  <2>2. \A n \in 0 .. NumSlots : n \in T
    BY <1>0, <1>6, <1>7, <2>1, CountsUp
  <2> QED BY <2>1, <2>2 DEF T
<1> DEFINE m == Match(u, o)
<1>9. m \in Slots /\ Candidate(u, o, NumSlots, m) /\ DOMAIN u = Slots
  BY <1>4, <1>8
<1>10. \A t \in Slots : t < NumSlots
  BY <1>0
<1> HIDE DEF m
<1>11. \A s, t \in Slots : s < t \/ t < s \/ s = t
  BY <1>0
<1>12. ASSUME NEW s \in Slots PROVE ScanPicks(u, o, s) <=> s = m /\ ~u[m]
  <2>1. CASE Vacant(u, o, m) /\ \A t \in Slots : t < m => ~Vacant(u, o, t)
    BY <1>0, <1>9, <1>11, <2>1 DEF ScanPicks, Vacant
  <2>2. CASE /\ \A t \in Slots : ~Vacant(u, o, t)
             /\ Cached(u, o, m)
             /\ \A t \in Slots : m < t => ~InUseNotOpen(u, o, t)
             /\ \A t \in Slots : t < m /\ Cached(u, o, t) =>
                  \E d \in Slots : t < d /\ d < m /\ InUseNotOpen(u, o, d)
    <3>1. CASE s = m
      <4>1. \A t \in Slots : t > m <=> m < t
        BY <1>0, <1>9
      <4> QED BY <1>9, <2>2, <3>1, <4>1 DEF ScanPicks, Cached
    <3>2. CASE s < m
      <4>1. ASSUME ScanPicks(u, o, s) PROVE FALSE
        <5>1. Cached(u, o, s) /\ \A t \in Slots : t > s => ~InUseNotOpen(u, o, t)
          BY <1>9, <2>2, <4>1 DEF ScanPicks
        <5>2. PICK d \in Slots : s < d /\ InUseNotOpen(u, o, d)
          BY <2>2, <3>2, <5>1
        <5> QED BY <1>0, <5>1, <5>2
      <4> QED BY <1>0, <1>9, <3>2, <4>1
    <3>3. CASE m < s
      <4>1. ASSUME ScanPicks(u, o, s) PROVE FALSE
        <5>1. PICK d \in Slots : m < d /\ InUseNotOpen(u, o, d)
          BY <1>9, <2>2, <3>3, <4>1 DEF ScanPicks
        <5> QED BY <2>2, <5>1
      <4> QED BY <1>0, <1>9, <3>3, <4>1
    <3> QED BY <1>0, <1>9, <1>11, <3>1, <3>2, <3>3
  <2>3. CASE /\ \A t \in Slots : ~Vacant(u, o, t)
             /\ InUseNotOpen(u, o, m)
             /\ \A t \in Slots : m < t => ~Cached(u, o, t)
    <3>1. ASSUME ScanPicks(u, o, s) PROVE FALSE
      <4>1. Cached(u, o, s) /\ \A t \in Slots : t > s => ~InUseNotOpen(u, o, t)
        BY <1>9, <2>3, <3>1 DEF ScanPicks
      <4>2. ~(m < s) /\ s # m
        BY <2>3, <4>1 DEF Cached, InUseNotOpen
      <4>3. m > s
        BY <1>0, <1>9, <4>2
      <4> QED BY <1>9, <2>3, <4>1, <4>3
    <3> QED BY <2>3, <3>1 DEF InUseNotOpen
  <2>4. CASE \A t \in Slots : u[t] /\ o[t]
    BY <1>9, <2>4 DEF ScanPicks, Vacant, Cached
  <2> QED BY <1>9, <1>10, <2>1, <2>2, <2>3, <2>4 DEF Candidate
<1> QED BY <1>12 DEF m

=============================================================================
