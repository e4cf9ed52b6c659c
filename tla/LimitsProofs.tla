----------------------------- MODULE LimitsProofs -----------------------------
(***************************************************************************)
(* What the service admits: calls of a key, and bytes of a request.        *)
(*                                                                         *)
(* The rate limiter, for every limit, set of keys and set of instants.     *)
(* A slot summarises the tail of the admission history (SlotSummarises);   *)
(* with that, the bound per aligned window is inductive, the bound on any  *)
(* sixty seconds follows from it, and no call is refused early.            *)
(*                                                                         *)
(* The request size limit, for every request, every limit and every way    *)
(* its chunks arrive: what is buffered and what is read are prefixes of    *)
(* the body (Prefixes), counted as they are (Tallied).                     *)
(***************************************************************************)
EXTENDS RateLimiter, BodyLimit, OperatorTheorems

LEMMA InitLimiter == Init => LimiterInv
  <1> SUFFICES ASSUME Init PROVE LimiterInv
    OBVIOUS
  <1>1. \A k \in Keys : admitted[k] = <<>> /\ windows[k] = NoSlot
    BY DEF Init
  <1>2. TypeOK
    BY RateLimiterAssumption, EmptySeq DEF Init, TypeOK
  <1>3. SlotSummarises
    BY <1>1 DEF SlotSummarises
  <1>4. WindowBound
    BY <1>1 DEF WindowBound
  <1>5. QED
    BY <1>2, <1>3, <1>4 DEF LimiterInv

(* Steps that leave the limiter off keep the invariant by its shape.       *)
LEMMA UnlimitedKeeps ==
  ASSUME LimiterInv, NEW k \in Keys, Admit(k), Unlimited
  PROVE  LimiterInv'
  <1>1. Unlimited /\ Unlimited'
    BY DEF Unlimited
  <1>2. TypeOK'
    <2>1. Append(admitted[k], clock) \in Seq(Instants)
      BY AppendProperties DEF LimiterInv, TypeOK
    <2>2. admitted' \in [Keys -> Seq(Instants)]
      BY <2>1 DEF Admit, LimiterInv, TypeOK
    <2>3. calls' \in [Keys -> 0..MaxCalls]
      BY RateLimiterAssumption DEF Admit, Called, LimiterInv, TypeOK
    <2>4. QED
      BY <2>2, <2>3 DEF Admit, Called, LimiterInv, TypeOK
  <1>3. QED
    BY <1>1, <1>2 DEF LimiterInv, SlotSummarises, WindowBound

(* Facts about one key that both kinds of counted call need.               *)
LEMMA KeyFacts ==
  ASSUME LimiterInv, ~ Unlimited, NEW k \in Keys
  PROVE  /\ Limit \in Nat /\ Limit >= 1
         /\ clock \in Nat /\ WindowAt(clock) \in Nat
         /\ admitted[k] \in Seq(Instants)
         /\ Len(admitted[k]) \in Nat
         /\ \A i \in 1..Len(admitted[k]) :
              admitted[k][i] \in Nat /\ WindowAt(admitted[k][i]) \in Nat
         /\ windows[k] \in Slots \cup {NoSlot}
         /\ windows[k] # NoSlot => windows[k].start \in Nat /\ windows[k].count \in Nat
  <1>1. Limit \in Nat /\ Limit >= 1
    BY FixedWindowAssumption DEF Unlimited
  <1>2. clock \in Nat /\ admitted[k] \in Seq(Instants) /\ windows[k] \in Slots \cup {NoSlot}
    BY RateLimiterAssumption DEF LimiterInv, TypeOK
  <1>3. \A i \in 1..Len(admitted[k]) : admitted[k][i] \in Nat
    BY <1>2, ElementOfSeq, RateLimiterAssumption
  <1>4. QED
    BY <1>1, <1>2, <1>3, WindowFacts, LenProperties DEF Slots
(* The two invariants, one key at a time.                                  *)
SummaryOf(k) ==
  IF windows[k] = NoSlot
    THEN admitted[k] = <<>>
    ELSE /\ windows[k].start <= WindowAt(clock)
         /\ windows[k].count >= 1
         /\ InWindow(k) <= Len(admitted[k])
         /\ \A i \in 1..Len(admitted[k]) :
              IF i + InWindow(k) > Len(admitted[k])
                THEN WindowAt(admitted[k][i]) = windows[k].start
                ELSE WindowAt(admitted[k][i]) < windows[k].start

BoundOf(k) ==
  \A i, j \in 1..Len(admitted[k]) :
    i + Limit <= j => WindowAt(admitted[k][i]) < WindowAt(admitted[k][j])

LEMMA PerKey ==
  /\ (SlotSummarises /\ WindowBound) <=> (~ Unlimited => \A k \in Keys : SummaryOf(k) /\ BoundOf(k))
  /\ (SlotSummarises /\ WindowBound)' <=> (~ Unlimited => \A k \in Keys : SummaryOf(k)' /\ BoundOf(k)')
  BY DEF SlotSummarises, WindowBound, SummaryOf, BoundOf, InWindow, Unlimited

(* An admitted call: it is the latest admission, of the current window.    *)
LEMMA AdmitKeeps ==
  ASSUME LimiterInv, NEW k \in Keys, Admit(k), ~ Unlimited
  PROVE  LimiterInv'
  <1> DEFINE a == admitted[k]
             n == Len(admitted[k])
             c == Counted(windows[k], clock)
             old == windows[k] # NoSlot /\ windows[k].start = WindowAt(clock)
  <1>0. ~ Unlimited
    OBVIOUS
  <1>1. /\ Limit \in Nat /\ Limit >= 1
        /\ clock \in Nat /\ WindowAt(clock) \in Nat
        /\ a \in Seq(Instants)
        /\ n \in Nat
        /\ \A i \in 1..n : a[i] \in Nat /\ WindowAt(a[i]) \in Nat
        /\ windows[k] \in Slots \cup {NoSlot}
        /\ windows[k] # NoSlot => windows[k].start \in Nat /\ windows[k].count \in Nat
    BY <1>0, KeyFacts
  <1>2. /\ c \in Slots
        /\ c # NoSlot
        /\ c.start = WindowAt(clock)
        /\ IF old THEN c.count = windows[k].count + 1 ELSE c.count = 1
    BY <1>1, CountedFacts
  <1>3. c.count <= Limit
    BY <1>0 DEF Admit, Allows
  <1>4. clock \in Instants /\ windows \in [Keys -> Slots \cup {NoSlot}]
        /\ admitted \in [Keys -> Seq(Instants)] /\ calls \in [Keys -> 0..MaxCalls]
    BY DEF LimiterInv, TypeOK
  <1>5. /\ windows' = [windows EXCEPT ![k] = c]
        /\ admitted' = [admitted EXCEPT ![k] = Append(a, clock)]
        /\ clock' = clock
        /\ calls' = [calls EXCEPT ![k] = @ + 1]
        /\ calls[k] < MaxCalls
    BY <1>0 DEF Admit, Called
  <1>6. /\ Append(a, clock) \in Seq(Instants)
        /\ Len(Append(a, clock)) = n + 1
        /\ \A i \in 1..n : Append(a, clock)[i] = a[i]
        /\ Append(a, clock)[n + 1] = clock
    BY <1>1, <1>4, AppendProperties
  <1>7. SummaryOf(k) /\ BoundOf(k)
    BY <1>0, PerKey DEF LimiterInv
  <1>8. /\ windows'[k] = c
        /\ admitted'[k] = Append(a, clock)
        /\ Len(admitted'[k]) = n + 1
        /\ \A i \in 1..n : admitted'[k][i] = a[i]
        /\ admitted'[k][n + 1] = clock
    BY <1>4, <1>5, <1>6
  <1>9. InWindow(k)' = c.count /\ c.count \in Nat /\ c.count >= 1
    BY <1>1, <1>2, <1>3, <1>8 DEF InWindow, Slots
  (* How many of the admissions so far are of the current window. *)
  <1>10. /\ c.count - 1 <= n
         /\ \A i \in 1..n :
              IF i + c.count > n + 1
                THEN WindowAt(a[i]) = WindowAt(clock)
                ELSE WindowAt(a[i]) < WindowAt(clock)
    <2>1. CASE windows[k] = NoSlot
      <3>1. n = 0 /\ c.count = 1
        BY <2>1, <1>2, <1>7, EmptySeq DEF SummaryOf
      <3>2. QED
        BY <3>1
    <2>2. CASE windows[k] # NoSlot
      <3>1. /\ windows[k].start <= WindowAt(clock)
            /\ windows[k].count >= 1
            /\ InWindow(k) <= n
            /\ \A i \in 1..n :
                 IF i + InWindow(k) > n
                   THEN WindowAt(a[i]) = windows[k].start
                   ELSE WindowAt(a[i]) < windows[k].start
        BY <2>2, <1>7 DEF SummaryOf
      <3>2. CASE windows[k].start = WindowAt(clock)
        <4>1. c.count = windows[k].count + 1 /\ InWindow(k) = windows[k].count
          BY <3>2, <2>2, <1>1, <1>2, <1>3 DEF InWindow
        <4> DEFINE b == windows[k].count
        <4>2. b \in Nat /\ c.count = b + 1 /\ InWindow(k) = b
          BY <4>1, <2>2, <1>1
        <4> HIDE DEF c, a, n, b
        <4>3. c.count - 1 <= n
          BY <4>2, <3>1, <1>1
        <4>4. ASSUME NEW i \in 1..n
              PROVE  IF i + c.count > n + 1
                       THEN WindowAt(a[i]) = WindowAt(clock)
                       ELSE WindowAt(a[i]) < WindowAt(clock)
          <5>1. (i + c.count > n + 1) <=> (i + InWindow(k) > n)
            BY <4>2, <1>1
          <5>2. QED
            BY <5>1, <3>1, <3>2
        <4>5. QED
          BY <4>3, <4>4
      <3>3. CASE windows[k].start # WindowAt(clock)
        <4>1. c.count = 1 /\ windows[k].start < WindowAt(clock)
          BY <3>1, <3>3, <2>2, <1>1, <1>2
        <4>2. ASSUME NEW i \in 1..n
              PROVE  WindowAt(a[i]) < WindowAt(clock)
          <5>1. WindowAt(a[i]) <= windows[k].start /\ WindowAt(a[i]) \in Nat
            BY <3>1, <1>1, <2>2
          <5>2. QED
            BY <5>1, <4>1, <1>1, <2>2
        <4>3. QED
          BY <4>1, <4>2, <1>1
      <3>4. QED
        BY <3>2, <3>3
    <2>3. QED
      BY <2>1, <2>2
  <1> HIDE DEF a, n, c
  <1>11. SummaryOf(k)'
    <2>1. ASSUME NEW i \in 1..(n + 1)
          PROVE  IF i + c.count > n + 1
                   THEN WindowAt(admitted'[k][i]) = c.start
                   ELSE WindowAt(admitted'[k][i]) < c.start
      <3>1. CASE i = n + 1
        BY <3>1, <1>1, <1>2, <1>8, <1>9
      <3>2. CASE i # n + 1
        <4>1. i \in 1..n
          BY <3>2, <1>1
        <4>2. QED
          BY <4>1, <1>2, <1>8, <1>10
      <3>3. QED
        BY <3>1, <3>2
    <2>2. /\ c.start <= WindowAt(clock)
          /\ c.count <= n + 1
      BY <1>1, <1>2, <1>9, <1>10
    <2>3. QED
      BY <2>1, <2>2, <1>2, <1>5, <1>8, <1>9 DEF SummaryOf
  <1>12. BoundOf(k)'
    <2> SUFFICES ASSUME NEW i \in 1..(n + 1), NEW j \in 1..(n + 1), i + Limit <= j
                 PROVE  WindowAt(admitted'[k][i]) < WindowAt(admitted'[k][j])
      BY <1>8 DEF BoundOf, Unlimited
    <2>1. i \in 1..n
      BY <1>1
    <2>2. CASE j = n + 1
      <3>1. ~ (i + c.count > n + 1)
        BY <2>2, <1>1, <1>3, <1>9
      <3>2. QED
        BY <3>1, <2>1, <2>2, <1>8, <1>10
    <2>3. CASE j # n + 1
      <3>0. n \in Nat
        BY <1>1
      <3>1. j \in 1..n
        BY <2>3, <3>0
      <3>2. WindowAt(a[i]) < WindowAt(a[j])
        BY <3>1, <2>1, <1>7 DEF BoundOf, a, n
      <3>3. QED
        BY <3>1, <3>2, <2>1, <1>8
    <2>4. QED
      BY <2>2, <2>3
  <1>13. \A j \in Keys : j # k => SummaryOf(j)' /\ BoundOf(j)'
    <2> SUFFICES ASSUME NEW j \in Keys, j # k PROVE SummaryOf(j)' /\ BoundOf(j)'
      OBVIOUS
    <2>1. windows'[j] = windows[j] /\ admitted'[j] = admitted[j] /\ clock' = clock
      BY <1>4, <1>5
    <2>2. SummaryOf(j) /\ BoundOf(j)
      BY <1>0, PerKey DEF LimiterInv
    <2>3. QED
      BY <2>1, <2>2 DEF SummaryOf, BoundOf, InWindow
  <1>14. TypeOK'
    <2>1. calls' \in [Keys -> 0..MaxCalls]
      BY <1>4, <1>5, RateLimiterAssumption
    <2>2. QED
      BY <1>2, <1>4, <1>5, <1>6, <2>1 DEF TypeOK
  <1>15. QED
    BY <1>11, <1>12, <1>13, <1>14, PerKey DEF LimiterInv

(* A refused call: the slot counts it, and since it already counted Limit  *)
(* calls of this window the admissions it stands for are the same.         *)
LEMMA RejectKeeps ==
  ASSUME LimiterInv, NEW k \in Keys, Reject(k)
  PROVE  /\ LimiterInv'
         /\ Len(admitted[k]) >= Limit
         /\ WindowAt(admitted[k][Len(admitted[k]) - Limit + 1]) = WindowAt(clock)
  <1> DEFINE a == admitted[k]
             n == Len(admitted[k])
             c == Counted(windows[k], clock)
             b == windows[k].count
  <1>0. ~ Unlimited /\ ~ (c.count <= Limit)
    BY DEF Reject, Allows
  <1>1. /\ Limit \in Nat /\ Limit >= 1
        /\ clock \in Nat /\ WindowAt(clock) \in Nat
        /\ n \in Nat
        /\ windows[k] \in Slots \cup {NoSlot}
        /\ windows[k] # NoSlot => windows[k].start \in Nat /\ b \in Nat
    BY <1>0, KeyFacts
  <1>2. /\ c \in Slots
        /\ c # NoSlot
        /\ c.start = WindowAt(clock)
        /\ IF windows[k] # NoSlot /\ windows[k].start = WindowAt(clock)
             THEN c.count = b + 1 ELSE c.count = 1
    BY <1>1, CountedFacts
  <1>3. /\ windows[k] # NoSlot
        /\ windows[k].start = WindowAt(clock)
        /\ c.count = b + 1
        /\ b \in Nat
        /\ b >= Limit
    BY <1>0, <1>1, <1>2
  <1>4. /\ windows \in [Keys -> Slots \cup {NoSlot}]
        /\ calls \in [Keys -> 0..MaxCalls]
    BY DEF LimiterInv, TypeOK
  <1>5. /\ windows' = [windows EXCEPT ![k] = c]
        /\ admitted' = admitted
        /\ clock' = clock
        /\ calls' = [calls EXCEPT ![k] = @ + 1]
        /\ calls[k] < MaxCalls
    BY DEF Reject, Called
  <1>6. \A j \in Keys : SummaryOf(j) /\ BoundOf(j)
    BY <1>0, PerKey DEF LimiterInv
  <1>7. InWindow(k) = Limit /\ InWindow(k)' = Limit
    <2>1. windows'[k] = c
      BY <1>4, <1>5
    <2> HIDE DEF c, b
    <2>2. InWindow(k)' = Limit
      BY <2>1, <1>1, <1>3 DEF InWindow
    <2>3. InWindow(k) = Limit
      BY <1>1, <1>3 DEF InWindow, b
    <2>4. QED
      BY <2>2, <2>3
  <1>8. /\ windows[k].start <= WindowAt(clock)
        /\ Limit <= n
        /\ \A i \in 1..n :
             IF i + Limit > n
               THEN WindowAt(a[i]) = WindowAt(clock)
               ELSE WindowAt(a[i]) < WindowAt(clock)
    BY <1>3, <1>6, <1>7 DEF SummaryOf
  <1>9. SummaryOf(k)'
    <2>1. /\ windows'[k] # NoSlot /\ windows'[k].start = WindowAt(clock)
          /\ windows'[k].count >= 1
      BY <1>1, <1>2, <1>3, <1>4, <1>5
    <2>2. QED
      BY <2>1, <1>1, <1>5, <1>7, <1>8 DEF SummaryOf
  <1>10. BoundOf(k)'
    BY <1>5, <1>6 DEF BoundOf
  <1>11. ASSUME NEW j \in Keys, j # k
         PROVE  SummaryOf(j)' /\ BoundOf(j)'
    <2>1. windows'[j] = windows[j] /\ admitted' = admitted /\ clock' = clock
      BY <1>4, <1>5, <1>11
    <2>2. SummaryOf(j) /\ BoundOf(j)
      BY <1>6
    <2>3. QED
      BY <2>1, <2>2 DEF SummaryOf, BoundOf, InWindow
  <1>12. TypeOK'
    <2>1. calls' \in [Keys -> 0..MaxCalls]
      BY <1>4, <1>5, RateLimiterAssumption
    <2>2. QED
      BY <1>2, <1>4, <1>5, <2>1 DEF TypeOK, LimiterInv
  <1>13. LimiterInv'
    BY <1>9, <1>10, <1>11, <1>12, PerKey DEF LimiterInv
  <1>14. WindowAt(a[n - Limit + 1]) = WindowAt(clock)
    <2>1. n - Limit + 1 \in 1..n /\ (n - Limit + 1) + Limit > n
      BY <1>1, <1>8
    <2> HIDE DEF a, n
    <2>2. QED
      BY <2>1, <1>8
  <1>15. QED
    BY <1>8, <1>13, <1>14, <1>1

(* Windows already counted cannot be reopened: time moves forward.         *)
LEMMA AdvanceKeeps ==
  ASSUME LimiterInv, Advance
  PROVE  LimiterInv'
  <1>1. PICK t \in Instants : t > clock /\ clock' = t
    BY DEF Advance
  <1>2. UNCHANGED <<windows, admitted, calls>>
    BY DEF Advance
  <1>3. clock \in Nat /\ clock' \in Nat /\ clock <= clock'
    BY <1>1, RateLimiterAssumption DEF LimiterInv, TypeOK
  <1>4. TypeOK'
    BY <1>1, <1>2 DEF LimiterInv, TypeOK
  <1>5. ASSUME ~ Unlimited, NEW k \in Keys
        PROVE  SummaryOf(k)' /\ BoundOf(k)'
    <2>1. SummaryOf(k) /\ BoundOf(k)
      BY <1>5, PerKey DEF LimiterInv
    <2>2. /\ WindowAt(clock) \in Nat /\ WindowAt(clock') \in Nat
          /\ WindowAt(clock) <= WindowAt(clock')
      BY <1>3, WindowFacts
    <2>3. windows[k] # NoSlot => windows[k].start \in Nat
      BY <1>5, KeyFacts
    <2>4. BoundOf(k)'
      BY <2>1, <1>2 DEF BoundOf
    <2>5. InWindow(k)' = InWindow(k)
      BY <1>2 DEF InWindow
    <2>6. SummaryOf(k)'
      BY <2>1, <2>2, <2>3, <2>5, <1>2 DEF SummaryOf
    <2>7. QED
      BY <2>4, <2>6
  <1>6. QED
    BY <1>4, <1>5, PerKey DEF LimiterInv

LEMMA NextKeeps == LimiterInv /\ [Next]_vars => LimiterInv'
  <1> SUFFICES ASSUME LimiterInv, [Next]_vars PROVE LimiterInv'
    OBVIOUS
  <1>1. ASSUME NEW k \in Keys, Admit(k) \/ Reject(k)
        PROVE  LimiterInv'
    BY <1>1, UnlimitedKeeps, AdmitKeeps, RejectKeeps
  <1>2. CASE Advance
    BY <1>2, AdvanceKeeps
  <1>3. CASE UNCHANGED vars
    BY <1>3 DEF vars, LimiterInv, TypeOK, SlotSummarises, WindowBound, InWindow
  <1>4. QED
    BY <1>1, <1>2, <1>3 DEF Next

(* The slot of a key always stands for its latest admissions.              *)
THEOREM LimiterInvariant == Spec => []LimiterInv
  BY InitLimiter, NextKeeps, PTL DEF Spec

(* Type correctness of RateLimiter (ratelimit.py:8-28).                    *)
THEOREM LimiterTypeCorrect == Spec => []TypeOK
  <1>1. LimiterInv => TypeOK
    BY DEF LimiterInv
  <1>2. QED
    BY <1>1, LimiterInvariant, PTL

(* At most Limit admissions of a key per aligned minute, for every limit.  *)
THEOREM LimiterWindowBound == Spec => []WindowBound
  <1>1. LimiterInv => WindowBound
    BY DEF LimiterInv
  <1>2. QED
    BY <1>1, LimiterInvariant, PTL

(* At most twice the limit in any sixty seconds: the guarantee the code    *)
(* gives in place of the rolling window its docstring speaks of.           *)
THEOREM LimiterBurstBound == Spec => []BurstBound
  <1>1. LimiterInv => BurstBound
    <2> SUFFICES ASSUME LimiterInv, ~ Unlimited, NEW k \in Keys,
                        NEW i \in 1..Len(admitted[k]), NEW j \in 1..Len(admitted[k]),
                        i + 2 * Limit <= j
                 PROVE  admitted[k][j] - admitted[k][i] >= 60
      BY DEF BurstBound
    <2>1. /\ Limit \in Nat /\ Limit >= 1
          /\ Len(admitted[k]) \in Nat
          /\ \A m \in 1..Len(admitted[k]) :
               admitted[k][m] \in Nat /\ WindowAt(admitted[k][m]) \in Nat
      BY KeyFacts
    <2>2. i + Limit \in 1..Len(admitted[k]) /\ (i + Limit) + Limit <= j
      BY <2>1
    <2>3. /\ WindowAt(admitted[k][i]) < WindowAt(admitted[k][i + Limit])
          /\ WindowAt(admitted[k][i + Limit]) < WindowAt(admitted[k][j])
      BY <2>1, <2>2 DEF LimiterInv, WindowBound
    <2>4. WindowAt(admitted[k][i]) + 2 <= WindowAt(admitted[k][j])
      <3> DEFINE x == WindowAt(admitted[k][i])
                 y == WindowAt(admitted[k][i + Limit])
                 z == WindowAt(admitted[k][j])
      <3>1. x \in Nat /\ y \in Nat /\ z \in Nat /\ x < y /\ y < z
        BY <2>1, <2>2, <2>3
      <3> HIDE DEF x, y, z
      <3>2. x + 2 <= z
        BY <3>1
      <3>3. QED
        BY <3>2 DEF x, z
    <2>5. QED
      BY <2>1, <2>4, WindowFacts
  <1>2. QED
    BY <1>1, LimiterInvariant, PTL

(* No call is refused while the key has calls left in the current window.  *)
THEOREM LimiterRefusesOnlyAtLimit == Spec => RefusesOnlyAtLimit
  <1> DEFINE Earned(k) ==
        (calls'[k] # calls[k] /\ admitted'[k] = admitted[k]) =>
          /\ Limit > 0
          /\ Len(admitted[k]) >= Limit
          /\ WindowAt(admitted[k][Len(admitted[k]) - Limit + 1]) = WindowAt(clock)
  <1>1. LimiterInv /\ [Next]_vars => [\A k \in Keys : Earned(k)]_vars
    <2> SUFFICES ASSUME LimiterInv, Next, NEW k \in Keys,
                        calls'[k] # calls[k], admitted'[k] = admitted[k]
                 PROVE  /\ Limit > 0
                        /\ Len(admitted[k]) >= Limit
                        /\ WindowAt(admitted[k][Len(admitted[k]) - Limit + 1]) = WindowAt(clock)
      OBVIOUS
    <2>1. ASSUME NEW j \in Keys, Admit(j)
          PROVE  FALSE
      <3>1. calls' = [calls EXCEPT ![j] = @ + 1] /\ admitted' = [admitted EXCEPT ![j] = Append(@, clock)]
        BY <2>1 DEF Admit, Admit, Called
      <3>2. j = k
        BY <3>1 DEF LimiterInv, TypeOK
      <3>3. admitted[k] \in Seq(Instants) /\ clock \in Instants
        BY DEF LimiterInv, TypeOK
      <3>4. Len(Append(admitted[k], clock)) = Len(admitted[k]) + 1 /\ Len(admitted[k]) \in Nat
        BY <3>3, AppendProperties, LenProperties
      <3>5. admitted'[k] = Append(admitted[k], clock)
        BY <3>1, <3>2 DEF LimiterInv, TypeOK
      <3>6. QED
        BY <3>4, <3>5
    <2>2. ASSUME NEW j \in Keys, Reject(j)
          PROVE  j = k /\ ~ Unlimited
      BY <2>2 DEF Reject, Called, Allows, LimiterInv, TypeOK
    <2>3. CASE Advance
      BY <2>3 DEF Advance
    <2>4. ~ Unlimited => Limit > 0
      BY FixedWindowAssumption DEF Unlimited
    <2>5. QED
      BY <2>1, <2>2, <2>3, <2>4, RejectKeeps DEF Next
  <1>2. QED
    BY <1>1, LimiterInvariant, PTL DEF Spec, RefusesOnlyAtLimit

-----------------------------------------------------------------------------
(* The request size limit *)

(* The first n chunks of the body, and how many bytes they have.           *)
First(n) == [i \in 1..n |-> i]
SumTo(n) == SumFunctionOnSet(upload.sizes, 1..n)

(* Both the buffer and what the application has read are prefixes of the   *)
(* body; and where the middleware is says how far each has come.           *)
Prefixes ==
  /\ chunks = First(Len(chunks)) /\ Len(chunks) \in 0..Chunks
  /\ seen = First(Len(seen)) /\ Len(seen) \in 0..Chunks
  /\ whole => Len(seen) = Chunks
  /\ stage \in {"called", "reading"} => seen = <<>> /\ ~ whole /\ ~ replayed
  /\ stage = "called" => chunks = <<>> /\ taken = 0
  /\ stage = "reading" => upload.header = "absent" /\ Len(chunks) = taken
  /\ stage = "application" =>
       IF upload.header = "absent"
         THEN Len(chunks) = Chunks /\ (IF replayed THEN whole ELSE seen = <<>>)
         ELSE Len(seen) = taken

(* What the middleware goes by: Size, in these terms.                      *)
Measure == IF upload.header = "declared" THEN upload.declared ELSE SumTo(Chunks)

(* received is the size of the buffer while it is filled, the buffer does  *)
(* not exceed the limit, and what is measured decides about the request.   *)
Tallied ==
  /\ stage \in {"called", "reading"} => received = SumTo(Len(chunks))
  /\ SumTo(Len(chunks)) <= MaxBytes
  /\ SumTo(Chunks) <= Measure => SumTo(Len(seen)) <= MaxBytes
  /\ stage = "application" => Measure <= MaxBytes
  /\ answer = "413" => Measure > MaxBytes

BodyInv == BodyTypeOK /\ Prefixes /\ Tallied

LEMMA UploadType ==
  ASSUME BodyTypeOK
  PROVE  /\ upload.sizes \in Seq(Nat)
         /\ Chunks \in Nat \ {0}
         /\ \A i \in 1..Chunks : upload.sizes[i] \in Nat
         /\ upload.header \in Headers
         /\ upload.declared \in Nat
  <1>1. upload \in [header : Headers, declared : Nat, sizes : Seq(Nat)] /\ upload.sizes # <<>>
    BY BodyLimitAssumption DEF BodyTypeOK
  <1>2. QED
    BY <1>1, EmptySeq, LenProperties DEF Chunks

(* The bytes of a prefix. *)
LEMMA SumToFacts ==
  ASSUME BodyTypeOK
  PROVE  /\ SumTo(0) = 0
         /\ \A n \in 0..Chunks :
              /\ SumTo(n) \in Nat
              /\ SumTo(n) <= SumTo(Chunks)
              /\ Bytes(First(n)) = SumTo(n)
              /\ n < Chunks => SumTo(n + 1) = SumTo(n) + upload.sizes[n + 1]
  <1>0. /\ Chunks \in Nat
        /\ \A i \in 1..Chunks : upload.sizes[i] \in Nat
    BY UploadType
  <1>1. SumTo(0) = 0
    <2>1. 1..0 = {}
      OBVIOUS
    <2>2. QED
      BY <2>1, SumOfNone DEF SumTo
  <1>2. ASSUME NEW n \in 0..Chunks
        PROVE  /\ SumTo(n) \in Nat
               /\ SumTo(n) <= SumTo(Chunks)
               /\ Bytes(First(n)) = SumTo(n)
               /\ n < Chunks => SumTo(n + 1) = SumTo(n) + upload.sizes[n + 1]
    <2>1. IsFiniteSet(1..n) /\ IsFiniteSet(1..Chunks) /\ n \in Nat
      BY <1>0, FS_Interval
    <2>2. 1..n \in SUBSET (1..Chunks) /\ n + 1 \notin 1..n
      BY <1>0, <2>1
    <2>3. SumTo(n) \in Nat /\ SumTo(n) <= SumTo(Chunks)
      BY <1>0, <2>1, <2>2, SumGrows DEF SumTo
    <2>4. Bytes(First(n)) = SumTo(n)
      <3> DEFINE f == [i \in 1..Len(First(n)) |-> upload.sizes[First(n)[i]]]
      <3>1. First(n) \in Seq(Nat) /\ Len(First(n)) = n
        BY <2>1 DEF First
      <3>2. DOMAIN f = 1..n
        BY <3>1
      <3>3. \A i \in 1..n : f[i] \in Int /\ f[i] = upload.sizes[i]
        BY <1>0, <2>2, <3>1 DEF First
      <3>4. Bytes(First(n)) = SumFunctionOnSet(f, 1..n)
        BY <3>2 DEF Bytes, SumFunction
      <3> HIDE DEF f
      <3>5. QED
        BY <2>1, <3>3, <3>4, SumAgree DEF SumTo
    <2>5. ASSUME n < Chunks
          PROVE  SumTo(n + 1) = SumTo(n) + upload.sizes[n + 1]
      <3>1. 1..(n + 1) = (1..n) \cup {n + 1}
        BY <2>1
      <3>2. upload.sizes[n + 1] \in Int /\ \A i \in 1..n : upload.sizes[i] \in Int
        BY <1>0, <2>1, <2>2, <2>5
      <3>3. SumFunctionOnSet(upload.sizes, (1..n) \cup {n + 1}) =
              SumFunctionOnSet(upload.sizes, 1..n) + upload.sizes[n + 1]
        BY <2>1, <2>2, <3>2, SumAdd
      <3>4. QED
        BY <3>1, <3>3 DEF SumTo
    <2>6. QED
      BY <2>3, <2>4, <2>5
  <1>3. QED
    BY <1>1, <1>2

LEMMA InitBody == BodyInit => BodyInv
  <1> SUFFICES ASSUME BodyInit PROVE BodyInv
    OBVIOUS
  <1>1. upload \in [header : Headers, declared : Nat, sizes : Seq(Nat)]
    BY BodyLimitAssumption DEF BodyInit
  <1>2. Chunks \in Nat
    BY <1>1, LenProperties DEF Chunks
  <1>3. BodyTypeOK
    <2>1. chunks \in Seq(1..Chunks) /\ seen \in Seq(1..Chunks)
      BY EmptySeq DEF BodyInit
    <2>2. arrived \in 0..Chunks /\ taken \in 0..arrived /\ received \in Nat
      BY <1>2 DEF BodyInit
    <2>3. QED
      BY <2>1, <2>2 DEF BodyInit, BodyTypeOK
  <1>4. <<>> = First(Len(<<>>)) /\ Len(<<>>) = 0
    BY DEF First
  <1>5. Prefixes
    BY <1>2, <1>4 DEF BodyInit, Prefixes
  <1>6. Tallied
    BY <1>3, <1>4, BodyLimitAssumption, SumToFacts DEF BodyInit, Tallied
  <1>7. QED
    BY <1>3, <1>5, <1>6 DEF BodyInv

(* The upload stays the same, and with it what it adds up to.              *)
LEMMA SameUpload ==
  ASSUME UNCHANGED upload
  PROVE  /\ Chunks' = Chunks
         /\ SumTo(Len(chunks))' = SumTo(Len(chunks'))
         /\ SumTo(Len(seen))' = SumTo(Len(seen'))
         /\ SumTo(Chunks)' = SumTo(Chunks)
         /\ Measure' = Measure
         /\ First(Len(chunks))' = First(Len(chunks'))
         /\ First(Len(seen))' = First(Len(seen'))
  BY DEF Chunks, SumTo, First, Measure

(* A prefix that grows by the next chunk is a prefix.                      *)
LEMMA PrefixGrows ==
  ASSUME NEW n \in Nat
  PROVE  /\ Append(First(n), n + 1) = First(n + 1)
         /\ Len(First(n)) = n
         /\ \A c \in Nat : n <= c => First(n) \in Seq(1..c)
         /\ <<>> \o First(n) = First(n)
  <1>1. Len(First(n)) = n /\ First(n) \in Seq(1..n)
    BY DEF First
  <1>2. Append(First(n), n + 1) = First(n + 1)
    BY DEF First
  <1>3. \A c \in Nat : n <= c => First(n) \in Seq(1..c)
    BY DEF First
  <1>4. QED
    BY <1>1, <1>2, <1>3, ConcatEmptySeq

LEMMA PrefixTakesNext ==
  ASSUME NEW n \in Nat, NEW c \in Nat, n < c
  PROVE  /\ Append(First(n), n + 1) = First(n + 1)
         /\ Len(First(n + 1)) = n + 1
         /\ First(n + 1) \in Seq(1..c)
  <1>1. n + 1 \in Nat /\ n + 1 <= c
    OBVIOUS
  <1>2. QED
    BY <1>1, PrefixGrows

LEMMA ArrivalKeepsBody ==
  ASSUME BodyInv, Arrive \/ HangUp \/ UNCHANGED bodyVars
  PROVE  BodyInv'
  <1>1. UNCHANGED <<upload, taken, stage, chunks, received, replayed, seen, whole, answer>>
    BY DEF Arrive, HangUp, bodyVars, client, buffer, reader
  <1>2. BodyTypeOK'
    <2>1. Chunks \in Nat /\ Chunks' = Chunks
      BY <1>1, UploadType, SameUpload DEF BodyInv
    <2>2. arrived' \in 0..Chunks /\ taken \in 0..arrived'
      BY <2>1 DEF Arrive, HangUp, bodyVars, client, BodyInv, BodyTypeOK
    <2>3. gone' \in BOOLEAN
      BY DEF Arrive, HangUp, bodyVars, client, BodyInv, BodyTypeOK
    <2>4. QED
      BY <1>1, <2>1, <2>2, <2>3 DEF BodyInv, BodyTypeOK
  <1>3. Prefixes'
    BY <1>1, SameUpload DEF BodyInv, Prefixes
  <1>4. Tallied'
    BY <1>1, SameUpload DEF BodyInv, Tallied
  <1>5. QED
    BY <1>2, <1>3, <1>4 DEF BodyInv

(* A request that ends as it is.                                           *)
LEMMA EndKeepsBody ==
  ASSUME BodyInv, UNCHANGED <<client, taken, buffer, reader>>,
         NEW how \in {"400", "413", "silent", "application"}, Ends(how),
         how = "413" => Measure > MaxBytes
  PROVE  BodyInv'
  <1>1. /\ UNCHANGED <<upload, arrived, gone, taken, chunks, received, replayed, seen, whole>>
        /\ stage' = "ended" /\ answer' = how
    BY DEF client, buffer, reader, Ends
  <1>2. BodyTypeOK'
    BY <1>1, SameUpload DEF BodyInv, BodyTypeOK
  <1>3. Prefixes'
    BY <1>1, SameUpload DEF BodyInv, Prefixes
  <1>4. Tallied'
    BY <1>1, SameUpload DEF BodyInv, Tallied
  <1>5. QED
    BY <1>2, <1>3, <1>4 DEF BodyInv

(* Total is what the whole body adds up to.                                *)
LEMMA TotalIsSum ==
  ASSUME BodyTypeOK
  PROVE  Total = SumTo(Chunks)
  <1>1. Chunks \in 0..Chunks
    BY UploadType
  <1>2. Bytes(First(Chunks)) = SumTo(Chunks)
    BY <1>1, SumToFacts
  <1>3. QED
    BY <1>2 DEF Total, First

LEMMA BeginKeepsBody ==
  ASSUME BodyInv, PassThrough \/ BeginReading
  PROVE  BodyInv'
  <1>1. /\ UNCHANGED <<upload, arrived, gone, taken, chunks, received, replayed, seen, whole, answer>>
        /\ stage = "called"
        /\ \/ stage' = "reading" /\ upload.header = "absent"
           \/ stage' = "application" /\ upload.header = "declared" /\ Measure <= MaxBytes
    BY DEF PassThrough, BeginReading, client, buffer, reader, Measure
  <1>2. BodyTypeOK'
    BY <1>1, SameUpload DEF BodyInv, BodyTypeOK
  <1>3. Prefixes'
    BY <1>1, SameUpload DEF BodyInv, Prefixes
  <1>4. Tallied'
    BY <1>1, SameUpload DEF BodyInv, Tallied
  <1>5. QED
    BY <1>2, <1>3, <1>4 DEF BodyInv

(* The middleware takes the next chunk, and with it the size grows by its. *)
LEMMA ReadingCounts ==
  ASSUME BodyInv, stage = "reading", Receives, received' = received + upload.sizes[taken']
  PROVE  /\ taken \in Nat /\ taken' = taken + 1 /\ taken' \in 0..arrived /\ taken' \in 1..Chunks
         /\ Len(chunks) = taken /\ chunks = First(taken)
         /\ received' = SumTo(taken')
         /\ received' \in Nat
  <1>1. Chunks \in Nat /\ arrived \in 0..Chunks /\ taken \in 0..arrived
    BY UploadType DEF BodyInv, BodyTypeOK
  <1>2. taken' = taken + 1 /\ taken < arrived
    BY DEF Receives
  <1>3. taken \in Nat /\ taken' \in 0..arrived /\ taken' \in 1..Chunks /\ taken \in 0..Chunks
    BY <1>1, <1>2
  <1>4. Len(chunks) = taken /\ chunks = First(taken) /\ received = SumTo(taken)
    BY DEF BodyInv, Prefixes, Tallied
  <1>5. SumTo(taken + 1) = SumTo(taken) + upload.sizes[taken + 1]
    BY <1>1, <1>2, <1>3, SumToFacts DEF BodyInv
  <1>6. SumTo(taken') \in Nat
    BY <1>3, SumToFacts DEF BodyInv
  <1>7. QED
    BY <1>2, <1>3, <1>4, <1>5, <1>6

LEMMA ChunkTooLargeKeepsBody ==
  ASSUME BodyInv, ChunkTooLarge
  PROVE  BodyInv'
  <1>1. /\ UNCHANGED <<upload, arrived, gone, chunks, replayed, seen, whole>>
        /\ stage' = "ended" /\ answer' = "413"
        /\ received' > MaxBytes
    BY DEF ChunkTooLarge, client, reader, Ends
  <1>2. /\ taken' \in 0..arrived /\ taken' \in 0..Chunks
        /\ received' = SumTo(taken') /\ received' \in Nat
    BY ReadingCounts DEF ChunkTooLarge
  <1>3. SumTo(taken') <= SumTo(Chunks) /\ SumTo(Chunks) \in Nat
    <2>1. Chunks \in 0..Chunks
      BY UploadType DEF BodyInv
    <2>2. QED
      BY <1>2, <2>1, SumToFacts DEF BodyInv
  <1>4. Measure > MaxBytes
    <2>1. upload.header = "absent"
      BY DEF ChunkTooLarge, BodyInv, Prefixes
    <2>2. QED
      BY <1>1, <1>2, <1>3, <2>1, BodyLimitAssumption DEF Measure
  <1>5. BodyTypeOK'
    BY <1>1, <1>2, SameUpload DEF BodyInv, BodyTypeOK
  <1>6. Prefixes'
    BY <1>1, SameUpload DEF BodyInv, Prefixes
  <1>7. Tallied'
    BY <1>1, <1>4, SameUpload DEF BodyInv, Tallied
  <1>8. QED
    BY <1>5, <1>6, <1>7 DEF BodyInv

LEMMA KeepChunkKeepsBody ==
  ASSUME BodyInv, KeepChunk
  PROVE  BodyInv'
  <1>1. /\ UNCHANGED <<upload, arrived, gone, replayed, seen, whole, answer>>
        /\ stage = "reading"
        /\ received' <= MaxBytes
        /\ chunks' = Append(chunks, taken')
        /\ stage' = IF taken' < Chunks THEN "reading" ELSE "application"
    BY DEF KeepChunk, client, reader, More
  <1>2. /\ taken \in Nat /\ taken' = taken + 1
        /\ taken' \in 0..arrived /\ taken' \in 1..Chunks
        /\ chunks = First(taken)
        /\ received' = SumTo(taken') /\ received' \in Nat
    BY ReadingCounts DEF KeepChunk
  <1>3. chunks' = First(taken') /\ Len(chunks') = taken'
    <2>1. taken < Chunks /\ Chunks \in Nat
      BY <1>2, UploadType DEF BodyInv
    <2>2. QED
      BY <1>1, <1>2, <2>1, PrefixTakesNext
  <1>4. chunks' \in Seq(1..Chunks)
    <2>1. taken < Chunks /\ Chunks \in Nat
      BY <1>2, UploadType DEF BodyInv
    <2>2. QED
      BY <1>1, <1>2, <2>1, PrefixTakesNext
  <1>5. /\ upload.header = "absent" /\ seen = <<>> /\ ~ whole /\ ~ replayed
        /\ seen = First(Len(seen)) /\ Len(seen) \in 0..Chunks
        /\ (answer = "413" => Measure > MaxBytes)
        /\ Measure = SumTo(Chunks)
    BY <1>1 DEF BodyInv, Prefixes, Tallied, Measure
  <1>6. BodyTypeOK'
    BY <1>1, <1>2, <1>4, SameUpload DEF BodyInv, BodyTypeOK
  <1>7. Prefixes'
    <2>1. Len(chunks') \in 0..Chunks /\ (stage' = "application" => Len(chunks') = Chunks)
      BY <1>1, <1>2, <1>3, UploadType DEF BodyInv
    <2>2. QED
      BY <1>1, <1>3, <1>5, <2>1, SameUpload DEF Prefixes
  <1>8. Tallied'
    <2>1. SumTo(Len(seen)) = 0
      BY <1>5, SumToFacts, EmptySeq DEF BodyInv
    <2>2. stage' = "application" => taken' = Chunks
      BY <1>1, <1>2, UploadType DEF BodyInv
    <2>3. SumTo(Len(seen')) <= MaxBytes
      BY <1>1, <2>1, BodyLimitAssumption
    <2>4. stage' = "application" => Measure <= MaxBytes
      BY <1>1, <1>2, <1>5, <2>2
    <2>5. QED
      BY <1>1, <1>2, <1>3, <1>5, <2>3, <2>4, SameUpload DEF Tallied
  <1>9. QED
    BY <1>6, <1>7, <1>8 DEF BodyInv

LEMMA ReplayKeepsBody ==
  ASSUME BodyInv, AppReadsReplay
  PROVE  BodyInv'
  <1>1. /\ UNCHANGED <<upload, arrived, gone, taken, stage, chunks, received, answer>>
        /\ stage = "application" /\ upload.header = "absent" /\ ~ replayed
        /\ replayed' = TRUE /\ whole' = TRUE
        /\ seen' = seen \o chunks
    BY DEF AppReadsReplay, client, Replays
  <1>2. seen = <<>> /\ Len(chunks) = Chunks /\ chunks = First(Chunks) /\ Chunks \in Nat
    BY <1>1, UploadType DEF BodyInv, Prefixes
  <1>3. seen' = chunks
    BY <1>1, <1>2, PrefixGrows
  <1>4. BodyTypeOK'
    BY <1>1, <1>3, SameUpload DEF BodyInv, BodyTypeOK
  <1>5. Prefixes'
    BY <1>1, <1>2, <1>3, SameUpload DEF BodyInv, Prefixes
  <1>6. Tallied'
    BY <1>1, <1>2, <1>3, SameUpload DEF BodyInv, Tallied
  <1>7. QED
    BY <1>4, <1>5, <1>6 DEF BodyInv

LEMMA ServerReadKeepsBody ==
  ASSUME BodyInv, AppReadsServer
  PROVE  BodyInv'
  <1>1. /\ UNCHANGED <<upload, arrived, gone, stage, chunks, received, replayed, answer>>
        /\ stage = "application" /\ ~ whole /\ ~ Replays
        /\ taken < arrived /\ taken' = taken + 1
        /\ seen' = Append(seen, taken')
        /\ whole' \in BOOLEAN /\ (whole' => ~ (taken' < Chunks))
    BY DEF AppReadsServer, client, buffer, Receives, More
  <1>2. upload.header # "absent"
    BY <1>1 DEF BodyInv, Prefixes, Replays
  <1>3. /\ Chunks \in Nat /\ arrived \in 0..Chunks /\ taken \in 0..arrived
        /\ Len(seen) = taken /\ seen = First(taken)
        /\ Measure <= MaxBytes
    BY <1>1, <1>2, UploadType DEF BodyInv, BodyTypeOK, Prefixes, Tallied
  <1>4. /\ taken \in Nat
        /\ taken' \in 0..arrived /\ taken' \in 1..Chunks
    BY <1>1, <1>3
  <1>5. seen' = First(taken') /\ Len(seen') = taken' /\ seen' \in Seq(1..Chunks)
    <2>1. taken < Chunks
      BY <1>1, <1>3, <1>4
    <2>2. QED
      BY <1>1, <1>3, <1>4, <2>1, PrefixTakesNext
  <1>6. taken' \in Nat /\ taken' <= Chunks
    BY <1>3, <1>4
  <1>7. SumTo(Chunks) <= Measure => SumTo(taken') <= MaxBytes
    <2>1. taken' \in 0..Chunks /\ Chunks \in 0..Chunks
      BY <1>3, <1>4
    <2>2. SumTo(taken') <= SumTo(Chunks) /\ SumTo(taken') \in Nat /\ SumTo(Chunks) \in Nat
      BY <2>1, SumToFacts DEF BodyInv
    <2>3. QED
      <3>1. Measure \in Nat
        BY <2>2, UploadType DEF Measure, BodyInv
      <3>2. QED
        BY <1>3, <2>2, <3>1, BodyLimitAssumption
  <1>8. BodyTypeOK'
    BY <1>1, <1>4, <1>5, SameUpload DEF BodyInv, BodyTypeOK
  <1>9. Prefixes'
    <2>1. Len(seen') \in 0..Chunks
      BY <1>3, <1>5, <1>6
    <2>2. whole' => Len(seen') = Chunks
      BY <1>1, <1>3, <1>5, <1>6
    <2>3. QED
      BY <1>1, <1>2, <1>5, <2>1, <2>2, SameUpload DEF BodyInv, Prefixes
  <1>10. Tallied'
    BY <1>1, <1>3, <1>5, <1>7, SameUpload DEF BodyInv, Tallied
  <1>11. QED
    BY <1>8, <1>9, <1>10 DEF BodyInv

(* The invariant of a request, whatever its header, its chunks and the     *)
(* limit (api.py:52-94).                                                   *)
THEOREM BodyInvariant == BodySpec => []BodyInv
  <1>1. BodyInv /\ [BodyNext]_bodyVars => BodyInv'
    <2> SUFFICES ASSUME BodyInv, [BodyNext]_bodyVars
                 PROVE  BodyInv'
      OBVIOUS
    <2>1. CASE Arrive \/ HangUp \/ UNCHANGED bodyVars
      BY <2>1, ArrivalKeepsBody
    <2>2. CASE InvalidLength \/ DeclaredTooLarge \/ ReadDisconnect \/ AppDisconnect \/ AppResponds
      <3>1. PICK how \in {"400", "413", "silent", "application"} :
              Ends(how) /\ (how = "413" => Measure > MaxBytes)
        BY <2>2 DEF InvalidLength, DeclaredTooLarge, ReadDisconnect, AppDisconnect, AppResponds,
                    Measure
      <3>2. UNCHANGED <<client, taken, buffer, reader>>
        BY <2>2 DEF InvalidLength, DeclaredTooLarge, ReadDisconnect, AppDisconnect, AppResponds
      <3>3. QED
        BY <3>1, <3>2, EndKeepsBody DEF BodyInv
    <2>3. CASE PassThrough \/ BeginReading
      BY <2>3, BeginKeepsBody
    <2>4. CASE KeepChunk
      BY <2>4, KeepChunkKeepsBody
    <2>5. CASE ChunkTooLarge
      BY <2>5, ChunkTooLargeKeepsBody
    <2>6. CASE AppReadsReplay
      BY <2>6, ReplayKeepsBody
    <2>7. CASE AppReadsServer
      BY <2>7, ServerReadKeepsBody
    <2>8. QED
      BY <2>1, <2>2, <2>3, <2>4, <2>5, <2>6, <2>7 DEF BodyNext, Middleware, Application
  <1>2. QED
    BY <1>1, InitBody, PTL DEF BodySpec

(* The types of the request's state.                                       *)
THEOREM BodyTypeCorrect == BodySpec => []BodyTypeOK
  BY BodyInvariant, PTL DEF BodyInv

(* The application never takes part of a body for the whole.               *)
THEOREM BodyWholeOrNothing == BodySpec => []WholeOrNothing
  <1>1. BodyInv => WholeOrNothing
    BY DEF BodyInv, Prefixes, WholeOrNothing, First
  <1>2. QED
    BY <1>1, BodyInvariant, PTL

(* For every limit, every Content-Length and every cut of the body: the    *)
(* buffer is within the limit, what is measured alone decides whether the  *)
(* application is called or the upload refused, and a measure that is not  *)
(* too small bounds what the application reads.                            *)
THEOREM BodyLimitIsExact == BodySpec => []LimitIsExact
  <1>1. BodyInv => LimitIsExact
    <2> SUFFICES ASSUME BodyInv PROVE LimitIsExact
      OBVIOUS
    <2>1. Bytes(chunks) = SumTo(Len(chunks)) /\ Bytes(seen) = SumTo(Len(seen))
      <3>1. \A n \in 0..Chunks : Bytes(First(n)) = SumTo(n)
        BY SumToFacts DEF BodyInv
      <3>2. /\ chunks = First(Len(chunks)) /\ Len(chunks) \in 0..Chunks
            /\ seen = First(Len(seen)) /\ Len(seen) \in 0..Chunks
        BY DEF BodyInv, Prefixes
      <3>3. QED
        BY <3>1, <3>2
    <2>2. Total = SumTo(Chunks) /\ Size = Measure
      BY TotalIsSum DEF BodyInv, Size, Measure
    <2>3. QED
      BY <2>1, <2>2 DEF BodyInv, Tallied, LimitIsExact
  <1>2. QED
    BY <1>1, BodyInvariant, PTL
=============================================================================
