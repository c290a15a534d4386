---------------------------- MODULE ImuTaskProofs ----------------------------
(***************************************************************************)
(* Proofs about ImuTask for every bound on its faults, its queue and the   *)
(* periods: the sensor's flash is written at most once, and the parts of a *)
(* sample belong together, however many cargos wait or are lost.           *)
(***************************************************************************)
EXTENDS ImuTask, SequenceTheorems, TLAPS

\* What is written, marked and sampled go in this order.
SavedInv ==
  /\ dcdSaved \in BOOLEAN /\ converged \in BOOLEAN /\ dcdWrites \in {0, 1}
  /\ dcdWrites = 1 => dcdSaved = TRUE
  /\ dcdSaved = TRUE => converged = TRUE

LEMMA SavedInit == Init => SavedInv
<1> SUFFICES ASSUME Init PROVE SavedInv
  OBVIOUS
<1>1. pc = "reset" /\ dcdSaved = FALSE /\ dcdWrites = 0 /\ converged = FALSE
  BY Zenon DEF Init
<1>2. dcdWrites \in {0, 1} /\ dcdWrites # 1
  BY <1>1
<1> QED
  BY <1>1, <1>2, Zenon DEF SavedInv

LEMMA SavedStep == SavedInv /\ [Next]_vars => SavedInv'
<1> SUFFICES ASSUME SavedInv, [Next]_vars PROVE SavedInv'
  OBVIOUS
<1> USE DEF SavedInv
<1>1. CASE SendReset
  BY <1>1 DEF SendReset
<1>2. CASE DrainRead
  BY <1>2 DEF DrainRead, task
<1>3. CASE DrainEnd
  BY <1>3 DEF DrainEnd
<1>4. CASE SendFeature
  BY <1>4 DEF SendFeature
<1>5. CASE ReadyRead
  BY <1>5 DEF ReadyRead
<1>6. CASE ReadyTimeout
  BY <1>6 DEF ReadyTimeout
<1>7. CASE Retry
  BY <1>7 DEF Retry
<1>8. CASE RunReadOther
  BY <1>8 DEF RunReadOther, task
<1>9. CASE RunReadReports
  <2>1. CASE UNCHANGED <<converged, dcdSaved, dcdWrites>>
    BY <2>1
  <2>2. CASE converged' = (converged \/ Head(cargos).high)
             /\ ~dcdSaved /\ Head(cargos).high /\ SaveDcd
    <3>1. converged' = TRUE
      BY <2>2, Zenon
    <3>2. dcdSaved # TRUE
      BY <2>2, Zenon
    <3>3. dcdSaved' = TRUE /\ (dcdWrites' = dcdWrites + 1 \/ dcdWrites' = dcdWrites)
      BY <2>2, Zenon DEF SaveDcd
    <3>4. dcdWrites = 0
      BY <3>2
    <3>5. dcdWrites' \in {0, 1}
      BY <3>3, <3>4
    <3> QED
      BY <3>1, <3>3, <3>5, Zenon
  <2>3. CASE converged' = (converged \/ Head(cargos).high)
             /\ UNCHANGED <<dcdSaved, dcdWrites>>
    BY <2>3
  <2> QED
    BY <1>9, <2>1, <2>2, <2>3 DEF RunReadReports, SendSample
<1>10. CASE SensorBooted
  BY <1>10 DEF SensorBooted, task
<1>11. CASE SensorPeriod
  BY <1>11 DEF SensorPeriod, task
<1>12. CASE LoseCargo
  BY <1>12 DEF LoseCargo, task
<1>13. CASE SensorReset
  BY <1>13 DEF SensorReset, task
<1>14. CASE UNCHANGED vars
  BY <1>14 DEF vars, task
<1> QED
  BY <1>1, <1>2, <1>3, <1>4, <1>5, <1>6, <1>7, <1>8, <1>9, <1>10, <1>11, <1>12,
     <1>13, <1>14 DEF Next, BringUpStep, RunStep

\* The Save DCD command reaches the sensor at most once per run, and only after a
\* Rotation Vector of high accuracy was sampled, whatever writes fail.
THEOREM CalibrationSavedOnce == Spec => []DcdSavedOnce
<1>1. SavedInv => DcdSavedOnce
  BY DEF SavedInv, DcdSavedOnce
<1> QED
  BY <1>1, SavedInit, SavedStep, PTL DEF Spec
-----------------------------------------------------------------------------
(* The pairing of a sample's parts.                                        *)

Cargo ==
  {Other} \cup [channel : {"InputReports"}, period : Period, of : SUBSET Sensors,
                high : BOOLEAN]

IsReport(s, i) == s[i].channel = "InputReports"
Carries(s, g, i) == IsReport(s, i) /\ g \in s[i].of

\* The number that a period goes by.
Numbered(real) == real % PeriodModulus

\* The periods that the modulus hides, for one triad g and the cargos s: u[i] is
\* the real period of cargo i, now that of the sensor's next one, and from the
\* real period of the triad held, if one is known.  c counts the cargos with g,
\* and each period had one: what is not in the queue was lost.
Chain(s, g, value, lost, u, c, from, now) ==
  LET n == Len(s)
      Follows(i) == IsReport(s, i) /\ (value # None \/ c[i] > 0)
  IN  /\ c[0] = 0
      /\ \A i \in 1 .. n : c[i] = IF Carries(s, g, i) THEN c[i - 1] + 1 ELSE c[i - 1]
      /\ \A i, j \in 0 .. n : i <= j => c[i] <= c[j]
      /\ from < now /\ now - 1 - from <= c[n] + lost
      /\ \A i \in 1 .. n : Follows(i) =>
           /\ s[i].period = Numbered(u[i])
           /\ from <= u[i] /\ u[i] < now
           /\ u[i] - from <= c[i] + 1 + lost
           /\ Carries(s, g, i) => from < u[i]
      /\ \A i, j \in 1 .. n : i < j /\ Follows(i) /\ Follows(j) =>
           /\ u[i] <= u[j]
           /\ Carries(s, g, i) /\ Carries(s, g, j) => u[i] < u[j]

\* A chain that starts at the triad held.
Chained(s, g, value, lost, next) ==
  \E u \in [1 .. Len(s) -> Int], c \in [0 .. Len(s) -> Nat], from, now \in Int :
    /\ Chain(s, g, value, lost, u, c, from, now)
    /\ next = Numbered(now)
    /\ value # None => value = Numbered(from)

\* Division with a remainder is unique.
LEMMA Remainder ==
  ASSUME NEW m \in Nat \ {0}, NEW n \in Int, NEW k \in Int, NEW r \in 0 .. m - 1,
         n = m * k + r
  PROVE  n % m = r
<1> DEFINE e == k - (n \div m)
<1>1. n % m \in 0 .. m - 1 /\ n = m * (n \div m) + (n % m) /\ n \div m \in Int
  OBVIOUS
<1>2. (n % m) - r = m * e /\ e \in Int
  BY <1>1
<1>3. CASE e >= 1
  <2>1. m * e >= m
    BY <1>1, <1>3
  <2> QED
    BY <1>1, <1>2, <2>1
<1>4. CASE e <= -1
  <2>1. m * e <= -m
    BY <1>1, <1>4
  <2> QED
    BY <1>1, <1>2, <2>1
<1>5. CASE e = 0
  BY <1>1, <1>2, <1>5
<1> QED
  BY <1>1, <1>3, <1>4, <1>5

LEMMA ModFacts ==
  ASSUME NEW a \in Int, NEW b \in Int, b <= a
  PROVE  /\ a % PeriodModulus \in Period
         /\ ((a % PeriodModulus) - (b % PeriodModulus)) % PeriodModulus <= a - b
         /\ (a + 1) % PeriodModulus = ((a % PeriodModulus) + 1) % PeriodModulus
<1> DEFINE m == PeriodModulus
           x == a \div m
           y == b \div m
           r == ((a % m) - (b % m)) % m
           z == ((a % m) - (b % m)) \div m
<1>1. m \in Nat /\ m > 0
  BY BoundAssumption
<1>2. a % m \in 0 .. m - 1 /\ a = m * x + (a % m) /\ x \in Int
  BY <1>1
<1>3. b % m \in 0 .. m - 1 /\ b = m * y + (b % m) /\ y \in Int
  BY <1>1
<1>4. ((a % m) - (b % m)) \in Int
  BY <1>2, <1>3
<1>5. r \in 0 .. m - 1 /\ (a % m) - (b % m) = m * z + r /\ z \in Int
  BY <1>1, <1>4
<1>6. r <= a - b
  <2>1. a - b = m * (x - y + z) + r
    BY <1>1, <1>2, <1>3, <1>5
  <2>2. CASE x - y + z >= 0
    <3>1. m * (x - y + z) >= 0
      BY <1>1, <1>2, <1>3, <1>5, <2>2
    <3> QED
      BY <2>1, <3>1, <1>1, <1>2, <1>3, <1>5
  <2>3. CASE x - y + z <= -1
    <3>1. m * (x - y + z) <= -m
      BY <1>1, <1>2, <1>3, <1>5, <2>3
    <3> QED
      BY <2>1, <3>1, <1>1, <1>2, <1>3, <1>5
  <2> QED
    BY <2>2, <2>3, <1>2, <1>3, <1>5
<1>7. (a + 1) % m = ((a % m) + 1) % m
  <2> DEFINE t == (a % m) + 1
             w == t \div m
             v == t % m
  <2>1. t \in Int /\ a + 1 = m * x + t
    BY <1>1, <1>2
  <2>2. v \in 0 .. m - 1 /\ t = m * w + v /\ w \in Int
    BY <1>1, <2>1
  <2>3. m \in Nat \ {0} /\ a + 1 \in Int /\ x + w \in Int
    BY <1>1, <1>2, <2>2
  <2>4. m * (x + w) = m * x + m * w
    BY <1>1, <1>2, <2>2
  <2>5. a + 1 = m * (x + w) + v
    <3> HIDE DEF m, x, w, v, t
    <3>1. m * x \in Int /\ m * w \in Int
      BY <1>1, <1>2, <2>2
    <3> QED
      BY <2>1, <2>2, <2>4, <3>1
  <2> HIDE DEF m, x, w, v
  <2>6. (a + 1) % m = v
    BY <2>2, <2>3, <2>5, Remainder
  <2> QED
    BY <2>6 DEF v, t
<1> QED
  BY <1>2, <1>6, <1>7 DEF Period

\* Where g is neither held nor waiting, any chain will do.
LEMMA FreshChain ==
  ASSUME NEW s \in Seq(Cargo), NEW g \in Triads, NEW lost \in Nat, NEW next \in Period,
         \A i \in 1 .. Len(s) : ~Carries(s, g, i)
  PROVE  Chained(s, g, None, lost, next)
<1> DEFINE u == [i \in 1 .. Len(s) |-> 0]
           c == [i \in 0 .. Len(s) |-> 0]
<1>1. Len(s) \in Nat /\ next \in Int /\ next - 1 \in Int
  BY BoundAssumption DEF Period
<1>2. Numbered(next) = next
  BY BoundAssumption DEF Period, Numbered
<1>3. Chain(s, g, None, lost, u, c, next - 1, next)
  BY <1>1 DEF Chain
<1>4. u \in [1 .. Len(s) -> Int] /\ c \in [0 .. Len(s) -> Nat]
  OBVIOUS
<1> QED
  BY <1>1, <1>2, <1>3, <1>4 DEF Chained

\* The first cargo is read, and g held, or passed by, or lost.
LEMMA TailChain ==
  ASSUME NEW s \in Seq(Cargo), s # <<>>, NEW g \in Triads, NEW value \in Period \cup {None},
         NEW lost \in Nat, NEW next, Chained(s, g, value, lost, next)
  PROVE  /\ Carries(s, g, 1) => /\ Chained(Tail(s), g, s[1].period, lost, next)
                                /\ Chained(Tail(s), g, None, lost, next)
         /\ ~Carries(s, g, 1) => Chained(Tail(s), g, value, lost, next)
         /\ Chained(Tail(s), g, value, lost + 1, next)
         /\ IsReport(s, 1) /\ ~Carries(s, g, 1) /\ value # None =>
              (s[1].period - value) % PeriodModulus <= 1 + lost
<1>1. PICK u \in [1 .. Len(s) -> Int], c \in [0 .. Len(s) -> Nat], from, now \in Int :
        /\ Chain(s, g, value, lost, u, c, from, now)
        /\ next = Numbered(now)
        /\ value # None => value = Numbered(from)
  BY DEF Chained
<1> DEFINE n == Len(s)
           t == Tail(s)
           v == [i \in 1 .. Len(t) |-> u[i + 1]]
           d == [i \in 0 .. Len(t) |-> c[i + 1] - c[1]]
<1>2. /\ n \in Nat /\ n > 0 /\ Len(t) = n - 1 /\ t \in Seq(Cargo)
      /\ \A i \in 1 .. n - 1 : t[i] = s[i + 1]
  OBVIOUS
<1>3. \A i \in 1 .. n - 1 :
        (IsReport(t, i) <=> IsReport(s, i + 1)) /\ (Carries(t, g, i) <=> Carries(s, g, i + 1))
  BY <1>2 DEF IsReport, Carries
<1>4. /\ c[0] = 0 /\ c[1] = IF Carries(s, g, 1) THEN 1 ELSE 0
      /\ \A i \in 0 .. n : c[i] \in Nat
      /\ \A i \in 1 .. n : u[i] \in Int
  <2>1. c[0] = 0 /\ c[1] = IF Carries(s, g, 1) THEN c[1 - 1] + 1 ELSE c[1 - 1]
    BY <1>1, <1>2 DEF Chain
  <2>2. c[1] = IF Carries(s, g, 1) THEN 1 ELSE 0
    BY <2>1
  <2> QED
    BY <2>1, <2>2
<1>5. \A i, j \in 0 .. n : i <= j => c[i] <= c[j]
  BY <1>1 DEF Chain
<1>6. v \in [1 .. Len(t) -> Int] /\ d \in [0 .. Len(t) -> Nat]
  <2>1. \A i \in 0 .. n - 1 : c[i + 1] - c[1] \in Nat
    BY <1>2, <1>4, <1>5
  <2> QED
    BY <1>2, <1>4, <2>1
<1>7. /\ d[0] = 0
      /\ \A i \in 1 .. Len(t) : d[i] = IF Carries(t, g, i) THEN d[i - 1] + 1 ELSE d[i - 1]
      /\ \A i, j \in 0 .. Len(t) : i <= j => d[i] <= d[j]
  <2>1. \A i \in 1 .. n : c[i] = IF Carries(s, g, i) THEN c[i - 1] + 1 ELSE c[i - 1]
    BY <1>1 DEF Chain
  <2>2. \A i \in 1 .. n - 1 : d[i] = c[i + 1] - c[1] /\ d[i - 1] = c[i] - c[1]
    BY <1>2
  <2>3. \A i \in 1 .. n - 1 : c[i + 1] = IF Carries(t, g, i) THEN c[i] + 1 ELSE c[i]
    BY <2>1, <1>2, <1>3
  <2> QED
    BY <1>2, <1>4, <1>5, <2>2, <2>3
<1>8. /\ from < now /\ now - 1 - from <= c[n] + lost
      /\ \A i \in 1 .. n : IsReport(s, i) /\ (value # None \/ c[i] > 0) =>
           /\ s[i].period = Numbered(u[i])
           /\ from <= u[i] /\ u[i] < now
           /\ u[i] - from <= c[i] + 1 + lost
           /\ Carries(s, g, i) => from < u[i]
  BY <1>1 DEF Chain
<1>9. \A i, j \in 1 .. n :
        i < j /\ IsReport(s, i) /\ IsReport(s, j)
        /\ (value # None \/ c[i] > 0) /\ (value # None \/ c[j] > 0) =>
          /\ u[i] <= u[j]
          /\ Carries(s, g, i) /\ Carries(s, g, j) => u[i] < u[j]
  BY <1>1 DEF Chain
<1>10. \A i \in 1 .. n - 1 : v[i] = u[i + 1] /\ d[i] = c[i + 1] - c[1] /\ i + 1 \in 1 .. n
  BY <1>2
<1>11. ASSUME Carries(s, g, 1)
       PROVE  /\ Chain(t, g, s[1].period, lost, v, d, u[1], now)
              /\ Chain(t, g, None, lost, v, d, u[1], now)
              /\ s[1].period = Numbered(u[1]) /\ s[1].period \in Period /\ u[1] \in Int
  <2>1. IsReport(s, 1) /\ c[1] = 1 /\ \A i \in 1 .. n : c[i] >= 1
    BY <1>2, <1>4, <1>5, <1>11 DEF Carries
  <2>2. /\ from < u[1] /\ u[1] < now
        /\ s[1].period = Numbered(u[1])
    BY <1>2, <1>8, <1>11, <2>1
  <2>3. now - 1 - u[1] <= d[n - 1] + lost
    BY <1>2, <1>4, <1>8, <2>1, <2>2, SMTT(30)
  <2>4. ASSUME NEW i \in 1 .. n - 1, IsReport(t, i)
        PROVE  /\ t[i].period = Numbered(v[i])
               /\ u[1] <= v[i] /\ v[i] < now
               /\ v[i] - u[1] <= d[i] + 1 + lost
               /\ Carries(t, g, i) => u[1] < v[i]
    <3>1. IsReport(s, i + 1) /\ c[i + 1] > 0 /\ i + 1 \in 1 .. n /\ 1 < i + 1
      BY <1>2, <1>3, <2>1, <2>4
    <3>2. u[1] <= u[i + 1] /\ (Carries(s, g, i + 1) => u[1] < u[i + 1])
      BY <1>2, <1>9, <1>11, <2>1, <3>1
    <3>3. /\ s[i + 1].period = Numbered(u[i + 1]) /\ u[i + 1] < now
          /\ u[i + 1] - from <= c[i + 1] + 1 + lost
      BY <1>8, <3>1
    <3> QED
      BY <1>2, <1>3, <1>4, <1>10, <2>1, <2>2, <3>1, <3>2, <3>3, SMTT(30)
  <2>5. ASSUME NEW i \in 1 .. n - 1, NEW j \in 1 .. n - 1, i < j,
               IsReport(t, i), IsReport(t, j)
        PROVE  /\ v[i] <= v[j]
               /\ Carries(t, g, i) /\ Carries(t, g, j) => v[i] < v[j]
    <3>1. /\ IsReport(s, i + 1) /\ IsReport(s, j + 1) /\ c[i + 1] > 0 /\ c[j + 1] > 0
          /\ i + 1 \in 1 .. n /\ j + 1 \in 1 .. n /\ i + 1 < j + 1
      BY <1>2, <1>3, <2>1, <2>5, SMTT(30)
    <3>2. /\ u[i + 1] <= u[j + 1]
          /\ Carries(s, g, i + 1) /\ Carries(s, g, j + 1) => u[i + 1] < u[j + 1]
      BY <1>9, <3>1
    <3> QED
      BY <1>3, <1>10, <3>2
  <2>6. s[1].period \in Period
    <3>1. s[1] \in Cargo /\ s[1].channel = "InputReports"
      BY <1>2, <2>1 DEF IsReport
    <3> QED
      BY <3>1 DEF Cargo, Other
  <2> HIDE DEF v, d, t
  <2> QED
    BY <1>2, <1>4, <1>7, <2>2, <2>3, <2>4, <2>5, <2>6, SMTT(30) DEF Chain
<1>12. ASSUME NEW e \in {0, 1}, c[1] <= e
       PROVE  Chain(t, g, value, lost + e, v, d, from, now)
  <2>1. now - 1 - from <= d[n - 1] + (lost + e)
    <3>1. d[n - 1] = c[n] - c[1] /\ c[n] \in Nat /\ c[1] \in Nat
      <4>1. n - 1 \in 0 .. Len(t) /\ (n - 1) + 1 = n /\ n \in 0 .. n /\ 1 \in 0 .. n
        BY <1>2
      <4> QED
        BY <1>4, <4>1
    <3> HIDE DEF d
    <3> QED
      BY <1>8, <1>12, <3>1
  <2>2. ASSUME NEW i \in 1 .. n - 1, IsReport(t, i), value # None \/ d[i] > 0
        PROVE  /\ t[i].period = Numbered(v[i])
               /\ from <= v[i] /\ v[i] < now
               /\ v[i] - from <= d[i] + 1 + (lost + e)
               /\ Carries(t, g, i) => from < v[i]
    <3>1. IsReport(s, i + 1) /\ (value # None \/ c[i + 1] > 0) /\ i + 1 \in 1 .. n
      BY <1>2, <1>3, <1>4, <1>10, <2>2
    <3>2. /\ s[i + 1].period = Numbered(u[i + 1])
          /\ from <= u[i + 1] /\ u[i + 1] < now
          /\ u[i + 1] - from <= c[i + 1] + 1 + lost
          /\ Carries(s, g, i + 1) => from < u[i + 1]
      BY <1>8, <3>1
    <3>3. u[i + 1] - from <= (c[i + 1] - c[1]) + 1 + (lost + e)
      <4>1. c[i + 1] \in Nat /\ c[1] \in Nat /\ u[i + 1] \in Int
        BY <1>2, <1>4, <3>1
      <4> QED
        BY <1>12, <3>2, <4>1
    <3> QED
      BY <1>2, <1>3, <1>10, <3>2, <3>3
  <2>3. ASSUME NEW i \in 1 .. n - 1, NEW j \in 1 .. n - 1, i < j,
               IsReport(t, i), IsReport(t, j), value # None \/ d[i] > 0,
               value # None \/ d[j] > 0
        PROVE  /\ v[i] <= v[j]
               /\ Carries(t, g, i) /\ Carries(t, g, j) => v[i] < v[j]
    <3>1. /\ IsReport(s, i + 1) /\ IsReport(s, j + 1)
          /\ value # None \/ c[i + 1] > 0
          /\ value # None \/ c[j + 1] > 0
          /\ i + 1 \in 1 .. n /\ j + 1 \in 1 .. n /\ i + 1 < j + 1
      BY <1>2, <1>3, <1>4, <1>10, <2>3
    <3>2. /\ u[i + 1] <= u[j + 1]
          /\ Carries(s, g, i + 1) /\ Carries(s, g, j + 1) => u[i + 1] < u[j + 1]
      BY <1>9, <3>1
    <3> QED
      BY <1>3, <1>10, <3>2
  <2> HIDE DEF v, d, t
  <2> QED
    BY <1>2, <1>4, <1>7, <1>8, <2>1, <2>2, <2>3 DEF Chain
<1>13. IsReport(s, 1) /\ ~Carries(s, g, 1) /\ value # None =>
         (s[1].period - value) % PeriodModulus <= 1 + lost
  <2> SUFFICES ASSUME IsReport(s, 1), ~Carries(s, g, 1), value # None
               PROVE  (s[1].period - value) % PeriodModulus <= 1 + lost
    OBVIOUS
  <2>1. /\ s[1].period = Numbered(u[1]) /\ value = Numbered(from)
        /\ from <= u[1] /\ u[1] - from <= 0 + 1 + lost
        /\ u[1] \in Int
    BY <1>1, <1>2, <1>4, <1>8
  <2>2. (Numbered(u[1]) - Numbered(from)) % PeriodModulus <= u[1] - from
    BY <2>1, ModFacts DEF Numbered
  <2>3. (Numbered(u[1]) - Numbered(from)) % PeriodModulus \in Int
    BY <2>1, BoundAssumption DEF Numbered
  <2> QED
    BY <2>1, <2>2, <2>3
<1> HIDE DEF v, d, t
<1>14. Carries(s, g, 1) => /\ Chained(t, g, s[1].period, lost, next)
                           /\ Chained(t, g, None, lost, next)
  <2> SUFFICES ASSUME Carries(s, g, 1)
               PROVE  /\ Chained(t, g, s[1].period, lost, next)
                      /\ Chained(t, g, None, lost, next)
    OBVIOUS
  <2> QED
    BY <1>1, <1>6, <1>11 DEF Chained
<1>15. ~Carries(s, g, 1) => Chained(t, g, value, lost, next)
  <2>1. ~Carries(s, g, 1) => Chain(t, g, value, lost + 0, v, d, from, now)
    BY <1>4, <1>12
  <2>2. lost + 0 = lost
    OBVIOUS
  <2> QED
    BY <1>1, <1>6, <2>1, <2>2 DEF Chained
<1>16. Chained(t, g, value, lost + 1, next)
  <2>1. Chain(t, g, value, lost + 1, v, d, from, now)
    BY <1>4, <1>12
  <2> QED
    BY <1>1, <1>6, <2>1 DEF Chained
<1> QED
  BY <1>13, <1>14, <1>15, <1>16 DEF t

\* The sensor says something that is no report.
LEMMA OtherChain ==
  ASSUME NEW s \in Seq(Cargo), NEW g \in Triads, NEW value, NEW lost \in Nat, NEW next,
         Chained(s, g, value, lost, next)
  PROVE  Chained(Append(s, Other), g, value, lost, next)
<1>1. PICK u \in [1 .. Len(s) -> Int], c \in [0 .. Len(s) -> Nat], from, now \in Int :
        /\ Chain(s, g, value, lost, u, c, from, now)
        /\ next = Numbered(now)
        /\ value # None => value = Numbered(from)
  BY DEF Chained
<1> DEFINE n == Len(s)
           t == Append(s, Other)
           v == [i \in 1 .. Len(t) |-> IF i <= n THEN u[i] ELSE 0]
           d == [i \in 0 .. Len(t) |-> IF i <= n THEN c[i] ELSE c[n]]
<1>2. /\ n \in Nat /\ Len(t) = n + 1
      /\ \A i \in 1 .. n : t[i] = s[i] /\ v[i] = u[i]
      /\ t[n + 1] = Other
      /\ \A i \in 0 .. n : d[i] = c[i]
      /\ d[n + 1] = c[n] /\ n \in 0 .. n /\ n + 1 \in 1 .. n + 1
  BY DEF Cargo
<1>3. /\ \A i \in 1 .. n : (IsReport(t, i) <=> IsReport(s, i))
                           /\ (Carries(t, g, i) <=> Carries(s, g, i))
      /\ ~IsReport(t, n + 1) /\ ~Carries(t, g, n + 1)
  BY <1>2 DEF IsReport, Carries, Other
<1>4. v \in [1 .. Len(t) -> Int] /\ d \in [0 .. Len(t) -> Nat]
  BY <1>2
<1>5. Chain(t, g, value, lost, v, d, from, now)
  <2>1. /\ d[0] = 0 /\ now - 1 - from <= d[n + 1] + lost /\ from < now
    BY <1>1, <1>2 DEF Chain
  <2>2. \A i \in 1 .. n + 1 : d[i] = IF Carries(t, g, i) THEN d[i - 1] + 1 ELSE d[i - 1]
    <3>1. \A i \in 1 .. n : c[i] = IF Carries(s, g, i) THEN c[i - 1] + 1 ELSE c[i - 1]
      BY <1>1 DEF Chain
    <3>2. \A i \in 1 .. n : d[i] = c[i] /\ d[i - 1] = c[i - 1]
      BY <1>2
    <3>3. d[n + 1] = d[(n + 1) - 1]
      BY <1>2
    <3> HIDE DEF d, t
    <3> QED
      BY <1>2, <1>3, <3>1, <3>2, <3>3
  <2>3. \A i, j \in 0 .. n + 1 : i <= j => d[i] <= d[j]
    <3>1. \A i, j \in 0 .. n : i <= j => c[i] <= c[j]
      BY <1>1 DEF Chain
    <3>2. \A i \in 0 .. n : c[i] <= c[n] /\ c[n] \in Nat /\ c[i] \in Nat
      BY <1>2, <3>1
    <3> HIDE DEF d
    <3> QED
      BY <1>2, <3>1, <3>2
  <2>4. \A i \in 1 .. n + 1 : IsReport(t, i) => i \in 1 .. n /\ IsReport(s, i)
    BY <1>2, <1>3
  <2>5. \A i \in 1 .. n : t[i] = s[i] /\ v[i] = u[i] /\ d[i] = c[i]
    BY <1>2
  <2> HIDE DEF v, d, t
  <2>6. ASSUME NEW i \in 1 .. n + 1, IsReport(t, i), value # None \/ d[i] > 0
        PROVE  /\ t[i].period = Numbered(v[i])
               /\ from <= v[i] /\ v[i] < now
               /\ v[i] - from <= d[i] + 1 + lost
               /\ Carries(t, g, i) => from < v[i]
    <3>1. i \in 1 .. n /\ IsReport(s, i) /\ d[i] = c[i] /\ v[i] = u[i] /\ t[i] = s[i]
      BY <2>4, <2>5, <2>6
    <3> QED
      BY <1>1, <1>3, <2>6, <3>1 DEF Chain
  <2>7. ASSUME NEW i \in 1 .. n + 1, NEW j \in 1 .. n + 1, i < j,
               IsReport(t, i), IsReport(t, j), value # None \/ d[i] > 0,
               value # None \/ d[j] > 0
        PROVE  /\ v[i] <= v[j]
               /\ Carries(t, g, i) /\ Carries(t, g, j) => v[i] < v[j]
    <3>1. /\ i \in 1 .. n /\ IsReport(s, i) /\ d[i] = c[i] /\ v[i] = u[i]
          /\ j \in 1 .. n /\ IsReport(s, j) /\ d[j] = c[j] /\ v[j] = u[j]
      BY <2>4, <2>5, <2>7
    <3> QED
      BY <1>1, <1>3, <2>7, <3>1 DEF Chain
  <2>8. Len(t) = n + 1
    BY <1>2
  <2> QED
    BY <2>1, <2>2, <2>3, <2>6, <2>7, <2>8 DEF Chain
<1> HIDE DEF v, d
<1> QED
  BY <1>1, <1>4, <1>5 DEF Chained

\* m reports of the period now follow the n cargos of s, the k-th with g.
Grows(s, st, g, n, m, k, now) ==
  /\ Len(s) = n /\ Len(st) = n + m
  /\ \A i \in 1 .. n : st[i] = s[i]
  /\ \A i \in n + 1 .. n + m : /\ IsReport(st, i) /\ st[i].period = Numbered(now)
                               /\ Carries(st, g, i) <=> i = n + k

\* A chain goes on when a period passes.
LEMMA GrownChain ==
  ASSUME NEW s, NEW st, NEW g, NEW value, NEW lost \in Nat,
         NEW n \in Nat, NEW m \in Nat, NEW k \in 1 .. m,
         NEW u \in [1 .. n -> Int], NEW c \in [0 .. n -> Nat], NEW from \in Int, NEW now \in Int,
         Chain(s, g, value, lost, u, c, from, now), Grows(s, st, g, n, m, k, now)
  PROVE  \E v \in [1 .. n + m -> Int], d \in [0 .. n + m -> Nat] :
           Chain(st, g, value, lost, v, d, from, now + 1)
<1> DEFINE v == [i \in 1 .. n + m |-> IF i <= n THEN u[i] ELSE now]
           d == [i \in 0 .. n + m |->
                   IF i <= n THEN c[i] ELSE IF i >= n + k THEN c[n] + 1 ELSE c[n]]
<1>1. /\ Len(s) = n /\ Len(st) = n + m
      /\ \A i \in 1 .. n : st[i] = s[i]
      /\ \A i \in n + 1 .. n + m : /\ IsReport(st, i) /\ st[i].period = Numbered(now)
                                   /\ Carries(st, g, i) <=> i = n + k
  BY DEF Grows
<1>2. n \in 0 .. n /\ n + m \in n + 1 .. n + m /\ \A i \in 0 .. n : c[i] \in Nat
  OBVIOUS
<1>3. /\ \A i \in 1 .. n : v[i] = u[i] /\ u[i] \in Int
      /\ \A i \in n + 1 .. n + m : v[i] = now
      /\ \A i \in 0 .. n : d[i] = c[i]
      /\ \A i \in n + 1 .. n + m : d[i] = IF i >= n + k THEN c[n] + 1 ELSE c[n]
  OBVIOUS
<1>4. /\ \A i \in 1 .. n : IsReport(st, i) <=> IsReport(s, i)
      /\ \A i \in 1 .. n : Carries(st, g, i) <=> Carries(s, g, i)
  BY <1>1 DEF IsReport, Carries
<1>5. v \in [1 .. n + m -> Int] /\ d \in [0 .. n + m -> Nat]
  BY <1>2
<1>6. /\ c[0] = 0 /\ from < now /\ now - 1 - from <= c[n] + lost
      /\ \A i \in 1 .. n : c[i] = IF Carries(s, g, i) THEN c[i - 1] + 1 ELSE c[i - 1]
      /\ \A i, j \in 0 .. n : i <= j => c[i] <= c[j]
      /\ \A i \in 1 .. n : IsReport(s, i) /\ (value # None \/ c[i] > 0) =>
           /\ s[i].period = Numbered(u[i])
           /\ from <= u[i] /\ u[i] < now
           /\ u[i] - from <= c[i] + 1 + lost
           /\ Carries(s, g, i) => from < u[i]
      /\ \A i, j \in 1 .. n :
           i < j /\ IsReport(s, i) /\ IsReport(s, j)
           /\ (value # None \/ c[i] > 0) /\ (value # None \/ c[j] > 0) =>
             /\ u[i] <= u[j]
             /\ Carries(s, g, i) /\ Carries(s, g, j) => u[i] < u[j]
  BY <1>1 DEF Chain
<1> HIDE DEF v, d
<1>7. Chain(st, g, value, lost, v, d, from, now + 1)
  <2>1. /\ d[0] = 0 /\ from < now + 1 /\ now + 1 - 1 - from <= d[n + m] + lost
    <3>1. d[n + m] = c[n] + 1 /\ d[0] = c[0] /\ c[n] \in Nat
      BY <1>3
    <3> QED
      BY <1>6, <3>1
  <2>2. \A i \in 1 .. n + m : d[i] = IF Carries(st, g, i) THEN d[i - 1] + 1 ELSE d[i - 1]
    BY <1>1, <1>3, <1>4, <1>6, SMTT(30)
  <2>3. \A i, j \in 0 .. n + m : i <= j => d[i] <= d[j]
    <3>1. \A i \in 0 .. n : c[i] <= c[n] /\ c[i] \in Nat /\ c[n] \in Nat
      BY <1>2, <1>6
    <3>2. ASSUME NEW i \in 0 .. n + m, NEW j \in 0 .. n + m, i <= j
          PROVE  d[i] <= d[j]
      <4>1. CASE j \in 0 .. n
        <5>1. i \in 0 .. n
          BY <3>2, <4>1
        <5> QED
          BY <1>3, <1>6, <3>2, <4>1, <5>1
      <4>2. CASE i \in 0 .. n /\ j \in n + 1 .. n + m
        <5>1. d[i] = c[i] /\ c[i] <= c[n] /\ c[i] \in Nat /\ c[n] \in Nat
          BY <1>3, <3>1, <4>2
        <5>2. d[j] = c[n] + 1 \/ d[j] = c[n]
          BY <1>3, <4>2
        <5> QED
          BY <5>1, <5>2
      <4>3. CASE i \in n + 1 .. n + m /\ j \in n + 1 .. n + m
        <5>1. c[n] \in Nat
          BY <3>1, <1>2
        <5>2. d[i] = c[n] + 1 => d[j] = c[n] + 1
          BY <1>3, <3>2, <4>3, <5>1
        <5>3. (d[i] = c[n] + 1 \/ d[i] = c[n]) /\ (d[j] = c[n] + 1 \/ d[j] = c[n])
          BY <1>3, <4>3
        <5> QED
          BY <5>1, <5>2, <5>3
      <4> QED
        BY <3>2, <4>1, <4>2, <4>3
    <3> QED
      BY <3>2
  <2>4. ASSUME NEW i \in 1 .. n + m, IsReport(st, i), value # None \/ d[i] > 0
        PROVE  /\ st[i].period = Numbered(v[i])
               /\ from <= v[i] /\ v[i] < now + 1
               /\ v[i] - from <= d[i] + 1 + lost
               /\ Carries(st, g, i) => from < v[i]
    <3>1. CASE i \in 1 .. n
      <4>1. /\ IsReport(s, i) /\ (value # None \/ c[i] > 0)
            /\ d[i] = c[i] /\ v[i] = u[i] /\ u[i] \in Int /\ st[i] = s[i]
        BY <1>1, <1>3, <1>4, <2>4, <3>1
      <4>2. /\ s[i].period = Numbered(u[i])
            /\ from <= u[i] /\ u[i] < now
            /\ u[i] - from <= c[i] + 1 + lost
            /\ Carries(s, g, i) => from < u[i]
        BY <1>6, <3>1, <4>1
      <4> QED
        BY <1>4, <3>1, <4>1, <4>2
    <3>2. CASE i \in n + 1 .. n + m
      <4>1. st[i].period = Numbered(now) /\ v[i] = now
        BY <1>1, <1>3, <1>4, <3>2
      <4>2. d[i] >= c[n] /\ d[i] \in Nat /\ c[n] \in Nat
        BY <1>3, <3>2
      <4> QED
        BY <1>6, <4>1, <4>2
    <3> QED
      BY <1>3, <3>1, <3>2
  <2>5. ASSUME NEW i \in 1 .. n + m, NEW j \in 1 .. n + m, i < j,
               IsReport(st, i), IsReport(st, j), value # None \/ d[i] > 0,
               value # None \/ d[j] > 0
        PROVE  /\ v[i] <= v[j]
               /\ Carries(st, g, i) /\ Carries(st, g, j) => v[i] < v[j]
    <3>1. CASE j \in 1 .. n
      <4>1. i \in 1 .. n
        BY <1>3, <2>5, <3>1
      <4>2. /\ IsReport(s, i) /\ (value # None \/ c[i] > 0) /\ v[i] = u[i]
            /\ IsReport(s, j) /\ (value # None \/ c[j] > 0) /\ v[j] = u[j]
        BY <1>3, <1>4, <2>5, <3>1, <4>1
      <4>3. /\ u[i] <= u[j]
            /\ Carries(s, g, i) /\ Carries(s, g, j) => u[i] < u[j]
        BY <1>6, <2>5, <3>1, <4>1, <4>2
      <4> QED
        BY <1>4, <3>1, <4>1, <4>2, <4>3
    <3>2. CASE i \in 1 .. n /\ j \in n + 1 .. n + m
      <4>1. IsReport(s, i) /\ (value # None \/ c[i] > 0) /\ u[i] \in Int
        BY <1>3, <1>4, <2>5, <3>2
      <4>2. u[i] < now
        BY <1>6, <3>2, <4>1
      <4> QED
        BY <1>3, <3>2, <4>1, <4>2
    <3>3. CASE i \in n + 1 .. n + m /\ j \in n + 1 .. n + m
      BY <1>1, <1>3, <1>4, <2>5, <3>3
    <3> QED
      BY <1>3, <2>5, <3>1, <3>2, <3>3
  <2> QED
    BY <1>1, <2>1, <2>2, <2>3, <2>4, <2>5 DEF Chain
<1> QED
  BY <1>5, <1>7

\* A period passes, and one of its cargos carries g.
LEMMA PeriodChain ==
  ASSUME NEW s \in Seq(Cargo), NEW t \in Seq(Cargo), NEW g \in Triads, NEW value,
         NEW lost \in Nat, NEW next \in Period, Chained(s, g, value, lost, next),
         NEW k \in 1 .. Len(t),
         \A i \in 1 .. Len(t) :
           IsReport(t, i) /\ t[i].period = next /\ (g \in t[i].of <=> i = k)
  PROVE  Chained(s \o t, g, value, lost, (next + 1) % PeriodModulus)
<1>1. PICK u \in [1 .. Len(s) -> Int], c \in [0 .. Len(s) -> Nat], from, now \in Int :
        /\ Chain(s, g, value, lost, u, c, from, now)
        /\ next = Numbered(now)
        /\ value # None => value = Numbered(from)
  BY DEF Chained
<1>2. PICK n \in Nat, m \in Nat : n = Len(s) /\ m = Len(t)
  OBVIOUS
<1> DEFINE st == s \o t
<1>3. /\ Len(st) = n + m
      /\ \A i \in 1 .. n : st[i] = s[i]
      /\ \A i \in n + 1 .. n + m : i - n \in 1 .. m /\ st[i] = t[i - n]
  BY <1>2
<1> HIDE DEF st
<1>4. ASSUME NEW i \in n + 1 .. n + m
      PROVE  /\ IsReport(st, i) /\ st[i].period = Numbered(now)
             /\ (Carries(st, g, i) <=> i = n + k)
  <2>1. i - n \in 1 .. Len(t) /\ st[i] = t[i - n]
    BY <1>2, <1>3
  <2>2. /\ t[i - n].channel = "InputReports" /\ t[i - n].period = next
        /\ g \in t[i - n].of <=> i - n = k
    BY <2>1 DEF IsReport
  <2>3. i - n = k <=> i = n + k
    OBVIOUS
  <2> QED
    BY <1>1, <2>1, <2>2, <2>3 DEF IsReport, Carries
<1>5. \E v \in [1 .. n + m -> Int], d \in [0 .. n + m -> Nat] :
        Chain(st, g, value, lost, v, d, from, now + 1)
  <2>1. k \in 1 .. m
    BY <1>2
  <2>2. u \in [1 .. n -> Int] /\ c \in [0 .. n -> Nat]
    BY <1>2
  <2>3. \A i \in n + 1 .. n + m : /\ IsReport(st, i) /\ st[i].period = Numbered(now)
                                  /\ (Carries(st, g, i) <=> i = n + k)
    BY <1>4
  <2>4. Chain(s, g, value, lost, u, c, from, now)
    BY <1>1
  <2>5. Grows(s, st, g, n, m, k, now)
    BY <1>2, <1>3, <2>3 DEF Grows
  <2> QED
    BY <2>1, <2>2, <2>4, <2>5, GrownChain
<1>6. (next + 1) % PeriodModulus = Numbered(now + 1)
  BY <1>1, ModFacts DEF Numbered
<1>7. Chained(st, g, value, lost, (next + 1) % PeriodModulus)
  <2>1. now + 1 \in Int
    OBVIOUS
  <2> QED
    BY <1>1, <1>3, <1>5, <1>6, <2>1 DEF Chained
<1> QED
  BY <1>7 DEF st

Faults == [DOMAIN FaultBound -> Nat]

\* Triads are held only after bring_up().
RecentTypeOK ==
  /\ enabling \in 1 .. 4
  /\ cargos \in Seq(Cargo) /\ period \in Period /\ enabled \subseteq Sensors
  /\ held \in [Triads -> Period \cup {None}]
  /\ faults \in Faults
  /\ (\E g \in Triads : held[g] # None) => pc = "run"

LEMMA FaultStep ==
  ASSUME NEW kind \in DOMAIN FaultBound, faults \in Faults, Fault(kind)
  PROVE  /\ faults' \in Faults
         /\ faults'.cargo = IF kind = "cargo" THEN faults.cargo + 1 ELSE faults.cargo
<1> USE DEF FaultBound
<1>1. DOMAIN FaultBound = {"command", "cargo", "slow", "reset", "norm"}
  OBVIOUS
<1>2. faults' = [faults EXCEPT ![kind] = @ + 1]
  BY DEF Fault
<1> HIDE DEF FaultBound
<1> QED
  BY <1>1, <1>2 DEF Faults

LEMMA ReportsAreCargos ==
  ASSUME NEW n \in Period, NEW of \in SUBSET Sensors, NEW high \in BOOLEAN
  PROVE  /\ Reports(n, of, high) \in Cargo
         /\ Reports(n, of, high).channel = "InputReports"
         /\ Reports(n, of, high).period = n /\ Reports(n, of, high).of = of
<1>1. (high /\ "RotationVector" \in of) \in BOOLEAN
  OBVIOUS
<1> QED
  BY <1>1 DEF Reports, Cargo

LEMMA TailIsCargos ==
  ASSUME NEW s \in Seq(Cargo), s # <<>>
  PROVE  Tail(s) \in Seq(Cargo) /\ Head(s) = s[1] /\ s[1] \in Cargo /\ 1 \in 1 .. Len(s)
  OBVIOUS

LEMMA PairIsConcat ==
  ASSUME NEW a \in Cargo, NEW b \in Cargo
  PROVE  /\ <<a>> \in Seq(Cargo) /\ <<b>> \in Seq(Cargo)
         /\ <<a>> \o <<b>> = <<a, b>>
<1> DEFINE p == <<a>> \o <<b>>
           q == <<a, b>>
<1>1. <<a>> \in Seq(Cargo) /\ <<b>> \in Seq(Cargo) /\ Len(<<a>>) = 1 /\ Len(<<b>>) = 1
  OBVIOUS
<1>2. p \in Seq(Cargo) /\ q \in Seq(Cargo) /\ Len(p) = 2 /\ Len(q) = 2
  BY <1>1
<1>3. p[1] = a /\ p[2] = b /\ q[1] = a /\ q[2] = b
  BY <1>1
<1> HIDE DEF p, q
<1>4. \A i \in 1 .. Len(p) : p[i] = q[i]
  BY <1>2, <1>3
<1>5. p = q
  BY <1>2, <1>4, SeqEqual
<1> QED
  BY <1>1, <1>5 DEF p, q

\* The cargos t bring a report of each of the sensors in `of', all of period n.
BringsPeriod(t, n, of) ==
  /\ \A i \in 1 .. Len(t) : IsReport(t, i) /\ t[i].period = n /\ t[i].of \subseteq of
  /\ \A g \in of : \E k \in 1 .. Len(t) : \A i \in 1 .. Len(t) : g \in t[i].of <=> i = k

\* They come in one cargo, or in two.
LEMMA PeriodReports ==
  ASSUME cargos \in Seq(Cargo), period \in Period, enabled \subseteq Sensors, SensorPeriod
  PROVE  \E t \in Seq(Cargo) : cargos' = cargos \o t /\ BringsPeriod(t, period, enabled)
<1>1. PICK first \in SUBSET enabled, high \in BOOLEAN :
        cargos' = cargos
          \o (IF first = {} THEN <<>> ELSE <<Reports(period, first, high)>>)
          \o (IF first = enabled THEN <<>>
              ELSE <<Reports(period, enabled \ first, high)>>)
  BY DEF SensorPeriod
<1>2. enabled # {}
  BY DEF SensorPeriod
<1> DEFINE a == Reports(period, first, high)
           b == Reports(period, enabled \ first, high)
<1>3. /\ a \in Cargo /\ a.channel = "InputReports" /\ a.period = period /\ a.of = first
      /\ b \in Cargo /\ b.channel = "InputReports" /\ b.period = period
      /\ b.of = enabled \ first
  BY ReportsAreCargos
<1> HIDE DEF a, b
<1>4. CASE first = {}
  <2>1. cargos' = cargos \o <<b>> /\ <<b>> \in Seq(Cargo) /\ Len(<<b>>) = 1 /\ <<b>>[1] = b
    BY <1>1, <1>2, <1>3, <1>4 DEF b
  <2>2. \A i \in 1 .. Len(<<b>>) : <<b>>[i] = b /\ i = 1
    BY <2>1
  <2>3. BringsPeriod(<<b>>, period, enabled)
    BY <1>3, <1>4, <2>1, <2>2 DEF IsReport, BringsPeriod
  <2> QED
    BY <2>1, <2>3, Zenon
<1>5. CASE first = enabled
  <2>1. cargos' = cargos \o <<a>> /\ <<a>> \in Seq(Cargo) /\ Len(<<a>>) = 1 /\ <<a>>[1] = a
    BY <1>1, <1>2, <1>3, <1>5 DEF a
  <2>2. \A i \in 1 .. Len(<<a>>) : <<a>>[i] = a /\ i = 1
    BY <2>1
  <2>3. BringsPeriod(<<a>>, period, enabled)
    BY <1>3, <1>5, <2>1, <2>2 DEF IsReport, BringsPeriod
  <2> QED
    BY <2>1, <2>3, Zenon
<1>6. CASE first # {} /\ first # enabled
  <2>1. cargos' = cargos \o <<a>> \o <<b>>
    BY <1>1, <1>6 DEF a, b
  <2>2. /\ <<a, b>> \in Seq(Cargo) /\ Len(<<a, b>>) = 2
        /\ <<a, b>>[1] = a /\ <<a, b>>[2] = b
    BY <1>3
  <2>3. cargos' = cargos \o <<a, b>>
    <3>1. <<a>> \in Seq(Cargo) /\ <<b>> \in Seq(Cargo) /\ <<a>> \o <<b>> = <<a, b>>
      BY <1>3, PairIsConcat
    <3>2. (cargos \o <<a>>) \o <<b>> = cargos \o (<<a>> \o <<b>>)
      BY <3>1, ConcatAssociative
    <3> QED
      BY <2>1, <3>1, <3>2
  <2>4. \A g \in enabled : \E k \in 1 .. 2 : \A i \in 1 .. 2 : g \in <<a, b>>[i].of <=> i = k
    <3> TAKE g \in enabled
    <3>1. CASE g \in first
      <4>1. \A i \in 1 .. 2 : g \in <<a, b>>[i].of <=> i = 1
        <5>1. \A i \in 1 .. 2 : i = 1 \/ i = 2
          OBVIOUS
        <5>2. g \in a.of /\ g \notin b.of
          BY <1>3, <3>1
        <5> QED
          BY <2>2, <5>1, <5>2
      <4> QED
        BY <4>1
    <3>2. CASE g \notin first
      <4>1. \A i \in 1 .. 2 : g \in <<a, b>>[i].of <=> i = 2
        <5>1. \A i \in 1 .. 2 : i = 1 \/ i = 2
          OBVIOUS
        <5>2. g \notin a.of /\ g \in b.of
          BY <1>3, <3>2
        <5> QED
          BY <2>2, <5>1, <5>2
      <4> QED
        BY <4>1
    <3> QED
      BY <3>1, <3>2
  <2>5. \A i \in 1 .. 2 : /\ IsReport(<<a, b>>, i) /\ <<a, b>>[i].period = period
                         /\ <<a, b>>[i].of \subseteq enabled
    BY <1>3, <2>2 DEF IsReport
  <2>6. BringsPeriod(<<a, b>>, period, enabled)
    BY <2>2, <2>4, <2>5, Zenon DEF BringsPeriod
  <2> QED
    BY <2>2, <2>3, <2>6, Zenon
<1> QED
  BY <1>4, <1>5, <1>6

LEMMA RecentTypeInit == Init => RecentTypeOK
<1> SUFFICES ASSUME Init PROVE RecentTypeOK
  OBVIOUS
<1>1. 0 \in Period
  BY BoundAssumption DEF Period
<1>2. cargos = <<>> /\ period = 0 /\ enabled \subseteq Sensors
  BY DEF Init
<1>3. held = [g \in Triads |-> None]
  BY DEF Init
<1>4. faults \in Faults
  BY DEF Init, Faults
<1>5. cargos \in Seq(Cargo)
  BY <1>2
<1>6. enabling \in 1 .. 4 /\ ~(\E g \in Triads : held[g] # None)
  BY <1>3 DEF Init
<1>7. held \in [Triads -> Period \cup {None}]
  BY <1>3
<1> QED
  BY <1>1, <1>2, <1>4, <1>5, <1>6, <1>7 DEF RecentTypeOK

LEMMA RecentTypeStep == RecentTypeOK /\ [Next]_vars => RecentTypeOK'
<1> SUFFICES ASSUME RecentTypeOK, [Next]_vars PROVE RecentTypeOK'
  OBVIOUS
<1>1. RecentTypeOK
  OBVIOUS
<1>2. CASE SensorResets /\ UNCHANGED <<enabling, held>> /\ (pc' = pc \/ pc = "reset") /\ faults' \in Faults
  <2>1. 0 \in Period /\ <<>> \in Seq(Cargo)
    BY BoundAssumption DEF Period
  <2>2. (\E g \in Triads : held'[g] # None) => pc' = "run"
    BY <1>1, <1>2 DEF RecentTypeOK
  <2> QED
    BY <1>1, <1>2, <2>1, <2>2 DEF RecentTypeOK, SensorResets
<1>3. CASE /\ UNCHANGED <<cargos, period, enabled, held>> /\ enabling' \in {enabling, 1}
           /\ (pc' = pc \/ pc # "run") /\ faults' \in Faults
  BY <1>1, <1>3 DEF RecentTypeOK
<1>4. CASE cargos # <<>> /\ cargos' = Tail(cargos) /\ UNCHANGED <<enabling, period, enabled, held>>
           /\ (pc' = pc \/ pc # "run") /\ faults' \in Faults
  BY <1>1, <1>4, TailIsCargos DEF RecentTypeOK
<1>5. faults \in Faults /\ "command" \in DOMAIN FaultBound /\ "slow" \in DOMAIN FaultBound
      /\ "cargo" \in DOMAIN FaultBound /\ "reset" \in DOMAIN FaultBound
      /\ "norm" \in DOMAIN FaultBound
  BY <1>1 DEF RecentTypeOK, FaultBound
<1>6. CASE SendReset
  <2>1. CASE SensorResets /\ UNCHANGED faults
    BY <1>2, <1>5, <1>6, <2>1 DEF SendReset
  <2>2. CASE Fault("command") /\ UNCHANGED sensor
    BY <1>3, <1>5, <1>6, <2>2, FaultStep DEF SendReset, sensor
  <2> QED
    BY <1>6, <2>1, <2>2 DEF SendReset
<1>7. CASE DrainRead
  BY <1>4, <1>5, <1>7 DEF DrainRead, task
<1>8. CASE DrainEnd
  <2>1. faults' \in Faults
    BY <1>5, <1>8, FaultStep DEF DrainEnd
  <2> QED
    BY <1>3, <1>8, <2>1 DEF DrainEnd, sensor
<1>9. CASE SendFeature
  <2>1. faults' \in Faults
    BY <1>5, <1>9, FaultStep DEF SendFeature
  <2>2. ToEnable \subseteq Sensors
    <3>1. enabling \in 1 .. 4
      BY <1>1 DEF RecentTypeOK
    <3>2. ENABLED_SENSORS[enabling] \in Sensors
      BY <3>1 DEF ENABLED_SENSORS, Sensors, Triads
    <3> QED
      BY <3>2 DEF ToEnable
  <2>3. enabled' \subseteq Sensors
    BY <1>1, <1>9, <2>2 DEF SendFeature, RecentTypeOK
  <2>4. enabling' \in 1 .. 4
    BY <1>1, <1>9 DEF SendFeature, RecentTypeOK, ENABLED_SENSORS
  <2> QED
    BY <1>1, <1>9, <2>1, <2>3, <2>4 DEF SendFeature, RecentTypeOK
<1>10. CASE ReadyRead
  BY <1>4, <1>5, <1>10 DEF ReadyRead
<1>11. CASE ReadyTimeout
  <2>1. faults' \in Faults
    BY <1>5, <1>11, FaultStep DEF ReadyTimeout
  <2> QED
    BY <1>3, <1>11, <2>1 DEF ReadyTimeout, sensor
<1>12. CASE Retry
  BY <1>3, <1>5, <1>12 DEF Retry, sensor
<1>13. CASE RunReadOther
  BY <1>4, <1>5, <1>13 DEF RunReadOther, task
<1>14. CASE RunReadReports
  <2>1. faults' \in Faults
    BY <1>5, <1>14, FaultStep DEF RunReadReports, SendSample, SaveDcd
  <2>2. Tail(cargos) \in Seq(Cargo) /\ Head(cargos) \in Cargo
    BY <1>1, <1>14, TailIsCargos DEF RunReadReports, RecentTypeOK
  <2>3. Head(cargos).period \in Period
    BY <1>14, <2>2 DEF RunReadReports, Cargo, Other
  <2>4. held' \in [Triads -> Period \cup {None}]
    BY <1>1, <1>14, <2>3 DEF RunReadReports, RecentTypeOK, HeldAfter
  <2> QED
    BY <1>1, <1>14, <2>1, <2>2, <2>4 DEF RunReadReports, RecentTypeOK
<1>15. CASE SensorBooted
  <2>1. Append(cargos, Other) \in Seq(Cargo)
    BY <1>1 DEF RecentTypeOK, Cargo
  <2> QED
    BY <1>1, <1>15, <2>1 DEF SensorBooted, task, RecentTypeOK
<1>16. CASE SensorPeriod
  <2>1. PICK t \in Seq(Cargo) : cargos' = cargos \o t
    BY <1>1, <1>16, PeriodReports DEF RecentTypeOK
  <2>2. cargos' \in Seq(Cargo)
    BY <1>1, <2>1 DEF RecentTypeOK
  <2>3. period' \in Period
    BY <1>1, <1>16, BoundAssumption DEF SensorPeriod, RecentTypeOK, Period
  <2> QED
    BY <1>1, <1>16, <2>2, <2>3 DEF SensorPeriod, task, RecentTypeOK
<1>17. CASE LoseCargo
  BY <1>4, <1>5, <1>17, FaultStep DEF LoseCargo, task
<1>18. CASE SensorReset
  BY <1>2, <1>5, <1>18, FaultStep DEF SensorReset, task
<1>19. CASE UNCHANGED vars
  BY <1>3, <1>5, <1>19 DEF vars, task, sensor
<1> QED
  BY <1>6, <1>7, <1>8, <1>9, <1>10, <1>11, <1>12, <1>13, <1>14, <1>15, <1>16, <1>17,
     <1>18, <1>19 DEF Next, BringUpStep, RunStep

\* A triad that is held or on its way comes from an enabled sensor.
Live(g) == held[g] # None \/ \E i \in 1 .. Len(cargos) : Carries(cargos, g, i)

PairedFor(g) ==
  /\ Live(g) => g \in enabled
  /\ Chained(cargos, g, held[g], faults.cargo, period)

\* After bring_up(), a sensor that was reset says nothing any more.
Silent ==
  /\ pc = "run" /\ enabled = {}
  /\ \A i \in 1 .. Len(cargos) : ~IsReport(cargos, i)

Paired == Silent \/ \A g \in Triads : PairedFor(g)

LEMMA TailFacts ==
  ASSUME NEW s \in Seq(Cargo), s # <<>>
  PROVE  \A i \in 1 .. Len(Tail(s)) : i + 1 \in 1 .. Len(s) /\ Tail(s)[i] = s[i + 1]
  OBVIOUS

LEMMA AppendFacts ==
  ASSUME NEW s \in Seq(Cargo)
  PROVE  /\ Append(s, Other) \in Seq(Cargo)
         /\ \A i \in 1 .. Len(Append(s, Other)) :
              ~IsReport(Append(s, Other), i) \/ (i \in 1 .. Len(s) /\ Append(s, Other)[i] = s[i])
<1>1. Other \in Cargo /\ Other.channel # "InputReports"
  BY DEF Other, Cargo
<1> HIDE DEF Other, Cargo
<1> QED
  BY <1>1 DEF IsReport

LEMMA ConcatFacts ==
  ASSUME NEW s \in Seq(Cargo), NEW t \in Seq(Cargo)
  PROVE  \A i \in 1 .. Len(s \o t) : \/ i \in 1 .. Len(s) /\ (s \o t)[i] = s[i]
                                     \/ i - Len(s) \in 1 .. Len(t) /\ (s \o t)[i] = t[i - Len(s)]
  OBVIOUS

LEMMA FreshPaired ==
  ASSUME NEW g \in Triads, RecentTypeOK, ~Live(g)
  PROVE  PairedFor(g)
<1>1. held[g] = None /\ \A i \in 1 .. Len(cargos) : ~Carries(cargos, g, i)
  BY DEF Live
<1>2. faults.cargo \in Nat
  BY DEF RecentTypeOK, Faults, FaultBound
<1>3. Chained(cargos, g, None, faults.cargo, period)
  BY <1>1, <1>2, FreshChain DEF RecentTypeOK
<1> QED
  BY <1>1, <1>3 DEF PairedFor

\* The steps that leave the triads and the queue alone.
LEMMA KeepsPaired ==
  ASSUME NEW g \in Triads, PairedFor(g), UNCHANGED <<cargos, period, held>>,
         faults'.cargo = faults.cargo, enabled \subseteq enabled'
  PROVE  PairedFor(g)'
<1>1. Live(g)' <=> Live(g)
  BY Zenon DEF Live
<1>2. Chained(cargos, g, held[g], faults.cargo, period)'
  BY DEF PairedFor
<1> QED
  BY <1>1, <1>2 DEF PairedFor

\* A cargo without g, or one that the task passes by before it holds triads.
LEMMA ReadPaired ==
  ASSUME NEW g \in Triads, RecentTypeOK, PairedFor(g), cargos # <<>>, cargos' = Tail(cargos),
         UNCHANGED <<period, held, enabled>>,
         \/ faults'.cargo = faults.cargo /\ (held[g] = None \/ ~Carries(cargos, g, 1))
         \/ faults'.cargo = faults.cargo + 1
  PROVE  PairedFor(g)'
<1>1. /\ cargos \in Seq(Cargo) /\ held[g] \in Period \cup {None} /\ faults.cargo \in Nat
      /\ Chained(cargos, g, held[g], faults.cargo, period)
  BY DEF RecentTypeOK, Faults, FaultBound, PairedFor
<1>2. Live(g)' => Live(g)
  BY <1>1, TailFacts DEF Live, Carries, IsReport
<1>3. /\ Carries(cargos, g, 1) => Chained(Tail(cargos), g, None, faults.cargo, period)
      /\ ~Carries(cargos, g, 1) => Chained(Tail(cargos), g, held[g], faults.cargo, period)
      /\ Chained(Tail(cargos), g, held[g], faults.cargo + 1, period)
  BY <1>1, TailChain
<1>4. Chained(cargos, g, held[g], faults.cargo, period)'
  BY <1>3
<1> QED
  BY <1>2, <1>4 DEF PairedFor

\* The latest triads are kept, and the reports that bring none are of their period
\* or the next.
LEMMA TakePaired ==
  ASSUME NEW g \in Triads, RecentTypeOK, PairedFor(g), RunReadReports,
         faults'.cargo = faults.cargo
  PROVE  /\ PairedFor(g)'
         /\ held'[g] # None =>
              (Head(cargos).period - held'[g]) % PeriodModulus <= 1 + faults.cargo
<1>1. /\ cargos \in Seq(Cargo) /\ held[g] \in Period \cup {None} /\ faults.cargo \in Nat
      /\ Chained(cargos, g, held[g], faults.cargo, period)
  BY DEF RecentTypeOK, Faults, FaultBound, PairedFor
<1>2. /\ cargos # <<>> /\ cargos' = Tail(cargos) /\ UNCHANGED <<period, enabled>>
      /\ Head(cargos) = cargos[1] /\ cargos[1] \in Cargo /\ 1 \in 1 .. Len(cargos)
      /\ IsReport(cargos, 1) /\ held' = HeldAfter(cargos[1])
  BY <1>1, TailIsCargos DEF RunReadReports, IsReport
<1>3. held'[g] = IF Carries(cargos, g, 1) THEN cargos[1].period ELSE held[g]
  BY <1>2 DEF HeldAfter, Carries
<1>4. /\ Carries(cargos, g, 1) => Chained(Tail(cargos), g, cargos[1].period, faults.cargo, period)
      /\ ~Carries(cargos, g, 1) => Chained(Tail(cargos), g, held[g], faults.cargo, period)
      /\ ~Carries(cargos, g, 1) /\ held[g] # None =>
           (cargos[1].period - held[g]) % PeriodModulus <= 1 + faults.cargo
  BY <1>1, <1>2, TailChain
<1>5. Live(g)' => Live(g)
  BY <1>1, <1>2, <1>3, TailFacts DEF Live, Carries, IsReport
<1>6. Chained(cargos, g, held[g], faults.cargo, period)'
  BY <1>2, <1>3, <1>4
<1>7. (cargos[1].period - cargos[1].period) % PeriodModulus = 0
  <2>1. cargos[1].period \in Period
    BY <1>2 DEF IsReport, Cargo, Other
  <2> QED
    BY <2>1, BoundAssumption DEF Period
<1> QED
  BY <1>1, <1>2, <1>3, <1>4, <1>5, <1>6, <1>7 DEF PairedFor

LEMMA SilentStep == Silent /\ RecentTypeOK /\ Next => Silent' /\ ~RunReadReports
<1> SUFFICES ASSUME Silent, RecentTypeOK, Next
             PROVE  Silent' /\ ~RunReadReports
  OBVIOUS
<1>1. /\ pc = "run" /\ enabled = {} /\ cargos \in Seq(Cargo)
      /\ \A i \in 1 .. Len(cargos) : ~IsReport(cargos, i)
  BY DEF Silent, RecentTypeOK
<1>2. ~RunReadReports
  <2>1. ASSUME cargos # <<>>
        PROVE  Head(cargos).channel # "InputReports"
    BY <1>1, <2>1, TailIsCargos DEF IsReport
  <2> QED
    BY <2>1 DEF RunReadReports
<1>3. CASE cargos # <<>> /\ cargos' = Tail(cargos) /\ UNCHANGED <<pc, enabled>>
  BY <1>1, <1>2, <1>3, TailFacts DEF Silent, IsReport
<1>4. CASE SensorBooted
  BY <1>1, <1>2, <1>4, AppendFacts DEF SensorBooted, task, Silent, IsReport
<1>5. CASE SensorReset
  BY <1>1, <1>2, <1>5 DEF SensorReset, SensorResets, task, Silent
<1>6. \/ SensorBooted \/ SensorReset \/ RunReadOther \/ LoseCargo
  BY <1>1, <1>2 DEF Next, BringUpStep, RunStep, SendReset, DrainRead, DrainEnd, SendFeature,
     ReadyRead, ReadyTimeout, Retry, SensorPeriod
<1> QED
  BY <1>2, <1>3, <1>4, <1>5, <1>6 DEF RunReadOther, LoseCargo, task

LEMMA PairedStep ==
  RecentTypeOK /\ RecentTypeOK' /\ Paired /\ [Next]_vars => Paired'
<1> SUFFICES ASSUME RecentTypeOK, RecentTypeOK', Paired, [Next]_vars
             PROVE  Paired'
  OBVIOUS
<1>1. CASE Silent
  <2>1. CASE Next
    BY <1>1, <2>1, SilentStep DEF Paired
  <2>2. CASE UNCHANGED vars
    BY <1>1, <2>2 DEF Silent, Paired, vars, task, sensor
  <2> QED
    BY <2>1, <2>2
<1>2. CASE \A g \in Triads : PairedFor(g)
  <2> DEFINE kinds == DOMAIN FaultBound
  <2>1. /\ faults \in Faults /\ "command" \in kinds /\ "slow" \in kinds
        /\ "cargo" \in kinds /\ "reset" \in kinds /\ "norm" \in kinds
    BY DEF RecentTypeOK, FaultBound
  <2> HIDE DEF kinds
  <2>2. ASSUME UNCHANGED <<cargos, period, held>>, enabled \subseteq enabled',
               faults'.cargo = faults.cargo
        PROVE  Paired'
    BY <1>2, <2>2, KeepsPaired DEF Paired
  <2>3. ASSUME cargos # <<>>, cargos' = Tail(cargos), UNCHANGED <<period, held, enabled>>,
               \/ /\ faults'.cargo = faults.cargo
                  /\ pc = "run" => ~IsReport(cargos, 1)
               \/ faults'.cargo = faults.cargo + 1
        PROVE  Paired'
    <3>1. ASSUME NEW g \in Triads PROVE PairedFor(g)'
      <4>1. faults'.cargo = faults.cargo => held[g] = None \/ ~Carries(cargos, g, 1)
                                            \/ faults'.cargo = faults.cargo + 1
        BY <2>3 DEF RecentTypeOK, Carries
      <4> QED
        BY <1>2, <2>3, <4>1, ReadPaired
    <3> QED
      BY <3>1 DEF Paired
  <2>4. ASSUME SensorResets, UNCHANGED <<pc, held>> \/ (pc = "reset" /\ UNCHANGED held)
        PROVE  Paired'
    <3>1. enabled' = {} /\ cargos' = <<>>
      BY <2>4 DEF SensorResets
    <3>2. CASE pc = "run"
      <4>1. Silent'
        BY <2>4, <3>1, <3>2 DEF Silent
      <4> QED
        BY <4>1 DEF Paired
    <3>3. CASE pc # "run"
      <4>1. ASSUME NEW g \in Triads PROVE PairedFor(g)'
        <5>1. ~Live(g)'
          BY <2>4, <3>1, <3>3 DEF Live, RecentTypeOK
        <5> QED
          BY <5>1, FreshPaired, PTL
      <4> QED
        BY <4>1 DEF Paired
    <3> QED
      BY <3>2, <3>3
  <2>5. CASE SendReset
    <3>1. CASE SensorResets
      BY <2>4, <2>5, <3>1 DEF SendReset
    <3>2. CASE Fault("command") /\ UNCHANGED sensor
      BY <2>1, <2>2, <2>5, <3>2, FaultStep DEF SendReset, sensor, kinds
    <3> QED
      BY <2>5, <3>1, <3>2 DEF SendReset
  <2>6. CASE DrainRead
    BY <2>3, <2>6 DEF DrainRead, task
  <2>7. CASE DrainEnd
    <3>1. faults'.cargo = faults.cargo
      BY <2>1, <2>7, FaultStep DEF DrainEnd, kinds
    <3> QED
      BY <2>2, <2>7, <3>1 DEF DrainEnd, sensor
  <2>8. CASE SendFeature
    <3>1. faults'.cargo = faults.cargo
      BY <2>1, <2>8, FaultStep DEF SendFeature, kinds
    <3>2. enabled \subseteq enabled'
      BY <2>8 DEF SendFeature
    <3> QED
      BY <2>2, <2>8, <3>1, <3>2 DEF SendFeature
  <2>9. CASE ReadyRead
    BY <2>3, <2>9 DEF ReadyRead
  <2>10. CASE ReadyTimeout
    <3>1. faults'.cargo = faults.cargo
      BY <2>1, <2>10, FaultStep DEF ReadyTimeout, kinds
    <3> QED
      BY <2>2, <2>10, <3>1 DEF ReadyTimeout, sensor
  <2>11. CASE Retry
    BY <2>2, <2>11 DEF Retry, sensor
  <2>12. CASE RunReadOther
    <3>1. ~IsReport(cargos, 1)
      BY <2>12, TailIsCargos DEF RunReadOther, RecentTypeOK, IsReport
    <3> QED
      BY <2>3, <2>12, <3>1 DEF RunReadOther, task
  <2>13. CASE RunReadReports
    <3>1. faults'.cargo = faults.cargo
      BY <2>1, <2>13, FaultStep DEF RunReadReports, SendSample, SaveDcd, kinds
    <3> QED
      BY <1>2, <2>13, <3>1, TakePaired DEF Paired
  <2>14. CASE SensorBooted
    <3>1. ASSUME NEW g \in Triads PROVE PairedFor(g)'
      <4>1. /\ cargos \in Seq(Cargo) /\ faults.cargo \in Nat
            /\ Chained(cargos, g, held[g], faults.cargo, period)
        BY <1>2, <3>1 DEF RecentTypeOK, Faults, FaultBound, PairedFor
      <4>2. Chained(Append(cargos, Other), g, held[g], faults.cargo, period)
        BY <4>1, OtherChain
      <4>3. Live(g)' => Live(g)
        BY <2>14, <4>1, AppendFacts DEF SensorBooted, task, Live, Carries, IsReport
      <4> QED
        BY <1>2, <2>14, <4>2, <4>3 DEF PairedFor, SensorBooted, task
    <3> QED
      BY <3>1 DEF Paired
  <2>15. CASE SensorPeriod
    <3>1. PICK t \in Seq(Cargo) : cargos' = cargos \o t /\ BringsPeriod(t, period, enabled)
      BY <2>15, PeriodReports DEF RecentTypeOK
    <3>2. ASSUME NEW g \in Triads PROVE PairedFor(g)'
      <4>1. /\ cargos \in Seq(Cargo) /\ faults.cargo \in Nat /\ period \in Period
            /\ Chained(cargos, g, held[g], faults.cargo, period)
        BY <1>2, <3>2 DEF RecentTypeOK, Faults, FaultBound, PairedFor
      <4>2. period' = (period + 1) % PeriodModulus /\ UNCHANGED <<held, enabled, faults>>
        BY <2>15 DEF SensorPeriod, task
      <4>3. CASE g \in enabled
        <5>1. PICK k \in 1 .. Len(t) : \A i \in 1 .. Len(t) : g \in t[i].of <=> i = k
          BY <3>1, <4>3 DEF BringsPeriod
        <5>2. \A i \in 1 .. Len(t) : IsReport(t, i) /\ t[i].period = period
          BY <3>1 DEF BringsPeriod
        <5>3. Chained(cargos \o t, g, held[g], faults.cargo, (period + 1) % PeriodModulus)
          BY <4>1, <5>1, <5>2, PeriodChain
        <5> QED
          BY <3>1, <4>2, <4>3, <5>3 DEF PairedFor
      <4>4. CASE g \notin enabled
        <5>1. ~Live(g)
          BY <1>2, <3>2, <4>4 DEF PairedFor
        <5>2. \A i \in 1 .. Len(t) : ~Carries(t, g, i)
          BY <3>1, <4>4 DEF BringsPeriod, Carries
        <5>3. ~Live(g)'
          <6>1. \A i \in 1 .. Len(cargos) : ~Carries(cargos, g, i)
            BY <5>1 DEF Live, Carries, IsReport
          <6>2. ~\E i \in 1 .. Len(cargos \o t) : Carries(cargos \o t, g, i)
            BY <3>1, <4>1, <5>2, <6>1, ConcatFacts DEF Carries, IsReport
          <6> QED
            BY <3>1, <4>2, <5>1, <6>2 DEF Live, Carries, IsReport
        <5> QED
          BY <5>3, FreshPaired, PTL
      <4> QED
        BY <4>3, <4>4
    <3> QED
      BY <3>2 DEF Paired
  <2>16. CASE LoseCargo
    <3>1. faults'.cargo = faults.cargo + 1
      BY <2>1, <2>16, FaultStep DEF LoseCargo, kinds
    <3> QED
      BY <2>3, <2>16, <3>1 DEF LoseCargo, task
  <2>17. CASE SensorReset
    BY <2>4, <2>17 DEF SensorReset, task
  <2>18. CASE UNCHANGED vars
    BY <2>2, <2>18 DEF vars, task, sensor
  <2> QED
    BY <2>5, <2>6, <2>7, <2>8, <2>9, <2>10, <2>11, <2>12, <2>13, <2>14, <2>15, <2>16,
       <2>17, <2>18 DEF Next, BringUpStep, RunStep
<1> QED
  BY <1>1, <1>2 DEF Paired

\* A sample's age is what was promised when it was sent.
RecentSample ==
  sample # None => \A g \in {"GyroCalibrated", "Accelerometer"} :
                     Age(g) \in Nat /\ Age(g) <= 1 + faults.cargo

\* Lost cargos are only ever more, so an old sample's bound holds on.
LEMMA RecentStep ==
  RecentTypeOK /\ Paired /\ RecentSample /\ [Next]_vars => RecentSample'
<1> SUFFICES ASSUME RecentTypeOK, Paired, RecentSample, [Next]_vars
             PROVE  RecentSample'
  OBVIOUS
<1> DEFINE kinds == DOMAIN FaultBound
<1>1. /\ faults \in Faults /\ "command" \in kinds /\ "slow" \in kinds
      /\ "cargo" \in kinds /\ "reset" \in kinds /\ "norm" \in kinds /\ faults.cargo \in Nat
  BY DEF RecentTypeOK, FaultBound, Faults
<1> HIDE DEF kinds
<1>2. faults' = faults \/ \E kind \in kinds : Fault(kind)
  BY <1>1 DEF Next, BringUpStep, RunStep, SendReset, DrainRead, DrainEnd, SendFeature, ReadyRead,
     ReadyTimeout, Retry, RunReadOther, RunReadReports, SendSample, SaveDcd, SensorBooted, SensorPeriod,
     LoseCargo, SensorReset, vars
<1>3. faults'.cargo \in Nat /\ faults.cargo <= faults'.cargo
  BY <1>1, <1>2, FaultStep DEF kinds
<1>4. CASE sample' = sample
  <2>1. sample # None => \A g \in {"GyroCalibrated", "Accelerometer"} :
          Age(g) \in Nat /\ Age(g) <= 1 + faults.cargo /\ Age(g)' = Age(g)
    BY <1>4 DEF RecentSample, Age
  <2> QED
    BY <1>1, <1>3, <1>4, <2>1 DEF RecentSample
<1>5. CASE RunReadReports /\ sample' # sample
  <2>1. /\ sample' = [rotation |-> Head(cargos).period, triad |-> held']
        /\ held'["GyroCalibrated"] # None /\ held'["Accelerometer"] # None
        /\ faults'.cargo = faults.cargo
    <3>1. faults'.cargo = faults.cargo
      BY <1>1, <1>5, FaultStep DEF RunReadReports, SendSample, SaveDcd, kinds
    <3> QED
      BY <1>5, <3>1 DEF RunReadReports, SendSample, Samples
  <2>2. \A g \in Triads : PairedFor(g)
    <3>1. Next
      BY <1>5 DEF Next, RunStep
    <3> QED
      BY <1>5, <3>1, SilentStep DEF Paired
  <2>3. ASSUME NEW g \in {"GyroCalibrated", "Accelerometer"}
        PROVE  Age(g)' \in Nat /\ Age(g)' <= 1 + faults'.cargo
    <3>1. g \in Triads /\ held'[g] # None
      BY <2>1 DEF Triads
    <3>2. (Head(cargos).period - held'[g]) % PeriodModulus <= 1 + faults.cargo
      BY <1>5, <2>1, <2>2, <3>1, TakePaired
    <3>3. Age(g)' = (Head(cargos).period - held'[g]) % PeriodModulus
      BY <2>1 DEF Age
    <3>4. Head(cargos).period \in Period /\ held'[g] \in Period
      <4>1. Head(cargos) \in Cargo /\ Head(cargos).channel = "InputReports"
        BY <1>5, TailIsCargos DEF RunReadReports, RecentTypeOK
      <4>2. Head(cargos).period \in Period
        BY <4>1 DEF Cargo, Other
      <4> QED
        BY <1>5, <3>1, <4>2 DEF RunReadReports, HeldAfter, RecentTypeOK
    <3>5. (Head(cargos).period - held'[g]) % PeriodModulus \in Nat
      BY <3>4, BoundAssumption DEF Period
    <3> QED
      BY <2>1, <3>2, <3>3, <3>5
  <2> QED
    BY <2>3 DEF RecentSample
<1>6. CASE UNCHANGED vars
  BY <1>4, <1>6 DEF vars, task
<1>7. Next => RunReadReports \/ sample' = sample
  BY DEF Next, BringUpStep, RunStep, SendReset, DrainRead, DrainEnd, SendFeature, ReadyRead,
     ReadyTimeout, Retry, RunReadOther, SensorBooted, SensorPeriod, LoseCargo, SensorReset, task
<1> QED
  BY <1>4, <1>5, <1>6, <1>7

\* A Rotation Vector is paired with the latest triads: the gyro and the accel of a
\* sample are from its own period or the one before, and each cargo that an I2C
\* read loses adds at most one, for any queue, any splitting of the reports over
\* cargos, and any failed write or reset on the way.
THEOREM TriadsStayRecent == Spec => []TriadsAreRecent
<1>1. Init => Paired /\ RecentSample
  <2> SUFFICES ASSUME Init PROVE Paired /\ RecentSample
    OBVIOUS
  <2>1. RecentTypeOK
    BY RecentTypeInit
  <2>2. \A g \in Triads : ~Live(g)
    BY DEF Init, Live
  <2>3. RecentSample
    BY DEF Init, RecentSample
  <2> QED
    BY <2>1, <2>2, <2>3, FreshPaired DEF Paired
<1>2. RecentSample => TriadsAreRecent
  BY DEF RecentSample, TriadsAreRecent
<1> QED
  BY <1>1, <1>2, RecentTypeInit, RecentTypeStep, PairedStep, RecentStep, PTL DEF Spec
=============================================================================
