----------------------- MODULE BatteryRechargingProofs -----------------------
(***************************************************************************)
(* The level BatteryRechargingControl reports stays between the gauge's    *)
(* and 100%, for every duration of the transition, every range of levels   *)
(* and every spacing of the polls, and when the charger's status cannot be *)
(* read.                                                                   *)
(***************************************************************************)
EXTENDS BatteryRecharging, TLAPS

(* A product of differences that are not negative.                         *)
LEMMA ProductNat == \A x, y \in Nat : x * y \in Nat
  BY SMT

(* Rounding to the nearest integer respects integer bounds.                *)
LEMMA RoundBounds ==
  ASSUME NEW n \in Nat \ {0}, NEW lo \in Nat, NEW hi \in Nat, NEW v \in Nat,
         lo * n <= v, v <= hi * n
  PROVE  (2 * v + n) \div (2 * n) \in lo .. hi
<1> DEFINE q == (2 * v + n) \div (2 * n)
           r == (2 * v + n) % (2 * n)
<1>1. /\ 2 * n \in Nat \ {0} /\ 2 * v + n \in Nat
      /\ q \in Int /\ r \in 0 .. 2 * n - 1
      /\ 2 * v + n = (2 * n) * q + r
  BY SMT
<1>2. lo <= q
  <2>1. SUFFICES ASSUME q + 1 <= lo PROVE FALSE
    BY <1>1, SMT
  <2>2. \E k \in Nat : lo = q + 1 + k
    <3>1. lo - q - 1 \in Nat /\ lo = q + 1 + (lo - q - 1)
      BY <1>1, <2>1
    <3> QED BY <3>1
  <2>3. PICK k \in Nat : lo = q + 1 + k
    BY <2>2
  <2>4. lo * n = q * n + n + k * n /\ k * n \in Nat /\ q * n \in Int
    BY <1>1, <2>3, SMT
  <2>5. (2 * n) * q = 2 * (q * n)
    BY <1>1, SMT
  <2> HIDE DEF q, r
  <2> QED BY <1>1, <2>4, <2>5, SMT
<1>3. q <= hi
  <2>1. SUFFICES ASSUME hi + 1 <= q PROVE FALSE
    BY <1>1, SMT
  <2>2. \E k \in Nat : q = hi + 1 + k
    <3>1. q - hi - 1 \in Nat /\ q = hi + 1 + (q - hi - 1)
      BY <1>1, <2>1
    <3> QED BY <3>1
  <2>3. PICK k \in Nat : q = hi + 1 + k
    BY <2>2
  <2>4. q * n = hi * n + n + k * n /\ k * n \in Nat /\ hi * n \in Int
    BY <1>1, <2>3, SMT
  <2>5. (2 * n) * q = 2 * (q * n)
    BY <1>1, SMT
  <2> HIDE DEF q, r
  <2> QED BY <1>1, <2>4, <2>5, SMT
<1> QED BY <1>1, <1>2, <1>3

(* What RemapSOC returns within a transition lies between the gauge's      *)
(* level and 100%, and is 100% at its start.                               *)
LEMMA RemapBounds ==
  ASSUME NEW soc \in Levels, NEW time \in 0 .. kTransitionTime
  PROVE  RemapSOC(soc, time) \in soc .. kFullSoc
<1> DEFINE v == soc * time + kFullSoc * (kTransitionTime - time)
<1>1. /\ soc \in Nat /\ kFullSoc \in Nat /\ soc <= kFullSoc
      /\ kTransitionTime \in Nat \ {0} /\ time \in Nat /\ time <= kTransitionTime
  BY TimeAssumption DEF Levels
<1>2. PICK a \in Nat : kFullSoc = soc + a
  <2>1. kFullSoc - soc \in Nat /\ kFullSoc = soc + (kFullSoc - soc)
    BY <1>1
  <2> QED BY <2>1
<1>3. PICK b \in Nat : kTransitionTime = time + b
  <2>1. kTransitionTime - time \in Nat /\ kTransitionTime = time + (kTransitionTime - time)
    BY <1>1
  <2> QED BY <2>1
<1>4. /\ soc * kTransitionTime = soc * time + soc * b
      /\ kFullSoc * kTransitionTime = soc * time + soc * b + a * time + a * b
      /\ v = soc * time + soc * b + a * b
  BY <1>1, <1>2, <1>3, SMT
<1>5. soc * time \in Nat /\ soc * b \in Nat /\ a * time \in Nat /\ a * b \in Nat
  BY <1>1, ProductNat
<1>6. v \in Nat /\ soc * kTransitionTime <= v /\ v <= kFullSoc * kTransitionTime
  BY <1>4, <1>5
<1> HIDE DEF v
<1>7. (2 * v + kTransitionTime) \div (2 * kTransitionTime) \in soc .. kFullSoc
  BY <1>1, <1>6, RoundBounds
<1> QED BY <1>7 DEF RemapSOC, v

LEMMA RampStart ==
  ASSUME NEW soc \in Levels
  PROVE  RemapSOC(soc, 0) \in soc .. kFullSoc
<1>1. 0 \in 0 .. kTransitionTime
  BY TimeAssumption
<1> QED BY <1>1, RemapBounds

-----------------------------------------------------------------------------
Inv == TypeOK /\ NotBelowGauge

LEMMA InitInv == Init => Inv
<1> SUFFICES ASSUME Init PROVE Inv
  OBVIOUS
<1>1. reported \in Levels /\ reported >= level /\ reported <= kFullSoc
  BY TimeAssumption DEF Init, Levels
<1>2. elapsed \in 0 .. kTransitionTime + 1
  BY TimeAssumption DEF Init
<1>3. TypeOK
  BY <1>1, <1>2 DEF Init, TypeOK
<1> QED BY <1>1, <1>3 DEF Inv, NotBelowGauge

(* A level between the gauge's and 100% is one the gauge can have.         *)
LEMMA Between ==
  ASSUME NEW soc \in Levels, NEW r \in soc .. kFullSoc
  PROVE  r \in Levels /\ r >= soc /\ r <= kFullSoc /\ r \in Int
  BY TimeAssumption DEF Levels

LEMMA TimeNat ==
  ASSUME NEW e \in 0 .. kTransitionTime + 1, NEW g \in Nat
  PROVE  e \in Nat /\ e + g \in Nat
<1>1. kTransitionTime \in Nat
  BY TimeAssumption
<1> QED BY <1>1

(* A poll, whether or not the status could be read.                        *)
Polled == Sample(Statuses \cup {"Unknown"})

LEMMA StepInv == Inv /\ [Next]_vars => Inv'
<1> SUFFICES ASSUME Inv, [Next]_vars PROVE Inv'
  OBVIOUS
<1> USE TimeAssumption
<1>1. /\ kFullSoc \in Levels /\ kFullSoc \in Nat
      /\ Levels \subseteq Nat
  BY DEF Levels
<1>2. CASE UNCHANGED vars
  BY <1>2 DEF Inv, TypeOK, NotBelowGauge, vars
<1>3. ASSUME Polled PROVE level' \in Levels /\ level' \in level' .. kFullSoc
  BY <1>1, <1>3 DEF Polled, Sample, Levels
<1>4. SUFFICES ASSUME Polled,
                      reported' \in level' .. kFullSoc,
                      state_' \in Ramps \cup {"INACTIVE", "WAIT_EOC", "RECHARGING_CYCLE"},
                      elapsed' \in 0 .. kTransitionTime + 1,
                      recharge_soc_' \in Levels \cup {0},
                      kept' \in BOOLEAN
               PROVE  Inv'
  <2>1. CASE Next
    <3>1. Polled
      BY <2>1 DEF Next, Update, UpdateFails, Polled, Sample
    <3>2. level' \in Levels /\ level' \in level' .. kFullSoc
      BY <3>1, <1>3
    <3>3. gap' \in Nat
      BY <3>1 DEF Polled, Sample
    <3>4. elapsed \in 0 .. kTransitionTime + 1
      BY DEF Inv, TypeOK
    <3>5. elapsed \in Nat /\ elapsed + gap' \in Nat
      BY <3>3, <3>4, TimeNat
    <3>6. CASE Update
      <4>1. kept' \in BOOLEAN
        BY <3>6 DEF Update, Keep
      <4>2. CASE Inactive
        BY <1>4, <3>1, <3>2, <4>1, <4>2 DEF Inactive, Inv, TypeOK
      <4>3. ASSUME NEW state \in Ramps, StartRamp(state)
            PROVE  /\ reported' \in level' .. kFullSoc
                   /\ state_' \in Ramps
                   /\ elapsed' \in 0 .. kTransitionTime + 1
        <5>1. RemapSOC(level', 0) \in level' .. kFullSoc
          BY <3>2, RampStart
        <5> QED BY <4>3, <5>1 DEF StartRamp
      <4>4. CASE WaitEoc
        <5>1. recharge_soc_' \in Levels \cup {0}
          BY <4>4 DEF WaitEoc, Inv, TypeOK
        <5>2. CASE charger_status' = "Full"
          BY <1>1, <1>4, <3>1, <3>2, <4>1, <4>4, <5>1, <5>2 DEF WaitEoc, Inv, TypeOK, Levels
        <5>3. CASE charger_status' = "Charging"
          BY <1>4, <3>1, <3>2, <4>1, <4>4, <5>1, <5>3 DEF WaitEoc, Inv, TypeOK
        <5>4. CASE charger_status' = "Discharging"
          <6>1. StartRamp("NO_POWER_SOURCE")
            BY <4>4, <5>4 DEF WaitEoc
          <6>2. "NO_POWER_SOURCE" \in Ramps
            BY DEF Ramps
          <6> QED BY <1>4, <3>1, <4>1, <4>3, <5>1, <6>1, <6>2
        <5> QED BY <3>6, <5>2, <5>3, <5>4 DEF Update, Sample, Statuses
      <4>5. CASE RechargingCycle
        <5>1. CASE StartRamp("OVER_LOADING") /\ UNCHANGED recharge_soc_
          <6>1. "OVER_LOADING" \in Ramps
            BY DEF Ramps
          <6>2. recharge_soc_' \in Levels \cup {0}
            BY <5>1 DEF Inv, TypeOK
          <6> QED BY <1>4, <3>1, <4>1, <4>3, <5>1, <6>1, <6>2
        <5>2. CASE StartRamp("NO_POWER_SOURCE") /\ UNCHANGED recharge_soc_
          <6>1. "NO_POWER_SOURCE" \in Ramps
            BY DEF Ramps
          <6>2. recharge_soc_' \in Levels \cup {0}
            BY <5>2 DEF Inv, TypeOK
          <6> QED BY <1>4, <3>1, <4>1, <4>3, <5>2, <6>1, <6>2
        <5>3. CASE /\ reported' = kFullSoc
                   /\ recharge_soc_' \in {0, level', recharge_soc_}
                   /\ UNCHANGED <<state_, elapsed>>
          <6>1. reported' \in level' .. kFullSoc
            <7>1. kFullSoc \in level' .. kFullSoc
              BY <3>2 DEF Levels
            <7> QED BY <5>3, <7>1
          <6>2. recharge_soc_' \in Levels \cup {0}
            BY <3>2, <5>3 DEF Inv, TypeOK
          <6> QED BY <1>4, <3>1, <4>1, <5>3, <6>1, <6>2 DEF Inv, TypeOK
        <5>4. /\ reported' = kFullSoc /\ UNCHANGED <<state_, elapsed>>
              /\ recharge_soc_' = 0 \/ recharge_soc_' = level' \/ recharge_soc_' = recharge_soc_
              => Inv'
          BY <5>3
        <5>5. \/ StartRamp("OVER_LOADING") /\ UNCHANGED recharge_soc_
              \/ StartRamp("NO_POWER_SOURCE") /\ UNCHANGED recharge_soc_
              \/ /\ reported' = kFullSoc /\ UNCHANGED <<state_, elapsed>>
                 /\ recharge_soc_' = 0 \/ recharge_soc_' = level' \/ recharge_soc_' = recharge_soc_
          BY <4>5 DEF RechargingCycle
        <5> QED BY <5>1, <5>2, <5>4, <5>5
      <4>6. CASE Ramp
        <5> DEFINE time == elapsed + gap'
                   remapped == RemapSOC(level', time)
        <5>1. time \in Nat
          BY <3>5
        <5>2. CASE time > kTransitionTime
          <6>1. /\ state_' = "INACTIVE" /\ elapsed' = 0
                /\ reported' = level' /\ UNCHANGED recharge_soc_
            BY <4>6, <5>2 DEF Ramp, RampStep
          <6> QED BY <1>4, <3>1, <3>2, <4>1, <6>1 DEF Inv, TypeOK
        <5>3. CASE time <= kTransitionTime
          <6>1. time \in 0 .. kTransitionTime
            BY <5>1, <5>3
          <6>2. remapped \in level' .. kFullSoc
            BY <3>2, <6>1, RemapBounds
          <6>3. remapped \in Levels
            BY <3>2, <6>2, Between
          <6> HIDE DEF time
          <6>4. CASE reported' = level' /\ state_' = "INACTIVE" /\ elapsed' = 0
                     /\ UNCHANGED recharge_soc_
            BY <1>4, <3>1, <3>2, <4>1, <6>4 DEF Inv, TypeOK
          <6>5. CASE /\ reported' = remapped
                     /\ \/ /\ state_' = "RECHARGING_CYCLE" /\ recharge_soc_' = remapped
                           /\ elapsed' = 0
                        \/ elapsed' = time /\ UNCHANGED <<state_, recharge_soc_>>
            <7> HIDE DEF remapped
            <7> QED BY <1>4, <3>1, <4>1, <6>1, <6>2, <6>3, <6>5 DEF Inv, TypeOK
          <6> QED BY <4>6, <6>4, <6>5 DEF Ramp, RampStep, time
        <5> QED BY <5>1, <5>2, <5>3
      <4> QED BY <3>6, <4>2, <4>4, <4>5, <4>6 DEF Update
    <3>7. CASE UpdateFails
      <4>1. elapsed' \in 0 .. kTransitionTime + 1
        <5>1. \/ elapsed' = kTransitionTime + 1 \/ elapsed' = elapsed
              \/ elapsed' = elapsed + gap' /\ ~(elapsed + gap' > kTransitionTime)
          BY <3>7 DEF UpdateFails
        <5> QED BY <3>4, <3>5, <5>1
      <4> QED BY <1>4, <3>1, <3>2, <3>7, <4>1 DEF UpdateFails, Keep, Inv, TypeOK
    <3> QED BY <2>1, <3>6, <3>7 DEF Next
  <2> QED BY <1>2, <2>1
<1>5. level' \in Levels
  BY <1>3, <1>4
<1>6. reported' \in Levels /\ reported' >= level' /\ reported' <= kFullSoc
  BY <1>4, <1>5, Between
<1> QED BY <1>4, <1>5, <1>6 DEF Inv, TypeOK, NotBelowGauge, Polled, Sample

(* The fields of the control object have the values the code gives them.   *)
THEOREM TypeCorrect == Spec => []TypeOK
<1>1. Inv => TypeOK
  BY DEF Inv
<1> QED BY <1>1, InitInv, StepInv, PTL DEF Spec

(* updateBatteryProperties never reports less than the gauge measured and  *)
(* never more than 100%, whatever fails.                                   *)
THEOREM ReportedInRange == Spec => []NotBelowGauge
<1>1. Inv => NotBelowGauge
  BY DEF Inv
<1> QED BY <1>1, InitInv, StepInv, PTL DEF Spec

(* A recharging cycle is not visible: 100% is reported at every poll that  *)
(* could read the status, also at the one that enters the cycle.           *)
THEOREM CyclesHidden == Spec => []CycleHidden
<1>1. Init => CycleHidden
  BY DEF Init, CycleHidden
<1>2. CycleHidden /\ [Next]_vars => CycleHidden'
  <2>. SUFFICES ASSUME CycleHidden, [Next]_vars PROVE CycleHidden'
    OBVIOUS
  <2>1. CASE Inactive \/ WaitEoc
    BY <2>1 DEF Inactive, WaitEoc, StartRamp, CycleHidden
  <2>2. CASE RechargingCycle
    BY <2>2 DEF RechargingCycle, StartRamp, CycleHidden
  <2>3. CASE Ramp
    <3>1. state_' = "RECHARGING_CYCLE" => reported' = kFullSoc
      BY <2>3 DEF Ramp, Ramps, RampStep, Recovers
    <3>2. QED
      BY <3>1 DEF CycleHidden
  <2>4. CASE UpdateFails
    BY <2>4 DEF UpdateFails, Sample, CycleHidden
  <2>5. CASE UNCHANGED vars
    BY <2>5 DEF vars, CycleHidden
  <2>6. QED
    BY <2>1, <2>2, <2>3, <2>4, <2>5 DEF Next, Update
<1>3. QED
  BY <1>1, <1>2, PTL DEF Spec

-----------------------------------------------------------------------------
(* Division by the same number keeps the order.                            *)
LEMMA DivMonotone ==
  ASSUME NEW n \in Nat \ {0}, NEW v \in Nat, NEW w \in Nat, v <= w
  PROVE  v \div n <= w \div n
<1> DEFINE q == v \div n
           p == w \div n
<1>1. /\ q \in Int /\ v % n \in 0 .. n - 1 /\ v = n * q + (v % n)
      /\ p \in Int /\ w % n \in 0 .. n - 1 /\ w = n * p + (w % n)
  BY SMT
<1>2. SUFFICES ASSUME p + 1 <= q PROVE FALSE
  BY <1>1
<1>3. PICK k \in Nat : q = p + 1 + k
  <2>1. q - p - 1 \in Nat /\ q = p + 1 + (q - p - 1)
    BY <1>1, <1>2
  <2> QED BY <2>1
<1>4. n * q = n * p + n + n * k /\ n * k \in Nat /\ n * p \in Int
  BY <1>1, <1>3, SMT
<1> HIDE DEF q, p
<1> QED BY <1>1, <1>4

(* Later in a transition, and with a lower gauge, the level is lower.      *)
LEMMA RemapFalls ==
  ASSUME NEW soc \in Levels, NEW low \in Levels, low <= soc,
         NEW time \in 0 .. kTransitionTime, NEW later \in 0 .. kTransitionTime, time <= later
  PROVE  RemapSOC(low, later) <= RemapSOC(soc, time)
<1> DEFINE v == low * later + kFullSoc * (kTransitionTime - later)
           w == soc * time + kFullSoc * (kTransitionTime - time)
<1>1. /\ soc \in Nat /\ low \in Nat /\ kFullSoc \in Nat /\ soc <= kFullSoc
      /\ kTransitionTime \in Nat \ {0} /\ time \in Nat /\ later \in Nat
      /\ later <= kTransitionTime
  BY TimeAssumption DEF Levels
<1>2. PICK a \in Nat : soc = low + a
  <2>1. soc - low \in Nat /\ soc = low + (soc - low)
    BY <1>1
  <2> QED BY <2>1
<1>3. PICK b \in Nat : kFullSoc = soc + b
  <2>1. kFullSoc - soc \in Nat /\ kFullSoc = soc + (kFullSoc - soc)
    BY <1>1
  <2> QED BY <2>1
<1>4. PICK c \in Nat : later = time + c
  <2>1. later - time \in Nat /\ later = time + (later - time)
    BY <1>1
  <2> QED BY <2>1
<1>5. PICK d \in Nat : kTransitionTime = later + d
  <2>1. kTransitionTime - later \in Nat /\ kTransitionTime = later + (kTransitionTime - later)
    BY <1>1
  <2> QED BY <2>1
<1>6. /\ low * time \in Nat /\ low * c \in Nat /\ a * time \in Nat /\ a * c \in Nat
      /\ b * c \in Nat /\ kFullSoc * d \in Nat
  BY <1>1, ProductNat
<1>7. v = low * time + low * c + kFullSoc * d
  BY <1>1, <1>4, <1>5, SMT
<1>8. w = low * time + a * time + low * c + a * c + b * c + kFullSoc * d
  <2>1. w = soc * time + kFullSoc * c + kFullSoc * d
    BY <1>1, <1>4, <1>5, SMT
  <2>2. soc * time = low * time + a * time /\ kFullSoc * c = low * c + a * c + b * c
    BY <1>1, <1>2, <1>3, SMT
  <2> HIDE DEF w
  <2> QED BY <1>6, <2>1, <2>2
<1>9. v \in Nat /\ w \in Nat /\ v <= w
  BY <1>6, <1>7, <1>8
<1> HIDE DEF v, w
<1>10. /\ 2 * kTransitionTime \in Nat \ {0}
       /\ 2 * v + kTransitionTime \in Nat /\ 2 * w + kTransitionTime \in Nat
       /\ 2 * v + kTransitionTime <= 2 * w + kTransitionTime
  BY <1>1, <1>9
<1>11. (2 * v + kTransitionTime) \div (2 * kTransitionTime)
         <= (2 * w + kTransitionTime) \div (2 * kTransitionTime)
  BY <1>10, DivMonotone
<1> QED BY <1>11 DEF RemapSOC, v, w

(* What a poll reports is what its state says: the gauge's level, 100%, or  *)
(* the level of a transition; on battery there is no cycle.                *)
ReportedInv ==
  /\ state_ \in {"INACTIVE", "WAIT_EOC"} \/ charger_status = "Unknown" => reported = level
  /\ state_ = "RECHARGING_CYCLE" /\ charger_status # "Unknown" => reported = kFullSoc
  /\ state_ \in Ramps /\ charger_status # "Unknown" =>
       elapsed \in 0 .. kTransitionTime /\ reported = RemapSOC(level, elapsed)
  /\ OnBattery => state_ \in Ramps \cup {"INACTIVE"}

LEMMA RampReports ==
  ASSUME Inv, Ramp, charger_status' # "Unknown", gap' \in Gaps
  PROVE  ReportedInv'
<1> DEFINE time == elapsed + gap'
<1>1. time \in Nat /\ kTransitionTime \in Nat
  BY TimeAssumption, TimeNat DEF Inv, TypeOK
<1>2. state_ \in Ramps /\ RampStep(time)
  BY DEF Ramp
<1>3. OnBattery' => ~Recovers(RemapSOC(level', time))
  BY DEF Recovers, OnBattery
<1> HIDE DEF time
<1>4. CASE Recovers(RemapSOC(level', time))
  BY <1>1, <1>2, <1>3, <1>4 DEF RampStep, ReportedInv, Recovers, Ramps
<1>5. CASE ~Recovers(RemapSOC(level', time))
  BY <1>1, <1>2, <1>5 DEF RampStep, ReportedInv, Ramps
<1> QED BY <1>4, <1>5

LEMMA ReportedKept == Inv /\ ReportedInv /\ [Next]_vars => ReportedInv'
<1> SUFFICES ASSUME Inv, ReportedInv, [Next]_vars PROVE ReportedInv'
  OBVIOUS
<1>1. CASE Update /\ Inactive
  BY <1>1 DEF Update, Sample, Statuses, Inactive, ReportedInv, Ramps
<1>2. CASE Update /\ (WaitEoc \/ RechargingCycle)
  <2>1. 0 \in 0 .. kTransitionTime
    BY TimeAssumption
  <2> QED BY <1>2, <2>1
       DEF Update, Sample, Statuses, WaitEoc, RechargingCycle, StartRamp, Ramps, ReportedInv, OnBattery
<1>3. CASE Update /\ Ramp
  BY <1>3, RampReports DEF Update, Sample, Statuses
<1>4. CASE UpdateFails
  BY <1>4 DEF UpdateFails, Sample, ReportedInv, OnBattery
<1>5. CASE UNCHANGED vars
  BY <1>5 DEF vars, ReportedInv, OnBattery
<1> QED BY <1>1, <1>2, <1>3, <1>4, <1>5 DEF Next, Update

LEMMA InitReported == Init => ReportedInv
  BY DEF Init, ReportedInv, Ramps

(* On battery updateBatteryProperties never reports more than at the poll  *)
(* before, whatever the time between the polls.                            *)
THEOREM NoRiseOnBattery == Spec => NeverRises
<1>1. Init => Inv /\ ReportedInv
  BY InitInv, InitReported
<1>2. Inv /\ ReportedInv /\ [Next]_vars => (Inv /\ ReportedInv)'
  BY StepInv, ReportedKept
<1>3. Inv /\ ReportedInv /\ [Next]_vars
        => [OnBattery /\ OnBattery' => reported' <= reported]_vars
  <2> SUFFICES ASSUME Inv, ReportedInv, Next, OnBattery, OnBattery'
               PROVE  reported' <= reported
    BY DEF vars
  <2>1. /\ level \in Levels /\ level' \in Levels /\ level' <= level /\ gap' \in Gaps
        /\ level \in Int /\ level' \in Int /\ level <= reported /\ reported \in Int
        /\ level <= kFullSoc /\ kFullSoc \in Int
    BY TimeAssumption DEF Next, Update, UpdateFails, Sample, OnBattery, Inv, TypeOK, NotBelowGauge, Levels
  <2>2. CASE state_ = "INACTIVE"
    <3>1. CASE level' < kFullSoc
      <4>1. reported' = level'
        BY <2>1, <2>2, <3>1 DEF Next, Update, UpdateFails, Inactive, WaitEoc, RechargingCycle, Ramp, Ramps
      <4> QED BY <2>1, <4>1
    <3>2. CASE level' >= kFullSoc
      <4>1. reported' <= kFullSoc /\ reported' \in Int
        BY TimeAssumption, StepInv DEF Inv, TypeOK, NotBelowGauge, Levels
      <4> QED BY <2>1, <3>2, <4>1
    <3> QED BY <2>1, <3>1, <3>2
  <2>3. CASE state_ \in Ramps
    <3>1. Ramp
      BY <2>3 DEF Next, Update, UpdateFails, Sample, OnBattery, Inactive, WaitEoc, RechargingCycle, Ramps
    <3>2. /\ elapsed \in 0 .. kTransitionTime /\ reported = RemapSOC(level, elapsed)
      BY <2>3 DEF ReportedInv, OnBattery
    <3>3. elapsed + gap' \in Nat /\ elapsed <= elapsed + gap'
      <4>1. gap' \in Nat /\ kTransitionTime \in Nat
        BY <2>1, TimeAssumption
      <4>2. elapsed \in Nat
        BY <3>2, <4>1
      <4>3. \A e, g \in Nat : e + g \in Nat /\ e <= e + g
        OBVIOUS
      <4> QED BY <4>1, <4>2, <4>3, Zenon
    <3>4. \/ reported' = level'
          \/ elapsed + gap' <= kTransitionTime /\ reported' = RemapSOC(level', elapsed + gap')
      BY <3>1, <3>3, TimeAssumption DEF Ramp, RampStep
    <3>5. CASE reported' = level'
      BY <2>1, <3>5
    <3>6. CASE elapsed + gap' <= kTransitionTime /\ reported' = RemapSOC(level', elapsed + gap')
      <4>1. elapsed + gap' \in 0 .. kTransitionTime
        BY <3>3, <3>6, TimeAssumption
      <4> QED BY <2>1, <3>2, <3>3, <3>6, <4>1, RemapFalls
    <3> QED BY <3>4, <3>5, <3>6
  <2> QED BY <2>2, <2>3 DEF ReportedInv
<1> QED BY <1>1, <1>2, <1>3, PTL DEF Spec, NeverRises

-----------------------------------------------------------------------------
(* What is less than a step apart after a product is in order before it.   *)
LEMMA Cancel ==
  ASSUME NEW n \in Nat \ {0}, NEW x \in Int, NEW y \in Int, n * x < n * y + n
  PROVE  x <= y
<1>1. SUFFICES ASSUME y + 1 <= x PROVE FALSE
  OBVIOUS
<1>2. PICK k \in Nat : x = y + 1 + k
  <2>1. x - y - 1 \in Nat /\ x = y + 1 + (x - y - 1)
    BY <1>1
  <2> QED BY <2>1
<1>3. n * x = n * y + n + n * k /\ n * k \in Nat /\ n * y \in Int
  BY <1>2, SMT
<1> QED BY <1>3

(* A quotient rounded to the nearest is within half of it.                 *)
LEMMA RoundNear ==
  ASSUME NEW n \in Nat \ {0}, NEW v \in Nat
  PROVE  LET q == (2 * v + n) \div (2 * n)
         IN  q \in Int /\ 2 * (n * q) <= 2 * v + n /\ 2 * v < 2 * (n * q) + n
<1> DEFINE q == (2 * v + n) \div (2 * n)
           r == (2 * v + n) % (2 * n)
<1>1. /\ 2 * n \in Nat \ {0} /\ 2 * v + n \in Nat
      /\ q \in Int /\ r \in 0 .. 2 * n - 1
      /\ 2 * v + n = (2 * n) * q + r
  BY SMT
<1>2. (2 * n) * q = 2 * (n * q) /\ n * q \in Int
  BY <1>1, SMT
<1> HIDE DEF q, r
<1>3. q \in Int /\ 2 * (n * q) <= 2 * v + n /\ 2 * v < 2 * (n * q) + n
  BY <1>1, <1>2
<1> QED BY <1>3 DEF q

(* A quotient rounded up is large enough.                                  *)
LEMMA RoundUp ==
  ASSUME NEW n \in Nat \ {0}, NEW x \in Nat
  PROVE  LET q == (x + n - 1) \div n IN q \in Nat /\ x <= n * q
<1> DEFINE q == (x + n - 1) \div n
           r == (x + n - 1) % n
<1>1. /\ x + n - 1 \in Nat /\ q \in Int /\ r \in 0 .. n - 1
      /\ x + n - 1 = n * q + r
  BY SMT
<1>2. n * q \in Int
  BY <1>1, SMT
<1>3. n * 0 = 0
  BY SMT
<1> HIDE DEF q, r
<1>4. x <= n * q /\ n * 0 < n * q + n
  BY <1>1, <1>2, <1>3
<1>5. 0 <= q
  BY <1>1, <1>4, Cancel
<1> QED BY <1>1, <1>4, <1>5 DEF q

(* How far the level of a transition is from a lower or higher one of the  *)
(* gauge, and from the level a poll later.                                 *)
LEMMA RemapDrop ==
  ASSUME NEW soc \in Levels, NEW low \in Levels, NEW time \in 0 .. kTransitionTime,
         NEW wait \in Nat, NEW drop \in Nat, soc - low <= drop,
         NEW share \in Nat, (kFullSoc - low) * wait <= kTransitionTime * share
  PROVE  /\ time + wait > kTransitionTime =>
              RemapSOC(soc, time) - low <= drop + share
         /\ time + wait <= kTransitionTime =>
              RemapSOC(soc, time) - RemapSOC(low, time + wait) <= drop + share
<1> DEFINE T == kTransitionTime
           w == soc * time + kFullSoc * (T - time)
           p == (2 * w + T) \div (2 * T)
<1>1. /\ soc \in Nat /\ low \in Nat /\ kFullSoc \in Nat
      /\ T \in Nat \ {0} /\ time \in Nat /\ time <= T
  BY TimeAssumption DEF Levels
<1>2. PICK a \in Nat : kFullSoc = low + a
  <2>1. kFullSoc - low \in Nat /\ kFullSoc = low + (kFullSoc - low)
    BY TimeAssumption DEF Levels
  <2> QED BY <2>1
<1>3. PICK b \in Nat : T = time + b
  <2>1. T - time \in Nat /\ T = time + (T - time)
    BY <1>1
  <2> QED BY <2>1
<1>4. PICK c \in Nat : soc = low + drop - c
  <2>1. low + drop - soc \in Nat /\ soc = low + drop - (low + drop - soc)
    BY <1>1
  <2> QED BY <2>1
<1>5. /\ low * T \in Nat /\ drop * time \in Nat /\ drop * b \in Nat /\ c * time \in Nat
      /\ a * b \in Nat /\ a * wait \in Nat /\ T * share \in Nat /\ T * drop \in Nat
  BY <1>1, ProductNat
<1>6. a * wait <= T * share
  BY <1>1, <1>2
<1>7. w = low * T + drop * time - c * time + a * b
  <2>1. w = soc * time + kFullSoc * b
    BY <1>1, <1>3, SMT
  <2>2. soc * time = low * time + drop * time - c * time /\ kFullSoc * b = low * b + a * b
    BY <1>1, <1>2, <1>4, SMT
  <2>3. low * T = low * time + low * b /\ low * time \in Nat /\ low * b \in Nat
    BY <1>1, <1>3, ProductNat, SMT
  <2> HIDE DEF w
  <2> QED BY <1>5, <2>1, <2>2, <2>3
<1>8. T * drop = drop * time + drop * b
  BY <1>1, <1>3, SMT
<1>9. soc * time \in Nat /\ kFullSoc * b \in Nat /\ w = soc * time + kFullSoc * b
  BY <1>1, <1>3, ProductNat, SMT
<1>10. w \in Nat
  BY <1>9
<1>11. p \in Int /\ 2 * (T * p) <= 2 * w + T
  BY <1>1, <1>10, RoundNear
<1>12. RemapSOC(soc, time) = p
  BY DEF RemapSOC
<1> HIDE DEF w, p, T
<1>13. ASSUME time + wait > T PROVE p - low <= drop + share
  <2>1. PICK k \in Nat : wait = b + k
    <3>1. wait - b \in Nat /\ wait = b + (wait - b)
      BY <1>1, <1>3, <1>13
    <3> QED BY <3>1
  <2>2. a * wait = a * b + a * k /\ a * k \in Nat
    BY <2>1, SMT
  <2>3. T * p \in Int /\ p - low \in Int /\ drop + share \in Int
    BY <1>1, <1>11, SMT
  <2>4. T * (p - low) = T * p - low * T /\ T * (drop + share) = T * drop + T * share
    BY <1>1, <1>11, SMT
  <2>5. T * (p - low) < T * (drop + share) + T
    BY <1>1, <1>5, <1>6, <1>7, <1>8, <1>10, <1>11, <2>2, <2>3, <2>4
  <2> QED BY <1>1, <2>3, <2>5, Cancel
<1>14. ASSUME time + wait <= T
       PROVE  p - RemapSOC(low, time + wait) <= drop + share
  <2> DEFINE v == low * (time + wait) + kFullSoc * (T - (time + wait))
             q == (2 * v + T) \div (2 * T)
  <2>1. PICK k \in Nat : b = wait + k
    <3>1. b - wait \in Nat /\ b = wait + (b - wait)
      BY <1>1, <1>3, <1>14
    <3> QED BY <3>1
  <2>2. a * b = a * wait + a * k /\ a * k \in Nat
    BY <2>1, SMT
  <2>3. v = low * T + a * k
    <3>1. time + wait \in Nat /\ T = time + wait + k
      BY <1>1, <1>3, <2>1
    <3>2. v = low * (time + wait) + kFullSoc * k
      BY <1>1, <3>1, SMT
    <3>3. kFullSoc * k = low * k + a * k /\ low * T = low * (time + wait) + low * k
      BY <1>1, <1>2, <3>1, SMT
    <3>4. low * k \in Nat /\ low * (time + wait) \in Nat
      BY <1>1, <3>1, ProductNat
    <3> HIDE DEF v
    <3> QED BY <1>5, <2>2, <3>2, <3>3, <3>4
  <2> HIDE DEF v
  <2>4. v \in Nat
    BY <1>5, <2>2, <2>3
  <2>5. q \in Int /\ 2 * v < 2 * (T * q) + T
    BY <1>1, <2>4, RoundNear
  <2>6. RemapSOC(low, time + wait) = q
    BY DEF RemapSOC, v, T
  <2> HIDE DEF q
  <2>7. /\ T * p \in Int /\ T * q \in Int /\ p - q \in Int /\ drop + share \in Int
        /\ T * (p - q) = T * p - T * q /\ T * (drop + share) = T * drop + T * share
    BY <1>1, <1>11, <2>5, SMT
  <2>8. T * (p - q) < T * (drop + share) + T
    BY <1>1, <1>5, <1>6, <1>7, <1>8, <1>10, <1>11, <2>2, <2>3, <2>4, <2>5, <2>7
  <2>9. p - q <= drop + share
    BY <1>1, <2>7, <2>8, Cancel
  <2> QED BY <2>6, <2>9
<1> QED BY <1>12, <1>13, <1>14 DEF T

(* What a poll that could read the status reports.                         *)
LEMMA PollReports ==
  ASSUME Inv, Next, charger_status' # "Unknown"
  PROVE  /\ state_ = "RECHARGING_CYCLE" => reported' = kFullSoc
         /\ state_ \in Ramps =>
              \/ elapsed + gap' > kTransitionTime /\ reported' = level'
              \/ reported' = RemapSOC(level', elapsed + gap')
<1>1. Update
  BY DEF Next, UpdateFails, Sample
<1>2. RemapSOC(level', 0) = kFullSoc
  <2>1. level' \in Levels /\ kFullSoc \in Levels /\ kFullSoc \in Nat /\ level' \in Nat
    BY <1>1, TimeAssumption DEF Update, Sample, Levels
  <2>2. 0 \in 0 .. kTransitionTime /\ kTransitionTime \in Nat \ {0}
    BY TimeAssumption
  <2>3. RemapSOC(level', 0) \in level' .. kFullSoc
    BY <2>1, RampStart
  <2>4. kFullSoc * kTransitionTime \in Nat /\ level' * 0 = 0
    <3>1. \A x \in Nat : x * 0 = 0
      BY SMT
    <3> QED BY <2>1, <2>2, <3>1, ProductNat, Zenon
  <2>5. RemapSOC(level', 0)
          = (2 * (kFullSoc * kTransitionTime) + kTransitionTime) \div (2 * kTransitionTime)
    BY <2>2, <2>4 DEF RemapSOC
  <2>6. RemapSOC(level', 0) \in kFullSoc .. kFullSoc
    BY <2>1, <2>2, <2>4, <2>5, RoundBounds
  <2> QED BY <2>1, <2>6
<1>3. state_ = "RECHARGING_CYCLE" => reported' = kFullSoc
  BY <1>1, <1>2 DEF Update, Inactive, WaitEoc, RechargingCycle, StartRamp, Ramp, Ramps
<1>4. ASSUME state_ \in Ramps
      PROVE  \/ elapsed + gap' > kTransitionTime /\ reported' = level'
             \/ reported' = RemapSOC(level', elapsed + gap')
  <2>1. RampStep(elapsed + gap')
    BY <1>1, <1>4 DEF Update, Inactive, WaitEoc, RechargingCycle, Ramp, Ramps
  <2> QED BY <2>1 DEF RampStep
<1> QED BY <1>3, <1>4

(* From one report r to the next one s, with the gauge at soc and low.     *)
LEMMA ReportFalls ==
  ASSUME NEW soc \in Levels, NEW low \in Levels, NEW wait \in Nat,
         NEW r \in Levels, NEW s \in Levels, low <= s,
         \/ r = soc
         \/ r <= s
         \/ \E e \in 0 .. kTransitionTime :
              /\ r = RemapSOC(soc, e)
              /\ e + wait > kTransitionTime \/ s = RemapSOC(low, e + wait)
  PROVE  r - s <= (IF low < soc THEN soc - low ELSE 0)
                    + (((kFullSoc - low) * wait + kTransitionTime - 1) \div kTransitionTime)
<1> DEFINE drop == IF low < soc THEN soc - low ELSE 0
           share == ((kFullSoc - low) * wait + kTransitionTime - 1) \div kTransitionTime
<1>1. /\ soc \in Int /\ low \in Int /\ r \in Int /\ s \in Int
      /\ kTransitionTime \in Nat \ {0} /\ kFullSoc - low \in Nat
  BY TimeAssumption DEF Levels
<1>2. drop \in Nat /\ soc - low <= drop
  BY <1>1
<1>3. share \in Nat /\ (kFullSoc - low) * wait <= kTransitionTime * share
  <2>1. (kFullSoc - low) * wait \in Nat
    BY <1>1, ProductNat
  <2> QED BY <1>1, <2>1, RoundUp
<1> HIDE DEF drop, share
<1>4. r = soc \/ r <= s => r - s <= drop + share
  BY <1>1, <1>2, <1>3
<1>5. ASSUME NEW e \in 0 .. kTransitionTime, r = RemapSOC(soc, e),
             e + wait > kTransitionTime \/ s = RemapSOC(low, e + wait)
      PROVE  r - s <= drop + share
  <2>1. /\ e + wait > kTransitionTime => r - low <= drop + share
        /\ e + wait <= kTransitionTime => r - RemapSOC(low, e + wait) <= drop + share
    BY <1>2, <1>3, <1>5, RemapDrop
  <2>2. CASE e + wait > kTransitionTime
    BY <1>1, <1>2, <1>3, <2>1, <2>2
  <2>3. CASE ~(e + wait > kTransitionTime)
    <3>1. e + wait <= kTransitionTime
      BY <1>1, <2>3
    <3> QED BY <1>5, <2>1, <2>3, <3>1
  <2> QED BY <2>2, <2>3
<1>6. r - s <= drop + share
  BY <1>4, <1>5, Zenon
<1> QED BY <1>6 DEF drop, share

(* The level reported by updateBatteryProperties has no cliffs, however    *)
(* long the transition and however irregular the polls: it falls by no     *)
(* more than the gauge and the elapsed share of the transition explain.    *)
THEOREM NoCliffs == Spec => NoCliff
<1>1. Init => Inv /\ ReportedInv
  BY InitInv, InitReported
<1>2. Inv /\ ReportedInv /\ [Next]_vars => (Inv /\ ReportedInv)'
  BY StepInv, ReportedKept
<1>3. Inv /\ ReportedInv /\ [Next]_vars
        => [charger_status' # "Unknown" => reported - reported' <= Drop + Share]_vars
  <2> SUFFICES ASSUME Inv, ReportedInv, Next, charger_status' # "Unknown"
               PROVE  reported - reported' <= Drop + Share
    BY DEF vars
  <2>1. gap' \in Nat
    BY TimeAssumption DEF Next, Update, UpdateFails, Sample
  <2>2. level \in Levels /\ reported \in Levels
    BY DEF Inv, TypeOK
  <2>3. level' \in Levels /\ reported' \in Levels /\ level' <= reported'
    BY StepInv DEF Inv, TypeOK, NotBelowGauge
  <2>4. CASE reported = level
    BY <2>1, <2>2, <2>3, <2>4, ReportFalls DEF Drop, Share
  <2>5. CASE state_ = "RECHARGING_CYCLE" /\ charger_status # "Unknown"
    <3>1. reported = kFullSoc /\ reported' = kFullSoc
      BY <2>5, PollReports DEF ReportedInv
    <3>2. reported <= reported'
      BY <3>1, TimeAssumption
    <3> QED BY <2>1, <2>2, <2>3, <3>2, ReportFalls DEF Drop, Share
  <2>6. CASE state_ \in Ramps /\ charger_status # "Unknown"
    <3>1. elapsed \in 0 .. kTransitionTime /\ reported = RemapSOC(level, elapsed)
      BY <2>6 DEF ReportedInv
    <3>2. elapsed + gap' > kTransitionTime \/ reported' = RemapSOC(level', elapsed + gap')
      BY <2>6, PollReports
    <3> QED BY <2>1, <2>2, <2>3, <3>1, <3>2, ReportFalls DEF Drop, Share
  <2> QED BY <2>4, <2>5, <2>6 DEF ReportedInv, Inv, TypeOK
<1> QED BY <1>1, <1>2, <1>3, PTL DEF Spec, NoCliff

-----------------------------------------------------------------------------
(* The report has reached the gauge's level for good, and the time it is   *)
(* away from that.                                                         *)
Settled == state_ = "INACTIVE" /\ level < kFullSoc /\ reported = level
SettleLeft == IF state_ \in Ramps THEN kTransitionTime + 2 - elapsed
              ELSE IF Settled THEN 0
              ELSE kTransitionTime + 3

(* On battery a report at the gauge's level stays there; any other comes   *)
(* nearer to it with every poll, by at least the time that has passed,     *)
(* unless the gauge still measures 100% as the report says.                *)
Settles ==
  [][OnBattery' => /\ Settled => Settled'
                   /\ \/ level' = kFullSoc /\ reported' = level'
                      \/ Settled'
                      \/ /\ SettleLeft' \in 1 .. SettleLeft
                         /\ gap' > 0 => SettleLeft' < SettleLeft]_vars

(* A poll on battery either ends at the gauge's level, or starts or        *)
(* continues a transition.                                                 *)
LEMMA BatteryPoll ==
  ASSUME Inv, Next, OnBattery'
  PROVE  /\ Settled => Settled'
         /\ \/ level' = kFullSoc
            \/ Settled'
            \/ state_ \notin Ramps /\ ~Settled /\ state_' \in Ramps /\ elapsed' = 0
            \/ /\ state_ \in Ramps /\ state_' \in Ramps
               /\ elapsed' = elapsed + gap' /\ elapsed + gap' <= kTransitionTime
<1>1. Update /\ charger_status' = "Discharging" /\ level' <= level /\ level' \in Levels
  BY DEF Next, Update, UpdateFails, Sample, OnBattery
<1>2. level' \in Nat /\ level \in Nat /\ kFullSoc \in Nat /\ level' <= kFullSoc
  BY <1>1, TimeAssumption DEF Inv, TypeOK, Levels
<1> USE DEF Settled, Ramps
<1>3. CASE Inactive
  BY <1>3 DEF Inactive
<1>4. CASE WaitEoc
  BY <1>1, <1>2, <1>4 DEF WaitEoc, StartRamp
<1>5. CASE RechargingCycle
  BY <1>1, <1>5 DEF RechargingCycle, StartRamp
<1>6. CASE Ramp
  <2> DEFINE time == elapsed + gap'
  <2>1. state_ \in Ramps /\ RampStep(time)
    BY <1>6 DEF Ramp
  <2>2. time \in Nat /\ kTransitionTime \in Nat
    BY <1>1, TimeAssumption, TimeNat DEF Inv, TypeOK, Update, Sample
  <2>3. \/ state_' = "INACTIVE" /\ reported' = level'
        \/ ~(time > kTransitionTime) /\ UNCHANGED state_ /\ elapsed' = time
    BY <1>1, <2>1 DEF RampStep, Recovers
  <2> HIDE DEF time
  <2>4. \/ state_' = "INACTIVE" /\ reported' = level'
        \/ time <= kTransitionTime /\ UNCHANGED state_ /\ elapsed' = time
    BY <2>2, <2>3
  <2> QED
    BY <1>2, <2>1, <2>4 DEF time
<1> QED
  BY <1>1, <1>3, <1>4, <1>5, <1>6 DEF Update

(* Converges without the fairness: on battery the report needs no more     *)
(* than a transition, counted from the first poll that finds the gauge     *)
(* below 100%, to reach the gauge's level, and stays there.                *)
THEOREM ReportSettles == Spec => Settles
<1>1. Inv /\ ReportedInv /\ [Next]_vars
        => [OnBattery' => /\ Settled => Settled'
                          /\ \/ level' = kFullSoc /\ reported' = level'
                             \/ Settled'
                             \/ /\ SettleLeft' \in 1 .. SettleLeft
                                /\ gap' > 0 => SettleLeft' < SettleLeft]_vars
  <2> SUFFICES ASSUME Inv, ReportedInv, Next, OnBattery'
               PROVE  /\ Settled => Settled'
                      /\ \/ level' = kFullSoc /\ reported' = level'
                         \/ Settled'
                         \/ /\ SettleLeft' \in 1 .. SettleLeft
                            /\ gap' > 0 => SettleLeft' < SettleLeft
    BY DEF vars
  <2>1. level' = kFullSoc => reported' = level'
    BY StepInv, TimeAssumption DEF Inv, TypeOK, NotBelowGauge, Levels
  <2>2. kTransitionTime \in Nat /\ elapsed \in 0 .. kTransitionTime + 1 /\ gap' \in Nat
    BY TimeAssumption DEF Inv, TypeOK, Next, Update, UpdateFails, Sample
  <2>3. CASE state_ \notin Ramps /\ ~Settled /\ state_' \in Ramps /\ elapsed' = 0
    <3>1. SettleLeft = kTransitionTime + 3 /\ SettleLeft' = kTransitionTime + 2
      BY <2>2, <2>3 DEF SettleLeft
    <3> QED
      BY <2>2, <2>3, <3>1, BatteryPoll
  <2>4. CASE /\ state_ \in Ramps /\ state_' \in Ramps
             /\ elapsed' = elapsed + gap' /\ elapsed + gap' <= kTransitionTime
    <3>1. /\ SettleLeft = kTransitionTime + 2 - elapsed
          /\ SettleLeft' = kTransitionTime + 2 - (elapsed + gap')
      BY <2>4 DEF SettleLeft
    <3>2. elapsed \in Nat /\ elapsed + gap' <= kTransitionTime
      BY <2>2, <2>4, TimeNat, Zenon
    <3>3. \A T, e, g \in Nat : e + g <= T =>
            /\ T + 2 - (e + g) \in 1 .. (T + 2 - e)
            /\ g > 0 => T + 2 - (e + g) < T + 2 - e
      OBVIOUS
    <3>4. SettleLeft' \in 1 .. SettleLeft /\ (gap' > 0 => SettleLeft' < SettleLeft)
      BY <2>2, <3>1, <3>2, <3>3, Zenon
    <3> QED
      BY <3>4, BatteryPoll
  <2> QED
    BY <2>1, <2>3, <2>4, BatteryPoll
<1>2. Init => Inv /\ ReportedInv
  BY InitInv, InitReported
<1>3. Inv /\ ReportedInv /\ [Next]_vars => (Inv /\ ReportedInv)'
  BY StepInv, ReportedKept
<1> QED
  BY <1>1, <1>2, <1>3, PTL DEF Spec, Settles
=============================================================================
