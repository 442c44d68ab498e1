-------------------------- MODULE BatteryRecharging --------------------------
(***************************************************************************)
(* BatteryRechargingControl of the health HAL: every time healthd polls    *)
(* the battery, updateBatteryProperties replaces the level of the fuel     *)
(* gauge by the level that is reported.  Once the battery was full it      *)
(* reports 100% through the recharging cycles; when the power goes, or the *)
(* load exceeds the charger, the reported level moves to the gauge's       *)
(* within kTransitionTime.                                                 *)
(*                                                                         *)
(* The code's doubles are modelled by exact arithmetic.  "Discharging"     *)
(* stands for every status but Full and Charging.                          *)
(***************************************************************************)
EXTENDS Integers

CONSTANTS kTransitionTime,  \* duration of a transition
          kFullSoc,         \* 100
          MinSoc,           \* bound: the lowest level of the gauge
          Gaps              \* times between two polls

ASSUME TimeAssumption == /\ kTransitionTime \in Nat \ {0}
                         /\ kFullSoc \in Nat /\ MinSoc \in 0 .. kFullSoc
                         /\ Gaps \subseteq Nat

Levels == MinSoc .. kFullSoc
Statuses == {"Full", "Charging", "Discharging"}
Ramps == {"OVER_LOADING", "NO_POWER_SOURCE"}

VARIABLES
  level,          \* the fuel gauge's level at the last poll
  charger_status, \* the charger's status then; "Unknown": it could not be read
  gap,            \* the time since the poll before
  reported,       \* props->batteryLevel on return
  state_,
  elapsed,        \* the time since start_time_, kept in the states that read it
  recharge_soc_,
  kept            \* history: line 158 was taken, and since then the charger
                  \* is connected and the gauge has not fallen

vars == <<level, charger_status, gap, reported, state_, elapsed, recharge_soc_, kept>>

TypeOK == /\ level \in Levels
          /\ charger_status \in Statuses \cup {"Unknown"}
          /\ gap \in Gaps \cup {0}
          /\ reported \in Levels
          /\ state_ \in Ramps \cup {"INACTIVE", "WAIT_EOC", "RECHARGING_CYCLE"}
          /\ elapsed \in 0 .. kTransitionTime + 1
          /\ recharge_soc_ \in Levels \cup {0}
          /\ kept \in BOOLEAN

(* Before the first poll.                                                  *)
Init == /\ level \in Levels /\ charger_status \in Statuses
        /\ gap = 0
        /\ reported = level
        /\ state_ = "INACTIVE" /\ elapsed = 0 /\ recharge_soc_ = 0
        /\ kept = FALSE

RemapSOC_up(soc, time) ==
  (2 * (kFullSoc * time + soc * (kTransitionTime - time)) + kTransitionTime)
    \div (2 * kTransitionTime)

(* At a time after start_time_: round(soc * t/T + 100 * (1 - t/T)).        *)
RemapSOC(soc, time) ==
  (2 * (soc * time + kFullSoc * (kTransitionTime - time)) + kTransitionTime)
    \div (2 * kTransitionTime)

OnPower == charger_status \in {"Full", "Charging"}

(* The gauge does not rise on battery.                                     *)
Sample(statuses) == /\ level' \in Levels
                    /\ charger_status' \in statuses
                    /\ gap' \in Gaps
                    /\ charger_status' = "Discharging" => level' <= level

(* start_time_ is now: the reported level starts at 100%.                  *)
StartRamp(state) == /\ state_' = state
                    /\ elapsed' = 0
                    /\ reported' = RemapSOC(level', 0)

Inactive == /\ state_ = "INACTIVE" /\ level' < kFullSoc
            /\ reported' = level'
            /\ UNCHANGED <<state_, elapsed, recharge_soc_>>

(* INACTIVE falls through to WAIT_EOC.                                     *)
WaitEoc == /\ \/ state_ = "INACTIVE" /\ level' >= kFullSoc
              \/ state_ = "WAIT_EOC"
           /\ recharge_soc_' = IF state_ = "INACTIVE" THEN 0 ELSE recharge_soc_
           /\ \/ /\ charger_status' = "Full"
                 /\ state_' = "RECHARGING_CYCLE"
                 /\ reported' = kFullSoc
                 /\ UNCHANGED elapsed
              \/ /\ charger_status' = "Charging"
                 /\ state_' = "WAIT_EOC"
                 /\ reported' = level'
                 /\ UNCHANGED elapsed
              \/ /\ charger_status' = "Discharging"
                 /\ StartRamp("NO_POWER_SOURCE")

(* The gauge fell below the level the recharging started at.               *)
Overloaded == recharge_soc_ # 0 /\ level' < recharge_soc_

RechargingCycle == /\ state_ = "RECHARGING_CYCLE"
                   /\ \/ /\ charger_status' = "Full"
                         /\ recharge_soc_' = 0
                         /\ reported' = kFullSoc
                         /\ UNCHANGED <<state_, elapsed>>
                      \/ /\ charger_status' = "Charging" /\ ~Overloaded
                         /\ recharge_soc_' = IF recharge_soc_ = 0 THEN level' ELSE recharge_soc_
                         /\ reported' = kFullSoc
                         /\ UNCHANGED <<state_, elapsed>>
                      \/ /\ charger_status' = "Charging" /\ Overloaded
                         /\ StartRamp("OVER_LOADING")
                         /\ UNCHANGED recharge_soc_
                      \/ /\ charger_status' = "Discharging"
                         /\ StartRamp("NO_POWER_SOURCE")
                         /\ UNCHANGED recharge_soc_

(* The charger is back before the reported level left 100%.                *)
Recovers_anywhere(remapped) == charger_status' = "Charging" /\ level' >= recharge_soc_
Recovers(remapped) == /\ charger_status' = "Charging"
                      /\ remapped = kFullSoc /\ level' >= recharge_soc_

RampStep_endless(time) ==
  LET remapped == RemapSOC(level', time)
      over == remapped = level' /\ remapped # kFullSoc
  IN \/ /\ over
        /\ state_' = "INACTIVE" /\ elapsed' = 0
        /\ reported' = level'
        /\ UNCHANGED recharge_soc_
     \/ /\ ~over
        /\ reported' = remapped
        /\ IF Recovers(remapped)
             THEN state_' = "RECHARGING_CYCLE" /\ recharge_soc_' = remapped /\ elapsed' = 0
             ELSE elapsed' = time /\ UNCHANGED <<state_, recharge_soc_>>

(* OVER_LOADING and NO_POWER_SOURCE                                        *)
RampStep(time) ==
  LET remapped == RemapSOC(level', time)
      over == time > kTransitionTime \/ (remapped = level' /\ remapped # kFullSoc)
  IN \/ /\ over
        /\ state_' = "INACTIVE" /\ elapsed' = 0
        /\ reported' = level'
        /\ UNCHANGED recharge_soc_
     \/ /\ ~over
        /\ reported' = remapped
        /\ IF Recovers(remapped)
             THEN state_' = "RECHARGING_CYCLE" /\ recharge_soc_' = remapped /\ elapsed' = 0
             ELSE elapsed' = time /\ UNCHANGED <<state_, recharge_soc_>>

Ramp_restarts == state_ \in Ramps /\ RampStep(gap')
Ramp == state_ \in Ramps /\ RampStep(elapsed + gap')

Keep == kept' = /\ OnPower'
                /\ level' >= level
                /\ kept \/ (state_ \in Ramps /\ state_' = "RECHARGING_CYCLE")

Update == Sample(Statuses) /\ (Inactive \/ WaitEoc \/ RechargingCycle \/ Ramp) /\ Keep

(* The level of the gauge is passed on; time goes by.                      *)
UpdateFails == /\ Sample({"Unknown"})
               /\ reported' = level'
               /\ Keep
               /\ IF state_ \in Ramps
                    THEN elapsed' = IF elapsed + gap' > kTransitionTime THEN kTransitionTime + 1
                                                                        ELSE elapsed + gap'
                    ELSE UNCHANGED elapsed
               /\ UNCHANGED <<state_, recharge_soc_>>

Next == Update \/ UpdateFails

(* healthd polls for ever and time passes between polls.                   *)
Spec == Init /\ [][Next]_vars /\ WF_vars(Update /\ gap' > 0)

-----------------------------------------------------------------------------
(* What is reported is never below the gauge: no shutdown for a low level  *)
(* that is not there, and never a level above full.                        *)
NotBelowGauge == reported >= level /\ reported <= kFullSoc

(* From one poll on battery to the next the reported level never rises.    *)
OnBattery == charger_status = "Discharging"
NeverRises == [][OnBattery /\ OnBattery' => reported' <= reported]_vars

(* The reported level has no cliffs: in a poll that could read the status  *)
(* it falls by no more than the gauge fell and the share of the transition *)
(* that has passed.                                                        *)
Drop == IF level' < level THEN level - level' ELSE 0
Share == ((kFullSoc - level') * gap' + kTransitionTime - 1) \div kTransitionTime
NoCliff ==
  [][charger_status' # "Unknown" => reported - reported' <= Drop + Share]_vars

(* A recharging cycle is invisible to the user while the status is known.  *)
CycleHidden ==
  state_ = "RECHARGING_CYCLE" /\ charger_status # "Unknown" => reported = kFullSoc

(* On battery the report ends up at the gauge's level and stays there.      *)
Converges == <>[]OnBattery => <>[](reported = level)

(* "Change condition to Recharging cycle to avoid the SOC show lower than  *)
(* 100%. (Keep 100%)": a charger that is back in time keeps the 100%.      *)
KeepsFull == kept => reported = kFullSoc
=============================================================================
