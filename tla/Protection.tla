----------------------------- MODULE Protection -----------------------------
(***************************************************************************)
(* What the CM0+ does for the heater and the compressor's drive every      *)
(* millisecond, user_funtion.c: taking the vehicle's command, confirming   *)
(* faults, switching the heater and telling the CM4 the fault word.        *)
(*                                                                         *)
(* Task_1ms_cycle is one action.  Its measured values are taken only every *)
(* Period passes, by getDebugInfoData_100ms; the fault counters count      *)
(* passes all the same.  The CM4 obeys a command and a fault word well     *)
(* within that time (IpcMailbox, FocDrive), so that the drive is in run    *)
(* at a reading only if the last word was empty and run is commanded.      *)
(* Speed and power set points, the heater's duty cycle and the faults that *)
(* follow from its own current are left out; so is the reduction of speed  *)
(* by power, which Cal_DiagPwrOvDnSpdEn switches off in this build.        *)
(***************************************************************************)
EXTENDS Integers

CONSTANTS
  Period,                \* passes between two readings of the measured values
  Tout,                  \* Cal_DiagCanCommLostTout
  Cfm, Rec,              \* Cal_DiagTmpFltCfmDelay, Cal_DiagTmpFltRecDelay
  TempLimit, DryLimit,   \* Cal_DiagTfTmpAutoRecLimit, Cal_DiagDryBrnAutoRecLimit
  VCfm, VRec,            \* Cal_DiagDcBusOv- and UvCfmDelay, Cal_DiagDcBusFltRecDelay
  ICfm,                  \* Cal_DiagPhCurCfmDelay
  PCfm, PLimit,          \* Cal_DiagPwrOvFltCfm, Cal_DiagPwrOvAutoRecLimit
  RstrtDelay, RstDelay,  \* Cal_DiagPwrOvFltRstrtDelay, Cal_DiagPwrOvFltRstDelay
  Families,              \* the measured values that may be disturbed, one kind a behaviour
  ClearsAnyTime          \* the vehicle clears faults in a frame that commands run, or when the
                         \* attempts after over-power are used up or the drive is locked

ASSUME ProtectionAssumption ==
  /\ {Period, Tout, Cfm, Rec, TempLimit, DryLimit, VCfm, VRec, ICfm, PCfm, PLimit,
      RstrtDelay, RstDelay} \subseteq Nat \ {0}
  /\ ClearsAnyTime \in BOOLEAN

Sensors == {"in", "out", "pcb"}
Min2(a, b) == IF a < b THEN a ELSE b

VARIABLES
  frame, rx,   \* the last 0x20A frame, and whether it is new
  cmd,         \* control_cmd
  can,         \* the time since the last frame, and ERR_OUTCAN
  temp,        \* for each sensor its reading, counters and faults
  lock,        \* OvTemp_Lock_Count
  dry,         \* the outlet's lead over the inlet, and the dry-burn protection
  bus,         \* the supply of the power stage, and its faults
  phase,       \* the phase current, and OvSoftRmsCurrent
  power,       \* the compressor's power, and PowerOverFault
  running,     \* MotorState is run
  heating,     \* MAIN_SWITCH_ENABLE
  sent,        \* the fault word last sent to the CM4 is not zero
  slow,        \* count_500
  family,      \* what is disturbed in this behaviour
  burnt, spun  \* history: passes that a hazard has been heated, or driven, through

vars == <<frame, rx, cmd, can, temp, lock, dry, bus, phase, power, running, heating, sent,
          slow, family, burnt, spun>>
HeaterHazards == {"in", "out", "broken", "steep", "low", "silent"}
DriveHazards == {"pcb", "low", "high", "silent", "current", "power"}

Init ==
  /\ frame = [run |-> FALSE, ptc |-> FALSE, clear |-> FALSE] /\ rx = FALSE
  /\ cmd = [run |-> FALSE, ptc |-> FALSE] /\ can = [count |-> 0, lost |-> FALSE]
  /\ temp = [s \in Sensors |-> [reading |-> "ok", hot |-> 0, cool |-> 0, over |-> FALSE,
                                off |-> 0, broken |-> FALSE]]
  /\ lock = 0
  /\ dry = [reading |-> "small", steep |-> 0, small |-> 0, result |-> FALSE, fault |-> FALSE,
            count |-> 0]
  /\ bus = [reading |-> "low", over |-> 0, overBack |-> 0, under |-> 0, underBack |-> 0,
            ov |-> FALSE, uv |-> FALSE]
  /\ phase = [high |-> FALSE, count |-> 0, fault |-> FALSE]
  /\ power = [zone |-> 0, over |-> 0, restart |-> 0, count |-> 0, lockTime |-> 0, quiet |-> 0,
              locked |-> FALSE, fault |-> FALSE]
  /\ running = FALSE /\ heating = FALSE /\ sent = FALSE /\ slow = 0
  /\ family \in Families
  /\ burnt = [h \in HeaterHazards |-> 0] /\ spun = [h \in DriveHazards |-> 0]

-----------------------------------------------------------------------------
(* The command and the bus to the vehicle. *)

\* Mutant of Heard: every pass that applies the last frame counts as its arrival.
HeardAlways == [count |-> 0, lost |-> FALSE]
\* A frame is new once only, but its command and its clear bit are applied by every pass.
Heard == IF rx THEN [count |-> 0, lost |-> FALSE] ELSE can
RecDataAnalyze ==
  /\ cmd' = [run |-> frame.run, ptc |-> frame.ptc]
  /\ rx' = FALSE

Can_Communication_OvTime_Detect ==
  can' = IF Heard.count >= Tout THEN [Heard EXCEPT !.lost = TRUE]
         ELSE [Heard EXCEPT !.count = @ + 1]

-----------------------------------------------------------------------------
(* Temperatures.  "warm" lies within the hysteresis; an open sensor reads  *)
(* cold, a shorted one too hot to be believed.                             *)

Cool == {"ok", "open"}
Broken == {"open", "short"}

Checked(t) ==
  IF t.reading \notin Broken THEN [t EXCEPT !.off = 0, !.broken = FALSE]
  ELSE [t EXCEPT !.off = (@ + 1) % Cfm, !.broken = @ \/ t.off + 1 = Cfm]

Confirms(t) == t.reading = "hot" /\ t.hot + 1 = Cfm
\* Mutant of Overheat: the count of trips is not looked at.
OverheatForgiven(t, trips, mayRecover) ==
  IF t.reading = "hot"
  THEN [t EXCEPT !.hot = (@ + 1) % Cfm, !.over = @ \/ (trips /\ Confirms(t))]
  ELSE IF t.over /\ t.reading \in Cool
  THEN IF t.cool + 1 >= Rec THEN [t EXCEPT !.cool = 0, !.over = FALSE]
       ELSE [t EXCEPT !.cool = Min2(@ + 1, Rec)]
  ELSE [t EXCEPT !.hot = 0, !.cool = 0]
\* trips: a confirmed overheating is a fault; mayRecover: it may go by itself.
Overheat(t, trips, mayRecover) ==
  IF t.reading = "hot"
  THEN [t EXCEPT !.hot = (@ + 1) % Cfm, !.over = @ \/ (trips /\ Confirms(t))]
  ELSE IF t.over /\ t.reading \in Cool
  THEN IF t.cool + 1 >= Rec /\ mayRecover THEN [t EXCEPT !.cool = 0, !.over = FALSE]
       ELSE [t EXCEPT !.cool = Min2(@ + 1, Rec)]
  ELSE [t EXCEPT !.hot = 0, !.cool = 0]
\* Inlet and outlet share the count of trips, the inlet comes first.
Trip(s) == IF Confirms(temp[s]) /\ cmd'.ptc /\ ~temp[s].over THEN 1 ELSE 0
Err_event_temple(s, locks) ==
  IF s = "pcb" THEN Overheat(temp[s], TRUE, TRUE)
  ELSE Overheat(Checked(temp[s]), cmd'.ptc, locks < TempLimit)
LockCount == lock' = lock + Trip("in") + Trip("out")
Temperatures(s) == Err_event_temple(s, IF s = "out" THEN lock + Trip("in") ELSE lock)

\* The outlet is too much hotter than the inlet, or colder: steep.
OutAndIn ==
  LET steep == dry.reading = "steep"
      calm  == dry.reading = "small" /\ dry.result
      over  == calm /\ dry.small + 1 >= Cfm
  IN [dry EXCEPT
        !.steep = IF steep THEN Min2(@ + 1, Cfm) ELSE 0,
        !.small = IF calm /\ ~over THEN @ + 1 ELSE 0,
        !.result = (@ \/ (steep /\ dry.steep + 1 >= Cfm)) /\ ~over]
TempOffsetDetect ==
  LET d == OutAndIn IN
  IF d.result
  THEN IF cmd'.ptc /\ ~d.fault THEN [d EXCEPT !.count = @ + 1, !.fault = TRUE] ELSE d
  ELSE IF d.count < DryLimit THEN [d EXCEPT !.fault = FALSE] ELSE d

-----------------------------------------------------------------------------
(* Supply, current and power. *)

Err_event_vol ==
  LET start == cmd'.run \/ cmd'.ptc
      b == IF bus.reading = "high"
           THEN [bus EXCEPT !.over = (@ + 1) % VCfm, !.ov = @ \/ bus.over + 1 = VCfm]
           ELSE IF bus.reading # "swell" /\ bus.ov
           THEN [bus EXCEPT !.overBack = (@ + 1) % VRec, !.ov = bus.overBack + 1 # VRec]
           ELSE [bus EXCEPT !.over = 0, !.overBack = 0]
  IN IF bus.reading = "low" /\ start
     THEN [b EXCEPT !.under = (@ + 1) % VCfm, !.uv = @ \/ bus.under + 1 = VCfm]
     ELSE IF bus.reading \notin {"low", "sag"} /\ bus.uv
     THEN [b EXCEPT !.underBack = (@ + 1) % VRec, !.uv = bus.underBack + 1 # VRec]
     ELSE [b EXCEPT !.under = 0, !.underBack = 0]

\* Latched: only the clear bit of a frame takes it back.
COM_CurrRMSDetect ==
  LET p == [phase EXCEPT !.fault = @ /\ ~frame.clear] IN
  IF ~running \/ ~phase.high THEN [p EXCEPT !.count = 0]
  ELSE IF phase.count > ICfm THEN [p EXCEPT !.count = 0, !.fault = TRUE]
  ELSE [p EXCEPT !.count = @ + 1]

\* Mutant of Waits: one attempt too few, so that the lock, which would end, is never reached.
WaitsShort(p) == p.fault /\ ~p.locked /\ p.count + 1 < PLimit
Waits(p) == p.fault /\ ~p.locked /\ p.count < PLimit
\* The drive does not run: the time to its next attempt, or to the end of the lock.
PowerStopped(p) ==
  LET due == Waits(p) /\ p.restart + 1 >= RstrtDelay
      unlocks == p.locked /\ p.lockTime + 1 >= RstDelay
  IN [p EXCEPT !.over = 0, !.quiet = 0,
        !.fault = @ /\ ~due, !.restart = IF Waits(p) /\ ~due THEN @ + 1 ELSE 0,
        !.count = IF unlocks THEN 0 ELSE IF due THEN @ + 1 ELSE @,
        !.locked = @ /\ ~unlocks,
        !.lockTime = IF unlocks THEN 0 ELSE IF p.locked THEN @ + 1 ELSE @]
\* Mutant of PowerAbove: when it locks it does not raise the fault.
PowerAboveLocks(p) ==
  LET confirmed == p.over + 1 >= PCfm
      locks == confirmed /\ p.count >= PLimit
  IN [p EXCEPT !.over = Min2(@ + 1, PCfm), !.quiet = 0, !.fault = @ \/ (confirmed /\ ~locks),
        !.locked = locks, !.count = IF locks THEN 0 ELSE @]
\* Above the limit: once confirmed a fault, and a lock when the attempts are used up.
PowerAbove(p) ==
  LET confirmed == p.over + 1 >= PCfm
      locks == confirmed /\ p.count >= PLimit
  IN [p EXCEPT !.over = Min2(@ + 1, PCfm), !.quiet = 0, !.fault = @ \/ confirmed,
        !.locked = locks, !.count = IF locks THEN 0 ELSE @]
PowerBelow(p) ==
  LET calm == p.quiet + 1 >= RstDelay
  IN [p EXCEPT !.over = 0, !.quiet = IF calm THEN 0 ELSE @ + 1,
        !.count = IF calm THEN 0 ELSE @, !.fault = FALSE, !.lockTime = 0]
COM_PowerOverFault_Detect(p, run) ==
  IF ~run THEN PowerStopped(p)
  ELSE IF p.locked THEN p
  ELSE CASE p.zone = 2 -> PowerAbove(p)
         [] p.zone = 1 -> [p EXCEPT !.over = 0, !.quiet = 0]
         [] p.zone = 0 -> PowerBelow(p)
Cleared == [power EXCEPT !.fault = @ /\ ~frame.clear]

-----------------------------------------------------------------------------
(* The pass. *)

wptc_pwm_gradient_control ==
  heating' = /\ cmd'.ptc /\ ~can'.lost /\ ~dry'.fault /\ ~bus'.uv
             /\ \A s \in {"in", "out"} : ~temp'[s].over /\ ~temp'[s].broken

MotorFaults == can'.lost \/ temp'["pcb"].over \/ bus'.ov \/ bus'.uv \/ phase'.fault \/ power'.fault

\* What the sensors may show: one kind of trouble in a behaviour.
Reads(kind, normal, all) == IF family = kind THEN all ELSE {normal}
Readings ==
  {r \in [Sensors -> {"ok", "warm", "hot", "open", "short"}] :
     /\ r["in"] \in Reads("heat", "ok", {"ok", "warm", "hot", "open", "short"})
     /\ r["out"] \in Reads("heat", "ok", {"ok", "warm", "hot"})
     /\ r["pcb"] \in Reads("pcb", "ok", {"ok", "warm", "hot"})}
Due == slow >= Period

NoReading ==
  /\ temp' = [s \in Sensors |-> Temperatures(s)] /\ dry' = TempOffsetDetect
  /\ bus' = Err_event_vol /\ phase' = COM_CurrRMSDetect /\ power' = Cleared
  /\ slow' = slow + 1 /\ UNCHANGED <<running, sent>>

\* getDebugInfoData_100ms: supply, state and power first, then the faults, then temperatures.
getDebugInfoData_100ms ==
  /\ slow' = 0
  /\ \E r \in IF cmd'.run /\ ~sent THEN BOOLEAN ELSE {FALSE},
        z \in Reads("power", 0, 0 .. 2), c \in Reads("current", FALSE, BOOLEAN) :
       /\ running' = r
       /\ power' = COM_PowerOverFault_Detect([Cleared EXCEPT !.zone = IF r THEN z ELSE 0], r)
       /\ phase' = [COM_CurrRMSDetect EXCEPT !.high = r /\ c]
  /\ \E v \in Reads("bus", "ok", {"low", "sag", "ok", "swell", "high"}) :
       bus' = [Err_event_vol EXCEPT !.reading = v]
  /\ \E g \in Reads("dry", "small", {"small", "mid", "steep"}) :
       dry' = [TempOffsetDetect EXCEPT !.reading = g]
  /\ \E r \in Readings :
       temp' = [s \in Sensors |-> [Temperatures(s) EXCEPT !.reading = r[s]]]
  /\ sent' = MotorFaults

\* History: how long each hazard has been met with the actuator left on.
Present(h) ==
  CASE h \in Sensors -> temp[h].reading = "hot"
    [] h = "broken"  -> \E s \in Sensors : temp[s].reading \in Broken
    [] h = "steep"   -> dry.reading = "steep"
    [] h \in {"low", "high"} -> bus.reading = h
    [] h = "silent"  -> ~rx
    [] h = "current" -> running /\ phase.high
Bound(h) ==
  CASE h \in Sensors \cup {"broken", "steep"} -> Cfm
    [] h \in {"low", "high"} -> VCfm
    [] h = "silent"  -> Tout
    [] h = "current" -> ICfm + 2
    [] h = "power"   -> PCfm
Longer(n, h, slack) == Min2(n + 1, Bound(h) + slack + 1)
History ==
  /\ burnt' = [h \in HeaterHazards |->
                 IF heating' /\ Present(h) THEN Longer(burnt[h], h, 0) ELSE 0]
  /\ spun' = [h \in DriveHazards |->
                IF ~cmd'.run \/ sent' THEN 0
                ELSE IF h = "power"
                THEN IF ~Due THEN spun[h]
                     ELSE IF running' /\ power'.zone = 2 THEN Longer(spun[h], h, 0) ELSE 0
                ELSE IF Present(h) THEN Longer(spun[h], h, Period) ELSE 0]

Task_1ms_cycle ==
  /\ RecDataAnalyze
  /\ Can_Communication_OvTime_Detect
  /\ LockCount
  /\ IF Due THEN getDebugInfoData_100ms ELSE NoReading
  /\ wptc_pwm_gradient_control
  /\ History
  /\ UNCHANGED <<frame, family>>

Attempts == ~power.locked /\ power.count < PLimit
\* The CAN interrupt stores a frame between two passes.
Frame ==
  /\ \E f \in [run : BOOLEAN, ptc : BOOLEAN, clear : BOOLEAN] :
       /\ f.clear => family \in {"current", "power"} /\ (ClearsAnyTime \/ (~f.run /\ Attempts))
       /\ f # frame \/ ~rx
       /\ frame' = f
  /\ rx' = TRUE
  /\ UNCHANGED <<cmd, can, temp, lock, dry, bus, phase, power, running, heating, sent, slow,
                 family, burnt, spun>>

Next == Task_1ms_cycle \/ Frame
Spec == Init /\ [][Next]_vars /\ WF_vars(Task_1ms_cycle)

-----------------------------------------------------------------------------
(* Properties. *)

TypeOK ==
  /\ can.count \in 0 .. Tout /\ lock \in 0 .. TempLimit + 1 /\ slow \in 0 .. Period
  /\ \A s \in Sensors : temp[s].hot \in 0 .. Cfm - 1 /\ temp[s].cool \in 0 .. Rec
  /\ dry.count \in 0 .. DryLimit /\ power.count \in 0 .. PLimit

\* The heater stays on through an overheated or broken sensor, an outlet too far from the
\* inlet, a low supply or a silent vehicle no longer than the calibrated time, whatever the
\* commands do meanwhile: Fault_Detect before wptc_pwm_gradient_control.
HeaterStops == \A h \in HeaterHazards : burnt[h] < Bound(h)

\* The drive is let run through an overheated board, a bad supply, a silent vehicle, an excess
\* of current or of power no longer than confirmation and one period of sending take.
DriveStops == \A h \in DriveHazards : spun[h] < Bound(h) + (IF h = "power" THEN 0 ELSE Period)

\* After so many overheatings, or dry burns, the heater stays off until the next start: no
\* cooling, command, clear bit or loss of the bus gets it back.
LockedOut == lock >= TempLimit \/ dry.count >= DryLimit
HeaterLocked == [][LockedOut => ~heating']_vars

\* With everything normal and a lasting command the heater comes back for good unless locked
\* out, and the drive is let run for good: every other fault and lock ends by itself.
AllWell ==
  /\ can.count < Tout /\ \A s \in Sensors : temp[s].reading = "ok"
  /\ dry.reading = "small" /\ bus.reading = "ok"
  /\ ~phase.high /\ ~phase.fault /\ power.zone = 0
Resumes ==
  /\ <>[](AllWell /\ cmd.ptc) => <>[](heating \/ LockedOut)
  /\ <>[]AllWell => <>[]~sent
=============================================================================
