------------------------------ MODULE FocDrive ------------------------------
(***************************************************************************)
(* The motor drive of the CM4 core: the state machine of                   *)
(* MS/src/Ifx_MS_FocSolutionF16.c with the start-up session that           *)
(* Example/CM4_FOC/main_cm4.c wraps around it, and the modules it switches *)
(* (current measurement, pattern generator, modulator: MHA/src, MAS/src).  *)
(*                                                                         *)
(* The speed loop (2 kHz) and the fast loop (10 kHz) are interrupts of one *)
(* priority: each is one action.  The idle loop and the IPM fault input    *)
(* come in between.  Left out: the arithmetic of the control, and the      *)
(* bridge driver, which this build neither initialises nor consults.       *)
(***************************************************************************)
EXTENDS Integers

CONSTANTS Duration,     \* Cal_FocAlignmentDuration_cnt_u16
          CalCycles,    \* conversions averaged by the ADC's calibration
          MaxSpeed,     \* top of the speed ramp, in steps of one speed tick
          TransitionUp  \* speed above which I/f hands over to the observer

ASSUME DriveAssumption ==
  /\ Duration \in Nat /\ CalCycles \in Nat \ {0}
  /\ MaxSpeed \in Nat /\ TransitionUp \in Nat

VARIABLES
  state, subState, mode,     \* p_status
  enable,                    \* p_enablePowerStage = p_enableControl, as latched
  m0Fault, ipm, clearFault,  \* p_m0FaultStatus # 0, IPMFAULT_STATE, p_clearFault
  adc, cycles,               \* ADC: its state and enable flag, p_cycleCounter
  pat, mod,                  \* pattern generator, modulator
  speed,                     \* |rateLimitInSpeedQ15|, in ramp steps
  align, pending, dqRef,     \* rotorAlignCounter, directClosedLoopStartPending,
                             \* p_openLoopDqReferenceEnabled
  volt,                      \* the voltage command last given to the modulator
  fastRan,                   \* a fast loop ran since the last speed loop
  overdue                    \* history: this fault has seen a speed loop

hw == <<adc, pat, mod>>
session == <<align, pending, dqRef>>
vars == <<state, subState, mode, enable, m0Fault, ipm, clearFault, adc, cycles,
          pat, mod, speed, align, pending, dqRef, volt, fastRan, overdue>>

Module(st) == [st |-> st, en |-> FALSE]

Init ==
  /\ state = "init" /\ subState = "openLoop" /\ mode = "foc"
  /\ enable = FALSE /\ m0Fault = FALSE /\ ipm = FALSE /\ clearFault = FALSE
  /\ adc = Module("init") /\ pat = Module("init") /\ mod = Module("init")
  /\ cycles = 1 /\ speed = 0
  /\ align = 0 /\ pending = FALSE /\ dqRef = FALSE
  /\ volt = "zero" /\ fastRan = FALSE /\ overdue = FALSE

FaultStatus == ipm \/ m0Fault
Driving == {"run", "rampDown"}
-----------------------------------------------------------------------------
(* Switching the modules.  garbage says whether the uninitialised            *)
(* bridgeDrvStatus.state happens to read as off.                             *)
\* Mutants: the pattern generator does not wait for the ADC; the ADC does not
\* wait for the pattern generator.
LocalEnableAtOnce(on, garbage) ==
  /\ adc' = IF on \/ (garbage /\ pat.st = "off") THEN [adc EXCEPT !.en = on] ELSE adc
  /\ pat' = [pat EXCEPT !.en = on]
  /\ mod' = [mod EXCEPT !.en = on]
LocalEnableOnce(on, garbage) ==
  /\ adc' = IF on \/ (garbage /\ pat.st = "off") THEN [adc EXCEPT !.en = on] ELSE adc
  /\ pat' = IF on THEN pat ELSE [pat EXCEPT !.en = FALSE]
  /\ mod' = [mod EXCEPT !.en = on]

LocalEnable(on, garbage) ==
  /\ adc' = IF on \/ (garbage /\ pat.st = "off") THEN [adc EXCEPT !.en = on] ELSE adc
  /\ pat' = IF on /\ adc.st # "on" THEN pat ELSE [pat EXCEPT !.en = on]
  /\ mod' = [mod EXCEPT !.en = on]

ModulesAre(st) == adc.st = st /\ pat.st = st /\ mod.st = st

\* Mutant: the subtraction is not guarded.
DownUnguarded(n) == n - 1
Down(n) == IF n > 0 THEN n - 1 ELSE 0
-----------------------------------------------------------------------------
(* The start-up session of Ifx_FOC_speedLoopCallback: alignment, then either *)
(* a direct handoff to the observer or the I/f ramp.                         *)
Active(on) == on /\ state = "run" /\ mode = "foc"

HandedOver(on, valid) ==
  Active(on) /\ align = 0 /\ pending /\ valid /\ subState = "openLoop"

\* Mutant: the session is not abandoned when the drive is.
StartupSessionKept(on, valid) ==
  /\ align' = IF Active(on) THEN Down(align) ELSE align
  /\ pending' = (pending /\ ~HandedOver(on, valid))
  /\ dqRef' = (Active(on) /\ (align # 0 \/ pending) /\ ~HandedOver(on, valid))

StartupSession(on, valid) ==
  \/ /\ ~(on /\ state = "run")
     /\ align' = Duration /\ dqRef' = FALSE
     /\ pending' \in {FALSE, Duration # 0}
  \/ /\ on /\ state = "run" /\ mode # "foc"
     /\ dqRef' = FALSE /\ UNCHANGED <<align, pending>>
  \/ /\ Active(on)
     /\ align' = Down(align)
     /\ pending' = (pending /\ ~HandedOver(on, valid))
     /\ dqRef' = ((align # 0 \/ pending) /\ ~HandedOver(on, valid))

\* The speed reference is zero until the session is over.
Released(on, valid) ==
  HandedOver(on, valid) \/ (Active(on) /\ align = 0 /\ ~pending)

\* subStateMachine, after a handoff if there was one, at the speed just limited.
SubStateMachine(on, valid) ==
  subState' =
    IF \/ HandedOver(on, valid)
       \/ subState = "openLoop" /\ speed' > TransitionUp /\ mode = "foc" /\ valid
    THEN "closedLoop" ELSE subState
-----------------------------------------------------------------------------
(* The state functions; on is the command just latched.                      *)
StateInit ==
  /\ state = "init"
  /\ state' = IF ModulesAre("off") THEN "off" ELSE "init"
  /\ UNCHANGED <<subState, mode, hw, speed>>

StateOff(on, garbage) ==
  /\ state = "off" /\ speed' = 0
  /\ \/ FaultStatus /\ state' = "fault" /\ UNCHANGED hw
     \/ /\ ~FaultStatus /\ on
        /\ LocalEnable(TRUE, garbage)
        /\ state' = IF ModulesAre("on") THEN "standBy" ELSE "off"
     \/ ~FaultStatus /\ ~on /\ UNCHANGED <<state, hw>>
  /\ UNCHANGED <<subState, mode>>

StateStandby(on, garbage) ==
  /\ state = "standBy" /\ speed' = 0
  /\ \/ FaultStatus /\ state' = "fault" /\ UNCHANGED <<hw, subState, mode>>
     \/ /\ ~FaultStatus /\ ~on
        /\ LocalEnable(FALSE, garbage)
        /\ state' = IF ModulesAre("off") THEN "off" ELSE "standBy"
        /\ UNCHANGED <<subState, mode>>
     \/ /\ ~FaultStatus /\ on
        /\ state' = "run" /\ subState' = "openLoop" /\ mode' \in {"foc", "vToF"}
        /\ UNCHANGED hw

StateRun(on, valid, high) ==
  /\ state = "run"
  /\ speed' \in IF Released(on, valid) THEN {Down(speed), speed, speed + 1} ELSE {Down(speed)}
  /\ speed' <= MaxSpeed
  /\ \/ /\ FaultStatus /\ state' = "fault"
        /\ subState' = IF HandedOver(on, valid) THEN "closedLoop" ELSE subState
     \/ /\ ~FaultStatus /\ ~on /\ UNCHANGED subState
        /\ state' = IF high THEN "standBy" ELSE "rampDown"
     \/ ~FaultStatus /\ on /\ state' = "run" /\ SubStateMachine(on, valid)
  /\ UNCHANGED <<mode, hw>>

\* Mutant: only the current is looked at.
StateRampDownEndless(valid, high) ==
  /\ state = "rampDown" /\ speed' = Down(speed)
  /\ \/ FaultStatus /\ state' = "fault" /\ UNCHANGED subState
     \/ ~FaultStatus /\ high /\ state' = "standBy" /\ UNCHANGED subState
     \/ ~FaultStatus /\ ~high /\ UNCHANGED state /\ SubStateMachine(FALSE, valid)
  /\ UNCHANGED <<mode, hw>>

StateRampDown(valid, high) ==
  /\ state = "rampDown" /\ speed' = Down(speed)
  /\ \/ FaultStatus /\ state' = "fault" /\ UNCHANGED subState
     \/ /\ ~FaultStatus /\ (high \/ speed' = 0)
        /\ state' = "standBy" /\ UNCHANGED subState
     \/ /\ ~FaultStatus /\ ~high /\ speed' > 0
        /\ UNCHANGED state /\ SubStateMachine(FALSE, valid)
  /\ UNCHANGED <<mode, hw>>

\* Mutant: a clear request is granted whether or not the fault is gone.
StateFaultGranted(garbage) ==
  /\ state = "fault"
  /\ IF clearFault \/ ~m0Fault
       THEN LocalEnable(FALSE, garbage) /\ state' = "off"
       ELSE UNCHANGED <<state, hw>>
  /\ UNCHANGED <<subState, mode, speed>>

\* A clear is requested by clearFault or by itself once the M0 has no fault.
\* No module of this build reports a fault, so none keeps the clear pending.
StateFault(garbage) ==
  /\ state = "fault"
  /\ IF (clearFault \/ ~m0Fault) /\ ~FaultStatus
       THEN LocalEnable(FALSE, garbage) /\ state' = "off"
       ELSE UNCHANGED <<state, hw>>
  /\ UNCHANGED <<subState, mode, speed>>

StateMachine(on, valid, high, garbage) ==
  \/ StateInit
  \/ StateOff(on, garbage)
  \/ StateStandby(on, garbage)
  \/ StateRun(on, valid, high)
  \/ StateRampDown(valid, high)
  \/ StateFault(garbage)

\* Ifx_FOC_speedLoopCallback: latch the command, run the session, execute
\* speed control.  Several fast loops run between two of them.
SpeedLoop ==
  /\ fastRan /\ fastRan' = FALSE
  /\ \E on, valid, high, garbage \in BOOLEAN :
       /\ enable' = on
       /\ StartupSession(on, valid)
       /\ StateMachine(on, valid, high, garbage)
  /\ clearFault' = FALSE
  /\ overdue' = FaultStatus
  /\ UNCHANGED <<m0Fault, ipm, cycles, volt>>
-----------------------------------------------------------------------------
(* Ifx_MS_FocSolutionF16_executeControlMode: measure, regulate, modulate.    *)
MeasurementADC ==
  /\ adc' = [adc EXCEPT !.st =
       CASE adc.st = "init" -> "off"
         [] adc.st = "on" -> IF adc.en THEN "on" ELSE "off"
         [] adc.st = "off" -> IF adc.en THEN "calibration" ELSE "off"
         [] adc.st = "calibration" -> IF cycles < CalCycles THEN "calibration" ELSE "on"]
  /\ cycles' = CASE adc.st = "off" /\ adc.en -> 1
                 [] adc.st = "calibration" /\ cycles < CalCycles -> cycles + 1
                 [] OTHER -> cycles

\* One step of the pattern generator or of the modulator.
Switched(m) == [m EXCEPT !.st = IF m.st # "init" /\ m.en THEN "on" ELSE "off"]

\* Without a complete sample the last PWM command is held while driving.
Missed(sample) ==
  adc'.st = "on" /\ ~(adc.st = "on" /\ sample) /\ state \in Driving

\* Mutant: the last command is held in every state.
VoltageGenerationHeld(sample) ==
  IF adc'.st = "on" /\ ~(adc.st = "on" /\ sample)
    THEN UNCHANGED <<volt, mod, pat>>
    ELSE /\ volt' = IF state \in Driving THEN "drive" ELSE "zero"
         /\ mod' = Switched(mod) /\ pat' = Switched(pat)

VoltageGeneration(sample) ==
  IF Missed(sample)
    THEN UNCHANGED <<volt, mod, pat>>
    ELSE /\ volt' = IF state \in Driving THEN "drive" ELSE "zero"
         /\ mod' = Switched(mod) /\ pat' = Switched(pat)

FastLoop ==
  /\ MeasurementADC
  /\ \E sample \in BOOLEAN : VoltageGeneration(sample)
  /\ fastRan' = TRUE
  /\ UNCHANGED <<state, subState, mode, enable, m0Fault, ipm, clearFault, speed,
                 session, overdue>>

\* FOC_Loop_Check, from the idle loop: what the M0 last sent.
FocLoopCheck ==
  /\ m0Fault' \in BOOLEAN
  /\ clearFault' \in {clearFault, TRUE}
  /\ overdue' = (overdue /\ (ipm \/ m0Fault'))
  /\ UNCHANGED <<state, subState, mode, enable, ipm, hw, cycles, speed, session,
                 volt, fastRan>>

\* The IPM's fault input.  Nothing resets IPMFAULT_STATE.
ButtonIntHandler ==
  /\ ipm' = TRUE
  /\ UNCHANGED <<state, subState, mode, enable, m0Fault, clearFault, hw, cycles,
                 speed, session, volt, fastRan, overdue>>

Next == SpeedLoop \/ FastLoop \/ FocLoopCheck \/ ButtonIntHandler

\* The two timers keep firing.
Fairness == WF_vars(SpeedLoop) /\ WF_vars(FastLoop)

Spec == Init /\ [][Next]_vars /\ Fairness
-----------------------------------------------------------------------------
Modules(states) == [st : states, en : BOOLEAN]

\* Type invariant.
TypeOK ==
  /\ state \in {"init", "off", "standBy", "fault", "run", "rampDown"}
  /\ subState \in {"openLoop", "closedLoop"} /\ mode \in {"foc", "vToF"}
  /\ enable \in BOOLEAN /\ m0Fault \in BOOLEAN /\ ipm \in BOOLEAN
  /\ clearFault \in BOOLEAN /\ pending \in BOOLEAN /\ dqRef \in BOOLEAN
  /\ fastRan \in BOOLEAN /\ overdue \in BOOLEAN
  /\ adc \in Modules({"init", "off", "calibration", "on"})
  /\ pat \in Modules({"init", "off", "on"}) /\ mod \in Modules({"init", "off", "on"})
  /\ cycles \in 1 .. CalCycles /\ speed \in 0 .. MaxSpeed
  /\ align \in 0 .. Duration /\ volt \in {"zero", "drive"}

\* PWM never runs, nor is about to, while the current is not measured: whatever
\* the order of commands, faults and loops, the ADC comes on first, calibrated,
\* and goes off last.
MeasuredWhilePwm == pat.en \/ pat.st = "on" => adc.st = "on" /\ adc.en

\* "Faults retain priority": once a fault has lasted over a speed loop, every
\* fast loop commands zero voltage, also when samples are missing.
FaultStopsDrive == [][FastLoop /\ overdue => volt' = "zero"]_vars

\* The drive leaves the fault state only after the fault itself, whatever clear
\* requests came meanwhile.
FaultOutlasted == [][state = "fault" /\ state' # "fault" => ~FaultStatus]_vars

\* "The next run always starts with a fresh alignment": whatever ended the last
\* one, nothing of its start-up session or of its closed loop survives.
FreshStart ==
  [][state # "run" /\ state' = "run" =>
       align' = Duration /\ ~dqRef' /\ subState' = "openLoop" /\ speed' = 0]_vars

\* An IPM fault ends in the fault state for good: nothing resets its flag.
IpmFaultFinal == ipm ~> [](state = "fault")

\* A stop comes to its end, by the ramp or by the current shortcut.
StopEnds == <>[]~enable => <>[](state \notin Driving)

\* Once there is no fault and the command is there to stay, the drive runs,
\* wherever it was: no module waits for another for ever.
Starts == <>[](enable /\ ~FaultStatus) => <>[](state = "run")

\* "All the modules are enabled" in standBy: a run starts with its PWM enabled.
RunStartsWithPwm == [][state = "standBy" /\ state' = "run" => pat.en /\ mod.en]_vars

\* "Enables or disables the power stage": a lasting disable ends with PWM off.
DisableStopsPwm == <>[]~enable /\ <>[]~FaultStatus => <>[](pat.st # "on")
=============================================================================
