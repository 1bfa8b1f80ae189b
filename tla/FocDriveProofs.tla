--------------------------- MODULE FocDriveProofs ---------------------------
(***************************************************************************)
(* Proofs about FocDrive, for every alignment, calibration and speed ramp: *)
(* the type invariant, MeasuredWhilePwm, FaultStopsDrive, FaultOutlasted   *)
(* and FreshStart.                                                         *)
(***************************************************************************)
EXTENDS FocDrive, TLAPS

\* A fault that has seen a speed loop is still there and drives nothing.
OverdueStopped == overdue => FaultStatus /\ state \notin Driving

\* The inductive invariant.
IInv == TypeOK /\ MeasuredWhilePwm /\ OverdueStopped
-----------------------------------------------------------------------------
\* Counting down stays in the range.
LEMMA DownType ==
  ASSUME NEW k \in Nat, NEW n \in 0 .. k
  PROVE  Down(n) \in 0 .. k
  BY DEF Down

\* The session keeps its types.
LEMMA SessionType ==
  ASSUME NEW on \in BOOLEAN, NEW valid \in BOOLEAN, TypeOK, StartupSession(on, valid)
  PROVE  align' \in 0 .. Duration /\ pending' \in BOOLEAN /\ dqRef' \in BOOLEAN
<1>1. align \in 0 .. Duration /\ Duration \in Nat /\ pending \in BOOLEAN
  BY DriveAssumption DEF TypeOK
<1>2. align' \in {align, Duration, Down(align)}
  BY DEF StartupSession
<1>3. align' \in 0 .. Duration
  <2>1. Duration \in 0 .. Duration
    BY <1>1
  <2> QED BY <1>1, <1>2, <2>1, DownType
<1>4. pending' \in BOOLEAN /\ dqRef' \in BOOLEAN
  BY <1>1, Zenon DEF StartupSession
<1> QED BY <1>3, <1>4

\* Switching the modules keeps their types.
LEMMA LocalEnableType ==
  ASSUME NEW on \in BOOLEAN, NEW garbage \in BOOLEAN, TypeOK, LocalEnable(on, garbage)
  PROVE  /\ adc' \in Modules({"init", "off", "calibration", "on"})
         /\ pat' \in Modules({"init", "off", "on"})
         /\ mod' \in Modules({"init", "off", "on"})
  BY DEF TypeOK, LocalEnable, Modules

\* Switching the modules keeps MeasuredWhilePwm: the pattern generator is
\* enabled after the ADC is on, the ADC disabled after the generator is off.
LEMMA LocalEnableMeasured ==
  ASSUME NEW on \in BOOLEAN, NEW garbage \in BOOLEAN, TypeOK, MeasuredWhilePwm,
         LocalEnable(on, garbage)
  PROVE  MeasuredWhilePwm'
  BY DEF TypeOK, LocalEnable, Modules, MeasuredWhilePwm

\* A state function leaves the modules alone or switches them.
LEMMA StateMachineHw ==
  ASSUME NEW on, NEW valid, NEW high, NEW garbage, StateMachine(on, valid, high, garbage)
  PROVE  UNCHANGED hw \/ LocalEnable(TRUE, garbage) \/ LocalEnable(FALSE, garbage)
  BY DEF StateMachine, StateInit, StateOff, StateStandby, StateRun,
     StateRampDown, StateFault, hw

\* A state function keeps the types of what it changes.
LEMMA StateMachineType ==
  ASSUME NEW on \in BOOLEAN, NEW valid \in BOOLEAN, NEW high \in BOOLEAN,
         NEW garbage \in BOOLEAN, TypeOK, StateMachine(on, valid, high, garbage)
  PROVE  /\ state' \in {"init", "off", "standBy", "fault", "run", "rampDown"}
         /\ subState' \in {"openLoop", "closedLoop"} /\ mode' \in {"foc", "vToF"}
         /\ adc' \in Modules({"init", "off", "calibration", "on"})
         /\ pat' \in Modules({"init", "off", "on"})
         /\ mod' \in Modules({"init", "off", "on"})
         /\ speed' \in 0 .. MaxSpeed
<1>1. /\ adc' \in Modules({"init", "off", "calibration", "on"})
      /\ pat' \in Modules({"init", "off", "on"}) /\ mod' \in Modules({"init", "off", "on"})
  <2>1. CASE UNCHANGED hw
    BY <2>1 DEF hw, TypeOK
  <2>2. CASE LocalEnable(TRUE, garbage) \/ LocalEnable(FALSE, garbage)
    BY <2>2, LocalEnableType
  <2> QED BY <2>1, <2>2, StateMachineHw
<1>2. state' \in {"init", "off", "standBy", "fault", "run", "rampDown"}
  BY Zenon DEF StateMachine, StateInit, StateOff, StateStandby, StateRun,
     StateRampDown, StateFault, TypeOK
<1>3. subState' \in {subState, "openLoop", "closedLoop"} /\ mode' \in {mode, "foc", "vToF"}
  BY Zenon DEF StateMachine, StateInit, StateOff, StateStandby, StateRun,
     StateRampDown, StateFault, SubStateMachine
<1>4. speed' \in {speed, 0, Down(speed)} \/ (speed' = speed + 1 /\ speed' <= MaxSpeed)
  BY Zenon DEF StateMachine, StateInit, StateOff, StateStandby, StateRun,
     StateRampDown, StateFault
<1>5. speed' \in 0 .. MaxSpeed
  <2>1. speed \in 0 .. MaxSpeed /\ MaxSpeed \in Nat
    BY DriveAssumption DEF TypeOK
  <2> QED BY <1>4, <2>1, DownType
<1> QED BY <1>1, <1>2, <1>3, <1>5 DEF TypeOK

\* A state function keeps MeasuredWhilePwm: it leaves the modules or switches them.
LEMMA StateMachineMeasured ==
  ASSUME NEW on \in BOOLEAN, NEW valid \in BOOLEAN, NEW high \in BOOLEAN,
         NEW garbage \in BOOLEAN, TypeOK, MeasuredWhilePwm,
         StateMachine(on, valid, high, garbage)
  PROVE  MeasuredWhilePwm'
<1>1. CASE UNCHANGED hw
  BY <1>1 DEF hw, MeasuredWhilePwm
<1>2. CASE LocalEnable(TRUE, garbage) \/ LocalEnable(FALSE, garbage)
  BY <1>2, LocalEnableMeasured
<1> QED BY <1>1, <1>2, StateMachineHw

\* With a fault no state function leads to driving.
LEMMA FaultNotDriving ==
  ASSUME NEW on \in BOOLEAN, NEW valid \in BOOLEAN, NEW high \in BOOLEAN,
         NEW garbage \in BOOLEAN, StateMachine(on, valid, high, garbage), FaultStatus
  PROVE  state' \notin Driving
  BY DEF StateMachine, StateInit, StateOff, StateStandby, StateRun,
     StateRampDown, StateFault, Driving
-----------------------------------------------------------------------------
\* The conversions of the ADC keep its types.
LEMMA MeasurementType ==
  ASSUME TypeOK, MeasurementADC
  PROVE  adc' \in Modules({"init", "off", "calibration", "on"}) /\ cycles' \in 1 .. CalCycles
<1> USE DriveAssumption DEF TypeOK, MeasurementADC, Modules
<1>1. CASE adc.st = "init"      BY <1>1
<1>2. CASE adc.st = "on"        BY <1>2
<1>3. CASE adc.st = "off"       BY <1>3
<1>4. CASE adc.st = "calibration" BY <1>4
<1> QED BY <1>1, <1>2, <1>3, <1>4

\* A module's step keeps its type.
LEMMA SwitchedType ==
  ASSUME NEW m \in Modules({"init", "off", "on"})
  PROVE  Switched(m) \in Modules({"init", "off", "on"})
  BY DEF Modules, Switched

LEMMA SpeedLoopInv ==
  ASSUME IInv, SpeedLoop
  PROVE  IInv'
<1> PICK on, valid, high, garbage \in BOOLEAN :
      /\ enable' = on
      /\ StartupSession(on, valid)
      /\ StateMachine(on, valid, high, garbage)
  BY DEF SpeedLoop
<1> USE DEF IInv
<1>1. TypeOK'
  <2>1. /\ enable' \in BOOLEAN /\ m0Fault' \in BOOLEAN /\ ipm' \in BOOLEAN
        /\ clearFault' \in BOOLEAN /\ overdue' \in BOOLEAN /\ fastRan' \in BOOLEAN
        /\ cycles' \in 1 .. CalCycles /\ volt' \in {"zero", "drive"}
    BY DEF SpeedLoop, TypeOK, FaultStatus
  <2>2. align' \in 0 .. Duration /\ pending' \in BOOLEAN /\ dqRef' \in BOOLEAN
    BY SessionType
  <2> QED BY <2>1, <2>2, StateMachineType DEF TypeOK
<1>2. MeasuredWhilePwm'
  BY StateMachineMeasured
<1>3. OverdueStopped'
  BY FaultNotDriving DEF OverdueStopped, SpeedLoop, FaultStatus, Driving
<1> QED BY <1>1, <1>2, <1>3

LEMMA FastLoopInv ==
  ASSUME IInv, FastLoop
  PROVE  IInv'
<1> USE DEF IInv
<1> PICK sample \in BOOLEAN : VoltageGeneration(sample)
  BY DEF FastLoop
<1>a. MeasurementADC
  BY DEF FastLoop
<1>b. UNCHANGED <<volt, mod, pat>> \/ /\ volt' \in {"zero", "drive"}
                                      /\ mod' = Switched(mod) /\ pat' = Switched(pat)
  BY DEF VoltageGeneration
<1>1. TypeOK'
  <2>1. adc' \in Modules({"init", "off", "calibration", "on"}) /\ cycles' \in 1 .. CalCycles
    BY <1>a, MeasurementType
  <2>2. /\ pat' \in Modules({"init", "off", "on"}) /\ mod' \in Modules({"init", "off", "on"})
        /\ volt' \in {"zero", "drive"}
    BY <1>b, SwitchedType DEF TypeOK
  <2> QED BY <2>1, <2>2 DEF FastLoop, TypeOK, session
<1>2. MeasuredWhilePwm'
  <2>1. CASE pat.en \/ pat.st = "on"
    <3>1. adc.st = "on" /\ adc.en
      BY <2>1 DEF MeasuredWhilePwm
    <3> QED BY <1>a, <3>1 DEF MeasurementADC, MeasuredWhilePwm, TypeOK, Modules
  <2>2. CASE ~(pat.en \/ pat.st = "on")
    BY <1>b, <2>2 DEF Switched, MeasuredWhilePwm, TypeOK, Modules
  <2> QED BY <2>1, <2>2
<1>3. OverdueStopped'
  BY DEF FastLoop, OverdueStopped, FaultStatus
<1> QED BY <1>1, <1>2, <1>3

\* The other steps touch neither the modules nor the state.
LEMMA OtherInv ==
  ASSUME IInv, FocLoopCheck \/ ButtonIntHandler \/ UNCHANGED vars
  PROVE  IInv'
<1> USE DEF IInv
<1>1. /\ UNCHANGED <<state, subState, mode, enable>> /\ UNCHANGED hw
      /\ UNCHANGED <<cycles, speed>> /\ UNCHANGED session /\ UNCHANGED <<volt, fastRan>>
  BY DEF FocLoopCheck, ButtonIntHandler, vars, hw, session
<1>2. m0Fault' \in BOOLEAN /\ ipm' \in BOOLEAN /\ clearFault' \in BOOLEAN
  BY DEF FocLoopCheck, ButtonIntHandler, vars, TypeOK
<1>3. overdue' \in BOOLEAN /\ (overdue' => overdue /\ FaultStatus')
  <2>0. overdue \in BOOLEAN /\ ipm \in BOOLEAN /\ (overdue => ipm \/ m0Fault)
    BY DEF TypeOK, OverdueStopped, FaultStatus
  <2>1. CASE FocLoopCheck
    <3>1. ipm' = ipm /\ overdue' = (overdue /\ (ipm \/ m0Fault'))
      BY <2>1 DEF FocLoopCheck
    <3> QED BY <2>0, <3>1 DEF FaultStatus
  <2>2. CASE ButtonIntHandler
    BY <2>0, <2>2 DEF ButtonIntHandler, FaultStatus
  <2>3. CASE UNCHANGED vars
    BY <2>0, <2>3 DEF vars, FaultStatus
  <2> QED BY <2>1, <2>2, <2>3
<1>4. TypeOK'
  BY <1>1, <1>2, <1>3 DEF TypeOK, hw, session
<1>5. MeasuredWhilePwm'
  BY <1>1 DEF MeasuredWhilePwm, hw
<1>6. OverdueStopped'
  BY <1>1, <1>3 DEF OverdueStopped
<1> QED BY <1>4, <1>5, <1>6

\* IInv holds in every reachable state.
THEOREM Invariance == Spec => []IInv
<1>1. ASSUME Init PROVE IInv
  <2>1. Module("init") \in Modules({"init", "off", "on"})
        /\ Module("init") \in Modules({"init", "off", "calibration", "on"})
    BY DEF Module, Modules
  <2>2. cycles \in 1 .. CalCycles /\ speed \in 0 .. MaxSpeed /\ align \in 0 .. Duration
    BY <1>1, DriveAssumption DEF Init
  <2>3. TypeOK
    BY <1>1, <2>1, <2>2 DEF Init, TypeOK
  <2>4. MeasuredWhilePwm /\ OverdueStopped
    BY <1>1 DEF Init, MeasuredWhilePwm, OverdueStopped, Module
  <2> QED BY <2>3, <2>4 DEF IInv
<1>2. IInv /\ [Next]_vars => IInv'
  BY SpeedLoopInv, FastLoopInv, OtherInv DEF Next
<1> QED BY <1>1, <1>2, PTL DEF Spec

\* The variables keep their types, for every value of the constants.
THEOREM TypeCorrect == Spec => []TypeOK
  BY Invariance, PTL DEF IInv

\* The pattern generator never runs, nor is enabled, without the ADC measuring.
THEOREM PwmIsMeasured == Spec => []MeasuredWhilePwm
  BY Invariance, PTL DEF IInv

\* After one speed loop a fault has stopped the drive: the voltage command is zero.
THEOREM FaultsStopDrive == Spec => FaultStopsDrive
<1>1. IInv /\ FastLoop /\ overdue => volt' = "zero"
  BY DEF IInv, OverdueStopped, FastLoop, VoltageGeneration, Missed
<1>2. IInv /\ [Next]_vars => [FastLoop /\ overdue => volt' = "zero"]_vars
  BY <1>1
<1> QED BY <1>2, Invariance, PTL DEF Spec, FaultStopsDrive

\* The fault state is left only without a fault.
THEOREM FaultsOutlasted == Spec => FaultOutlasted
<1>1. SpeedLoop => (state = "fault" /\ state' # "fault" => ~FaultStatus)
  BY DEF SpeedLoop, StateMachine, StateInit, StateOff, StateStandby, StateRun,
     StateRampDown, StateFault
<1>2. [Next]_vars => [state = "fault" /\ state' # "fault" => ~FaultStatus]_vars
  BY <1>1 DEF Next, FastLoop, FocLoopCheck, ButtonIntHandler, vars
<1> QED BY <1>2, PTL DEF Spec, FaultOutlasted

\* Every run starts with the alignment armed, no I/f reference and the open loop.
THEOREM StartsAreFresh == Spec => FreshStart
<1> DEFINE Fresh == align' = Duration /\ ~dqRef' /\ subState' = "openLoop" /\ speed' = 0
<1>1. ASSUME SpeedLoop, state # "run", state' = "run"  PROVE Fresh
  <2> PICK on, valid, high, garbage \in BOOLEAN :
        StartupSession(on, valid) /\ StateMachine(on, valid, high, garbage)
    BY <1>1 DEF SpeedLoop
  <2>1. StateStandby(on, garbage) /\ subState' = "openLoop" /\ speed' = 0
    BY <1>1 DEF StateMachine, StateInit, StateOff, StateStandby, StateRun,
       StateRampDown, StateFault
  <2>2. align' = Duration /\ ~dqRef'
    BY <1>1 DEF StartupSession, Active
  <2> QED BY <2>1, <2>2
<1>2. [Next]_vars => [state # "run" /\ state' = "run" => Fresh]_vars
  BY <1>1 DEF Next, FastLoop, FocLoopCheck, ButtonIntHandler, vars
<1> QED BY <1>2, PTL DEF Spec, FreshStart
=============================================================================
