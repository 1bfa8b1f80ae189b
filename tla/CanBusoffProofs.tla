--------------------------- MODULE CanBusoffProofs ---------------------------
(***************************************************************************)
(* Theorems about the bus-off recovery, for all periods and numbers of     *)
(* attempts: when the controller is stopped, and how long it stays so.     *)
(***************************************************************************)
EXTENDS CanBusoff, TLAPS

\* While a restart is awaited, the counter of its period and the ticks waited
\* so far add up to the period.
Counting ==
  /\ sts = "PENDING" => since = 0
  /\ sts \in {"SW", "FAST"} /\ fastLeft > 0 =>
       since > MaxPeriod \/ fastCnt + since >= FastPeriod
  /\ sts \in {"SW", "SLOW"} /\ fastLeft = 0 =>
       since > MaxPeriod \/ slowCnt + since >= SlowPeriod

\* Which restart it will be: the fast attempts left and those made are all.
Attempts ==
  /\ sts = "FAST" => fastLeft > 0
  /\ sts = "SLOW" => fastLeft = 0
  /\ sts # "NORMAL" => fastLeft + tries = FastTimes

IInv == TypeOK /\ StoppedWhileWaiting /\ Counting /\ Attempts

LEMMA PeriodsOK ==
  /\ MaxPeriod \in Nat /\ MaxPeriod >= FastPeriod /\ MaxPeriod >= SlowPeriod
  /\ FastPeriod \in Nat \ {0} /\ SlowPeriod \in Nat \ {0}
  /\ FastTimes \in Nat /\ SlowTimes \in Nat
BY ConfigAssumption DEF MaxPeriod

LEMMA InitInv == Init => IInv
BY PeriodsOK DEF Init, IInv, TypeOK, StoppedWhileWaiting, Counting, Attempts, Status

LEMMA NextInv == IInv /\ [Next]_vars => IInv'
<1> SUFFICES ASSUME IInv, [Next]_vars PROVE IInv'
  OBVIOUS
<1> USE PeriodsOK DEF IInv, TypeOK, StoppedWhileWaiting, Counting, Attempts, Status
<1>1. CASE Normal
  <2> USE <1>1 DEF Normal, Stop, Waited, TickDown, Down
  <2>1. TypeOK'
    <3>1. irq' \in SUBSET {"busoff", "sent"}
      OBVIOUS
    <3>2. ctrl' \in {"on", "busoff", "stopped"} /\ sts' \in Status
      OBVIOUS
    <3>3. since' \in 0 .. MaxPeriod + 1
      OBVIOUS
    <3> QED
      BY <3>1, <3>2, <3>3
  <2>2. StoppedWhileWaiting'
    OBVIOUS
  <2>3. Counting'
    OBVIOUS
  <2>4. Attempts'
    OBVIOUS
  <2> QED
    BY <2>1, <2>2, <2>3, <2>4
<1>2. CASE Pending
  <2> USE <1>2 DEF Pending, ArmPeriod, Waited, TickDown, Down
  <2>1. TypeOK'
    OBVIOUS
  <2>2. StoppedWhileWaiting'
    OBVIOUS
  <2>3. Counting'
    OBVIOUS
  <2>4. Attempts'
    OBVIOUS
  <2> QED
    BY <2>1, <2>2, <2>3, <2>4
<1>3. CASE Switch
  <2> USE <1>3 DEF Switch, Waited, TickDown, Down
  <2>1. TypeOK'
    OBVIOUS
  <2>2. StoppedWhileWaiting'
    OBVIOUS
  <2>3. Counting'
    OBVIOUS
  <2>4. Attempts'
    OBVIOUS
  <2> QED
    BY <2>1, <2>2, <2>3, <2>4
<1>4. CASE Fast
  <2> USE <1>4 DEF Fast, Restart, Waited, TickDown, Down
  <2>1. TypeOK'
    <3>1. irq' \in SUBSET {"busoff", "sent"}
      OBVIOUS
    <3>2. ctrl' \in {"on", "busoff", "stopped"} /\ sts' \in Status
      OBVIOUS
    <3>3. since' \in 0 .. MaxPeriod + 1
      OBVIOUS
    <3> QED
      BY <3>1, <3>2, <3>3
  <2>2. StoppedWhileWaiting'
    OBVIOUS
  <2>3. Counting'
    OBVIOUS
  <2>4. Attempts'
    OBVIOUS
  <2> QED
    BY <2>1, <2>2, <2>3, <2>4
<1>5. CASE Slow
  <2> USE <1>5 DEF Slow, Restart, Waited, TickDown, Down
  <2>1. TypeOK'
    <3>1. irq' \in SUBSET {"busoff", "sent"}
      OBVIOUS
    <3>2. ctrl' \in {"on", "busoff", "stopped"} /\ sts' \in Status
      OBVIOUS
    <3>3. since' \in 0 .. MaxPeriod + 1
      OBVIOUS
    <3> QED
      BY <3>1, <3>2, <3>3
  <2>2. StoppedWhileWaiting'
    OBVIOUS
  <2>3. Counting'
    OBVIOUS
  <2>4. Attempts'
    OBVIOUS
  <2> QED
    BY <2>1, <2>2, <2>3, <2>4
<1>6. CASE Recover
  <2> USE <1>6 DEF Recover, Waited, TickDown, Down
  <2>1. TypeOK'
    OBVIOUS
  <2>2. StoppedWhileWaiting'
    OBVIOUS
  <2>3. Counting'
    OBVIOUS
  <2>4. Attempts'
    OBVIOUS
  <2> QED
    BY <2>1, <2>2, <2>3, <2>4
<1>7. CASE RecoverWait
  <2> USE <1>7 DEF RecoverWait, ArmPeriod, Stop, Waited, TickDown, Down
  <2>1. TypeOK'
    <3>1. irq' \in SUBSET {"busoff", "sent"}
      OBVIOUS
    <3>2. ctrl' \in {"on", "busoff", "stopped"} /\ sts' \in Status
      OBVIOUS
    <3>3. since' \in 0 .. MaxPeriod + 1
      OBVIOUS
    <3> QED
      BY <3>1, <3>2, <3>3
  <2>2. StoppedWhileWaiting'
    OBVIOUS
  <2>3. Counting'
    OBVIOUS
  <2>4. Attempts'
    OBVIOUS
  <2> QED
    BY <2>1, <2>2, <2>3, <2>4
<1>8. CASE BusOff \/ FrameSent
  BY <1>8 DEF BusOff, FrameSent, swVars
<1>9. CASE CanfdInterruptHandler
  BY <1>9 DEF CanfdInterruptHandler, LastReport
<1>10. CASE UNCHANGED vars
  BY <1>10 DEF vars, swVars
<1> QED
  BY <1>1, <1>2, <1>3, <1>4, <1>5, <1>6, <1>7, <1>8, <1>9, <1>10 DEF Next, Tick

THEOREM InductiveInvariant == Spec => []IInv
BY InitInv, NextInv, PTL DEF Spec

\* The controller is stopped exactly while a restart is awaited.
THEOREM StoppedOnlyWaiting == Spec => []StoppedWhileWaiting
BY InductiveInvariant, PTL DEF IInv

LEMMA RestartStep ==
  ASSUME IInv, [Next]_vars, ctrl = "stopped", ctrl' = "on"
  PROVE  since >= (IF tries < FastTimes THEN FastPeriod ELSE SlowPeriod)
<1>1. (Fast /\ fastCnt = 0) \/ (Slow /\ slowCnt = 0)
  BY DEF Next, Tick, Normal, Pending, Switch, Fast, Slow, Recover, RecoverWait,
         BusOff, FrameSent, CanfdInterruptHandler, Stop, Restart, Waited, vars,
         swVars
<1> USE PeriodsOK DEF IInv, TypeOK, Counting, Attempts
<1>2. CASE Fast /\ fastCnt = 0
  BY <1>2 DEF Fast
<1>3. CASE Slow /\ slowCnt = 0
  BY <1>3 DEF Slow
<1> QED
  BY <1>1, <1>2, <1>3

\* No restart comes before its period is over, whatever the configuration.
THEOREM RestartsBackOff == Spec => RestartBacksOff
<1>1. IInv /\ [Next]_vars =>
        [ctrl = "stopped" /\ ctrl' = "on"
           => since >= (IF tries < FastTimes THEN FastPeriod ELSE SlowPeriod)]_vars
  BY RestartStep
<1> QED
  BY <1>1, InductiveInvariant, PTL DEF Spec, RestartBacksOff
=============================================================================
