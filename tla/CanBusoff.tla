------------------------------ MODULE CanBusoff ------------------------------
(***************************************************************************)
(* Recovery of CAN channel 0 from bus-off:                                 *)
(* M0_BSW/SOURCE/CanUds/User/can_busoff.c, driven by the 1 ms interrupt    *)
(* (m0_task.c, task_isr) and by the CAN controller's interrupt             *)
(* (m0_canfd_cfg.c).  Both have the same priority, so neither preempts the *)
(* other: each is one action.  Channels 1 and 2 never see a bus-off and    *)
(* stay in NORMAL.                                                         *)
(***************************************************************************)
EXTENDS Integers

CONSTANTS FastPeriod, SlowPeriod,  \* fast_period and slow_period, in ticks
          FastTimes, SlowTimes     \* fast_times and slow_times; 0 slow: no limit

ASSUME ConfigAssumption ==
  /\ FastPeriod \in Nat \ {0} /\ SlowPeriod \in Nat \ {0}
  /\ FastTimes \in Nat /\ SlowTimes \in Nat

VARIABLES
  sts,                  \* s_busoff_info[0].sts
  flag,                 \* busoff_flag: 1 bus-off seen, 0 a frame got through, 2 restarted
  fastCnt, slowCnt,     \* fast_period_cnt, slow_period_cnt
  fastLeft, slowLeft,   \* fast_time_cnt, slow_time_cnt
  recoverFlg,           \* busoff_recover_flg
  ctrl,                 \* the CAN controller: "on", "busoff" or "stopped"
  irq,                  \* what its interrupt has still to report
  since,                \* history: ticks since the controller was stopped
  tries                 \* history: restarts since NORMAL was left

swVars == <<sts, flag, fastCnt, slowCnt, fastLeft, slowLeft, recoverFlg>>
vars == <<swVars, ctrl, irq, since, tries>>

MaxPeriod == IF FastPeriod > SlowPeriod THEN FastPeriod ELSE SlowPeriod

Init ==
  /\ sts = "NORMAL" /\ flag = 0
  /\ fastCnt = 0 /\ slowCnt = 0 /\ fastLeft = 0 /\ slowLeft = 0
  /\ recoverFlg = 0
  /\ ctrl = "on" /\ irq = {}
  /\ since = 0 /\ tries = 0
-----------------------------------------------------------------------------
(* can_busoff_process, one disjunct per status.  The period counters as it   *)
(* leaves them are fc and sc: the tick that follows in task_isr takes them   *)
(* one down.                                                                 *)
\* Mutant: counting down without a look at zero.
DownUnguarded(n) == n - 1

Down(n) == IF n > 0 THEN n - 1 ELSE 0
TickDown(fc, sc) == fastCnt' = Down(fc) /\ slowCnt' = Down(sc)

\* Canfd_Deinit and Canfd_Init: the interrupt flags go with the registers.
Stop == ctrl' = "stopped" /\ irq' = {} /\ since' = 0
Restart == ctrl' = "on" /\ irq' = {} /\ UNCHANGED since
Waited ==
  /\ since' = IF ctrl = "stopped" /\ since <= MaxPeriod THEN since + 1 ELSE since
  /\ UNCHANGED <<ctrl, irq>>

Normal ==
  /\ sts = "NORMAL"
  /\ IF flag = 1
       THEN Stop /\ sts' = "PENDING" /\ fastLeft' = FastTimes /\ slowLeft' = SlowTimes
       ELSE Waited /\ UNCHANGED <<sts, fastLeft, slowLeft>>
  /\ tries' = 0
  /\ TickDown(fastCnt, slowCnt)
  /\ UNCHANGED <<flag, recoverFlg>>

\* The period that the next restart waits for.
ArmPeriod ==
  IF fastLeft > 0 THEN TickDown(FastPeriod, slowCnt) ELSE TickDown(fastCnt, SlowPeriod)

Pending ==
  /\ sts = "PENDING" /\ sts' = "SW"
  /\ ArmPeriod /\ Waited
  /\ UNCHANGED <<flag, fastLeft, slowLeft, recoverFlg, tries>>

\* Mutant: the choice between fast and slow is not made again.
SwitchAlwaysFast ==
  /\ sts = "SW" /\ sts' = "FAST"
  /\ TickDown(fastCnt, slowCnt) /\ Waited
  /\ UNCHANGED <<flag, fastLeft, slowLeft, recoverFlg, tries>>

Switch ==
  /\ sts = "SW"
  /\ sts' = IF fastLeft > 0 THEN "FAST" ELSE "SLOW"
  /\ TickDown(fastCnt, slowCnt) /\ Waited
  /\ UNCHANGED <<flag, fastLeft, slowLeft, recoverFlg, tries>>

Fast ==
  /\ sts = "FAST"
  /\ IF fastCnt = 0
       THEN /\ Restart /\ flag' = 2 /\ sts' = "RECOVER"
            /\ fastLeft' = Down(fastLeft)
            /\ tries' = IF tries < FastTimes THEN tries + 1 ELSE tries
       ELSE Waited /\ UNCHANGED <<sts, flag, fastLeft, tries>>
  /\ TickDown(fastCnt, slowCnt)
  /\ UNCHANGED <<slowLeft, recoverFlg>>

\* Mutant: the slow restart leaves the flag as it was.
SlowKeepsFlag ==
  /\ sts = "SLOW"
  /\ IF slowCnt = 0
       THEN Restart /\ sts' = "RECOVER" /\ slowLeft' = Down(slowLeft)
       ELSE Waited /\ UNCHANGED <<sts, slowLeft>>
  /\ TickDown(fastCnt, slowCnt)
  /\ UNCHANGED <<flag, fastLeft, recoverFlg, tries>>

Slow ==
  /\ sts = "SLOW"
  /\ IF slowCnt = 0
       THEN /\ Restart /\ flag' = 2 /\ sts' = "RECOVER"
            /\ slowLeft' = Down(slowLeft)
       ELSE Waited /\ UNCHANGED <<sts, flag, slowLeft>>
  /\ TickDown(fastCnt, slowCnt)
  /\ UNCHANGED <<fastLeft, recoverFlg, tries>>

Recover ==
  /\ sts = "RECOVER" /\ sts' = "RECOVER_WAIT"
  /\ recoverFlg' = 1
  /\ TickDown(fastCnt, slowCnt) /\ Waited
  /\ UNCHANGED <<flag, fastLeft, slowLeft, tries>>

\* Mutant: the controller is not stopped for the next attempt.
RecoverWaitRunning ==
  /\ sts = "RECOVER_WAIT"
  /\ \/ flag = 0 /\ sts' = "NORMAL" /\ TickDown(fastCnt, slowCnt)
     \/ flag = 1 /\ sts' = "PENDING" /\ ArmPeriod
     \/ flag = 2 /\ UNCHANGED sts /\ TickDown(fastCnt, slowCnt)
  /\ Waited
  /\ UNCHANGED <<flag, fastLeft, slowLeft, recoverFlg, tries>>

RecoverWait ==
  /\ sts = "RECOVER_WAIT"
  /\ recoverFlg' = IF recoverFlg = 2 THEN 0 ELSE recoverFlg
  /\ \/ flag = 0 /\ sts' = "NORMAL" /\ TickDown(fastCnt, slowCnt) /\ Waited
     \/ flag = 1 /\ sts' = "PENDING" /\ ArmPeriod /\ Stop
     \/ flag = 2 /\ UNCHANGED sts /\ TickDown(fastCnt, slowCnt) /\ Waited
  /\ UNCHANGED <<flag, fastLeft, slowLeft, tries>>

\* task_isr: can_busoff_process, then can_busoff_1ms_period_cbk.
Tick ==
  Normal \/ Pending \/ Switch \/ Fast \/ Slow \/ Recover \/ RecoverWait
-----------------------------------------------------------------------------
(* The controller and its interrupt.  A disturbed bus sends it to bus-off,   *)
(* where nothing leaves it until it is restarted.                            *)
BusOff ==
  /\ ctrl = "on"
  /\ ctrl' = "busoff" /\ irq' = irq \cup {"busoff"}
  /\ UNCHANGED <<swVars, since, tries>>

FrameSent ==
  /\ ctrl = "on" /\ "sent" \notin irq
  /\ irq' = irq \cup {"sent"}
  /\ UNCHANGED <<swVars, ctrl, since, tries>>

\* Mutant: the frame's confirmation is looked at last.
ConfirmLast == flag' = IF "sent" \in irq THEN 0 ELSE 1

\* CanfdInterruptHandler: CAN_TxMsgCallback first, the bus-off flag after it.
LastReport == flag' = IF "busoff" \in irq THEN 1 ELSE 0

CanfdInterruptHandler ==
  /\ irq # {} /\ irq' = {}
  /\ LastReport
  /\ UNCHANGED <<sts, fastCnt, slowCnt, fastLeft, slowLeft, recoverFlg, ctrl,
                 since, tries>>

Next == Tick \/ BusOff \/ FrameSent \/ CanfdInterruptHandler

\* The tick and the interrupt are served, and the periodic frames of
\* can_tx_process keep being sent as long as the controller lets them.
Fairness ==
  /\ WF_vars(Tick) /\ WF_vars(CanfdInterruptHandler) /\ SF_vars(FrameSent)

Spec == Init /\ [][Next]_vars /\ Fairness
-----------------------------------------------------------------------------
Status == {"NORMAL", "RECOVER", "PENDING", "RECOVER_WAIT", "SW", "FAST", "SLOW"}

\* Type invariant.
TypeOK ==
  /\ sts \in Status /\ flag \in 0 .. 2 /\ recoverFlg \in 0 .. 2
  /\ fastCnt \in 0 .. FastPeriod /\ slowCnt \in 0 .. SlowPeriod
  /\ fastLeft \in 0 .. FastTimes /\ slowLeft \in 0 .. SlowTimes
  /\ ctrl \in {"on", "busoff", "stopped"} /\ irq \subseteq {"busoff", "sent"}
  /\ since \in 0 .. MaxPeriod + 1 /\ tries \in 0 .. FastTimes

\* The controller is stopped exactly while the machine waits to restart it: no
\* path leaves it stopped in a status that waits for traffic, which then could
\* never come, nor running in one that counts down to a restart.
StoppedWhileWaiting ==
  ctrl = "stopped" <=> sts \in {"PENDING", "SW", "FAST", "SLOW"}

\* The controller is never restarted earlier than the fast period after it was
\* stopped, and, once the fast attempts are used up, the slow period.
RestartBacksOff ==
  [][ctrl = "stopped" /\ ctrl' = "on"
       => since >= (IF tries < FastTimes THEN FastPeriod ELSE SlowPeriod)]_vars

\* No bus-off is lost, whatever confirmation it races with: the controller does
\* not stay in bus-off.
BusOffHandled == ctrl = "busoff" ~> ctrl = "stopped"

\* Once the bus stays healthy the channel gets back to NORMAL and stays there.
Recovers == <>[][~BusOff]_vars => <>[](sts = "NORMAL" /\ ctrl = "on")
=============================================================================
