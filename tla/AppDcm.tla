------------------------------- MODULE AppDcm -------------------------------
(***************************************************************************)
(* The application's diagnostic server on the CM0+: can_dcm.c with the     *)
(* services of uds_user.c and the hand-over in bootloader.c.               *)
(*                                                                         *)
(* uds_user_process runs every 2 ms, dcm_period_10ms_process every 10 ms,  *)
(* both in the main loop.  A service may answer at once or ask for time    *)
(* (response pending); what it sets off is done by later passes.  Requests *)
(* come through one buffer for each address and share one context; how     *)
(* they get into the buffers is in CanTp, what the boot loader does after  *)
(* the hand-over in BootLoader, the flash queue in FlashAsync.  The tester *)
(* has the key (BootLoader has the attempts), the vehicle stands, and the  *)
(* programming session, which no service of the application enters, is     *)
(* left out with the services that need it; so are 14, 19, 22 and 2F.      *)
(***************************************************************************)
EXTENDS Integers

CONSTANTS
  Asked,        \* what the tester sends to each address
  Dids,         \* data that service 2E writes
  S3,           \* S3_SERVER_TIME, in units of 10 ms like all times
  Dly, After,   \* SERVICE_11_RESET_TIME_DLY, and what is added to it after the answer
  GoReset,      \* BL_GO_RESET_TIME
  Warm,         \* the time since the start before service 2E stores anything
  Per10,        \* passes of uds_user_process in 10 ms
  Lag,          \* units by which the passes may fall behind the 10 ms task
  EarlyWrites   \* the tester writes before Warm is over

Chan == {"phys", "func"}
Names == {"1001", "1002", "1003", "11", "seed", "key", "28on", "28off", "85on", "85off",
          "3E", "2E"}
None == [s |-> "none", d |-> "none", quiet |-> FALSE]
Requests == [s : Names, d : Dids \cup {"none"}, quiet : BOOLEAN]

ASSUME DcmAssumption ==
  /\ Asked \in [Chan -> SUBSET Requests]
  /\ {S3, Dly, GoReset, Per10, Lag} \subseteq Nat \ {0} /\ {After, Warm} \subseteq Nat
  /\ Dly + GoReset + Lag < S3 /\ EarlyWrites \in BOOLEAN

VARIABLES
  run,      \* "app", or "boot" after a hand-over
  ram,      \* the server's variables; see Ram0
  rx,       \* s_dcm_rx_flg and s_dcm_rx_buf
  flash,    \* the item that the flash engine has still to write, if any
  nv,       \* the work flash
  out,      \* an answer handed to the transport protocol, to go with the next tick
  lag,      \* units since the last time the passes counted one
  life,     \* history: changes with every reset
  owed,     \* history: what the tester is waiting for
  want      \* history: data whose writing was answered positively

vars == <<run, ram, rx, flash, nv, out, lag, life, owed, want>>

Ram0 ==
  [session |-> "default", unlocked |-> FALSE, sid27 |-> "idle", s3 |-> 0, busy |-> None,
   nrc11 |-> "INIT", reset11 |-> FALSE, t11 |-> 0, txOff |-> FALSE,
   dtcOn |-> FALSE, slot |-> "none", t2e |-> 0, step |-> "PENDING", left |-> 0, cnt |-> 0]
\* The hand-over to the boot loader: the flags it finds in the work flash.
HandOver == {"update", "chg", "jump"}
Nv0 == [k \in HandOver \cup Dids |-> FALSE]

Init ==
  /\ run = "app" /\ ram = Ram0 /\ rx = [h \in Chan |-> None] /\ flash = "none"
  /\ nv = Nv0
  /\ out = FALSE /\ lag = 0 /\ life = FALSE /\ owed = "none" /\ want = [d \in Dids |-> FALSE]

\* What a pass works on: its state, the answer it gives and the request that is for.
Context == [m |-> ram, rx |-> rx, flash |-> flash, nv |-> nv, ans |-> "none", to |-> None,
            ch |-> "phys", reset |-> FALSE]
-----------------------------------------------------------------------------
(* The answers.                                                              *)
Pos(c, q) == IF q.quiet THEN [c EXCEPT !.ans = "silent"] ELSE [c EXCEPT !.ans = "pos"]

\* dcm_set_neg_response: a functional request is not told that it is not supported.
Neg(c) == [c EXCEPT !.ans = IF c.ch = "func" THEN "silent" ELSE "neg"]

\* Response pending: the context stays taken.
\* Mutant: the result of an earlier request is not taken back.
PendKept(c, q) == [c EXCEPT !.ans = "pend", !.m.busy = q]
Pend(c, q) ==
  [c EXCEPT !.ans = "pend", !.m.busy = q, !.m.nrc11 = IF q.s = "11" THEN "INIT" ELSE @]
-----------------------------------------------------------------------------
(* The services.                                                             *)
Locked(c) == [c EXCEPT !.m.unlocked = FALSE, !.m.sid27 = "idle"]

Service10(c, q) ==
  CASE q.s = "1001" -> Pos(Locked([c EXCEPT !.m.session = "default"]), q)
    [] q.s = "1003" -> Pos(Locked([c EXCEPT !.m.session = "extended"]), q)
    [] q.s = "1002" /\ c.m.session = "default" -> Neg(c)
    [] q.s = "1002" /\ c.m.session # "default" ->
         Pend([c EXCEPT !.m.step = "CHK_UPDATE_FLG"], q)

Service11(c, q) ==
  IF c.m.session = "default" THEN Neg(c) ELSE Pend([c EXCEPT !.m.reset11 = TRUE], q)

Service27(c, q) ==
  CASE c.m.session = "default" -> Neg(c)
    [] c.m.session # "default" /\ q.s = "seed" -> Pos([c EXCEPT !.m.sid27 = "seed"], q)
    [] c.m.session # "default" /\ q.s = "key" /\ c.m.sid27 = "idle" -> Neg(c)
    [] c.m.session # "default" /\ q.s = "key" /\ c.m.sid27 = "seed" ->
         Pos([c EXCEPT !.m.sid27 = "idle", !.m.unlocked = TRUE], q)

\* The callbacks of 28 and 85 take the request over whatever the answer was, with its
\* suppress bit, which no value they are compared with has; uds_service_28_process
\* applies it in the same pass.
Service28(c, q) ==
  LET a == IF c.m.session = "default" THEN Neg(c) ELSE Pos(c, q)
  IN IF q.quiet THEN a ELSE [a EXCEPT !.m.txOff = (q.s = "28off")]
Service85(c, q) ==
  LET a == IF c.m.session = "default" THEN Neg(c) ELSE Pos(c, q)
  IN [a EXCEPT !.m.dtcOn = (q.s = "85on" /\ ~q.quiet)]

Service2E(c, q) ==
  IF c.m.session = "default" \/ ~c.m.unlocked THEN Neg(c)
  ELSE Pos([c EXCEPT !.m.slot = q.d], q)

Service(c, q) ==
  CASE q.s \in {"1001", "1002", "1003"} -> Service10(c, q)
    [] q.s = "11" -> Service11(c, q)
    [] q.s \in {"seed", "key"} -> Service27(c, q)
    [] q.s \in {"28on", "28off"} -> Service28(c, q)
    [] q.s \in {"85on", "85off"} -> Service85(c, q)
    [] q.s = "2E" -> Service2E(c, q)
    [] q.s = "3E" -> Pos(c, q)
-----------------------------------------------------------------------------
(* A pass of uds_user_process.                                               *)
\* dcm_main_function: an idle context takes a request, the physical one first, and
\* serves it; a taken one looks whether its service has come to a result.
Take(c, h) ==
  Service([c EXCEPT !.rx[h] = None, !.m.s3 = 0, !.to = c.rx[h], !.ch = h], c.rx[h])

Result(c) ==
  LET idle == [c EXCEPT !.m.busy = None, !.to = c.m.busy]
  IN CASE c.m.s3 >= S3 -> idle
       [] c.m.s3 < S3 /\ c.m.busy.s = "11" /\ c.m.nrc11 = "POS" ->
            [idle EXCEPT !.ans = "pos", !.m.nrc11 = "PEDING"]
       [] c.m.s3 < S3 /\ c.m.busy.s = "11" /\ c.m.nrc11 = "PEDING" -> idle
       [] c.m.s3 < S3 /\ (c.m.busy.s = "11" => c.m.nrc11 = "INIT") -> c

DcmMain(c) ==
  CASE c.m.busy # None -> Result(c)
    [] c.m.busy = None /\ c.rx["phys"] # None -> Take(c, "phys")
    [] c.m.busy = None /\ c.rx["phys"] = None /\ c.rx["func"] # None -> Take(c, "func")
    [] c.m.busy = None /\ c.rx["phys"] = None /\ c.rx["func"] = None -> c

\* Flash_Task_Wait: the main loop stands until the queue is empty.
Flash_Task_Wait(c) ==
  [c EXCEPT !.flash = "none", !.nv = [k \in DOMAIN @ |-> @[k] \/ k = c.flash]]

\* eeprom_drv_write reads the sector first, which waits for the queue as well.
Store(c, k) == [Flash_Task_Wait(c) EXCEPT !.flash = k]

\* bootloader_main_process, the steps that the application reaches.
WriteFlags(c) == Store(Store(Store(c, "update"), "chg"), "jump")
\* Mutant: the flags are left to the flash task.
ChkUpdateFlgAtOnce(c) ==
  [WriteFlags(c) EXCEPT !.m.step = "ECU_RESET", !.m.left = GoReset]
\* Mutant: the step is not left.
ChkUpdateFlgStays(c) == [Flash_Task_Wait(WriteFlags(c)) EXCEPT !.m.left = GoReset]
ChkUpdateFlg(c) ==
  [Flash_Task_Wait(WriteFlags(c)) EXCEPT !.m.step = "ECU_RESET", !.m.left = GoReset]
BlMain(c) ==
  CASE c.m.step = "CHK_UPDATE_FLG" -> ChkUpdateFlg(c)
    [] c.m.step = "ECU_RESET" -> [c EXCEPT !.reset = (c.m.left = 0)]
    [] c.m.step = "PENDING" -> c

\* Mutant: the reset does not wait for the answer.
Service11ProcessBlind(c) ==
  CASE ~c.m.reset11 -> [c EXCEPT !.m.t11 = 0]
    [] c.m.reset11 /\ c.m.t11 >= Dly -> [c EXCEPT !.reset = TRUE]
    [] c.m.reset11 /\ c.m.t11 < Dly -> c
\* uds_service_11_process: the answer after one delay, the reset after another.
Service11Process(c) ==
  CASE ~c.m.reset11 -> [c EXCEPT !.m.t11 = 0]
    [] c.m.reset11 /\ c.m.t11 >= Dly /\ c.m.nrc11 = "INIT" ->
         [c EXCEPT !.m.nrc11 = "POS", !.m.t11 = 0, !.m.session = "default"]
    [] c.m.reset11 /\ c.m.t11 >= Dly + After /\ c.m.nrc11 = "PEDING" -> [c EXCEPT !.reset = TRUE]
    [] OTHER -> c

\* Mutant: the setting is left as it is.
Service85ProcessLeaves(c) == c
Service85Process(c) == [c EXCEPT !.m.dtcOn = (@ \/ c.m.session = "default")]

\* Mutant: the slot is emptied also while nothing is stored yet.
Service2EProcessEmpties(c) ==
  [(IF c.m.slot # "none" /\ c.m.t2e > Warm THEN Store(c, c.m.slot) ELSE c) EXCEPT !.m.slot = "none"]
Service2EProcess(c) ==
  IF c.m.slot = "none" \/ c.m.t2e < Warm THEN c
  ELSE [Store(c, c.m.slot) EXCEPT !.m.slot = "none"]

\* uds_user_period_10ms_process, every Per10-th pass; the counters go no further than
\* what they are compared with.
UpTo(n, k) == IF n < k THEN n + 1 ELSE n
Period10ms(c) ==
  IF c.m.cnt + 1 < Per10 THEN [c EXCEPT !.m.cnt = @ + 1]
  ELSE [c EXCEPT !.m.cnt = 0, !.m.t11 = UpTo(@, Dly + After), !.m.t2e = UpTo(@, Warm + 1)]


\* What the tester waits for after the pass.
OwedAfter(c) ==
  CASE c.reset -> "none"
    [] ~c.reset /\ c.ans = "none" -> owed
    [] ~c.reset /\ c.ans = "pend" /\ c.ch = "phys" -> c.to.s
    [] ~c.reset /\ c.ans # "none" /\ c.ans # "pend" /\ c.ch = "phys" -> "none"
    [] ~c.reset /\ c.ans # "none" /\ c.ch = "func" -> owed
WantAfter(c) ==
  [d \in Dids |-> IF c.reset THEN c.nv[d]
                  ELSE want[d] \/ (c.to.s = "2E" /\ c.to.d = d /\ c.ans = "pos")]

\* The reset leaves the flash queue unfinished; the jump flag decides what starts.
Pass ==
  /\ run = "app" /\ ~out
  /\ \E a \in {DcmMain(Context)} : \E b \in {BlMain(a)} : \E s \in {Service11Process(b)} :
     \E w \in {Service2EProcess(Service85Process(s))} :
     \E c \in {Period10ms(w)} :
       /\ ram' = IF c.reset THEN Ram0 ELSE c.m
       /\ rx' = IF c.reset THEN [h \in Chan |-> None] ELSE c.rx
       /\ flash' = IF c.reset THEN "none" ELSE c.flash
       /\ nv' = c.nv
       /\ out' = (~c.reset /\ c.ans \in {"pos", "neg", "pend"})
       /\ run' = IF c.reset /\ c.nv.jump THEN "boot" ELSE "app"
       /\ life' = (life # c.reset)
       /\ lag' = IF c.reset \/ c.m.cnt = 0 THEN 0 ELSE lag
       /\ owed' = OwedAfter(c) /\ want' = WantAfter(c)

\* dcm_period_10ms_process with dcm_server_time_process; the soft timer runs along.
Minus(n) == IF n = 0 THEN 0 ELSE n - 1
ServerTime(m) ==
  LET s == IF m.s3 >= S3 THEN "default" ELSE m.session
  IN [m EXCEPT !.session = s, !.unlocked = (@ /\ s # "default")]
Period10 ==
  /\ run = "app" /\ lag < Lag /\ lag' = lag + 1
  /\ ram' = ServerTime([ram EXCEPT !.s3 = UpTo(@, S3), !.left = Minus(@)])
  /\ UNCHANGED <<run, rx, flash, nv, out, life, owed, want>>
-----------------------------------------------------------------------------
(* The surroundings.                                                         *)
\* The tester sends one physical request at a time; the transport protocol takes a
\* request while the buffer of its address is free.
Ask(h) ==
  /\ run = "app" /\ rx[h] = None
  /\ h = "phys" => owed = "none"
  /\ \E q \in Asked[h] :
       /\ q.s = "2E" => EarlyWrites \/ ram.t2e >= Warm
       /\ rx' = [rx EXCEPT ![h] = q]
       /\ owed' = IF h = "phys" THEN "asked" ELSE owed
  /\ UNCHANGED <<run, ram, flash, nv, out, lag, life, want>>

\* The tick hands the answer to Can_Transmit, which drops it while sending is disabled.
Can_Transmit ==
  /\ out /\ out' = FALSE
  /\ UNCHANGED <<run, ram, rx, flash, nv, lag, life, owed, want>>

FlashDone ==
  /\ run = "app" /\ flash # "none" /\ flash' = "none" /\ nv' = [nv EXCEPT ![flash] = TRUE]
  /\ UNCHANGED <<run, ram, rx, out, lag, life, owed, want>>

BootReturns ==
  /\ run = "boot" /\ run' = "app" /\ ram' = Ram0
  /\ nv' = [k \in DOMAIN nv |-> k \notin HandOver /\ nv[k]]
  /\ UNCHANGED <<rx, flash, out, lag, life, owed, want>>

Next == (\E h \in Chan : Ask(h)) \/ Pass \/ Period10 \/ Can_Transmit \/ FlashDone \/ BootReturns

\* The scheduler runs both tasks again and again, the tick and the flash engine go on.
Fairness == WF_vars(Pass) /\ WF_vars(Period10) /\ WF_vars(Can_Transmit) /\ WF_vars(FlashDone)
Spec == Init /\ [][Next]_vars /\ Fairness
-----------------------------------------------------------------------------
\* A physical request is answered in the end, for good and not only with response
\* pending, or the ECU resets: whatever else is asked through the other buffer, and
\* whichever of S3, the delays and the hand-over comes first.
RequestsAnswered == owed # "none" ~> owed = "none"

\* A reset that ends a pending 10 02 finds all the hand-over in the flash, so that the
\* boot loader comes up and answers; also when the reset is an earlier service 11's.
HandedOver ==
  [][life' # life /\ owed = "1002" => nv'.update /\ nv'.chg /\ nv'.jump /\ run' = "boot"]_vars

\* No reset comes while a service 11 that was granted is unanswered: not from an earlier
\* one's delay either.
ResetAnswered == [][life' # life => owed # "11"]_vars

\* A write that was answered positively is stored, unless a reset comes before.
WritesStored == \A d \in Dids : want[d] ~> (nv[d] \/ ~want[d])

\* A tester that goes away, or changes the session, leaves no DTC setting off behind:
\* whichever way the default session is come to.
DtcSettingReturns ==
  ram.session = "default" ~> ram.dtcOn \/ ram.session # "default" \/ run = "boot"

\* A commanded reset loses no write: m0_flash.c has the synchronous calls for the use
\* just before a reset.
ResetKeepsWrites ==
  [][life' # life => ram.slot = "none" /\ (flash = "none" \/ nv'[flash])]_vars

\* Switching off normal communication messages does not silence diagnostic answers.
AnswersLeave == [][out /\ ~out' => ~ram.txOff]_vars
=============================================================================
