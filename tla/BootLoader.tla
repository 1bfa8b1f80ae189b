----------------------------- MODULE BootLoader -----------------------------
(***************************************************************************)
(* The boot loader of the CM0+ core and the diagnostic services it offers: *)
(* the main loop pass uds_user_process (DCM, then bootloader_main_process, *)
(* then service 11), the 10 ms timer task, the start-up decision of        *)
(* hardware_init, and the blocking flash operations, one row or one        *)
(* emulated EEPROM word at a time, between which the supply or the         *)
(* watchdog may reset the core.                                            *)
(*                                                                         *)
(* Time is counted in units of about a second, the period of the watchdog: *)
(* the shorter delays of the code (30 ms before the jump, some 10 ms of    *)
(* service 11) elapse within one.  A file is Rows rows and a row travels   *)
(* in one block.  The tester may repeat any earlier request of the         *)
(* download sequence, and loses any answer.                                *)
(***************************************************************************)
EXTENDS Naturals, Sequences

CONSTANTS AppFiles,      \* the files the tester may download
          Image,         \* [AppFiles -> [region, marked]]
          Rows,          \* rows of an application region
          MarkRow,       \* the row that holds the dependency marker
          S3, Dw, Rst,   \* S3_SERVER_TIME, BL_APP_DW_TIME = BOOT_COMM_TIME, BL_GO_RESET_TIME
          SecurityNum, Delay,   \* attempts and delay of service 27
          MaxCuts,       \* bound on supply failures
          MixFiles       \* the tester may leave a download for another file's

ASSUME BootAssumption ==
  /\ "driver" \notin AppFiles   \* the flash driver is a file of its own
  /\ {Rows, MarkRow, S3, Dw, Rst, SecurityNum, Delay} \subseteq Nat \ {0}
  /\ MarkRow <= Rows /\ S3 > Dw + Rst /\ MaxCuts \in Nat /\ MixFiles \in BOOLEAN
  /\ Image \in [AppFiles -> [region : {"m0", "m4"}, marked : BOOLEAN]]

VARIABLES run,     \* which program runs: "boot" or "app"
          mem,     \* the flash regions m0, m4 and pre, row by row
          nv,      \* the words at APP_BOOT_JUMP_FLAG, APP_UPDATE_FLAG and APP_BOOT_CHG_FLAG
          work,    \* the flash operations of the pass still to be carried out
          bl,      \* s_bl_process_step, s_bl_info and the CRC
          dcm,     \* sessions, security, transfer and pending answer of the DCM
          tmr,     \* dw: s_bl_app_dw_timer, left: the timer of the step, s3, delay
          tester,  \* its stage in the sequence, its file, the final answer it is owed
          cuts,    \* supply failures so far
          torn     \* one of them hit the installation of an image

vars == <<run, mem, nv, work, bl, dcm, tmr, tester, cuts, torn>>

Blank == <<"blank", 0>>
Junk == <<"junk", 0>>
Empty == "empty"          \* an erased EEPROM word
None == "none"
Driver == [region |-> "ram", marked |-> FALSE]
Regions == {"m0", "m4", "pre"}
App == {"m0", "m4"}

FileOf(f) == IF f = "driver" THEN Driver ELSE Image[f]
Size(f) == IF f = "driver" THEN 1 ELSE Rows
Block(f, n) == <<f, n>>
\* the CRC a tester announces: that of the blocks it sends, unless the file is
\* damaged or the frame carries another
CrcOf(f, good) == IF good THEN [i \in 1..Size(f) |-> Block(f, i)] ELSE <<Junk>>
Whole(f) == [i \in 1..Rows |-> Block(f, i)]
Marked(v) == v[1] = "old" \/ (v[1] \in AppFiles /\ Image[v[1]].marked)

(* RAM after a reset *)
BlInit == [step |-> "RESET", upd |-> FALSE, valid |-> FALSE, flag |-> FALSE, drv |-> FALSE,
           dl |-> None, pa |-> 1, cnt |-> 0, crc |-> <<>>]
DcmInit == [session |-> "default", sec |-> "lock", sts |-> "idle", num |-> 0,
            start |-> FALSE, seq |-> 0, over |-> FALSE,
            busy |-> None, res |-> None, forged |-> FALSE, r11 |-> None]
TmrInit == [dw |-> 0, left |-> 0, s3 |-> 0, delay |-> 0]

(* hardware_init: the jump flag and the first word decide which program runs *)
Starts(m, n) == IF n.jump = "app" /\ m.m0[1] # Blank THEN "app" ELSE "boot"

Init == /\ \E old \in BOOLEAN :
             /\ mem = [r \in Regions |->
                         IF old /\ r \in App THEN Whole("old") ELSE [i \in 1..Rows |-> Blank]]
             /\ nv = [k \in {"jump", "update", "chg"} |-> IF old /\ k = "jump" THEN "app" ELSE Empty]
        /\ run = Starts(mem, nv)
        /\ work = <<>> /\ bl = BlInit /\ dcm = DcmInit /\ tmr = TmrInit
        /\ tester = [stage |-> 0, file |-> "driver", owed |-> None]
        /\ cuts = 0 /\ torn = FALSE

-----------------------------------------------------------------------------
(* Flash operations.  A word or row is erased before it is programmed, and  *)
(* programming a row that is not blank spoils it.                           *)

NvWrite(k, v) == <<[op |-> "nv", key |-> k, to |-> Empty], [op |-> "nv", key |-> k, to |-> v]>>
FlashErase(r, n) == [i \in 1..n |-> [op |-> "erase", at |-> r, row |-> i]]
FlashWrite(r, i, v) == <<[op |-> "write", at |-> r, row |-> i, val |-> v]>>
\* Mutant: the last row is not copied.
FlashCopyShort(r, n) == [i \in 1..(n - 1) |-> [op |-> "copy", at |-> r, row |-> i]]
FlashCopy(r, n) == [i \in 1..n |-> [op |-> "copy", at |-> r, row |-> i]]
SystemReset == <<[op |-> "reset"]>>

Program(m, r, i, v) == [m EXCEPT ![r][i] = IF @ \in {Blank, v} THEN v ELSE Junk]

(* What a pass of the main loop works on: the state, the operations it      *)
(* queues, the answer it gives, and the CRC a 31 01 0202 brought            *)
(* (s_bl_recv_crc, always read in the pass that set it).                    *)
Ctx == [bl |-> bl, dcm |-> dcm, tmr |-> tmr, work |-> <<>>, ans |-> None, recv |-> <<>>]
Queue(c, ops) == [c EXCEPT !.work = @ \o ops]
Pos(c) == [c EXCEPT !.ans = "pos"]
Neg(c) == [c EXCEPT !.ans = "neg"]
\* NRC 78: service s answers later
Pend(c, s) == [c EXCEPT !.ans = "pend", !.dcm.busy = s, !.dcm.res = None]
\* a step that waits t; left is 0 in a step that waits for no timer
ToIn(c, step, t) == [c EXCEPT !.bl.step = step, !.tmr.left = t]
To(c, step) == ToIn(c, step, 0)

-----------------------------------------------------------------------------
(* The services.                                                            *)

\* num is 0 where it is not read: the next seed sets it
Session(c, s) == [c EXCEPT !.dcm.session = s, !.dcm.sec = "lock", !.dcm.sts = "idle", !.dcm.num = 0]

Service10(c, q) ==
  CASE q.kind = "1001" ->
         IF c.bl.valid
         THEN Session(Queue(Pend(To(c, "GOTO_APP"), "10"), NvWrite("chg", "1001")), "default")
         ELSE Session(Pos(c), "default")
    [] q.kind = "1002" /\ c.dcm.session = "default" -> Neg(c)
    [] q.kind = "1002" /\ c.dcm.session # "default" ->
         Session(Pos(IF c.bl.step = "SW_PROGRAMMING_SESSION_PENDING"
                     THEN To(c, "SW_PROGRAMMING_SESSION") ELSE c), "prog")
    [] q.kind = "1003" -> Session(Pos(c), "ext")

Service11(c) == IF c.dcm.session = "default" THEN Neg(c)
                ELSE [Pend(c, "11") EXCEPT !.dcm.r11 = "asked"]

Seed(c, n) == Pos([c EXCEPT !.dcm.sts = "seed", !.dcm.num = n])
SeedAsked(c) ==
  CASE c.dcm.sts = "key" -> Seed(c, c.dcm.num)
    [] c.dcm.sts = "delay" /\ c.tmr.delay > 0 -> Neg(c)
    [] c.dcm.sts \in {"idle", "seed"} \/ (c.dcm.sts = "delay" /\ c.tmr.delay = 0) -> Seed(c, SecurityNum)
KeySent(c, good) ==
  CASE c.dcm.sts # "seed" -> Neg(c)
    [] c.dcm.sts = "seed" /\ good -> Pos([c EXCEPT !.dcm.sts = "idle", !.dcm.num = 0, !.dcm.sec = "L3"])
    [] c.dcm.sts = "seed" /\ ~good /\ c.dcm.num # 1 ->
         Neg([c EXCEPT !.dcm.sts = "key", !.dcm.num = @ - 1])
    [] c.dcm.sts = "seed" /\ ~good /\ c.dcm.num = 1 ->
         Neg([c EXCEPT !.dcm.sts = "delay", !.dcm.num = 0, !.tmr.delay = Delay])
Service27(c, q) ==
  CASE c.dcm.session # "prog" -> Neg(c)
    [] c.dcm.session = "prog" /\ q.kind = "seed" -> SeedAsked(c)
    [] c.dcm.session = "prog" /\ q.kind # "seed" -> KeySent(c, q.kind = "key")

\* Mutant: the security level is not asked for.
DeniedBySession(c) == c.dcm.session # "prog"
Denied(c) == c.dcm.session # "prog" \/ c.dcm.sec # "L3"
Downloading(c) == c.bl.step \in {"DOWNLOAD_APP_PENDING", "DOWNLOAD_FLASHDRIVER_PENDING"}

(* bl_service_34_cbk: a start below the applications protects the boot code *)
Download(c, f) ==
  LET d == [c EXCEPT !.bl.dl = f, !.bl.cnt = 0]
      e == [d EXCEPT !.bl.pa = 1, !.bl.crc = <<>>]
  IN CASE c.bl.step = "DOWNLOAD_APP_PENDING" ->
            IF FileOf(f).region = "ram" THEN ToIn(e, "ECU_RESET", Rst) ELSE e
       [] c.bl.step # "DOWNLOAD_APP_PENDING" -> d
Service34(c, q) ==
  LET d == Pos([c EXCEPT !.dcm.start = TRUE, !.dcm.over = FALSE, !.dcm.seq = 1])
  IN IF Denied(c) THEN Neg(c) ELSE IF Downloading(c) THEN Download(d, q.file) ELSE d

(* bl_service_36_cbk; the flash driver's bytes and their address are left out *)
Transfer(c, v) ==
  LET d == [c EXCEPT !.tmr.dw = Dw, !.dcm.seq = @ + 1, !.bl.cnt = @ + 1,
                     !.dcm.over = @ \/ c.bl.cnt + 1 >= Size(c.bl.dl)]
  IN IF c.bl.step = "DOWNLOAD_APP_PENDING"
     THEN Queue([d EXCEPT !.bl.pa = @ + 1, !.bl.crc = Append(@, v)],
                FlashWrite("pre", c.bl.pa, v))
     ELSE d
\* Mutant: the block sequence counter is not compared.
Service36Any(c, q) ==
  IF Denied(c) \/ ~c.dcm.start THEN Neg(c)
  ELSE IF Downloading(c) THEN Transfer(Pos(c), Block(q.file, q.num)) ELSE Pos(c)
Service36(c, q) ==
  IF Denied(c) \/ ~c.dcm.start \/ c.dcm.seq # q.num THEN Neg(c)
  ELSE IF Downloading(c) THEN Transfer(Pos(c), Block(q.file, q.num)) ELSE Pos(c)

Service37(c) ==
  CASE Denied(c) \/ ~c.dcm.over -> Neg(c)
    [] ~Denied(c) /\ c.dcm.over /\ ~Downloading(c) -> Pos(c)
    [] ~Denied(c) /\ c.dcm.over /\ c.bl.step = "DOWNLOAD_APP_PENDING" -> To(Pos(c), "DOWNLOAD_APP")
    [] ~Denied(c) /\ c.dcm.over /\ c.bl.step = "DOWNLOAD_FLASHDRIVER_PENDING" ->
         To(Pos(c), "DOWNLOAD_FLASHDRIVER")

(* bl_service_31_cbk, then the routine *)
Integrity(c, q) ==
  CASE c.bl.step = "DOWNLOAD_INTEGRITY_PENDING" ->
         [To(Pend(c, "31"), "DOWNLOAD_INTEGRITY") EXCEPT !.recv = CrcOf(q.file, q.num = 0), !.bl.flag = TRUE]
    [] c.bl.step = "DOWNLOAD_FLASHDRIVER" ->
         [To(Pos(c), "CHK_FLASHDRIVER_INTEGRITY") EXCEPT !.bl.drv = TRUE]
    [] c.bl.step \notin {"DOWNLOAD_INTEGRITY_PENDING", "DOWNLOAD_FLASHDRIVER"} -> Pos(c)
EraseMemory(c) ==
  IF c.bl.step \in {"ERASE_MEMORY_PENDING", "CHK_APP_DEPENDENCIES_PENDING"}
  THEN LET d == [Pend(c, "31") EXCEPT !.bl.flag = TRUE]
       IN IF c.bl.drv THEN To(d, "ERASE_MEMORY") ELSE d
  ELSE Pos(c)
Dependencies(c) ==
  LET r == FileOf(c.bl.dl).region
  IN CASE c.bl.step # "CHK_APP_DEPENDENCIES_PENDING" -> Pos(c)
       [] c.bl.step = "CHK_APP_DEPENDENCIES_PENDING" ->
            IF Marked(mem[r][MarkRow])
            THEN IF r = "m0" THEN ToIn(Pos(c), "ERASE_MEMORY_PENDING", Dw)
                             ELSE ToIn(Pos(c), "WAIT_FOR_REST", Rst)
            ELSE ToIn(Neg(c), "ECU_RESET", Rst)
Service31(c, q) ==
  CASE Denied(c) -> Neg(c)
    [] ~Denied(c) /\ q.kind = "integrity" -> Integrity(c, q)
    [] ~Denied(c) /\ q.kind = "erase" -> EraseMemory(c)
    [] ~Denied(c) /\ q.kind = "dep" -> Dependencies(c)

Serve(c, q) ==
  LET d == [c EXCEPT !.tmr.s3 = 0]
  IN CASE q.kind \in {"1001", "1002", "1003"} -> Service10(d, q)
       [] q.kind = "11" -> Service11(d)
       [] q.kind \in {"seed", "key", "badkey"} -> Service27(d, q)
       [] q.kind = "34" -> Service34(d, q)
       [] q.kind = "36" -> Service36(d, q)
       [] q.kind = "37" -> Service37(d)
       [] q.kind \in {"integrity", "erase", "dep"} -> Service31(d, q)
       [] q.kind = "3E" -> Pos(d)

(* dcm_main_function: a pending answer comes first *)
DcmMain(c, q) ==
  CASE c.dcm.busy # None /\ c.tmr.s3 >= S3 -> [c EXCEPT !.dcm.busy = None]
    [] c.dcm.busy # None /\ c.tmr.s3 < S3 /\ c.dcm.res # None ->
         [c EXCEPT !.dcm.busy = None, !.dcm.res = None, !.ans = c.dcm.res,
                   !.dcm.r11 = IF @ = "asked" THEN "answered" ELSE @]
    [] c.dcm.busy # None /\ c.tmr.s3 < S3 /\ c.dcm.res = None -> c
    [] c.dcm.busy = None /\ q.kind # None -> Serve([c EXCEPT !.dcm.forged = FALSE], q)
    [] c.dcm.busy = None /\ q.kind = None -> c

-----------------------------------------------------------------------------
(* bootloader_main_process.                                                 *)

ChkUpdateFlg(c) ==
  LET d == [To(c, "CHK_APP_VALID") EXCEPT !.bl.drv = FALSE, !.bl.upd = (nv.update = "1")]
  IN IF nv.update = "1" THEN Queue(d, NvWrite("update", Empty)) ELSE d

\* Mutant: the answer the application left over is forgotten.
ChkAppValidSilent(c) ==
  LET d == [c EXCEPT !.bl.valid = mem.m0[1] # Blank]
  IN IF c.bl.upd THEN To([d EXCEPT !.dcm.session = "prog"], "REQUEST_SEED")
     ELSE IF ~d.bl.valid THEN To(d, "SW_PROGRAMMING_SESSION_PENDING")
     ELSE To([d EXCEPT !.dcm.session = "prog"], "GOTO_APP")

ChkAppValid(c) ==
  LET valid == mem.m0[1] # Blank
      chg == IF valid THEN nv.chg ELSE "init"
      d == [c EXCEPT !.bl.valid = valid]
      e == IF valid THEN d ELSE Queue(d, NvWrite("chg", "init"))
      prog == [e EXCEPT !.dcm.session = "prog"]
  IN CASE c.bl.upd ->
            LET s == To(prog, "REQUEST_SEED")
            IN IF chg = "init" THEN s
               ELSE Queue([s EXCEPT !.dcm.forged = (chg = "1002")], NvWrite("chg", "init"))
       [] ~c.bl.upd /\ ~valid -> To(e, "SW_PROGRAMMING_SESSION_PENDING")
       [] ~c.bl.upd /\ valid -> To(Queue(prog, NvWrite("update", Empty)), "GOTO_APP")

Erase(c) ==
  Queue([To(c, "DOWNLOAD_APP_PENDING") EXCEPT !.bl.flag = FALSE, !.tmr.dw = Dw, !.dcm.res = "pos"],
        FlashErase("pre", Rows))

\* Mutant: the region is programmed over what is there.
InstallOver(c) ==
  LET r == FileOf(c.bl.dl).region
      d == [c EXCEPT !.bl.flag = FALSE]
  IN IF c.recv = c.bl.crc
     THEN Queue([To(d, "CHK_APP_DEPENDENCIES_PENDING") EXCEPT !.dcm.res = "pos"],
                FlashCopy(r, Size(c.bl.dl)))
     ELSE [ToIn(d, "ECU_RESET", Rst) EXCEPT !.dcm.res = "neg"]

Install(c) ==
  LET r == FileOf(c.bl.dl).region
      d == [c EXCEPT !.bl.flag = FALSE]
  IN IF c.recv = c.bl.crc
     THEN Queue([To(d, "CHK_APP_DEPENDENCIES_PENDING") EXCEPT !.dcm.res = "pos"],
                FlashErase(r, Size(c.bl.dl)) \o FlashCopy(r, Size(c.bl.dl)))
     ELSE [ToIn(d, "ECU_RESET", Rst) EXCEPT !.dcm.res = "neg"]

Follows == [RESET |-> "CHK_UPDATE_FLG", SW_PROGRAMMING_SESSION |-> "REQUEST_SEED",
            REQUEST_SEED |-> "RESPONSE_KEY", RESPONSE_KEY |-> "WRITING_FINGERPRINT",
            WRITING_FINGERPRINT |-> "DOWNLOAD_FLASHDRIVER_PENDING",
            DOWNLOAD_APP |-> "DOWNLOAD_INTEGRITY_PENDING"]
Timed == {"WAIT_FOR_REST", "GOTO_APP", "ECU_RESET", "ERASE_MEMORY_PENDING"}
DwTimed == {"DOWNLOAD_APP_PENDING", "DOWNLOAD_INTEGRITY_PENDING", "CHK_APP_DEPENDENCIES_PENDING"}

TimedOut(c) ==
  CASE c.bl.step = "WAIT_FOR_REST" -> To(c, "GOTO_APP")
    [] c.bl.step = "GOTO_APP" -> Queue(c, NvWrite("jump", "app") \o SystemReset)
    [] c.bl.step = "ECU_RESET" -> Queue(c, SystemReset)
    [] c.bl.step \in DwTimed \cup {"ERASE_MEMORY_PENDING"} -> ToIn(c, "ECU_RESET", Rst)

BlMain(c) ==
  LET s == c.bl.step
  IN CASE s = "CHK_UPDATE_FLG" -> ChkUpdateFlg(c)
       [] s = "CHK_APP_VALID" -> ChkAppValid(c)
       [] s \in DOMAIN Follows -> To(c, Follows[s])
       [] s = "DOWNLOAD_FLASHDRIVER_PENDING" -> [c EXCEPT !.tmr.dw = Dw]
       [] s = "CHK_FLASHDRIVER_INTEGRITY" -> ToIn(c, "ERASE_MEMORY_PENDING", Dw)
       [] s = "ERASE_MEMORY" -> IF c.bl.flag THEN Erase(c) ELSE c
       [] s = "DOWNLOAD_INTEGRITY" -> IF c.bl.flag THEN Install(c) ELSE c
       [] s \in Timed -> IF c.tmr.left = 0 THEN TimedOut(c) ELSE c
       [] s \in DwTimed -> IF c.tmr.dw = 0 THEN TimedOut(c) ELSE c
       [] s \in {"SW_PROGRAMMING_SESSION_PENDING", "DOWNLOAD_FLASHDRIVER"} -> c

NoRequest == [kind |-> None, file |-> "driver", num |-> 0]
Pass(c, q) == BlMain(DcmMain(c, q))

-----------------------------------------------------------------------------
(* The tester: the download sequence, of which it may repeat any earlier    *)
(* request, and the requests that belong to no place in it.                 *)

Order == <<"1002", "seed", "key", "34", "36", "37", "integrity", "erase",
           "34", "36", "37", "integrity", "dep">>
AnyTime == {"1001", "1003", "3E", "11", "badkey"}

Files == AppFiles \cup {"driver"}
Requests == [kind : {Order[i] : i \in DOMAIN Order} \cup AnyTime, file : Files, num : 0..Rows]

\* it takes up another file only when no block of the last is left in the flash
MayTake(f) == f = tester.file \/ MixFiles \/ \A i \in 1..Rows : mem.pre[i] = Blank

\* it goes on, repeats its last request, or starts over: the session, the driver
\* (perhaps without having unlocked), the erasing or the download of the file
InOrder(k, q) ==
  /\ k \in {tester.stage, tester.stage + 1} \/ (k <= tester.stage /\ k \in {1, 8, 9})
     \/ (k = 4 /\ tester.stage > 0)
  /\ q.kind = Order[k]
  /\ IF k < 9 THEN q.file = "driver"
     ELSE q.file \in AppFiles /\ (IF k = 9 THEN MayTake(q.file) ELSE q.file = tester.file)
  /\ q.num \in CASE q.kind = "36" -> 1..Size(q.file)
                 [] q.kind = "integrity" /\ q.file # "driver" -> {0, 1}
                 [] q.kind # "36" /\ (q.kind = "integrity" => q.file = "driver") -> {0}

Become(c) == /\ bl' = c.bl /\ dcm' = c.dcm /\ tmr' = c.tmr /\ work' = c.work

\* the stage the tester believes itself at: the last request it heard a positive answer to
Heard(c, k, before) == IF c.ans = "pos" THEN {k, before} ELSE {before}
Owes(c, q) == IF c.ans = None THEN tester.owed
              ELSE IF c.ans = "pend" /\ q.kind # "1001" THEN q.kind ELSE None
Ready == run = "boot" /\ work = <<>>
\* the automatic steps take a pass each, far less than a frame takes on the bus;
\* a tester that was granted a reset waits for it
Automatic == DOMAIN Follows \cup {"CHK_UPDATE_FLG", "CHK_APP_VALID", "CHK_FLASHDRIVER_INTEGRITY"}
Asks == /\ Ready /\ tester.owed = None /\ ~dcm.forged /\ dcm.r11 # "answered"
        /\ bl.step \notin Automatic

RequestInOrder ==
  /\ Asks
  /\ \E k \in DOMAIN Order, f \in Files, n \in 0..Rows :
       LET q == [kind |-> Order[k], file |-> f, num |-> n]
       IN /\ InOrder(k, q)
          /\ \E c \in {Pass(Ctx, q)} :
               /\ Become(c)
               /\ \E s \in Heard(c, k, IF k < tester.stage THEN k - 1 ELSE tester.stage) :
                    tester' = [stage |-> s, owed |-> Owes(c, q),
                               file |-> IF k >= 9 THEN f ELSE tester.file]
  /\ UNCHANGED <<run, mem, nv, cuts, torn>>

\* a wrong key follows a seed, and takes the tester back to asking for one
AfterAnyTime(kind) == CASE kind = "3E" -> tester.stage
                        [] kind = "badkey" -> 1
                        [] kind \notin {"3E", "badkey"} -> 0
RequestAnyTime ==
  /\ Asks
  /\ \E kind \in AnyTime :
       /\ kind = "badkey" => tester.stage = 2
       /\ LET q == [kind |-> kind, file |-> "driver", num |-> 0]
          IN \E c \in {Pass(Ctx, q)} :
               /\ Become(c)
               /\ tester' = [tester EXCEPT !.owed = Owes(c, q), !.stage = AfterAnyTime(kind)]
  /\ UNCHANGED <<run, mem, nv, cuts, torn>>

StageAt(owed) == CASE owed = "1002" -> 1 [] owed = "erase" -> 8 [] owed = "integrity" -> 12
                   [] OTHER -> 0
\* a pass without a request of the tester's: timers, automatic steps, pending
\* answers, and the 10 02 that the boot loader forges for itself
Loop ==
  /\ Ready
  /\ \E c \in {Pass(Ctx, IF dcm.forged THEN [NoRequest EXCEPT !.kind = "1002"] ELSE NoRequest)} :
       /\ c # Ctx
       /\ Become(c)
       /\ tester' = [tester EXCEPT !.owed = IF c.ans = None THEN @ ELSE None,
            !.stage = IF c.ans = "pos" THEN StageAt(tester.owed) ELSE @]
  /\ UNCHANGED <<run, mem, nv, cuts, torn>>

(* uds_service_11_process, before and after the answer *)
Reset11 ==
  /\ Ready
  /\ \/ /\ dcm.r11 = "asked" /\ dcm.res = None
        /\ dcm' = [dcm EXCEPT !.res = "pos", !.session = "default", !.sec = "lock"]
        /\ UNCHANGED work
     \/ /\ dcm.r11 = "answered"
        /\ work' = SystemReset
        /\ UNCHANGED dcm
  /\ UNCHANGED <<run, mem, nv, bl, tmr, tester, cuts, torn>>

(* dcm_period_10ms_process: a unit of time passes once the loop is at rest *)
Minus(n) == IF n = 0 THEN 0 ELSE n - 1
\* Mutant: the end of the session leaves the boot loader where it is.
ServerTimeStays(c) ==
  LET d == IF c.tmr.s3 >= S3 THEN [c EXCEPT !.dcm.session = "default"] ELSE c
  IN IF d.dcm.session = "default" THEN [d EXCEPT !.dcm.sec = "lock"] ELSE d
ServerTime(c) ==
  LET d == IF c.tmr.s3 >= S3 /\ c.dcm.session # "default"
           THEN LET e == [c EXCEPT !.dcm.session = "default"]
                IN IF c.bl.valid THEN Queue(To(e, "GOTO_APP"), NvWrite("chg", "s3")) ELSE e
           ELSE c
  IN IF d.dcm.session = "default" THEN [d EXCEPT !.dcm.sec = "lock"] ELSE d
Tick ==
  /\ Ready /\ dcm.r11 = None /\ ~dcm.forged
  /\ Pass(Ctx, NoRequest) = Ctx
  /\ \E c \in {ServerTime([Ctx EXCEPT
                 !.tmr = [dw |-> IF bl.step \in DwTimed THEN Minus(tmr.dw) ELSE tmr.dw,
                          left |-> Minus(tmr.left), delay |-> Minus(tmr.delay),
                          s3 |-> IF tmr.s3 < S3 THEN tmr.s3 + 1 ELSE S3]])} : Become(c)
  /\ UNCHANGED <<run, mem, nv, tester, cuts, torn>>

-----------------------------------------------------------------------------
(* The flash, resets and the application.                                   *)

Restart(m, n) == /\ run' = Starts(m, n) /\ work' = <<>>
                 /\ bl' = BlInit /\ dcm' = DcmInit /\ tmr' = TmrInit

Flash ==
  /\ work # <<>>
  /\ LET o == Head(work)
     IN IF o.op = "reset"
        THEN /\ Restart(mem, nv)
             /\ tester' = [tester EXCEPT !.owed = IF @ = "11" THEN None ELSE @]
             /\ UNCHANGED <<mem, nv>>
        ELSE /\ work' = Tail(work)
             /\ mem' = CASE o.op = "erase" -> [mem EXCEPT ![o.at][o.row] = Blank]
                         [] o.op = "write" -> Program(mem, o.at, o.row, o.val)
                         [] o.op = "copy" -> Program(mem, o.at, o.row, mem.pre[o.row])
                         [] o.op = "nv" -> mem
             /\ nv' = IF o.op = "nv" THEN [nv EXCEPT ![o.key] = o.to] ELSE nv
             /\ UNCHANGED <<run, bl, dcm, tmr, tester>>
  /\ UNCHANGED <<cuts, torn>>

(* The supply fails, or the watchdog bites: what was not yet done is lost *)
PowerCut ==
  /\ cuts < MaxCuts
  /\ cuts' = cuts + 1
  /\ torn' = (torn \/ \E i \in DOMAIN work : work[i].op \in {"erase", "copy"} /\ work[i].at \in App)
  /\ Restart(mem, nv)
  /\ tester' = [tester EXCEPT !.owed = None]
  /\ UNCHANGED <<mem, nv>>

(* The application serves 10 02: it leaves its word for the boot loader and *)
(* resets; or it resets for a reason of its own.                            *)
AppServes1002 ==
  /\ run = "app" /\ work = <<>> /\ tester.owed = None
  /\ work' = NvWrite("update", "1") \o NvWrite("chg", "1002") \o NvWrite("jump", "boot") \o SystemReset
  /\ tester' = [tester EXCEPT !.owed = "1002", !.stage = 0]
  /\ UNCHANGED <<run, mem, nv, bl, dcm, tmr, cuts, torn>>
AppResets == /\ run = "app" /\ work = <<>> /\ Restart(mem, nv)
             /\ UNCHANGED <<mem, nv, tester, cuts, torn>>

Request == RequestInOrder \/ RequestAnyTime \/ AppServes1002
Next == Request \/ Loop \/ Reset11 \/ Tick \/ Flash \/ PowerCut \/ AppResets

Fairness == WF_vars(Loop) /\ WF_vars(Reset11) /\ WF_vars(Tick) /\ WF_vars(Flash)
Spec == Init /\ [][Next]_vars /\ Fairness
-----------------------------------------------------------------------------
(* Properties.                                                              *)

Steps == DOMAIN Follows \cup Timed \cup DwTimed \cup
         {"CHK_UPDATE_FLG", "CHK_APP_VALID", "DOWNLOAD_FLASHDRIVER_PENDING", "ERASE_MEMORY",
          "CHK_FLASHDRIVER_INTEGRITY", "DOWNLOAD_INTEGRITY", "SW_PROGRAMMING_SESSION_PENDING",
          "DOWNLOAD_FLASHDRIVER"}
Cells == {Blank, Junk} \cup ((Files \cup {"old"}) \X (1..Rows))

\* Every variable keeps its range; no transfer runs past the region it is stored in.
TypeOK ==
  /\ run \in {"boot", "app"}
  /\ mem \in [Regions -> [1..Rows -> Cells]]
  /\ nv \in [{"jump", "update", "chg"} -> {Empty, "app", "boot", "1", "init", "1001", "1002", "s3"}]
  /\ bl.step \in Steps /\ bl.dl \in Files \cup {None} /\ bl.pa \in 1..(Rows + 1)
  /\ bl.cnt \in 0..Rows /\ bl.cnt <= (IF bl.dl = None THEN 0 ELSE Size(bl.dl))
  /\ dcm.session \in {"default", "prog", "ext"} /\ dcm.sec \in {"lock", "L3"}
  /\ dcm.sts \in {"idle", "seed", "key", "delay"} /\ dcm.num \in 0..SecurityNum
  /\ dcm.seq \in 0..(Rows + 1) /\ dcm.busy \in {None, "10", "11", "31"}
  /\ tmr \in [dw : 0..Dw, left : 0..(Dw + Rst), s3 : 0..S3, delay : 0..Delay]
  /\ tester.stage \in 0..Len(Order) /\ tester.file \in Files
  /\ tester.owed \in {None, "1002", "erase", "integrity", "11"}

\* Once the integrity routine has installed a file, the region it names holds
\* exactly the blocks of that file, in order: whatever was repeated, lost or
\* refused on the way, the CRC vouches for what is in the flash.
InstalledIsSent ==
  bl.step = "CHK_APP_DEPENDENCIES_PENDING" /\ work = <<>>
    => mem[FileOf(bl.dl).region] = Whole(bl.dl)

Intact(r) == \E f \in AppFiles \cup {"old"} : mem[r] = Whole(f)
Untouched(r) == \A i \in 1..Rows : mem[r][i] = Blank

\* Whichever way a download ends short of a supply failure in the middle of an
\* installation, the application that starts is whole, and so is the other
\* core's image unless it was never loaded.
StartsWhole == run = "app" => torn \/ (Intact("m0") /\ (Intact("m4") \/ Untouched("m4")))

\* An operation on the application and staging areas is only ever queued in the
\* programming session and with security level 3 unlocked.
Touches(w) == \E i \in DOMAIN w : w[i].op \in {"erase", "write", "copy"}
SafeWrites == [][~Touches(work) /\ Touches(work') => dcm'.session = "prog" /\ dcm'.sec = "L3"]_vars

\* A request to program, to erase, to install or to reset that was answered
\* "response pending" gets its final answer, over the reset from the application
\* into the boot loader too.
PendingAnswered == tester.owed # None ~> tester.owed = None

\* If the tester falls silent, at whatever point, the ECU runs an application
\* again, unless there is none.
ComesBack == []<><<Request>>_vars \/ <>[](run = "app" \/ mem.m0[1] = Blank)

\* As the comments of the boot loader have it, an application runs only if its
\* dependency check succeeded.
StartsVerified ==
  run = "app" => \A r \in App : Untouched(r) \/ (Intact(r) /\ Marked(mem[r][MarkRow]))
==============================================================================
