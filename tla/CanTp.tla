------------------------------- MODULE CanTp -------------------------------
(***************************************************************************)
(* The CAN transport protocol (CanTp/cantp.c, after ISO 15765-2) between   *)
(* the bus and the diagnostic server's buffers (can_dcm.c 205-336).        *)
(*                                                                         *)
(* Received frames and the 1 ms tick are interrupts of one priority; the   *)
(* diagnostic server runs in the main loop.  Data is counted in frames: a  *)
(* message is a number of chunks, chunk k of it a pair <<message, k>>.     *)
(* There is one tester, on the bus, addressing the server physically and   *)
(* functionally.  In this build no transmission is confirmed by the        *)
(* controller, frames have 8 bytes, and no FC of the server carries WT or  *)
(* OVFLW: what only these reach is left out, as are N_Ar and n_as, which a *)
(* tick always beats.  The server receives without blocks (N_PCI_BS is 0), *)
(* but the block size its FC carries is the one of the tester's last FC.   *)
(***************************************************************************)
EXTENDS Integers, Sequences

CONSTANTS
  SnMod,                    \* N_SN_CF_MAX + 1
  NBr, NCr, NBs, NCs,       \* the timeouts of g_cantp_cfg, in ticks
  Dly,                      \* CANTP_STS_CHG_DLY_NUM
  EndWait,                  \* CANTP_MF_RCV_OVER_WAIT_TIME
  RxBuf, TxBuf,             \* the server's buffers, in frames
  MaxReq, MaxRes,           \* frames of the longest request and response
  Grants,                   \* the flow control frames the tester sends
  FuncAnswered,             \* functional requests have responses
  LateWait,                 \* the tester asks to wait also between blocks
  HastyRestart              \* the tester restarts within the tick of an error

ASSUME TpAssumption ==
  /\ {SnMod, NBr, NCr, NBs, NCs, RxBuf, TxBuf} \subseteq Nat \ {0}
  /\ {Dly, EndWait} \subseteq Nat
  /\ {MaxReq, MaxRes} \subseteq Nat \ {0}
  /\ Grants \subseteq [fs : {"CTS", "WT", "OVFLW"}, bs : Nat, stmin : Nat]
  /\ {FuncAnswered, LateWait, HastyRestart} \subseteq BOOLEAN

VARIABLES
  rx,       \* s_cantp_rx_context[h]: sts and sts_dly_cnt
  mf,       \* the rest of it, used by the physical channel only
  tx,       \* s_cantp_tx_context[0]
  dcm,      \* the server's buffers and flags, and the request in service
  tester,   \* the tester
  granted   \* history: the CFs the server may still send

vars == <<rx, mf, tx, dcm, tester, granted>>

Chan == {"phys", "func"}
NoFrame == [ty |-> "none"]
\* The part of the state the handlers thread through their calls.
Context == [rx |-> rx, mf |-> mf, tx |-> tx, dcm |-> dcm, out |-> NoFrame]

\* The tester with nothing under way, its last request being m.
Quiet(m) == [st |-> "idle", msg |-> m, len |-> 0, k |-> 0, num |-> 0, sn |-> 0,
             got |-> <<>>, credit |-> 0]

Init ==
  /\ rx = [h \in Chan |-> [sts |-> "IDLE", dly |-> Dly]]
  /\ mf = [sn |-> 0, cnt |-> 0, len |-> 0, fs |-> "CTS", nbr |-> 0, ncr |-> 0]
  /\ tx = [sts |-> "IDLE", dly |-> Dly, hrh |-> "phys", conf |-> TRUE, sn |-> 0,
           cnt |-> 0, num |-> 0, over |-> FALSE, bs |-> 0, bsCnt |-> 0,
           stmin |-> 0, stCnt |-> 0, nbs |-> 0, ncs |-> 0]
  /\ dcm = [flg |-> [h \in Chan |-> FALSE], reqLen |-> 0, buf |-> <<>>, idx |-> 0,
            txIdx |-> 0, res |-> 0, serving |-> "none"]
  /\ tester = Quiet(0)
  /\ granted = 0
-----------------------------------------------------------------------------
(* What cantp.c calls of the server.                                         *)
\* dcm_rx_indication
RxIndication(c, h, ok) ==
  [c EXCEPT !.dcm.flg[h] = ok, !.dcm.idx = IF h = "phys" THEN 0 ELSE @]

\* dcm_tx_confirmation
TxConfirmation(c) == [c EXCEPT !.dcm.txIdx = 0]

\* dcm_copy_rx_data, of the physical channel: the buffer is overwritten from
\* the index on.
CopyRx(c, chunk) ==
  [c EXCEPT !.dcm.buf = SubSeq(@, 1, c.dcm.idx) \o <<chunk>>, !.dcm.idx = @ + 1]

(* The status changes of cantp.c.                                            *)
Rx(c, h, sts) == [c EXCEPT !.rx[h].sts = sts]
Tx(c, sts) == [c EXCEPT !.tx.sts = sts]
RxDataInit(c, h) == [c EXCEPT !.rx[h] = [sts |-> "IDLE", dly |-> Dly]]
TxDataInit(c) == [c EXCEPT !.tx.sts = "IDLE", !.tx.dly = Dly]

Receiving == {"FF_IND", "CF_IND", "CF_IND_OVER", "FC_REQ", "FC_CON"}
RxErr == {"SF_ERR", "FF_ERR", "CF_ERR"}
TxErr == {"TX_FF_ERR", "TX_CF_ERR", "TX_FC_ERR"}
\* Mutant: a counter counts on below zero.
DownUnguarded(n) == n - 1
Down(n) == IF n > 0 THEN n - 1 ELSE 0
-----------------------------------------------------------------------------
(* Reception.  A request is refused while a response is being sent.          *)
Refused(c) == c.tx.sts \notin {"IDLE", "CF_WAIT"}

\* A new request supersedes the one being received.
\* Mutant: the buffer index of the one being received is kept.
SupersededKept(c, h) ==
  IF c.rx[h].sts \in Receiving THEN TxConfirmation(TxDataInit(c)) ELSE c
Superseded(c, h) ==
  IF c.rx[h].sts \in Receiving
    THEN TxConfirmation(TxDataInit(RxIndication(c, h, FALSE))) ELSE c

\* dcm_start_reception: the length is noted also when it is refused.
StartReception(c, h, len) ==
  [c EXCEPT !.dcm.reqLen = IF h = "phys" THEN len ELSE @]

RxSf(c, h, chunk) ==
  LET a == StartReception(Superseded(c, h), h, 1)
      b == IF h = "phys" THEN CopyRx(a, chunk) ELSE a
  IN IF Refused(c) THEN c
     ELSE IF a.dcm.flg[h] \/ (h = "phys" /\ a.dcm.idx >= RxBuf) THEN Rx(a, h, "SF_ERR")
     ELSE [Rx(RxIndication(b, h, TRUE), h, "SF_IND") EXCEPT !.tx.hrh = h]

RxFf(c, len, chunk) ==
  LET a == StartReception(Superseded(c, "phys"), "phys", len)
  IN IF Refused(c) THEN c
     ELSE IF a.dcm.flg["phys"] \/ len > RxBuf \/ a.dcm.idx >= RxBuf
       THEN Rx(a, "phys", "FF_ERR")
     ELSE [Rx(CopyRx(a, chunk), "phys", "FF_IND") EXCEPT
             !.mf = [@ EXCEPT !.len = len, !.sn = 1 % SnMod, !.cnt = 0, !.nbr = NBr],
             !.tx.conf = FALSE]

\* Mutant: one frame too early.
LastCfEarly(c) == c.mf.cnt + 3 >= c.mf.len
LastCf(c) == c.mf.cnt + 2 >= c.mf.len

RxCf(c, sn, chunk) ==
  LET p == CopyRx(c, chunk)
      q == IF c.dcm.idx >= RxBuf THEN Rx(c, "phys", "CF_ERR")
           ELSE IF LastCf(c) THEN Rx(RxIndication(p, "phys", TRUE), "phys", "CF_IND_OVER")
           ELSE [Rx(p, "phys", "CF_IND") EXCEPT !.mf.ncr = NCr]
  IN IF Refused(c) THEN c
     ELSE IF c.rx["phys"].sts \notin {"FC_CON", "CF_IND", "FC_REQ"}
       THEN IF c.rx["phys"].sts = "IDLE" THEN Rx(c, "phys", "CF_ERR") ELSE c
     ELSE IF sn = c.mf.sn
       THEN [q EXCEPT !.mf.cnt = @ + 1, !.mf.sn = (@ + 1) % SnMod]
     ELSE Rx(c, "phys", "CF_ERR")

RxFc(c, fc) ==
  IF \/ c.tx.cnt # 0 /\ c.tx.bs = 0
     \/ /\ c.rx["phys"].sts # "FC_IND_WAIT"
        /\ c.tx.sts \notin {"FF_REQ", "FF_CON", "CF_CON_WAIT"}
    THEN c
    ELSE [Rx(c, "phys", "FC_IND") EXCEPT
            !.mf.fs = fc.fs,
            !.tx = [@ EXCEPT !.bs = fc.bs, !.bsCnt = fc.bs,
                             !.stmin = fc.stmin, !.stCnt = fc.stmin]]
-----------------------------------------------------------------------------
(* The tick: timers and confirmation, cantp_rx_process, cantp_tx_process.    *)
WaitForFc(c, h) == [Rx(c, h, "FC_IND_WAIT") EXCEPT !.mf.fs = IF h = "phys" THEN "none" ELSE @]

\* Waiting for a channel's status to change: dly times, then the error.
Delayed(c, h, err) ==
  IF c.rx[h].dly > 0 THEN [c EXCEPT !.rx[h].dly = @ - 1] ELSE Tx(c, err)

\* cantp_tx_confirmation_manage: what is not confirmed counts as confirmed a
\* tick later.
\* Mutants: the block size is not kept; the last frame ends nothing.
ConfirmationManageNoBlock(c) ==
  IF ~c.tx.conf THEN [c EXCEPT !.tx.conf = TRUE]
  ELSE IF c.tx.sts # "CF_CON_WAIT" THEN c
  ELSE IF c.tx.over THEN TxDataInit(TxConfirmation(c))
  ELSE [Tx(c, "CF_CON_CONTINUE") EXCEPT !.tx.ncs = NCs]
ConfirmationManageOver(c) ==
  IF ~c.tx.conf THEN [c EXCEPT !.tx.conf = TRUE]
  ELSE IF c.tx.sts # "CF_CON_WAIT" \/ c.tx.over THEN c
  ELSE [Tx(c, "CF_CON_CONTINUE") EXCEPT !.tx.ncs = NCs]

ConfirmationManage(c) ==
  LET h == c.tx.hrh
  IN IF ~c.tx.conf THEN [c EXCEPT !.tx.conf = TRUE]
     ELSE IF c.tx.sts # "CF_CON_WAIT" THEN c
     ELSE IF c.tx.over THEN TxDataInit(TxConfirmation(c))
     ELSE IF c.tx.bs # 0 /\ c.tx.bsCnt = 0
       THEN IF c.rx[h].sts = "IDLE"
              THEN [WaitForFc(Tx(c, "CF_CON"), h) EXCEPT !.tx.nbs = NBs]
              ELSE Delayed(c, h, "TX_CF_ERR")
     ELSE [Tx(c, "CF_CON_CONTINUE") EXCEPT !.tx.ncs = NCs]

Timers(c) ==
  LET a == ConfirmationManage([c EXCEPT !.mf.nbr = Down(@), !.mf.ncr = Down(@)])
  IN [a EXCEPT !.tx.nbs = Down(@), !.tx.ncs = Down(@),
               !.tx.stCnt = IF a.tx.sts = "CF_CON_CONTINUE" THEN Down(@) ELSE @]

\* cantp_rx_process for the channel h.
RxProcess(c, h) ==
  LET sts == c.rx[h].sts
  IN CASE sts = "SF_IND" -> RxDataInit(c, h)
       [] sts = "FF_IND" ->
            IF c.mf.nbr = 0 THEN Rx(c, h, "FF_ERR")
            ELSE IF c.tx.sts = "IDLE"
              THEN [Tx(Rx(c, h, "FC_REQ"), "RECEIVER_FC_REQ") EXCEPT
                      !.tx.conf = FALSE, !.tx.hrh = h]
            ELSE IF c.tx.dly > 0 THEN [c EXCEPT !.tx.dly = @ - 1]
            ELSE Rx(c, h, "FF_ERR")
       [] sts \in {"CF_IND", "FC_CON"} -> IF c.mf.ncr = 0 THEN Rx(c, h, "CF_ERR") ELSE c
       [] sts = "CF_IND_OVER" ->
            IF c.tx.sts = "CF_WAIT"
              THEN [Tx(RxDataInit(c, h), "CF_END") EXCEPT !.tx.nbs = EndWait]
              ELSE RxDataInit(c, h)
       [] sts = "FC_REQ" ->
            IF c.tx.conf THEN [Rx(c, h, "FC_CON") EXCEPT !.mf.ncr = NCr] ELSE c
       [] sts = "FC_IND" /\ c.mf.fs = "CTS" ->
            IF c.tx.sts \in {"FF_REQ", "FF_CON", "CF_CON"}
              THEN Tx(RxDataInit(c, h), "FC_IND") ELSE RxDataInit(c, h)
       [] sts = "FC_IND" /\ c.mf.fs = "WT" ->
            [Rx(c, h, "FC_IND_WAIT") EXCEPT !.tx.nbs = NBs]
       [] sts = "FC_IND" /\ c.mf.fs \notin {"CTS", "WT"} -> Tx(RxDataInit(c, h), "TX_FC_ERR")
       [] sts \in RxErr ->
            RxIndication(RxDataInit(IF sts = "CF_ERR" /\ c.tx.sts = "CF_WAIT"
                                      THEN TxDataInit(c) ELSE c, h), h, FALSE)
       [] OTHER -> c

\* cantp_tx_cf
TxCf(c) ==
  LET t == [c.tx EXCEPT !.sn = (@ + 1) % SnMod, !.cnt = @ + 1,
                        !.bsCnt = Down(@), !.over = c.tx.cnt + 1 >= c.tx.num]
      a == [c EXCEPT !.tx = t]
  IN IF c.dcm.txIdx >= TxBuf THEN Tx(a, "TX_CF_ERR")
     ELSE [Tx(a, "CF_CON_WAIT") EXCEPT
             !.tx.conf = FALSE, !.dcm.txIdx = @ + 1,
             !.out = [ty |-> "CF", sn |-> a.tx.sn, chunk |-> <<c.dcm.res, c.dcm.txIdx>>]]

\* Mutant: a timeout ends the response without telling the server.
TxEndedKept(c) == TxDataInit(c)
TxEnded(c) == TxDataInit(TxConfirmation(c))

\* cantp_tx_process.  nbs also stands for the soft timer of CF_END.
TxProcess(c) ==
  LET h == c.tx.hrh
      sts == c.tx.sts
      a == IF h = "func" /\ c.rx["phys"].sts = "IDLE" THEN WaitForFc(c, "phys") ELSE c
  IN CASE sts = "FF_REQ" /\ ~c.tx.conf -> c
       [] sts = "FF_REQ" /\ c.tx.conf ->
            IF c.rx[h].sts = "IDLE"
              THEN [Tx(Rx(a, h, "FC_IND_WAIT"), "FF_CON") EXCEPT !.tx.nbs = NBs]
              ELSE Delayed(c, h, "TX_FF_ERR")
       [] sts = "FF_CON" -> IF c.tx.nbs = 0 THEN Tx(c, "TX_FF_ERR") ELSE c
       [] sts = "CF_CON" -> IF c.tx.nbs = 0 THEN Tx(c, "TX_CF_ERR") ELSE c
       [] sts = "FC_IND" -> TxCf(c)
       [] sts = "CF_CON_CONTINUE" ->
            IF c.tx.ncs = 0 THEN Tx(c, "TX_CF_ERR")
            ELSE IF c.tx.stCnt = 0 THEN TxCf([c EXCEPT !.tx.stCnt = c.tx.stmin])
            ELSE c
       [] sts = "RECEIVER_FC_REQ" -> [Tx(c, "CF_WAIT") EXCEPT !.out = [ty |-> "FC", bs |-> c.tx.bs]]
       [] sts = "CF_END" -> IF c.tx.nbs = 0 THEN TxEnded(c) ELSE c
       [] sts \in TxErr -> TxEnded(c)
       [] OTHER -> c
-----------------------------------------------------------------------------
(* cantp_transmit, called by the server.                                     *)
Transmit(c, n) ==
  LET chunk == <<c.dcm.res, c.dcm.txIdx>>
  IN IF n = 1
     THEN [TxDataInit(c) EXCEPT !.tx.conf = FALSE, !.out = [ty |-> "SF"]]
     ELSE [Tx(c, "FF_REQ") EXCEPT
             !.tx = [@ EXCEPT !.conf = FALSE, !.sn = 0, !.cnt = 0, !.num = n - 1],
             !.dcm.txIdx = IF @ >= TxBuf THEN @ ELSE @ + 1,
             !.out = [ty |-> "FF", num |-> n, chunk |-> chunk]]
-----------------------------------------------------------------------------
(* The tester.  A frame it is sent may be lost.                              *)
Hears(t, f) ==
  CASE f.ty = "SF" /\ t.st = "wait" -> Quiet(t.msg)
    [] f.ty = "FF" /\ t.st = "wait" ->
         [t EXCEPT !.st = "recv", !.num = f.num, !.sn = 1 % SnMod, !.got = <<f.chunk>>,
                   !.credit = 0]
    [] f.ty = "CF" /\ t.st = "recv" ->
         IF f.sn # t.sn THEN Quiet(t.msg)
         ELSE [t EXCEPT !.st = IF Len(t.got) + 1 = t.num THEN "idle" ELSE "recv",
                        !.sn = (@ + 1) % SnMod, !.got = Append(@, f.chunk),
                        !.credit = Down(@)]
    [] f.ty = "FC" /\ t.st = "waitFC" ->
         [t EXCEPT !.st = "send", !.credit = IF f.bs = 0 THEN MaxReq ELSE f.bs]
    [] OTHER -> t

GrantedAfter(f) ==
  CASE f.ty = "CTS" -> f.n
    [] f.ty = "CF" -> Down(granted)
    [] f.ty \in {"FF", "WT", "OVFLW"} -> 0
    [] OTHER -> granted

\* The step's result: the context c, and the tester t after the frame sent.
Becomes(c, t) ==
  /\ granted' = GrantedAfter(c.out)
  /\ rx' = c.rx /\ mf' = c.mf /\ tx' = c.tx /\ dcm' = c.dcm
  /\ tester' \in {t, Hears(t, c.out)}

\* A physical request is sent when the last one is neither held nor served, and
\* no FC for an older first frame is still to come.
MayRequest ==
  /\ ~dcm.flg["phys"] /\ dcm.serving # "phys"
  /\ rx["phys"].sts # "FF_IND"
  /\ rx["phys"].sts \in RxErr => HastyRestart

Requested(st, len) ==
  [Quiet(1 - tester.msg) EXCEPT !.st = st, !.len = len, !.k = 1]

Lost(c) == {c, Context}

SendSf ==
  /\ MayRequest
  /\ LET t == Requested("wait", 1)
     IN \E c \in Lost(RxSf(Context, "phys", <<t.msg, 0>>)) : Becomes(c, t)

SendFf ==
  /\ MayRequest
  /\ \E len \in 2 .. MaxReq :
       LET t == Requested("waitFC", len)
       IN \E c \in Lost(RxFf(Context, len, <<t.msg, 0>>)) : Becomes(c, t)

\* A tester told a block size pauses after the block, for an FC that the server
\* never sends, until it gives up.
SendCf ==
  /\ tester.st = "send" /\ tester.credit > 0
  /\ LET t == [tester EXCEPT !.k = @ + 1, !.st = IF tester.k + 1 = tester.len THEN "wait" ELSE @,
                             !.credit = @ - 1]
     IN \E c \in Lost(RxCf(Context, tester.k % SnMod, <<tester.msg, tester.k>>)) : Becomes(c, t)

\* credit counts the frames granted, by either side: a block, or with bs = 0 all
\* that follow.
SendFc ==
  /\ tester.st = "recv" /\ tester.credit = 0
  /\ \E fc \in Grants :
       /\ fc.fs = "WT" /\ Len(tester.got) > 1 => LateWait
       /\ LET n == IF fc.bs = 0 THEN MaxRes ELSE fc.bs
              t == [tester EXCEPT !.credit = IF fc.fs = "CTS" THEN n ELSE 0]
               frame == [ty |-> fc.fs, n |-> n]
          IN \E c \in Lost([RxFc(Context, fc) EXCEPT !.out = frame]) : Becomes(c, t)

SendFunc ==
  /\ ~dcm.flg["func"] /\ dcm.serving # "func"
  /\ Becomes(RxSf(Context, "func", <<2, 0>>), tester)

GiveUp ==
  /\ tester.st # "idle"
  /\ tester' = Quiet(tester.msg)
  /\ UNCHANGED <<rx, mf, tx, dcm, granted>>
-----------------------------------------------------------------------------
\* cantp_period_1ms_process
Tick ==
  \E a \in {Timers(Context)} : \E b \in {RxProcess(a, "phys")} :
    \E c \in {RxProcess(b, "func")} : \E d \in {TxProcess(c)} : Becomes(d, tester)

\* dcm_main_function takes a request, the physical one first, and answers it.
Take ==
  /\ dcm.serving = "none"
  /\ \E h \in Chan :
       /\ dcm.flg[h] /\ (h = "func" => ~dcm.flg["phys"])
       /\ dcm' = [dcm EXCEPT !.serving = h, !.flg[h] = FALSE]
  /\ UNCHANGED <<rx, mf, tx, tester, granted>>

Answer ==
  /\ dcm.serving # "none"
  /\ \/ Becomes([Context EXCEPT !.dcm.serving = "none"], tester)
     \/ /\ dcm.serving = "func" => FuncAnswered
        /\ \E n \in 1 .. MaxRes :
             Becomes(Transmit([Context EXCEPT !.dcm.serving = "none",
                                              !.dcm.res = 1 - @], n), tester)

Next ==
  \/ Tick \/ Take \/ Answer
  \/ SendSf \/ SendFf \/ SendCf \/ SendFc \/ SendFunc \/ GiveUp

\* The tick keeps coming and the main loop keeps running.
Spec == Init /\ [][Next]_vars /\ WF_vars(Tick) /\ WF_vars(Take) /\ WF_vars(Answer)
-----------------------------------------------------------------------------
RxSts == Receiving \cup RxErr \cup {"IDLE", "SF_IND", "FC_IND_WAIT", "FC_IND"}
TxSts == TxErr \cup {"IDLE", "FF_REQ", "FF_CON", "CF_CON_WAIT", "CF_CON_CONTINUE",
                     "CF_CON", "FC_IND", "CF_WAIT", "CF_END"}

\* Type invariant.
TypeOK ==
  /\ \A h \in Chan : rx[h].sts \in RxSts /\ rx[h].dly \in 0 .. Dly
  /\ rx["func"].sts \notin Receiving /\ mf.sn \in 0 .. SnMod - 1
  /\ tx.sts \in TxSts /\ tx.dly \in 0 .. Dly /\ tx.hrh \in Chan
  /\ tx.cnt \in 0 .. tx.num /\ tx.bsCnt \in 0 .. tx.bs
  /\ dcm.idx \in 0 .. Len(dcm.buf) /\ dcm.idx \in 0 .. RxBuf /\ dcm.txIdx \in 0 .. TxBuf

MessageOf(m, chunks) == chunks = [k \in 1 .. Len(chunks) |-> <<m, k - 1>>]

\* A request handed to the server is one whole message of the tester, with its
\* length, whatever was lost, late or superseded before.
RequestIntact ==
  dcm.flg["phys"] => /\ dcm.reqLen = Len(dcm.buf)
                     /\ \E m \in {0, 1} : MessageOf(m, dcm.buf)

\* A request once handed over is not taken back before the server takes it.
AcceptedServed ==
  [][dcm.flg["phys"] /\ ~dcm'.flg["phys"] => dcm'.serving = "phys"]_vars

\* What the tester puts together is one response from its start, in order.
ResponseIntact == \E r \in {0, 1} : MessageOf(r, tester.got)

\* A response of which the tester has all frames announced is whole, also one
\* longer than a round of sequence numbers.
ResponseWhole == Len(tester.got) = tester.num => ResponseIntact

\* A CF is sent only within the block the tester has granted, and none between
\* its request to wait and the next grant.
FlowControlled == [][tx'.cnt > tx.cnt => granted > 0]_vars

\* Once the tester is silent both directions come to rest: every wait of the
\* protocol has its timeout.
Settles ==
  <>[](tester.st = "idle") =>
    <>[](tx.sts = "IDLE" /\ rx["phys"].sts \in {"IDLE", "FC_IND_WAIT"})

\* No request is stopped half way by the server's own flow control: N_PCI_BS, the
\* block size it receives by, is "0:No longer send FC" (cantp_cfg.h:28).
SentAtOnce == tester.st = "send" => tester.credit > 0

\* At the end of a block the response waits for the next grant.
BlockPause == [][tx.sts = "CF_CON_WAIT" /\ ~tx.over => tx'.sts # "IDLE"]_vars
=============================================================================
