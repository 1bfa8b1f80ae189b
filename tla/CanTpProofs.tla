----------------------------- MODULE CanTpProofs ------------------------------
(*****************************************************************************)
(* The transport protocol for all timeouts, buffers, message lengths and     *)
(* grants: a request reaches the server whole, and is served; a response     *)
(* reaches the tester whole, and no faster than it grants.                   *)
(*                                                                           *)
(* The handlers work on a context, so each of them is first described as     *)
(* what it does to one (Turn, Confirmed, Heeded, Sent, Driven): a few        *)
(* states, the transmit index and a frame, all else kept. The many cases     *)
(* of the code are gone through once, there. The invariant then speaks of    *)
(* a context and a tester: Asking (one message at a time, how far the        *)
(* request has come, what the buffer holds of it), and what a tick leaves    *)
(* behind, Rested.                                                           *)
(*****************************************************************************)
EXTENDS CanTp, SequenceTheorems, TLAPS

\* The types of the state.
RxS == {"IDLE", "SF_IND", "FF_IND", "CF_IND", "CF_IND_OVER", "FC_REQ", "FC_CON",
        "FC_IND_WAIT", "FC_IND", "SF_ERR", "FF_ERR", "CF_ERR"}
TxS == {"IDLE", "FF_REQ", "FF_CON", "CF_CON_WAIT", "CF_CON_CONTINUE", "CF_CON", "FC_IND",
        "CF_WAIT", "CF_END", "RECEIVER_FC_REQ", "TX_FF_ERR", "TX_CF_ERR", "TX_FC_ERR"}
Fs == {"CTS", "WT", "OVFLW", "none"}
Chunk == Nat \X Nat
Chunks == Seq(Chunk)
Half == {0, 1}
Truth == BOOLEAN
Server == {"none", "phys", "func"}
RxT == [Chan -> [sts : RxS, dly : Nat]]
MfT == [sn : Nat, cnt : Nat, len : Nat, fs : Fs, nbr : Nat, ncr : Nat]
TxT == [sts : TxS, dly : Nat, hrh : Chan, conf : Truth, sn : Nat, cnt : Nat, num : Nat,
        over : Truth, bs : Nat, bsCnt : Nat, stmin : Nat, stCnt : Nat, nbs : Nat, ncs : Nat]
DcmT == [flg : [Chan -> Truth], reqLen : Nat, buf : Chunks, idx : Nat, txIdx : Nat,
         res : Half, serving : Server]
Frame == {NoFrame, [ty |-> "SF"]}
           \cup [ty : {"FC"}, bs : Nat]
           \cup [ty : {"CF"}, sn : Nat, chunk : Chunk]
           \cup [ty : {"FF"}, num : Nat, chunk : Chunk]
           \cup [ty : {"CTS", "WT", "OVFLW"}, n : Nat]
CtxT == [rx : RxT, mf : MfT, tx : TxT, dcm : DcmT, out : Frame]

\* The parts of a context, and replacing one.
LEMMA Parts ==
  ASSUME NEW c \in CtxT
  PROVE  c.rx \in RxT /\ c.mf \in MfT /\ c.tx \in TxT /\ c.dcm \in DcmT /\ c.out \in Frame
BY DEF CtxT

\* Replacing the receive contexts leaves the other parts.
LEMMA SetRx ==
  ASSUME NEW c \in CtxT, NEW v \in RxT
  PROVE  LET d == [c EXCEPT !.rx = v]
         IN /\ d \in CtxT /\ d.rx = v
            /\ d.mf = c.mf /\ d.tx = c.tx /\ d.dcm = c.dcm /\ d.out = c.out
BY DEF CtxT

\* Replacing the context of a message leaves the other parts.
LEMMA SetMf ==
  ASSUME NEW c \in CtxT, NEW v \in MfT
  PROVE  LET d == [c EXCEPT !.mf = v]
         IN /\ d \in CtxT /\ d.mf = v
            /\ d.rx = c.rx /\ d.tx = c.tx /\ d.dcm = c.dcm /\ d.out = c.out
BY DEF CtxT

\* Replacing the sender's context leaves the other parts.
LEMMA SetTx ==
  ASSUME NEW c \in CtxT, NEW v \in TxT
  PROVE  LET d == [c EXCEPT !.tx = v]
         IN /\ d \in CtxT /\ d.tx = v
            /\ d.rx = c.rx /\ d.mf = c.mf /\ d.dcm = c.dcm /\ d.out = c.out
BY DEF CtxT

\* Replacing the server's buffers leaves the other parts.
LEMMA SetDcm ==
  ASSUME NEW c \in CtxT, NEW v \in DcmT
  PROVE  LET d == [c EXCEPT !.dcm = v]
         IN /\ d \in CtxT /\ d.dcm = v
            /\ d.rx = c.rx /\ d.mf = c.mf /\ d.tx = c.tx /\ d.out = c.out
BY DEF CtxT

\* Replacing the frame that goes out leaves the other parts.
LEMMA SetOut ==
  ASSUME NEW c \in CtxT, NEW v \in Frame
  PROVE  LET d == [c EXCEPT !.out = v]
         IN /\ d \in CtxT /\ d.out = v
            /\ d.rx = c.rx /\ d.mf = c.mf /\ d.tx = c.tx /\ d.dcm = c.dcm
BY DEF CtxT

\* A channel's state alone is set.
LEMMA RxIs ==
  ASSUME NEW c \in CtxT, NEW h \in Chan, NEW s \in RxS
  PROVE  LET d == Rx(c, h, s)
         IN /\ d \in CtxT
            /\ d.rx[h].sts = s
            /\ \A i \in Chan : i # h => d.rx[i] = c.rx[i]
            /\ d.mf = c.mf /\ d.tx = c.tx /\ d.dcm = c.dcm /\ d.out = c.out
BY DEF CtxT, RxT, Rx

\* The sender's state alone is set.
LEMMA TxIs ==
  ASSUME NEW c \in CtxT, NEW s \in TxS
  PROVE  LET d == Tx(c, s)
         IN /\ d \in CtxT
            /\ d.tx = [c.tx EXCEPT !.sts = s]
            /\ d.mf = c.mf /\ d.rx = c.rx /\ d.dcm = c.dcm /\ d.out = c.out
BY DEF CtxT, TxT, Tx

\* An indication marks the channel and, on the physical one, rewinds the
\* buffer's index.
LEMMA RxIndicationIs ==
  ASSUME NEW c \in CtxT, NEW h \in Chan, NEW ok \in Truth
  PROVE  LET d == RxIndication(c, h, ok)
         IN /\ d \in CtxT
            /\ d.dcm = [c.dcm EXCEPT !.flg = [@ EXCEPT ![h] = ok], !.idx = IF h = "phys" THEN 0 ELSE @]
            /\ d.mf = c.mf /\ d.rx = c.rx /\ d.tx = c.tx /\ d.out = c.out
BY DEF CtxT, DcmT, RxIndication

\* What the invariants look at, but for the two states and the transmit index.
Kept(c, d) ==
  /\ d \in CtxT
  /\ d.mf.cnt = c.mf.cnt /\ d.mf.len = c.mf.len /\ d.mf.sn = c.mf.sn
  /\ d.tx.cnt = c.tx.cnt /\ d.tx.num = c.tx.num /\ d.tx.sn = c.tx.sn /\ d.tx.over = c.tx.over
  /\ d.tx.bs = c.tx.bs /\ d.tx.bsCnt = c.tx.bsCnt
  /\ d.dcm.reqLen = c.dcm.reqLen /\ d.dcm.buf = c.dcm.buf
  /\ d.dcm.res = c.dcm.res /\ d.dcm.serving = c.dcm.serving
  /\ d.out = c.out
\* The channels' states become r and f, the sender's x, and the transmit index i.
Turn(c, d, r, f, x, i) ==
  /\ Kept(c, d) /\ d.dcm.flg["phys"] = c.dcm.flg["phys"] /\ d.dcm.idx = c.dcm.idx
  /\ d.rx["phys"].sts = r /\ d.rx["func"].sts = f
  /\ d.tx.sts = x /\ d.dcm.txIdx = i
  /\ r = "FC_IND" => c.rx["phys"].sts = "FC_IND" /\ d.mf.fs = c.mf.fs
R(c) == c.rx["phys"].sts
F(c) == c.rx["func"].sts
X(c) == c.tx.sts
I(c) == c.dcm.txIdx

\* A timer counts down to zero.
LEMMA DownIs == \A n \in Nat : Down(n) \in Nat /\ (n > 0 => Down(n) = n - 1) /\ (n = 0 => Down(n) = 0)
BY DEF Down

\* Waiting for a flow control frame touches only the receive side.
LEMMA WaitForFcIs ==
  ASSUME NEW c \in CtxT, NEW h \in Chan
  PROVE  LET d == WaitForFc(c, h)
         IN /\ d \in CtxT /\ d.tx = c.tx /\ d.dcm = c.dcm /\ d.out = c.out
            /\ d.rx[h].sts = "FC_IND_WAIT"
            /\ \A i \in Chan : i # h => d.rx[i] = c.rx[i]
            /\ d.mf.cnt = c.mf.cnt /\ d.mf.len = c.mf.len /\ d.mf.sn = c.mf.sn
            /\ h # "phys" => d.mf = c.mf
<1> DEFINE b == Rx(c, h, "FC_IND_WAIT")
<1>1. /\ b \in CtxT /\ b.rx[h].sts = "FC_IND_WAIT" /\ \A i \in Chan : i # h => b.rx[i] = c.rx[i]
      /\ b.mf = c.mf /\ b.tx = c.tx /\ b.dcm = c.dcm /\ b.out = c.out
  BY RxIs DEF RxS
<1>2. WaitForFc(c, h) = [b EXCEPT !.mf.fs = IF h = "phys" THEN "none" ELSE @]
  BY DEF WaitForFc
<1> HIDE DEF b
<1> QED
  BY <1>1, <1>2 DEF CtxT, MfT, Fs

\* A confirmation that is late leaves the sender or ends it with an error.
LEMMA DelayedIs ==
  ASSUME NEW c \in CtxT, NEW h \in Chan, NEW err \in TxS
  PROVE  LET d == Delayed(c, h, err)
         IN \/ Turn(c, d, R(c), F(c), X(c), I(c))
            \/ Turn(c, d, R(c), F(c), err, I(c))
<1>1. CASE c.rx[h].dly > 0
  <2> DEFINE v == [c.rx EXCEPT ![h].dly = @ - 1]
             d == [c EXCEPT !.rx = v]
  <2>1. Delayed(c, h, err) = d
    BY <1>1 DEF Delayed
  <2>2. v \in RxT /\ \A i \in Chan : v[i].sts = c.rx[i].sts
    BY <1>1, Parts DEF RxT
  <2> HIDE DEF v
  <2>3. d \in CtxT /\ d.rx = v /\ d.mf = c.mf /\ d.tx = c.tx /\ d.dcm = c.dcm /\ d.out = c.out
    BY <2>2, SetRx
  <2> HIDE DEF d
  <2> QED
    BY <2>1, <2>2, <2>3 DEF Turn, Kept, R, F, X, I, Chan
<1>2. CASE ~(c.rx[h].dly > 0)
  <2> DEFINE d == Tx(c, err)
  <2>1. d \in CtxT /\ d.tx = [c.tx EXCEPT !.sts = err]
        /\ d.mf = c.mf /\ d.rx = c.rx /\ d.dcm = c.dcm /\ d.out = c.out
    BY TxIs
  <2> HIDE DEF d
  <2>2. /\ d.tx.cnt = c.tx.cnt /\ d.tx.num = c.tx.num /\ d.tx.sn = c.tx.sn
        /\ d.tx.over = c.tx.over /\ d.tx.bs = c.tx.bs /\ d.tx.bsCnt = c.tx.bsCnt
        /\ d.tx.sts = err
    BY <2>1, Parts DEF TxT
  <2>3. Turn(c, d, R(c), F(c), err, I(c))
    BY <2>1, <2>2 DEF Turn, Kept, R, F, X, I
  <2> QED
    BY <1>2, <2>3 DEF Delayed, d
<1> QED
  BY <1>1, <1>2

\* Ending a response clears the transmit index.
LEMMA EndedTurn ==
  ASSUME NEW c \in CtxT
  PROVE  Turn(c, TxDataInit(TxConfirmation(c)), R(c), F(c), "IDLE", 0)
<1> DEFINE a == TxConfirmation(c)
           d == TxDataInit(a)
           v == [c.dcm EXCEPT !.txIdx = 0]
           x == [c.tx EXCEPT !.sts = "IDLE", !.dly = Dly]
<1>1. v \in DcmT /\ x \in TxT
  BY Parts, TpAssumption DEF DcmT, TxT, TxS
<1>2. /\ v.reqLen = c.dcm.reqLen /\ v.buf = c.dcm.buf /\ v.idx = c.dcm.idx /\ v.flg = c.dcm.flg
      /\ v.res = c.dcm.res /\ v.serving = c.dcm.serving /\ v.txIdx = 0
  BY Parts DEF DcmT
<1>3. /\ x.cnt = c.tx.cnt /\ x.num = c.tx.num /\ x.sn = c.tx.sn /\ x.over = c.tx.over
      /\ x.bs = c.tx.bs /\ x.bsCnt = c.tx.bsCnt /\ x.sts = "IDLE"
  BY Parts DEF TxT
<1>4. a = [c EXCEPT !.dcm = v]
  BY DEF TxConfirmation
<1> HIDE DEF v
<1>5. a \in CtxT /\ a.dcm = v /\ a.tx = c.tx /\ a.rx = c.rx /\ a.mf = c.mf /\ a.out = c.out
  BY <1>1, <1>4, SetDcm
<1>6. d = [a EXCEPT !.tx = x]
  BY <1>5 DEF TxDataInit
<1> HIDE DEF a, x
<1>7. d \in CtxT /\ d.tx = x /\ d.rx = a.rx /\ d.mf = a.mf /\ d.dcm = a.dcm /\ d.out = a.out
  BY <1>1, <1>5, <1>6, SetTx
<1> HIDE DEF d
<1> QED
  BY <1>2, <1>3, <1>5, <1>7 DEF Turn, Kept, R, F, X, I, d, a

\* What the tick's confirmation makes of a response.
Confirmed(c, d) ==
  \/ Turn(c, d, R(c), F(c), X(c), I(c))
  \/ /\ X(c) = "CF_CON_WAIT" /\ c.tx.over
     /\ Turn(c, d, R(c), F(c), "IDLE", 0)
  \/ /\ X(c) = "CF_CON_WAIT" /\ ~c.tx.over /\ c.tx.bs # 0 /\ c.tx.bsCnt = 0
     /\ \/ R(c) = "IDLE" /\ Turn(c, d, "FC_IND_WAIT", F(c), "CF_CON", I(c))
        \/ Turn(c, d, R(c), "FC_IND_WAIT", "CF_CON", I(c))
        \/ Turn(c, d, R(c), F(c), "TX_CF_ERR", I(c))
  \/ /\ X(c) = "CF_CON_WAIT" /\ ~c.tx.over /\ ~(c.tx.bs # 0 /\ c.tx.bsCnt = 0)
     /\ Turn(c, d, R(c), F(c), "CF_CON_CONTINUE", I(c))

\* The confirmations of a tick move the sender on in one of few ways.
LEMMA ConfirmationManageIs ==
  ASSUME NEW c \in CtxT
  PROVE  Confirmed(c, ConfirmationManage(c))
<1> DEFINE d == ConfirmationManage(c)
           h == c.tx.hrh
<1>0. h \in Chan /\ NBs \in Nat /\ NCs \in Nat /\ Dly \in Nat
  BY TpAssumption DEF CtxT, TxT
<1>1. CASE ~c.tx.conf
  <2>1. d = [c EXCEPT !.tx.conf = TRUE]
    BY <1>1 DEF ConfirmationManage
  <2>2. Turn(c, d, R(c), F(c), X(c), I(c))
    BY <2>1 DEF CtxT, TxT, Truth, Turn, Kept, R, F, X, I
  <2> QED
    BY <2>2 DEF Confirmed
<1>2. CASE c.tx.conf /\ c.tx.sts # "CF_CON_WAIT"
  <2>1. d = c
    BY <1>2 DEF ConfirmationManage
  <2> QED
    BY <2>1 DEF Confirmed, Turn, Kept, R, F, X, I
<1>3. CASE c.tx.conf /\ c.tx.sts = "CF_CON_WAIT" /\ c.tx.over
  <2>1. d = TxDataInit(TxConfirmation(c))
    BY <1>3 DEF ConfirmationManage
  <2>2. Turn(c, d, R(c), F(c), "IDLE", 0)
    BY <2>1, EndedTurn
  <2> QED
    BY <1>3, <2>2 DEF Confirmed, X
<1>4. CASE c.tx.conf /\ c.tx.sts = "CF_CON_WAIT" /\ ~c.tx.over /\ c.tx.bs # 0 /\ c.tx.bsCnt = 0
  <2>1. CASE c.rx[h].sts = "IDLE"
    <3> DEFINE a == Tx(c, "CF_CON")
               b == WaitForFc(a, h)
    <3>1. d = [b EXCEPT !.tx.nbs = NBs]
      BY <1>4, <2>1 DEF ConfirmationManage
    <3>2. /\ a \in CtxT /\ a.tx = [c.tx EXCEPT !.sts = "CF_CON"]
          /\ a.mf = c.mf /\ a.rx = c.rx /\ a.dcm = c.dcm /\ a.out = c.out
      BY TxIs DEF TxS
    <3> HIDE DEF a
    <3>3. /\ b \in CtxT /\ b.tx = a.tx /\ b.dcm = a.dcm /\ b.out = a.out
          /\ b.rx[h].sts = "FC_IND_WAIT"
          /\ \A i \in Chan : i # h => b.rx[i] = a.rx[i]
          /\ b.mf.cnt = a.mf.cnt /\ b.mf.len = a.mf.len /\ b.mf.sn = a.mf.sn
          /\ h # "phys" => b.mf = a.mf
      BY <1>0, <3>2, WaitForFcIs
    <3> HIDE DEF b
    <3>5. /\ a.tx.cnt = c.tx.cnt /\ a.tx.num = c.tx.num /\ a.tx.sn = c.tx.sn
          /\ a.tx.over = c.tx.over /\ a.tx.bs = c.tx.bs /\ a.tx.bsCnt = c.tx.bsCnt
          /\ a.tx.sts = "CF_CON"
      BY <3>2, Parts DEF TxT
    <3> DEFINE v == [b.tx EXCEPT !.nbs = NBs]
               e == [b EXCEPT !.tx = v]
    <3>6. d = e
      BY <3>1
    <3>7. /\ v \in TxT /\ v.cnt = b.tx.cnt /\ v.num = b.tx.num /\ v.sn = b.tx.sn /\ v.over = b.tx.over
          /\ v.bs = b.tx.bs /\ v.bsCnt = b.tx.bsCnt /\ v.sts = b.tx.sts
      BY <1>0, <3>3, Parts DEF TxT
    <3> HIDE DEF v
    <3>8. e \in CtxT /\ e.tx = v /\ e.rx = b.rx /\ e.mf = b.mf /\ e.dcm = b.dcm /\ e.out = b.out
      BY <3>3, <3>7, SetTx
    <3> HIDE DEF e, d
    <3>9. Kept(c, d) /\ X(d) = "CF_CON" /\ d.dcm = c.dcm /\ d.mf = b.mf /\ d.rx = b.rx
      BY <3>2, <3>3, <3>5, <3>6, <3>7, <3>8 DEF Kept, X
    <3>4. \/ R(c) = "IDLE" /\ Turn(c, d, "FC_IND_WAIT", F(c), "CF_CON", I(c))
          \/ Turn(c, d, R(c), "FC_IND_WAIT", "CF_CON", I(c))
      <4>1. CASE h = "phys"
        BY <2>1, <3>2, <3>3, <3>9, <4>1 DEF Chan, Turn, R, F, X, I
      <4>2. CASE h = "func"
        BY <2>1, <3>2, <3>3, <3>9, <4>2 DEF Chan, Turn, R, F, X, I
      <4> QED
        BY <1>0, <4>1, <4>2 DEF Chan
    <3> QED
      BY <1>4, <3>4 DEF Confirmed, X, d
  <2>2. CASE c.rx[h].sts # "IDLE"
    <3>1. d = Delayed(c, h, "TX_CF_ERR")
      BY <1>4, <2>2 DEF ConfirmationManage
    <3>2. "TX_CF_ERR" \in TxS
      BY DEF TxS
    <3> QED
      BY <1>0, <1>4, <3>1, <3>2, DelayedIs DEF Confirmed, X
  <2> QED
    BY <2>1, <2>2
<1>5. CASE c.tx.conf /\ c.tx.sts = "CF_CON_WAIT" /\ ~c.tx.over /\ ~(c.tx.bs # 0 /\ c.tx.bsCnt = 0)
  <2>1. d = [Tx(c, "CF_CON_CONTINUE") EXCEPT !.tx.ncs = NCs]
    BY <1>5 DEF ConfirmationManage
  <2> DEFINE v == [c.tx EXCEPT !.sts = "CF_CON_CONTINUE", !.ncs = NCs]
             b == [c EXCEPT !.tx = v]
  <2>3. d = b
    BY <2>1 DEF Tx
  <2>4. v \in TxT /\ v = [c.tx EXCEPT !.sts = "CF_CON_CONTINUE", !.ncs = NCs]
    BY <1>0, Parts DEF TxT, TxS
  <2>5. /\ v.cnt = c.tx.cnt /\ v.num = c.tx.num /\ v.sn = c.tx.sn /\ v.over = c.tx.over
        /\ v.bs = c.tx.bs /\ v.bsCnt = c.tx.bsCnt /\ v.sts = "CF_CON_CONTINUE"
    BY <2>4, Parts DEF TxT
  <2> HIDE DEF v
  <2>6. b \in CtxT /\ b.tx = v /\ b.rx = c.rx /\ b.mf = c.mf /\ b.dcm = c.dcm /\ b.out = c.out
    BY <2>4, SetTx
  <2> HIDE DEF b, d
  <2>2. Turn(c, d, R(c), F(c), "CF_CON_CONTINUE", I(c))
    BY <2>3, <2>5, <2>6 DEF Turn, Kept, R, F, X, I
  <2> QED
    BY <1>5, <2>2 DEF Confirmed, X, d
<1>6. c.tx.conf \in BOOLEAN
  BY DEF CtxT, TxT, Truth
<1> QED
  BY <1>1, <1>2, <1>3, <1>4, <1>5, <1>6

\* What moves on before and after, in nothing the invariants look at, does
\* not matter.
LEMMA ConfirmedAlike ==
  ASSUME NEW c, NEW b, NEW a, NEW d, b.rx = c.rx, b.tx = c.tx,
         Turn(c, b, R(c), F(c), X(c), I(c)), Confirmed(b, a), Turn(a, d, R(a), F(a), X(a), I(a))
  PROVE  Confirmed(c, d)
<1>1. R(b) = R(c) /\ F(b) = F(c) /\ X(b) = X(c) /\ I(b) = I(c)
  BY DEF Turn, R, F, X, I
<1>2. ASSUME NEW r, NEW f, NEW x, NEW i, Turn(b, a, r, f, x, i)
      PROVE  Turn(c, d, r, f, x, i)
  BY <1>2 DEF Turn, Kept, R, F, X, I
<1> QED
  BY <1>1, <1>2 DEF Confirmed

\* So do the timers, which only then count.
LEMMA TimersIs ==
  ASSUME NEW c \in CtxT
  PROVE  Confirmed(c, Timers(c))
<1> DEFINE b == [c EXCEPT !.mf.nbr = Down(@), !.mf.ncr = Down(@)]
           a == ConfirmationManage(b)
           d == Timers(c)
<1>1. b \in CtxT /\ Turn(c, b, R(c), F(c), X(c), I(c)) /\ b.rx = c.rx /\ b.tx = c.tx
  BY DownIs DEF CtxT, MfT, Turn, Kept, R, F, X, I
<1>2. d = [a EXCEPT !.tx.nbs = Down(@), !.tx.ncs = Down(@),
                    !.tx.stCnt = IF a.tx.sts = "CF_CON_CONTINUE" THEN Down(@) ELSE @]
  BY DEF Timers
<1> HIDE DEF b
<1>3. Confirmed(b, a)
  BY <1>1, ConfirmationManageIs
<1> HIDE DEF a, d
<1>4. a \in CtxT
  BY <1>3 DEF Confirmed, Turn, Kept
<1>5. Turn(a, d, R(a), F(a), X(a), I(a))
  BY <1>2, <1>4, DownIs DEF CtxT, TxT, Turn, Kept, R, F, X, I
<1> QED
  BY <1>1, <1>3, <1>5, ConfirmedAlike DEF d

\* A sender's context with the same response.
LEMMA TxTurn ==
  ASSUME NEW c \in CtxT, NEW v \in TxT,
         v.cnt = c.tx.cnt, v.num = c.tx.num, v.sn = c.tx.sn, v.over = c.tx.over,
         v.bs = c.tx.bs, v.bsCnt = c.tx.bsCnt
  PROVE  Turn(c, [c EXCEPT !.tx = v], R(c), F(c), v.sts, I(c))
<1> DEFINE d == [c EXCEPT !.tx = v]
<1>1. d \in CtxT /\ d.tx = v /\ d.rx = c.rx /\ d.mf = c.mf /\ d.dcm = c.dcm /\ d.out = c.out
  BY SetTx
<1> HIDE DEF d
<1> QED
  BY <1>1 DEF Turn, Kept, R, F, X, I, d

\* Receive contexts in other states.
LEMMA RxTurn ==
  ASSUME NEW c \in CtxT, NEW v \in RxT, v["phys"].sts = "FC_IND" => R(c) = "FC_IND"
  PROVE  Turn(c, [c EXCEPT !.rx = v], v["phys"].sts, v["func"].sts, X(c), I(c))
<1> DEFINE d == [c EXCEPT !.rx = v]
<1>1. d \in CtxT /\ d.rx = v /\ d.tx = c.tx /\ d.mf = c.mf /\ d.dcm = c.dcm /\ d.out = c.out
  BY SetRx
<1> HIDE DEF d
<1> QED
  BY <1>1 DEF Turn, Kept, R, F, X, I, d

\* A message's context with other timers.
LEMMA MfTurn ==
  ASSUME NEW c \in CtxT, NEW v \in MfT,
         v.cnt = c.mf.cnt, v.len = c.mf.len, v.sn = c.mf.sn, v.fs = c.mf.fs
  PROVE  Turn(c, [c EXCEPT !.mf = v], R(c), F(c), X(c), I(c))
<1> DEFINE d == [c EXCEPT !.mf = v]
<1>1. d \in CtxT /\ d.mf = v /\ d.tx = c.tx /\ d.rx = c.rx /\ d.dcm = c.dcm /\ d.out = c.out
  BY SetMf
<1> HIDE DEF d
<1> QED
  BY <1>1 DEF Turn, Kept, R, F, X, I, d

\* Nothing changes.
LEMMA StayTurn ==
  ASSUME NEW c \in CtxT
  PROVE  Turn(c, c, R(c), F(c), X(c), I(c))
BY DEF Turn, Kept, R, F, X, I

\* Two changes in a row.
LEMMA ThenTurn ==
  ASSUME NEW c, NEW b, NEW r, NEW f, NEW x, NEW i, Turn(c, b, r, f, x, i),
         NEW d, NEW q, NEW g, NEW y, NEW j, Turn(b, d, q, g, y, j)
  PROVE  Turn(c, d, q, g, y, j)
BY DEF Turn, Kept

\* The state of the sender changes, and with it perhaps a timer.
LEMMA TxSets ==
  ASSUME NEW c \in CtxT, NEW s \in TxS, NEW n \in Nat, NEW h \in Chan
  PROVE  /\ Turn(c, Tx(c, s), R(c), F(c), s, I(c))
         /\ Turn(c, TxDataInit(c), R(c), F(c), "IDLE", I(c))
         /\ Turn(c, [c EXCEPT !.tx.nbs = n], R(c), F(c), X(c), I(c))
         /\ Turn(c, [c EXCEPT !.tx.dly = n], R(c), F(c), X(c), I(c))
         /\ Turn(c, [c EXCEPT !.tx.stCnt = n], R(c), F(c), X(c), I(c))
         /\ Turn(c, [c EXCEPT !.tx.conf = FALSE, !.tx.hrh = h], R(c), F(c), X(c), I(c))
<1>1. c.tx \in TxT /\ Dly \in Nat
  BY Parts, TpAssumption
<1>2. Turn(c, Tx(c, s), R(c), F(c), s, I(c))
  <2> DEFINE v == [c.tx EXCEPT !.sts = s]
  <2>1. /\ v \in TxT /\ v.cnt = c.tx.cnt /\ v.num = c.tx.num /\ v.sn = c.tx.sn
        /\ v.over = c.tx.over /\ v.bs = c.tx.bs /\ v.bsCnt = c.tx.bsCnt /\ v.sts = s
    BY <1>1 DEF TxT
  <2>2. Tx(c, s) = [c EXCEPT !.tx = v]
    BY DEF Tx
  <2> HIDE DEF v
  <2> QED
    BY <2>1, <2>2, TxTurn
<1>3. Turn(c, TxDataInit(c), R(c), F(c), "IDLE", I(c))
  <2> DEFINE v == [c.tx EXCEPT !.sts = "IDLE", !.dly = Dly]
  <2>1. /\ v \in TxT /\ v.cnt = c.tx.cnt /\ v.num = c.tx.num /\ v.sn = c.tx.sn
        /\ v.over = c.tx.over /\ v.bs = c.tx.bs /\ v.bsCnt = c.tx.bsCnt /\ v.sts = "IDLE"
    BY <1>1 DEF TxT, TxS
  <2>2. TxDataInit(c) = [c EXCEPT !.tx = v]
    BY DEF TxDataInit
  <2> HIDE DEF v
  <2> QED
    BY <2>1, <2>2, TxTurn
<1>4. Turn(c, [c EXCEPT !.tx.nbs = n], R(c), F(c), X(c), I(c))
  <2> DEFINE v == [c.tx EXCEPT !.nbs = n]
  <2>1. /\ v \in TxT /\ v.cnt = c.tx.cnt /\ v.num = c.tx.num /\ v.sn = c.tx.sn
        /\ v.over = c.tx.over /\ v.bs = c.tx.bs /\ v.bsCnt = c.tx.bsCnt /\ v.sts = X(c)
    BY <1>1 DEF TxT, X
  <2> HIDE DEF v
  <2>2. Turn(c, [c EXCEPT !.tx = v], R(c), F(c), X(c), I(c))
    BY <2>1, TxTurn
  <2> QED
    BY <2>2 DEF v
<1>5. Turn(c, [c EXCEPT !.tx.dly = n], R(c), F(c), X(c), I(c))
  <2> DEFINE v == [c.tx EXCEPT !.dly = n]
  <2>1. /\ v \in TxT /\ v.cnt = c.tx.cnt /\ v.num = c.tx.num /\ v.sn = c.tx.sn
        /\ v.over = c.tx.over /\ v.bs = c.tx.bs /\ v.bsCnt = c.tx.bsCnt /\ v.sts = X(c)
    BY <1>1 DEF TxT, X
  <2> HIDE DEF v
  <2>2. Turn(c, [c EXCEPT !.tx = v], R(c), F(c), X(c), I(c))
    BY <2>1, TxTurn
  <2> QED
    BY <2>2 DEF v
<1>6. Turn(c, [c EXCEPT !.tx.stCnt = n], R(c), F(c), X(c), I(c))
  <2> DEFINE v == [c.tx EXCEPT !.stCnt = n]
  <2>1. /\ v \in TxT /\ v.cnt = c.tx.cnt /\ v.num = c.tx.num /\ v.sn = c.tx.sn
        /\ v.over = c.tx.over /\ v.bs = c.tx.bs /\ v.bsCnt = c.tx.bsCnt /\ v.sts = X(c)
    BY <1>1 DEF TxT, X
  <2> HIDE DEF v
  <2>2. Turn(c, [c EXCEPT !.tx = v], R(c), F(c), X(c), I(c))
    BY <2>1, TxTurn
  <2> QED
    BY <2>2 DEF v
<1>7. Turn(c, [c EXCEPT !.tx.conf = FALSE, !.tx.hrh = h], R(c), F(c), X(c), I(c))
  <2> DEFINE v == [c.tx EXCEPT !.conf = FALSE, !.hrh = h]
  <2>1. /\ v \in TxT /\ v.cnt = c.tx.cnt /\ v.num = c.tx.num /\ v.sn = c.tx.sn
        /\ v.over = c.tx.over /\ v.bs = c.tx.bs /\ v.bsCnt = c.tx.bsCnt /\ v.sts = X(c)
    BY <1>1 DEF TxT, Truth, X
  <2> HIDE DEF v
  <2>2. Turn(c, [c EXCEPT !.tx = v], R(c), F(c), X(c), I(c))
    BY <2>1, TxTurn
  <2>3. [c EXCEPT !.tx.conf = FALSE, !.tx.hrh = h] = [c EXCEPT !.tx = v]
    BY Parts DEF v, CtxT
  <2> QED
    BY <2>2, <2>3
<1> QED
  BY <1>2, <1>3, <1>4, <1>5, <1>6, <1>7

\* The state of a receiver changes, and with it perhaps a timer.
LEMMA RxSets ==
  ASSUME NEW c \in CtxT, NEW s \in RxS \ {"FC_IND"}, NEW n \in Nat
  PROVE  /\ Turn(c, Rx(c, "phys", s), s, F(c), X(c), I(c))
         /\ Turn(c, Rx(c, "func", s), R(c), s, X(c), I(c))
         /\ Turn(c, [c EXCEPT !.mf.ncr = n], R(c), F(c), X(c), I(c))
<1>1. c.rx \in RxT /\ c.mf \in MfT /\ Dly \in Nat
  BY Parts, TpAssumption
<1>2. ASSUME NEW h \in Chan, NEW e \in [sts : RxS \ {"FC_IND"}, dly : Nat]
      PROVE  Turn(c, [c EXCEPT !.rx[h] = e], IF h = "phys" THEN e.sts ELSE R(c),
                                             IF h = "func" THEN e.sts ELSE F(c), X(c), I(c))
  <2> DEFINE v == [c.rx EXCEPT ![h] = e]
  <2>1. /\ v \in RxT /\ v["phys"].sts = (IF h = "phys" THEN e.sts ELSE R(c))
        /\ v["func"].sts = (IF h = "func" THEN e.sts ELSE F(c))
    BY <1>1 DEF RxT, Chan, R, F
  <2>2. v["phys"].sts = "FC_IND" => R(c) = "FC_IND"
    BY <2>1
  <2> HIDE DEF v
  <2>3. Turn(c, [c EXCEPT !.rx = v], v["phys"].sts, v["func"].sts, X(c), I(c))
    BY <2>1, <2>2, RxTurn
  <2> QED
    BY <2>1, <2>3 DEF v
<1>3. ASSUME NEW h \in Chan
      PROVE  Rx(c, h, s) = [c EXCEPT !.rx[h] = [sts |-> s, dly |-> c.rx[h].dly]]
  <2>1. [c.rx[h] EXCEPT !.sts = s] = [sts |-> s, dly |-> c.rx[h].dly]
    BY <1>1 DEF RxT
  <2> QED
    BY <2>1 DEF Rx
<1>4. \A h \in Chan : [sts |-> s, dly |-> c.rx[h].dly] \in [sts : RxS \ {"FC_IND"}, dly : Nat]
  BY <1>1 DEF RxT
<1>7. Turn(c, [c EXCEPT !.mf.ncr = n], R(c), F(c), X(c), I(c))
  <2> DEFINE v == [c.mf EXCEPT !.ncr = n]
  <2>1. v \in MfT /\ v.cnt = c.mf.cnt /\ v.len = c.mf.len /\ v.sn = c.mf.sn /\ v.fs = c.mf.fs
    BY <1>1 DEF MfT
  <2> HIDE DEF v
  <2>2. Turn(c, [c EXCEPT !.mf = v], R(c), F(c), X(c), I(c))
    BY <2>1, MfTurn
  <2> QED
    BY <2>2 DEF v
<1>8. "phys" \in Chan /\ "func" \in Chan
  BY DEF Chan
<1>9. Turn(c, Rx(c, "phys", s), s, F(c), X(c), I(c))
  BY <1>2, <1>3, <1>4, <1>8
<1>10. Turn(c, Rx(c, "func", s), R(c), s, X(c), I(c))
  BY <1>2, <1>3, <1>4, <1>8
<1> QED
  BY <1>7, <1>9, <1>10

\* The receiver's state and delay after a reset.
LEMMA RxInits ==
  ASSUME NEW c \in CtxT
  PROVE  /\ Turn(c, RxDataInit(c, "phys"), "IDLE", F(c), X(c), I(c))
         /\ Turn(c, RxDataInit(c, "func"), R(c), "IDLE", X(c), I(c))
<1>1. c.rx \in RxT /\ Dly \in Nat
  BY Parts, TpAssumption
<1> DEFINE e == [sts |-> "IDLE", dly |-> Dly]
<1>2. ASSUME NEW h \in Chan
      PROVE  Turn(c, RxDataInit(c, h), IF h = "phys" THEN "IDLE" ELSE R(c),
                                       IF h = "func" THEN "IDLE" ELSE F(c), X(c), I(c))
  <2> DEFINE v == [c.rx EXCEPT ![h] = e]
  <2>1. /\ v \in RxT /\ v["phys"].sts = (IF h = "phys" THEN "IDLE" ELSE R(c))
        /\ v["func"].sts = (IF h = "func" THEN "IDLE" ELSE F(c))
    BY <1>1 DEF RxT, RxS, Chan, R, F
  <2>2. v["phys"].sts = "FC_IND" => R(c) = "FC_IND"
    BY <2>1
  <2>4. RxDataInit(c, h) = [c EXCEPT !.rx = v]
    BY DEF RxDataInit
  <2> HIDE DEF v
  <2>3. Turn(c, [c EXCEPT !.rx = v], v["phys"].sts, v["func"].sts, X(c), I(c))
    BY <2>1, <2>2, RxTurn
  <2> QED
    BY <2>1, <2>3, <2>4
<1> QED
  BY <1>2 DEF Chan

\* A reception given up: nothing is held, and the index is back at the start.
Dropped(c, d) ==
  /\ Kept(c, d) /\ R(d) = "IDLE" /\ F(d) = F(c) /\ I(d) = I(c)
  /\ ~d.dcm.flg["phys"] /\ d.dcm.idx = 0
  /\ X(d) = IF R(c) = "CF_ERR" /\ X(c) = "CF_WAIT" THEN "IDLE" ELSE X(c)

\* What the tick makes of the state of the physical receiver.
Heeded(c, d) ==
  \/ R(c) \notin {"SF_IND", "CF_IND_OVER", "FC_IND"} \cup RxErr
     /\ Turn(c, d, R(c), F(c), X(c), I(c))
  \/ R(c) = "SF_IND" /\ Turn(c, d, "IDLE", F(c), X(c), I(c))
  \/ R(c) = "FF_IND" /\ Turn(c, d, "FF_ERR", F(c), X(c), I(c))
  \/ R(c) = "FF_IND" /\ X(c) = "IDLE" /\ Turn(c, d, "FC_REQ", F(c), "RECEIVER_FC_REQ", I(c))
  \/ R(c) \in {"CF_IND", "FC_CON"} /\ Turn(c, d, "CF_ERR", F(c), X(c), I(c))
  \/ R(c) = "CF_IND_OVER" /\ X(c) = "CF_WAIT" /\ Turn(c, d, "IDLE", F(c), "CF_END", I(c))
  \/ R(c) = "CF_IND_OVER" /\ Turn(c, d, "IDLE", F(c), X(c), I(c))
  \/ R(c) = "FC_REQ" /\ Turn(c, d, "FC_CON", F(c), X(c), I(c))
  \/ /\ R(c) = "FC_IND" /\ c.mf.fs = "CTS" /\ X(c) \in {"FF_REQ", "FF_CON", "CF_CON"}
     /\ Turn(c, d, "IDLE", F(c), "FC_IND", I(c))
  \/ /\ R(c) = "FC_IND" /\ c.mf.fs = "CTS" /\ X(c) \notin {"FF_REQ", "FF_CON", "CF_CON"}
     /\ Turn(c, d, "IDLE", F(c), X(c), I(c))
  \/ R(c) = "FC_IND" /\ c.mf.fs = "WT" /\ Turn(c, d, "FC_IND_WAIT", F(c), X(c), I(c))
  \/ R(c) = "FC_IND" /\ c.mf.fs \notin {"CTS", "WT"} /\ Turn(c, d, "IDLE", F(c), "TX_FC_ERR", I(c))
  \/ R(c) \in RxErr /\ Dropped(c, d)

\* Being told of a request, and of one given up.
LEMMA DropIs ==
  ASSUME NEW c \in CtxT
  PROVE  /\ LET d == RxIndication(c, "phys", FALSE)
            IN /\ Kept(c, d) /\ d.mf = c.mf /\ d.rx = c.rx /\ d.tx = c.tx /\ I(d) = I(c)
               /\ ~d.dcm.flg["phys"] /\ d.dcm.idx = 0
         /\ LET d == RxIndication(c, "phys", TRUE)
            IN /\ Kept(c, d) /\ d.mf = c.mf /\ d.rx = c.rx /\ d.tx = c.tx /\ I(d) = I(c)
               /\ d.dcm.flg["phys"] /\ d.dcm.idx = 0
         /\ Turn(c, RxIndication(c, "func", FALSE), R(c), F(c), X(c), I(c))
         /\ Turn(c, RxIndication(c, "func", TRUE), R(c), F(c), X(c), I(c))
<1>1. c.dcm \in DcmT
  BY Parts
<1>2. ASSUME NEW v \in DcmT, v.reqLen = c.dcm.reqLen, v.buf = c.dcm.buf, v.txIdx = c.dcm.txIdx,
             v.res = c.dcm.res, v.serving = c.dcm.serving
      PROVE  LET d == [c EXCEPT !.dcm = v]
             IN /\ Kept(c, d) /\ d.mf = c.mf /\ d.rx = c.rx /\ d.tx = c.tx /\ I(d) = I(c)
                /\ d.dcm = v
  <2> DEFINE d == [c EXCEPT !.dcm = v]
  <2>1. d \in CtxT /\ d.dcm = v /\ d.rx = c.rx /\ d.mf = c.mf /\ d.tx = c.tx /\ d.out = c.out
    BY SetDcm
  <2> HIDE DEF d
  <2> QED
    BY <1>2, <2>1 DEF Kept, I, d
<1> DEFINE v(h, ok) == [c.dcm EXCEPT !.flg[h] = ok, !.idx = IF h = "phys" THEN 0 ELSE @]
<1>3. \A h, ok : RxIndication(c, h, ok) = [c EXCEPT !.dcm = v(h, ok)]
  BY DEF RxIndication, CtxT
<1>4. ASSUME NEW h \in Chan, NEW ok \in BOOLEAN
      PROVE  /\ v(h, ok) \in DcmT
             /\ v(h, ok).reqLen = c.dcm.reqLen /\ v(h, ok).buf = c.dcm.buf
             /\ v(h, ok).txIdx = c.dcm.txIdx /\ v(h, ok).res = c.dcm.res
             /\ v(h, ok).serving = c.dcm.serving
             /\ h = "phys" => (v(h, ok).flg["phys"] <=> ok) /\ v(h, ok).idx = 0
             /\ h = "func" => /\ v(h, ok).flg["phys"] = c.dcm.flg["phys"]
                              /\ v(h, ok).idx = c.dcm.idx
  BY <1>1 DEF DcmT, Truth, Chan
<1> HIDE DEF v
<1>5. "phys" \in Chan /\ "func" \in Chan /\ TRUE \in BOOLEAN /\ FALSE \in BOOLEAN
  BY DEF Chan
<1>6. ASSUME NEW ok \in BOOLEAN
      PROVE  LET d == RxIndication(c, "phys", ok)
             IN /\ Kept(c, d) /\ d.mf = c.mf /\ d.rx = c.rx /\ d.tx = c.tx /\ I(d) = I(c)
                /\ (d.dcm.flg["phys"] <=> ok) /\ d.dcm.idx = 0
  <2> DEFINE w == v("phys", ok)
  <2>1. RxIndication(c, "phys", ok) = [c EXCEPT !.dcm = w]
    BY <1>3
  <2>2. /\ w \in DcmT /\ w.reqLen = c.dcm.reqLen /\ w.buf = c.dcm.buf /\ w.txIdx = c.dcm.txIdx
        /\ w.res = c.dcm.res /\ w.serving = c.dcm.serving /\ (w.flg["phys"] <=> ok) /\ w.idx = 0
    BY <1>4, <1>5
  <2> HIDE DEF w
  <2> QED
    BY <1>2, <2>1, <2>2
<1>7. ASSUME NEW ok \in BOOLEAN
      PROVE  Turn(c, RxIndication(c, "func", ok), R(c), F(c), X(c), I(c))
  <2> DEFINE w == v("func", ok)
             d == [c EXCEPT !.dcm = w]
  <2>1. RxIndication(c, "func", ok) = d
    BY <1>3
  <2>2. /\ w \in DcmT /\ w.reqLen = c.dcm.reqLen /\ w.buf = c.dcm.buf /\ w.txIdx = c.dcm.txIdx
        /\ w.res = c.dcm.res /\ w.serving = c.dcm.serving
        /\ w.flg["phys"] = c.dcm.flg["phys"] /\ w.idx = c.dcm.idx
    BY <1>4, <1>5
  <2> HIDE DEF w
  <2>3. Kept(c, d) /\ d.mf = c.mf /\ d.rx = c.rx /\ d.tx = c.tx /\ I(d) = I(c) /\ d.dcm = w
    BY <1>2, <2>2
  <2> HIDE DEF d
  <2>4. Turn(c, d, R(c), F(c), X(c), I(c))
    BY <2>2, <2>3 DEF Turn, R, F, X, I
  <2> QED
    BY <2>1, <2>4
<1>8. /\ LET d == RxIndication(c, "phys", FALSE)
         IN /\ Kept(c, d) /\ d.mf = c.mf /\ d.rx = c.rx /\ d.tx = c.tx /\ I(d) = I(c)
            /\ ~d.dcm.flg["phys"] /\ d.dcm.idx = 0
      /\ LET d == RxIndication(c, "phys", TRUE)
         IN /\ Kept(c, d) /\ d.mf = c.mf /\ d.rx = c.rx /\ d.tx = c.tx /\ I(d) = I(c)
            /\ d.dcm.flg["phys"] /\ d.dcm.idx = 0
  BY <1>5, <1>6
<1> QED
  BY <1>5, <1>7, <1>8

\* The receive state machine of the physical channel.
LEMMA RxProcessPhys ==
  ASSUME NEW c \in CtxT
  PROVE  Heeded(c, RxProcess(c, "phys"))
<1> DEFINE d == RxProcess(c, "phys")
<1> USE DEF RxErr
<1>0. /\ R(c) \in RxS /\ "phys" \in Chan /\ NCr \in Nat /\ NBs \in Nat /\ EndWait \in Nat
      /\ FALSE \in Truth /\ c.tx.dly \in Nat
  BY Parts, TpAssumption DEF R, RxT, TxT, Chan, Truth
<1>1. CASE R(c) \in {"IDLE", "FC_IND_WAIT"}
  <2>1. d = c
    BY <1>1 DEF RxProcess, R
  <2> QED
    BY <1>1, <2>1, StayTurn DEF Heeded
<1>2. CASE R(c) = "SF_IND"
  <2>1. d = RxDataInit(c, "phys")
    BY <1>2 DEF RxProcess, R
  <2>2. Turn(c, d, "IDLE", F(c), X(c), I(c))
    BY <2>1, RxInits
  <2> QED
    BY <1>2, <2>2 DEF Heeded
<1>3. CASE R(c) = "FF_IND"
  <2>1. CASE c.mf.nbr = 0
    <3>1. d = Rx(c, "phys", "FF_ERR")
      BY <1>3, <2>1 DEF RxProcess, R
    <3>2. Turn(c, d, "FF_ERR", F(c), X(c), I(c))
      BY <3>1, RxSets DEF RxS
    <3> QED
      BY <1>3, <3>2 DEF Heeded
  <2>2. CASE c.mf.nbr # 0 /\ c.tx.sts = "IDLE"
    <3> DEFINE a == Rx(c, "phys", "FC_REQ")
               b == Tx(a, "RECEIVER_FC_REQ")
    <3>1. d = [b EXCEPT !.tx.conf = FALSE, !.tx.hrh = "phys"]
      BY <1>3, <2>2 DEF RxProcess, R
    <3>2. Turn(c, a, "FC_REQ", F(c), X(c), I(c))
      BY RxSets DEF RxS
    <3> HIDE DEF a
    <3>3. a \in CtxT
      BY <3>2 DEF Turn, Kept
    <3>4. Turn(a, b, R(a), F(a), "RECEIVER_FC_REQ", I(a))
      BY <1>0, <3>3, TxSets DEF TxS
    <3> HIDE DEF b
    <3>5. b \in CtxT
      BY <3>4 DEF Turn, Kept
    <3>6. Turn(b, d, R(b), F(b), X(b), I(b))
      BY <1>0, <3>1, <3>5, TxSets DEF TxS
    <3> HIDE DEF d
    <3>7. Turn(c, d, "FC_REQ", F(c), "RECEIVER_FC_REQ", I(c))
      BY <3>2, <3>4, <3>6 DEF Turn, Kept, R, F, X, I
    <3> QED
      BY <1>3, <2>2, <3>7 DEF Heeded, X, d
  <2>3. CASE c.mf.nbr # 0 /\ c.tx.sts # "IDLE" /\ c.tx.dly > 0
    <3>1. d = [c EXCEPT !.tx.dly = @ - 1]
      BY <1>3, <2>3 DEF RxProcess, R
    <3>2. c.tx.dly - 1 \in Nat
      BY <1>0, <2>3
    <3>3. Turn(c, [c EXCEPT !.tx.dly = c.tx.dly - 1], R(c), F(c), X(c), I(c))
      BY <1>0, <3>2, TxSets DEF TxS
    <3> QED
      BY <1>3, <3>1, <3>3 DEF Heeded
  <2>4. CASE c.mf.nbr # 0 /\ c.tx.sts # "IDLE" /\ ~(c.tx.dly > 0)
    <3>1. d = Rx(c, "phys", "FF_ERR")
      BY <1>3, <2>4 DEF RxProcess, R
    <3>2. Turn(c, d, "FF_ERR", F(c), X(c), I(c))
      BY <3>1, RxSets DEF RxS
    <3> QED
      BY <1>3, <3>2 DEF Heeded
  <2> QED
    BY <2>1, <2>2, <2>3, <2>4
<1>4. CASE R(c) \in {"CF_IND", "FC_CON"}
  <2>1. d = IF c.mf.ncr = 0 THEN Rx(c, "phys", "CF_ERR") ELSE c
    BY <1>4 DEF RxProcess, R
  <2>2. Turn(c, Rx(c, "phys", "CF_ERR"), "CF_ERR", F(c), X(c), I(c))
    BY RxSets DEF RxS
  <2> QED
    BY <1>4, <2>1, <2>2, StayTurn DEF Heeded
<1>5. CASE R(c) = "CF_IND_OVER"
  <2> DEFINE a == RxDataInit(c, "phys")
             b == Tx(a, "CF_END")
  <2>1. d = IF c.tx.sts = "CF_WAIT" THEN [b EXCEPT !.tx.nbs = EndWait] ELSE a
    BY <1>5 DEF RxProcess, R
  <2>2. Turn(c, a, "IDLE", F(c), X(c), I(c))
    BY RxInits
  <2> HIDE DEF a
  <2>3. a \in CtxT
    BY <2>2 DEF Turn, Kept
  <2>4. Turn(a, b, R(a), F(a), "CF_END", I(a))
    BY <1>0, <2>3, TxSets DEF TxS
  <2> HIDE DEF b
  <2>5. b \in CtxT
    BY <2>4 DEF Turn, Kept
  <2>6. Turn(b, [b EXCEPT !.tx.nbs = EndWait], R(b), F(b), X(b), I(b))
    BY <1>0, <2>5, TxSets DEF TxS
  <2>7. Turn(c, [b EXCEPT !.tx.nbs = EndWait], "IDLE", F(c), "CF_END", I(c))
    BY <2>2, <2>4, <2>6 DEF Turn, Kept, R, F, X, I
  <2> QED
    BY <1>5, <2>1, <2>2, <2>7 DEF Heeded, X
<1>6. CASE R(c) = "FC_REQ"
  <2> DEFINE a == Rx(c, "phys", "FC_CON")
  <2>1. d = IF c.tx.conf THEN [a EXCEPT !.mf.ncr = NCr] ELSE c
    BY <1>6 DEF RxProcess, R
  <2>2. Turn(c, a, "FC_CON", F(c), X(c), I(c))
    BY RxSets DEF RxS
  <2> HIDE DEF a
  <2>3. a \in CtxT
    BY <2>2 DEF Turn, Kept
  <2>4. Turn(a, [a EXCEPT !.mf.ncr = NCr], R(a), F(a), X(a), I(a))
    BY <1>0, <2>3, RxSets DEF RxS
  <2>5. Turn(c, [a EXCEPT !.mf.ncr = NCr], "FC_CON", F(c), X(c), I(c))
    BY <2>2, <2>4 DEF Turn, Kept, R, F, X, I
  <2> QED
    BY <1>6, <2>1, <2>5, StayTurn DEF Heeded
<1>7. CASE R(c) = "FC_IND" /\ c.mf.fs = "CTS"
  <2> DEFINE a == RxDataInit(c, "phys")
  <2>1. d = IF c.tx.sts \in {"FF_REQ", "FF_CON", "CF_CON"} THEN Tx(a, "FC_IND") ELSE a
    BY <1>7 DEF RxProcess, R
  <2>2. Turn(c, a, "IDLE", F(c), X(c), I(c))
    BY RxInits
  <2> HIDE DEF a
  <2>3. a \in CtxT
    BY <2>2 DEF Turn, Kept
  <2>4. Turn(a, Tx(a, "FC_IND"), R(a), F(a), "FC_IND", I(a))
    BY <1>0, <2>3, TxSets DEF TxS
  <2>5. Turn(c, Tx(a, "FC_IND"), "IDLE", F(c), "FC_IND", I(c))
    BY <2>2, <2>4 DEF Turn, Kept, R, F, X, I
  <2> QED
    BY <1>7, <2>1, <2>2, <2>5 DEF Heeded, X
<1>8. CASE R(c) = "FC_IND" /\ c.mf.fs = "WT"
  <2> DEFINE a == Rx(c, "phys", "FC_IND_WAIT")
  <2>1. d = [a EXCEPT !.tx.nbs = NBs]
    BY <1>8 DEF RxProcess, R
  <2>2. Turn(c, a, "FC_IND_WAIT", F(c), X(c), I(c))
    BY RxSets DEF RxS
  <2> HIDE DEF a
  <2>3. a \in CtxT
    BY <2>2 DEF Turn, Kept
  <2>4. Turn(a, [a EXCEPT !.tx.nbs = NBs], R(a), F(a), X(a), I(a))
    BY <1>0, <2>3, TxSets DEF TxS
  <2>5. Turn(c, [a EXCEPT !.tx.nbs = NBs], "FC_IND_WAIT", F(c), X(c), I(c))
    BY <2>2, <2>4 DEF Turn, Kept, R, F, X, I
  <2> QED
    BY <1>8, <2>1, <2>5 DEF Heeded
<1>9. CASE R(c) = "FC_IND" /\ c.mf.fs \notin {"CTS", "WT"}
  <2> DEFINE a == RxDataInit(c, "phys")
  <2>1. d = Tx(a, "TX_FC_ERR")
    BY <1>9 DEF RxProcess, R
  <2>2. Turn(c, a, "IDLE", F(c), X(c), I(c))
    BY RxInits
  <2> HIDE DEF a
  <2>3. a \in CtxT
    BY <2>2 DEF Turn, Kept
  <2>4. Turn(a, Tx(a, "TX_FC_ERR"), R(a), F(a), "TX_FC_ERR", I(a))
    BY <1>0, <2>3, TxSets DEF TxS
  <2>5. Turn(c, Tx(a, "TX_FC_ERR"), "IDLE", F(c), "TX_FC_ERR", I(c))
    BY <2>2, <2>4 DEF Turn, Kept, R, F, X, I
  <2> QED
    BY <1>9, <2>1, <2>5 DEF Heeded
<1>10. CASE R(c) \in RxErr
  <2> DEFINE a == IF R(c) = "CF_ERR" /\ c.tx.sts = "CF_WAIT" THEN TxDataInit(c) ELSE c
             b == RxDataInit(a, "phys")
  <2>1. d = RxIndication(b, "phys", FALSE)
    BY <1>10 DEF RxProcess, R
  <2>2. Turn(c, a, R(c), F(c), IF R(c) = "CF_ERR" /\ X(c) = "CF_WAIT" THEN "IDLE" ELSE X(c), I(c))
    BY <1>0, TxSets, StayTurn DEF X, TxS
  <2> HIDE DEF a
  <2>3. a \in CtxT
    BY <2>2 DEF Turn, Kept
  <2>4. Turn(a, b, "IDLE", F(a), X(a), I(a))
    BY <2>3, RxInits
  <2> HIDE DEF b
  <2>5. b \in CtxT
    BY <2>4 DEF Turn, Kept
  <2>6. /\ Kept(b, d) /\ d.rx = b.rx /\ d.tx = b.tx /\ I(d) = I(b)
        /\ ~d.dcm.flg["phys"] /\ d.dcm.idx = 0
    BY <2>1, <2>5, DropIs
  <2> HIDE DEF d
  <2>7. Dropped(c, d)
    BY <2>2, <2>4, <2>6 DEF Dropped, Turn, Kept, R, F, X, I
  <2> QED
    BY <1>10, <2>7 DEF Heeded, d
<1> QED
  BY <1>0, <1>1, <1>2, <1>3, <1>4, <1>5, <1>6, <1>7, <1>8, <1>9, <1>10 DEF RxS

\* The receive state machine of the functional channel, which takes only
\* single frames.
LEMMA RxProcessFunc ==
  ASSUME NEW c \in CtxT, F(c) \in {"IDLE", "SF_IND", "SF_ERR", "FC_IND_WAIT"}
  PROVE  LET d == RxProcess(c, "func")
         IN \/ Turn(c, d, R(c), F(c), X(c), I(c))
            \/ Turn(c, d, R(c), "IDLE", X(c), I(c))
<1>0. "func" \in Chan /\ FALSE \in Truth
  BY DEF Chan, Truth
<1> USE DEF RxErr
<1>1. CASE F(c) \in {"IDLE", "FC_IND_WAIT"}
  BY <1>1, StayTurn DEF RxProcess, F
<1>2. CASE F(c) = "SF_IND"
  <2>1. RxProcess(c, "func") = RxDataInit(c, "func")
    BY <1>2 DEF RxProcess, F
  <2> QED
    BY <2>1, RxInits
<1>3. CASE F(c) = "SF_ERR"
  <2> DEFINE b == RxDataInit(c, "func")
             d == RxIndication(b, "func", FALSE)
  <2>1. RxProcess(c, "func") = d
    BY <1>3 DEF RxProcess, F
  <2>2. Turn(c, b, R(c), "IDLE", X(c), I(c))
    BY RxInits
  <2> HIDE DEF b
  <2>3. b \in CtxT
    BY <2>2 DEF Turn, Kept
  <2>4. Turn(b, d, R(b), F(b), X(b), I(b))
    BY <2>3, DropIs
  <2> HIDE DEF d
  <2>5. Turn(c, d, R(c), "IDLE", X(c), I(c))
    BY <2>2, <2>4 DEF Turn, Kept, R, F, X, I
  <2> QED
    BY <2>1, <2>5
<1> QED
  BY <1>1, <1>2, <1>3

\* A CF sent, or the error when the server has no more.
Sent(c, d) ==
  /\ d \in CtxT /\ d.mf = c.mf /\ d.rx = c.rx
  /\ d.tx.num = c.tx.num /\ d.tx.bs = c.tx.bs
  /\ d.tx.cnt = c.tx.cnt + 1 /\ d.tx.sn = (c.tx.sn + 1) % SnMod /\ d.tx.bsCnt = Down(c.tx.bsCnt)
  /\ d.tx.over <=> c.tx.cnt + 1 >= c.tx.num
  /\ d.dcm.flg = c.dcm.flg /\ d.dcm.idx = c.dcm.idx /\ d.dcm.reqLen = c.dcm.reqLen
  /\ d.dcm.buf = c.dcm.buf /\ d.dcm.res = c.dcm.res /\ d.dcm.serving = c.dcm.serving
  /\ \/ X(d) = "TX_CF_ERR" /\ d.out = c.out
     \/ /\ X(d) = "CF_CON_WAIT" /\ I(d) = I(c) + 1
        /\ d.out = [ty |-> "CF", sn |-> d.tx.sn, chunk |-> <<c.dcm.res, I(c)>>]

\* The FC for a first frame goes out.
Granted(c, d) ==
  /\ d \in CtxT /\ d.rx = c.rx /\ d.mf = c.mf /\ d.dcm = c.dcm
  /\ d.tx = [c.tx EXCEPT !.sts = "CF_WAIT"] /\ d.out = [ty |-> "FC", bs |-> c.tx.bs]

\* What the tick makes of the state of the sender.
Driven(c, d) ==
  \/ X(c) \notin {"FC_IND", "RECEIVER_FC_REQ"} /\ Turn(c, d, R(c), F(c), X(c), I(c))
  \/ /\ X(c) = "FF_REQ"
     /\ \E r \in {R(c), "FC_IND_WAIT"}, f \in {F(c), "FC_IND_WAIT"} :
          (r = R(c) \/ R(c) = "IDLE") /\ Turn(c, d, r, f, "FF_CON", I(c))
  \/ X(c) \in {"FF_REQ", "FF_CON"} /\ Turn(c, d, R(c), F(c), "TX_FF_ERR", I(c))
  \/ X(c) \in {"CF_CON", "CF_CON_CONTINUE"} /\ Turn(c, d, R(c), F(c), "TX_CF_ERR", I(c))
  \/ X(c) \in {"FC_IND", "CF_CON_CONTINUE"} /\ Sent(c, d)
  \/ X(c) = "RECEIVER_FC_REQ" /\ Granted(c, d)
  \/ X(c) \in {"CF_END"} \cup TxErr /\ Turn(c, d, R(c), F(c), "IDLE", 0)

\* A sequence number is below the modulus.
LEMMA ModIn == \A n \in Nat : n % SnMod \in Nat /\ n % SnMod < SnMod
BY TpAssumption

\* A consecutive frame goes out with the next number and chunk, unless the
\* buffer is at its end.
LEMMA TxCfIs ==
  ASSUME NEW c \in CtxT
  PROVE  Sent(c, TxCf(c))
<1>0. c.tx \in TxT /\ c.dcm \in DcmT /\ c.dcm.txIdx \in Nat /\ c.dcm.res \in Nat /\ TxBuf \in Nat
  BY Parts, TpAssumption DEF DcmT, Half
<1> DEFINE v == [c.tx EXCEPT !.sn = (@ + 1) % SnMod, !.cnt = @ + 1, !.bsCnt = Down(@),
                             !.over = c.tx.cnt + 1 >= c.tx.num]
           a == [c EXCEPT !.tx = v]
           over == c.tx.cnt + 1 >= c.tx.num
<1>1. /\ (c.tx.sn + 1) % SnMod \in Nat /\ Down(c.tx.bsCnt) \in Nat /\ c.tx.cnt + 1 \in Nat
      /\ over \in Truth
  BY <1>0, ModIn, DownIs DEF TxT, Truth
<1>2. /\ v \in TxT /\ v.num = c.tx.num /\ v.bs = c.tx.bs
      /\ v.cnt = c.tx.cnt + 1 /\ v.sn = (c.tx.sn + 1) % SnMod /\ v.bsCnt = Down(c.tx.bsCnt)
      /\ v.over = over
  <2> HIDE DEF over
  <2>1. v = [c.tx EXCEPT !.sn = (@ + 1) % SnMod, !.cnt = @ + 1, !.bsCnt = Down(@), !.over = over]
    BY DEF over
  <2> QED
    BY <1>0, <1>1, <2>1 DEF TxT
<1> HIDE DEF v
<1>3. a \in CtxT /\ a.tx = v /\ a.rx = c.rx /\ a.mf = c.mf /\ a.dcm = c.dcm /\ a.out = c.out
  BY <1>2, SetTx
<1>4. CASE c.dcm.txIdx >= TxBuf
  <2> DEFINE d == Tx(a, "TX_CF_ERR")
  <2>1. TxCf(c) = d
    BY <1>4 DEF TxCf, v
  <2> HIDE DEF a
  <2>2. /\ d \in CtxT /\ d.tx = [a.tx EXCEPT !.sts = "TX_CF_ERR"] /\ d.mf = a.mf /\ d.rx = a.rx
        /\ d.dcm = a.dcm /\ d.out = a.out
    BY <1>3, TxIs DEF TxS
  <2> HIDE DEF d
  <2>3. /\ d.tx.num = v.num /\ d.tx.bs = v.bs /\ d.tx.cnt = v.cnt /\ d.tx.sn = v.sn
        /\ d.tx.bsCnt = v.bsCnt /\ d.tx.over = v.over /\ d.tx.sts = "TX_CF_ERR"
    BY <1>2, <1>3, <2>2 DEF TxT
  <2>4. Sent(c, d)
    BY <1>2, <1>3, <2>2, <2>3 DEF Sent, X, I, over
  <2> QED
    BY <2>1, <2>4
<1>5. CASE ~(c.dcm.txIdx >= TxBuf)
  <2> DEFINE f == [ty |-> "CF", sn |-> v.sn, chunk |-> <<c.dcm.res, c.dcm.txIdx>>]
             w == [v EXCEPT !.sts = "CF_CON_WAIT", !.conf = FALSE]
             s == [c.dcm EXCEPT !.txIdx = @ + 1]
             p == [c EXCEPT !.tx = w]
             q == [p EXCEPT !.dcm = s]
             d == [q EXCEPT !.out = f]
  <2>1. TxCf(c) = [c EXCEPT !.tx = w, !.dcm = s, !.out = f]
    <3>1. TxCf(c) = [Tx(a, "CF_CON_WAIT") EXCEPT !.tx.conf = FALSE, !.dcm.txIdx = @ + 1, !.out = f]
      BY <1>3, <1>5 DEF TxCf, v, f
    <3>2. Tx(a, "CF_CON_WAIT") = [c EXCEPT !.tx = [v EXCEPT !.sts = "CF_CON_WAIT"]]
      BY <1>3 DEF Tx, CtxT
    <3> QED
      BY <3>1, <3>2 DEF CtxT
  <2>2. /\ w \in TxT /\ w.num = v.num /\ w.bs = v.bs /\ w.cnt = v.cnt /\ w.sn = v.sn
        /\ w.bsCnt = v.bsCnt /\ w.over = v.over /\ w.sts = "CF_CON_WAIT"
    BY <1>2 DEF TxT, TxS, Truth
  <2>3. /\ s \in DcmT /\ s.txIdx = c.dcm.txIdx + 1 /\ s.flg = c.dcm.flg /\ s.idx = c.dcm.idx
        /\ s.reqLen = c.dcm.reqLen /\ s.buf = c.dcm.buf /\ s.res = c.dcm.res
        /\ s.serving = c.dcm.serving
    BY <1>0 DEF DcmT
  <2>4. f \in Frame /\ f = [ty |-> "CF", sn |-> v.sn, chunk |-> <<c.dcm.res, c.dcm.txIdx>>]
    BY <1>0, <1>2, <1>1 DEF Frame, Chunk
  <2>d. TxCf(c) = d
    BY <2>1
  <2> HIDE DEF w, s, f
  <2>5. p \in CtxT /\ p.tx = w /\ p.rx = c.rx /\ p.mf = c.mf /\ p.dcm = c.dcm /\ p.out = c.out
    BY <2>2, SetTx
  <2> HIDE DEF p
  <2>6. q \in CtxT /\ q.dcm = s /\ q.rx = p.rx /\ q.mf = p.mf /\ q.tx = p.tx /\ q.out = p.out
    BY <2>3, <2>5, SetDcm
  <2> HIDE DEF q
  <2>7. d \in CtxT /\ d.out = f /\ d.rx = q.rx /\ d.mf = q.mf /\ d.tx = q.tx /\ d.dcm = q.dcm
    BY <2>4, <2>6, SetOut
  <2> HIDE DEF d
  <2>8. Sent(c, d)
    BY <1>2, <2>2, <2>3, <2>4, <2>5, <2>6, <2>7 DEF Sent, X, I, over
  <2> QED
    BY <2>d, <2>8
<1> QED
  BY <1>4, <1>5

\* The send state machine sends a frame, or goes on, or ends the response.
LEMMA TxProcessIs ==
  ASSUME NEW c \in CtxT
  PROVE  Driven(c, TxProcess(c))
<1> DEFINE d == TxProcess(c)
           h == c.tx.hrh
<1>0. /\ X(c) \in TxS /\ h \in Chan /\ NBs \in Nat /\ c.tx.conf \in BOOLEAN
      /\ c.tx.stmin \in Nat /\ c.tx \in TxT
  BY Parts, TpAssumption DEF X, TxT, Truth
<1> USE DEF TxErr
<1>1. CASE X(c) \in {"IDLE", "CF_CON_WAIT", "CF_WAIT"}
  <2>1. d = c
    BY <1>1 DEF TxProcess, X
  <2> QED
    BY <1>1, <2>1, StayTurn DEF Driven
<1>2. CASE X(c) = "FF_REQ"
  <2>1. CASE ~c.tx.conf
    <3>1. d = c
      BY <1>2, <2>1 DEF TxProcess, X
    <3> QED
      BY <1>2, <3>1, StayTurn DEF Driven
  <2>2. CASE c.tx.conf /\ c.rx[h].sts # "IDLE"
    <3>1. d = Delayed(c, h, "TX_FF_ERR")
      BY <1>2, <2>2 DEF TxProcess, X
    <3>2. \/ Turn(c, d, R(c), F(c), X(c), I(c))
          \/ Turn(c, d, R(c), F(c), "TX_FF_ERR", I(c))
      BY <1>0, <3>1, DelayedIs DEF TxS
    <3> QED
      BY <1>2, <3>2 DEF Driven
  <2>3. CASE c.tx.conf /\ c.rx[h].sts = "IDLE"
    <3> DEFINE a == IF h = "func" /\ c.rx["phys"].sts = "IDLE" THEN WaitForFc(c, "phys") ELSE c
               b == Rx(a, h, "FC_IND_WAIT")
               e == Tx(b, "FF_CON")
    <3>1. d = [e EXCEPT !.tx.nbs = NBs]
      BY <1>2, <2>3 DEF TxProcess, X
    <3>2. /\ Turn(c, a, R(a), F(c), X(c), I(c))
          /\ R(a) = R(c) \/ (R(c) = "IDLE" /\ R(a) = "FC_IND_WAIT")
      <4>1. CASE h = "func" /\ R(c) = "IDLE"
        <5> DEFINE u == WaitForFc(c, "phys")
        <5>1. a = u
          BY <4>1 DEF R
        <5>2. /\ u \in CtxT /\ u.tx = c.tx /\ u.dcm = c.dcm /\ u.out = c.out
              /\ u.rx["phys"].sts = "FC_IND_WAIT" /\ u.rx["func"] = c.rx["func"]
              /\ u.mf.cnt = c.mf.cnt /\ u.mf.len = c.mf.len /\ u.mf.sn = c.mf.sn
          BY WaitForFcIs DEF Chan
        <5> HIDE DEF u, a
        <5> QED
          BY <4>1, <5>1, <5>2 DEF Turn, Kept, R, F, X, I
      <4>2. CASE ~(h = "func" /\ R(c) = "IDLE")
        <5>1. a = c
          BY <4>2 DEF R
        <5> QED
          BY <5>1, StayTurn
      <4> QED
        BY <4>1, <4>2
    <3> HIDE DEF a
    <3>3. a \in CtxT
      BY <3>2 DEF Turn, Kept
    <3>4. \E r \in {R(a), "FC_IND_WAIT"}, f \in {F(a), "FC_IND_WAIT"} :
             (r = R(a) \/ h = "phys") /\ Turn(a, b, r, f, X(a), I(a))
      <4>1. CASE h = "phys"
        <5>1. Turn(a, b, "FC_IND_WAIT", F(a), X(a), I(a))
          BY <3>3, <4>1, RxSets DEF RxS
        <5> QED
          BY <4>1, <5>1
      <4>2. CASE h = "func"
        <5>1. Turn(a, b, R(a), "FC_IND_WAIT", X(a), I(a))
          BY <3>3, <4>2, RxSets DEF RxS
        <5> QED
          BY <5>1
      <4> QED
        BY <1>0, <4>1, <4>2 DEF Chan
    <3> HIDE DEF b
    <3>5. b \in CtxT
      BY <3>4 DEF Turn, Kept
    <3>6. Turn(b, e, R(b), F(b), "FF_CON", I(b))
      BY <1>0, <3>5, TxSets DEF TxS
    <3> HIDE DEF e
    <3>7. e \in CtxT
      BY <3>6 DEF Turn, Kept
    <3>8. Turn(e, d, R(e), F(e), X(e), I(e))
      BY <1>0, <3>1, <3>7, TxSets DEF TxS
    <3> HIDE DEF d
    <3>9. h = "phys" => R(c) = "IDLE"
      BY <2>3 DEF R
    <3>10. Turn(c, d, R(d), F(d), "FF_CON", I(c)) /\ F(d) \in {F(c), "FC_IND_WAIT"}
           /\ (R(d) = R(c) \/ (R(c) = "IDLE" /\ R(d) = "FC_IND_WAIT"))
      <4>1. PICK r \in {R(a), "FC_IND_WAIT"}, f \in {F(a), "FC_IND_WAIT"} :
               (r = R(a) \/ h = "phys") /\ Turn(a, b, r, f, X(a), I(a))
        BY <3>4
      <4>2. R(d) = r /\ F(d) = f /\ X(a) = X(c) /\ I(a) = I(c) /\ F(a) = F(c)
        BY <3>2, <3>6, <3>8, <4>1 DEF Turn, R, F, X, I
      <4>3. Turn(c, d, r, f, "FF_CON", I(c))
        BY <3>2, <3>6, <3>8, <4>1, <4>2 DEF Turn, Kept, R, F, X, I
      <4> QED
        BY <3>2, <3>9, <4>1, <4>2, <4>3
    <3> QED
      BY <1>2, <3>10 DEF Driven, d
  <2> QED
    BY <1>0, <2>1, <2>2, <2>3
<1>3. CASE X(c) = "FF_CON"
  <2>1. d = IF c.tx.nbs = 0 THEN Tx(c, "TX_FF_ERR") ELSE c
    BY <1>3 DEF TxProcess, X
  <2>2. Turn(c, Tx(c, "TX_FF_ERR"), R(c), F(c), "TX_FF_ERR", I(c))
    BY <1>0, TxSets DEF TxS
  <2> QED
    BY <1>3, <2>1, <2>2, StayTurn DEF Driven
<1>4. CASE X(c) = "CF_CON"
  <2>1. d = IF c.tx.nbs = 0 THEN Tx(c, "TX_CF_ERR") ELSE c
    BY <1>4 DEF TxProcess, X
  <2>2. Turn(c, Tx(c, "TX_CF_ERR"), R(c), F(c), "TX_CF_ERR", I(c))
    BY <1>0, TxSets DEF TxS
  <2> QED
    BY <1>4, <2>1, <2>2, StayTurn DEF Driven
<1>5. CASE X(c) = "FC_IND"
  <2>1. d = TxCf(c)
    BY <1>5 DEF TxProcess, X
  <2> QED
    BY <1>5, <2>1, TxCfIs DEF Driven
<1>6. CASE X(c) = "CF_CON_CONTINUE"
  <2>1. CASE c.tx.ncs = 0
    <3>1. d = Tx(c, "TX_CF_ERR")
      BY <1>6, <2>1 DEF TxProcess, X
    <3>2. Turn(c, d, R(c), F(c), "TX_CF_ERR", I(c))
      BY <1>0, <3>1, TxSets DEF TxS
    <3> QED
      BY <1>6, <3>2 DEF Driven
  <2>2. CASE c.tx.ncs # 0 /\ c.tx.stCnt = 0
    <3> DEFINE v == [c.tx EXCEPT !.stCnt = c.tx.stmin]
               b == [c EXCEPT !.tx = v]
    <3>1. d = TxCf(b)
      BY <1>6, <2>2 DEF TxProcess, X
    <3>2. /\ v \in TxT /\ v.cnt = c.tx.cnt /\ v.num = c.tx.num /\ v.sn = c.tx.sn
          /\ v.bs = c.tx.bs /\ v.bsCnt = c.tx.bsCnt
      BY <1>0 DEF TxT
    <3> HIDE DEF v
    <3>3. b \in CtxT /\ b.tx = v /\ b.rx = c.rx /\ b.mf = c.mf /\ b.dcm = c.dcm /\ b.out = c.out
      BY <3>2, SetTx
    <3> HIDE DEF b
    <3>4. Sent(b, TxCf(b))
      BY <3>3, TxCfIs
    <3> HIDE DEF d
    <3>5. Sent(c, d)
      BY <3>1, <3>2, <3>3, <3>4 DEF Sent, I
    <3> QED
      BY <1>6, <3>5 DEF Driven, d
  <2>3. CASE c.tx.ncs # 0 /\ c.tx.stCnt # 0
    <3>1. d = c
      BY <1>6, <2>3 DEF TxProcess, X
    <3> QED
      BY <1>6, <3>1, StayTurn DEF Driven
  <2> QED
    BY <2>1, <2>2, <2>3
<1>7. CASE X(c) = "RECEIVER_FC_REQ"
  <2> DEFINE b == Tx(c, "CF_WAIT")
             f == [ty |-> "FC", bs |-> c.tx.bs]
  <2>1. d = [b EXCEPT !.out = f]
    BY <1>7 DEF TxProcess, X
  <2>2. /\ b \in CtxT /\ b.tx = [c.tx EXCEPT !.sts = "CF_WAIT"] /\ b.mf = c.mf /\ b.rx = c.rx
        /\ b.dcm = c.dcm /\ b.out = c.out
    BY TxIs DEF TxS
  <2> HIDE DEF b
  <2>3. f \in Frame
    <3>1. c.tx.bs \in Nat
      BY Parts DEF TxT
    <3> QED
      BY <3>1 DEF Frame
  <2>4. Granted(c, [b EXCEPT !.out = f])
    BY <2>2, <2>3, SetOut DEF Granted
  <2> QED
    BY <1>7, <2>1, <2>4 DEF Driven
<1>8. CASE X(c) \in {"CF_END"} \cup TxErr
  <2>1. d = TxEnded(c) \/ (d = c /\ X(c) = "CF_END")
    BY <1>8 DEF TxProcess, X
  <2>2. Turn(c, TxEnded(c), R(c), F(c), "IDLE", 0)
    BY EndedTurn DEF TxEnded
  <2> QED
    BY <1>8, <2>1, <2>2, StayTurn DEF Driven
<1> QED
  BY <1>0, <1>1, <1>2, <1>3, <1>4, <1>5, <1>6, <1>7, <1>8 DEF TxS

St == {"idle", "wait", "waitFC", "send", "recv"}
TesterT == [st : St, msg : Half, len : Nat, k : Nat, num : Nat, sn : Nat, got : Chunks,
            credit : Nat]
\* States: of a channel in the middle of a request; of a sender with no response.
Rcv == {"FF_IND", "FC_REQ", "FC_CON", "CF_IND"}
TxRest == {"IDLE", "CF_WAIT", "CF_END", "RECEIVER_FC_REQ"}
\* Those in which a request may be received; those with a response under way.
Ready == {"IDLE", "CF_WAIT", "RECEIVER_FC_REQ"}
Start == {"FF_REQ", "FF_CON"}
Flows == {"CF_CON_WAIT", "CF_CON_CONTINUE"}
Active == Start \cup Flows \cup {"CF_CON", "FC_IND"}
\* The start of some message.
Whole(chunks) == \E m \in Half : MessageOf(m, chunks)

\* What a tick leaves behind: nothing still to be sent at once.
Rested(c) == X(c) \notin {"FC_IND", "RECEIVER_FC_REQ"}

\* One message at a time on the physical channel: it is received, held for the
\* server, served, or its response is sent.
OneAtATime(c, t) ==
  /\ F(c) \in {"IDLE", "SF_IND", "SF_ERR", "FC_IND_WAIT"}
  /\ c.dcm.flg["phys"] => /\ R(c) \notin Rcv \cup RxErr \cup {"FC_IND"}
                          /\ t.st \notin {"send", "recv"}
                          /\ c.dcm.serving # "phys" /\ X(c) \in TxRest
  /\ c.dcm.serving = "phys" => R(c) \notin Rcv \cup {"FC_IND"} /\ t.st # "recv" /\ X(c) \in TxRest
  /\ R(c) \in Rcv => X(c) \in Ready /\ t.st # "recv"
  /\ c.dcm.idx # 0 => R(c) \in Rcv \cup RxErr /\ X(c) \in Ready /\ c.dcm.serving # "phys"
  /\ X(c) = "RECEIVER_FC_REQ" => R(c) = "FC_REQ"

\* How far a request has been received: no further than it has been sent.
Requesting(c, t) ==
  /\ t.st = "send" => t.k \in 1 .. t.len - 1
  /\ c.dcm.idx # 0 => c.dcm.idx = Len(c.dcm.buf)
  /\ R(c) \in Rcv =>
       /\ c.dcm.idx # 0 /\ c.mf.cnt + 1 < c.mf.len
       /\ t.st = "send" => t.len = c.mf.len /\ t.k > c.mf.cnt
  /\ R(c) = "FF_IND" \/ X(c) = "RECEIVER_FC_REQ" =>
       /\ t.st \in {"idle", "waitFC"}
       /\ t.st = "waitFC" => t.len = c.mf.len /\ t.k = 1 /\ c.mf.cnt = 0

\* What the buffer holds of it, and of a request that is held.
Copied(c, t) ==
  /\ c.dcm.flg["phys"] => c.dcm.reqLen = Len(c.dcm.buf) /\ Whole(c.dcm.buf)
  /\ R(c) \in Rcv =>
       /\ c.dcm.idx = c.mf.cnt + 1 /\ c.dcm.reqLen = c.mf.len
       /\ t.st = "send" /\ t.k = c.mf.cnt + 1 => MessageOf(t.msg, c.dcm.buf)
  /\ (R(c) = "FF_IND" \/ X(c) = "RECEIVER_FC_REQ") /\ t.st = "waitFC" => MessageOf(t.msg, c.dcm.buf)

\* All about the request.  What is copied can be said unless the tester restarts hastily.
Asking(c, t) ==
  /\ OneAtATime(c, t)
  /\ Requesting(c, t)
  /\ HastyRestart \/ Copied(c, t)

\* Confirmations leave the request as it is.
LEMMA AskingConfirmed ==
  ASSUME NEW c \in CtxT, NEW d, Confirmed(c, d), NEW t, Asking(c, t), Rested(c)
  PROVE  Asking(d, t) /\ Rested(d) /\ d \in CtxT
<1> USE DEF Confirmed, Asking, Rested, Turn, Kept, OneAtATime, Rcv, TxRest, Ready, RxErr
<1>1. d \in CtxT
  OBVIOUS
<1>2. Rested(d)
  BY DEF X
<1>3. OneAtATime(d, t)
  BY DEF R, F, X, I
<1>4. Requesting(d, t)
  BY DEF Requesting, R, F, X, I
<1>5. HastyRestart \/ Copied(d, t)
  BY DEF Copied, R, F, X, I
<1> QED
  BY <1>1, <1>2, <1>3, <1>4, <1>5

\* So does the receive state machine of the physical channel.
LEMMA AskingHeeded ==
  ASSUME NEW c \in CtxT, NEW d, Heeded(c, d), NEW t, Asking(c, t), Rested(c)
  PROVE  Asking(d, t) /\ d \in CtxT
<1> USE DEF Heeded, Dropped, Asking, Rested, Turn, Kept, OneAtATime, Rcv, TxRest, Ready, RxErr
<1>1. d \in CtxT
  OBVIOUS
<1>3. OneAtATime(d, t)
  BY DEF R, F, X, I
<1>4. Requesting(d, t)
  BY DEF Requesting, R, F, X, I
<1>5. HastyRestart \/ Copied(d, t)
  BY DEF Copied, R, F, X, I
<1> QED
  BY <1>1, <1>3, <1>4, <1>5

\* So does that of the functional one.
LEMMA AskingFunc ==
  ASSUME NEW c \in CtxT, NEW t, Asking(c, t)
  PROVE  LET d == RxProcess(c, "func")
         IN Asking(d, t) /\ d \in CtxT /\ R(d) = R(c) /\ X(d) = X(c) /\ d.out = c.out
<1> DEFINE d == RxProcess(c, "func")
<1>1. \/ Turn(c, d, R(c), F(c), X(c), I(c))
      \/ Turn(c, d, R(c), "IDLE", X(c), I(c))
  BY RxProcessFunc DEF Asking, OneAtATime
<1> HIDE DEF d
<1>2. Asking(d, t) /\ d \in CtxT /\ R(d) = R(c) /\ X(d) = X(c) /\ d.out = c.out
  BY <1>1 DEF Asking, OneAtATime, Requesting, Copied, Turn, Kept, R, F, X, I
<1> QED
  BY <1>2 DEF d

\* The tester and what it hears.
LEMMA QuietIs ==
  ASSUME NEW m \in Half
  PROVE  LET q == Quiet(m)
         IN q \in TesterT /\ q.st = "idle" /\ q.got = <<>> /\ q.msg = m /\ q.credit = 0
BY DEF Quiet, TesterT, St, Chunks

\* A tester that waits for flow control goes on to send; no other does.
LEMMA HearsFc ==
  ASSUME NEW t \in TesterT, NEW f \in [ty : {"FC"}, bs : Nat]
  PROVE  LET u == Hears(t, f)
         IN \/ t.st # "waitFC" /\ u = t
            \/ /\ t.st = "waitFC" /\ u \in TesterT /\ u.st = "send" /\ u.k = t.k /\ u.len = t.len
               /\ u.msg = t.msg /\ u.got = t.got /\ u.num = t.num
<1>0. f.ty = "FC" /\ f.bs \in Nat /\ MaxReq \in Nat
  BY TpAssumption
<1>1. CASE t.st # "waitFC"
  BY <1>0, <1>1 DEF Hears
<1>2. CASE t.st = "waitFC"
  <2> DEFINE n == IF f.bs = 0 THEN MaxReq ELSE f.bs
             u == [t EXCEPT !.st = "send", !.credit = n]
  <2>1. Hears(t, f) = u
    BY <1>0, <1>2 DEF Hears
  <2>2. n \in Nat
    BY <1>0
  <2> HIDE DEF n
  <2>3. u \in TesterT /\ u.st = "send" /\ u.k = t.k /\ u.len = t.len /\ u.msg = t.msg
        /\ u.got = t.got /\ u.num = t.num
    BY <2>2 DEF TesterT, St
  <2> QED
    BY <1>2, <2>1, <2>3
<1> QED
  BY <1>1, <1>2

\* The tester does not hear what is no frame for it.
LEMMA HearsNone ==
  ASSUME NEW t \in TesterT, NEW f, f.ty \in {"none", "CTS", "WT", "OVFLW"}
  PROVE  Hears(t, f) = t
BY DEF Hears

\* A tester that collects a response takes the frame in order or gives up.
LEMMA HearsCf ==
  ASSUME NEW t \in TesterT, NEW f \in [ty : {"CF"}, sn : Nat, chunk : Chunk]
  PROVE  LET u == Hears(t, f)
         IN \/ t.st # "recv" /\ u = t
            \/ t.st = "recv" /\ u = Quiet(t.msg)
            \/ /\ t.st = "recv" /\ f.sn = t.sn
               /\ u \in TesterT /\ u.st \in {"idle", "recv"}
               /\ u.st = "idle" <=> Len(t.got) + 1 = t.num
               /\ u.sn = (t.sn + 1) % SnMod /\ u.got = Append(t.got, f.chunk)
               /\ u.credit = Down(t.credit) /\ u.num = t.num /\ u.msg = t.msg
<1>0. f.ty = "CF" /\ f.chunk \in Chunk
  OBVIOUS
<1>1. CASE t.st # "recv"
  BY <1>0, <1>1 DEF Hears
<1>2. CASE t.st = "recv" /\ f.sn # t.sn
  BY <1>0, <1>2 DEF Hears
<1>3. CASE t.st = "recv" /\ f.sn = t.sn
  <2> DEFINE s == IF Len(t.got) + 1 = t.num THEN "idle" ELSE "recv"
             u == [t EXCEPT !.st = s, !.sn = (@ + 1) % SnMod, !.got = Append(@, f.chunk),
                            !.credit = Down(@)]
  <2>1. Hears(t, f) = u
    BY <1>0, <1>3 DEF Hears
  <2>2. /\ s \in St /\ (t.sn + 1) % SnMod \in Nat /\ Down(t.credit) \in Nat
        /\ Append(t.got, f.chunk) \in Chunks
    <3>1. t.sn + 1 \in Nat /\ t.credit \in Nat /\ t.got \in Seq(Chunk)
      BY DEF TesterT, Chunks
    <3>2. Append(t.got, f.chunk) \in Seq(Chunk)
      BY <1>0, <3>1
    <3> QED
      BY <3>1, <3>2, ModIn, DownIs DEF St, Chunks
  <2>3. s \in {"idle", "recv"} /\ (s = "idle" <=> Len(t.got) + 1 = t.num)
    OBVIOUS
  <2> HIDE DEF s
  <2>4. /\ u \in TesterT /\ u.st = s /\ u.sn = (t.sn + 1) % SnMod /\ u.got = Append(t.got, f.chunk)
        /\ u.credit = Down(t.credit) /\ u.num = t.num /\ u.msg = t.msg
    BY <2>2 DEF TesterT
  <2> QED
    BY <1>3, <2>1, <2>3, <2>4
<1> QED
  BY <1>1, <1>2, <1>3

\* What the send state machine sends does not disturb the request.
LEMMA AskingDriven ==
  ASSUME NEW c \in CtxT, NEW d, Driven(c, d), c.out = NoFrame,
         NEW t \in TesterT, Asking(c, t), NEW u \in {t, Hears(t, d.out)}
  PROVE  Asking(d, u) /\ Rested(d) /\ d \in CtxT /\ u \in TesterT
<1> USE DEF Asking, Rested, Turn, Kept, OneAtATime, Rcv, TxRest, Ready, RxErr, TxErr
<1>1. CASE ~(X(c) \in {"FC_IND", "CF_CON_CONTINUE"} /\ Sent(c, d))
           /\ ~(X(c) = "RECEIVER_FC_REQ" /\ Granted(c, d))
  <2>1. d.out.ty = "none" /\ d \in CtxT
    BY <1>1 DEF Driven, NoFrame
  <2>2. u = t
    BY <2>1, HearsNone
  <2>3. Rested(d)
    BY <1>1 DEF Driven, X
  <2>4. OneAtATime(d, t)
    BY <1>1 DEF Driven, R, F, X, I
  <2>5. Requesting(d, t)
    BY <1>1 DEF Driven, Requesting, R, F, X, I
  <2>6. HastyRestart \/ Copied(d, t)
    BY <1>1 DEF Driven, Copied, R, F, X, I
  <2> QED
    BY <2>1, <2>2, <2>3, <2>4, <2>5, <2>6
<1>2. CASE X(c) \in {"FC_IND", "CF_CON_CONTINUE"} /\ Sent(c, d)
  <2>1. d \in CtxT /\ Rested(d)
    BY <1>2 DEF Sent, X
  <2>2. OneAtATime(d, t)
    BY <1>2 DEF Sent, R, F, X, I
  <2>3. Requesting(d, t)
    BY <1>2 DEF Sent, Requesting, R, F, X, I
  <2>6. HastyRestart \/ Copied(d, t)
    BY <1>2 DEF Sent, Copied, R, F, X, I
  <2>4. CASE u = t
    BY <2>1, <2>2, <2>3, <2>4, <2>6
  <2>5. CASE u # t
    <3>1. d.out \in [ty : {"CF"}, sn : Nat, chunk : Chunk]
      <4>1. d.out # NoFrame
        BY <2>5, HearsNone DEF NoFrame
      <4>2. d.out = [ty |-> "CF", sn |-> d.tx.sn, chunk |-> <<c.dcm.res, I(c)>>]
        BY <1>2, <4>1 DEF Sent
      <4>3. d.tx.sn \in Nat /\ c.dcm.res \in Nat /\ I(c) \in Nat
        BY <2>1, Parts DEF TxT, DcmT, Half, I
      <4> QED
        BY <4>2, <4>3 DEF Chunk
    <3>2. u \in TesterT /\ u.st \in {"idle", "recv"} /\ t.st = "recv"
      <4>1. t.msg \in Half
        BY DEF TesterT
      <4> QED
        BY <2>5, <3>1, <4>1, HearsCf, QuietIs
    <3>3. R(c) \notin Rcv /\ ~c.dcm.flg["phys"] /\ c.dcm.idx = 0 /\ c.dcm.serving # "phys"
      BY <1>2
    <3>4. R(d) = R(c) /\ d.dcm.flg = c.dcm.flg /\ d.dcm.idx = 0 /\ d.dcm.serving # "phys"
          /\ X(d) # "RECEIVER_FC_REQ"
      BY <1>2, <3>3 DEF Sent, R, X
    <3>5. OneAtATime(d, u)
      BY <2>2, <3>2, <3>3, <3>4
    <3>6. Requesting(d, u)
      BY <3>2, <3>3, <3>4 DEF Requesting
    <3>7. Copied(d, u)
      BY <3>2, <3>3, <3>4 DEF Copied
    <3> QED
      BY <2>1, <3>2, <3>5, <3>6, <3>7
  <2> QED
    BY <2>4, <2>5
<1>3. CASE X(c) = "RECEIVER_FC_REQ" /\ Granted(c, d)
  <2>1. /\ d \in CtxT /\ d.out \in [ty : {"FC"}, bs : Nat] /\ d.rx = c.rx /\ d.mf = c.mf
        /\ d.dcm = c.dcm
    <3>1. c.tx.bs \in Nat
      BY Parts DEF TxT
    <3> QED
      BY <1>3, <3>1 DEF Granted
  <2>2. X(d) = "CF_WAIT"
    BY <1>3, Parts DEF Granted, TxT, X
  <2>3. R(c) = "FC_REQ" /\ R(d) = R(c) /\ F(d) = F(c)
    BY <1>3, <2>1 DEF R, F
  <2>4. t.st \in {"idle", "waitFC"}
    BY <1>3 DEF Requesting
  <2>5. u \in TesterT /\ (u = t \/ (u.st = "send" /\ t.st = "waitFC" /\ u.k = t.k /\ u.len = t.len
                                  /\ u.msg = t.msg))
    BY <2>1, HearsFc
  <2>6. OneAtATime(d, u)
    BY <1>3, <2>1, <2>2, <2>3, <2>4, <2>5
  <2>8. c.dcm.idx \in Nat /\ c.mf.len \in Nat /\ c.mf.cnt \in Nat
    BY Parts DEF DcmT, MfT
  <2>7. Requesting(d, u)
    BY <1>3, <2>1, <2>2, <2>3, <2>4, <2>5, <2>8 DEF Requesting
  <2>9. HastyRestart \/ Copied(d, u)
    BY <1>3, <2>1, <2>2, <2>3, <2>4, <2>5, <2>8 DEF Requesting, Copied
  <2> QED
    BY <2>1, <2>2, <2>5, <2>6, <2>7, <2>9
<1> QED
  BY <1>1, <1>2, <1>3

\* The tick keeps the first two.
LEMMA AskingTick ==
  ASSUME NEW c \in CtxT, c.out = NoFrame, NEW t \in TesterT, Asking(c, t), Rested(c),
         NEW d, d = TxProcess(RxProcess(RxProcess(Timers(c), "phys"), "func")),
         NEW u \in {t, Hears(t, d.out)}
  PROVE  Asking(d, u) /\ Rested(d) /\ d \in CtxT /\ u \in TesterT
<1> DEFINE a == Timers(c)
           b == RxProcess(a, "phys")
           e == RxProcess(b, "func")
<1>1. Asking(a, t) /\ Rested(a) /\ a \in CtxT /\ a.out = NoFrame
  <2>1. Confirmed(c, a)
    BY TimersIs
  <2> HIDE DEF a
  <2>2. a.out = c.out
    BY <2>1 DEF Confirmed, Turn, Kept
  <2> QED
    BY <2>1, <2>2, AskingConfirmed
<1>d. d = TxProcess(e)
  OBVIOUS
<1> HIDE DEF a
<1>2. Asking(b, t) /\ b \in CtxT /\ b.out = NoFrame
  <2>1. Heeded(a, b)
    BY <1>1, RxProcessPhys
  <2> HIDE DEF b
  <2>2. b.out = a.out
    BY <2>1 DEF Heeded, Dropped, Turn, Kept
  <2> QED
    BY <1>1, <2>1, <2>2, AskingHeeded
<1> HIDE DEF b
<1>3. Asking(e, t) /\ e \in CtxT /\ e.out = NoFrame
  BY <1>2, AskingFunc
<1> HIDE DEF e
<1>4. Driven(e, d)
  BY <1>3, <1>d, TxProcessIs
<1> QED
  BY <1>3, <1>4, AskingDriven

\* The chunks of a message, one by one.
LEMMA MessageIs ==
  ASSUME NEW s \in Chunks, NEW m
  PROVE  MessageOf(m, s) <=> \A k \in 1 .. Len(s) : s[k] = <<m, k - 1>>
<1>1. s \in [1 .. Len(s) -> Chunk] /\ Len(s) \in Nat
  BY LenProperties DEF Chunks
<1>2. s = [k \in 1 .. Len(s) |-> s[k]]
  BY <1>1
<1> QED
  BY <1>1, <1>2 DEF MessageOf

\* No chunks are the start of every message.
LEMMA MessageEmpty ==
  ASSUME NEW m
  PROVE  <<>> \in Chunks /\ Len(<<>>) = 0 /\ MessageOf(m, <<>>)
<1>1. <<>> \in Chunks /\ Len(<<>>) = 0
  BY DEF Chunks
<1> QED
  BY <1>1, MessageIs

\* The first chunk is the start of its message.
LEMMA MessageStarts ==
  ASSUME NEW m \in Nat, NEW x, x = <<m, 0>>
  PROVE  <<x>> \in Chunks /\ Len(<<x>>) = 1 /\ MessageOf(m, <<x>>)
<1>0. x \in Chunk
  BY DEF Chunk
<1>1. <<x>> \in Seq(Chunk) /\ Len(<<x>>) = 1 /\ <<x>>[1] = x
  BY <1>0
<1>2. <<x>> \in Chunks
  BY <1>1 DEF Chunks
<1>3. \A k \in 1 .. Len(<<x>>) : <<x>>[k] = <<m, k - 1>>
  BY <1>1
<1> QED
  BY <1>1, <1>2, <1>3, MessageIs

\* The next chunk prolongs it.
LEMMA MessageGrows ==
  ASSUME NEW s \in Chunks, NEW m \in Nat, NEW x \in Chunk
  PROVE  /\ Append(s, x) \in Chunks /\ Len(Append(s, x)) = Len(s) + 1
         /\ MessageOf(m, s) /\ x = <<m, Len(s)>> => MessageOf(m, Append(s, x))
<1> DEFINE t == Append(s, x)
<1>0. Len(s) \in Nat
  BY LenProperties DEF Chunks
<1>1. t \in Seq(Chunk) /\ Len(t) = Len(s) + 1 /\ t[Len(s) + 1] = x
      /\ \A k \in 1 .. Len(s) : t[k] = s[k]
  BY AppendProperties DEF Chunks
<1> HIDE DEF t
<1>2. t \in Chunks
  BY <1>1 DEF Chunks
<1>3. ASSUME MessageOf(m, s), x = <<m, Len(s)>>
      PROVE  MessageOf(m, t)
  <2>1. \A k \in 1 .. Len(s) : s[k] = <<m, k - 1>>
    BY <1>3, MessageIs
  <2>2. \A k \in 1 .. Len(t) : t[k] = <<m, k - 1>>
    BY <1>0, <1>1, <1>3, <2>1
  <2> QED
    BY <1>2, <2>2, MessageIs
<1> QED
  BY <1>1, <1>2, <1>3 DEF t

\* The buffer written from the start, and written at its end.
LEMMA CopyRxIs ==
  ASSUME NEW c \in CtxT, NEW x \in Chunk, c.dcm.idx = 0 \/ c.dcm.idx = Len(c.dcm.buf)
  PROVE  LET d == CopyRx(c, x)
         IN /\ d \in CtxT /\ d.rx = c.rx /\ d.mf = c.mf /\ d.tx = c.tx /\ d.out = c.out
            /\ I(d) = I(c) /\ d.dcm.flg = c.dcm.flg /\ d.dcm.reqLen = c.dcm.reqLen
            /\ d.dcm.res = c.dcm.res /\ d.dcm.serving = c.dcm.serving
            /\ d.dcm.idx = c.dcm.idx + 1
            /\ c.dcm.idx = 0 => d.dcm.buf = <<x>>
            /\ c.dcm.idx = Len(c.dcm.buf) => d.dcm.buf = Append(c.dcm.buf, x)
<1> DEFINE s == c.dcm.buf
           n == c.dcm.idx
           p == SubSeq(s, 1, n) \o <<x>>
           v == [c.dcm EXCEPT !.buf = p, !.idx = @ + 1]
           d == [c EXCEPT !.dcm = v]
<1>1. c.dcm \in DcmT /\ s \in Seq(Chunk) /\ n \in Nat /\ Len(s) \in Nat
  BY Parts, LenProperties DEF DcmT, Chunks
<1>2. CopyRx(c, x) = d
  BY DEF CopyRx, CtxT
<1>3. /\ p \in Chunks
      /\ n = 0 => p = <<x>>
      /\ n = Len(s) => p = Append(s, x)
  <2>1. n = 0 => SubSeq(s, 1, n) = <<>>
    BY <1>1, SubSeqEmpty
  <2>2. n = Len(s) => SubSeq(s, 1, n) = s
    BY <1>1, SubSeqFull
  <2>3. <<>> \o <<x>> = <<x>> /\ <<x>> \in Seq(Chunk)
    BY ConcatEmptySeq
  <2>4. s \o <<x>> = Append(s, x) /\ Append(s, x) \in Seq(Chunk)
    BY <1>1, AppendIsConcat, AppendProperties
  <2> QED
    BY <2>1, <2>2, <2>3, <2>4 DEF Chunks
<1> HIDE DEF p
<1>4. /\ v \in DcmT /\ v.buf = p /\ v.idx = n + 1 /\ v.txIdx = c.dcm.txIdx /\ v.flg = c.dcm.flg
      /\ v.reqLen = c.dcm.reqLen /\ v.res = c.dcm.res /\ v.serving = c.dcm.serving
  <2>1. c.dcm \in DcmT /\ p \in Chunks /\ n + 1 \in Nat
    BY <1>1, <1>3
  <2> QED
    BY <2>1 DEF DcmT
<1> HIDE DEF v
<1>5. d \in CtxT /\ d.dcm = v /\ d.rx = c.rx /\ d.mf = c.mf /\ d.tx = c.tx /\ d.out = c.out
  BY <1>4, SetDcm
<1> HIDE DEF d
<1> QED
  BY <1>2, <1>3, <1>4, <1>5 DEF I

\* What a reception leaves of the sender: all of it, or it is back at rest.
TxKept(c, d) ==
  /\ d \in CtxT /\ d.out = c.out
  /\ d.tx.cnt = c.tx.cnt /\ d.tx.num = c.tx.num /\ d.tx.sn = c.tx.sn /\ d.tx.over = c.tx.over
  /\ d.tx.bs = c.tx.bs /\ d.tx.bsCnt = c.tx.bsCnt
  /\ d.dcm.res = c.dcm.res /\ d.dcm.serving = c.dcm.serving
  /\ \/ X(d) = X(c) /\ I(d) = I(c)
     \/ X(d) = "IDLE" /\ I(d) = 0 /\ ~Refused(c)
  /\ \/ R(d) = R(c) /\ (R(c) = "FC_IND" => d.mf.fs = c.mf.fs)
     \/ R(d) # "FC_IND" /\ ~Refused(c)

\* A step that does nothing.
LEMMA Same ==
  ASSUME NEW c \in CtxT
  PROVE  TxKept(c, c)
BY DEF TxKept

\* A message under way is given up with its index and the response's.
LEMMA SupersededIs ==
  ASSUME NEW c \in CtxT
  PROVE  LET d == Superseded(c, "phys")
         IN /\ Kept(c, d) /\ d.rx = c.rx /\ d.mf = c.mf
            /\ \/ R(c) \notin Receiving /\ d = c
               \/ ~d.dcm.flg["phys"] /\ d.dcm.idx = 0 /\ X(d) = "IDLE" /\ I(d) = 0
<1> DEFINE d == Superseded(c, "phys")
<1>1. CASE R(c) \notin Receiving
  <2>1. d = c
    BY <1>1 DEF Superseded, R
  <2> QED
    BY <1>1, <2>1 DEF Kept
<1>2. CASE R(c) \in Receiving
  <2> DEFINE a == RxIndication(c, "phys", FALSE)
             v == [a.tx EXCEPT !.sts = "IDLE", !.dly = Dly]
             w == [a.dcm EXCEPT !.txIdx = 0]
             b == [a EXCEPT !.tx = v]
             e == [b EXCEPT !.dcm = w]
  <2>1. /\ Kept(c, a) /\ a.mf = c.mf /\ a.rx = c.rx /\ a.tx = c.tx /\ I(a) = I(c)
        /\ ~a.dcm.flg["phys"] /\ a.dcm.idx = 0
    BY DropIs
  <2>d. d = TxConfirmation(TxDataInit(a))
    BY <1>2 DEF Superseded, R
  <2> HIDE DEF a, d
  <2>2. a \in CtxT /\ a.dcm \in DcmT /\ a.tx \in TxT
    BY <2>1, Parts DEF Kept
  <2>3. d = e
    BY <2>2, <2>d DEF TxConfirmation, TxDataInit, CtxT
  <2>4. /\ v \in TxT /\ v.cnt = a.tx.cnt /\ v.num = a.tx.num /\ v.sn = a.tx.sn /\ v.over = a.tx.over
        /\ v.bs = a.tx.bs /\ v.bsCnt = a.tx.bsCnt /\ v.sts = "IDLE"
    BY <2>2, TpAssumption DEF TxT, TxS
  <2>5. /\ w \in DcmT /\ w.flg = a.dcm.flg /\ w.reqLen = a.dcm.reqLen /\ w.buf = a.dcm.buf
        /\ w.idx = a.dcm.idx /\ w.txIdx = 0 /\ w.res = a.dcm.res /\ w.serving = a.dcm.serving
    BY <2>2 DEF DcmT
  <2> HIDE DEF v, w
  <2>6. b \in CtxT /\ b.tx = v /\ b.rx = a.rx /\ b.mf = a.mf /\ b.dcm = a.dcm /\ b.out = a.out
    BY <2>2, <2>4, SetTx
  <2> HIDE DEF b
  <2>7. e \in CtxT /\ e.dcm = w /\ e.rx = b.rx /\ e.mf = b.mf /\ e.tx = b.tx /\ e.out = b.out
    BY <2>5, <2>6, SetDcm
  <2> HIDE DEF e
  <2>8. /\ Kept(c, d) /\ d.rx = c.rx /\ d.mf = c.mf
        /\ ~d.dcm.flg["phys"] /\ d.dcm.idx = 0 /\ X(d) = "IDLE" /\ I(d) = 0
    BY <2>1, <2>3, <2>4, <2>5, <2>6, <2>7 DEF Kept, X, I
  <2> QED
    BY <2>8 DEF d
<1> QED
  BY <1>1, <1>2

\* A reception that is begun: nothing is held, the length is noted, and the
\* index is at the start or, after an error, still at the end of the buffer.
Opened(c, a, len) ==
  /\ a \in CtxT /\ a.rx = c.rx /\ a.mf = c.mf /\ a.out = c.out /\ TxKept(c, a)
  /\ ~a.dcm.flg["phys"] /\ a.dcm.reqLen = len
  /\ a.dcm.idx = 0 \/ a.dcm.idx = Len(a.dcm.buf)
  /\ R(c) \notin RxErr => a.dcm.idx = 0
  /\ X(a) \in {"IDLE", "CF_WAIT"}

\* The server gives a new request its buffer from the start.
LEMMA OpenedIs ==
  ASSUME NEW c \in CtxT, NEW len \in Nat, ~c.dcm.flg["phys"], ~Refused(c),
         c.dcm.idx # 0 => c.dcm.idx = Len(c.dcm.buf) /\ R(c) \in Rcv \cup RxErr
  PROVE  Opened(c, StartReception(Superseded(c, "phys"), "phys", len), len)
<1> DEFINE b == Superseded(c, "phys")
           v == [b.dcm EXCEPT !.reqLen = len]
           a == [b EXCEPT !.dcm = v]
<1>1. /\ Kept(c, b) /\ b.rx = c.rx /\ b.mf = c.mf
      /\ \/ R(c) \notin Receiving /\ b = c
         \/ ~b.dcm.flg["phys"] /\ b.dcm.idx = 0 /\ X(b) = "IDLE" /\ I(b) = 0
  BY SupersededIs
<1>2. StartReception(b, "phys", len) = a
  BY DEF StartReception
<1> HIDE DEF b
<1>3. b \in CtxT /\ b.dcm \in DcmT
  BY <1>1, Parts DEF Kept
<1>4. /\ v \in DcmT /\ v.flg = b.dcm.flg /\ v.reqLen = len /\ v.buf = b.dcm.buf
      /\ v.idx = b.dcm.idx /\ v.txIdx = b.dcm.txIdx /\ v.res = b.dcm.res /\ v.serving = b.dcm.serving
  BY <1>3 DEF DcmT
<1> HIDE DEF v
<1>5. a \in CtxT /\ a.dcm = v /\ a.rx = b.rx /\ a.mf = b.mf /\ a.tx = b.tx /\ a.out = b.out
  BY <1>3, <1>4, SetDcm
<1> HIDE DEF a
<1>6. TxKept(c, a)
  BY <1>1, <1>4, <1>5 DEF TxKept, Kept, X, I, R
<1>7. /\ ~a.dcm.flg["phys"] /\ a.dcm.reqLen = len
      /\ a.dcm.idx = 0 \/ a.dcm.idx = Len(a.dcm.buf)
      /\ R(c) \notin RxErr => a.dcm.idx = 0
  BY <1>1, <1>4, <1>5 DEF Rcv, Receiving
<1>8. X(a) \in {"IDLE", "CF_WAIT"}
  BY <1>1, <1>5 DEF X, Refused
<1>9. Opened(c, a, len)
  BY <1>1, <1>5, <1>6, <1>7, <1>8 DEF Opened, Kept
<1> QED
  BY <1>2, <1>9 DEF b

\* A single frame on the physical channel: it is refused, an error, or taken.
LEMMA RxSfIs ==
  ASSUME NEW c \in CtxT, NEW x \in Chunk, ~c.dcm.flg["phys"],
         c.dcm.idx # 0 => c.dcm.idx = Len(c.dcm.buf) /\ R(c) \in Rcv \cup RxErr
  PROVE  LET d == RxSf(c, "phys", x)
         IN \/ Refused(c) /\ d = c
            \/ /\ ~Refused(c) /\ TxKept(c, d) /\ F(d) = F(c) /\ X(d) \in {"IDLE", "CF_WAIT"}
               /\ \/ /\ R(c) \in RxErr /\ R(d) = "SF_ERR" /\ ~d.dcm.flg["phys"]
                     /\ d.dcm.idx = Len(d.dcm.buf)
                  \/ /\ R(d) = "SF_IND" /\ d.dcm.flg["phys"] /\ d.dcm.idx = 0 /\ d.dcm.reqLen = 1
                     /\ R(c) \notin RxErr => d.dcm.buf = <<x>>
<1> DEFINE d == RxSf(c, "phys", x)
<1>1. CASE Refused(c)
  BY <1>1 DEF RxSf
<1>2. CASE ~Refused(c)
  <2> DEFINE a == StartReception(Superseded(c, "phys"), "phys", 1)
             b == CopyRx(a, x)
             e == RxIndication(b, "phys", TRUE)
             f == Rx(e, "phys", "SF_IND")
  <2>1. Opened(c, a, 1)
    BY <1>2, OpenedIs
  <2>2. 0 < RxBuf /\ RxBuf \in Nat /\ "phys" \in Chan
    BY TpAssumption DEF Chan
  <2>20. "SF_ERR" \in RxS /\ "SF_IND" \in RxS
    BY DEF RxS
  <2>21. CASE a.dcm.flg["phys"] \/ a.dcm.idx >= RxBuf
    <3>1. d = Rx(a, "phys", "SF_ERR")
      BY <1>2, <2>21 DEF RxSf
    <3> HIDE DEF a, d
    <3>2. a \in CtxT
      BY <2>1 DEF Opened
    <3>3. /\ d \in CtxT /\ d.rx["phys"].sts = "SF_ERR" /\ \A i \in Chan : i # "phys" => d.rx[i] = a.rx[i]
          /\ d.mf = a.mf /\ d.tx = a.tx /\ d.dcm = a.dcm /\ d.out = a.out
      BY <2>2, <2>20, <3>1, <3>2, RxIs
    <3>4. R(d) = "SF_ERR" /\ F(d) = F(c) /\ X(d) = X(a) /\ I(d) = I(a)
      BY <2>1, <3>3 DEF Opened, R, F, X, I, Chan
    <3>5. TxKept(c, d)
      BY <1>2, <2>1, <3>3, <3>4 DEF TxKept, Opened
    <3>6. R(c) \in RxErr /\ d.dcm.idx = Len(d.dcm.buf) /\ ~d.dcm.flg["phys"]
      BY <2>1, <2>2, <2>21, <3>3 DEF Opened
    <3> QED
      BY <1>2, <2>1, <3>4, <3>5, <3>6 DEF Opened, d
  <2>22. CASE ~(a.dcm.flg["phys"] \/ a.dcm.idx >= RxBuf)
    <3>d. d = [f EXCEPT !.tx.hrh = "phys"]
      BY <1>2, <2>22 DEF RxSf
    <3> HIDE DEF a, d
    <3>4. a \in CtxT /\ (a.dcm.idx = 0 \/ a.dcm.idx = Len(a.dcm.buf))
      BY <2>1 DEF Opened
    <3>5. /\ b \in CtxT /\ b.rx = a.rx /\ b.mf = a.mf /\ b.tx = a.tx /\ b.out = a.out
          /\ I(b) = I(a) /\ b.dcm.reqLen = a.dcm.reqLen
          /\ b.dcm.res = a.dcm.res /\ b.dcm.serving = a.dcm.serving
          /\ a.dcm.idx = 0 => b.dcm.buf = <<x>>
      BY <3>4, CopyRxIs
    <3> HIDE DEF b
    <3>6. /\ Kept(b, e) /\ e.mf = b.mf /\ e.rx = b.rx /\ e.tx = b.tx /\ I(e) = I(b)
          /\ e.dcm.flg["phys"] /\ e.dcm.idx = 0
      BY <3>5, DropIs
    <3> HIDE DEF e
    <3>7. e \in CtxT
      BY <3>6 DEF Kept
    <3>8. /\ f \in CtxT /\ f.rx["phys"].sts = "SF_IND" /\ \A i \in Chan : i # "phys" => f.rx[i] = e.rx[i]
          /\ f.mf = e.mf /\ f.tx = e.tx /\ f.dcm = e.dcm /\ f.out = e.out
      BY <2>2, <2>20, <3>7, RxIs
    <3> HIDE DEF f
    <3> DEFINE v == [f.tx EXCEPT !.hrh = "phys"]
               g == [f EXCEPT !.tx = v]
    <3>9. /\ v \in TxT /\ v.cnt = f.tx.cnt /\ v.num = f.tx.num /\ v.sn = f.tx.sn /\ v.over = f.tx.over
          /\ v.bs = f.tx.bs /\ v.bsCnt = f.tx.bsCnt /\ v.sts = f.tx.sts
      BY <2>2, <3>8, Parts DEF TxT
    <3>10. d = g
      BY <3>d
    <3> HIDE DEF v
    <3>11. g \in CtxT /\ g.tx = v /\ g.rx = f.rx /\ g.mf = f.mf /\ g.dcm = f.dcm /\ g.out = f.out
      BY <3>8, <3>9, SetTx
    <3> HIDE DEF g
    <3>12. R(d) = "SF_IND" /\ F(d) = F(c) /\ d.tx.sts = a.tx.sts /\ I(d) = I(a)
      BY <2>1, <3>5, <3>6, <3>8, <3>9, <3>10, <3>11 DEF R, F, I, Opened, Chan
    <3>13. TxKept(c, d)
      BY <1>2, <2>1, <3>5, <3>6, <3>8, <3>9, <3>10, <3>11, <3>12 DEF TxKept, Opened, Kept, X
    <3>14. /\ X(d) \in {"IDLE", "CF_WAIT"}
           /\ d.dcm.flg["phys"] /\ d.dcm.idx = 0 /\ d.dcm.reqLen = 1
           /\ R(c) \notin RxErr => d.dcm.buf = <<x>>
      BY <2>1, <3>5, <3>6, <3>8, <3>10, <3>11, <3>12 DEF Opened, Kept, X
    <3> QED
      BY <1>2, <3>12, <3>13, <3>14 DEF d
  <2> QED
    BY <2>21, <2>22
<1> QED
  BY <1>1, <1>2

\* A single frame on the functional channel: it is held, or an error.
LEMMA RxSfFunc ==
  ASSUME NEW c \in CtxT, NEW y, F(c) \in {"IDLE", "SF_IND", "SF_ERR", "FC_IND_WAIT"}
  PROVE  LET d == RxSf(c, "func", y)
         IN \E f \in {F(c), "SF_IND", "SF_ERR"} : Turn(c, d, R(c), f, X(c), I(c))
<1> DEFINE d == RxSf(c, "func", y)
           a == StartReception(Superseded(c, "func"), "func", 1)
           e == RxIndication(a, "func", TRUE)
           g == Rx(e, "func", "SF_IND")
<1>0. "func" \in Chan /\ "func" # "phys"
  BY DEF Chan
<1>1. Turn(c, a, R(c), F(c), X(c), I(c))
  <2>1. Superseded(c, "func") = c
    BY DEF Superseded, F, Receiving
  <2> DEFINE v == [c.dcm EXCEPT !.reqLen = @]
  <2>2. v = c.dcm
    BY Parts DEF DcmT
  <2>3. StartReception(c, "func", 1) = [c EXCEPT !.dcm = v]
    BY DEF StartReception
  <2> HIDE DEF v
  <2>4. a = c
    BY <2>1, <2>2, <2>3 DEF CtxT
  <2> QED
    BY <2>4, StayTurn
<1>2. d = c \/ d = Rx(a, "func", "SF_ERR") \/ d = [g EXCEPT !.tx.hrh = "func"]
  BY <1>0 DEF RxSf
<1> HIDE DEF a, d
<1>3. a \in CtxT
  BY <1>1 DEF Turn, Kept
<1>4. CASE d = c
  BY <1>4, StayTurn DEF d
<1>5. CASE d = Rx(a, "func", "SF_ERR")
  <2>1. Turn(a, d, R(a), "SF_ERR", X(a), I(a))
    BY <1>3, <1>5, RxSets DEF RxS
  <2>2. Turn(c, d, R(c), "SF_ERR", X(c), I(c))
    BY <1>1, <2>1 DEF Turn, Kept, R, F, X, I
  <2> QED
    BY <2>2 DEF d
<1>6. CASE d = [g EXCEPT !.tx.hrh = "func"]
  <2>1. Turn(a, e, R(a), F(a), X(a), I(a))
    BY <1>3, DropIs
  <2> HIDE DEF e
  <2>2. e \in CtxT
    BY <2>1 DEF Turn, Kept
  <2>3. Turn(e, g, R(e), "SF_IND", X(e), I(e))
    BY <2>2, RxSets DEF RxS
  <2> HIDE DEF g
  <2>4. g \in CtxT
    BY <2>3 DEF Turn, Kept
  <2> DEFINE v == [g.tx EXCEPT !.hrh = "func"]
  <2>5. /\ v \in TxT /\ v.cnt = g.tx.cnt /\ v.num = g.tx.num /\ v.sn = g.tx.sn /\ v.over = g.tx.over
        /\ v.bs = g.tx.bs /\ v.bsCnt = g.tx.bsCnt /\ v.sts = X(g)
    BY <1>0, <2>4, Parts DEF TxT, X
  <2> HIDE DEF v
  <2>6. Turn(g, [g EXCEPT !.tx = v], R(g), F(g), X(g), I(g))
    BY <2>4, <2>5, TxTurn
  <2>7. Turn(g, d, R(g), F(g), X(g), I(g))
    BY <1>6, <2>6 DEF v
  <2>8. Turn(c, d, R(c), "SF_IND", X(c), I(c))
    BY <1>1, <2>1, <2>3, <2>7 DEF Turn, Kept, R, F, X, I
  <2> QED
    BY <2>8 DEF d
<1> QED
  BY <1>2, <1>4, <1>5, <1>6

\* A first frame: it is refused, an error, or its reception is begun.
LEMMA RxFfIs ==
  ASSUME NEW c \in CtxT, NEW x \in Chunk, NEW len \in Nat,
         ~c.dcm.flg["phys"],
         c.dcm.idx # 0 => c.dcm.idx = Len(c.dcm.buf) /\ R(c) \in Rcv \cup RxErr
  PROVE  LET d == RxFf(c, len, x)
         IN \/ Refused(c) /\ d = c
            \/ /\ ~Refused(c) /\ TxKept(c, d) /\ F(d) = F(c) /\ R(d) = "FF_ERR"
               /\ X(d) \in {"IDLE", "CF_WAIT"} /\ ~d.dcm.flg["phys"]
               /\ d.dcm.idx = 0 \/ d.dcm.idx = Len(d.dcm.buf)
            \/ /\ ~Refused(c) /\ TxKept(c, d) /\ F(d) = F(c) /\ R(d) = "FF_IND"
               /\ X(d) \in {"IDLE", "CF_WAIT"}
               /\ ~d.dcm.flg["phys"] /\ d.dcm.idx # 0 /\ d.dcm.idx = Len(d.dcm.buf)
               /\ d.dcm.reqLen = len /\ d.mf.len = len /\ d.mf.cnt = 0
               /\ R(c) \notin RxErr => d.dcm.idx = 1 /\ d.dcm.buf = <<x>>
<1> DEFINE d == RxFf(c, len, x)
<1>1. CASE Refused(c)
  BY <1>1 DEF RxFf
<1>2. CASE ~Refused(c)
  <2> DEFINE a == StartReception(Superseded(c, "phys"), "phys", len)
             b == CopyRx(a, x)
             e == Rx(b, "phys", "FF_IND")
  <2>1. Opened(c, a, len)
    BY <1>2, OpenedIs
  <2>2. NBr \in Nat /\ SnMod \in Nat \ {0} /\ "phys" \in Chan
    BY TpAssumption DEF Chan
  <2>20. "FF_ERR" \in RxS /\ "FF_IND" \in RxS
    BY DEF RxS
  <2>3. CASE a.dcm.flg["phys"] \/ len > RxBuf \/ a.dcm.idx >= RxBuf
    <3>1. d = Rx(a, "phys", "FF_ERR")
      BY <1>2, <2>3 DEF RxFf
    <3> HIDE DEF a, d
    <3>2. a \in CtxT
      BY <2>1 DEF Opened
    <3>3. /\ d \in CtxT /\ d.rx["phys"].sts = "FF_ERR" /\ \A i \in Chan : i # "phys" => d.rx[i] = a.rx[i]
          /\ d.mf = a.mf /\ d.tx = a.tx /\ d.dcm = a.dcm /\ d.out = a.out
      BY <2>2, <2>20, <3>1, <3>2, RxIs
    <3>4. R(d) = "FF_ERR" /\ F(d) = F(c) /\ X(d) = X(a) /\ I(d) = I(a)
      BY <2>1, <3>3 DEF Opened, R, F, X, I, Chan
    <3>5. TxKept(c, d)
      BY <1>2, <2>1, <3>3, <3>4 DEF TxKept, Opened
    <3> QED
      BY <1>2, <2>1, <3>3, <3>4, <3>5 DEF Opened, d
  <2>4. CASE ~(a.dcm.flg["phys"] \/ len > RxBuf \/ a.dcm.idx >= RxBuf)
    <3>1. d = [e EXCEPT !.mf = [@ EXCEPT !.len = len, !.sn = 1 % SnMod, !.cnt = 0, !.nbr = NBr],
                        !.tx.conf = FALSE]
      BY <1>2, <2>4 DEF RxFf
    <3> HIDE DEF a, d
    <3>2. /\ a \in CtxT /\ (a.dcm.idx = 0 \/ a.dcm.idx = Len(a.dcm.buf))
          /\ a.dcm.idx \in Nat /\ a.dcm.buf \in Chunks
      BY <2>1, Parts DEF Opened, DcmT
    <3>3. /\ b \in CtxT /\ b.rx = a.rx /\ b.mf = a.mf /\ b.tx = a.tx /\ b.out = a.out
          /\ I(b) = I(a) /\ b.dcm.flg = a.dcm.flg /\ b.dcm.reqLen = a.dcm.reqLen
          /\ b.dcm.res = a.dcm.res /\ b.dcm.serving = a.dcm.serving
          /\ b.dcm.idx = a.dcm.idx + 1
          /\ a.dcm.idx = 0 => b.dcm.buf = <<x>>
          /\ a.dcm.idx = Len(a.dcm.buf) => b.dcm.buf = Append(a.dcm.buf, x)
      BY <3>2, CopyRxIs
    <3>20. b.dcm.idx = Len(b.dcm.buf) /\ b.dcm.idx # 0
      <4>1. Len(<<x>>) = 1 /\ Len(Append(a.dcm.buf, x)) = Len(a.dcm.buf) + 1
        BY <3>2, AppendProperties DEF Chunks
      <4>2. CASE a.dcm.idx = 0
        <5> DEFINE y == <<x>>
        <5>1. b.dcm.buf = y /\ Len(y) = 1 /\ b.dcm.idx = 1
          BY <3>3, <4>1, <4>2
        <5> HIDE DEF y
        <5> QED
          BY <5>1
      <4>3. CASE a.dcm.idx = Len(a.dcm.buf)
        BY <3>2, <3>3, <4>1, <4>3
      <4> QED
        BY <3>2, <4>2, <4>3
    <3> HIDE DEF b
    <3>4. /\ e \in CtxT /\ e.rx["phys"].sts = "FF_IND" /\ \A i \in Chan : i # "phys" => e.rx[i] = b.rx[i]
          /\ e.mf = b.mf /\ e.tx = b.tx /\ e.dcm = b.dcm /\ e.out = b.out
      BY <2>2, <2>20, <3>3, RxIs
    <3> HIDE DEF e
    <3> DEFINE v == [e.mf EXCEPT !.len = len, !.sn = 1 % SnMod, !.cnt = 0, !.nbr = NBr]
               w == [e.tx EXCEPT !.conf = FALSE]
               p == [e EXCEPT !.mf = v]
               q == [p EXCEPT !.tx = w]
    <3>5. /\ v \in MfT /\ v.len = len /\ v.sn = 1 % SnMod /\ v.cnt = 0
      <4>1. 1 % SnMod \in Nat
        BY ModIn
      <4> QED
        BY <2>2, <3>4, <4>1, Parts DEF MfT
    <3>6. /\ w \in TxT /\ w.cnt = e.tx.cnt /\ w.num = e.tx.num /\ w.sn = e.tx.sn /\ w.over = e.tx.over
          /\ w.bs = e.tx.bs /\ w.bsCnt = e.tx.bsCnt /\ w.sts = e.tx.sts
      BY <3>4, Parts DEF TxT, Truth
    <3>7. d = q
      BY <3>1, <3>4 DEF CtxT
    <3> HIDE DEF v, w
    <3>8. p \in CtxT /\ p.mf = v /\ p.rx = e.rx /\ p.tx = e.tx /\ p.dcm = e.dcm /\ p.out = e.out
      BY <3>4, <3>5, SetMf
    <3> HIDE DEF p
    <3>9. q \in CtxT /\ q.tx = w /\ q.rx = p.rx /\ q.mf = p.mf /\ q.dcm = p.dcm /\ q.out = p.out
      BY <3>6, <3>8, SetTx
    <3> HIDE DEF q
    <3>10. R(d) = "FF_IND" /\ F(d) = F(c) /\ X(d) = X(a) /\ I(d) = I(a)
      BY <2>1, <3>3, <3>4, <3>6, <3>7, <3>8, <3>9 DEF Opened, R, F, X, I, Chan
    <3>11. TxKept(c, d)
      BY <1>2, <2>1, <3>3, <3>4, <3>6, <3>7, <3>8, <3>9, <3>10 DEF TxKept, Opened
    <3>12. /\ X(d) \in {"IDLE", "CF_WAIT"} /\ ~d.dcm.flg["phys"]
           /\ d.dcm.idx # 0 /\ d.dcm.idx = Len(d.dcm.buf)
           /\ d.dcm.reqLen = len /\ d.mf.len = len /\ d.mf.cnt = 0
           /\ R(c) \notin RxErr => d.dcm.idx = 1 /\ d.dcm.buf = <<x>>
      BY <2>1, <3>3, <3>20, <3>4, <3>5, <3>7, <3>8, <3>9, <3>10 DEF Opened
    <3> QED
      BY <1>2, <3>10, <3>11, <3>12 DEF d
  <2> QED
    BY <2>3, <2>4
<1> QED
  BY <1>1, <1>2

\* What a frame of the message being received leaves: all but the state and, of
\* the message, its count and number.
CfKept(c, d) ==
  /\ d \in CtxT /\ TxKept(c, d) /\ d.tx = c.tx /\ F(d) = F(c) /\ I(d) = I(c)
  /\ d.mf.len = c.mf.len /\ d.dcm.reqLen = c.dcm.reqLen

\* A consecutive frame: it is ignored, an error, or the next of the message.
LEMMA RxCfIs ==
  ASSUME NEW c \in CtxT, NEW x \in Chunk, NEW sn,
         R(c) \in Rcv => c.dcm.idx = Len(c.dcm.buf)
  PROVE  LET d == RxCf(c, sn, x)
         IN \/ d = c
            \/ /\ ~Refused(c) /\ CfKept(c, d) /\ R(d) = "CF_ERR"
               /\ R(c) \in {"IDLE", "FC_CON", "CF_IND", "FC_REQ"}
               /\ d.dcm.flg = c.dcm.flg /\ d.dcm.idx = c.dcm.idx /\ d.dcm.buf = c.dcm.buf
            \/ /\ ~Refused(c) /\ CfKept(c, d)
               /\ R(c) \in {"FC_CON", "CF_IND", "FC_REQ"} /\ sn = c.mf.sn
               /\ d.mf.cnt = c.mf.cnt + 1 /\ d.mf.sn = (c.mf.sn + 1) % SnMod
               /\ d.dcm.buf = Append(c.dcm.buf, x)
               /\ \/ LastCf(c) /\ R(d) = "CF_IND_OVER" /\ d.dcm.flg["phys"] /\ d.dcm.idx = 0
                  \/ /\ ~LastCf(c) /\ R(d) = "CF_IND" /\ d.dcm.flg = c.dcm.flg
                     /\ d.dcm.idx = c.dcm.idx + 1
<1> DEFINE d == RxCf(c, sn, x)
           p == CopyRx(c, x)
           b == Rx(c, "phys", "CF_ERR")
           q == IF c.dcm.idx >= RxBuf THEN b
                ELSE IF LastCf(c) THEN Rx(RxIndication(p, "phys", TRUE), "phys", "CF_IND_OVER")
                ELSE [Rx(p, "phys", "CF_IND") EXCEPT !.mf.ncr = NCr]
           g == [q EXCEPT !.mf.cnt = @ + 1, !.mf.sn = (@ + 1) % SnMod]
<1>0. "phys" \in Chan /\ NCr \in Nat
  BY TpAssumption DEF Chan
<1>00. "CF_IND" \in RxS /\ "CF_IND_OVER" \in RxS
  BY DEF RxS
<1>1. \/ Refused(c)
      \/ b \in CtxT /\ CfKept(c, b) /\ R(b) = "CF_ERR" /\ b.dcm = c.dcm /\ b.mf = c.mf
  <2>1. /\ b \in CtxT /\ b.rx["phys"].sts = "CF_ERR" /\ \A i \in Chan : i # "phys" => b.rx[i] = c.rx[i]
        /\ b.mf = c.mf /\ b.tx = c.tx /\ b.dcm = c.dcm /\ b.out = c.out
    BY <1>0, RxIs DEF RxS
  <2> HIDE DEF b
  <2> QED
    BY <2>1 DEF CfKept, TxKept, R, F, X, I, Chan
<1>2. CASE Refused(c)
  BY <1>2 DEF RxCf
<1>3. CASE ~Refused(c) /\ R(c) \notin {"FC_CON", "CF_IND", "FC_REQ"}
  <2>1. d = IF R(c) = "IDLE" THEN b ELSE c
    BY <1>3 DEF RxCf, R
  <2> HIDE DEF b
  <2> QED
    BY <1>1, <1>3, <2>1
<1>4. CASE ~Refused(c) /\ R(c) \in {"FC_CON", "CF_IND", "FC_REQ"} /\ sn # c.mf.sn
  <2>1. d = b
    BY <1>4 DEF RxCf, R
  <2> HIDE DEF b
  <2> QED
    BY <1>1, <1>4, <2>1
<1>5. CASE ~Refused(c) /\ R(c) \in {"FC_CON", "CF_IND", "FC_REQ"} /\ sn = c.mf.sn
  <2>1. d = g
    BY <1>5 DEF RxCf, R
  <2>2. ASSUME q \in CtxT
        PROVE  /\ g \in CtxT /\ g.rx = q.rx /\ g.tx = q.tx /\ g.dcm = q.dcm /\ g.out = q.out
               /\ g.mf.cnt = q.mf.cnt + 1 /\ g.mf.sn = (q.mf.sn + 1) % SnMod
               /\ g.mf.len = q.mf.len /\ g.mf.fs = q.mf.fs
    <3> HIDE DEF q
    <3> DEFINE k == (q.mf.sn + 1) % SnMod
               j == q.mf.cnt + 1
               v == [q.mf EXCEPT !.cnt = j, !.sn = k]
    <3>1. g = [q EXCEPT !.mf = v]
      BY <2>2 DEF CtxT
    <3>2. k \in Nat /\ j \in Nat /\ q.mf \in MfT
      <4>1. q.mf \in MfT /\ q.mf.sn + 1 \in Nat /\ j \in Nat
        BY <2>2, Parts DEF MfT
      <4> QED
        BY <4>1, ModIn
    <3>20. k = (q.mf.sn + 1) % SnMod /\ j = q.mf.cnt + 1
      OBVIOUS
    <3> HIDE DEF k, j
    <3>3. v \in MfT /\ v.cnt = j /\ v.sn = k /\ v.len = q.mf.len /\ v.fs = q.mf.fs
      BY <3>2 DEF MfT
    <3> HIDE DEF v
    <3>4. LET u == [q EXCEPT !.mf = v]
          IN u \in CtxT /\ u.mf = v /\ u.rx = q.rx /\ u.tx = q.tx /\ u.dcm = q.dcm /\ u.out = q.out
      BY <2>2, <3>3, SetMf
    <3> HIDE DEF g
    <3> QED
      BY <3>1, <3>20, <3>3, <3>4
  <2>3. CASE c.dcm.idx >= RxBuf
    <3>1. q = b
      BY <2>3
    <3> HIDE DEF q, b, g
    <3>2. q \in CtxT /\ CfKept(c, q) /\ R(q) = "CF_ERR" /\ q.dcm = c.dcm
      BY <1>1, <1>5, <3>1
    <3>3. CfKept(c, g) /\ R(g) = "CF_ERR" /\ g.dcm = c.dcm
      BY <2>2, <3>2 DEF CfKept, TxKept, R, F, X, I
    <3> HIDE DEF d
    <3>4. CfKept(c, d) /\ R(d) = "CF_ERR" /\ d.dcm.flg = c.dcm.flg /\ d.dcm.idx = c.dcm.idx
          /\ d.dcm.buf = c.dcm.buf
      BY <2>1, <3>3
    <3> QED
      BY <1>5, <3>4 DEF d
  <2>4. CASE ~(c.dcm.idx >= RxBuf)
    <3>1. /\ p \in CtxT /\ p.rx = c.rx /\ p.mf = c.mf /\ p.tx = c.tx /\ p.out = c.out
          /\ I(p) = I(c) /\ p.dcm.flg = c.dcm.flg /\ p.dcm.reqLen = c.dcm.reqLen
          /\ p.dcm.res = c.dcm.res /\ p.dcm.serving = c.dcm.serving
          /\ p.dcm.idx = c.dcm.idx + 1 /\ p.dcm.buf = Append(c.dcm.buf, x)
      <4>1. c.dcm.idx = Len(c.dcm.buf)
        BY <1>5 DEF Rcv
      <4> QED
        BY <4>1, CopyRxIs
    <3>2. CASE LastCf(c)
      <4> DEFINE e == RxIndication(p, "phys", TRUE)
                 s == Rx(e, "phys", "CF_IND_OVER")
      <4>1. q = s
        BY <2>4, <3>2
      <4> HIDE DEF p, q, g
      <4>2. /\ Kept(p, e) /\ e.mf = p.mf /\ e.rx = p.rx /\ e.tx = p.tx /\ I(e) = I(p)
            /\ e.dcm.flg["phys"] /\ e.dcm.idx = 0
        BY <3>1, DropIs
      <4> HIDE DEF e
      <4>3. e \in CtxT
        BY <4>2 DEF Kept
      <4>4. /\ s \in CtxT /\ s.rx["phys"].sts = "CF_IND_OVER"
            /\ \A i \in Chan : i # "phys" => s.rx[i] = e.rx[i]
            /\ s.mf = e.mf /\ s.tx = e.tx /\ s.dcm = e.dcm /\ s.out = e.out
        BY <1>0, <1>00, <4>3, RxIs
      <4> HIDE DEF s, d
      <4>5. R(d) = "CF_IND_OVER" /\ F(d) = F(c) /\ d.tx = c.tx /\ I(d) = I(c)
        BY <2>1, <2>2, <3>1, <4>1, <4>2, <4>4 DEF R, F, I, Chan
      <4>6. CfKept(c, d)
        BY <1>5, <2>1, <2>2, <3>1, <4>1, <4>2, <4>4, <4>5 DEF CfKept, TxKept, Kept, X
      <4>7. /\ d.mf.cnt = c.mf.cnt + 1 /\ d.mf.sn = (c.mf.sn + 1) % SnMod
            /\ d.dcm.buf = Append(c.dcm.buf, x) /\ d.dcm.flg["phys"] /\ d.dcm.idx = 0
        BY <2>1, <2>2, <3>1, <4>1, <4>2, <4>4 DEF Kept
      <4> QED
        BY <1>5, <3>2, <4>5, <4>6, <4>7 DEF d
    <3>3. CASE ~LastCf(c)
      <4> DEFINE e == Rx(p, "phys", "CF_IND")
                 v == [e.mf EXCEPT !.ncr = NCr]
                 s == [e EXCEPT !.mf = v]
      <4>1. q = s
        BY <2>4, <3>3
      <4> HIDE DEF p, q, g
      <4>2. /\ e \in CtxT /\ e.rx["phys"].sts = "CF_IND"
            /\ \A i \in Chan : i # "phys" => e.rx[i] = p.rx[i]
            /\ e.mf = p.mf /\ e.tx = p.tx /\ e.dcm = p.dcm /\ e.out = p.out
        BY <1>0, <1>00, <3>1, RxIs
      <4> HIDE DEF e
      <4>3. v \in MfT /\ v.cnt = e.mf.cnt /\ v.sn = e.mf.sn /\ v.len = e.mf.len /\ v.fs = e.mf.fs
        BY <1>0, <4>2, Parts DEF MfT
      <4> HIDE DEF v
      <4>4. s \in CtxT /\ s.mf = v /\ s.rx = e.rx /\ s.tx = e.tx /\ s.dcm = e.dcm /\ s.out = e.out
        BY <4>2, <4>3, SetMf
      <4> HIDE DEF s, d
      <4>5. R(d) = "CF_IND" /\ F(d) = F(c) /\ d.tx = c.tx /\ I(d) = I(c)
        BY <2>1, <2>2, <3>1, <4>1, <4>2, <4>4 DEF R, F, I, Chan
      <4>6. CfKept(c, d)
        BY <1>5, <2>1, <2>2, <3>1, <4>1, <4>2, <4>3, <4>4, <4>5 DEF CfKept, TxKept, X
      <4>7. /\ d.mf.cnt = c.mf.cnt + 1 /\ d.mf.sn = (c.mf.sn + 1) % SnMod
            /\ d.dcm.buf = Append(c.dcm.buf, x) /\ d.dcm.flg = c.dcm.flg
            /\ d.dcm.idx = c.dcm.idx + 1
        BY <2>1, <2>2, <3>1, <4>1, <4>2, <4>3, <4>4
      <4> QED
        BY <1>5, <3>3, <4>5, <4>6, <4>7 DEF d
    <3> QED
      BY <3>2, <3>3
  <2> QED
    BY <2>3, <2>4
<1> QED
  BY <1>2, <1>3, <1>4, <1>5

\* A flow control frame: it is ignored, or it is noted for the next tick.
LEMMA RxFcIs ==
  ASSUME NEW c \in CtxT, NEW fc \in [fs : {"CTS", "WT", "OVFLW"}, bs : Nat, stmin : Nat]
  PROVE  LET d == RxFc(c, fc)
         IN \/ d = c
            \/ /\ c.tx.cnt = 0 \/ c.tx.bs # 0
               /\ R(c) = "FC_IND_WAIT" \/ X(c) \in {"FF_REQ", "FF_CON", "CF_CON_WAIT"}
               /\ d \in CtxT /\ d.dcm = c.dcm /\ d.out = c.out
               /\ R(d) = "FC_IND" /\ F(d) = F(c) /\ X(d) = X(c)
               /\ d.mf.fs = fc.fs
               /\ d.mf.cnt = c.mf.cnt /\ d.mf.len = c.mf.len /\ d.mf.sn = c.mf.sn
               /\ d.tx.cnt = c.tx.cnt /\ d.tx.num = c.tx.num /\ d.tx.sn = c.tx.sn
               /\ d.tx.over = c.tx.over /\ d.tx.bs = fc.bs /\ d.tx.bsCnt = fc.bs
<1> DEFINE d == RxFc(c, fc)
           e == Rx(c, "phys", "FC_IND")
           v == [e.mf EXCEPT !.fs = fc.fs]
           w == [e.tx EXCEPT !.bs = fc.bs, !.bsCnt = fc.bs, !.stmin = fc.stmin, !.stCnt = fc.stmin]
           p == [e EXCEPT !.mf = v]
           q == [p EXCEPT !.tx = w]
<1>0. "phys" \in Chan /\ fc.fs \in {"CTS", "WT", "OVFLW"} /\ fc.bs \in Nat /\ fc.stmin \in Nat
  BY DEF Chan
<1>1. /\ e \in CtxT /\ e.rx["phys"].sts = "FC_IND" /\ \A i \in Chan : i # "phys" => e.rx[i] = c.rx[i]
      /\ e.mf = c.mf /\ e.tx = c.tx /\ e.dcm = c.dcm /\ e.out = c.out
  BY <1>0, RxIs DEF RxS
<1>2. CASE \/ c.tx.cnt # 0 /\ c.tx.bs = 0
           \/ R(c) # "FC_IND_WAIT" /\ X(c) \notin {"FF_REQ", "FF_CON", "CF_CON_WAIT"}
  BY <1>2 DEF RxFc, R, X
<1>3. CASE ~(\/ c.tx.cnt # 0 /\ c.tx.bs = 0
             \/ R(c) # "FC_IND_WAIT" /\ X(c) \notin {"FF_REQ", "FF_CON", "CF_CON_WAIT"})
  <2>1. d = [e EXCEPT !.mf.fs = fc.fs, !.tx = [@ EXCEPT !.bs = fc.bs, !.bsCnt = fc.bs,
                                                        !.stmin = fc.stmin, !.stCnt = fc.stmin]]
    BY <1>3 DEF RxFc, R, X
  <2> HIDE DEF e
  <2>2. d = q
    BY <1>1, <2>1 DEF CtxT
  <2>3. v \in MfT /\ v.cnt = e.mf.cnt /\ v.sn = e.mf.sn /\ v.len = e.mf.len /\ v.fs = fc.fs
    BY <1>0, <1>1, Parts DEF MfT, Fs
  <2>4. /\ w \in TxT /\ w.cnt = e.tx.cnt /\ w.num = e.tx.num /\ w.sn = e.tx.sn /\ w.over = e.tx.over
        /\ w.bs = fc.bs /\ w.bsCnt = fc.bs /\ w.sts = e.tx.sts
    BY <1>0, <1>1, Parts DEF TxT
  <2> HIDE DEF v, w
  <2>5. p \in CtxT /\ p.mf = v /\ p.rx = e.rx /\ p.tx = e.tx /\ p.dcm = e.dcm /\ p.out = e.out
    BY <1>1, <2>3, SetMf
  <2> HIDE DEF p
  <2>6. q \in CtxT /\ q.tx = w /\ q.rx = p.rx /\ q.mf = p.mf /\ q.dcm = p.dcm /\ q.out = p.out
    BY <2>4, <2>5, SetTx
  <2> HIDE DEF q, d
  <2>7. R(d) = "FC_IND" /\ F(d) = F(c) /\ X(d) = X(c)
    BY <1>1, <2>2, <2>4, <2>5, <2>6 DEF R, F, X, Chan
  <2>8. /\ d \in CtxT /\ d.dcm = c.dcm /\ d.out = c.out /\ d.mf.fs = fc.fs
        /\ d.mf.cnt = c.mf.cnt /\ d.mf.len = c.mf.len /\ d.mf.sn = c.mf.sn
        /\ d.tx.cnt = c.tx.cnt /\ d.tx.num = c.tx.num /\ d.tx.sn = c.tx.sn
        /\ d.tx.over = c.tx.over /\ d.tx.bs = fc.bs /\ d.tx.bsCnt = fc.bs
    BY <1>1, <2>2, <2>3, <2>4, <2>5, <2>6
  <2> QED
    BY <1>3, <2>7, <2>8 DEF d
<1> QED
  BY <1>2, <1>3

\* The server's response: a single frame, or the first of several.
LEMMA TransmitIs ==
  ASSUME NEW c \in CtxT, NEW n \in Nat \ {0}
  PROVE  LET d == Transmit(c, n)
         IN /\ d \in CtxT /\ d.rx = c.rx /\ d.mf = c.mf
            /\ d.dcm.flg = c.dcm.flg /\ d.dcm.idx = c.dcm.idx /\ d.dcm.buf = c.dcm.buf
            /\ d.dcm.reqLen = c.dcm.reqLen /\ d.dcm.res = c.dcm.res /\ d.dcm.serving = c.dcm.serving
            /\ \/ n = 1 /\ X(d) = "IDLE" /\ I(d) = I(c) /\ d.tx.cnt = c.tx.cnt
                  /\ d.out = [ty |-> "SF"]
               \/ /\ n > 1 /\ X(d) = "FF_REQ" /\ (I(c) = 0 => I(d) = 1)
                  /\ d.tx.sn = 0 /\ d.tx.cnt = 0 /\ d.tx.num = n - 1
                  /\ d.out = [ty |-> "FF", num |-> n, chunk |-> <<c.dcm.res, I(c)>>]
<1> DEFINE d == Transmit(c, n)
<1>0. c.tx \in TxT /\ c.dcm \in DcmT /\ Dly \in Nat /\ c.dcm.res \in Nat /\ c.dcm.txIdx \in Nat
      /\ ~(0 >= TxBuf)
  BY Parts, TpAssumption DEF DcmT, Half, I
<1>1. CASE n = 1
  <2> DEFINE a == TxDataInit(c)
             v == [c.tx EXCEPT !.sts = "IDLE", !.dly = Dly, !.conf = FALSE]
             f == [ty |-> "SF"]
             p == [c EXCEPT !.tx = v]
             e == [p EXCEPT !.out = f]
  <2>1. d = e
    <3>1. d = [a EXCEPT !.tx.conf = FALSE, !.out = f]
      BY <1>1 DEF Transmit
    <3> QED
      BY <3>1 DEF TxDataInit, CtxT
  <2>2. v \in TxT /\ v.sts = "IDLE" /\ v.cnt = c.tx.cnt
    BY <1>0 DEF TxT, TxS, Truth
  <2>3. f \in Frame
    BY DEF Frame
  <2> HIDE DEF v
  <2>4. p \in CtxT /\ p.tx = v /\ p.rx = c.rx /\ p.mf = c.mf /\ p.dcm = c.dcm /\ p.out = c.out
    BY <2>2, SetTx
  <2> HIDE DEF p
  <2>5. e \in CtxT /\ e.out = f /\ e.rx = p.rx /\ e.mf = p.mf /\ e.tx = p.tx /\ e.dcm = p.dcm
    BY <2>3, <2>4, SetOut
  <2> HIDE DEF e, d
  <2> QED
    BY <1>0, <1>1, <2>1, <2>2, <2>4, <2>5 DEF X, I, d
<1>2. CASE n # 1
  <2> DEFINE v == [c.tx EXCEPT !.sts = "FF_REQ", !.conf = FALSE, !.sn = 0, !.cnt = 0, !.num = n - 1]
             i == IF c.dcm.txIdx >= TxBuf THEN c.dcm.txIdx ELSE c.dcm.txIdx + 1
             w == [c.dcm EXCEPT !.txIdx = i]
             f == [ty |-> "FF", num |-> n, chunk |-> <<c.dcm.res, c.dcm.txIdx>>]
             p == [c EXCEPT !.tx = v]
             q == [p EXCEPT !.dcm = w]
             e == [q EXCEPT !.out = f]
             b == Tx(c, "FF_REQ")
  <2>1. d = e
    <3>1. d = [b EXCEPT !.tx = [@ EXCEPT !.conf = FALSE, !.sn = 0, !.cnt = 0, !.num = n - 1],
                        !.dcm.txIdx = IF @ >= TxBuf THEN @ ELSE @ + 1, !.out = f]
      BY <1>0, <1>2 DEF Transmit
    <3>2. /\ b \in CtxT /\ b.tx = [c.tx EXCEPT !.sts = "FF_REQ"]
          /\ b.mf = c.mf /\ b.rx = c.rx /\ b.dcm = c.dcm /\ b.out = c.out
      BY TxIs DEF TxS
    <3>3. [b.tx EXCEPT !.conf = FALSE, !.sn = 0, !.cnt = 0, !.num = n - 1] = v
      BY <1>0, <3>2 DEF TxT
    <3> HIDE DEF b, f, v
    <3>5. d = [b EXCEPT !.tx = v, !.dcm = w, !.out = f]
      BY <3>1, <3>2, <3>3 DEF CtxT
    <3> QED
      BY <3>2, <3>5 DEF CtxT
  <2>2. v \in TxT /\ v.sts = "FF_REQ" /\ v.sn = 0 /\ v.cnt = 0 /\ v.num = n - 1
    <3>1. n - 1 \in Nat
      OBVIOUS
    <3> QED
      BY <1>0, <3>1 DEF TxT, TxS, Truth
  <2>30. i \in Nat /\ (c.dcm.txIdx = 0 => i = 1)
    BY <1>0
  <2> HIDE DEF i
  <2>3. /\ w \in DcmT /\ w.flg = c.dcm.flg /\ w.reqLen = c.dcm.reqLen /\ w.buf = c.dcm.buf
        /\ w.idx = c.dcm.idx /\ w.txIdx = i /\ w.res = c.dcm.res /\ w.serving = c.dcm.serving
    BY <1>0, <2>30 DEF DcmT
  <2>4. f \in Frame
    BY <1>0 DEF Frame, Chunk
  <2> HIDE DEF v, w, f
  <2>5. p \in CtxT /\ p.tx = v /\ p.rx = c.rx /\ p.mf = c.mf /\ p.dcm = c.dcm /\ p.out = c.out
    BY <2>2, SetTx
  <2> HIDE DEF p
  <2>6. q \in CtxT /\ q.dcm = w /\ q.rx = p.rx /\ q.mf = p.mf /\ q.tx = p.tx /\ q.out = p.out
    BY <2>3, <2>5, SetDcm
  <2> HIDE DEF q
  <2>7. e \in CtxT /\ e.out = f /\ e.rx = q.rx /\ e.mf = q.mf /\ e.tx = q.tx /\ e.dcm = q.dcm
    BY <2>4, <2>6, SetOut
  <2> HIDE DEF e, d
  <2>8. n > 1 /\ X(d) = "FF_REQ" /\ (I(c) = 0 => I(d) = 1)
    BY <1>2, <2>30, <2>1, <2>2, <2>3, <2>5, <2>6, <2>7 DEF X, I
  <2> QED
    BY <2>1, <2>2, <2>3, <2>5, <2>6, <2>7, <2>8 DEF d, f, I
<1> QED
  BY <1>1, <1>2

\* A request that begins: the tester has begun anew.
Begins(c, s) ==
  /\ c \in CtxT /\ Asking(c, s) /\ Rested(c)
  /\ ~c.dcm.flg["phys"] /\ c.dcm.serving # "phys" /\ R(c) # "FF_IND"
  /\ R(c) \in RxErr => HastyRestart

\* A request that is lost at once has been sent, no more.
LEMMA AskingLost ==
  ASSUME NEW c, NEW s, Begins(c, s), NEW t, t.st \in {"wait", "waitFC"}
  PROVE  Asking(c, t)
<1> USE DEF Begins, Asking
<1>1. OneAtATime(c, t)
  BY DEF OneAtATime
<1>2. Requesting(c, t)
  BY DEF Requesting, Rested
<1>3. HastyRestart \/ Copied(c, t)
  BY DEF Copied, Rested
<1> QED
  BY <1>1, <1>2, <1>3

\* A single frame is handed over whole, or refused.
LEMMA AskingSf ==
  ASSUME NEW c, NEW s, Begins(c, s), NEW t \in TesterT, t.st = "wait"
  PROVE  LET d == RxSf(c, "phys", <<t.msg, 0>>)
         IN Asking(d, t) /\ Rested(d) /\ TxKept(c, d)
<1> DEFINE x == <<t.msg, 0>>
           d == RxSf(c, "phys", x)
<1>0. c \in CtxT /\ t.msg \in Half /\ t.msg \in Nat /\ x \in Chunk
  BY DEF Begins, TesterT, Half, Chunk
<1>1. /\ ~c.dcm.flg["phys"]
      /\ c.dcm.idx # 0 => c.dcm.idx = Len(c.dcm.buf) /\ R(c) \in Rcv \cup RxErr
  BY DEF Begins, Asking, OneAtATime, Requesting
<1>2. \/ Refused(c) /\ d = c
      \/ /\ ~Refused(c) /\ TxKept(c, d) /\ F(d) = F(c) /\ X(d) \in {"IDLE", "CF_WAIT"}
         /\ \/ /\ R(c) \in RxErr /\ R(d) = "SF_ERR" /\ ~d.dcm.flg["phys"]
               /\ d.dcm.idx = Len(d.dcm.buf)
            \/ /\ R(d) = "SF_IND" /\ d.dcm.flg["phys"] /\ d.dcm.idx = 0 /\ d.dcm.reqLen = 1
               /\ R(c) \notin RxErr => d.dcm.buf = <<x>>
  BY <1>0, <1>1, RxSfIs
<1>3. Len(<<x>>) = 1 /\ Whole(<<x>>)
  BY <1>0, MessageStarts DEF Whole
<1> DEFINE y == <<x>>
<1>4. Len(y) = 1 /\ Whole(y) /\ (R(c) \notin RxErr /\ R(d) = "SF_IND" => d = c \/ d.dcm.buf = y)
  BY <1>2, <1>3
<1> HIDE DEF y, d, x
<1>5. CASE d = c
  <2>1. Asking(c, t)
    BY AskingLost
  <2> QED
    BY <1>0, <1>5, <2>1, Same DEF Begins, d, x
<1>6. CASE d # c
  <2>1. /\ TxKept(c, d) /\ F(d) = F(c) /\ X(d) \in {"IDLE", "CF_WAIT"}
        /\ \/ R(d) = "SF_ERR" /\ ~d.dcm.flg["phys"] /\ d.dcm.idx = Len(d.dcm.buf)
           \/ R(d) = "SF_IND" /\ d.dcm.idx = 0 /\ d.dcm.reqLen = 1
    BY <1>2, <1>6
  <2>2. d.dcm.serving # "phys" /\ F(c) \in {"IDLE", "SF_IND", "SF_ERR", "FC_IND_WAIT"}
    BY <2>1 DEF TxKept, Begins, Asking, OneAtATime
  <2>3. OneAtATime(d, t)
    BY <2>1, <2>2 DEF OneAtATime, Rcv, RxErr, TxRest, Ready
  <2>4. Requesting(d, t)
    BY <2>1 DEF Requesting, Rcv
  <2>5. HastyRestart \/ Copied(d, t)
    BY <1>2, <1>4, <1>6, <2>1 DEF Copied, Rcv, Begins
  <2>6. Asking(d, t) /\ Rested(d)
    BY <2>1, <2>3, <2>4, <2>5 DEF Asking, Rested
  <2> QED
    BY <2>1, <2>6 DEF d, x
<1> QED
  BY <1>5, <1>6

\* A first frame begins the buffer, or is refused.
LEMMA AskingFf ==
  ASSUME NEW c, NEW s, Begins(c, s), NEW t \in TesterT, t.st = "waitFC", t.k = 1, t.len > 1
  PROVE  LET d == RxFf(c, t.len, <<t.msg, 0>>)
         IN Asking(d, t) /\ Rested(d) /\ TxKept(c, d)
<1> DEFINE x == <<t.msg, 0>>
           d == RxFf(c, t.len, x)
<1>0. c \in CtxT /\ t.msg \in Half /\ t.msg \in Nat /\ x \in Chunk /\ t.len \in Nat
  BY DEF Begins, TesterT, Half, Chunk
<1>1. /\ ~c.dcm.flg["phys"]
      /\ c.dcm.idx # 0 => c.dcm.idx = Len(c.dcm.buf) /\ R(c) \in Rcv \cup RxErr
  BY DEF Begins, Asking, OneAtATime, Requesting
<1>2. \/ Refused(c) /\ d = c
      \/ /\ ~Refused(c) /\ TxKept(c, d) /\ F(d) = F(c) /\ R(d) = "FF_ERR"
         /\ X(d) \in {"IDLE", "CF_WAIT"} /\ ~d.dcm.flg["phys"]
         /\ d.dcm.idx = 0 \/ d.dcm.idx = Len(d.dcm.buf)
      \/ /\ ~Refused(c) /\ TxKept(c, d) /\ F(d) = F(c) /\ R(d) = "FF_IND"
         /\ X(d) \in {"IDLE", "CF_WAIT"}
         /\ ~d.dcm.flg["phys"] /\ d.dcm.idx # 0 /\ d.dcm.idx = Len(d.dcm.buf)
         /\ d.dcm.reqLen = t.len /\ d.mf.len = t.len /\ d.mf.cnt = 0
         /\ R(c) \notin RxErr => d.dcm.idx = 1 /\ d.dcm.buf = <<x>>
  BY <1>0, <1>1, RxFfIs
<1> DEFINE y == <<x>>
<1>3. MessageOf(t.msg, y)
  BY <1>0, MessageStarts
<1>4. R(c) \notin RxErr /\ R(d) = "FF_IND" => d = c \/ (d.dcm.idx = 1 /\ d.dcm.buf = y)
  BY <1>2
<1> HIDE DEF y, d, x
<1>5. CASE d = c
  <2>1. Asking(c, t)
    BY AskingLost
  <2> QED
    BY <1>0, <1>5, <2>1, Same DEF Begins, d, x
<1>6. CASE d # c
  <2>1. /\ TxKept(c, d) /\ F(d) = F(c) /\ X(d) \in {"IDLE", "CF_WAIT"} /\ ~d.dcm.flg["phys"]
        /\ d.dcm.idx # 0 => d.dcm.idx = Len(d.dcm.buf)
        /\ \/ R(d) = "FF_ERR"
           \/ /\ R(d) = "FF_IND" /\ d.dcm.idx # 0
              /\ d.dcm.reqLen = t.len /\ d.mf.len = t.len /\ d.mf.cnt = 0
    BY <1>2, <1>6
  <2>2. d.dcm.serving # "phys" /\ F(c) \in {"IDLE", "SF_IND", "SF_ERR", "FC_IND_WAIT"}
    BY <2>1 DEF TxKept, Begins, Asking, OneAtATime
  <2>3. OneAtATime(d, t)
    BY <2>1, <2>2 DEF OneAtATime, Rcv, RxErr, TxRest, Ready
  <2>4. Requesting(d, t)
    BY <1>0, <2>1 DEF Requesting, Rcv
  <2>5. HastyRestart \/ Copied(d, t)
    BY <1>3, <1>4, <1>6, <2>1 DEF Copied, Rcv, Begins
  <2>6. Asking(d, t) /\ Rested(d)
    BY <2>1, <2>3, <2>4, <2>5 DEF Asking, Rested
  <2> QED
    BY <2>1, <2>6 DEF d, x
<1> QED
  BY <1>5, <1>6

\* The next frame of the request.
LEMMA AskingCf ==
  ASSUME NEW c \in CtxT, NEW s \in TesterT, Asking(c, s), Rested(c), s.st = "send",
         NEW t \in TesterT, t.k = s.k + 1, t.len = s.len, t.msg = s.msg,
         t.st = IF s.k + 1 = s.len THEN "wait" ELSE "send"
  PROVE  /\ Asking(c, t)
         /\ LET d == RxCf(c, s.k % SnMod, <<s.msg, s.k>>)
            IN Asking(d, t) /\ Rested(d) /\ TxKept(c, d)
<1> DEFINE x == <<s.msg, s.k>>
           n == s.k % SnMod
           d == RxCf(c, n, x)
<1>0. /\ x \in Chunk /\ s.k \in Nat /\ s.len \in Nat /\ s.msg \in Half /\ s.msg \in Nat
      /\ c.mf.cnt \in Nat /\ c.mf.len \in Nat /\ c.dcm.idx \in Nat /\ c.dcm.buf \in Chunks
      /\ Len(c.dcm.buf) \in Nat
  <2>1. s.k \in Nat /\ s.len \in Nat /\ s.msg \in Half /\ s.msg \in Nat
    BY DEF TesterT, Half
  <2>2. c.mf.cnt \in Nat /\ c.mf.len \in Nat
    BY Parts DEF MfT
  <2>3. c.dcm.idx \in Nat /\ c.dcm.buf \in Chunks
    BY Parts DEF DcmT
  <2>4. Len(c.dcm.buf) \in Nat
    BY <2>3, LenProperties DEF Chunks
  <2>5. x \in Chunk
    BY <2>1 DEF Chunk
  <2> QED
    BY <2>1, <2>2, <2>3, <2>4, <2>5
<1>1. /\ OneAtATime(c, s) /\ Requesting(c, s) /\ (HastyRestart \/ Copied(c, s))
      /\ s.k \in 1 .. s.len - 1 /\ ~c.dcm.flg["phys"]
      /\ R(c) # "FF_IND" /\ X(c) # "RECEIVER_FC_REQ"
  BY DEF Asking, OneAtATime, Requesting, Rested
<1>2. Asking(c, t)
  <2>1. OneAtATime(c, t)
    BY <1>1 DEF OneAtATime
  <2>2. Requesting(c, t)
    BY <1>0, <1>1 DEF Requesting
  <2>3. HastyRestart \/ Copied(c, t)
    BY <1>0, <1>1 DEF Copied, Requesting
  <2> QED
    BY <2>1, <2>2, <2>3 DEF Asking
<1>3. R(c) \in Rcv => c.dcm.idx = Len(c.dcm.buf)
  BY <1>1 DEF Requesting
<1>4. \/ d = c
      \/ /\ ~Refused(c) /\ CfKept(c, d) /\ R(d) = "CF_ERR"
         /\ R(c) \in {"IDLE", "FC_CON", "CF_IND", "FC_REQ"}
         /\ d.dcm.flg = c.dcm.flg /\ d.dcm.idx = c.dcm.idx /\ d.dcm.buf = c.dcm.buf
      \/ /\ ~Refused(c) /\ CfKept(c, d)
         /\ R(c) \in {"FC_CON", "CF_IND", "FC_REQ"} /\ n = c.mf.sn
         /\ d.mf.cnt = c.mf.cnt + 1 /\ d.mf.sn = (c.mf.sn + 1) % SnMod
         /\ d.dcm.buf = Append(c.dcm.buf, x)
         /\ \/ LastCf(c) /\ R(d) = "CF_IND_OVER" /\ d.dcm.flg["phys"] /\ d.dcm.idx = 0
            \/ /\ ~LastCf(c) /\ R(d) = "CF_IND" /\ d.dcm.flg = c.dcm.flg
               /\ d.dcm.idx = c.dcm.idx + 1
  <2> HIDE DEF x, n
  <2> QED
    BY <1>0, <1>3, RxCfIs
<1> DEFINE y == Append(c.dcm.buf, x)
<1>5. /\ Len(y) = Len(c.dcm.buf) + 1
      /\ MessageOf(s.msg, c.dcm.buf) /\ s.k = Len(c.dcm.buf) => MessageOf(s.msg, y)
  BY <1>0, MessageGrows
<1> HIDE DEF d, y, n, x
<1>6. CASE d = c
  BY <1>2, <1>6, Same DEF d, n, x
<1>7. CASE /\ ~Refused(c) /\ CfKept(c, d) /\ R(d) = "CF_ERR"
           /\ R(c) \in {"IDLE", "FC_CON", "CF_IND", "FC_REQ"}
           /\ d.dcm.flg = c.dcm.flg /\ d.dcm.idx = c.dcm.idx /\ d.dcm.buf = c.dcm.buf
  <2>1. OneAtATime(d, t) /\ Rested(d)
    BY <1>1, <1>7 DEF OneAtATime, CfKept, TxKept, Rested, Refused, X, Rcv, RxErr, Ready
  <2>2. ~d.dcm.flg["phys"] /\ R(d) \notin Rcv \cup {"FF_IND"} /\ X(d) # "RECEIVER_FC_REQ"
        /\ (d.dcm.idx # 0 => d.dcm.idx = Len(d.dcm.buf))
    BY <1>1, <1>7, <2>1 DEF Requesting, Rcv, Rested
  <2>3. Requesting(d, t) /\ Copied(d, t)
    BY <1>1, <1>2, <2>2 DEF Asking, Requesting, Copied
  <2> QED
    BY <1>2, <1>7, <2>1, <2>3 DEF Asking, CfKept, d, n, x
<1>8. CASE /\ ~Refused(c) /\ CfKept(c, d)
           /\ R(c) \in {"FC_CON", "CF_IND", "FC_REQ"}
           /\ d.mf.cnt = c.mf.cnt + 1 /\ d.dcm.buf = y
           /\ LastCf(c) /\ R(d) = "CF_IND_OVER" /\ d.dcm.flg["phys"] /\ d.dcm.idx = 0
  <2>1. t.st = "wait" /\ s.k = c.mf.cnt + 1 /\ c.mf.len = c.mf.cnt + 2
    BY <1>0, <1>1, <1>8 DEF LastCf, Requesting, Rcv
  <2>2. OneAtATime(d, t) /\ Rested(d)
    BY <1>1, <1>8, <2>1 DEF OneAtATime, CfKept, TxKept, Rested, Refused, X, Rcv, RxErr, TxRest
  <2>3. Requesting(d, t)
    BY <1>8, <2>1, <2>2 DEF Requesting, Rcv, Rested
  <2>4. HastyRestart \/ Copied(d, t)
    <3>1. SUFFICES ASSUME Copied(c, s)
                   PROVE  Copied(d, t)
      BY <1>1
    <3>2. c.dcm.idx = c.mf.cnt + 1 /\ c.dcm.reqLen = c.mf.len /\ MessageOf(s.msg, c.dcm.buf)
          /\ c.dcm.idx = Len(c.dcm.buf)
      BY <1>1, <1>3, <1>8, <2>1, <3>1 DEF Copied, Rcv
    <3>3. Len(y) = c.mf.len /\ MessageOf(s.msg, y)
      BY <1>0, <1>5, <2>1, <3>2
    <3>4. d.dcm.reqLen = Len(d.dcm.buf) /\ Whole(d.dcm.buf)
      BY <1>0, <1>8, <3>2, <3>3 DEF Whole, CfKept
    <3> QED
      BY <1>8, <2>1, <2>2, <3>4 DEF Copied, Rcv, Rested
  <2> QED
    BY <1>2, <1>8, <2>2, <2>3, <2>4 DEF Asking, CfKept, d, n, x
<1>9. CASE /\ ~Refused(c) /\ CfKept(c, d)
           /\ R(c) \in {"FC_CON", "CF_IND", "FC_REQ"}
           /\ d.mf.cnt = c.mf.cnt + 1 /\ d.dcm.buf = y
           /\ ~LastCf(c) /\ R(d) = "CF_IND" /\ d.dcm.flg = c.dcm.flg
           /\ d.dcm.idx = c.dcm.idx + 1
  <2>1. c.mf.cnt + 2 < c.mf.len /\ d.mf.len = c.mf.len /\ s.len = c.mf.len /\ s.k > c.mf.cnt
    BY <1>0, <1>1, <1>9 DEF LastCf, Requesting, Rcv, CfKept
  <2>2. OneAtATime(d, t) /\ Rested(d)
    BY <1>1, <1>9 DEF OneAtATime, CfKept, TxKept, Rested, Refused, X, Rcv, RxErr, Ready
  <2>3. Requesting(d, t)
    <3>1. d.dcm.idx = Len(d.dcm.buf) /\ d.dcm.idx # 0
      BY <1>0, <1>3, <1>5, <1>9 DEF Rcv
    <3> QED
      BY <1>0, <1>1, <1>9, <2>1, <2>2, <3>1 DEF Requesting, Rcv, Rested
  <2>4. HastyRestart \/ Copied(d, t)
    <3>1. SUFFICES ASSUME Copied(c, s)
                   PROVE  Copied(d, t)
      BY <1>1
    <3>2. c.dcm.idx = c.mf.cnt + 1 /\ c.dcm.reqLen = c.mf.len /\ c.dcm.idx = Len(c.dcm.buf)
          /\ (s.k = c.mf.cnt + 1 => MessageOf(s.msg, c.dcm.buf))
      <4>1. R(c) \in Rcv
        BY <1>9 DEF Rcv
      <4> QED
        BY <1>3, <3>1, <4>1 DEF Copied
    <3>3. t.k = d.mf.cnt + 1 => MessageOf(t.msg, y)
      <4>1. t.k = d.mf.cnt + 1 => s.k = c.mf.cnt + 1
        BY <1>0, <1>9
      <4>2. s.k = c.mf.cnt + 1 => s.k = Len(c.dcm.buf)
        BY <3>2
      <4> QED
        BY <1>5, <3>2, <4>1, <4>2 DEF x
    <3>4. /\ ~d.dcm.flg["phys"] /\ R(d) # "FF_IND" /\ X(d) # "RECEIVER_FC_REQ"
          /\ d.dcm.idx = d.mf.cnt + 1 /\ d.dcm.reqLen = d.mf.len
      BY <1>0, <1>1, <1>9, <2>2, <3>2 DEF Rested, CfKept
    <3> QED
      BY <1>9, <3>3, <3>4 DEF Copied
  <2> QED
    BY <1>2, <1>9, <2>2, <2>3, <2>4 DEF Asking, CfKept, d, n, x
<1> QED
  BY <1>4, <1>6, <1>7, <1>8, <1>9 DEF y

\* A flow control frame for the response.
LEMMA AskingFc ==
  ASSUME NEW c \in CtxT, NEW s, Asking(c, s), Rested(c), s.st = "recv",
         NEW t, t.st = "recv",
         NEW fc \in [fs : {"CTS", "WT", "OVFLW"}, bs : Nat, stmin : Nat]
  PROVE  /\ Asking(c, t)
         /\ LET d == RxFc(c, fc)
            IN Asking(d, t) /\ Rested(d) /\ d \in CtxT /\ d.out = c.out /\ d.dcm = c.dcm
<1> DEFINE d == RxFc(c, fc)
<1>1. /\ OneAtATime(c, s) /\ Requesting(c, s) /\ (HastyRestart \/ Copied(c, s))
      /\ ~c.dcm.flg["phys"] /\ c.dcm.serving # "phys" /\ R(c) \notin Rcv
      /\ X(c) # "RECEIVER_FC_REQ"
  BY DEF Asking, OneAtATime, Rested
<1>2. Asking(c, t)
  BY <1>1 DEF Asking, OneAtATime, Requesting, Copied, Rcv
<1>3. \/ d = c
      \/ /\ R(c) = "FC_IND_WAIT" \/ X(c) \in {"FF_REQ", "FF_CON", "CF_CON_WAIT"}
         /\ d \in CtxT /\ d.dcm = c.dcm /\ d.out = c.out
         /\ R(d) = "FC_IND" /\ F(d) = F(c) /\ X(d) = X(c)
  BY RxFcIs
<1> HIDE DEF d
<1>4. CASE d = c
  BY <1>2, <1>4 DEF d
<1>5. CASE d # c
  <2>1. c.dcm.idx = 0
    BY <1>1, <1>3, <1>5 DEF OneAtATime, Rcv, RxErr, Ready
  <2>2. OneAtATime(d, t)
    BY <1>1, <1>3, <1>5, <2>1 DEF OneAtATime, Rcv
  <2>3. Requesting(d, t) /\ Copied(d, t)
    BY <1>1, <1>3, <1>5, <2>1 DEF Requesting, Copied, Rcv
  <2> QED
    BY <1>1, <1>2, <1>3, <1>5, <2>2, <2>3 DEF Asking, Rested, d
<1> QED
  BY <1>4, <1>5

\* A functional request.
LEMMA AskingSfFunc ==
  ASSUME NEW c \in CtxT, NEW t, Asking(c, t), Rested(c), NEW y
  PROVE  LET d == RxSf(c, "func", y)
         IN /\ Asking(d, t) /\ Rested(d) /\ d \in CtxT /\ d.out = c.out
            /\ d.dcm.flg["phys"] = c.dcm.flg["phys"]
<1> DEFINE d == RxSf(c, "func", y)
<1>1. F(c) \in {"IDLE", "SF_IND", "SF_ERR", "FC_IND_WAIT"}
  BY DEF Asking, OneAtATime
<1>2. \E f \in {F(c), "SF_IND", "SF_ERR"} : Turn(c, d, R(c), f, X(c), I(c))
  BY <1>1, RxSfFunc
<1> HIDE DEF d
<1>3. /\ d \in CtxT /\ d.out = c.out /\ d.dcm.flg["phys"] = c.dcm.flg["phys"]
      /\ R(d) = R(c) /\ X(d) = X(c) /\ F(d) \in {"IDLE", "SF_IND", "SF_ERR", "FC_IND_WAIT"}
      /\ d.dcm.idx = c.dcm.idx /\ d.dcm.buf = c.dcm.buf /\ d.dcm.reqLen = c.dcm.reqLen
      /\ d.dcm.serving = c.dcm.serving /\ d.mf.cnt = c.mf.cnt /\ d.mf.len = c.mf.len
  BY <1>1, <1>2 DEF Turn, Kept, R, F, X
<1>4. Asking(d, t) /\ Rested(d)
  BY <1>3 DEF Asking, OneAtATime, Requesting, Copied, Rested
<1> QED
  BY <1>3, <1>4 DEF d

\* The server takes a request: the physical one, or the functional one.
LEMMA AskingTaken ==
  ASSUME NEW c \in CtxT, NEW t, Asking(c, t), Rested(c), c.dcm.serving = "none",
         NEW h \in Chan, c.dcm.flg[h], NEW d, d \in CtxT,
         d.rx = c.rx, d.mf = c.mf, d.tx = c.tx,
         d.dcm = [c.dcm EXCEPT !.serving = h, !.flg[h] = FALSE]
  PROVE  Asking(d, t) /\ Rested(d)
<1>1. /\ d.dcm.serving = h /\ ~d.dcm.flg[h] /\ d.dcm.idx = c.dcm.idx /\ d.dcm.buf = c.dcm.buf
      /\ d.dcm.reqLen = c.dcm.reqLen /\ (h = "func" => d.dcm.flg["phys"] = c.dcm.flg["phys"])
  <2>1. c.dcm \in DcmT
    BY Parts
  <2>2. CASE h = "phys"
    <3>1. d.dcm = [c.dcm EXCEPT !.serving = "phys", !.flg["phys"] = FALSE]
      BY <2>2
    <3> QED
      BY <2>1, <2>2, <3>1 DEF DcmT, Chan
  <2>3. CASE h = "func"
    <3>1. d.dcm = [c.dcm EXCEPT !.serving = "func", !.flg["func"] = FALSE]
      BY <2>3
    <3> QED
      BY <2>1, <2>3, <3>1 DEF DcmT, Chan
  <2> QED
    BY <2>2, <2>3 DEF Chan
<1>2. R(d) = R(c) /\ F(d) = F(c) /\ X(d) = X(c)
  BY DEF R, F, X
<1>3. CASE h = "phys"
  <2>1. OneAtATime(d, t)
    BY <1>1, <1>2, <1>3 DEF OneAtATime, Asking
  <2>2. Requesting(d, t)
    BY <1>1, <1>2, <1>3 DEF Requesting, Asking
  <2>3. HastyRestart \/ Copied(d, t)
    BY <1>1, <1>2, <1>3 DEF Copied, Asking
  <2> QED
    BY <1>2, <2>1, <2>2, <2>3 DEF Asking, Rested
<1>4. CASE h = "func"
  <2>1. OneAtATime(d, t)
    BY <1>1, <1>2, <1>4 DEF OneAtATime, Asking
  <2>2. Requesting(d, t)
    BY <1>1, <1>2, <1>4 DEF Requesting, Asking
  <2>3. HastyRestart \/ Copied(d, t)
    BY <1>1, <1>2, <1>4 DEF Copied, Asking
  <2> QED
    BY <1>2, <2>1, <2>2, <2>3 DEF Asking, Rested
<1> QED
  BY <1>3, <1>4 DEF Chan

\* What the tester makes of the start of a response.
LEMMA HearsStart ==
  ASSUME NEW t \in TesterT, NEW f, f \in Frame,
         f.ty = "SF" \/ f.ty = "FF"
  PROVE  LET u == Hears(t, f)
         IN \/ u = t
            \/ t.st = "wait" /\ f.ty = "SF" /\ u = Quiet(t.msg) /\ u \in TesterT /\ u.st = "idle"
               /\ u.got = <<>>
            \/ t.st = "wait" /\ f.ty = "FF" /\ u \in TesterT /\ u.st = "recv" /\ u.num = f.num
               /\ u.sn = 1 % SnMod /\ u.got = <<f.chunk>> /\ u.credit = 0 /\ u.msg = t.msg
<1>0. t.msg \in Half
  BY DEF TesterT
<1>1. CASE t.st # "wait"
  BY <1>1 DEF Hears
<1>2. CASE t.st = "wait" /\ f.ty = "SF"
  <2>1. Hears(t, f) = Quiet(t.msg)
    BY <1>2 DEF Hears
  <2> QED
    BY <1>0, <1>2, <2>1, QuietIs
<1>3. CASE t.st = "wait" /\ f.ty = "FF"
  <2>1. f.num \in Nat /\ f.chunk \in Chunk
    BY <1>3 DEF Frame, NoFrame
  <2> DEFINE g == <<f.chunk>>
             k == 1 % SnMod
             u == [t EXCEPT !.st = "recv", !.num = f.num, !.sn = k, !.got = g, !.credit = 0]
  <2>2. Hears(t, f) = u
    BY <1>3 DEF Hears
  <2>3. g \in Chunks /\ k \in Nat /\ 0 \in Nat /\ "recv" \in St
    BY <2>1, ModIn DEF Chunks, St
  <2> HIDE DEF g, k
  <2>4. u \in TesterT /\ u.st = "recv" /\ u.num = f.num /\ u.sn = k /\ u.got = g /\ u.credit = 0
        /\ u.msg = t.msg
    BY <2>1, <2>3 DEF TesterT
  <2> QED
    BY <1>3, <2>2, <2>4 DEF g, k
<1> QED
  BY <1>1, <1>2, <1>3

\* The server leaves the request it served without an answer, or answers it.
LEMMA AskingUnanswered ==
  ASSUME NEW c \in CtxT, NEW t, Asking(c, t), Rested(c),
         NEW d, d = [c EXCEPT !.dcm.serving = "none"]
  PROVE  Asking(d, t) /\ Rested(d) /\ d \in CtxT /\ d.out = c.out /\ d.dcm.flg = c.dcm.flg
<1> DEFINE v == [c.dcm EXCEPT !.serving = "none"]
           e == [c EXCEPT !.dcm = v]
<1>1. v \in DcmT /\ v.flg = c.dcm.flg /\ v.idx = c.dcm.idx /\ v.buf = c.dcm.buf
      /\ v.reqLen = c.dcm.reqLen /\ v.serving = "none"
  BY Parts DEF DcmT, Server
<1>2. d = e
  BY DEF CtxT
<1> HIDE DEF v
<1>20. e \in CtxT /\ e.dcm = v /\ e.rx = c.rx /\ e.mf = c.mf /\ e.tx = c.tx /\ e.out = c.out
  BY <1>1, SetDcm
<1> HIDE DEF e
<1>3. d \in CtxT /\ d.dcm = v /\ d.rx = c.rx /\ d.mf = c.mf /\ d.tx = c.tx /\ d.out = c.out
  BY <1>2, <1>20
<1>4. R(d) = R(c) /\ F(d) = F(c) /\ X(d) = X(c)
  BY <1>3 DEF R, F, X
<1>5. OneAtATime(d, t)
  BY <1>1, <1>3, <1>4 DEF Asking, OneAtATime
<1>6. Requesting(d, t)
  BY <1>1, <1>3, <1>4 DEF Asking, Requesting
<1>7. HastyRestart \/ Copied(d, t)
  BY <1>1, <1>3, <1>4 DEF Asking, Copied
<1> QED
  BY <1>1, <1>3, <1>4, <1>5, <1>6, <1>7 DEF Asking, Rested

\* The context of a response: the request is served, its buffer is the next.
Served(c) == [c EXCEPT !.dcm.serving = "none", !.dcm.res = 1 - @]

\* The server has served: its next response is another one.
LEMMA ServedIs ==
  ASSUME NEW c \in CtxT
  PROVE  LET d == Served(c)
         IN /\ d \in CtxT /\ d.rx = c.rx /\ d.mf = c.mf /\ d.tx = c.tx /\ d.out = c.out
            /\ d.dcm.flg = c.dcm.flg /\ d.dcm.idx = c.dcm.idx /\ d.dcm.buf = c.dcm.buf
            /\ d.dcm.reqLen = c.dcm.reqLen /\ I(d) = I(c) /\ d.dcm.serving = "none"
            /\ d.dcm.res = 1 - c.dcm.res /\ d.dcm.res \in Half
<1> DEFINE v == [c.dcm EXCEPT !.serving = "none", !.res = 1 - @]
           d == [c EXCEPT !.dcm = v]
<1>1. /\ v \in DcmT /\ v.flg = c.dcm.flg /\ v.idx = c.dcm.idx /\ v.buf = c.dcm.buf
      /\ v.reqLen = c.dcm.reqLen /\ v.serving = "none" /\ v.txIdx = c.dcm.txIdx
      /\ v.res = 1 - c.dcm.res /\ v.res \in Half
  <2>1. c.dcm \in DcmT /\ c.dcm.res \in Half /\ "none" \in Server
    BY Parts DEF DcmT, Server
  <2> DEFINE r == 1 - c.dcm.res
  <2>2. r \in Half
    BY <2>1 DEF Half
  <2>3. v = [c.dcm EXCEPT !.serving = "none", !.res = r]
    BY <2>1 DEF DcmT
  <2> HIDE DEF r
  <2>4. /\ v \in DcmT /\ v.flg = c.dcm.flg /\ v.idx = c.dcm.idx /\ v.buf = c.dcm.buf
        /\ v.reqLen = c.dcm.reqLen /\ v.serving = "none" /\ v.txIdx = c.dcm.txIdx /\ v.res = r
    BY <2>1, <2>2, <2>3 DEF DcmT
  <2> QED
    BY <2>2, <2>4 DEF r
<1>2. Served(c) = d
  BY DEF Served, CtxT
<1> HIDE DEF v
<1>3. d \in CtxT /\ d.dcm = v /\ d.rx = c.rx /\ d.mf = c.mf /\ d.tx = c.tx /\ d.out = c.out
  BY <1>1, SetDcm
<1> QED
  BY <1>1, <1>2, <1>3 DEF I

\* A response begins where no request is received or held.
LEMMA AskingAnswered ==
  ASSUME NEW c \in CtxT, NEW t \in TesterT, Asking(c, t), Rested(c), c.dcm.serving = "phys",
         NEW n \in Nat \ {0}, NEW d, d = Transmit(Served(c), n), NEW u \in {t, Hears(t, d.out)}
  PROVE  Asking(d, u) /\ Rested(d) /\ d \in CtxT /\ u \in TesterT /\ d.dcm.flg = c.dcm.flg
<1> DEFINE e == Served(c)
<1>1. /\ e \in CtxT /\ e.rx = c.rx /\ e.mf = c.mf /\ e.tx = c.tx
      /\ e.dcm.flg = c.dcm.flg /\ e.dcm.idx = c.dcm.idx /\ e.dcm.serving = "none"
  BY ServedIs
<1>2. d = Transmit(e, n)
  OBVIOUS
<1> HIDE DEF e
<1>3. /\ d \in CtxT /\ d.rx = e.rx /\ d.dcm.flg = e.dcm.flg /\ d.dcm.idx = e.dcm.idx
      /\ d.dcm.serving = e.dcm.serving /\ X(d) \in {"IDLE", "FF_REQ"}
      /\ d.out.ty = "SF" \/ d.out.ty = "FF"
  <2> DEFINE b == Transmit(e, n)
  <2>1. /\ b \in CtxT /\ b.rx = e.rx /\ b.dcm.flg = e.dcm.flg /\ b.dcm.idx = e.dcm.idx
        /\ b.dcm.serving = e.dcm.serving
        /\ \/ X(b) = "IDLE" /\ b.out = [ty |-> "SF"]
           \/ X(b) = "FF_REQ" /\ b.out = [ty |-> "FF", num |-> n, chunk |-> <<e.dcm.res, I(e)>>]
    BY <1>1, TransmitIs
  <2> HIDE DEF b
  <2>2. b.out.ty = "SF" \/ b.out.ty = "FF"
    BY <2>1
  <2>3. d = b
    BY <1>2 DEF b
  <2> QED
    BY <2>1, <2>2, <2>3
<1>4. u \in TesterT /\ (u = t \/ u.st \in {"idle", "recv"})
  <2>1. d.out \in Frame
    BY <1>3, Parts
  <2> QED
    BY <1>3, <2>1, HearsStart
<1>5. /\ ~c.dcm.flg["phys"] /\ R(c) \notin Rcv /\ c.dcm.idx = 0
      /\ F(c) \in {"IDLE", "SF_IND", "SF_ERR", "FC_IND_WAIT"}
      /\ t.st = "send" => t.k \in 1 .. t.len - 1
  BY DEF Asking, OneAtATime, Requesting
<1>6. R(d) = R(c) /\ F(d) = F(c)
  BY <1>1, <1>3 DEF R, F
<1>7. OneAtATime(d, u) /\ Requesting(d, u) /\ Copied(d, u)
  BY <1>1, <1>3, <1>4, <1>5, <1>6 DEF OneAtATime, Requesting, Copied, Rcv
<1> QED
  BY <1>1, <1>3, <1>4, <1>7 DEF Asking, Rested

\* The tester gives up.
LEMMA AskingQuiet ==
  ASSUME NEW c, NEW s, Asking(c, s), Rested(c), NEW t, t.st = "idle"
  PROVE  Asking(c, t)
<1>1. OneAtATime(c, t)
  BY DEF Asking, OneAtATime
<1>2. Requesting(c, t)
  BY DEF Asking, Requesting
<1>3. HastyRestart \/ Copied(c, t)
  BY DEF Asking, Copied
<1> QED
  BY <1>1, <1>2, <1>3 DEF Asking

\* The first two parts of the invariant: types, and the request.
TypesHold ==
  Context \in CtxT /\ tester \in TesterT /\ granted \in Nat

IndAsking ==
  /\ TypesHold
  /\ Asking(Context, tester) /\ Rested(Context)

\* The types hold at the start.
LEMMA InitTypes == Init => TypesHold
<1> SUFFICES ASSUME Init PROVE TypesHold
  OBVIOUS
<1>1. rx \in RxT
  BY TpAssumption DEF Init, RxT, RxS
<1>2. mf \in MfT
  BY DEF Init, MfT, Fs
<1>3. tx \in TxT
  BY TpAssumption DEF Init, TxT, TxS, Truth, Chan
<1>4. dcm \in DcmT
  BY DEF Init, DcmT, Truth, Half, Server, Chunks
<1>5. Context \in CtxT
  BY <1>1, <1>2, <1>3, <1>4 DEF Context, CtxT, Frame
<1>6. tester \in TesterT
  BY QuietIs DEF Init, Half
<1> QED
  BY <1>5, <1>6 DEF TypesHold, Init

\* The state is a context, and what a step makes of it.
LEMMA ContextIs ==
  /\ Context.rx = rx /\ Context.mf = mf /\ Context.tx = tx /\ Context.dcm = dcm
  /\ Context.out = NoFrame
  /\ Context' = [rx |-> rx', mf |-> mf', tx |-> tx', dcm |-> dcm', out |-> NoFrame]
BY DEF Context, NoFrame

\* The same context with nothing to be sent.
Bare(c) == [rx |-> c.rx, mf |-> c.mf, tx |-> c.tx, dcm |-> c.dcm, out |-> NoFrame]

\* A context whose frame has been taken off.
LEMMA BareIs ==
  ASSUME NEW c \in CtxT
  PROVE  LET d == Bare(c)
         IN /\ d \in CtxT /\ d.rx = c.rx /\ d.mf = c.mf /\ d.tx = c.tx /\ d.dcm = c.dcm
            /\ R(d) = R(c) /\ F(d) = F(c) /\ X(d) = X(c) /\ I(d) = I(c) /\ d.out = NoFrame
BY DEF CtxT, Bare, Frame, R, F, X, I

\* The grant stays a number.
LEMMA GrantedIs ==
  ASSUME granted \in Nat, NEW f \in Frame
  PROVE  GrantedAfter(f) \in Nat
BY DownIs DEF GrantedAfter, Frame, NoFrame

\* What a step that becomes c leaves.
LEMMA BecomesIs ==
  ASSUME NEW c \in CtxT, NEW t, Becomes(c, t), granted \in Nat
  PROVE  /\ Context' = Bare(c) /\ tester' \in {t, Hears(t, c.out)}
         /\ granted' \in Nat /\ granted' = GrantedAfter(c.out)
         /\ dcm' = c.dcm /\ tx' = c.tx
<1>1. c.out \in Frame
  BY Parts
<1> QED
  BY <1>1, GrantedIs, ContextIs DEF Becomes, Bare

\* The frame that goes out is no part of the request.
LEMMA AskingBare ==
  ASSUME NEW c \in CtxT, NEW t, Asking(c, t), Rested(c)
  PROVE  Asking(Bare(c), t) /\ Rested(Bare(c))
<1> DEFINE d == Bare(c)
<1>1. /\ d.rx = c.rx /\ d.mf = c.mf /\ d.tx = c.tx /\ d.dcm = c.dcm
      /\ R(d) = R(c) /\ F(d) = F(c) /\ X(d) = X(c)
  BY BareIs
<1> HIDE DEF d
<1>2. OneAtATime(d, t)
  BY <1>1 DEF Asking, OneAtATime
<1>3. Requesting(d, t)
  BY <1>1 DEF Asking, Requesting
<1>4. HastyRestart \/ Copied(d, t)
  BY <1>1 DEF Asking, Copied
<1>5. Asking(d, t) /\ Rested(d)
  BY <1>1, <1>2, <1>3, <1>4 DEF Asking, Rested
<1> QED
  BY <1>5 DEF d

\* A step that becomes c keeps the two, if c does.
LEMMA AskingBecomes ==
  ASSUME NEW c \in CtxT, NEW t, Becomes(c, t), granted \in Nat,
         \A u \in {t, Hears(t, c.out)} : u \in TesterT /\ Asking(c, u), Rested(c)
  PROVE  IndAsking'
<1>1. Context' = Bare(c) /\ tester' \in {t, Hears(t, c.out)} /\ granted' \in Nat
  BY BecomesIs
<1>2. tester' \in TesterT /\ Asking(c, tester')
  BY <1>1
<1>3. Asking(Bare(c), tester') /\ Rested(Bare(c)) /\ Bare(c) \in CtxT
  BY <1>2, AskingBare, BareIs
<1>4. TypesHold' /\ Asking(Context', tester') /\ Rested(Context')
  BY <1>1, <1>2, <1>3 DEF TypesHold
<1> QED
  BY <1>4 DEF IndAsking

\* A tester that begins a request.
LEMMA RequestedIs ==
  ASSUME tester \in TesterT, NEW st \in St, NEW len \in Nat
  PROVE  LET t == Requested(st, len)
         IN /\ t \in TesterT /\ t.st = st /\ t.len = len /\ t.k = 1 /\ t.msg = 1 - tester.msg
            /\ t.got = <<>> /\ t.credit = 0
<1> DEFINE m == 1 - tester.msg
           q == Quiet(m)
           u == [q EXCEPT !.st = st, !.len = len, !.k = 1]
<1>1. m \in Half
  BY DEF TesterT, Half
<1>3. Requested(st, len) = u
  BY DEF Requested
<1> HIDE DEF m
<1>2. q \in TesterT /\ q.got = <<>> /\ q.msg = m /\ q.credit = 0
  BY <1>1, QuietIs
<1> HIDE DEF q
<1>4. /\ u \in TesterT /\ u.st = st /\ u.len = len /\ u.k = 1 /\ u.msg = q.msg
      /\ u.got = q.got /\ u.credit = q.credit
  BY <1>2 DEF TesterT
<1> HIDE DEF u
<1> QED
  BY <1>2, <1>3, <1>4 DEF m

\* What a step may do to a request that is held: nothing, or hand it over.
KeepsHeld == dcm.flg["phys"] => dcm'.flg["phys"] \/ dcm'.serving = "phys"

\* A tick does not take back a request that is held.
LEMMA HeldTick ==
  ASSUME NEW c \in CtxT, NEW t, Asking(c, t), Rested(c), c.dcm.flg["phys"]
  PROVE  LET d == TxProcess(RxProcess(RxProcess(Timers(c), "phys"), "func"))
         IN d.dcm.flg["phys"]
<1> DEFINE a == Timers(c)
           b == RxProcess(a, "phys")
           e == RxProcess(b, "func")
           d == TxProcess(e)
<1>1. Asking(a, t) /\ Rested(a) /\ a \in CtxT /\ a.dcm.flg["phys"]
  <2>1. Confirmed(c, a)
    BY TimersIs
  <2> HIDE DEF a
  <2>2. a.dcm.flg["phys"]
    BY <2>1 DEF Confirmed, Turn
  <2> QED
    BY <2>1, <2>2, AskingConfirmed
<1> HIDE DEF a
<1>2. Asking(b, t) /\ b \in CtxT /\ b.dcm.flg["phys"]
  <2>1. Heeded(a, b)
    BY <1>1, RxProcessPhys
  <2>3. R(a) \notin RxErr
    BY <1>1 DEF Asking, OneAtATime
  <2> HIDE DEF b
  <2>2. b.dcm.flg["phys"]
    BY <1>1, <2>1, <2>3 DEF Heeded, Dropped, Turn
  <2> QED
    BY <1>1, <2>1, <2>2, AskingHeeded
<1> HIDE DEF b
<1>3. e \in CtxT /\ e.dcm.flg["phys"]
  <2>1. \/ Turn(b, e, R(b), F(b), X(b), I(b))
        \/ Turn(b, e, R(b), "IDLE", X(b), I(b))
    BY <1>2, RxProcessFunc DEF Asking, OneAtATime
  <2> HIDE DEF e
  <2> QED
    BY <1>2, <2>1 DEF Turn, Kept
<1> HIDE DEF e
<1>4. Driven(e, d)
  BY <1>3, TxProcessIs
<1> HIDE DEF d
<1>5. d.dcm.flg["phys"]
  BY <1>3, <1>4 DEF Driven, Turn, Sent, Granted
<1> QED
  BY <1>5 DEF d, e, b, a

\* Each step keeps the two parts and a request that is held.
LEMMA TickAsks ==
  ASSUME IndAsking, Tick
  PROVE  IndAsking' /\ KeepsHeld
<1> DEFINE c == Context
           d == TxProcess(RxProcess(RxProcess(Timers(c), "phys"), "func"))
<1>1. c \in CtxT /\ c.out = NoFrame /\ tester \in TesterT /\ granted \in Nat
      /\ Asking(c, tester) /\ Rested(c) /\ c.dcm = dcm
  BY ContextIs DEF IndAsking, TypesHold
<1>2. Becomes(d, tester)
  BY DEF Tick
<1>h. c.dcm.flg["phys"] => d.dcm.flg["phys"]
  BY <1>1, HeldTick
<1>3. ASSUME NEW u \in {tester, Hears(tester, d.out)}
      PROVE  u \in TesterT /\ Asking(d, u) /\ Rested(d) /\ d \in CtxT
  BY <1>1, <1>3, AskingTick
<1>4. d \in CtxT /\ Rested(d)
  BY <1>3
<1> HIDE DEF d, c
<1>5. IndAsking'
  BY <1>1, <1>2, <1>3, <1>4, AskingBecomes
<1>6. dcm' = d.dcm
  BY <1>1, <1>2, <1>4, BecomesIs
<1> QED
  BY <1>1, <1>h, <1>5, <1>6 DEF KeepsHeld

\* The server takes a request.
LEMMA TakeAsks ==
  ASSUME IndAsking, Take
  PROVE  IndAsking' /\ KeepsHeld
<1> DEFINE c == Context
           d == Context'
<1>1. c \in CtxT /\ tester \in TesterT /\ granted \in Nat
      /\ Asking(c, tester) /\ Rested(c) /\ c.rx = rx /\ c.mf = mf /\ c.tx = tx /\ c.dcm = dcm
  BY ContextIs DEF IndAsking, TypesHold
<1>2. PICK h \in Chan :
        /\ dcm.serving = "none" /\ dcm.flg[h]
        /\ dcm' = [dcm EXCEPT !.serving = h, !.flg[h] = FALSE]
        /\ rx' = rx /\ mf' = mf /\ tx' = tx /\ tester' = tester /\ granted' = granted
  BY DEF Take
<1>3. dcm \in DcmT /\ rx \in RxT /\ mf \in MfT /\ tx \in TxT
  BY <1>1, Parts
<1>4. dcm' \in DcmT /\ (h # "phys" => dcm'.flg["phys"] = dcm.flg["phys"]) /\ dcm'.serving = h
  <2>1. CASE h = "phys"
    BY <1>2, <1>3, <2>1 DEF DcmT, Chan, Truth, Server
  <2>2. CASE h = "func"
    BY <1>2, <1>3, <2>2 DEF DcmT, Chan, Truth, Server
  <2> QED
    BY <2>1, <2>2 DEF Chan
<1>5. d \in CtxT /\ d.rx = c.rx /\ d.mf = c.mf /\ d.tx = c.tx /\ d.dcm = dcm'
  BY <1>1, <1>2, <1>3, <1>4, ContextIs DEF CtxT, Frame
<1> HIDE DEF c, d
<1>6. Asking(d, tester) /\ Rested(d)
  BY <1>1, <1>2, <1>5, AskingTaken
<1>7. IndAsking'
  BY <1>1, <1>2, <1>5, <1>6 DEF IndAsking, TypesHold, d
<1>8. KeepsHeld
  BY <1>4 DEF KeepsHeld
<1> QED
  BY <1>7, <1>8

\* The server answers, or does not.
LEMMA AnswerAsks ==
  ASSUME IndAsking, Answer, ~FuncAnswered
  PROVE  IndAsking' /\ KeepsHeld
<1> DEFINE c == Context
<1>1. c \in CtxT /\ c.out = NoFrame /\ tester \in TesterT /\ granted \in Nat
      /\ Asking(c, tester) /\ Rested(c) /\ c.dcm = dcm
  BY ContextIs DEF IndAsking, TypesHold
<1>2. CASE Becomes([c EXCEPT !.dcm.serving = "none"], tester)
  <2> DEFINE d == [c EXCEPT !.dcm.serving = "none"]
  <2> HIDE DEF c
  <2>1. Asking(d, tester) /\ Rested(d) /\ d \in CtxT /\ d.out = c.out /\ d.dcm.flg = c.dcm.flg
    BY <1>1, AskingUnanswered
  <2>2. Becomes(d, tester)
    BY <1>2
  <2> HIDE DEF d
  <2>3. Hears(tester, d.out) = tester
    BY <1>1, <2>1, HearsNone DEF NoFrame
  <2>4. IndAsking'
    BY <1>1, <2>1, <2>2, <2>3, AskingBecomes
  <2>5. dcm' = d.dcm
    BY <1>1, <2>1, <2>2, BecomesIs
  <2> QED
    BY <1>1, <2>1, <2>4, <2>5 DEF KeepsHeld
<1>3. CASE /\ dcm.serving = "func" => FuncAnswered
           /\ \E n \in 1 .. MaxRes : Becomes(Transmit(Served(c), n), tester)
  <2>1. PICK n \in 1 .. MaxRes : Becomes(Transmit(Served(c), n), tester)
    BY <1>3
  <2>2. c.dcm.serving = "phys" /\ n \in Nat \ {0}
    <3>1. c.dcm.serving \in Server
      BY <1>1, Parts DEF DcmT
    <3>2. n \in Nat \ {0}
      BY TpAssumption
    <3> QED
      BY <1>1, <1>3, <3>1, <3>2 DEF Server, Answer
  <2> DEFINE d == Transmit(Served(c), n)
  <2> HIDE DEF c
  <2>3. ASSUME NEW u \in {tester, Hears(tester, d.out)}
        PROVE  Asking(d, u) /\ Rested(d) /\ d \in CtxT /\ u \in TesterT /\ d.dcm.flg = c.dcm.flg
    BY <1>1, <2>2, <2>3, AskingAnswered
  <2>4. d \in CtxT /\ Rested(d) /\ d.dcm.flg = c.dcm.flg
    BY <2>3
  <2>5. Becomes(d, tester)
    BY <2>1
  <2> HIDE DEF d
  <2>6. IndAsking'
    BY <1>1, <2>3, <2>4, <2>5, AskingBecomes
  <2>7. dcm' = d.dcm
    BY <1>1, <2>4, <2>5, BecomesIs
  <2> QED
    BY <1>1, <2>4, <2>6, <2>7 DEF KeepsHeld
<1> QED
  BY <1>2, <1>3 DEF Answer, Served

\* A frame of the tester is received or lost: c is what it leaves either way.
LEMMA ReceivedAsks ==
  ASSUME IndAsking, NEW d \in CtxT, NEW t \in TesterT, d.out = NoFrame,
         Asking(d, t), Rested(d), Asking(Context, t),
         dcm.flg["phys"] => d.dcm.flg["phys"],
         NEW c \in Lost(d), Becomes(c, t)
  PROVE  IndAsking' /\ KeepsHeld
<1>1. /\ c \in CtxT /\ c.out = NoFrame /\ Asking(c, t) /\ Rested(c) /\ granted \in Nat
      /\ dcm.flg["phys"] => c.dcm.flg["phys"]
  BY ContextIs DEF IndAsking, TypesHold, Lost
<1>2. Hears(t, c.out) = t
  BY <1>1, HearsNone DEF NoFrame
<1>3. IndAsking'
  BY <1>1, <1>2, AskingBecomes
<1>4. dcm' = c.dcm
  BY <1>1, BecomesIs
<1> QED
  BY <1>1, <1>3, <1>4 DEF KeepsHeld

\* A tester that may request finds nothing held.
LEMMA RequestBegins ==
  ASSUME IndAsking, MayRequest
  PROVE  Begins(Context, tester) /\ ~dcm.flg["phys"]
BY ContextIs DEF IndAsking, TypesHold, MayRequest, Begins, R

\* The tester sends a request of one frame.
LEMMA SfAsks ==
  ASSUME IndAsking, SendSf
  PROVE  IndAsking' /\ KeepsHeld
<1> DEFINE t == Requested("wait", 1)
           d == RxSf(Context, "phys", <<t.msg, 0>>)
<1>1. Begins(Context, tester) /\ ~dcm.flg["phys"]
  BY RequestBegins DEF SendSf
<1>2. t \in TesterT /\ t.st = "wait"
  <2>1. "wait" \in St /\ tester \in TesterT /\ 1 \in Nat
    BY DEF St, IndAsking, TypesHold
  <2> QED
    BY <2>1, RequestedIs
<1>3. PICK c \in Lost(d) : Becomes(c, t)
  BY DEF SendSf
<1> HIDE DEF t
<1>4. Asking(d, t) /\ Rested(d) /\ TxKept(Context, d)
  BY <1>1, <1>2, AskingSf
<1>5. Asking(Context, t)
  BY <1>1, <1>2, AskingLost
<1> HIDE DEF d
<1>6. d \in CtxT /\ d.out = NoFrame
  BY <1>4, ContextIs DEF TxKept
<1> QED
  BY <1>1, <1>2, <1>3, <1>4, <1>5, <1>6, ReceivedAsks

\* The tester sends the first frame of a longer one.
LEMMA FfAsks ==
  ASSUME IndAsking, SendFf
  PROVE  IndAsking' /\ KeepsHeld
<1>1. Begins(Context, tester) /\ ~dcm.flg["phys"]
  BY RequestBegins DEF SendFf
<1>2. PICK len \in 2 .. MaxReq :
        LET t == Requested("waitFC", len)
        IN \E c \in Lost(RxFf(Context, len, <<t.msg, 0>>)) : Becomes(c, t)
  BY DEF SendFf
<1> DEFINE t == Requested("waitFC", len)
           d == RxFf(Context, len, <<t.msg, 0>>)
<1>3. t \in TesterT /\ t.st = "waitFC" /\ t.len = len /\ t.len > 1 /\ t.k = 1
  <2>1. "waitFC" \in St /\ tester \in TesterT /\ len \in Nat /\ len > 1
    BY TpAssumption DEF St, IndAsking, TypesHold
  <2> QED
    BY <2>1, RequestedIs
<1>4. PICK c \in Lost(d) : Becomes(c, t)
  BY <1>2
<1>d. d = RxFf(Context, t.len, <<t.msg, 0>>)
  BY <1>3
<1> HIDE DEF t
<1>5. Asking(Context, t)
  BY <1>1, <1>3, AskingLost
<1>6. Asking(d, t) /\ Rested(d) /\ TxKept(Context, d)
  <2> DEFINE e == RxFf(Context, t.len, <<t.msg, 0>>)
  <2>1. Asking(e, t) /\ Rested(e) /\ TxKept(Context, e)
    BY <1>1, <1>3, AskingFf
  <2>2. d = e
    BY <1>d
  <2> HIDE DEF d, e
  <2> QED
    BY <2>1, <2>2
<1> HIDE DEF d
<1>7. d \in CtxT /\ d.out = NoFrame
  BY <1>6, ContextIs DEF TxKept
<1> QED
  BY <1>1, <1>3, <1>4, <1>5, <1>6, <1>7, ReceivedAsks

\* The tester after its next frame.
After(s) == [s EXCEPT !.k = @ + 1, !.st = IF s.k + 1 = s.len THEN "wait" ELSE @,
                      !.credit = @ - 1]

\* The tester after one of its consecutive frames.
LEMMA AfterIs ==
  ASSUME NEW s \in TesterT, s.st = "send", s.credit > 0
  PROVE  LET t == After(s)
         IN /\ t \in TesterT /\ t.k = s.k + 1 /\ t.len = s.len /\ t.msg = s.msg
            /\ t.st = IF s.k + 1 = s.len THEN "wait" ELSE "send"
            /\ t.got = s.got /\ t.num = s.num
<1> DEFINE a == s.k + 1
           b == IF s.k + 1 = s.len THEN "wait" ELSE "send"
           n == s.credit - 1
           t == [s EXCEPT !.k = a, !.st = b, !.credit = n]
<1>1. a \in Nat /\ b \in St /\ n \in Nat
  BY DEF TesterT, St
<1>2. After(s) = t
  BY DEF After, TesterT
<1> HIDE DEF a, b, n
<1>3. /\ t \in TesterT /\ t.k = a /\ t.st = b /\ t.len = s.len /\ t.msg = s.msg /\ t.got = s.got
      /\ t.num = s.num
  BY <1>1 DEF TesterT
<1> HIDE DEF t
<1> QED
  BY <1>2, <1>3 DEF a, b

\* The tester sends a consecutive frame.
LEMMA CfAsks ==
  ASSUME IndAsking, SendCf
  PROVE  IndAsking' /\ KeepsHeld
<1> DEFINE s == tester
           t == After(s)
           c == Context
           x == <<s.msg, s.k>>
           n == s.k % SnMod
           d == RxCf(c, n, x)
<1>0. /\ s \in TesterT /\ s.st = "send" /\ s.credit > 0
      /\ c \in CtxT /\ c.out = NoFrame /\ c.dcm = dcm
      /\ Asking(c, s) /\ Rested(c)
  BY ContextIs DEF IndAsking, TypesHold, SendCf
<1>1. /\ t \in TesterT /\ t.k = s.k + 1 /\ t.len = s.len /\ t.msg = s.msg
      /\ t.st = IF s.k + 1 = s.len THEN "wait" ELSE "send"
  BY <1>0, AfterIs
<1>2. PICK e \in Lost(d) : Becomes(e, t)
  BY DEF SendCf, After
<1> HIDE DEF t
<1>3. Asking(c, t) /\ Asking(d, t) /\ Rested(d) /\ TxKept(c, d)
  BY <1>0, <1>1, AskingCf
<1>4. c.dcm.flg["phys"] => d.dcm.flg["phys"]
  <2>1. ASSUME c.dcm.flg["phys"]
        PROVE  FALSE
    BY <1>0, <2>1 DEF Asking, OneAtATime
  <2> QED
    BY <2>1
<1> HIDE DEF d
<1>5. d \in CtxT /\ d.out = NoFrame
  BY <1>0, <1>3 DEF TxKept
<1> QED
  BY <1>0, <1>1, <1>2, <1>3, <1>4, <1>5, ReceivedAsks

\* The flow control frame as an output, which the tester does not hear.
LEMMA OutIs ==
  ASSUME NEW c \in CtxT, NEW f, f \in [ty : {"CTS", "WT", "OVFLW"}, n : Nat]
  PROVE  LET d == [c EXCEPT !.out = f]
         IN /\ d \in CtxT /\ d.out = f /\ d.rx = c.rx /\ d.mf = c.mf /\ d.tx = c.tx /\ d.dcm = c.dcm
            /\ \A t \in TesterT : Hears(t, d.out) = t
<1>1. f \in Frame
  BY DEF Frame
<1>2. f.ty \in {"CTS", "WT", "OVFLW"}
  OBVIOUS
<1>3. \A t \in TesterT : Hears(t, f) = t
  BY <1>2, HearsNone
<1> DEFINE d == [c EXCEPT !.out = f]
<1>4. d \in CtxT /\ d.out = f /\ d.rx = c.rx /\ d.mf = c.mf /\ d.tx = c.tx /\ d.dcm = c.dcm
  BY <1>1, SetOut
<1> HIDE DEF d
<1> QED
  BY <1>3, <1>4 DEF d

\* The tester that has sent a flow control frame granting n frames.
Granting(s, fc, n) == [s EXCEPT !.credit = IF fc.fs = "CTS" THEN n ELSE 0]
Grant(fc) == IF fc.bs = 0 THEN MaxRes ELSE fc.bs

\* The tester after its flow control frame: it expects what it grants.
LEMMA GrantingIs ==
  ASSUME NEW s \in TesterT, NEW fc \in [fs : {"CTS", "WT", "OVFLW"}, bs : Nat, stmin : Nat]
  PROVE  LET n == Grant(fc)
             t == Granting(s, fc, n)
         IN /\ n \in Nat /\ t \in TesterT /\ t.st = s.st /\ t.got = s.got /\ t.num = s.num
            /\ t.sn = s.sn /\ t.credit = (IF fc.fs = "CTS" THEN n ELSE 0)
            /\ n > 0 /\ (fc.bs = 0 => n = MaxRes) /\ (fc.bs # 0 => n = fc.bs)
<1> DEFINE n == Grant(fc)
           g == IF fc.fs = "CTS" THEN n ELSE 0
           t == [s EXCEPT !.credit = g]
<1>1. n \in Nat /\ n > 0 /\ (fc.bs = 0 => n = MaxRes) /\ (fc.bs # 0 => n = fc.bs)
  BY TpAssumption DEF Grant
<1>2. Granting(s, fc, n) = t
  BY DEF Granting
<1> HIDE DEF n
<1>3. g \in Nat
  BY <1>1
<1>4. g = IF fc.fs = "CTS" THEN n ELSE 0
  OBVIOUS
<1> HIDE DEF g
<1>5. t \in TesterT /\ t.st = s.st /\ t.got = s.got /\ t.num = s.num /\ t.sn = s.sn /\ t.credit = g
  BY <1>3 DEF TesterT
<1> HIDE DEF t
<1> QED
  BY <1>1, <1>2, <1>4, <1>5 DEF n

\* The tester sends flow control.
LEMMA FcAsks ==
  ASSUME IndAsking, SendFc
  PROVE  IndAsking' /\ KeepsHeld
<1> DEFINE s == tester
           c == Context
<1>0. /\ s \in TesterT /\ s.st = "recv" /\ c \in CtxT /\ c.out = NoFrame /\ c.dcm = dcm
      /\ Asking(c, s) /\ Rested(c) /\ granted \in Nat
  BY ContextIs DEF IndAsking, TypesHold, SendFc
<1>1. PICK fc \in Grants :
        LET n == Grant(fc)
            t == Granting(s, fc, n)
            frame == [ty |-> fc.fs, n |-> n]
        IN \E e \in Lost([RxFc(Context, fc) EXCEPT !.out = frame]) : Becomes(e, t)
  BY DEF SendFc, Grant, Granting
<1> DEFINE n == Grant(fc)
           t == Granting(s, fc, n)
           frame == [ty |-> fc.fs, n |-> n]
           d == RxFc(c, fc)
           f == [d EXCEPT !.out = frame]
<1>2. fc \in [fs : {"CTS", "WT", "OVFLW"}, bs : Nat, stmin : Nat]
  BY TpAssumption
<1>3. PICK e \in Lost(f) : Becomes(e, t)
  BY <1>1
<1>4. n \in Nat /\ t \in TesterT /\ t.st = "recv"
  BY <1>0, <1>2, GrantingIs
<1>5. frame \in [ty : {"CTS", "WT", "OVFLW"}, n : Nat]
  BY <1>2, <1>4
<1> HIDE DEF n, t
<1>6. Asking(c, t) /\ Asking(d, t) /\ Rested(d) /\ d \in CtxT /\ d.out = c.out /\ d.dcm = c.dcm
  BY <1>0, <1>2, <1>4, AskingFc
<1> HIDE DEF d, frame
<1>7. /\ f \in CtxT /\ f.rx = d.rx /\ f.mf = d.mf /\ f.tx = d.tx /\ f.dcm = d.dcm
      /\ Hears(t, f.out) = t
  BY <1>4, <1>5, <1>6, OutIs
<1> HIDE DEF f
<1>8. Asking(f, t) /\ Rested(f)
  <2>1. R(f) = R(d) /\ F(f) = F(d) /\ X(f) = X(d)
    BY <1>7 DEF R, F, X
  <2> QED
    BY <1>6, <1>7, <2>1 DEF Asking, OneAtATime, Requesting, Copied, Rested
<1>9. /\ e \in CtxT /\ Asking(e, t) /\ Rested(e) /\ e.dcm = dcm
      /\ Hears(t, e.out) = t
  <2>1. Hears(t, NoFrame) = t
    BY <1>4, HearsNone DEF NoFrame
  <2> HIDE DEF c
  <2>2. e = f \/ e = c
    BY DEF Lost, c
  <2> QED
    BY <1>0, <1>6, <1>7, <1>8, <2>1, <2>2
<1>10. IndAsking'
  BY <1>0, <1>3, <1>4, <1>9, AskingBecomes
<1>11. dcm' = dcm
  BY <1>0, <1>3, <1>9, BecomesIs
<1> QED
  BY <1>10, <1>11 DEF KeepsHeld

\* The tester sends a functional request.
LEMMA FuncAsks ==
  ASSUME IndAsking, SendFunc
  PROVE  IndAsking' /\ KeepsHeld
<1> DEFINE t == tester
           c == Context
           d == RxSf(c, "func", <<2, 0>>)
<1>0. /\ t \in TesterT /\ c \in CtxT /\ c.out = NoFrame /\ c.dcm = dcm
      /\ Asking(c, t) /\ Rested(c) /\ granted \in Nat
  BY ContextIs DEF IndAsking, TypesHold
<1>1. Becomes(d, t)
  BY DEF SendFunc
<1> HIDE DEF c, t
<1>2. /\ Asking(d, t) /\ Rested(d) /\ d \in CtxT /\ d.out = c.out
      /\ d.dcm.flg["phys"] = c.dcm.flg["phys"]
  BY <1>0, AskingSfFunc
<1> HIDE DEF d
<1>3. Hears(t, d.out) = t
  BY <1>0, <1>2, HearsNone DEF NoFrame
<1>4. IndAsking'
  BY <1>0, <1>1, <1>2, <1>3, AskingBecomes
<1>5. dcm' = d.dcm
  BY <1>0, <1>1, <1>2, BecomesIs
<1> QED
  BY <1>0, <1>2, <1>4, <1>5 DEF KeepsHeld

\* The tester gives up.
LEMMA GiveUpAsks ==
  ASSUME IndAsking, GiveUp
  PROVE  IndAsking' /\ KeepsHeld
<1> DEFINE t == Quiet(tester.msg)
<1>1. t \in TesterT /\ t.st = "idle"
  <2>1. tester.msg \in Half
    BY DEF IndAsking, TypesHold, TesterT
  <2> QED
    BY <2>1, QuietIs
<1>2. tester' = t /\ Context' = Context /\ granted' = granted /\ dcm' = dcm
  BY DEF GiveUp, Context
<1> HIDE DEF t
<1>3. Asking(Context, t)
  BY <1>1, AskingQuiet DEF IndAsking
<1> QED
  BY <1>1, <1>2, <1>3 DEF IndAsking, TypesHold, KeepsHeld

\* Every step keeps the part of the request, and a held request held.
LEMMA NextAsks ==
  ASSUME IndAsking, [Next]_vars, ~FuncAnswered
  PROVE  IndAsking' /\ KeepsHeld
<1>1. CASE UNCHANGED vars
  BY <1>1 DEF vars, IndAsking, TypesHold, KeepsHeld, Context
<1>2. CASE Next
  BY <1>2, TickAsks, TakeAsks, AnswerAsks, SfAsks, FfAsks, CfAsks, FcAsks, FuncAsks, GiveUpAsks
     DEF Next
<1> QED
  BY <1>1, <1>2

\* It holds at the start.
LEMMA InitAsks == Init => IndAsking
<1> SUFFICES ASSUME Init PROVE IndAsking
  OBVIOUS
<1> DEFINE c == Context
<1>1. TypesHold
  BY InitTypes
<1>2. /\ R(c) = "IDLE" /\ F(c) = "IDLE" /\ X(c) = "IDLE" /\ c.dcm.idx = 0 /\ ~c.dcm.flg["phys"]
      /\ c.dcm.serving = "none" /\ tester.st = "idle"
  BY ContextIs, QuietIs DEF Init, R, F, X, Chan, Half
<1> HIDE DEF c
<1>3. Asking(c, tester) /\ Rested(c)
  BY <1>2 DEF Asking, Rested, OneAtATime, Requesting, Copied, Rcv, RxErr
<1> QED
  BY <1>1, <1>3 DEF IndAsking, c

\* A request that cantp has handed to the server (dcm_rx_indication sets its
\* flag) stays there until the main function takes it: no frame, lost or not,
\* no timeout and no restart of the tester takes it back.  Only an answered
\* functional request is left out, since dcm_main_function answers it with
\* whatever the other channel has.
THEOREM ServesAccepted ==
  ASSUME ~FuncAnswered
  PROVE  Spec => AcceptedServed
<1>1. Init => IndAsking
  BY InitAsks
<1>2. IndAsking /\ [Next]_vars => IndAsking'
  BY NextAsks
<1>3. IndAsking /\ [Next]_vars => [dcm.flg["phys"] /\ ~dcm'.flg["phys"] => dcm'.serving = "phys"]_vars
  BY NextAsks DEF KeepsHeld
<1> QED
  BY <1>1, <1>2, <1>3, PTL DEF Spec, AcceptedServed

\* The buffer that cantp hands to the server holds one whole message of the
\* tester from its first chunk to its last, and the length is that of the
\* message: lost frames, frames of a request given up and superseded requests
\* leave nothing behind in it.  Not so for a tester that restarts within the tick
\* of a sequence error (HastyRestart), whose first frame is appended.
THEOREM RequestsIntact ==
  ASSUME ~FuncAnswered, ~HastyRestart
  PROVE  Spec => []RequestIntact
<1>1. Init => IndAsking
  BY InitAsks
<1>2. IndAsking /\ [Next]_vars => IndAsking'
  BY NextAsks
<1>3. IndAsking => RequestIntact
  <2>1. ASSUME IndAsking, dcm.flg["phys"]
        PROVE  dcm.reqLen = Len(dcm.buf) /\ Whole(dcm.buf)
    BY <2>1, ContextIs DEF IndAsking, Asking, Copied
  <2> QED
    BY <2>1 DEF RequestIntact, Whole, Half
<1> QED
  BY <1>1, <1>2, <1>3, PTL DEF Spec
-----------------------------------------------------------------------------
(*****************************************************************************)
(* Responses: the tester gets them whole and in order, and no frame goes     *)
(* out that it has not granted. The invariant of the requests is extended    *)
(* by Sending: how far a response is (Responding), what the tester has of    *)
(* it (Collected), and that what may still be sent without asking is         *)
(* covered by the grant (Flowing). The tester tells frames apart by their    *)
(* numbers modulo SnMod, so that Collected says most where responses are     *)
(* Short.                                                                    *)
(*****************************************************************************)

\* A response being sent: how much of it, and what remains.
Responding(c, t) ==
  /\ X(c) \in TxRest => I(c) = 0
  /\ X(c) \in Active =>
       /\ I(c) = c.tx.cnt + 1 /\ c.tx.sn = c.tx.cnt % SnMod
       /\ c.tx.cnt <= c.tx.num /\ c.tx.num < MaxRes
       /\ X(c) \in Start => c.tx.cnt = 0
       /\ X(c) \in Flows \cup {"CF_CON"} => c.tx.cnt > 0
       /\ X(c) # "CF_CON_WAIT" => c.tx.cnt < c.tx.num
       /\ X(c) = "CF_CON_WAIT" => (c.tx.over <=> c.tx.cnt = c.tx.num)
  /\ t.st = "recv" => Len(t.got) > 0

\* No response is longer than a round of sequence numbers and its first frame.
Short == MaxRes <= SnMod + 1

\* What the tester has of it: no more than has been sent, and its start if the response is
\* short, or if the tester has missed nothing so far.
Collected(c, t) ==
  /\ Short \/ Len(t.got) = t.num => Whole(t.got)
  /\ t.st = "recv" =>
       /\ t.sn = Len(t.got) % SnMod /\ Len(t.got) < t.num
       /\ X(c) \in Active =>
            /\ t.num = c.tx.num + 1 /\ Len(t.got) <= c.tx.cnt + 1
            /\ Short \/ Len(t.got) = c.tx.cnt + 1 => MessageOf(c.dcm.res, t.got)

\* What has been granted is enough for what may be sent.
Enough(c, g) == /\ c.tx.bs = 0 => g >= c.tx.num - c.tx.cnt
                /\ c.tx.bs # 0 => g >= c.tx.bsCnt
\* Open: a frame may be sent; Overflow: the tester has refused, and it is not noticed yet.
Open(c, g) == Enough(c, g) /\ (c.tx.bs # 0 => c.tx.bsCnt > 0)
Overflow(c) == R(c) = "FC_IND" /\ c.mf.fs \notin {"CTS", "WT"}

\* What may be sent without asking is covered by the grant, and nothing has been granted
\* that the tester does not expect.
Flowing(c, t, g) ==
  /\ t.st = "recv" => g <= t.credit
  /\ t.st = "recv" /\ Len(t.got) = 1 /\ X(c) \in Active /\ c.tx.cnt > 0 => t.credit > 0
  /\ X(c) \in Flows /\ ~Overflow(c) => Enough(c, g)
  /\ X(c) = "CF_CON_CONTINUE" /\ c.tx.bs # 0 => c.tx.bsCnt > 0
  /\ R(c) = "FC_IND" /\ c.tx.bs # 0 => c.tx.bsCnt > 0
  /\ X(c) \in Start \cup {"CF_CON"} /\ R(c) = "FC_IND" /\ c.mf.fs = "CTS" => Open(c, g)
  /\ X(c) = "FC_IND" => Open(c, g)

\* All about the response.
Sending(c, t, g) ==
  /\ Responding(c, t)
  /\ Collected(c, t)
  /\ ~LateWait => Flowing(c, t, g)

\* A tester that hears nothing, or begins or ends something, keeps it.
LEMMA SendingTester ==
  ASSUME NEW c, NEW t, NEW g, Sending(c, t, g), NEW u,
         \/ u.got = t.got /\ u.num = t.num /\ u.st # "recv"
         \/ u.got = <<>> /\ u.st # "recv"
  PROVE  Sending(c, u, g)
<1>1. Responding(c, u)
  BY DEF Sending, Responding
<1>2. Collected(c, u)
  <2>1. Whole(<<>>)
    BY MessageEmpty DEF Whole, Half
  <2> QED
    BY <2>1 DEF Sending, Collected
<1>3. ~LateWait => Flowing(c, u, g)
  BY DEF Sending, Flowing
<1> QED
  BY <1>1, <1>2, <1>3 DEF Sending

\* The sender keeps its message, and moves within it or out of it.
Moves(c, d) ==
  /\ d.tx.cnt = c.tx.cnt /\ d.tx.num = c.tx.num /\ d.tx.sn = c.tx.sn /\ d.tx.over = c.tx.over
  /\ d.tx.bs = c.tx.bs /\ d.tx.bsCnt = c.tx.bsCnt /\ d.dcm.res = c.dcm.res
  /\ \/ X(d) = X(c) /\ I(d) = I(c)
     \/ X(d) \in TxRest /\ I(d) = 0
     \/ X(d) \in TxErr
     \/ X(c) \in TxRest /\ X(d) \in TxRest /\ I(d) = I(c)
     \/ /\ X(c) \in Active /\ X(d) \in Active \ {"CF_CON_WAIT"} /\ I(d) = I(c)
        /\ X(d) \in Start => X(c) \in Start
        /\ X(d) \in Flows \cup {"CF_CON"} => X(c) \in Flows \cup {"CF_CON"}
        /\ X(c) = "CF_CON_WAIT" => ~c.tx.over

\* A step of the sender that sends nothing keeps how far it is.
LEMMA RespondingMoves ==
  ASSUME NEW c \in CtxT, NEW d, NEW t, Moves(c, d), Responding(c, t)
  PROVE  Responding(d, t)
<1>0. c.tx.cnt \in Nat /\ c.tx.num \in Nat
  BY Parts DEF TxT
<1> QED
  BY <1>0 DEF Moves, Responding, TxRest, Active, Start, Flows, TxErr

\* And what the tester has of it.
LEMMA CollectedMoves ==
  ASSUME NEW c \in CtxT, NEW d, NEW t, Moves(c, d), Collected(c, t)
  PROVE  Collected(d, t)
BY DEF Moves, Collected, TxRest, Active, Start, Flows, TxErr

\* A frame of a request keeps it.
LEMMA SendingKept ==
  ASSUME NEW c \in CtxT, NEW d, TxKept(c, d), NEW t, NEW g, Sending(c, t, g)
  PROVE  Sending(d, t, g)
<1>1. Moves(c, d)
  BY DEF TxKept, Moves, TxRest
<1>2. Flowing(c, t, g) => Flowing(d, t, g)
  BY DEF TxKept, Flowing, Open, Enough, Overflow, Refused, X, Flows, Active, Start
<1> QED
  BY <1>1, <1>2, RespondingMoves, CollectedMoves DEF Sending

\* Quotient and remainder.
LEMMA DivMod ==
  ASSUME NEW b \in Nat \ {0}, NEW n \in Nat
  PROVE  n \div b \in Nat /\ n % b \in 0 .. b - 1 /\ n = b * (n \div b) + (n % b)
<1>1. n = b * (n \div b) + (n % b)
  OBVIOUS
<1>2. n % b >= 0 /\ n % b < b /\ n % b \in Int
  OBVIOUS
<1>3. n \div b \in Int /\ n \div b >= 0
  OBVIOUS
<1> QED
  BY <1>1, <1>2, <1>3

\* They are unique.
LEMMA Apart ==
  ASSUME NEW b \in Nat \ {0}, NEW p \in Int, NEW q \in Int, NEW r \in 0 .. b - 1, NEW s \in 0 .. b - 1,
         b * p + r = b * q + s
  PROVE  p = q /\ r = s
<1>1. b * (p - q) = s - r
  OBVIOUS
<1>2. CASE p - q >= 1
  <2>1. b * (p - q) >= b
    BY <1>2
  <2> QED
    BY <1>1, <2>1
<1>3. CASE p - q <= -1
  <2>1. b * (p - q) <= -b
    BY <1>3
  <2> QED
    BY <1>1, <2>1
<1>4. CASE p = q
  BY <1>1, <1>4
<1> QED
  BY <1>2, <1>3, <1>4

\* Counting on modulo b.
LEMMA ModNext ==
  ASSUME NEW b \in Nat \ {0}, NEW n \in Nat
  PROVE  ((n % b) + 1) % b = (n + 1) % b
<1> DEFINE r == n % b
           d == n \div b
           s == (r + 1) % b
           e == (r + 1) \div b
           u == (n + 1) % b
           f == (n + 1) \div b
<1>1. d \in Nat /\ r \in 0 .. b - 1 /\ n = b * d + r
  BY DivMod
<1> HIDE DEF r, d
<1>2. e \in Nat /\ s \in 0 .. b - 1 /\ r + 1 = b * e + s
  <2>1. r + 1 \in Nat
    BY <1>1
  <2> QED
    BY <2>1, DivMod
<1>3. f \in Nat /\ u \in 0 .. b - 1 /\ n + 1 = b * f + u
  <2>1. n + 1 \in Nat
    OBVIOUS
  <2> QED
    BY <2>1, DivMod
<1> HIDE DEF s, e, u, f
<1>4. b * (d + e) + s = b * f + u
  <2>1. b * (d + e) = b * d + b * e
    BY <1>1, <1>2
  <2> QED
    BY <1>1, <1>2, <1>3, <2>1
<1>5. s = u
  <2> DEFINE k == d + e
  <2>1. k \in Int /\ f \in Int /\ b * k + s = b * f + u
    BY <1>1, <1>2, <1>3, <1>4
  <2>2. \A p, q \in Int, v, w \in 0 .. b - 1 : b * p + v = b * q + w => v = w
    BY Apart
  <2> HIDE DEF k
  <2>3. \A v, w \in 0 .. b - 1 : b * k + v = b * f + w => v = w
    BY <2>1, <2>2, Zenon
  <2> QED
    BY <1>2, <1>3, <2>1, <2>3, Zenon
<1> QED
  BY <1>5 DEF s, u, r

\* Numbers of one round with the same remainder are the same.
LEMMA ModOne ==
  ASSUME NEW b \in Nat \ {0}, NEW m \in 1 .. b, NEW n \in 1 .. b, m % b = n % b
  PROVE  m = n
<1>1. m < b => m % b = m
  OBVIOUS
<1>2. m = b => m % b = 0
  OBVIOUS
<1>3. n < b => n % b = n
  OBVIOUS
<1>4. n = b => n % b = 0
  OBVIOUS
<1> QED
  BY <1>1, <1>2, <1>3, <1>4

\* Confirmations keep the part of the response.
LEMMA SendingConfirmed ==
  ASSUME NEW c \in CtxT, NEW d, Confirmed(c, d), Rested(c), NEW t, NEW g, Sending(c, t, g)
  PROVE  Sending(d, t, g) /\ Rested(d)
<1>0. Moves(c, d) /\ Rested(d)
  BY DEF Confirmed, Turn, Kept, Moves, Rested, TxRest, TxErr, Active, Start, Flows, R, F, X, I
<1>1. Responding(d, t)
  BY <1>0, RespondingMoves DEF Sending
<1>2. Collected(d, t)
  BY <1>0, CollectedMoves DEF Sending
<1>3. Flowing(c, t, g) => Flowing(d, t, g)
  <2> SUFFICES ASSUME Flowing(c, t, g) PROVE Flowing(d, t, g)
    OBVIOUS
  <2>1. /\ d.tx.cnt = c.tx.cnt /\ d.tx.num = c.tx.num /\ d.tx.bs = c.tx.bs /\ d.tx.bsCnt = c.tx.bsCnt
        /\ R(d) = "FC_IND" => R(c) = "FC_IND" /\ d.mf.fs = c.mf.fs
        /\ R(c) = "FC_IND" => R(d) = "FC_IND"
    BY DEF Confirmed, Turn, Kept, R, F, X, I
  <2>2. c.tx.bsCnt \in Nat
    BY Parts DEF TxT
  <2>3. \/ X(d) = X(c)
        \/ X(d) \in {"IDLE", "TX_CF_ERR"}
        \/ X(d) = "CF_CON" /\ X(c) = "CF_CON_WAIT" /\ c.tx.bs # 0 /\ c.tx.bsCnt = 0
        \/ /\ X(d) = "CF_CON_CONTINUE" /\ X(c) = "CF_CON_WAIT"
           /\ ~(c.tx.bs # 0 /\ c.tx.bsCnt = 0)
    BY DEF Confirmed, Turn, X
  <2>4. CASE X(d) = X(c)
    BY <2>1, <2>4 DEF Flowing, Open, Enough, Overflow
  <2>5. CASE X(d) \in {"IDLE", "TX_CF_ERR"}
    BY <2>1, <2>5 DEF Flowing, Open, Enough, Overflow, Active, Start, Flows
  <2>6. CASE X(d) = "CF_CON" /\ X(c) = "CF_CON_WAIT" /\ c.tx.bs # 0 /\ c.tx.bsCnt = 0
    <3>1. R(d) # "FC_IND"
      BY <2>1, <2>6 DEF Flowing
    <3> QED
      BY <2>1, <2>6, <3>1 DEF Flowing, Active, Start, Flows
  <2>7. CASE /\ X(d) = "CF_CON_CONTINUE" /\ X(c) = "CF_CON_WAIT"
             /\ ~(c.tx.bs # 0 /\ c.tx.bsCnt = 0)
    <3>1. Overflow(d) <=> Overflow(c)
      BY <2>1 DEF Overflow
    <3> QED
      BY <2>1, <2>2, <2>7, <3>1 DEF Flowing, Active, Start, Flows, Enough
  <2> QED
    BY <2>3, <2>4, <2>5, <2>6, <2>7
<1> QED
  BY <1>0, <1>1, <1>2, <1>3 DEF Sending

\* So does the receive state machine of the physical channel, which takes a
\* flow control frame that waits.
LEMMA SendingHeeded ==
  ASSUME NEW c \in CtxT, NEW d, Heeded(c, d), Rested(c), NEW t, NEW g, Sending(c, t, g)
  PROVE  Sending(d, t, g) /\ R(d) # "FC_IND"
<1>0. Moves(c, d) /\ R(d) # "FC_IND"
  BY DEF Heeded, Dropped, Turn, Kept, Moves, Rested, TxRest, TxErr, RxErr, Active, Start, Flows, R,
     F, X, I
<1>1. Responding(d, t)
  BY <1>0, RespondingMoves DEF Sending
<1>2. Collected(d, t)
  BY <1>0, CollectedMoves DEF Sending
<1>3. Flowing(c, t, g) => Flowing(d, t, g)
  BY <1>0 DEF Flowing, Heeded, Dropped, Turn, Kept, Rested, Open, Enough, Overflow, R, F, X, I, RxErr,
     Flows, Active, Start
<1> QED
  BY <1>0, <1>1, <1>2, <1>3 DEF Sending

\* So does that of the functional one.
LEMMA SendingFunc ==
  ASSUME NEW c \in CtxT, F(c) \in {"IDLE", "SF_IND", "SF_ERR", "FC_IND_WAIT"},
         R(c) # "FC_IND", NEW t, NEW g, Sending(c, t, g)
  PROVE  LET d == RxProcess(c, "func")
         IN Sending(d, t, g) /\ R(d) # "FC_IND"
<1> DEFINE d == RxProcess(c, "func")
<1>1. \/ Turn(c, d, R(c), F(c), X(c), I(c))
      \/ Turn(c, d, R(c), "IDLE", X(c), I(c))
  BY RxProcessFunc
<1> HIDE DEF d
<1>2. TxKept(c, d) /\ R(d) # "FC_IND"
  BY <1>1 DEF Turn, Kept, TxKept, R, F, X, I
<1> QED
  BY <1>2, SendingKept DEF d

\* What a frame grants.
LEMMA GrantedNone ==
  ASSUME NEW f, f.ty \in {"none", "FC", "SF"}
  PROVE  GrantedAfter(f) = granted
BY DEF GrantedAfter

\* A consecutive frame uses up one of those granted.
LEMMA GrantedCf ==
  ASSUME NEW f, f.ty = "CF"
  PROVE  GrantedAfter(f) = Down(granted)
BY DEF GrantedAfter

\* A frame that is sent leaves the sender where it should be.
LEMMA RespondingSent ==
  ASSUME NEW c \in CtxT, NEW d, Sent(c, d), X(c) \in {"FC_IND", "CF_CON_CONTINUE"},
         NEW t, Responding(c, t)
  PROVE  Responding(d, t)
<1>0. c.tx.cnt \in Nat /\ c.tx.num \in Nat /\ SnMod \in Nat \ {0}
  BY Parts, TpAssumption DEF TxT
<1>1. I(c) = c.tx.cnt + 1 /\ c.tx.sn = c.tx.cnt % SnMod /\ c.tx.cnt < c.tx.num /\ c.tx.num < MaxRes
  BY DEF Responding, Active, Flows
<1>2. CASE X(d) = "TX_CF_ERR"
  BY <1>2 DEF Responding, TxRest, Active, Start, Flows
<1>3. CASE X(d) = "CF_CON_WAIT" /\ I(d) = I(c) + 1
  <2>1. d.tx.sn = d.tx.cnt % SnMod
    <3>1. d.tx.sn = ((c.tx.cnt % SnMod) + 1) % SnMod /\ d.tx.cnt = c.tx.cnt + 1
      BY <1>1 DEF Sent
    <3> QED
      BY <1>0, <3>1, ModNext
  <2>2. /\ d.tx.cnt = c.tx.cnt + 1 /\ d.tx.num = c.tx.num
        /\ (d.tx.over <=> c.tx.cnt + 1 >= c.tx.num)
    BY DEF Sent
  <2>3. I(d) = d.tx.cnt + 1 /\ d.tx.cnt <= d.tx.num /\ d.tx.num < MaxRes /\ d.tx.cnt > 0
        /\ (d.tx.over <=> d.tx.cnt = d.tx.num)
    BY <1>0, <1>1, <1>3, <2>2
  <2> QED
    BY <1>3, <2>1, <2>3 DEF Responding, TxRest, Active, Start, Flows
<1> QED
  BY <1>2, <1>3 DEF Sent

\* A consecutive frame the tester takes is the next of the response.
LEMMA CollectedSent ==
  ASSUME NEW c \in CtxT, NEW d, Sent(c, d), X(c) \in {"FC_IND", "CF_CON_CONTINUE"},
         c.out = NoFrame,
         NEW t \in TesterT, Responding(c, t), Collected(c, t), NEW u \in {t, Hears(t, d.out)}
  PROVE  Collected(d, u)
<1>0. /\ c.tx.cnt \in Nat /\ c.tx.num \in Nat /\ SnMod \in Nat \ {0} /\ MaxRes \in Nat
      /\ c.dcm.res \in Half /\ c.dcm.res \in Nat
  BY Parts, TpAssumption DEF TxT, DcmT, Half
<1>1. /\ I(c) = c.tx.cnt + 1 /\ c.tx.sn = c.tx.cnt % SnMod /\ c.tx.cnt < c.tx.num
      /\ c.tx.num < MaxRes /\ X(c) \in Active
  BY DEF Responding, Active, Flows
<1>2. /\ d.tx.cnt = c.tx.cnt + 1 /\ d.tx.num = c.tx.num /\ d.dcm.res = c.dcm.res
      /\ d.tx.sn = (c.tx.cnt + 1) % SnMod /\ d.tx.sn \in Nat
  <2>1. d.tx.sn = ((c.tx.cnt % SnMod) + 1) % SnMod
    BY <1>1 DEF Sent
  <2>2. c.tx.cnt + 1 \in Nat
    BY <1>0
  <2>3. d.tx.cnt = c.tx.cnt + 1 /\ d.tx.num = c.tx.num /\ d.dcm.res = c.dcm.res
    BY DEF Sent
  <2>4. d.tx.sn = (c.tx.cnt + 1) % SnMod
    BY <1>0, <2>1, ModNext
  <2>5. d.tx.sn \in Nat
    BY <2>2, <2>4, ModIn
  <2> QED
    BY <2>3, <2>4, <2>5
<1>3. CASE u = t
  <2>1. t.got \in Chunks
    BY DEF TesterT
  <2>2. Len(t.got) \in Nat
    BY <2>1, LenProperties DEF Chunks
  <2>3. ASSUME t.st = "recv"
        PROVE  /\ t.num = c.tx.num + 1 /\ Len(t.got) <= c.tx.cnt + 1
               /\ Short => MessageOf(c.dcm.res, t.got)
               /\ t.sn = Len(t.got) % SnMod /\ Len(t.got) < t.num
    BY <1>1, <2>3 DEF Collected
  <2>4. Len(t.got) <= c.tx.cnt + 1 => Len(t.got) <= d.tx.cnt + 1 /\ Len(t.got) # d.tx.cnt + 1
    BY <1>0, <1>2, <2>2
  <2>5. Short \/ Len(t.got) = t.num => Whole(t.got)
    BY DEF Collected
  <2> QED
    BY <1>2, <1>3, <2>3, <2>4, <2>5 DEF Collected
<1>4. CASE u # t
  <2>0. t.msg \in Half /\ t.got \in Chunks /\ Len(t.got) \in Nat
    <3>1. t.got \in Chunks /\ t.msg \in Half
      BY DEF TesterT
    <3> QED
      BY <3>1, LenProperties DEF Chunks
  <2>1. d.out = [ty |-> "CF", sn |-> d.tx.sn, chunk |-> <<c.dcm.res, I(c)>>]
    <3>1. d.out # NoFrame
      BY <1>4, HearsNone DEF NoFrame
    <3> QED
      BY <3>1 DEF Sent
  <2> DEFINE f == d.out
             x == <<c.dcm.res, c.tx.cnt + 1>>
  <2>2. x \in Chunk
    BY <1>0 DEF Chunk
  <2>3. f \in [ty : {"CF"}, sn : Nat, chunk : Chunk] /\ f.sn = d.tx.sn /\ f.chunk = x
    BY <1>1, <1>2, <2>1, <2>2
  <2> HIDE DEF f
  <2>4. \/ u = Quiet(t.msg)
        \/ /\ t.st = "recv" /\ f.sn = t.sn
           /\ u \in TesterT /\ u.st \in {"idle", "recv"}
           /\ u.st = "idle" <=> Len(t.got) + 1 = t.num
           /\ u.sn = (t.sn + 1) % SnMod /\ u.got = Append(t.got, f.chunk)
           /\ u.num = t.num
    <3>1. u = Hears(t, f)
      BY <1>4 DEF f
    <3> QED
      BY <1>4, <2>3, <3>1, HearsCf
  <2>5. CASE u = Quiet(t.msg)
    <3>1. u.st = "idle" /\ u.got = <<>>
      BY <2>0, <2>5, QuietIs
    <3>2. Whole(<<>>)
      BY MessageEmpty DEF Whole, Half
    <3> QED
      BY <3>1, <3>2 DEF Collected
  <2>6. CASE /\ t.st = "recv" /\ f.sn = t.sn /\ u.st \in {"idle", "recv"}
             /\ u.st = "idle" <=> Len(t.got) + 1 = t.num
             /\ u.sn = (t.sn + 1) % SnMod /\ u.got = Append(t.got, x) /\ u.num = t.num
    <3>1. /\ Len(t.got) > 0 /\ t.sn = Len(t.got) % SnMod /\ t.num = c.tx.num + 1
          /\ Len(t.got) <= c.tx.cnt + 1 /\ Len(t.got) < t.num
          /\ Short \/ Len(t.got) = c.tx.cnt + 1 => MessageOf(c.dcm.res, t.got)
      BY <1>1, <2>6 DEF Responding, Collected
    <3>2. Short => Len(t.got) = c.tx.cnt + 1
      <4> SUFFICES ASSUME Short PROVE Len(t.got) = c.tx.cnt + 1
        OBVIOUS
      <4>1. Len(t.got) \in 1 .. SnMod /\ c.tx.cnt + 1 \in 1 .. SnMod
        BY <1>0, <1>1, <2>0, <3>1 DEF Short
      <4>2. Len(t.got) % SnMod = (c.tx.cnt + 1) % SnMod
        BY <1>2, <2>3, <2>6, <3>1
      <4> DEFINE m == Len(t.got)
                 n == c.tx.cnt + 1
      <4>3. m \in 1 .. SnMod /\ n \in 1 .. SnMod /\ m % SnMod = n % SnMod
        BY <4>1, <4>2
      <4> HIDE DEF m, n
      <4>4. m = n
        BY <1>0, <4>3, ModOne
      <4> QED
        BY <4>4 DEF m, n
    <3>3. /\ Len(u.got) = Len(t.got) + 1
          /\ Len(t.got) = c.tx.cnt + 1 => MessageOf(c.dcm.res, u.got)
      BY <1>0, <2>0, <2>2, <2>6, <3>1, MessageGrows
    <3>4. u.sn = Len(u.got) % SnMod
      BY <1>0, <2>0, <2>6, <3>1, <3>3, ModNext
    <3> DEFINE m == Len(t.got)
    <3>5. /\ m \in Nat /\ u.num = c.tx.num + 1 /\ t.num = u.num /\ Len(u.got) = m + 1
          /\ m <= c.tx.cnt + 1 /\ d.tx.cnt = c.tx.cnt + 1 /\ d.tx.num = c.tx.num
          /\ m < t.num /\ (u.st = "recv" => m + 1 # t.num)
      BY <1>2, <2>0, <2>6, <3>1, <3>3
    <3> HIDE DEF m
    <3>6. Len(u.got) = u.num => m = c.tx.cnt + 1
      BY <1>0, <1>1, <3>5
    <3>7. Short \/ Len(u.got) = u.num => Whole(u.got)
      BY <1>0, <3>2, <3>3, <3>6 DEF Whole, m
    <3>8. /\ u.num = d.tx.num + 1 /\ Len(u.got) <= d.tx.cnt + 1
          /\ Len(u.got) = d.tx.cnt + 1 => m = c.tx.cnt + 1
      BY <1>0, <3>5
    <3>9. Short \/ Len(u.got) = d.tx.cnt + 1 => MessageOf(c.dcm.res, u.got)
      BY <3>2, <3>3, <3>8 DEF m
    <3>10. u.st = "recv" => Len(u.got) < u.num
      BY <1>0, <3>5
    <3> QED
      BY <1>2, <3>4, <3>7, <3>8, <3>9, <3>10 DEF Collected
  <2> QED
    BY <2>3, <2>4, <2>5, <2>6
<1> QED
  BY <1>3, <1>4

\* A frame is sent within what has been granted, and uses up one of it.
LEMMA FlowingSent ==
  ASSUME NEW c \in CtxT, NEW d, Sent(c, d), X(c) \in {"FC_IND", "CF_CON_CONTINUE"},
         c.out = NoFrame, R(c) # "FC_IND", granted \in Nat,
         NEW t \in TesterT, Responding(c, t), Flowing(c, t, granted), NEW u \in {t, Hears(t, d.out)}
  PROVE  granted > 0 /\ Flowing(d, u, GrantedAfter(d.out))
<1>0. c.tx.cnt \in Nat /\ c.tx.num \in Nat /\ c.tx.bs \in Nat /\ c.tx.bsCnt \in Nat
  BY Parts DEF TxT
<1>00. t.credit \in Nat /\ t.got \in Chunks /\ Len(t.got) \in Nat /\ t.msg \in Half
  <2>1. t.got \in Chunks /\ t.msg \in Half /\ t.credit \in Nat
    BY DEF TesterT
  <2> QED
    BY <2>1, LenProperties DEF Chunks
<1>1. c.tx.cnt < c.tx.num
  BY DEF Responding, Active, Flows
<1>2. Enough(c, granted) /\ (c.tx.bs # 0 => c.tx.bsCnt > 0)
  BY DEF Flowing, Open, Overflow, Flows
<1>3. granted > 0
  BY <1>0, <1>1, <1>2 DEF Enough
<1>4. /\ d.tx.cnt = c.tx.cnt + 1 /\ d.tx.num = c.tx.num /\ d.tx.bs = c.tx.bs
      /\ d.tx.bsCnt = Down(c.tx.bsCnt) /\ R(d) # "FC_IND" /\ X(d) \in {"TX_CF_ERR", "CF_CON_WAIT"}
  BY DEF Sent, R
<1>5. CASE X(d) = "TX_CF_ERR" /\ d.out = c.out
  <2>1. u = t /\ GrantedAfter(d.out) = granted
    BY <1>5, HearsNone, GrantedNone DEF NoFrame
  <2> QED
    BY <1>3, <1>4, <1>5, <2>1 DEF Flowing, Active, Start, Flows
<1>6. CASE /\ X(d) = "CF_CON_WAIT"
           /\ d.out = [ty |-> "CF", sn |-> d.tx.sn, chunk |-> <<c.dcm.res, I(c)>>]
  <2> DEFINE g == GrantedAfter(d.out)
  <2>1. g = granted - 1
    BY <1>3, <1>6, GrantedCf, DownIs
  <2> HIDE DEF g
  <2>2. Enough(d, g)
    BY <1>0, <1>2, <1>3, <1>4, <2>1, DownIs DEF Enough
  <2>3. u.st = "recv" => g <= u.credit /\ (Len(u.got) = 1 => u.credit > 0)
    <3>1. CASE u = t
      BY <1>00, <1>3, <2>1, <3>1 DEF Flowing
    <3>2. CASE u # t
      <4>1. d.out \in [ty : {"CF"}, sn : Nat, chunk : Chunk]
        <5>1. d.tx.sn \in Nat /\ c.dcm.res \in Nat /\ I(c) \in Nat
          BY Parts DEF Sent, TxT, DcmT, Half, I
        <5> QED
          BY <1>6, <5>1 DEF Chunk
      <4> DEFINE f == d.out
      <4>2. u = Hears(t, f)
        BY <3>2
      <4>3. f \in [ty : {"CF"}, sn : Nat, chunk : Chunk] /\ f.chunk \in Chunk
        BY <4>1
      <4> HIDE DEF f
      <4>4. \/ u = Quiet(t.msg)
            \/ t.st = "recv" /\ u.credit = Down(t.credit) /\ u.got = Append(t.got, f.chunk)
        BY <3>2, <4>2, <4>3, HearsCf
      <4>5. CASE u = Quiet(t.msg)
        BY <1>00, <4>5, QuietIs
      <4>6. CASE t.st = "recv" /\ u.credit = Down(t.credit) /\ u.got = Append(t.got, f.chunk)
        <5>1. Len(t.got) > 0 /\ granted <= t.credit
          BY <4>6 DEF Responding, Flowing
        <5>2. Len(u.got) = Len(t.got) + 1
          BY <1>00, <4>3, <4>6, AppendProperties DEF Chunks
        <5>3. u.credit = t.credit - 1
          BY <1>00, <1>3, <4>6, <5>1, DownIs
        <5> QED
          BY <1>00, <2>1, <5>1, <5>2, <5>3
      <4> QED
        BY <4>4, <4>5, <4>6
    <3> QED
      BY <3>1, <3>2
  <2>4. Flowing(d, u, g)
    BY <1>4, <1>6, <2>2, <2>3 DEF Flowing, Start
  <2> QED
    BY <1>3, <2>4 DEF g
<1> QED
  BY <1>5, <1>6 DEF Sent

\* A state without flow control, of a sender that is not between frames.
LEMMA SendingDriven ==
  ASSUME NEW c \in CtxT, NEW d, Driven(c, d), c.out = NoFrame, R(c) # "FC_IND",
         NEW t \in TesterT, granted \in Nat, Sending(c, t, granted), NEW u \in {t, Hears(t, d.out)}
  PROVE  /\ Sending(d, u, GrantedAfter(d.out))
         /\ ~LateWait /\ d.tx.cnt > c.tx.cnt => granted > 0
<1>0. c.tx.cnt \in Nat /\ c.tx.num \in Nat
  BY Parts DEF TxT
<1>1. CASE ~(X(c) \in {"FC_IND", "CF_CON_CONTINUE"} /\ Sent(c, d))
           /\ ~(X(c) = "RECEIVER_FC_REQ" /\ Granted(c, d))
  <2>1. d.out = NoFrame /\ Moves(c, d) /\ R(d) # "FC_IND"
        /\ (X(d) = X(c) \/ X(d) \in TxErr \cup {"IDLE"} \/ (X(d) = "FF_CON" /\ X(c) = "FF_REQ"))
        /\ (X(d) = X(c) => X(c) # "FC_IND")
    BY <1>1 DEF Driven, Turn, Kept, Moves, TxRest, TxErr, Active, Start, Flows, R, F, X, I
  <2>2. u = t /\ GrantedAfter(d.out) = granted /\ d.tx.cnt = c.tx.cnt
    BY <2>1, HearsNone, GrantedNone DEF NoFrame, Moves
  <2>3. Responding(d, t) /\ Collected(d, t)
    BY <2>1, RespondingMoves, CollectedMoves DEF Sending
  <2>4. Flowing(c, t, granted) => Flowing(d, t, granted)
    BY <2>1 DEF Flowing, Moves, Enough, Overflow, TxErr, Active, Start, Flows
  <2> QED
    BY <1>0, <2>2, <2>3, <2>4 DEF Sending
<1>2. CASE X(c) \in {"FC_IND", "CF_CON_CONTINUE"} /\ Sent(c, d)
  <2>1. u.st = "recv" => Len(u.got) > 0
    <3>1. t.msg \in Half /\ t.got \in Chunks
      BY DEF TesterT
    <3>2. CASE u = t
      BY <3>2 DEF Sending, Responding
    <3>3. CASE u # t
      <4>1. d.out # NoFrame
        BY <3>3, HearsNone DEF NoFrame
      <4>2. d.out = [ty |-> "CF", sn |-> d.tx.sn, chunk |-> <<c.dcm.res, I(c)>>] /\ d \in CtxT
        BY <1>2, <4>1 DEF Sent
      <4>3. d.tx.sn \in Nat /\ c.dcm.res \in Nat /\ I(c) \in Nat
        BY <4>2, Parts DEF TxT, DcmT, Half, I
      <4> DEFINE f == d.out
      <4>4. f \in [ty : {"CF"}, sn : Nat, chunk : Chunk] /\ f.chunk \in Chunk /\ u = Hears(t, f)
        BY <3>3, <4>2, <4>3 DEF Chunk
      <4> HIDE DEF f
      <4>5. u = Quiet(t.msg) \/ u.got = Append(t.got, f.chunk)
        BY <3>3, <4>4, HearsCf
      <4>6. Len(Append(t.got, f.chunk)) = Len(t.got) + 1 /\ Len(t.got) \in Nat
        BY <3>1, <4>4, AppendProperties, LenProperties DEF Chunks
      <4> QED
        BY <3>1, <4>5, <4>6, QuietIs
    <3> QED
      BY <3>2, <3>3
  <2>2. Responding(d, u)
    <3>1. Responding(d, t)
      BY <1>2, RespondingSent DEF Sending
    <3> QED
      BY <2>1, <3>1 DEF Responding
  <2>3. Collected(d, u)
    BY <1>2, CollectedSent DEF Sending
  <2>4. ~LateWait => granted > 0 /\ Flowing(d, u, GrantedAfter(d.out))
    BY <1>2, FlowingSent DEF Sending
  <2> QED
    BY <2>2, <2>3, <2>4 DEF Sending
<1>3. CASE X(c) = "RECEIVER_FC_REQ" /\ Granted(c, d)
  <2>1. d.out \in [ty : {"FC"}, bs : Nat] /\ R(d) = R(c) /\ d.dcm = c.dcm /\ d.mf = c.mf
    <3>1. c.tx.bs \in Nat
      BY Parts DEF TxT
    <3> QED
      BY <1>3, <3>1 DEF Granted, R
  <2>2. /\ X(d) = "CF_WAIT" /\ d.tx.cnt = c.tx.cnt /\ d.tx.num = c.tx.num /\ d.tx.sn = c.tx.sn
        /\ d.tx.over = c.tx.over /\ d.tx.bs = c.tx.bs /\ d.tx.bsCnt = c.tx.bsCnt
    BY <1>3, Parts DEF Granted, TxT, X
  <2>3. Moves(c, d)
    BY <1>3, <2>1, <2>2 DEF Moves, TxRest, I
  <2>4. Responding(d, t) /\ Collected(d, t)
    BY <2>3, RespondingMoves, CollectedMoves DEF Sending
  <2>5. Flowing(c, t, granted) => Flowing(d, t, granted)
    BY <2>1, <2>2 DEF Flowing, Active, Start, Flows
  <2>6. Sending(d, t, granted)
    BY <2>4, <2>5 DEF Sending
  <2>7. GrantedAfter(d.out) = granted
    BY <2>1, GrantedNone
  <2>8. u = t \/ (u.st = "send" /\ u.got = t.got /\ u.num = t.num)
    BY <2>1, HearsFc
  <2>9. Sending(d, u, granted)
    BY <2>6, <2>8, SendingTester
  <2> QED
    BY <1>0, <2>2, <2>7, <2>9
<1> QED
  BY <1>1, <1>2, <1>3

\* The tick keeps what is sent, and sends no frame that is not granted.
LEMMA SendingTick ==
  ASSUME NEW c \in CtxT, c.out = NoFrame, NEW t \in TesterT, Asking(c, t), Rested(c),
         granted \in Nat, Sending(c, t, granted),
         NEW d, d = TxProcess(RxProcess(RxProcess(Timers(c), "phys"), "func")),
         NEW u \in {t, Hears(t, d.out)}
  PROVE  /\ Sending(d, u, GrantedAfter(d.out))
         /\ ~LateWait /\ d.tx.cnt > c.tx.cnt => granted > 0
<1> DEFINE a == Timers(c)
           b == RxProcess(a, "phys")
           e == RxProcess(b, "func")
<1>1. /\ Asking(a, t) /\ Rested(a) /\ a \in CtxT /\ a.out = NoFrame /\ Sending(a, t, granted)
      /\ a.tx.cnt = c.tx.cnt
  <2>1. Confirmed(c, a)
    BY TimersIs
  <2> HIDE DEF a
  <2>2. a.out = c.out /\ a.tx.cnt = c.tx.cnt
    BY <2>1 DEF Confirmed, Turn, Kept
  <2> QED
    BY <2>1, <2>2, AskingConfirmed, SendingConfirmed
<1>d. d = TxProcess(e)
  OBVIOUS
<1> HIDE DEF a
<1>2. /\ Asking(b, t) /\ b \in CtxT /\ b.out = NoFrame /\ Sending(b, t, granted)
      /\ R(b) # "FC_IND" /\ b.tx.cnt = c.tx.cnt
  <2>1. Heeded(a, b)
    BY <1>1, RxProcessPhys
  <2> HIDE DEF b
  <2>2. b.out = a.out /\ b.tx.cnt = a.tx.cnt
    BY <2>1 DEF Heeded, Dropped, Turn, Kept
  <2> QED
    BY <1>1, <2>1, <2>2, AskingHeeded, SendingHeeded
<1> HIDE DEF b
<1>3. e \in CtxT /\ e.out = NoFrame /\ Sending(e, t, granted) /\ R(e) # "FC_IND"
      /\ e.tx.cnt = c.tx.cnt
  <2>0. F(b) \in {"IDLE", "SF_IND", "SF_ERR", "FC_IND_WAIT"}
    BY <1>2 DEF Asking, OneAtATime
  <2>1. \/ Turn(b, e, R(b), F(b), X(b), I(b))
        \/ Turn(b, e, R(b), "IDLE", X(b), I(b))
    BY <1>2, <2>0, RxProcessFunc
  <2>2. Sending(e, t, granted) /\ R(e) # "FC_IND"
    BY <1>2, <2>0, SendingFunc
  <2> HIDE DEF e
  <2>3. e \in CtxT /\ e.out = b.out /\ e.tx.cnt = b.tx.cnt
    BY <2>1 DEF Turn, Kept
  <2> QED
    BY <1>2, <2>2, <2>3
<1> HIDE DEF e
<1>4. Driven(e, d)
  BY <1>3, <1>d, TxProcessIs
<1> QED
  BY <1>3, <1>4, SendingDriven

\* The invariant of all, and what no step does.
IndSending == IndAsking /\ Sending(Context, tester, granted)
KeepsGranted == ~LateWait /\ tx'.cnt > tx.cnt => granted > 0

\* It is a matter of the sender, the state of the receiver and the response.
LEMMA SendingSame ==
  ASSUME NEW c \in CtxT, NEW d, d.tx = c.tx, d.mf = c.mf, R(d) = R(c), I(d) = I(c),
         d.dcm.res = c.dcm.res, NEW t, NEW g, Sending(c, t, g)
  PROVE  Sending(d, t, g)
<1>1. Moves(c, d)
  BY DEF Moves, X
<1>2. Flowing(c, t, g) => Flowing(d, t, g)
  BY DEF Flowing, Open, Enough, Overflow, X
<1> QED
  BY <1>1, <1>2, RespondingMoves, CollectedMoves DEF Sending

\* A step that becomes c keeps it, if c does.
LEMMA SendingBecomes ==
  ASSUME NEW c \in CtxT, NEW t, Becomes(c, t), granted \in Nat,
         \A u \in {t, Hears(t, c.out)} : Sending(c, u, GrantedAfter(c.out))
  PROVE  Sending(Context', tester', granted')
<1> DEFINE d == Bare(c)
<1>1. Context' = d /\ tester' \in {t, Hears(t, c.out)} /\ granted' = GrantedAfter(c.out)
  BY BecomesIs
<1>2. d.tx = c.tx /\ d.mf = c.mf /\ R(d) = R(c) /\ I(d) = I(c) /\ d.dcm = c.dcm
  BY BareIs
<1> HIDE DEF d
<1>3. Sending(c, tester', granted')
  BY <1>1
<1>4. Sending(d, tester', granted')
  BY <1>2, <1>3, SendingSame
<1> QED
  BY <1>1, <1>4

\* A tick sends no frame beyond the grant.
LEMMA TickSends ==
  ASSUME IndSending, Tick
  PROVE  Sending(Context', tester', granted') /\ KeepsGranted
<1> DEFINE c == Context
           d == TxProcess(RxProcess(RxProcess(Timers(c), "phys"), "func"))
<1>1. c \in CtxT /\ c.out = NoFrame /\ tester \in TesterT /\ granted \in Nat
      /\ Asking(c, tester) /\ Rested(c) /\ c.tx = tx /\ Sending(c, tester, granted)
  BY ContextIs DEF IndSending, IndAsking, TypesHold
<1>2. Becomes(d, tester)
  BY DEF Tick
<1>3. ASSUME NEW u \in {tester, Hears(tester, d.out)}
      PROVE  /\ d \in CtxT /\ Sending(d, u, GrantedAfter(d.out))
             /\ ~LateWait /\ d.tx.cnt > c.tx.cnt => granted > 0
  BY <1>1, <1>3, AskingTick, SendingTick
<1>4. d \in CtxT /\ (~LateWait /\ d.tx.cnt > c.tx.cnt => granted > 0)
  BY <1>3
<1> HIDE DEF d, c
<1>5. Sending(Context', tester', granted')
  BY <1>1, <1>2, <1>3, <1>4, SendingBecomes
<1>6. tx' = d.tx
  BY <1>1, <1>2, <1>4, BecomesIs
<1> QED
  BY <1>1, <1>4, <1>5, <1>6 DEF KeepsGranted

\* Nothing but the tick sends a frame of a response beyond the first.
LEMMA NoFrameSent ==
  ASSUME TypesHold, tx'.cnt = tx.cnt
  PROVE  KeepsGranted
<1>1. tx.cnt \in Nat
  BY ContextIs, Parts DEF TypesHold, TxT
<1> QED
  BY <1>1 DEF KeepsGranted

\* The server takes a request.
LEMMA TakeSends ==
  ASSUME IndSending, Take
  PROVE  Sending(Context', tester', granted') /\ KeepsGranted
<1> DEFINE c == Context
           d == Context'
<1>1. c \in CtxT /\ Sending(c, tester, granted) /\ c.rx = rx /\ c.mf = mf /\ c.tx = tx /\ c.dcm = dcm
  BY ContextIs DEF IndSending, IndAsking, TypesHold
<1>2. PICK h \in Chan :
        /\ dcm' = [dcm EXCEPT !.serving = h, !.flg[h] = FALSE]
        /\ rx' = rx /\ mf' = mf /\ tx' = tx /\ tester' = tester /\ granted' = granted
  BY DEF Take
<1>3. dcm'.res = dcm.res /\ dcm'.txIdx = dcm.txIdx
  BY <1>1, <1>2, Parts DEF DcmT
<1>4. d.rx = rx /\ d.mf = mf /\ d.tx = tx /\ d.dcm = dcm'
  BY <1>2, ContextIs
<1> HIDE DEF c, d
<1>5. Sending(d, tester, granted)
  BY <1>1, <1>3, <1>4, SendingSame DEF R, I
<1>6. KeepsGranted
  BY <1>2, NoFrameSent DEF IndSending, IndAsking
<1> QED
  BY <1>2, <1>5, <1>6 DEF d

\* The response begins.
LEMMA SendingAnswered ==
  ASSUME NEW c \in CtxT, NEW t \in TesterT, Asking(c, t), Rested(c), c.dcm.serving = "phys",
         Sending(c, t, granted),
         NEW n \in 1 .. MaxRes, NEW d, d = Transmit(Served(c), n), NEW u \in {t, Hears(t, d.out)}
  PROVE  /\ Sending(d, u, GrantedAfter(d.out)) /\ d \in CtxT
         /\ d.tx.cnt = c.tx.cnt \/ d.tx.cnt = 0
<1> DEFINE e == Served(c)
<1>0. /\ e \in CtxT /\ e.rx = c.rx /\ e.mf = c.mf /\ e.tx = c.tx /\ I(e) = I(c)
      /\ e.dcm.res \in Half /\ e.dcm.res \in Nat
  BY ServedIs DEF Half
<1>1. /\ t.st # "recv" /\ R(c) # "FC_IND" /\ X(c) \in TxRest /\ I(e) = 0
      /\ n \in Nat \ {0} /\ n <= MaxRes /\ MaxRes \in Nat
  BY <1>0, TpAssumption DEF Asking, OneAtATime, Sending, Responding
<1>d. d = Transmit(e, n)
  OBVIOUS
<1> HIDE DEF e
<1>2. /\ d \in CtxT /\ d.rx = e.rx /\ d.mf = e.mf /\ d.dcm.res = e.dcm.res
      /\ \/ X(d) = "IDLE" /\ I(d) = 0 /\ d.tx.cnt = e.tx.cnt /\ d.out = [ty |-> "SF"]
         \/ /\ n > 1 /\ X(d) = "FF_REQ" /\ I(d) = 1
            /\ d.tx.sn = 0 /\ d.tx.cnt = 0 /\ d.tx.num = n - 1
            /\ d.out = [ty |-> "FF", num |-> n, chunk |-> <<e.dcm.res, 0>>]
  BY <1>0, <1>1, <1>d, TransmitIs
<1>3. R(d) # "FC_IND"
  BY <1>0, <1>1, <1>2 DEF R
<1>f. d.out \in Frame /\ (Short \/ Len(t.got) = t.num => Whole(t.got)) /\ Whole(<<>>)
  BY <1>2, Parts, MessageEmpty DEF Sending, Collected, Whole, Half
<1>4. CASE X(d) = "IDLE" /\ I(d) = 0 /\ d.tx.cnt = e.tx.cnt /\ d.out = [ty |-> "SF"]
  <2>1. d.out.ty = "SF"
    BY <1>4
  <2>2. u.st # "recv" /\ ((u.got = t.got /\ u.num = t.num) \/ u.got = <<>>)
    BY <1>1, <1>f, <2>1, HearsStart
  <2>3. Responding(d, u)
    BY <1>4, <2>2 DEF Responding, Active, Start, Flows
  <2>4. Collected(d, u)
    BY <1>f, <2>2 DEF Collected
  <2>5. Flowing(d, u, granted)
    BY <1>3, <1>4, <2>2 DEF Flowing, Active, Start, Flows
  <2>6. GrantedAfter(d.out) = granted
    BY <2>1, GrantedNone
  <2> QED
    BY <1>0, <1>2, <1>4, <2>3, <2>4, <2>5, <2>6 DEF Sending
<1>5. CASE /\ n > 1 /\ X(d) = "FF_REQ" /\ I(d) = 1
           /\ d.tx.sn = 0 /\ d.tx.cnt = 0 /\ d.tx.num = n - 1
           /\ d.out = [ty |-> "FF", num |-> n, chunk |-> <<e.dcm.res, 0>>]
  <2> DEFINE x == <<e.dcm.res, 0>>
             y == <<x>>
  <2>1. d.out.ty = "FF" /\ d.out.num = n /\ d.out.chunk = x
    BY <1>5
  <2>2. Len(y) = 1 /\ MessageOf(e.dcm.res, y) /\ Whole(y)
    BY <1>0, MessageStarts DEF Whole
  <2> HIDE DEF x
  <2>3. \/ u = t
        \/ u.st = "recv" /\ u.num = n /\ u.sn = 1 % SnMod /\ u.got = y /\ u.credit = 0
    BY <1>f, <2>1, HearsStart
  <2> HIDE DEF y
  <2>4. 0 = 0 % SnMod
    BY TpAssumption
  <2>5. Responding(d, u)
    <3>1. d.tx.cnt <= d.tx.num /\ d.tx.num < MaxRes /\ d.tx.cnt < d.tx.num
      <4>1. d.tx.cnt = 0 /\ d.tx.num = n - 1 /\ n > 1
        BY <1>5
      <4> QED
        BY <1>1, <4>1
    <3>2. u.st = "recv" => Len(u.got) > 0
      <4>1. u.st = "recv" => u.got = y
        BY <1>1, <2>3
      <4>2. Len(y) > 0
        BY <2>2
      <4> QED
        BY <4>1, <4>2
    <3> QED
      BY <1>5, <2>4, <3>1, <3>2 DEF Responding, TxRest, Active, Start, Flows
  <2>6. Collected(d, u)
    <3>1. CASE u = t
      BY <1>1, <1>f, <3>1 DEF Collected
    <3>2. CASE u.num = n /\ u.sn = 1 % SnMod /\ u.got = y
      <4>1. n = d.tx.num + 1 /\ Len(y) <= d.tx.cnt + 1
        BY <1>1, <1>5, <2>2
      <4>2. Len(u.got) = 1 /\ MessageOf(d.dcm.res, u.got) /\ Whole(u.got)
        BY <1>2, <2>2, <3>2
      <4> QED
        BY <1>5, <2>2, <3>2, <4>1, <4>2 DEF Collected
    <3> QED
      BY <2>3, <3>1, <3>2
  <2>7. GrantedAfter(d.out) = 0
    BY <2>1 DEF GrantedAfter
  <2>8. Flowing(d, u, 0)
    BY <1>1, <1>3, <1>5, <2>3 DEF Flowing, Start, Flows
  <2> QED
    BY <1>2, <1>5, <2>5, <2>6, <2>7, <2>8 DEF Sending
<1> QED
  BY <1>2, <1>4, <1>5

\* The server answers: a response begins.
LEMMA AnswerSends ==
  ASSUME IndSending, Answer, ~FuncAnswered
  PROVE  Sending(Context', tester', granted') /\ KeepsGranted
<1> DEFINE c == Context
<1>1. c \in CtxT /\ c.out = NoFrame /\ tester \in TesterT /\ granted \in Nat /\ TypesHold
      /\ Asking(c, tester) /\ Rested(c) /\ c.dcm = dcm /\ c.tx = tx /\ Sending(c, tester, granted)
  BY ContextIs DEF IndSending, IndAsking, TypesHold
<1>2. CASE Becomes([c EXCEPT !.dcm.serving = "none"], tester)
  <2> DEFINE d == [c EXCEPT !.dcm.serving = "none"]
  <2> HIDE DEF c
  <2>1. Rested(d) /\ d \in CtxT /\ d.out = c.out
    BY <1>1, AskingUnanswered
  <2>2. Becomes(d, tester)
    BY <1>2
  <2>3. d.rx = c.rx /\ d.tx = c.tx /\ d.mf = c.mf /\ I(d) = I(c) /\ d.dcm.res = c.dcm.res
    BY <1>1, Parts DEF CtxT, DcmT, I
  <2> HIDE DEF d
  <2>4. Sending(d, tester, granted)
    BY <1>1, <2>3, SendingSame DEF R
  <2>5. Hears(tester, d.out) = tester /\ GrantedAfter(d.out) = granted
    BY <1>1, <2>1, HearsNone, GrantedNone DEF NoFrame
  <2>6. Sending(Context', tester', granted')
    BY <1>1, <2>1, <2>2, <2>4, <2>5, SendingBecomes
  <2>7. tx' = d.tx
    BY <1>1, <2>1, <2>2, BecomesIs
  <2>8. KeepsGranted
    BY <1>1, <2>3, <2>7, NoFrameSent
  <2> QED
    BY <2>6, <2>8
<1>3. CASE /\ dcm.serving = "func" => FuncAnswered
           /\ \E n \in 1 .. MaxRes : Becomes(Transmit(Served(c), n), tester)
  <2>1. PICK n \in 1 .. MaxRes : Becomes(Transmit(Served(c), n), tester)
    BY <1>3
  <2>2. c.dcm.serving = "phys"
    <3>1. c.dcm.serving \in Server
      BY <1>1, Parts DEF DcmT
    <3> QED
      BY <1>1, <1>3, <3>1 DEF Server, Answer
  <2> DEFINE d == Transmit(Served(c), n)
  <2> HIDE DEF c
  <2>3. ASSUME NEW u \in {tester, Hears(tester, d.out)}
        PROVE  /\ Sending(d, u, GrantedAfter(d.out)) /\ d \in CtxT
               /\ d.tx.cnt = c.tx.cnt \/ d.tx.cnt = 0
    BY <1>1, <2>2, <2>3, SendingAnswered
  <2>4. d \in CtxT /\ (d.tx.cnt = c.tx.cnt \/ d.tx.cnt = 0)
    BY <2>3
  <2>5. Becomes(d, tester)
    BY <2>1
  <2> HIDE DEF d
  <2>6. Sending(Context', tester', granted')
    BY <1>1, <2>3, <2>4, <2>5, SendingBecomes
  <2>7. tx' = d.tx
    BY <1>1, <2>4, <2>5, BecomesIs
  <2>8. tx.cnt \in Nat
    BY <1>1, Parts DEF TxT
  <2>9. KeepsGranted
    BY <1>1, <2>4, <2>7, <2>8 DEF KeepsGranted
  <2> QED
    BY <2>6, <2>9
<1> QED
  BY <1>2, <1>3 DEF Answer, Served

\* A frame of a request, received or lost.
LEMMA ReceivedSends ==
  ASSUME IndSending, NEW d, NEW t \in TesterT, TxKept(Context, d), Sending(Context, t, granted),
         NEW c \in Lost(d), Becomes(c, t)
  PROVE  Sending(Context', tester', granted') /\ KeepsGranted
<1>0. Context \in CtxT /\ Context.out = NoFrame /\ granted \in Nat /\ Context.tx = tx /\ TypesHold
  BY ContextIs DEF IndSending, IndAsking, TypesHold
<1>1. TxKept(Context, c)
  BY <1>0, Same DEF Lost
<1>2. c \in CtxT /\ c.out = NoFrame /\ c.tx.cnt = tx.cnt
  BY <1>0, <1>1 DEF TxKept
<1>3. Sending(c, t, granted)
  BY <1>0, <1>1, SendingKept
<1>4. Hears(t, c.out) = t /\ GrantedAfter(c.out) = granted
  BY <1>2, HearsNone, GrantedNone DEF NoFrame
<1>5. Sending(Context', tester', granted')
  BY <1>0, <1>2, <1>3, <1>4, SendingBecomes
<1>6. tx' = c.tx
  BY <1>0, <1>2, BecomesIs
<1> QED
  BY <1>0, <1>2, <1>5, <1>6, NoFrameSent

\* The tester sends a request of one frame.
LEMMA SfSends ==
  ASSUME IndSending, SendSf
  PROVE  Sending(Context', tester', granted') /\ KeepsGranted
<1> DEFINE t == Requested("wait", 1)
           d == RxSf(Context, "phys", <<t.msg, 0>>)
<1>1. Begins(Context, tester)
  BY RequestBegins DEF SendSf, IndSending
<1>2. t \in TesterT /\ t.st = "wait" /\ t.got = <<>>
  <2>1. "wait" \in St /\ tester \in TesterT /\ 1 \in Nat
    BY DEF St, IndSending, IndAsking, TypesHold
  <2> QED
    BY <2>1, RequestedIs
<1>3. PICK c \in Lost(d) : Becomes(c, t)
  BY DEF SendSf
<1> HIDE DEF t
<1>4. TxKept(Context, d)
  BY <1>1, <1>2, AskingSf
<1>5. Sending(Context, t, granted)
  BY <1>2, SendingTester DEF IndSending
<1> QED
  BY <1>2, <1>3, <1>4, <1>5, ReceivedSends

\* The tester sends the first frame of a longer one.
LEMMA FfSends ==
  ASSUME IndSending, SendFf
  PROVE  Sending(Context', tester', granted') /\ KeepsGranted
<1>1. Begins(Context, tester)
  BY RequestBegins DEF SendFf, IndSending
<1>2. PICK len \in 2 .. MaxReq :
        LET t == Requested("waitFC", len)
        IN \E c \in Lost(RxFf(Context, len, <<t.msg, 0>>)) : Becomes(c, t)
  BY DEF SendFf
<1> DEFINE t == Requested("waitFC", len)
           d == RxFf(Context, len, <<t.msg, 0>>)
<1>3. t \in TesterT /\ t.st = "waitFC" /\ t.len = len /\ t.len > 1 /\ t.k = 1 /\ t.got = <<>>
  <2>1. "waitFC" \in St /\ tester \in TesterT /\ len \in Nat /\ len > 1
    BY TpAssumption DEF St, IndSending, IndAsking, TypesHold
  <2> QED
    BY <2>1, RequestedIs
<1>4. PICK c \in Lost(d) : Becomes(c, t)
  BY <1>2
<1>d. d = RxFf(Context, t.len, <<t.msg, 0>>)
  BY <1>3
<1> HIDE DEF t
<1>6. TxKept(Context, d)
  <2> DEFINE e == RxFf(Context, t.len, <<t.msg, 0>>)
  <2>1. TxKept(Context, e)
    BY <1>1, <1>3, AskingFf
  <2>2. d = e
    BY <1>d
  <2> HIDE DEF d, e
  <2> QED
    BY <2>1, <2>2
<1>7. Sending(Context, t, granted)
  BY <1>3, SendingTester DEF IndSending
<1> QED
  BY <1>3, <1>4, <1>6, <1>7, ReceivedSends

\* The tester sends a consecutive frame.
LEMMA CfSends ==
  ASSUME IndSending, SendCf
  PROVE  Sending(Context', tester', granted') /\ KeepsGranted
<1> DEFINE s == tester
           t == After(s)
           c == Context
           x == <<s.msg, s.k>>
           n == s.k % SnMod
           d == RxCf(c, n, x)
<1>0. /\ s \in TesterT /\ s.st = "send" /\ s.credit > 0
      /\ c \in CtxT /\ Asking(c, s) /\ Rested(c)
  BY DEF IndSending, IndAsking, TypesHold, SendCf
<1>1. /\ t \in TesterT /\ t.k = s.k + 1 /\ t.len = s.len /\ t.msg = s.msg /\ t.got = s.got
      /\ t.num = s.num
      /\ t.st = IF s.k + 1 = s.len THEN "wait" ELSE "send"
  BY <1>0, AfterIs
<1>2. PICK e \in Lost(d) : Becomes(e, t)
  BY DEF SendCf, After
<1> HIDE DEF t
<1>3. TxKept(c, d)
  BY <1>0, <1>1, AskingCf
<1>4. Sending(c, t, granted)
  BY <1>1, SendingTester DEF IndSending
<1> HIDE DEF d
<1> QED
  BY <1>1, <1>2, <1>3, <1>4, ReceivedSends

\* A positive number is one or more than one.
LEMMA OneOrMore == \A n \in Nat : n > 0 /\ ~(n > 1) => n = 1
  OBVIOUS

\* A flow control frame grants what the sender may then send.
LEMMA SendingFc ==
  ASSUME NEW c \in CtxT, NEW s \in TesterT, NEW g \in Nat, Sending(c, s, g), Rested(c),
         s.st = "recv", s.credit = 0,
         NEW fc \in [fs : {"CTS", "WT", "OVFLW"}, bs : Nat, stmin : Nat],
         fc.fs = "WT" /\ Len(s.got) > 1 => LateWait,
         NEW n, n = Grant(fc), NEW t, t = Granting(s, fc, n),
         NEW h, h = IF fc.fs = "CTS" THEN n ELSE 0
  PROVE  /\ Sending(c, t, g)
         /\ LET d == RxFc(c, fc)
            IN Sending(d, t, h) /\ d \in CtxT /\ d.tx.cnt = c.tx.cnt
<1> DEFINE d == RxFc(c, fc)
<1>0. /\ c.tx.cnt \in Nat /\ c.tx.num \in Nat /\ c.tx.bs \in Nat /\ c.tx.bsCnt \in Nat
      /\ MaxRes \in Nat
  BY Parts, TpAssumption DEF TxT
<1>1. /\ n \in Nat /\ n > 0 /\ (fc.bs = 0 => n = MaxRes) /\ (fc.bs # 0 => n = fc.bs)
      /\ t.st = "recv" /\ t.got = s.got /\ t.num = s.num /\ t.sn = s.sn /\ t.credit = h
  BY GrantingIs
<1>2. h \in Nat
  BY <1>1
<1>3. Responding(c, t) /\ Collected(c, t)
  BY <1>1 DEF Sending, Responding, Collected
<1>4. ~LateWait => g = 0 /\ ~(Len(s.got) = 1 /\ X(c) \in Active /\ c.tx.cnt > 0)
  BY DEF Sending, Flowing
<1>5. ~LateWait => Flowing(c, t, g)
  BY <1>1, <1>2, <1>4 DEF Sending, Flowing
<1>6. \/ d = c
      \/ /\ d \in CtxT /\ R(d) = "FC_IND" /\ X(d) = X(c) /\ I(d) = I(c) /\ d.dcm = c.dcm
         /\ d.mf.fs = fc.fs
         /\ d.tx.cnt = c.tx.cnt /\ d.tx.num = c.tx.num /\ d.tx.sn = c.tx.sn
         /\ d.tx.over = c.tx.over /\ d.tx.bs = fc.bs /\ d.tx.bsCnt = fc.bs
  BY RxFcIs DEF I
<1>7. CASE d = c
  <2>1. Flowing(c, t, g) /\ g = 0 => Flowing(c, t, h)
    BY <1>0, <1>1, <1>2 DEF Flowing, Open, Enough
  <2> QED
    BY <1>3, <1>4, <1>5, <1>7, <2>1 DEF Sending
<1>8. CASE /\ d \in CtxT /\ R(d) = "FC_IND" /\ X(d) = X(c) /\ I(d) = I(c) /\ d.dcm = c.dcm
           /\ d.mf.fs = fc.fs
           /\ d.tx.cnt = c.tx.cnt /\ d.tx.num = c.tx.num /\ d.tx.sn = c.tx.sn
           /\ d.tx.over = c.tx.over /\ d.tx.bs = fc.bs /\ d.tx.bsCnt = fc.bs
  <2> HIDE DEF d
  <2>1. Responding(d, t) /\ Collected(d, t)
    BY <1>3, <1>8 DEF Responding, Collected
  <2>2. X(c) \in Active => c.tx.num < MaxRes
    BY DEF Sending, Responding
  <2>3. fc.fs = "CTS" /\ X(c) \in Active => Open(d, h)
    BY <1>0, <1>1, <1>8, <2>2 DEF Open, Enough
  <2>4. ~LateWait /\ fc.fs = "WT" => X(c) \notin Flows
    <3>1. s.got \in Chunks
      BY DEF TesterT
    <3>2. Len(s.got) \in Nat /\ Len(s.got) > 0
      BY <3>1, LenProperties DEF Sending, Responding, Chunks
    <3>3. X(c) \in Flows => X(c) \in Active /\ c.tx.cnt > 0
      BY DEF Sending, Responding, Active
    <3>4. ~LateWait /\ fc.fs = "WT" => ~(Len(s.got) > 1)
      OBVIOUS
    <3>5. ~(Len(s.got) > 1) => Len(s.got) = 1
      BY <3>2, OneOrMore, Zenon
    <3> QED
      BY <1>4, <3>3, <3>4, <3>5
  <2>5. X(c) # "FC_IND"
    BY DEF Rested, X
  <2>6. ~LateWait => Flowing(d, t, h)
    BY <1>0, <1>1, <1>2, <1>4, <1>8, <2>3, <2>4, <2>5
       DEF Flowing, Open, Overflow, Active, Start, Flows
  <2> QED
    BY <1>3, <1>5, <1>8, <2>1, <2>6 DEF Sending, d
<1> QED
  BY <1>6, <1>7, <1>8

\* The tester sends flow control.
LEMMA FcSends ==
  ASSUME IndSending, SendFc
  PROVE  Sending(Context', tester', granted') /\ KeepsGranted
<1> DEFINE s == tester
           c == Context
<1>0. /\ s \in TesterT /\ s.st = "recv" /\ s.credit = 0 /\ c \in CtxT /\ c.out = NoFrame
      /\ c.tx = tx /\ Asking(c, s) /\ Rested(c) /\ granted \in Nat /\ TypesHold
      /\ Sending(c, s, granted)
  BY ContextIs DEF IndSending, IndAsking, TypesHold, SendFc
<1>1. PICK fc \in Grants :
        /\ fc.fs = "WT" /\ Len(s.got) > 1 => LateWait
        /\ LET n == Grant(fc)
               t == Granting(s, fc, n)
               frame == [ty |-> fc.fs, n |-> n]
           IN \E e \in Lost([RxFc(Context, fc) EXCEPT !.out = frame]) : Becomes(e, t)
  BY DEF SendFc, Grant, Granting
<1> DEFINE n == Grant(fc)
           t == Granting(s, fc, n)
           h == IF fc.fs = "CTS" THEN n ELSE 0
           frame == [ty |-> fc.fs, n |-> n]
           d == RxFc(c, fc)
           f == [d EXCEPT !.out = frame]
<1>2. fc \in [fs : {"CTS", "WT", "OVFLW"}, bs : Nat, stmin : Nat]
  BY TpAssumption
<1>3. PICK e \in Lost(f) : Becomes(e, t)
  BY <1>1
<1>4. n \in Nat /\ t \in TesterT
  BY <1>0, <1>2, GrantingIs
<1>5. frame \in [ty : {"CTS", "WT", "OVFLW"}, n : Nat] /\ GrantedAfter(frame) = h
  BY <1>2, <1>4 DEF GrantedAfter
<1>n. n = Grant(fc) /\ t = Granting(s, fc, n) /\ h = IF fc.fs = "CTS" THEN n ELSE 0
  OBVIOUS
<1> HIDE DEF n, t, h
<1>6. Sending(c, t, granted) /\ Sending(d, t, h) /\ d \in CtxT /\ d.tx.cnt = c.tx.cnt
  <2>1. fc.fs = "WT" /\ Len(s.got) > 1 => LateWait
    BY <1>1
  <2> QED
    BY <1>0, <1>2, <1>n, <2>1, SendingFc
<1> HIDE DEF d, frame
<1>7. /\ f \in CtxT /\ f.rx = d.rx /\ f.mf = d.mf /\ f.tx = d.tx /\ f.dcm = d.dcm
      /\ f.out = frame /\ Hears(t, f.out) = t
  BY <1>4, <1>5, <1>6, OutIs
<1> HIDE DEF f
<1>8. Sending(f, t, h)
  BY <1>6, <1>7, SendingSame DEF R, I
<1>9. /\ e \in CtxT /\ Sending(e, t, GrantedAfter(e.out)) /\ e.tx.cnt = tx.cnt
      /\ Hears(t, e.out) = t
  <2>1. Hears(t, NoFrame) = t /\ GrantedAfter(NoFrame) = granted
    BY <1>4, HearsNone, GrantedNone DEF NoFrame
  <2> HIDE DEF c
  <2>2. CASE e = f
    BY <1>0, <1>5, <1>6, <1>7, <1>8, <2>2
  <2>3. CASE e = c
    BY <1>0, <1>6, <2>1, <2>3
  <2>4. e = f \/ e = c
    BY DEF Lost, c
  <2> QED
    BY <2>2, <2>3, <2>4
<1>10. Sending(Context', tester', granted')
  BY <1>0, <1>3, <1>9, SendingBecomes
<1>11. tx' = e.tx
  BY <1>0, <1>3, <1>9, BecomesIs
<1> QED
  BY <1>0, <1>9, <1>10, <1>11, NoFrameSent

\* The tester sends a functional request.
LEMMA FuncSends ==
  ASSUME IndSending, SendFunc
  PROVE  Sending(Context', tester', granted') /\ KeepsGranted
<1> DEFINE t == tester
           c == Context
           d == RxSf(c, "func", <<2, 0>>)
<1>0. /\ t \in TesterT /\ c \in CtxT /\ c.out = NoFrame /\ c.dcm = dcm
      /\ Asking(c, t) /\ Rested(c) /\ granted \in Nat /\ Sending(c, t, granted)
  BY ContextIs DEF IndSending, IndAsking, TypesHold
<1>1. Becomes(d, t)
  BY DEF SendFunc
<1>2. d \in Lost(d)
  BY DEF Lost
<1> HIDE DEF c, t
<1>3. F(c) \in {"IDLE", "SF_IND", "SF_ERR", "FC_IND_WAIT"}
  BY <1>0 DEF Asking, OneAtATime
<1>4. \E f \in {F(c), "SF_IND", "SF_ERR"} : Turn(c, d, R(c), f, X(c), I(c))
  BY <1>0, <1>3, RxSfFunc
<1> HIDE DEF d
<1>5. TxKept(c, d)
  BY <1>4 DEF Turn, Kept, TxKept, R, X, I
<1> QED
  BY <1>0, <1>1, <1>2, <1>5, ReceivedSends DEF c, t

\* The tester gives up.
LEMMA GiveUpSends ==
  ASSUME IndSending, GiveUp
  PROVE  Sending(Context', tester', granted') /\ KeepsGranted
<1> DEFINE t == Quiet(tester.msg)
<1>1. t.got = <<>> /\ t.st = "idle"
  <2>1. tester.msg \in Half
    BY DEF IndSending, IndAsking, TypesHold, TesterT
  <2> QED
    BY <2>1, QuietIs
<1>2. tester' = t /\ Context' = Context /\ granted' = granted /\ tx' = tx
  BY DEF GiveUp, Context
<1> HIDE DEF t
<1>3. Sending(Context, t, granted)
  BY <1>1, SendingTester DEF IndSending
<1>4. KeepsGranted
  BY <1>2, NoFrameSent DEF IndSending, IndAsking
<1> QED
  BY <1>2, <1>3, <1>4

\* Every step keeps the whole, and no frame goes out that is not granted.
LEMMA NextSends ==
  ASSUME IndSending, [Next]_vars, ~FuncAnswered
  PROVE  IndSending' /\ KeepsGranted
<1>1. IndAsking'
  BY NextAsks DEF IndSending
<1>2. Sending(Context', tester', granted') /\ KeepsGranted
  <2>1. CASE UNCHANGED vars
    <3>1. Context' = Context /\ tester' = tester /\ granted' = granted /\ tx' = tx
      BY <2>1 DEF vars, Context
    <3>2. KeepsGranted
      BY <3>1, NoFrameSent DEF IndSending, IndAsking
    <3> QED
      BY <3>1, <3>2 DEF IndSending
  <2>2. CASE Next
    BY <2>2, TickSends, TakeSends, AnswerSends, SfSends, FfSends, CfSends, FcSends, FuncSends,
       GiveUpSends DEF Next
  <2> QED
    BY <2>1, <2>2
<1> QED
  BY <1>1, <1>2 DEF IndSending

\* It holds at the start.
LEMMA InitSends == Init => IndSending
<1> SUFFICES ASSUME Init PROVE IndSending
  OBVIOUS
<1> DEFINE c == Context
<1>1. IndAsking
  BY InitAsks
<1>2. /\ R(c) = "IDLE" /\ X(c) = "IDLE" /\ I(c) = 0 /\ tester.st = "idle" /\ tester.got = <<>>
  BY ContextIs, QuietIs DEF Init, R, X, I, Chan, Half
<1> HIDE DEF c
<1>3. Whole(<<>>)
  BY MessageEmpty DEF Whole, Half
<1>4. Sending(c, tester, granted)
  BY <1>2, <1>3 DEF Sending, Responding, Collected, Flowing, TxRest, Active, Start, Flows
<1> QED
  BY <1>1, <1>4 DEF IndSending, c

\* What the tester puts together from the frames of cantp_tx_ff and cantp_tx_cf
\* is one response from its start and in order, whatever frames are lost and
\* whatever becomes of the response before, as long as no response has more
\* frames than the sequence numbers tell apart: a longer one of which a whole
\* round of numbers is lost is joined by every receiver.
THEOREM ResponsesIntact ==
  ASSUME ~FuncAnswered, MaxRes <= SnMod + 1
  PROVE  Spec => []ResponseIntact
<1>1. Init => IndSending
  BY InitSends
<1>2. IndSending /\ [Next]_vars => IndSending'
  BY NextSends
<1>3. IndSending => ResponseIntact
  <2>1. IndSending => Whole(tester.got)
    BY DEF IndSending, Sending, Short, Collected
  <2> QED
    BY <2>1 DEF Whole, ResponseIntact, Half
<1> QED
  BY <1>1, <1>2, <1>3, PTL DEF Spec

\* A response of which the tester has every frame it was announced is one whole
\* response in order, for every length: a tester that has missed a frame never
\* comes to the announced number within the response, and a later response of
\* cantp_tx_ff begins anew.
THEOREM ResponsesWhole ==
  ASSUME ~FuncAnswered
  PROVE  Spec => []ResponseWhole
<1>1. Init => IndSending
  BY InitSends
<1>2. IndSending /\ [Next]_vars => IndSending'
  BY NextSends
<1>3. IndSending => ResponseWhole
  <2>1. IndSending /\ Len(tester.got) = tester.num => Whole(tester.got)
    BY DEF IndSending, Sending, Collected
  <2> QED
    BY <2>1 DEF Whole, ResponseWhole, ResponseIntact, Half
<1> QED
  BY <1>1, <1>2, <1>3, PTL DEF Spec

\* cantp_tx_cf sends a consecutive frame only while the tester's last flow
\* control frame still grants one: through blocks, lost frames, overflows and
\* responses given up.  Not so for a tester that asks to wait after the first
\* block (LateWait): the wait reloads the counter of the block that has ended.
THEOREM FlowIsControlled ==
  ASSUME ~FuncAnswered, ~LateWait
  PROVE  Spec => FlowControlled
<1>1. Init => IndSending
  BY InitSends
<1>2. IndSending /\ [Next]_vars => IndSending'
  BY NextSends
<1>3. IndSending /\ [Next]_vars => [tx'.cnt > tx.cnt => granted > 0]_vars
  BY NextSends DEF KeepsGranted
<1> QED
  BY <1>1, <1>2, <1>3, PTL DEF Spec, FlowControlled
===============================================================================
