--------------------------- MODULE BootLoaderProofs ---------------------------
(***************************************************************************)
(* What an installation leaves in the flash is the tester's file, and what *)
(* starts after any reset is whole: for every number of files, rows,       *)
(* timeouts and supply failures, with requests repeated, abandoned and     *)
(* restarted and answers lost, as long as the tester finishes or wipes a   *)
(* download before it takes up another file (~MixFiles).                   *)
(*                                                                         *)
(* The proof goes in three layers.  The contexts a pass works on are typed *)
(* (CtxT), and each service, the DCM and the step machine are shown to     *)
(* have one of a few outcomes for a download: it is left, it rests, a      *)
(* block is stored, it is begun, ended, installed or the staging area is   *)
(* emptied (Passed).  IInv relates the staging area, the counters of the   *)
(* transfer, the queued flash operations and the tester's stage; each      *)
(* action keeps it, a pass by its outcome and a flash operation by what    *)
(* IInv says of the head of the queue.                                     *)
(***************************************************************************)
EXTENDS BootLoader, SequenceTheorems, TLAPS

\* The names the program's words range over, and the kinds of flash operation.
Word == {"default", "prog", "ext", "lock", "L3",
         None, "10", "11", "31", "pos", "neg", "pend", "asked", "answered"}
Calm == {"RESET", "SW_PROGRAMMING_SESSION", "REQUEST_SEED", "RESPONSE_KEY",
         "WRITING_FINGERPRINT", "WAIT_FOR_REST", "GOTO_APP", "ECU_RESET",
         "ERASE_MEMORY_PENDING", "CHK_UPDATE_FLG", "CHK_APP_VALID",
         "DOWNLOAD_FLASHDRIVER_PENDING", "CHK_FLASHDRIVER_INTEGRITY",
         "SW_PROGRAMMING_SESSION_PENDING", "DOWNLOAD_FLASHDRIVER"}
Passing == {"DOWNLOAD_APP", "DOWNLOAD_INTEGRITY", "ERASE_MEMORY"}
Step == Calm \cup DwTimed \cup Passing
Tally == Int
Phase == {"idle", "seed", "key", "delay"}
Truth == BOOLEAN
Target == Files \cup {None}
Cell == {Blank, Junk} \cup ((Files \cup {"old"}) \X Nat)
Key == {"jump", "update", "chg"}
Value == {Empty, "app", "boot", "1", "init", "1001", "1002", "s3"}

NvOp == {[op |-> "nv", key |-> k, to |-> v] : k \in Key, v \in Value}
          \cup {[op |-> "reset"]}
EraseOp(r, i) == [op |-> "erase", at |-> r, row |-> i]
CopyOp(r, i) == [op |-> "copy", at |-> r, row |-> i]
Write(i, v) == [op |-> "write", at |-> "pre", row |-> i, val |-> v]
Op == NvOp \cup {Write(i, v) : i \in Nat, v \in Cell}
           \cup {EraseOp(r, i) : r \in Regions, i \in Nat}
           \cup {CopyOp(r, i) : r \in Regions, i \in Nat}
Works == Seq(Op)
RowSeq == Seq(Cell)

BlT == [step : Step, upd : Truth, valid : Truth, flag : Truth, drv : Truth,
        dl : Target, pa : Nat, cnt : Nat, crc : RowSeq]
DcmT == [session : Word, sec : Word, sts : Phase, num : Tally, start : Truth, seq : Nat,
         over : Truth, busy : Word, res : Word, forged : Truth, r11 : Word]
TmrT == [dw : Nat, left : Nat, s3 : Nat, delay : Nat]
CtxT == [bl : BlT, dcm : DcmT, tmr : TmrT, work : Works, ans : Word, recv : RowSeq]

\* The literals are members of the sets they are named in.
LEMMA Words ==
  /\ "default" \in Word /\ "prog" \in Word /\ "ext" \in Word
  /\ "lock" \in Word /\ "L3" \in Word
  /\ "10" \in Word /\ "11" \in Word /\ "31" \in Word
  /\ "pos" \in Word /\ "neg" \in Word /\ "pend" \in Word
  /\ "asked" \in Word /\ "answered" \in Word /\ None \in Word
BY DEF Word, None
\* The phases of service 27 and their names.
LEMMA Phases ==
  /\ "idle" \in Phase /\ "seed" \in Phase /\ "key" \in Phase /\ "delay" \in Phase
  /\ \A s \in Phase : s = "idle" \/ s = "seed" \/ s = "key" \/ s = "delay"
BY DEF Phase
\* The count of attempts is a number.
LEMMA Tallies == 0 \in Tally /\ \A n \in Tally : n - 1 \in Tally
BY DEF Tally
\* The truth values.
LEMMA Truths == TRUE \in Truth /\ FALSE \in Truth
BY DEF Truth

DStep == "DOWNLOAD_APP_PENDING"
IStep == "DOWNLOAD_INTEGRITY_PENDING"
CStep == "CHK_APP_DEPENDENCIES_PENDING"

\* The steps a service or a pass may go to.
LEMMA StepNames == Calm \cup {DStep, IStep, CStep} \cup Passing \subseteq Step
BY DEF Step, DwTimed, DStep, IStep, CStep
\* The writes of emulated EEPROM words and the reset are sequences of such operations.
LEMMA Starters ==
  /\ \A k \in Key, v \in Value : NvWrite(k, v) \in Seq(NvOp)
  /\ SystemReset \in Seq(NvOp) /\ <<>> \in Seq(NvOp) /\ <<>> \in Works
  /\ Seq(NvOp) \subseteq Works
  /\ \A u, v \in Works : u \o v \in Works
  /\ \A u, v \in Seq(NvOp) : u \o v \in Seq(NvOp)
<1>1. \A k \in Key, v \in Value : NvWrite(k, v) \in Seq(NvOp)
  BY DEF NvWrite, NvOp, Value
<1>2. SystemReset \in Seq(NvOp) 
  BY DEF SystemReset, NvOp
<1>3. <<>> \in Seq(NvOp) /\ <<>> \in Works
  BY EmptySeq DEF Works
<1>4. Seq(NvOp) \subseteq Works
  BY SeqMonotonic DEF Works, Op
<1>5. \A u, v \in Works : u \o v \in Works
  BY ConcatProperties DEF Works
<1>6. \A u, v \in Seq(NvOp) : u \o v \in Seq(NvOp)
  BY ConcatProperties
<1> QED
  BY <1>1, <1>2, <1>3, <1>4, <1>5, <1>6

-----------------------------------------------------------------------------
(* The pieces the services are made of.                                     *)

\* A session change locks the server and leaves the download.
LEMMA SessionIs ==
  ASSUME NEW c \in CtxT, NEW s \in Word
  PROVE  LET d == Session(c, s)
         IN  /\ d \in CtxT /\ d.bl = c.bl /\ d.work = c.work /\ d.ans = c.ans
             /\ d.dcm.sec = "lock" /\ d.dcm.seq = c.dcm.seq /\ d.dcm.over = c.dcm.over
             /\ d.dcm.busy = c.dcm.busy /\ d.dcm.session = s
BY Words, Phases, Tallies DEF CtxT, DcmT, Session

\* Queueing operations changes nothing else.
LEMMA QueueIs ==
  ASSUME NEW c \in CtxT, NEW ops \in Works
  PROVE  LET d == Queue(c, ops)
         IN  /\ d \in CtxT /\ d.bl = c.bl /\ d.dcm = c.dcm /\ d.tmr = c.tmr /\ d.ans = c.ans
             /\ d.work = c.work \o ops
<1> DEFINE w == c.work \o ops
<1>1. w \in Works
  BY Starters DEF CtxT
<1>2. Queue(c, ops) = [c EXCEPT !.work = w]
  BY DEF Queue, CtxT
<1> HIDE DEF w
<1>3. LET d == Queue(c, ops)
      IN  /\ d \in CtxT /\ d.bl = c.bl /\ d.dcm = c.dcm /\ d.tmr = c.tmr /\ d.ans = c.ans
          /\ d.work = w
  BY <1>1, <1>2 DEF CtxT
<1> QED
  BY <1>3 DEF w

\* An answer changes nothing else.
LEMMA AnswerIs ==
  ASSUME NEW c \in CtxT
  PROVE  /\ Pos(c) \in CtxT /\ Pos(c).bl = c.bl /\ Pos(c).dcm = c.dcm /\ Pos(c).tmr = c.tmr
         /\ Pos(c).work = c.work /\ Pos(c).ans = "pos"
         /\ Neg(c) \in CtxT /\ Neg(c).bl = c.bl /\ Neg(c).dcm = c.dcm /\ Neg(c).tmr = c.tmr
         /\ Neg(c).work = c.work /\ Neg(c).ans = "neg"
BY Words DEF CtxT, Pos, Neg

\* A response pending leaves the download.
LEMMA PendIs ==
  ASSUME NEW c \in CtxT, NEW s \in Word
  PROVE  LET d == Pend(c, s)
         IN  /\ d \in CtxT /\ d.bl = c.bl /\ d.work = c.work /\ d.ans = "pend" /\ d.tmr = c.tmr
             /\ d.dcm.session = c.dcm.session /\ d.dcm.sec = c.dcm.sec
             /\ d.dcm.seq = c.dcm.seq /\ d.dcm.over = c.dcm.over /\ d.dcm.busy = s
BY Words DEF CtxT, DcmT, Pend

\* A change of step leaves the rest of the download.
LEMMA ToIs ==
  ASSUME NEW c \in CtxT, NEW s \in Step, NEW t \in Nat
  PROVE  LET d == ToIn(c, s, t)
         IN  /\ d \in CtxT /\ d.bl.step = s /\ d.dcm = c.dcm /\ d.work = c.work /\ d.ans = c.ans
             /\ d.bl.dl = c.bl.dl /\ d.bl.pa = c.bl.pa /\ d.bl.cnt = c.bl.cnt
             /\ d.bl.crc = c.bl.crc /\ d.bl.flag = c.bl.flag /\ d.recv = c.recv
             /\ d.bl.drv = c.bl.drv /\ d.bl.valid = c.bl.valid /\ d.bl.upd = c.bl.upd
             /\ d.tmr.dw = c.tmr.dw /\ d.tmr.left = t
BY DEF CtxT, BlT, TmrT, ToIn

\* What became of the download when a request q took the state from c to d.
Kept(c, d) ==
  d.bl.dl = c.bl.dl /\ d.bl.pa = c.bl.pa /\ d.bl.cnt = c.bl.cnt /\ d.bl.crc = c.bl.crc
Left(d) == d.bl.step \in Calm /\ d.work \in Seq(NvOp)
Stayed(c, q, d) ==
  /\ d.bl.step = c.bl.step /\ c.bl.step \in DwTimed /\ Kept(c, d) /\ d.work = <<>>
  /\ Denied(d) \/ ~Denied(c) \/ q.kind = "key"
  /\ d.dcm.busy = c.dcm.busy \/ d.ans = "pend"
  /\ c.bl.step = DStep => /\ d.dcm.seq = c.dcm.seq /\ d.dcm.over = c.dcm.over
                          /\ q.kind = "34" => d.ans = "neg" /\ Denied(d)
                          /\ d.ans = "pend" => q.kind = "11"
Stored(c, q, d) ==
  LET v == Block(q.file, q.num)
  IN  /\ c.bl.step = DStep /\ d.bl.step = DStep /\ q.kind = "36"
      /\ ~Denied(c) /\ c.dcm.seq = q.num
      /\ d.bl.dl = c.bl.dl /\ d.bl.pa = c.bl.pa + 1 /\ d.bl.cnt = c.bl.cnt + 1
      /\ d.bl.crc = Append(c.bl.crc, v) /\ d.dcm.seq = c.dcm.seq + 1
      /\ d.dcm.over => c.dcm.over \/ c.bl.cnt + 1 >= Size(c.bl.dl)
      /\ d.work = FlashWrite("pre", c.bl.pa, v) /\ d.tmr.dw = Dw /\ ~Denied(d)
      /\ d.dcm.busy = c.dcm.busy /\ d.ans = "pos"
Begun(c, q, d) ==
  /\ c.bl.step = DStep /\ d.bl.step = DStep /\ q.kind = "34"
  /\ FileOf(q.file).region # "ram" /\ d.bl.dl = q.file
  /\ d.bl.pa = 1 /\ d.bl.cnt = 0 /\ d.bl.crc = <<>> /\ d.dcm.seq = 1 /\ ~d.dcm.over
  /\ d.work = <<>> /\ d.dcm.busy = c.dcm.busy /\ d.ans = "pos"
Ended(c, q, d) ==
  /\ c.bl.step = DStep /\ d.bl.step = "DOWNLOAD_APP" /\ q.kind = "37"
  /\ ~Denied(c) /\ c.dcm.over /\ Kept(c, d) /\ d.work = <<>>
Vouched(c, q, d) ==
  /\ c.bl.step = IStep /\ d.bl.step = "DOWNLOAD_INTEGRITY" /\ q.kind = "integrity"
  /\ d.bl.flag /\ Kept(c, d) /\ d.work = <<>> /\ ~Denied(d)
Cleared(c, q, d) ==
  /\ c.bl.step \in {"ERASE_MEMORY_PENDING", CStep} /\ d.bl.step = "ERASE_MEMORY"
  /\ q.kind = "erase" /\ d.bl.flag /\ d.work = <<>> /\ d.ans = "pend" /\ ~Denied(d)
Served(c, q, d) ==
  \/ Left(d) \/ Stayed(c, q, d) \/ Stored(c, q, d) \/ Begun(c, q, d)
  \/ Ended(c, q, d) \/ Vouched(c, q, d) \/ Cleared(c, q, d)

Kinds == {"1001", "1002", "1003", "11", "seed", "key", "badkey", "34", "36", "37",
          "integrity", "erase", "dep", "3E"}
Asked == [kind : Kinds, file : Files, num : Nat]
\* A state in which a request is served.
Open(c) == /\ c \in CtxT /\ c.work = <<>> /\ c.ans = None
           /\ c.bl.step \in Calm \cup {DStep, IStep, CStep}

\* What leaves the download alone keeps it or its absence.
LEMMA StillServed ==
  ASSUME NEW c, Open(c), NEW q, NEW d \in CtxT,
         d.bl.step = c.bl.step, Kept(c, d), d.work = <<>>,
         Denied(d) \/ ~Denied(c) \/ q.kind = "key",
         d.dcm.busy = c.dcm.busy \/ d.ans = "pend",
         c.bl.step = DStep => /\ d.dcm.seq = c.dcm.seq /\ d.dcm.over = c.dcm.over
                              /\ q.kind = "34" => d.ans = "neg" /\ Denied(d)
                              /\ d.ans = "pend" => q.kind = "11"
  PROVE  Served(c, q, d)
<1>1. CASE c.bl.step \in Calm
  BY <1>1, Starters DEF Served, Left
<1>2. CASE c.bl.step \in {DStep, IStep, CStep}
  BY <1>2 DEF Served, Stayed, DwTimed, DStep, IStep, CStep
<1> QED
  BY <1>1, <1>2 DEF Open

\* The steps in which no download is under way.
LEMMA CalmSteps ==
  /\ {"RESET", "SW_PROGRAMMING_SESSION", "REQUEST_SEED", "RESPONSE_KEY",
       "WRITING_FINGERPRINT", "WAIT_FOR_REST", "GOTO_APP", "ECU_RESET"} \subseteq Calm
  /\ {"ERASE_MEMORY_PENDING", "CHK_UPDATE_FLG", "CHK_APP_VALID",
       "DOWNLOAD_FLASHDRIVER_PENDING", "CHK_FLASHDRIVER_INTEGRITY",
       "SW_PROGRAMMING_SESSION_PENDING", "DOWNLOAD_FLASHDRIVER"} \subseteq Calm
BY DEF Calm

\* A service that goes on in a calm step leaves the download.
LEMMA ToCalm ==
  ASSUME NEW c \in CtxT, NEW s \in Calm, NEW t \in Nat
  PROVE  /\ ToIn(c, s, t) \in CtxT /\ ToIn(c, s, t).bl.step \in Calm
         /\ ToIn(c, s, t).work = c.work /\ ToIn(c, s, t).ans = c.ans
         /\ ToIn(c, s, t).bl.step = s /\ ToIn(c, s, t).bl.dl = c.bl.dl
         /\ ToIn(c, s, t).dcm = c.dcm
<1>1. s \in Step
  BY StepNames
<1> QED
  BY <1>1, ToIs

\* The same without a timer.
LEMMA CalmTo ==
  ASSUME NEW c \in CtxT, NEW s \in Calm
  PROVE  /\ To(c, s) \in CtxT /\ To(c, s).bl.step \in Calm /\ To(c, s).work = c.work
         /\ To(c, s).bl.step = s /\ To(c, s).ans = c.ans /\ To(c, s).dcm = c.dcm
<1>1. 0 \in Nat
  OBVIOUS
<1> QED
  BY <1>1, ToCalm DEF To

\* Service 10.
LEMMA Serve10 ==
  ASSUME NEW c, Open(c), NEW q, q.kind \in {"1001", "1002", "1003"}
  PROVE  Service10(c, q) \in CtxT /\ Served(c, q, Service10(c, q))
<1>0. c \in CtxT /\ c.work = <<>>
  BY DEF Open
<1>1. CASE q.kind = "1001" /\ c.bl.valid
  <2> DEFINE t == To(c, "GOTO_APP")
             p == Pend(t, "10")
             w == NvWrite("chg", "1001")
             e == Queue(p, w)
             d == Session(e, "default")
  <2>0. d = Service10(c, q)
    BY <1>1 DEF Service10
  <2>1. t \in CtxT /\ t.bl.step \in Calm /\ t.work = <<>>
    BY <1>0, CalmTo, CalmSteps
  <2>w. "10" \in Word /\ "default" \in Word
    BY Words
  <2> HIDE DEF t
  <2>2. p \in CtxT /\ p.bl.step \in Calm /\ p.work = <<>>
    BY <2>1, <2>w, PendIs
  <2> HIDE DEF p
  <2>3. w \in Seq(NvOp)
    <3>1. "chg" \in Key /\ "1001" \in Value
      BY DEF Key, Value
    <3> QED
      BY <3>1, Starters
  <2> HIDE DEF w
  <2>4. e \in CtxT /\ e.bl.step \in Calm /\ e.work = p.work \o w
    BY <2>2, <2>3, QueueIs, Starters
  <2>5. p.work \o w = w
    BY <2>2, <2>3, ConcatEmptySeq
  <2> HIDE DEF e
  <2>6. d \in CtxT /\ d.bl.step \in Calm /\ d.work \in Seq(NvOp)
    BY <2>3, <2>4, <2>5, <2>w, SessionIs
  <2> HIDE DEF d
  <2> QED
    BY <2>0, <2>6 DEF Served, Left
<1>2. CASE q.kind = "1002" /\ c.dcm.session = "default"
  <2>1. Service10(c, q) = Neg(c)
    BY <1>2 DEF Service10
  <2>2. Neg(c) \in CtxT /\ Neg(c).bl = c.bl /\ Neg(c).work = <<>> /\ Neg(c).dcm = c.dcm
        /\ Neg(c).ans = "neg"
    BY <1>0, AnswerIs
  <2>3. Served(c, q, Neg(c))
    BY <2>2, <1>2, StillServed DEF Kept, Denied
  <2> QED
    BY <2>1, <2>2, <2>3
<1>3. CASE \/ q.kind = "1001" /\ ~c.bl.valid
           \/ q.kind = "1003"
           \/ /\ q.kind = "1002" /\ c.dcm.session # "default"
              /\ c.bl.step # "SW_PROGRAMMING_SESSION_PENDING"
  <2> DEFINE s == CASE q.kind = "1001" -> "default" [] q.kind = "1002" -> "prog"
                    [] q.kind = "1003" -> "ext"
             p == Pos(c)
             d == Session(p, s)
  <2>1. p \in CtxT /\ p.bl = c.bl /\ p.work = <<>> /\ p.dcm = c.dcm /\ p.ans = "pos"
    BY <1>0, AnswerIs
  <2>2. s \in Word
    BY Words, <1>3
  <2>3. d = Service10(c, q)
    BY <1>3 DEF Service10
  <2> HIDE DEF s, p
  <2>4. /\ d \in CtxT /\ d.bl = c.bl /\ d.work = <<>> /\ d.ans = "pos"
        /\ d.dcm.sec = "lock" /\ d.dcm.seq = c.dcm.seq /\ d.dcm.over = c.dcm.over
        /\ d.dcm.busy = c.dcm.busy
    BY <2>1, <2>2, SessionIs
  <2> HIDE DEF d
  <2>5. Denied(d)
    BY <2>4 DEF Denied
  <2>6. Served(c, q, d)
    BY <2>4, <2>5, <1>3, StillServed DEF Kept
  <2> QED
    BY <2>3, <2>4, <2>6
<1>4. CASE /\ q.kind = "1002" /\ c.dcm.session # "default"
           /\ c.bl.step = "SW_PROGRAMMING_SESSION_PENDING"
  <2> DEFINE t == To(c, "SW_PROGRAMMING_SESSION")
             p == Pos(t)
             d == Session(p, "prog")
  <2>0. d = Service10(c, q)
    BY <1>4 DEF Service10
  <2>1. t \in CtxT /\ t.bl.step \in Calm /\ t.work = <<>>
    BY <1>0, CalmTo, CalmSteps
  <2> HIDE DEF t
  <2>2. p \in CtxT /\ p.bl.step \in Calm /\ p.work = <<>>
    BY <2>1, AnswerIs
  <2> HIDE DEF p
  <2>w. "prog" \in Word
    BY Words
  <2>3. d \in CtxT /\ d.bl.step \in Calm /\ d.work = <<>>
    BY <2>2, <2>w, SessionIs
  <2> HIDE DEF d
  <2> QED
    BY <2>0, <2>3, Starters DEF Served, Left
<1> QED
  BY <1>1, <1>2, <1>3, <1>4

\* Everything the outcome looks at.
Alike(c, d) == /\ d \in CtxT /\ d.bl = c.bl /\ d.work = c.work
               /\ d.dcm.session = c.dcm.session /\ d.dcm.seq = c.dcm.seq
               /\ d.dcm.over = c.dcm.over /\ d.dcm.busy = c.dcm.busy

\* What changes nothing the outcome looks at leaves the download as it is.
LEMMA AlikeServed ==
  ASSUME NEW c, Open(c), NEW q, NEW d, Alike(c, d),
         d.dcm.sec = c.dcm.sec \/ q.kind = "key", d.ans # "pend", q.kind # "34"
  PROVE  d \in CtxT /\ Served(c, q, d)
<1>1. d \in CtxT /\ Kept(c, d) /\ d.work = <<>>
  BY DEF Alike, Kept, Open
<1>2. Denied(d) \/ ~Denied(c) \/ q.kind = "key"
  BY DEF Alike, Denied
<1> QED
  BY <1>1, <1>2, StillServed DEF Alike

\* A refusal changes nothing but the answer.
LEMMA RefusedServed ==
  ASSUME NEW c, Open(c), NEW q, q.kind = "34" => Denied(c)
  PROVE  Neg(c) \in CtxT /\ Served(c, q, Neg(c))
<1>1. c \in CtxT /\ c.work = <<>>
  BY DEF Open
<1>2. /\ Neg(c) \in CtxT /\ Neg(c).bl = c.bl /\ Neg(c).dcm = c.dcm
      /\ Neg(c).work = <<>> /\ Neg(c).ans = "neg"
  BY <1>1, AnswerIs
<1> QED
  BY <1>2, StillServed DEF Kept, Denied

\* Service 11.
LEMMA Serve11 ==
  ASSUME NEW c, Open(c), NEW q, q.kind = "11"
  PROVE  Service11(c) \in CtxT /\ Served(c, q, Service11(c))
<1>1. CASE c.dcm.session = "default"
  BY <1>1, RefusedServed DEF Service11
<1>2. CASE c.dcm.session # "default"
  <2> DEFINE p == Pend(c, "11")
             d == [p EXCEPT !.dcm.r11 = "asked"]
  <2>0. d = Service11(c)
    BY <1>2 DEF Service11
  <2>w. "11" \in Word /\ "asked" \in Word
    BY Words
  <2>1. /\ p \in CtxT /\ p.bl = c.bl /\ p.work = <<>> /\ p.ans = "pend"
        /\ p.dcm.session = c.dcm.session /\ p.dcm.sec = c.dcm.sec
        /\ p.dcm.seq = c.dcm.seq /\ p.dcm.over = c.dcm.over
    BY <2>w, PendIs DEF Open
  <2> HIDE DEF p
  <2>2. /\ d \in CtxT /\ d.bl = p.bl /\ d.work = p.work /\ d.ans = p.ans
        /\ d.dcm.session = p.dcm.session /\ d.dcm.sec = p.dcm.sec
        /\ d.dcm.seq = p.dcm.seq /\ d.dcm.over = p.dcm.over
    BY <2>1, <2>w DEF CtxT, DcmT
  <2> HIDE DEF d
  <2>3. Served(c, q, d)
    BY <2>1, <2>2, StillServed DEF Kept, Denied
  <2> QED
    BY <2>0, <2>2, <2>3
<1> QED
  BY <1>1, <1>2

\* What the security access changes.
LEMMA SeedIs ==
  ASSUME NEW c \in CtxT, NEW n \in Tally
  PROVE  LET d == Seed(c, n)
         IN  Alike(c, d) /\ d.dcm.sec = c.dcm.sec /\ d.ans = "pos"
<1> DEFINE e == [c EXCEPT !.dcm.sts = "seed", !.dcm.num = n]
<1>1. Alike(c, e) /\ e.dcm.sec = c.dcm.sec
  BY Phases DEF CtxT, DcmT, Alike
<1>2. Seed(c, n) = Pos(e)
  BY DEF Seed
<1> HIDE DEF e
<1> QED
  BY <1>1, <1>2, AnswerIs DEF Alike

\* Service 27.
LEMMA Serve27 ==
  ASSUME NEW c, Open(c), NEW q, q.kind \in {"seed", "key", "badkey"}
  PROVE  Service27(c, q) \in CtxT /\ Served(c, q, Service27(c, q))
<1>0. c \in CtxT /\ c.dcm.num \in Tally /\ SecurityNum \in Tally /\ c.dcm.sts \in Phase
      /\ Delay \in Nat
  BY BootAssumption DEF Open, CtxT, DcmT, Tally
<1>1. CASE c.dcm.session # "prog"
  BY <1>1, RefusedServed DEF Service27
<1>2. CASE c.dcm.session = "prog" /\ q.kind = "seed"
  <2>1. Service27(c, q) = SeedAsked(c)
    BY <1>2 DEF Service27
  <2>2. \/ SeedAsked(c) = Seed(c, c.dcm.num) \/ SeedAsked(c) = Neg(c)
        \/ SeedAsked(c) = Seed(c, SecurityNum)
    <3>1. c.tmr.delay \in Nat
      BY <1>0 DEF CtxT, TmrT
    <3> QED
      BY <1>0, <3>1, Phases DEF SeedAsked
  <2>3. \A n \in Tally : Seed(c, n) \in CtxT /\ Served(c, q, Seed(c, n))
    BY <1>0, <1>2, SeedIs, AlikeServed
  <2> QED
    BY <1>0, <1>2, <2>1, <2>2, <2>3, RefusedServed
<1>3. CASE c.dcm.session = "prog" /\ q.kind # "seed"
  <2>1. Service27(c, q) = KeySent(c, q.kind = "key")
    BY <1>3 DEF Service27
  <2> DEFINE n == c.dcm.num - 1
             g == [c EXCEPT !.dcm.sts = "idle", !.dcm.num = 0, !.dcm.sec = "L3"]
             b == [c EXCEPT !.dcm.sts = "key", !.dcm.num = n]
             x == [c EXCEPT !.dcm.sts = "delay", !.dcm.num = 0, !.tmr.delay = Delay]
  <2>2. \/ KeySent(c, q.kind = "key") = Neg(c)
        \/ KeySent(c, q.kind = "key") = Pos(g) /\ q.kind = "key"
        \/ KeySent(c, q.kind = "key") = Neg(b)
        \/ KeySent(c, q.kind = "key") = Neg(x)
    <3>1. CASE c.dcm.sts # "seed"
      BY <3>1 DEF KeySent
    <3>2. CASE c.dcm.sts = "seed" /\ q.kind = "key"
      BY <3>2 DEF KeySent
    <3>3. CASE c.dcm.sts = "seed" /\ q.kind # "key" /\ c.dcm.num # 1
      BY <3>3 DEF KeySent
    <3>4. CASE c.dcm.sts = "seed" /\ q.kind # "key" /\ c.dcm.num = 1
      BY <3>4 DEF KeySent
    <3> QED
      BY <3>1, <3>2, <3>3, <3>4
  <2>n. n \in Tally /\ 0 \in Tally
    BY <1>0, Tallies
  <2> HIDE DEF n
  <2>3. /\ Alike(c, g)
        /\ Alike(c, b) /\ b.dcm.sec = c.dcm.sec
        /\ Alike(c, x) /\ x.dcm.sec = c.dcm.sec
    <3>w. "L3" \in Word
      BY Words
    <3>1. Alike(c, g)
      BY <1>0, <2>n, <3>w, Phases DEF CtxT, DcmT, Alike
    <3>2. Alike(c, b) /\ b.dcm.sec = c.dcm.sec
      BY <1>0, <2>n, Phases DEF CtxT, DcmT, Alike
    <3>3. Alike(c, x) /\ x.dcm.sec = c.dcm.sec
      BY <1>0, <2>n, Phases DEF CtxT, DcmT, TmrT, Alike
    <3> QED
      BY <3>1, <3>2, <3>3
  <2> HIDE DEF g, b, x
  <2>4. /\ Alike(c, Pos(g)) /\ Pos(g).ans = "pos"
        /\ Alike(c, Neg(b)) /\ Neg(b).ans = "neg" /\ Neg(b).dcm.sec = c.dcm.sec
        /\ Alike(c, Neg(x)) /\ Neg(x).ans = "neg" /\ Neg(x).dcm.sec = c.dcm.sec
    BY <2>3, AnswerIs DEF Alike
  <2>5. /\ q.kind = "key" => Pos(g) \in CtxT /\ Served(c, q, Pos(g))
        /\ Neg(b) \in CtxT /\ Served(c, q, Neg(b))
        /\ Neg(x) \in CtxT /\ Served(c, q, Neg(x))
    BY <2>4, AlikeServed
  <2> QED
    BY <1>0, <2>1, <2>2, <2>5, RefusedServed
<1> QED
  BY <1>1, <1>2, <1>3

\* What ends in a calm step has left the download.
LEMMA CalmServed ==
  ASSUME NEW c, Open(c), NEW q, NEW d, d.bl.step \in Calm, d.work = <<>>
  PROVE  Served(c, q, d)
BY Starters DEF Served, Left

\* The parameters are numbers.
LEMMA Numbers ==
  /\ Rows \in Nat /\ Rows >= 1 /\ Dw \in Nat /\ Rst \in Nat /\ S3 \in Nat /\ Delay \in Nat
  /\ \A f : Size(f) \in Nat
BY BootAssumption DEF Size

\* Service 34.
LEMMA Serve34 ==
  ASSUME NEW c, Open(c), NEW q \in Asked, q.kind = "34"
  PROVE  Service34(c, q) \in CtxT /\ Served(c, q, Service34(c, q))
<1>0. c \in CtxT /\ c.work = <<>> /\ Rst \in Nat
  BY Numbers DEF Open
<1>f. q.file \in Target
  BY DEF Asked, Target
<1> DEFINE s == [c EXCEPT !.dcm.start = TRUE, !.dcm.over = FALSE, !.dcm.seq = 1]
           d == Pos(s)
           e == [d EXCEPT !.bl.dl = q.file, !.bl.cnt = 0]
           g == [e EXCEPT !.bl.pa = 1, !.bl.crc = <<>>]
<1>1. /\ s \in CtxT /\ s.bl = c.bl /\ s.work = c.work /\ s.dcm.session = c.dcm.session
      /\ s.dcm.sec = c.dcm.sec /\ s.dcm.seq = 1 /\ s.dcm.over = FALSE
      /\ s.dcm.busy = c.dcm.busy
  BY <1>0, Truths DEF CtxT, DcmT
<1>2. CASE Denied(c)
  BY <1>2, RefusedServed DEF Service34
<1>3. ~Denied(c) => Service34(c, q) = IF Downloading(c) THEN Download(d, q.file) ELSE d
  BY DEF Service34
<1> HIDE DEF s
<1>4. /\ d \in CtxT /\ d.bl = c.bl /\ d.work = <<>> /\ d.dcm = s.dcm /\ d.ans = "pos"
  BY <1>0, <1>1, AnswerIs
<1>5. Download(d, q.file) = CASE d.bl.step = DStep ->
                                   IF FileOf(q.file).region = "ram"
                                     THEN ToIn(g, "ECU_RESET", Rst) ELSE g
                              [] d.bl.step # DStep -> e
  BY DEF Download, DStep
<1> HIDE DEF d
<1>6. /\ e \in CtxT /\ e.bl.step = d.bl.step /\ e.work = d.work /\ e.dcm = d.dcm
      /\ e.ans = d.ans /\ e.bl.dl = q.file /\ e.bl.cnt = 0
  BY <1>4, <1>f DEF CtxT, BlT
<1> HIDE DEF e
<1>7. /\ g \in CtxT /\ g.bl.step = e.bl.step /\ g.work = e.work /\ g.dcm = e.dcm
      /\ g.ans = e.ans /\ g.bl.dl = e.bl.dl /\ g.bl.cnt = e.bl.cnt
      /\ g.bl.pa = 1 /\ g.bl.crc = <<>>
  <2>1. <<>> \in RowSeq
    BY EmptySeq DEF RowSeq
  <2> QED
    BY <1>6, <2>1 DEF CtxT, BlT
<1> HIDE DEF g
<1>8. CASE ~Denied(c) /\ ~Downloading(c)
  <2>1. c.bl.step # DStep
    BY <1>8 DEF Downloading, DStep
  <2>2. Kept(c, d) /\ ~Denied(c) /\ d.dcm.busy = c.dcm.busy /\ d.bl.step = c.bl.step
    BY <1>1, <1>4, <1>8 DEF Kept
  <2>3. Served(c, q, d)
    BY <1>4, <2>1, <2>2, StillServed
  <2> QED
    BY <1>3, <1>4, <1>8, <2>3
<1>9. CASE ~Denied(c) /\ Downloading(c) /\ c.bl.step # DStep
  <2>1. e.bl.step \in Calm
    BY <1>4, <1>6, <1>9, CalmSteps DEF Downloading, DStep
  <2>2. Served(c, q, e) /\ e \in CtxT
    BY <1>4, <1>6, <2>1, CalmServed
  <2> QED
    BY <1>3, <1>4, <1>5, <1>9, <2>2
<1>10. CASE ~Denied(c) /\ c.bl.step = DStep /\ FileOf(q.file).region = "ram"
  <2> DEFINE r == ToIn(g, "ECU_RESET", Rst)
  <2>1. Service34(c, q) = r
    BY <1>3, <1>4, <1>5, <1>10 DEF Downloading, DStep
  <2>w. "ECU_RESET" \in Calm
    BY CalmSteps
  <2>2. r \in CtxT /\ r.bl.step \in Calm /\ r.work = <<>>
    BY <1>0, <1>4, <1>6, <1>7, <2>w, ToCalm
  <2> QED
    BY <2>1, <2>2, CalmServed
<1>11. CASE ~Denied(c) /\ c.bl.step = DStep /\ FileOf(q.file).region # "ram"
  <2>1. Service34(c, q) = g
    BY <1>3, <1>4, <1>5, <1>11 DEF Downloading, DStep
  <2>2. Begun(c, q, g)
    BY <1>1, <1>4, <1>6, <1>7, <1>11 DEF Begun
  <2> QED
    BY <1>7, <2>1, <2>2 DEF Served
<1> QED
  BY <1>2, <1>8, <1>9, <1>10, <1>11

\* Service 36.
LEMMA Serve36 ==
  ASSUME NEW c, Open(c), NEW q \in Asked, q.kind = "36"
  PROVE  Service36(c, q) \in CtxT /\ Served(c, q, Service36(c, q))
<1>0. c \in CtxT /\ c.work = <<>> /\ Dw \in Nat /\ c.bl.cnt \in Nat /\ c.bl.pa \in Nat
      /\ c.dcm.seq \in Nat /\ c.bl.crc \in RowSeq /\ c.dcm.over \in Truth
  BY Numbers DEF Open, CtxT, BlT, DcmT
<1> DEFINE v == Block(q.file, q.num)
           p == Pos(c)
           n == c.bl.cnt + 1
           m == c.dcm.seq + 1
           o == c.dcm.over \/ c.bl.cnt + 1 >= Size(c.bl.dl)
           d == [p EXCEPT !.tmr.dw = Dw, !.dcm.seq = m, !.bl.cnt = n, !.dcm.over = o]
           a == c.bl.pa + 1
           r == Append(c.bl.crc, v)
           e == [d EXCEPT !.bl.pa = a, !.bl.crc = r]
           w == FlashWrite("pre", c.bl.pa, v)
<1>1. CASE Denied(c) \/ ~c.dcm.start \/ c.dcm.seq # q.num
  BY <1>1, RefusedServed DEF Service36
<1>2. ~(Denied(c) \/ ~c.dcm.start \/ c.dcm.seq # q.num)
        => Service36(c, q) = IF Downloading(c) THEN Transfer(p, v) ELSE p
  BY DEF Service36
<1>3. /\ p \in CtxT /\ p.bl = c.bl /\ p.dcm = c.dcm /\ p.work = <<>> /\ p.ans = "pos"
  BY <1>0, AnswerIs
<1>5. n \in Nat /\ m \in Nat /\ a \in Nat
  BY <1>0
<1>o. o \in Truth
  BY <1>0, Numbers DEF Truth
<1>6. v \in Cell /\ r \in RowSeq
  <2>1. v \in Cell
    BY DEF Cell, Block, Asked
  <2> QED
    BY <1>0, <2>1, AppendProperties DEF RowSeq
<1>n. /\ n = p.bl.cnt + 1 /\ m = p.dcm.seq + 1 /\ a = p.bl.pa + 1
      /\ r = Append(p.bl.crc, v)
  BY <1>3
<1>p. o = (p.dcm.over \/ p.bl.cnt + 1 >= Size(p.bl.dl))
  BY <1>3
<1> HIDE DEF n, m, a, o, r, v, p
<1> DEFINE t == [p EXCEPT !.tmr.dw = Dw, !.dcm.seq = @ + 1, !.bl.cnt = @ + 1,
                          !.dcm.over = @ \/ p.bl.cnt + 1 >= Size(p.bl.dl)]
<1>t. t = d
  BY <1>3, <1>n, <1>p DEF CtxT, BlT, DcmT, TmrT
<1>u. Transfer(p, v) = IF p.bl.step = DStep
                         THEN Queue([t EXCEPT !.bl.pa = @ + 1, !.bl.crc = Append(@, v)],
                                    FlashWrite("pre", p.bl.pa, v))
                         ELSE t
  BY DEF Transfer, DStep
<1> HIDE DEF t
<1>7. /\ d \in CtxT /\ d.bl.step = p.bl.step /\ d.bl.dl = p.bl.dl /\ d.bl.pa = p.bl.pa
      /\ d.bl.crc = p.bl.crc /\ d.bl.cnt = n /\ d.dcm.seq = m /\ d.dcm.over = o
      /\ d.dcm.busy = p.dcm.busy /\ d.work = p.work /\ d.ans = p.ans /\ d.tmr.dw = Dw
      /\ d.dcm.session = p.dcm.session /\ d.dcm.sec = p.dcm.sec
  BY <1>0, <1>3, <1>5, <1>o DEF CtxT, BlT, DcmT, TmrT
<1> HIDE DEF d
<1>v. [d EXCEPT !.bl.pa = @ + 1, !.bl.crc = Append(@, v)] = e
  BY <1>7, <1>n DEF CtxT, BlT
<1>4. Transfer(p, v) = IF c.bl.step = DStep THEN Queue(e, w) ELSE d
  BY <1>3, <1>t, <1>u, <1>v
<1>8. /\ e \in CtxT /\ e.bl.step = d.bl.step /\ e.bl.dl = d.bl.dl /\ e.bl.pa = a
      /\ e.bl.crc = r /\ e.bl.cnt = d.bl.cnt /\ e.dcm = d.dcm /\ e.work = d.work
      /\ e.ans = d.ans /\ e.tmr = d.tmr
  BY <1>5, <1>6, <1>7 DEF CtxT, BlT
<1> HIDE DEF e
<1>9. CASE ~Denied(c) /\ c.dcm.seq = q.num /\ c.dcm.start /\ c.bl.step # DStep
  <2>1. CASE ~Downloading(c)
    <3>1. Alike(c, p) /\ p.dcm.sec = c.dcm.sec
      BY <1>0, <1>3 DEF Alike
    <3>2. p \in CtxT /\ Served(c, q, p)
      BY <1>3, <3>1, AlikeServed
    <3> QED
      BY <1>2, <1>9, <2>1, <3>2
  <2>2. CASE Downloading(c)
    <3>1. d.bl.step \in Calm /\ d.work = <<>>
      BY <1>3, <1>7, <1>9, <2>2, CalmSteps DEF Downloading, DStep
    <3>2. Served(c, q, d)
      BY <3>1, CalmServed
    <3> QED
      BY <1>2, <1>4, <1>7, <1>9, <2>2, <3>2
  <2> QED
    BY <2>1, <2>2
<1>10. CASE ~Denied(c) /\ c.dcm.seq = q.num /\ c.dcm.start /\ c.bl.step = DStep
  <2>1. Service36(c, q) = Queue(e, w)
    BY <1>2, <1>4, <1>10 DEF Downloading, DStep
  <2>2. w \in Works
    <3>1. Write(c.bl.pa, v) \in Op
      BY <1>0, <1>6 DEF Op
    <3>2. w = <<Write(c.bl.pa, v)>>
      BY DEF FlashWrite, Write
    <3> HIDE DEF w
    <3> QED
      BY <3>1, <3>2 DEF Works
  <2> QED
    <3>1. /\ Queue(e, w) \in CtxT /\ Queue(e, w).bl = e.bl /\ Queue(e, w).dcm = e.dcm
          /\ Queue(e, w).tmr = e.tmr /\ Queue(e, w).ans = e.ans /\ Queue(e, w).work = e.work \o w
      BY <1>8, <2>2, QueueIs
    <3>2. e.work \o w = w
      BY <1>3, <1>7, <1>8, <2>2, ConcatEmptySeq DEF Works
    <3> DEFINE z == Queue(e, w)
    <3> HIDE DEF z, w
    <3>3. z.work = w /\ z.bl = e.bl /\ z.dcm = e.dcm /\ z.tmr = e.tmr /\ z.ans = e.ans
      BY <3>1, <3>2 DEF z
    <3>4. Stored(c, q, z)
      <4>1. /\ z.bl.step = DStep /\ z.bl.dl = c.bl.dl /\ z.bl.pa = a /\ z.bl.crc = r
            /\ z.bl.cnt = n /\ z.dcm.seq = m /\ z.dcm.over = o /\ z.dcm.busy = c.dcm.busy
            /\ z.ans = "pos" /\ z.tmr.dw = Dw
            /\ z.dcm.session = c.dcm.session /\ z.dcm.sec = c.dcm.sec
        BY <1>3, <1>7, <1>8, <1>10, <3>3
      <4> QED
        BY <1>10, <3>3, <4>1 DEF Stored, Denied, a, r, n, m, o, v, w
    <3> QED
      BY <2>1, <3>1, <3>4 DEF Served, z
<1> QED
  BY <1>1, <1>9, <1>10

\* A bare positive answer.
LEMMA AnsweredServed ==
  ASSUME NEW c, Open(c), NEW q, q.kind # "34"
  PROVE  Pos(c) \in CtxT /\ Served(c, q, Pos(c))
<1>1. c \in CtxT
  BY DEF Open
<1>2. Alike(c, Pos(c)) /\ Pos(c).dcm = c.dcm /\ Pos(c).ans = "pos"
  BY <1>1, AnswerIs DEF Alike
<1> QED
  BY <1>2, AlikeServed

\* Service 37.
LEMMA Serve37 ==
  ASSUME NEW c, Open(c), NEW q, q.kind = "37"
  PROVE  Service37(c) \in CtxT /\ Served(c, q, Service37(c))
<1>0. c \in CtxT /\ c.work = <<>> /\ "DOWNLOAD_APP" \in Step
  BY StepNames DEF Open, Passing
<1>1. CASE Denied(c) \/ ~c.dcm.over
  BY <1>1, RefusedServed DEF Service37
<1>2. CASE ~Denied(c) /\ c.dcm.over /\ ~Downloading(c)
  BY <1>2, AnsweredServed DEF Service37, Downloading
<1> DEFINE p == Pos(c)
<1>3. /\ p \in CtxT /\ p.bl = c.bl /\ p.dcm = c.dcm /\ p.work = <<>>
  BY <1>0, AnswerIs
<1>4. CASE ~Denied(c) /\ c.dcm.over /\ c.bl.step = DStep
  <2> DEFINE d == To(p, "DOWNLOAD_APP")
  <2>1. Service37(c) = d
    BY <1>4 DEF Service37, Downloading, DStep
  <2> HIDE DEF p
  <2>2. /\ d \in CtxT /\ d.bl.step = "DOWNLOAD_APP" /\ d.work = p.work
        /\ d.bl.dl = p.bl.dl /\ d.bl.pa = p.bl.pa /\ d.bl.cnt = p.bl.cnt
        /\ d.bl.crc = p.bl.crc
    BY <1>0, <1>3, ToIs DEF To
  <2> HIDE DEF d
  <2>3. Ended(c, q, d)
    BY <1>3, <1>4, <2>2 DEF Ended, Kept
  <2> QED
    BY <2>1, <2>2, <2>3 DEF Served
<1>5. CASE ~Denied(c) /\ c.dcm.over /\ c.bl.step = "DOWNLOAD_FLASHDRIVER_PENDING"
  <2> DEFINE d == To(p, "DOWNLOAD_FLASHDRIVER")
  <2>1. Service37(c) = d
    BY <1>5 DEF Service37, Downloading
  <2>w. "DOWNLOAD_FLASHDRIVER" \in Calm
    BY CalmSteps
  <2> HIDE DEF p
  <2>2. d \in CtxT /\ d.bl.step \in Calm /\ d.work = <<>>
    BY <1>3, <2>w, CalmTo
  <2> HIDE DEF d
  <2> QED
    BY <2>1, <2>2, CalmServed
<1> QED
  BY <1>1, <1>2, <1>4, <1>5 DEF Downloading, DStep

\* The integrity routine.
LEMMA IntegrityServed ==
  ASSUME NEW c, Open(c), NEW q \in Asked, q.kind = "integrity", ~Denied(c)
  PROVE  Integrity(c, q) \in CtxT /\ Served(c, q, Integrity(c, q))
<1>0. c \in CtxT /\ c.work = <<>> /\ "DOWNLOAD_INTEGRITY" \in Step /\ "31" \in Word
  BY StepNames, Words DEF Open, Passing
<1>1. CASE c.bl.step = IStep
  <2> DEFINE p == Pend(c, "31")
             t == To(p, "DOWNLOAD_INTEGRITY")
             r == CrcOf(q.file, q.num = 0)
             d == [t EXCEPT !.recv = r, !.bl.flag = TRUE]
  <2>1. Integrity(c, q) = d
    BY <1>1 DEF Integrity, IStep
  <2>2. r \in RowSeq
    <3>1. \A i \in 1..Size(q.file) : Block(q.file, i) \in Cell
      BY DEF Block, Cell, Asked
    <3>2. Size(q.file) \in Nat
      BY Numbers
    <3>3. [i \in 1..Size(q.file) |-> Block(q.file, i)] \in Seq(Cell)
      <4> DEFINE n == Size(q.file)
                 b(i) == Block(q.file, i)
      <4>1. n \in Nat /\ \A i \in 1..n : b(i) \in Cell
        BY <3>1, <3>2
      <4> HIDE DEF n, b
      <4>2. [i \in 1..n |-> b(i)] \in Seq(Cell)
        BY <4>1
      <4> QED
        BY <4>2 DEF n, b
    <3>4. Junk \in Cell
      BY DEF Cell
    <3>5. <<Junk>> \in Seq(Cell)
      BY <3>4
    <3> QED
      BY <3>3, <3>5 DEF CrcOf, RowSeq
  <2>3. /\ p \in CtxT /\ p.bl = c.bl /\ p.work = <<>>
        /\ p.dcm.session = c.dcm.session /\ p.dcm.sec = c.dcm.sec
    BY <1>0, PendIs
  <2> HIDE DEF p, r
  <2>4. /\ t \in CtxT /\ t.bl.step = "DOWNLOAD_INTEGRITY" /\ t.work = p.work
        /\ t.bl.dl = p.bl.dl /\ t.bl.pa = p.bl.pa /\ t.bl.cnt = p.bl.cnt
        /\ t.bl.crc = p.bl.crc /\ t.dcm = p.dcm
    BY <1>0, <2>3, ToIs DEF To
  <2> HIDE DEF t
  <2>5. /\ d \in CtxT /\ d.bl.step = t.bl.step /\ d.work = t.work /\ d.bl.dl = t.bl.dl
        /\ d.bl.pa = t.bl.pa /\ d.bl.cnt = t.bl.cnt /\ d.bl.crc = t.bl.crc
        /\ d.bl.flag = TRUE /\ d.dcm = t.dcm
    BY <2>2, <2>4, Truths DEF CtxT, BlT
  <2> HIDE DEF d
  <2>6. Vouched(c, q, d)
    BY <1>1, <2>3, <2>4, <2>5 DEF Vouched, Kept, Denied
  <2> QED
    BY <2>1, <2>5, <2>6 DEF Served
<1>2. CASE c.bl.step = "DOWNLOAD_FLASHDRIVER"
  <2> DEFINE p == Pos(c)
             t == To(p, "CHK_FLASHDRIVER_INTEGRITY")
             d == [t EXCEPT !.bl.drv = TRUE]
  <2>1. Integrity(c, q) = d
    BY <1>2 DEF Integrity, IStep
  <2>w. "CHK_FLASHDRIVER_INTEGRITY" \in Calm
    BY CalmSteps
  <2>2. p \in CtxT /\ p.work = <<>>
    BY <1>0, AnswerIs
  <2> HIDE DEF p
  <2>3. t \in CtxT /\ t.bl.step \in Calm /\ t.work = <<>>
    BY <2>2, <2>w, CalmTo
  <2> HIDE DEF t
  <2>4. d \in CtxT /\ d.bl.step = t.bl.step /\ d.work = t.work
    BY <2>3, Truths DEF CtxT, BlT
  <2> HIDE DEF d
  <2> QED
    BY <2>1, <2>3, <2>4, CalmServed
<1>3. CASE c.bl.step \notin {IStep, "DOWNLOAD_FLASHDRIVER"}
  BY <1>3, AnsweredServed DEF Integrity, IStep
<1> QED
  BY <1>1, <1>2, <1>3

\* The erase routine.
LEMMA EraseServed ==
  ASSUME NEW c, Open(c), NEW q, q.kind = "erase", ~Denied(c)
  PROVE  EraseMemory(c) \in CtxT /\ Served(c, q, EraseMemory(c))
<1>0. c \in CtxT /\ c.work = <<>> /\ "ERASE_MEMORY" \in Step /\ "31" \in Word
  BY StepNames, Words DEF Open, Passing
<1>1. CASE c.bl.step \notin {"ERASE_MEMORY_PENDING", CStep}
  BY <1>1, AnsweredServed DEF EraseMemory, CStep
<1>2. CASE c.bl.step \in {"ERASE_MEMORY_PENDING", CStep}
  <2> DEFINE p == Pend(c, "31")
             d == [p EXCEPT !.bl.flag = TRUE]
             e == To(d, "ERASE_MEMORY")
  <2>1. EraseMemory(c) = IF c.bl.drv THEN e ELSE d
    BY <1>2 DEF EraseMemory, CStep
  <2>2. /\ p \in CtxT /\ p.bl = c.bl /\ p.work = <<>> /\ p.ans = "pend"
        /\ p.dcm.session = c.dcm.session /\ p.dcm.sec = c.dcm.sec
    BY <1>0, PendIs
  <2> HIDE DEF p
  <2>3. /\ d \in CtxT /\ d.bl.step = p.bl.step /\ d.work = p.work /\ d.bl.dl = p.bl.dl
        /\ d.bl.pa = p.bl.pa /\ d.bl.cnt = p.bl.cnt /\ d.bl.crc = p.bl.crc
        /\ d.bl.flag = TRUE /\ d.dcm = p.dcm /\ d.ans = p.ans
    BY <2>2, Truths DEF CtxT, BlT
  <2> HIDE DEF d
  <2>4. /\ e \in CtxT /\ e.bl.step = "ERASE_MEMORY" /\ e.work = d.work
        /\ e.bl.flag = d.bl.flag /\ e.ans = d.ans /\ e.dcm = d.dcm
    BY <1>0, <2>3, ToIs DEF To
  <2> HIDE DEF e
  <2>5. Cleared(c, q, e)
    BY <1>2, <2>2, <2>3, <2>4 DEF Cleared, Denied
  <2>6. Served(c, q, d)
    <3>1. Kept(c, d) /\ (Denied(d) \/ ~Denied(c)) /\ c.bl.step # DStep /\ d.bl.step = c.bl.step
      BY <1>2, <2>2, <2>3 DEF Kept, Denied, DStep, CStep
    <3> QED
      BY <2>2, <2>3, <3>1, StillServed
  <2> QED
    BY <2>1, <2>3, <2>4, <2>5, <2>6 DEF Served
<1> QED
  BY <1>1, <1>2

\* The dependency check.
LEMMA DependenciesServed ==
  ASSUME NEW c, Open(c), NEW q, q.kind = "dep"
  PROVE  Dependencies(c) \in CtxT /\ Served(c, q, Dependencies(c))
<1>0. c \in CtxT /\ c.work = <<>> /\ Rst \in Nat /\ Dw \in Nat
  BY Numbers DEF Open
<1>1. CASE c.bl.step # CStep
  BY <1>1, AnsweredServed DEF Dependencies, CStep
<1>2. CASE c.bl.step = CStep
  <2>1. \/ Dependencies(c) = ToIn(Pos(c), "ERASE_MEMORY_PENDING", Dw)
        \/ Dependencies(c) = ToIn(Pos(c), "WAIT_FOR_REST", Rst)
        \/ Dependencies(c) = ToIn(Neg(c), "ECU_RESET", Rst)
    BY <1>2 DEF Dependencies, CStep
  <2>2. /\ Pos(c) \in CtxT /\ Pos(c).work = <<>> /\ Neg(c) \in CtxT /\ Neg(c).work = <<>>
    BY <1>0, AnswerIs
  <2>3. "ERASE_MEMORY_PENDING" \in Calm /\ "WAIT_FOR_REST" \in Calm /\ "ECU_RESET" \in Calm
    BY CalmSteps
  <2>4. \A d, s, t : d \in {Pos(c), Neg(c)} /\ s \in Calm /\ t \in Nat
          => ToIn(d, s, t) \in CtxT /\ ToIn(d, s, t).bl.step \in Calm
             /\ ToIn(d, s, t).work = <<>>
    BY <2>2, ToCalm
  <2>5. \A d, s, t : d \in {Pos(c), Neg(c)} /\ s \in Calm /\ t \in Nat
          => ToIn(d, s, t) \in CtxT /\ Served(c, q, ToIn(d, s, t))
    BY <2>4, CalmServed
  <2> QED
    BY <1>0, <2>1, <2>3, <2>5
<1> QED
  BY <1>1, <1>2

\* Service 31.
LEMMA Serve31 ==
  ASSUME NEW c, Open(c), NEW q \in Asked, q.kind \in {"integrity", "erase", "dep"}
  PROVE  Service31(c, q) \in CtxT /\ Served(c, q, Service31(c, q))
<1>1. CASE Denied(c)
  BY <1>1, RefusedServed DEF Service31
<1>2. CASE ~Denied(c)
  BY <1>2, IntegrityServed, EraseServed, DependenciesServed DEF Service31
<1> QED
  BY <1>1, <1>2

\* What is served does not depend on the timers and the forged request.
LEMMA ServedAlike ==
  ASSUME NEW c, NEW e, NEW q, NEW d, Served(e, q, d),
         e.bl = c.bl, e.dcm.session = c.dcm.session, e.dcm.sec = c.dcm.sec,
         e.dcm.seq = c.dcm.seq, e.dcm.over = c.dcm.over, e.dcm.busy = c.dcm.busy
  PROVE  Served(c, q, d)
<1>1. Denied(e) <=> Denied(c)
  BY DEF Denied
<1>2. Kept(e, d) <=> Kept(c, d)
  BY DEF Kept
<1>3. Stayed(e, q, d) => Stayed(c, q, d)
  BY <1>1, <1>2 DEF Stayed
<1>4. Stored(e, q, d) => Stored(c, q, d)
  BY <1>1 DEF Stored
<1>5. Begun(e, q, d) => Begun(c, q, d)
  BY DEF Begun
<1>6. Ended(e, q, d) => Ended(c, q, d)
  BY <1>1, <1>2 DEF Ended
<1>7. Vouched(e, q, d) => Vouched(c, q, d)
  BY <1>2 DEF Vouched
<1>8. Cleared(e, q, d) => Cleared(c, q, d)
  BY DEF Cleared
<1> QED
  BY <1>3, <1>4, <1>5, <1>6, <1>7, <1>8 DEF Served

\* Whatever is asked, the download is left, rests or takes one step.
LEMMA ServeServed ==
  ASSUME NEW c, Open(c), NEW q \in Asked
  PROVE  Serve(c, q) \in CtxT /\ Served(c, q, Serve(c, q))
<1> DEFINE d == [c EXCEPT !.tmr.s3 = 0]
<1>1. /\ d \in CtxT /\ d.bl = c.bl /\ d.dcm = c.dcm /\ d.work = c.work /\ d.ans = c.ans
  BY DEF CtxT, TmrT, Open
<1>2. /\ q.kind \in {"1001", "1002", "1003"} => Serve(c, q) = Service10(d, q)
      /\ q.kind = "11" => Serve(c, q) = Service11(d)
      /\ q.kind \in {"seed", "key", "badkey"} => Serve(c, q) = Service27(d, q)
      /\ q.kind = "34" => Serve(c, q) = Service34(d, q)
      /\ q.kind = "36" => Serve(c, q) = Service36(d, q)
      /\ q.kind = "37" => Serve(c, q) = Service37(d)
      /\ q.kind \in {"integrity", "erase", "dep"} => Serve(c, q) = Service31(d, q)
      /\ q.kind = "3E" => Serve(c, q) = Pos(d)
  BY DEF Serve
<1> HIDE DEF d
<1>3. Open(d)
  BY <1>1 DEF Open
<1>4. \/ q.kind \in {"1001", "1002", "1003"} \/ q.kind = "11"
      \/ q.kind \in {"seed", "key", "badkey"} \/ q.kind = "34" \/ q.kind = "36"
      \/ q.kind = "37" \/ q.kind \in {"integrity", "erase", "dep"} \/ q.kind = "3E"
  BY DEF Asked, Kinds
<1>5. Serve(c, q) \in CtxT /\ Served(d, q, Serve(c, q))
  <2>1. CASE q.kind \in {"1001", "1002", "1003"}
    BY <1>2, <1>3, <2>1, Serve10
  <2>2. CASE q.kind = "11"
    BY <1>2, <1>3, <2>2, Serve11
  <2>3. CASE q.kind \in {"seed", "key", "badkey"}
    BY <1>2, <1>3, <2>3, Serve27
  <2>4. CASE q.kind = "34"
    BY <1>2, <1>3, <2>4, Serve34
  <2>5. CASE q.kind = "36"
    BY <1>2, <1>3, <2>5, Serve36
  <2>6. CASE q.kind = "37"
    BY <1>2, <1>3, <2>6, Serve37
  <2>7. CASE q.kind \in {"integrity", "erase", "dep"}
    BY <1>2, <1>3, <2>7, Serve31
  <2>8. CASE q.kind = "3E"
    BY <1>2, <1>3, <2>8, AnsweredServed
  <2> QED
    BY <1>4, <2>1, <2>2, <2>3, <2>4, <2>5, <2>6, <2>7, <2>8
<1> QED
  BY <1>1, <1>5, ServedAlike

\* A pending answer is waited for, or given.
Waited(c, d) ==
  /\ d.bl = c.bl /\ d.work = <<>> /\ d.dcm.session = c.dcm.session /\ d.dcm.sec = c.dcm.sec
  /\ d.dcm.seq = c.dcm.seq /\ d.dcm.over = c.dcm.over
  /\ d.dcm.busy = None \/ (d.dcm.busy = c.dcm.busy /\ d.ans = None)

\* The DCM gives a pending answer, serves a request or does nothing.
LEMMA DcmMainServed ==
  ASSUME NEW c, Open(c), NEW q, q.kind = None \/ q \in Asked
  PROVE  LET d == DcmMain(c, q)
         IN  /\ d \in CtxT
             /\ \/ c.dcm.busy # None /\ Waited(c, d)
                \/ c.dcm.busy = None /\ q.kind = None /\ d = c
                \/ c.dcm.busy = None /\ q \in Asked /\ Served(c, q, d)
<1>0. c \in CtxT /\ c.tmr.s3 \in Nat /\ c.work = <<>> /\ c.ans = None /\ S3 \in Nat
      /\ c.dcm.res \in Word
  BY Numbers DEF Open, CtxT, TmrT, DcmT
<1>1. CASE c.dcm.busy # None
  <2> DEFINE n == None
             x == c.dcm.res
             y == IF c.dcm.r11 = "asked" THEN "answered" ELSE c.dcm.r11
             d == [c EXCEPT !.dcm.busy = n]
             e == [c EXCEPT !.dcm.busy = n, !.dcm.res = n, !.ans = x, !.dcm.r11 = y]
  <2>1. DcmMain(c, q) = d \/ DcmMain(c, q) = e \/ DcmMain(c, q) = c
    <3>1. [c EXCEPT !.dcm.busy = None, !.dcm.res = None, !.ans = c.dcm.res,
                    !.dcm.r11 = IF @ = "asked" THEN "answered" ELSE @] = e
      BY <1>0 DEF CtxT, DcmT
    <3> HIDE DEF e
    <3> QED
      BY <1>0, <1>1, <3>1 DEF DcmMain
  <2>2. n \in Word /\ x \in Word /\ y \in Word
    <3>1. c.dcm.r11 \in Word
      BY <1>0 DEF CtxT, DcmT
    <3> QED
      BY <1>0, <3>1, Words
  <2>3. n = None
    OBVIOUS
  <2> HIDE DEF n, x, y
  <2>4. d \in CtxT /\ d.bl = c.bl /\ d.work = c.work /\ d.dcm.session = c.dcm.session
        /\ d.dcm.sec = c.dcm.sec /\ d.dcm.seq = c.dcm.seq /\ d.dcm.over = c.dcm.over
        /\ d.dcm.busy = n
    BY <1>0, <2>2 DEF CtxT, DcmT
  <2>5. e \in CtxT /\ e.bl = c.bl /\ e.work = c.work /\ e.dcm.session = c.dcm.session
        /\ e.dcm.sec = c.dcm.sec /\ e.dcm.seq = c.dcm.seq /\ e.dcm.over = c.dcm.over
        /\ e.dcm.busy = n
    BY <1>0, <2>2 DEF CtxT, DcmT
  <2> HIDE DEF d, e
  <2> QED
    BY <1>0, <1>1, <2>1, <2>3, <2>4, <2>5 DEF Waited
<1>2. CASE c.dcm.busy = None /\ q.kind = None
  BY <1>0, <1>2 DEF DcmMain
<1>3. CASE c.dcm.busy = None /\ q.kind # None
  <2> DEFINE e == [c EXCEPT !.dcm.forged = FALSE]
  <2>1. DcmMain(c, q) = Serve(e, q)
    BY <1>0, <1>3 DEF DcmMain
  <2>2. /\ e \in CtxT /\ e.bl = c.bl /\ e.dcm.session = c.dcm.session
        /\ e.dcm.sec = c.dcm.sec /\ e.dcm.seq = c.dcm.seq /\ e.dcm.over = c.dcm.over
        /\ e.dcm.busy = c.dcm.busy /\ e.work = c.work /\ e.ans = c.ans
    BY <1>0, Truths DEF CtxT, DcmT
  <2> HIDE DEF e
  <2>3. Open(e)
    BY <2>2 DEF Open
  <2> QED
    BY <1>3, <2>1, <2>2, <2>3, ServeServed, ServedAlike
<1> QED
  BY <1>1, <1>2, <1>3

CalmCtx(c) == c \in CtxT /\ c.bl.step \in Calm /\ c.work \in Seq(NvOp)

\* Queueing writes of EEPROM words stays calm.
LEMMA QueueCalm ==
  ASSUME NEW c, CalmCtx(c), NEW ops \in Seq(NvOp)
  PROVE  CalmCtx(Queue(c, ops))
<1>1. ops \in Works
  BY Starters
<1>2. c \in CtxT
  BY DEF CalmCtx
<1>3. /\ Queue(c, ops) \in CtxT /\ Queue(c, ops).bl = c.bl
      /\ Queue(c, ops).work = c.work \o ops
  BY <1>1, <1>2, QueueIs
<1>4. c.work \o ops \in Seq(NvOp)
  BY Starters DEF CalmCtx
<1> QED
  BY <1>3, <1>4 DEF CalmCtx

\* The writes the step machine queues.
LEMMA NvWrites ==
  /\ NvWrite("update", Empty) \in Seq(NvOp) /\ NvWrite("chg", "init") \in Seq(NvOp)
  /\ NvWrite("chg", "s3") \in Seq(NvOp)
  /\ NvWrite("jump", "app") \o SystemReset \in Seq(NvOp)
  /\ SystemReset \in Seq(NvOp)
<1>1. /\ "update" \in Key /\ "chg" \in Key /\ "jump" \in Key
      /\ Empty \in Value /\ "init" \in Value /\ "s3" \in Value /\ "app" \in Value
  BY DEF Key, Value
<1> QED
  BY <1>1, Starters

\* Going to a calm step.
LEMMA ToCalmCtx ==
  ASSUME NEW c \in CtxT, c.work \in Seq(NvOp), NEW s \in Calm, NEW t \in Nat
  PROVE  CalmCtx(ToIn(c, s, t)) /\ CalmCtx(To(c, s))
BY ToCalm, CalmTo DEF CalmCtx

\* The check of the update flag.
LEMMA UpdateFlgCalm ==
  ASSUME NEW c, CalmCtx(c)
  PROVE  CalmCtx(ChkUpdateFlg(c))
<1> DEFINE t == To(c, "CHK_APP_VALID")
           u == (nv.update = "1")
           d == [t EXCEPT !.bl.drv = FALSE, !.bl.upd = u]
<1>1. ChkUpdateFlg(c) = IF nv.update = "1" THEN Queue(d, NvWrite("update", Empty)) ELSE d
  BY DEF ChkUpdateFlg
<1>2. CalmCtx(t)
  <2>1. "CHK_APP_VALID" \in Calm
    BY CalmSteps
  <2> QED
    BY <2>1, ToCalmCtx DEF CalmCtx
<1>3. u \in Truth
  BY DEF Truth
<1> HIDE DEF t, u
<1>4. d \in CtxT /\ d.bl.step = t.bl.step /\ d.work = t.work
  BY <1>2, <1>3, Truths DEF CalmCtx, CtxT, BlT
<1>5. CalmCtx(d)
  BY <1>2, <1>4 DEF CalmCtx
<1> HIDE DEF d
<1> QED
  BY <1>1, <1>5, NvWrites, QueueCalm

\* The check of the application.
LEMMA AppValidCalm ==
  ASSUME NEW c, CalmCtx(c)
  PROVE  CalmCtx(ChkAppValid(c))
<1> DEFINE valid == (mem.m0[1] # Blank)
           chg == IF valid THEN nv.chg ELSE "init"
           d == [c EXCEPT !.bl.valid = valid]
           e == IF valid THEN d ELSE Queue(d, NvWrite("chg", "init"))
           prog == [e EXCEPT !.dcm.session = "prog"]
           s == To(prog, "REQUEST_SEED")
           f == (chg = "1002")
           g == [s EXCEPT !.dcm.forged = f]
           h == Queue(g, NvWrite("chg", "init"))
           i == To(e, "SW_PROGRAMMING_SESSION_PENDING")
           j == To(Queue(prog, NvWrite("update", Empty)), "GOTO_APP")
<1>1. \/ ChkAppValid(c) = s \/ ChkAppValid(c) = h
      \/ ChkAppValid(c) = i \/ ChkAppValid(c) = j
  <2>1. CASE c.bl.upd /\ chg = "init"
    <3>1. ChkAppValid(c) = s
      BY <2>1 DEF ChkAppValid
    <3> QED
      BY <3>1
  <2>2. CASE c.bl.upd /\ chg # "init"
    <3>1. ChkAppValid(c) = h
      BY <2>2 DEF ChkAppValid
    <3> QED
      BY <3>1
  <2>3. CASE ~c.bl.upd /\ ~valid
    <3>1. ChkAppValid(c) = i
      BY <2>3 DEF ChkAppValid
    <3> QED
      BY <3>1
  <2>4. CASE ~c.bl.upd /\ valid
    <3>1. ChkAppValid(c) = j
      BY <2>4 DEF ChkAppValid
    <3> QED
      BY <3>1
  <2> QED
    BY <2>1, <2>2, <2>3, <2>4
<1>2. valid \in Truth /\ f \in Truth
  BY DEF Truth
<1> HIDE DEF valid, f, chg
<1>3. d \in CtxT /\ d.bl.step = c.bl.step /\ d.work = c.work
  BY <1>2 DEF CalmCtx, CtxT, BlT
<1>4. CalmCtx(d)
  BY <1>3 DEF CalmCtx
<1> HIDE DEF d
<1>5. CalmCtx(e)
  BY <1>4, NvWrites, QueueCalm
<1> HIDE DEF e
<1>6. prog \in CtxT /\ prog.bl = e.bl /\ prog.work = e.work
  <2>1. "prog" \in Word
    BY Words
  <2> QED
    BY <1>5, <2>1 DEF CalmCtx, CtxT, DcmT
<1>7. CalmCtx(prog)
  BY <1>5, <1>6 DEF CalmCtx
<1> HIDE DEF prog
<1>w. "REQUEST_SEED" \in Calm /\ "SW_PROGRAMMING_SESSION_PENDING" \in Calm /\ "GOTO_APP" \in Calm
  BY CalmSteps
<1>8. CalmCtx(s)
  BY <1>7, <1>w, ToCalmCtx DEF CalmCtx
<1> HIDE DEF s
<1>9. g \in CtxT /\ g.bl = s.bl /\ g.work = s.work
  BY <1>2, <1>8 DEF CalmCtx, CtxT, DcmT
<1>10. CalmCtx(g)
  BY <1>8, <1>9 DEF CalmCtx
<1> HIDE DEF g
<1>11. CalmCtx(h)
  BY <1>10, NvWrites, QueueCalm
<1>12. CalmCtx(i)
  BY <1>5, <1>w, ToCalmCtx DEF CalmCtx
<1>13. CalmCtx(Queue(prog, NvWrite("update", Empty)))
  BY <1>7, NvWrites, QueueCalm
<1>14. CalmCtx(j)
  BY <1>13, <1>w, ToCalmCtx DEF CalmCtx
<1> HIDE DEF h, i, j
<1> QED
  BY <1>1, <1>8, <1>11, <1>12, <1>14

\* The automatic steps.
LEMMA FollowsIs ==
  /\ DOMAIN Follows = {"RESET", "SW_PROGRAMMING_SESSION", "REQUEST_SEED", "RESPONSE_KEY",
                       "WRITING_FINGERPRINT", "DOWNLOAD_APP"}
  /\ Follows["RESET"] = "CHK_UPDATE_FLG" /\ Follows["SW_PROGRAMMING_SESSION"] = "REQUEST_SEED"
  /\ Follows["REQUEST_SEED"] = "RESPONSE_KEY" /\ Follows["RESPONSE_KEY"] = "WRITING_FINGERPRINT"
  /\ Follows["WRITING_FINGERPRINT"] = "DOWNLOAD_FLASHDRIVER_PENDING"
  /\ Follows["DOWNLOAD_APP"] = "DOWNLOAD_INTEGRITY_PENDING"
BY DEF Follows

\* All but the end of a download lead to a calm step.
LEMMA CalmFollows ==
  \A s \in DOMAIN Follows : s # "DOWNLOAD_APP" => Follows[s] \in Calm
BY FollowsIs, CalmSteps

\* A timeout leads to a calm step.
LEMMA TimedOutCalm ==
  ASSUME NEW c, c \in CtxT, c.work \in Seq(NvOp), c.bl.step \in Timed \cup DwTimed
  PROVE  CalmCtx(TimedOut(c))
<1>0. Rst \in Nat
  BY Numbers
<1>w. "GOTO_APP" \in Calm /\ "ECU_RESET" \in Calm
  BY CalmSteps
<1>1. CASE c.bl.step = "WAIT_FOR_REST"
  <2>1. TimedOut(c) = To(c, "GOTO_APP")
    BY <1>1 DEF TimedOut, DwTimed
  <2> QED
    BY <1>w, <2>1, ToCalmCtx
<1>2. CASE c.bl.step = "GOTO_APP"
  <2>1. TimedOut(c) = Queue(c, NvWrite("jump", "app") \o SystemReset)
    BY <1>2 DEF TimedOut, DwTimed
  <2>2. CalmCtx(c)
    BY <1>2, <1>w DEF CalmCtx
  <2> QED
    BY <2>1, <2>2, NvWrites, QueueCalm
<1>3. CASE c.bl.step = "ECU_RESET"
  <2>1. TimedOut(c) = Queue(c, SystemReset)
    BY <1>3 DEF TimedOut, DwTimed
  <2>2. CalmCtx(c)
    BY <1>3, <1>w DEF CalmCtx
  <2> QED
    BY <2>1, <2>2, NvWrites, QueueCalm
<1>4. CASE c.bl.step \in DwTimed \cup {"ERASE_MEMORY_PENDING"}
  <2>1. TimedOut(c) = ToIn(c, "ECU_RESET", Rst)
    BY <1>4 DEF TimedOut, DwTimed
  <2> QED
    BY <1>0, <1>w, <2>1, ToCalmCtx
<1> QED
  BY <1>1, <1>2, <1>3, <1>4 DEF Timed

\* The step machine does not start a download by itself.
LEMMA BlMainCalm ==
  ASSUME NEW c, CalmCtx(c)
  PROVE  CalmCtx(BlMain(c))
<1> DEFINE s == c.bl.step
<1>0. c \in CtxT /\ c.work \in Seq(NvOp) /\ Dw \in Nat
  BY Numbers DEF CalmCtx
<1>1. CASE s = "CHK_UPDATE_FLG"
  <2>1. BlMain(c) = ChkUpdateFlg(c)
    BY <1>1, FollowsIs DEF BlMain, Timed, DwTimed
  <2> QED
    BY <2>1, UpdateFlgCalm
<1>2. CASE s = "CHK_APP_VALID"
  <2>1. BlMain(c) = ChkAppValid(c)
    BY <1>2, FollowsIs DEF BlMain, Timed, DwTimed
  <2> QED
    BY <2>1, AppValidCalm
<1>3. CASE s \in DOMAIN Follows
  <2>1. BlMain(c) = To(c, Follows[s])
    BY <1>3, FollowsIs DEF BlMain, Timed, DwTimed
  <2>2. Follows[s] \in Calm
    BY <1>3, CalmFollows DEF CalmCtx, Calm
  <2> QED
    BY <1>0, <2>1, <2>2, ToCalmCtx
<1>4. CASE s = "DOWNLOAD_FLASHDRIVER_PENDING"
  <2> DEFINE d == [c EXCEPT !.tmr.dw = Dw]
  <2>1. BlMain(c) = d
    BY <1>4, FollowsIs DEF BlMain, Timed, DwTimed
  <2>2. d \in CtxT /\ d.bl = c.bl /\ d.work = c.work
    BY <1>0 DEF CtxT, TmrT
  <2> HIDE DEF d
  <2> QED
    BY <2>1, <2>2 DEF CalmCtx
<1>5. CASE s = "CHK_FLASHDRIVER_INTEGRITY"
  <2>1. BlMain(c) = ToIn(c, "ERASE_MEMORY_PENDING", Dw)
    BY <1>5, FollowsIs DEF BlMain, Timed, DwTimed
  <2>2. "ERASE_MEMORY_PENDING" \in Calm
    BY CalmSteps
  <2> QED
    BY <1>0, <2>1, <2>2, ToCalmCtx
<1>6. CASE s \in Timed
  <2>1. BlMain(c) = TimedOut(c) \/ BlMain(c) = c
    BY <1>6, FollowsIs DEF BlMain, Timed, DwTimed
  <2> QED
    BY <1>0, <1>6, <2>1, TimedOutCalm
<1>7. CASE s \in {"SW_PROGRAMMING_SESSION_PENDING", "DOWNLOAD_FLASHDRIVER"}
  <2>1. BlMain(c) = c
    BY <1>7, FollowsIs DEF BlMain, Timed, DwTimed
  <2> QED
    BY <2>1
<1> QED
  BY <1>1, <1>2, <1>3, <1>4, <1>5, <1>6, <1>7, FollowsIs DEF CalmCtx, Calm, Timed

\* Erasing and copying a region row by row.
LEMMA FlashRuns ==
  ASSUME NEW r \in Regions, NEW n \in Nat
  PROVE  FlashErase(r, n) \in Works /\ FlashCopy(r, n) \in Works
<1> DEFINE e(i) == EraseOp(r, i)
           k(i) == CopyOp(r, i)
<1>1. \A i \in 1..n : e(i) \in Op /\ k(i) \in Op
  BY DEF Op
<1>2. FlashErase(r, n) = [i \in 1..n |-> e(i)] /\ FlashCopy(r, n) = [i \in 1..n |-> k(i)]
  BY DEF FlashErase, FlashCopy, EraseOp, CopyOp
<1> HIDE DEF e, k
<1>3. [i \in 1..n |-> e(i)] \in Seq(Op) /\ [i \in 1..n |-> k(i)] \in Seq(Op)
  BY <1>1
<1> QED
  BY <1>2, <1>3 DEF Works

\* Erasing the staging area begins a download.
LEMMA EraseIs ==
  ASSUME NEW c \in CtxT, c.work = <<>>
  PROVE  LET d == Erase(c)
         IN  /\ d \in CtxT /\ d.bl.step = DStep /\ d.ans = c.ans
             /\ d.work = FlashErase("pre", Rows)
             /\ d.dcm.session = c.dcm.session /\ d.dcm.sec = c.dcm.sec
<1> DEFINE t == To(c, DStep)
           d == [t EXCEPT !.bl.flag = FALSE, !.tmr.dw = Dw, !.dcm.res = "pos"]
           w == FlashErase("pre", Rows)
<1>1. Erase(c) = Queue(d, w)
  BY DEF Erase, DStep
<1>2. DStep \in Step
  BY StepNames
<1>3. t \in CtxT /\ t.bl.step = DStep /\ t.ans = c.ans /\ t.work = <<>> /\ t.dcm = c.dcm
  BY <1>2, ToIs DEF To
<1>4. "pos" \in Word /\ Dw \in Nat /\ Rows \in Nat /\ "pre" \in Regions
  BY Words, Numbers DEF Regions
<1>5. w \in Works
  BY <1>4, FlashRuns
<1> HIDE DEF t, w
<1>6. /\ d \in CtxT /\ d.bl.step = t.bl.step /\ d.ans = t.ans /\ d.work = t.work
      /\ d.dcm.session = t.dcm.session /\ d.dcm.sec = t.dcm.sec
  BY <1>3, <1>4, Truths DEF CtxT, BlT, TmrT, DcmT
<1> HIDE DEF d
<1>7. /\ Queue(d, w) \in CtxT /\ Queue(d, w).bl = d.bl /\ Queue(d, w).ans = d.ans
      /\ Queue(d, w).work = d.work \o w /\ Queue(d, w).dcm = d.dcm
  BY <1>5, <1>6, QueueIs
<1>8. d.work \o w = w
  BY <1>3, <1>5, <1>6, ConcatEmptySeq DEF Works
<1> QED
  BY <1>1, <1>3, <1>6, <1>7, <1>8 DEF w

\* Installing queues the erasing and the copying of the region, or refuses.
LEMMA InstallIs ==
  ASSUME NEW c \in CtxT, c.work = <<>>, c.bl.dl \in AppFiles
  PROVE  LET d == Install(c)
             r == FileOf(c.bl.dl).region
         IN  /\ d \in CtxT
             /\ \/ Left(d)
                \/ /\ d.bl.step = CStep /\ d.bl.dl = c.bl.dl
                   /\ d.work = FlashErase(r, Rows) \o FlashCopy(r, Rows)
                   /\ d.dcm.session = c.dcm.session /\ d.dcm.sec = c.dcm.sec
<1> DEFINE r == FileOf(c.bl.dl).region
           n == Size(c.bl.dl)
           w == FlashErase(r, n) \o FlashCopy(r, n)
           b == [c EXCEPT !.bl.flag = FALSE]
           t == To(b, CStep)
           d == [t EXCEPT !.dcm.res = "pos"]
           u == ToIn(b, "ECU_RESET", Rst)
           e == [u EXCEPT !.dcm.res = "neg"]
<1>1. Install(c) = Queue(d, w) \/ Install(c) = e
  <2>1. CASE c.recv = c.bl.crc
    BY <2>1 DEF Install, CStep
  <2>2. CASE c.recv # c.bl.crc
    BY <2>2 DEF Install, CStep
  <2> QED
    BY <2>1, <2>2
<1>2. n = Rows /\ r \in Regions
  BY BootAssumption DEF Size, FileOf, Regions
<1>3. CStep \in Step /\ "pos" \in Word /\ "neg" \in Word /\ "ECU_RESET" \in Calm /\ Rst \in Nat
  BY StepNames, Words, CalmSteps, Numbers
<1>4. w \in Works
  <2>1. FlashErase(r, n) \in Works /\ FlashCopy(r, n) \in Works
    BY <1>2, FlashRuns, Numbers
  <2> QED
    BY <2>1, Starters
<1>5. b \in CtxT /\ b.bl.dl = c.bl.dl /\ b.work = c.work /\ b.dcm = c.dcm
  BY Truths DEF CtxT, BlT
<1> HIDE DEF b, w
<1>6. t \in CtxT /\ t.bl.step = CStep /\ t.bl.dl = b.bl.dl /\ t.work = b.work /\ t.dcm = b.dcm
  BY <1>3, <1>5, ToIs DEF To
<1>7. u \in CtxT /\ u.bl.step \in Calm /\ u.work = b.work
  BY <1>3, <1>5, ToCalm
<1> HIDE DEF t, u
<1>8. /\ d \in CtxT /\ d.bl = t.bl /\ d.work = t.work
      /\ d.dcm.session = t.dcm.session /\ d.dcm.sec = t.dcm.sec
      /\ e \in CtxT /\ e.bl = u.bl /\ e.work = u.work
  BY <1>3, <1>6, <1>7 DEF CtxT, DcmT
<1> HIDE DEF d, e
<1>9. Left(e)
  BY <1>5, <1>7, <1>8, Starters DEF Left
<1>10. /\ Queue(d, w) \in CtxT /\ Queue(d, w).bl = d.bl /\ Queue(d, w).work = d.work \o w
       /\ Queue(d, w).dcm = d.dcm
  BY <1>4, <1>8, QueueIs
<1>11. d.work \o w = w
  BY <1>4, <1>5, <1>6, <1>8, ConcatEmptySeq DEF Works
<1>12. w = FlashErase(r, Rows) \o FlashCopy(r, Rows)
  BY <1>2 DEF w
<1> HIDE DEF r, n
<1>13. CASE Install(c) = e
  BY <1>8, <1>9, <1>13
<1>14. CASE Install(c) = Queue(d, w)
  BY <1>5, <1>6, <1>8, <1>10, <1>11, <1>12, <1>14 DEF r
<1> QED
  BY <1>1, <1>13, <1>14

-----------------------------------------------------------------------------
(* What a pass of the main loop does to a download.                         *)

Exited(c, q, d) ==
  /\ c.bl.step = DStep /\ d.bl.step = IStep /\ q.kind = "37"
  /\ ~Denied(c) /\ c.dcm.over /\ Kept(c, d) /\ d.work = <<>>
Installed(c, q, d) ==
  LET r == FileOf(c.bl.dl).region
  IN  /\ c.bl.step = IStep /\ d.bl.step = CStep /\ q.kind = "integrity"
      /\ d.bl.dl = c.bl.dl /\ d.work = FlashErase(r, Rows) \o FlashCopy(r, Rows)
      /\ ~Denied(d)
Emptied(c, q, d) ==
  /\ d.bl.step = DStep /\ q.kind = "erase" /\ d.ans = "pend"
  /\ d.work = FlashErase("pre", Rows) /\ ~Denied(d)
Rested(c, q, d) ==
  c.bl.step \in DwTimed /\ Waited(c, d) /\ (c.dcm.busy # None \/ q.kind = None)
Passed(c, q, d) ==
  \/ Left(d) \/ Rested(c, q, d)
  \/ /\ c.dcm.busy = None /\ q \in Asked
     /\ \/ Stayed(c, q, d) \/ Stored(c, q, d) \/ Begun(c, q, d) \/ Exited(c, q, d)
        \/ Installed(c, q, d) \/ Emptied(c, q, d)

\* A step that waits for the tester either goes on waiting or gives up.
LEMMA BlMainWaits ==
  ASSUME NEW d \in CtxT, d.bl.step \in DwTimed, d.work = <<>>
  PROVE  BlMain(d) = d \/ (BlMain(d) \in CtxT /\ Left(BlMain(d)) /\ d.tmr.dw = 0)
<1>1. BlMain(d) = IF d.tmr.dw = 0 THEN TimedOut(d) ELSE d
  <2>1. CASE d.bl.step = DStep
    BY <2>1, FollowsIs DEF BlMain, Timed, DwTimed, DStep
  <2>2. CASE d.bl.step = IStep
    BY <2>2, FollowsIs DEF BlMain, Timed, DwTimed, IStep
  <2>3. CASE d.bl.step = CStep
    BY <2>3, FollowsIs DEF BlMain, Timed, DwTimed, CStep
  <2> QED
    BY <2>1, <2>2, <2>3 DEF DwTimed, DStep, IStep, CStep
<1>2. CalmCtx(TimedOut(d))
  BY TimedOutCalm, Starters
<1> QED
  BY <1>1, <1>2 DEF CalmCtx, Left

\* A pass has one of the outcomes.
LEMMA PassIs ==
  ASSUME NEW c, Open(c), NEW q, q.kind = None \/ q \in Asked,
         c.bl.step = IStep => c.bl.dl \in AppFiles
  PROVE  Pass(c, q) \in CtxT /\ Passed(c, q, Pass(c, q))
<1> DEFINE d == DcmMain(c, q)
<1>1. /\ d \in CtxT
      /\ \/ c.dcm.busy # None /\ Waited(c, d)
         \/ c.dcm.busy = None /\ q.kind = None /\ d = c
         \/ c.dcm.busy = None /\ q \in Asked /\ Served(c, q, d)
  BY DcmMainServed
<1>2. Pass(c, q) = BlMain(d)
  BY DEF Pass
<1>o. /\ c \in CtxT /\ c.work = <<>> /\ c.ans = None
      /\ c.bl.step \in Calm \/ c.bl.step \in DwTimed
  BY DEF Open, DwTimed, DStep, IStep, CStep
<1> HIDE DEF d
<1>3. CASE d.bl.step \in Calm /\ d.work \in Seq(NvOp)
  <2>1. CalmCtx(d)
    BY <1>1, <1>3 DEF CalmCtx
  <2>2. CalmCtx(BlMain(d))
    BY <2>1, BlMainCalm
  <2> QED
    BY <1>2, <2>2 DEF CalmCtx, Passed, Left
<1>4. CASE d.bl.step \in DwTimed /\ d.work = <<>> /\ 
            /\ \/ Rested(c, q, d)
               \/ c.dcm.busy = None /\ q \in Asked /\ (Stayed(c, q, d) \/ Begun(c, q, d))
  BY <1>1, <1>2, <1>4, BlMainWaits DEF Passed
<1>5. CASE Waited(c, d) /\ (c.dcm.busy # None \/ q.kind = None)
  <2>1. d.bl.step = c.bl.step /\ d.work = <<>>
    BY <1>5 DEF Waited
  <2>2. CASE c.bl.step \in Calm
    BY <1>3, <2>1, <2>2, Starters
  <2>3. CASE c.bl.step \in DwTimed
    BY <1>4, <1>5, <2>1, <2>3 DEF Rested
  <2> QED
    BY <1>o, <2>2, <2>3
<1>6. CASE c.dcm.busy = None /\ q.kind = None /\ d = c
  <2>1. Waited(c, d)
    BY <1>6, <1>o DEF Waited
  <2> QED
    BY <1>5, <1>6, <2>1
<1>7. CASE Left(d)
  BY <1>3, <1>7 DEF Left
<1>8. CASE Stayed(c, q, d) /\ c.dcm.busy = None /\ q \in Asked
  <2>1. d.bl.step \in DwTimed /\ d.work = <<>>
    BY <1>8 DEF Stayed
  <2> QED
    BY <1>4, <1>8, <2>1
<1>9. CASE Stored(c, q, d) /\ c.dcm.busy = None /\ q \in Asked
  <2>1. d.bl.step = DStep /\ d.tmr.dw # 0
    BY <1>9, BootAssumption DEF Stored
  <2>2. BlMain(d) = d
    BY <2>1, FollowsIs DEF BlMain, Timed, DwTimed, DStep
  <2> QED
    BY <1>1, <1>2, <1>9, <2>2 DEF Passed
<1>10. CASE Begun(c, q, d) /\ c.dcm.busy = None /\ q \in Asked
  <2>1. d.bl.step \in DwTimed /\ d.work = <<>>
    BY <1>10 DEF Begun, DwTimed, DStep
  <2> QED
    BY <1>4, <1>10, <2>1
<1>11. CASE Ended(c, q, d) /\ c.dcm.busy = None /\ q \in Asked
  <2> DEFINE t == To(d, IStep)
  <2>1. BlMain(d) = t
    BY <1>11, FollowsIs DEF Ended, BlMain, IStep, Timed, DwTimed
  <2>2. IStep \in Step
    BY StepNames
  <2>3. /\ t \in CtxT /\ t.bl.step = IStep /\ t.work = d.work
        /\ t.bl.dl = d.bl.dl /\ t.bl.pa = d.bl.pa /\ t.bl.cnt = d.bl.cnt
        /\ t.bl.crc = d.bl.crc
    BY <1>1, <2>2, ToIs DEF To
  <2> HIDE DEF t
  <2>4. Exited(c, q, t)
    BY <1>11, <2>3 DEF Exited, Ended, Kept
  <2> QED
    BY <1>2, <1>11, <2>1, <2>3, <2>4 DEF Passed
<1>12. CASE Vouched(c, q, d) /\ c.dcm.busy = None /\ q \in Asked
  <2>1. /\ BlMain(d) = Install(d)
    BY <1>12, FollowsIs DEF Vouched, BlMain, Timed, DwTimed
  <2>2. d.work = <<>> /\ d.bl.dl = c.bl.dl /\ c.bl.dl \in AppFiles /\ c.bl.step = IStep
        /\ ~Denied(d) /\ q.kind = "integrity"
    BY <1>12 DEF Vouched, Kept
  <2> DEFINE t == Install(d)
             r == FileOf(c.bl.dl).region
  <2>3. /\ t \in CtxT
        /\ \/ Left(t)
           \/ /\ t.bl.step = CStep /\ t.bl.dl = d.bl.dl
              /\ t.work = FlashErase(r, Rows) \o FlashCopy(r, Rows)
              /\ t.dcm.session = d.dcm.session /\ t.dcm.sec = d.dcm.sec
    BY <1>1, <2>2, InstallIs
  <2> HIDE DEF t
  <2>4. Left(t) \/ Installed(c, q, t)
    BY <2>2, <2>3 DEF Installed, Denied
  <2> QED
    BY <1>2, <1>12, <2>1, <2>3, <2>4 DEF Passed, t
<1>13. CASE Cleared(c, q, d) /\ c.dcm.busy = None /\ q \in Asked
  <2>1. /\ BlMain(d) = Erase(d)
    BY <1>13, FollowsIs DEF Cleared, BlMain, Timed, DwTimed
  <2>2. Erase(d) \in CtxT /\ Emptied(c, q, Erase(d))
    BY <1>1, <1>13, EraseIs DEF Cleared, Emptied, Denied
  <2> QED
    BY <1>2, <1>13, <2>1, <2>2 DEF Passed
<1> QED
  BY <1>1, <1>5, <1>6, <1>7, <1>8, <1>9, <1>10, <1>11, <1>12, <1>13 DEF Served

-----------------------------------------------------------------------------
(* The inductive invariant.                                                 *)

TesterT == [stage : Nat, file : Files, owed : Kinds \cup {None}]
TypesOK ==
  /\ bl \in BlT /\ dcm \in DcmT /\ tmr \in TmrT /\ work \in Works
  /\ mem \in [Regions -> [1..Rows -> Cell]] /\ tester \in TesterT

\* Outside an installation only the staging area is written, block n in row n.
Quiet(f) == NvOp \cup {EraseOp("pre", i) : i \in 1..Rows}
                 \cup {Write(i, Block(f, i)) : i \in 1..Rows}
WorkOK == bl.step # CStep => work \in Seq(Quiet(tester.file))
RunOK == /\ bl.step \notin Passing
         /\ run = "app" => bl.step = "RESET" /\ mem.m0[1] # Blank

\* The staging area holds blocks of the tester's file and nothing else.
PreOK == \A i \in 1..Rows : mem.pre[i] \in {Blank, Block(tester.file, i)}

\* A download under way: what was transferred is in place, or is being written.
Unlocked == dcm.session = "prog" /\ dcm.sec = "L3"
Filled(n) == \A i \in 1..n : mem.pre[i] = Block(bl.dl, i)
Loading ==
  /\ bl.dl = tester.file /\ bl.dl \in AppFiles
  /\ bl.pa = bl.cnt + 1 /\ dcm.seq = bl.pa /\ bl.cnt <= Rows
  /\ dcm.over => bl.cnt >= Rows
  /\ \/ work \in Seq(NvOp) /\ Filled(bl.cnt)
     \/ /\ bl.cnt > 0 /\ work = <<Write(bl.cnt, Block(bl.dl, bl.cnt))>>
        /\ Filled(bl.cnt - 1)
DownOK == bl.step = DStep =>
  /\ tester.stage \notin 4..6 /\ tester.owed \in {None, "erase", "11"}
  /\ dcm.busy # None => tester.owed # None
  /\ tester.stage >= 9 /\ Unlocked => Loading

\* A download that has ended left the whole file in the staging area.
IntegOK == bl.step = IStep =>
  /\ bl.dl = tester.file /\ bl.dl \in AppFiles
  /\ mem.pre = Whole(bl.dl) /\ work \in Seq(NvOp)

\* An installation erases the rows of the region, then copies them one by one.
Region == FileOf(bl.dl).region
InstallOp(r, n) == IF n <= Rows THEN EraseOp(r, n) ELSE CopyOp(r, n - Rows)
DoneOf == 2 * Rows - Len(work)
Installing ==
  /\ Len(work) <= 2 * Rows
  /\ \A j \in 1..Len(work) : work[j] = InstallOp(Region, DoneOf + j)
  /\ \A i \in 1..Rows :
       /\ i <= DoneOf /\ DoneOf < Rows + i => mem[Region][i] = Blank
       /\ DoneOf >= Rows + i => mem[Region][i] = Block(bl.dl, i)
CheckOK == bl.step = CStep =>
  /\ bl.dl \in AppFiles /\ mem.pre = Whole(bl.dl)
  /\ Installing \/ (work = SystemReset /\ mem[Region] = Whole(bl.dl))

\* Every region is whole or blank, but the one being installed.
ImagesOK ==
  \/ torn
  \/ \A r \in App : \/ Intact(r) \/ Untouched(r)
                    \/ bl.step = CStep /\ r = Region /\ work # <<>> /\ work # SystemReset

IInv == TypesOK /\ WorkOK /\ RunOK /\ PreOK /\ DownOK /\ IntegOK /\ CheckOK /\ ImagesOK

\* The three steps of a download are no others.
LEMMA Distinct ==
  /\ DStep # IStep /\ DStep # CStep /\ IStep # CStep
  /\ DStep \notin Calm /\ IStep \notin Calm /\ CStep \notin Calm
  /\ DStep \notin Passing /\ IStep \notin Passing /\ CStep \notin Passing
  /\ \A s \in Calm : s \notin Passing
  /\ "RESET" \in Calm
BY DEF DStep, IStep, CStep, Calm, Passing

\* Writes of EEPROM words and resets are harmless.
LEMMA QuietOps ==
  ASSUME NEW f
  PROVE  Seq(NvOp) \subseteq Seq(Quiet(f)) /\ <<>> \in Seq(Quiet(f))
BY SeqMonotonic, EmptySeq DEF Quiet

\* The RAM after a reset is typed.
LEMMA InitTypes == BlInit \in BlT /\ DcmInit \in DcmT /\ TmrInit \in TmrT
<1>1. BlInit \in BlT
  <2>1. "RESET" \in Step /\ <<>> \in RowSeq
    BY StepNames, Distinct, EmptySeq DEF RowSeq
  <2>2. None \in Target
    BY DEF Target
  <2> QED
    BY <2>1, <2>2, Truths DEF BlInit, BlT
<1>2. DcmInit \in DcmT
  BY Words, Phases, Tallies, Truths DEF DcmInit, DcmT
<1>3. TmrInit \in TmrT
  BY DEF TmrInit, TmrT
<1> QED
  BY <1>1, <1>2, <1>3

\* IInv holds initially.
LEMMA InitInv == Init => IInv
<1> SUFFICES ASSUME Init PROVE IInv
  OBVIOUS
<1>1. bl = BlInit /\ bl.step = "RESET" /\ bl.step \in Calm /\ work = <<>>
  BY Distinct DEF Init, BlInit
<1>2. PICK old \in BOOLEAN :
        mem = [r \in Regions |->
                 IF old /\ r \in App THEN Whole("old") ELSE [i \in 1..Rows |-> Blank]]
  BY DEF Init
<1>3. mem \in [Regions -> [1..Rows -> Cell]]
  <2>1. Whole("old") \in [1..Rows -> Cell]
    BY DEF Whole, Block, Cell
  <2>2. [i \in 1..Rows |-> Blank] \in [1..Rows -> Cell]
    BY DEF Cell
  <2> QED
    BY <1>2, <2>1, <2>2
<1>4. TypesOK
  <2>1. tester \in TesterT
    BY DEF Init, TesterT, Files
  <2>2. work \in Works
    BY <1>1, Starters
  <2> QED
    BY <1>1, <1>3, <2>1, <2>2, InitTypes DEF Init, TypesOK
<1>5. WorkOK
  BY <1>1, QuietOps DEF WorkOK
<1>6. RunOK
  BY <1>1, Distinct DEF Init, RunOK, Starts
<1>7. PreOK
  BY <1>2 DEF PreOK, Regions, App
<1>8. DownOK /\ IntegOK /\ CheckOK
  BY <1>1, Distinct DEF DownOK, IntegOK, CheckOK
<1>9. ImagesOK
  <2>1. CASE old
    BY <1>2, <2>1 DEF ImagesOK, Intact, App, Regions
  <2>2. CASE ~old
    BY <1>2, <2>2 DEF ImagesOK, Untouched, App, Regions
  <2> QED
    BY <2>1, <2>2
<1> QED
  BY <1>4, <1>5, <1>6, <1>7, <1>8, <1>9 DEF IInv

\* Where each request stands in the sequence.
LEMMA OrderIs ==
  /\ DOMAIN Order = 1..13
  /\ \A k \in 1..13 :
       /\ Order[k] \in Kinds
       /\ Order[k] = "34" => k \in {4, 9}
       /\ Order[k] = "36" => k \in {5, 10}
       /\ Order[k] = "37" => k \in {6, 11}
       /\ Order[k] = "integrity" => k \in {7, 12}
       /\ Order[k] = "erase" => k = 8
       /\ Order[k] = "key" => k = 3
       /\ Order[k] # "11"
<1>1. DOMAIN Order = 1..13
  BY DEF Order
<1>2. /\ Order[1] = "1002" /\ Order[2] = "seed" /\ Order[3] = "key" /\ Order[4] = "34"
      /\ Order[5] = "36" /\ Order[6] = "37" /\ Order[7] = "integrity" /\ Order[8] = "erase"
      /\ Order[9] = "34" /\ Order[10] = "36" /\ Order[11] = "37"
      /\ Order[12] = "integrity" /\ Order[13] = "dep"
  BY DEF Order
<1>3. \A k \in 1..13 : \/ k = 1 \/ k = 2 \/ k = 3 \/ k = 4 \/ k = 5 \/ k = 6 \/ k = 7
                       \/ k = 8 \/ k = 9 \/ k = 10 \/ k = 11 \/ k = 12 \/ k = 13
  OBVIOUS
<1> QED
  BY <1>1, <1>2, <1>3 DEF Kinds

\* A pass begins in a typed context.
LEMMA CtxIs ==
  ASSUME IInv, work = <<>>
  PROVE  Open(Ctx) /\ Ctx.bl = bl /\ Ctx.dcm = dcm /\ Ctx.tmr = tmr
<1>1. /\ Ctx.bl = bl /\ Ctx.dcm = dcm /\ Ctx.tmr = tmr /\ Ctx.work = <<>> /\ Ctx.ans = None
  BY DEF Ctx
<1>2. Ctx \in CtxT
  <2>1. <<>> \in Works /\ <<>> \in RowSeq /\ None \in Word
    BY Starters, EmptySeq, Words DEF RowSeq
  <2> QED
    BY <2>1 DEF Ctx, CtxT, IInv, TypesOK
<1>3. bl.step \in Calm \cup {DStep, IStep, CStep}
  BY DEF IInv, TypesOK, RunOK, BlT, Step, DwTimed, DStep, IStep, CStep
<1> QED
  BY <1>1, <1>2, <1>3 DEF Open

\* With nothing left to do, no image is half installed.
LEMMA ImagesAtRest ==
  ASSUME IInv, work = <<>>
  PROVE  torn \/ \A r \in App : Intact(r) \/ Untouched(r)
BY DEF IInv, ImagesOK

\* With nothing left to do, the region is installed.
LEMMA InstalledAtRest ==
  ASSUME IInv, work = <<>>, bl.step = CStep
  PROVE  Region \in App /\ mem[Region] = Whole(bl.dl)
<1>1. bl.dl \in AppFiles /\ Installing
  <2>1. work # SystemReset
    BY DEF SystemReset
  <2> QED
    BY <2>1 DEF IInv, CheckOK
<1>2. Region \in App /\ Region \in Regions
  BY <1>1, BootAssumption DEF Region, FileOf, App, Regions
<1>3. DoneOf = 2 * Rows
  BY Numbers DEF DoneOf
<1>4. \A i \in 1..Rows : mem[Region][i] = Block(bl.dl, i)
  BY <1>1, <1>3, Numbers DEF Installing
<1>5. mem[Region] \in [1..Rows -> Cell]
  BY <1>2 DEF IInv, TypesOK
<1> QED
  BY <1>2, <1>4, <1>5 DEF Whole

\* What a pass leaves true, whoever asked.
LEMMA PassKeeps ==
  ASSUME IInv, work = <<>>, NEW q, NEW p \in CtxT, Passed(Ctx, q, p),
         Become(p), UNCHANGED <<run, mem, torn>>, run = "boot",
         tester' \in TesterT,
         tester'.file = tester.file \/ \A i \in 1..Rows : mem.pre[i] = Blank,
         Stored(Ctx, q, p) => work' \in Seq(Quiet(tester'.file)),
         Exited(Ctx, q, p) => IntegOK',
         DownOK'
  PROVE  IInv'
<1>0. /\ Ctx.bl = bl /\ Ctx.dcm = dcm /\ Open(Ctx)
      /\ bl' = p.bl /\ dcm' = p.dcm /\ tmr' = p.tmr /\ work' = p.work
  BY CtxIs DEF Become
<1> DEFINE c == Ctx
<1> HIDE DEF c
<1>1. /\ c.bl = bl /\ c.dcm = dcm /\ Passed(c, q, p)
      /\ Stored(c, q, p) => work' \in Seq(Quiet(tester'.file))
      /\ Exited(c, q, p) => IntegOK'
  BY <1>0 DEF c
<1>2. TypesOK'
  BY <1>0 DEF IInv, TypesOK, CtxT
<1>3. PreOK'
  BY DEF IInv, PreOK
<1>4. \/ bl'.step \in Calm /\ work' \in Seq(NvOp)
      \/ bl'.step = DStep
      \/ Exited(c, q, p)
      \/ Installed(c, q, p)
      \/ /\ bl'.step = bl.step /\ bl.step \in {IStep, CStep} /\ bl'.dl = bl.dl
         /\ work' = <<>>
  <2>1. CASE Rested(c, q, p) \/ Stayed(c, q, p)
    BY <1>0, <1>1, <2>1
       DEF Rested, Waited, Stayed, Kept, DwTimed, DStep, IStep, CStep
  <2> QED
    BY <1>0, <1>1, <2>1 DEF Passed, Left, Stored, Begun, Emptied
<1>5. RunOK'
  BY <1>4, Distinct DEF RunOK, Exited, Installed, IInv, Become
<1>6. bl'.step = DStep => work' \in Seq(Quiet(tester'.file))
  <2>1. CASE work' = <<>>
    BY <2>1, QuietOps
  <2>2. CASE Left(p)
    BY <1>0, <2>2, QuietOps DEF Left
  <2>3. CASE Emptied(c, q, p)
    <3> DEFINE n == Rows
               e(i) == EraseOp("pre", i)
               S == Quiet(tester'.file)
    <3>1. n \in Nat /\ \A i \in 1..n : e(i) \in S
      BY Numbers DEF Quiet
    <3>2. work' = [i \in 1..n |-> e(i)]
      BY <1>0, <2>3 DEF Emptied, FlashErase, EraseOp
    <3> HIDE DEF n, e, S
    <3>3. [i \in 1..n |-> e(i)] \in Seq(S)
      BY <3>1
    <3> QED
      BY <3>2, <3>3 DEF S
  <2>4. CASE Stored(c, q, p)
    BY <1>1, <2>4
  <2>5. CASE bl'.step = DStep /\ (Exited(c, q, p) \/ Installed(c, q, p))
    BY <1>0, <2>5, Distinct DEF Exited, Installed
  <2>6. Rested(c, q, p) \/ Stayed(c, q, p) \/ Begun(c, q, p) => work' = <<>>
    BY <1>0 DEF Rested, Waited, Stayed, Begun
  <2> QED
    BY <1>1, <2>1, <2>2, <2>3, <2>4, <2>5, <2>6 DEF Passed
<1>7. WorkOK'
  <2>1. CASE bl'.step \in Calm /\ work' \in Seq(NvOp)
    BY <2>1, QuietOps DEF WorkOK
  <2>2. CASE Exited(c, q, p)
    BY <1>0, <2>2, QuietOps DEF WorkOK, Exited
  <2>3. CASE Installed(c, q, p)
    BY <1>0, <2>3 DEF WorkOK, Installed
  <2>4. CASE work' = <<>>
    BY <2>4, QuietOps DEF WorkOK
  <2> QED
    BY <1>4, <1>6, <2>1, <2>2, <2>3, <2>4 DEF WorkOK
<1>8. IntegOK'
  <2>1. CASE bl'.step = IStep /\ bl.step = IStep /\ bl'.dl = bl.dl /\ work' = <<>>
    <3>1. bl.dl = tester.file /\ mem.pre = Whole(bl.dl) /\ bl.dl \in AppFiles
      BY <2>1 DEF IInv, IntegOK
    <3>2. mem.pre[1] = Block(bl.dl, 1) /\ 1 \in 1..Rows
      BY <3>1, Numbers DEF Whole
    <3>3. Block(bl.dl, 1) # Blank
      BY DEF Block, Blank
    <3>4. tester'.file = tester.file
      BY <3>2, <3>3
    <3> QED
      BY <2>1, <3>1, <3>4, Starters DEF IntegOK
  <2>2. CASE bl'.step # IStep
    BY <2>2 DEF IntegOK
  <2> QED
    BY <1>0, <1>1, <1>4, <2>1, <2>2, Distinct DEF Installed
<1>9. CheckOK'
  <2>1. CASE bl'.step = CStep /\ bl.step = CStep /\ bl'.dl = bl.dl /\ work' = <<>>
    <3>1. bl.dl \in AppFiles /\ mem.pre = Whole(bl.dl) /\ Installing
      <4>1. work # SystemReset
        BY DEF SystemReset
      <4> QED
        BY <2>1, <4>1 DEF IInv, CheckOK
    <3>2. Installing'
      BY <2>1, <3>1 DEF Installing, Region, DoneOf
    <3> QED
      BY <2>1, <3>1, <3>2 DEF CheckOK
  <2>2. CASE Installed(c, q, p)
    <3>1. bl.dl \in AppFiles /\ mem.pre = Whole(bl.dl) /\ bl'.dl = bl.dl
      BY <1>0, <1>1, <2>2 DEF IInv, IntegOK, Installed
    <3> DEFINE r == Region'
               n == Rows
               e(i) == [op |-> "erase", at |-> r, row |-> i]
               k(i) == [op |-> "copy", at |-> r, row |-> i]
               a == [i \in 1..n |-> e(i)]
               b == [i \in 1..n |-> k(i)]
    <3>2. work' = a \o b
      BY <1>0, <1>1, <2>2, <3>1 DEF Installed, FlashErase, FlashCopy, Region
    <3>3. Rows \in Nat /\ n = Rows
      BY Numbers
    <3> HIDE DEF e, k, n
    <3> DEFINE A == {e(i) : i \in 1..n} \cup {k(i) : i \in 1..n}
    <3>a. \A i \in 1..n : e(i) \in A /\ k(i) \in A
      OBVIOUS
    <3> HIDE DEF A
    <3>4. a \in Seq(A) /\ b \in Seq(A) /\ Len(a) = n /\ Len(b) = n
      BY <3>3, <3>a
    <3> HIDE DEF a, b
    <3>5. /\ Len(a \o b) = Len(a) + Len(b)
          /\ \A i \in 1..Len(a) + Len(b) :
               (a \o b)[i] = IF i <= Len(a) THEN a[i] ELSE b[i - Len(a)]
      BY <3>4, ConcatProperties
    <3>6. Len(work') = 2 * Rows /\ DoneOf' = 0
      BY <3>2, <3>3, <3>4, <3>5 DEF DoneOf
    <3>7. \A j \in 1..Len(work') : work'[j] = InstallOp(r, 0 + j)
      <4> TAKE j \in 1..Len(work')
      <4>1. CASE j <= Rows
        <5>1. work'[j] = a[j]
          BY <3>2, <3>3, <3>4, <3>5, <3>6, <4>1
        <5>2. a[j] = e(j)
          BY <3>3, <4>1 DEF a
        <5> QED
          BY <3>3, <4>1, <5>1, <5>2 DEF e, InstallOp, EraseOp
      <4>2. CASE j > Rows
        <5>1. work'[j] = b[j - Rows]
          BY <3>2, <3>3, <3>4, <3>5, <3>6, <4>2
        <5>2. b[j - Rows] = k(j - Rows)
          BY <3>3, <3>6, <4>2, Numbers DEF b
        <5> QED
          BY <3>3, <4>2, <5>1, <5>2 DEF k, InstallOp, CopyOp
      <4> QED
        BY <3>3, <3>6, <4>1, <4>2
    <3>8. Installing'
      BY <3>3, <3>6, <3>7 DEF Installing
    <3> QED
      BY <3>1, <3>8 DEF CheckOK
  <2>3. CASE bl'.step # CStep
    BY <2>3 DEF CheckOK
  <2> QED
    BY <1>0, <1>1, <1>4, <2>1, <2>2, <2>3, Distinct DEF Exited
<1>10. ImagesOK'
  BY ImagesAtRest DEF ImagesOK, Intact, Untouched
<1> QED
  BY <1>2, <1>3, <1>5, <1>7, <1>8, <1>9, <1>10 DEF IInv

\* What a pass that ends in the download made of it.
LEMMA DownloadPass ==
  ASSUME NEW c, NEW q, NEW p, Passed(c, q, p), p.bl.step = DStep, c.work = <<>>
  PROVE  \/ Rested(c, q, p) /\ c.bl.step = DStep
         \/ /\ c.dcm.busy = None /\ q \in Asked
            /\ \/ Stayed(c, q, p) /\ c.bl.step = DStep
               \/ Stored(c, q, p) \/ Begun(c, q, p) \/ Emptied(c, q, p)
BY Distinct DEF Passed, Left, Rested, Waited, Stayed, Exited, Installed

\* A row filled earlier stays filled while the download waits.
LEMMA StillLoading ==
  ASSUME IInv, work = <<>>, Loading, work' = <<>>, UNCHANGED mem, tester'.file = tester.file,
         bl'.dl = bl.dl, bl'.pa = bl.pa, bl'.cnt = bl.cnt,
         dcm'.seq = dcm.seq, dcm'.over = dcm.over
  PROVE  Loading'
<1>1. Filled(bl.cnt) /\ work' \in Seq(NvOp)
  BY Starters DEF Loading
<1> QED
  BY <1>1 DEF Loading, Filled

\* A request of the download sequence.
LEMMA InOrderInv == ASSUME IInv, ~MixFiles, RequestInOrder PROVE IInv'
<1>1. PICK k \in DOMAIN Order, f \in Files, n \in 0..Rows :
        LET q == [kind |-> Order[k], file |-> f, num |-> n]
        IN /\ InOrder(k, q)
           /\ \E c \in {Pass(Ctx, q)} :
                /\ Become(c)
                /\ \E s \in Heard(c, k, IF k < tester.stage THEN k - 1 ELSE tester.stage) :
                     tester' = [stage |-> s, owed |-> Owes(c, q),
                                file |-> IF k >= 9 THEN f ELSE tester.file]
  BY DEF RequestInOrder
<1> DEFINE q == [kind |-> Order[k], file |-> f, num |-> n]
           p == Pass(Ctx, q)
           before == IF k < tester.stage THEN k - 1 ELSE tester.stage
<1>2. PICK s \in Heard(p, k, before) :
        tester' = [stage |-> s, owed |-> Owes(p, q),
                   file |-> IF k >= 9 THEN f ELSE tester.file]
  BY <1>1
<1>3. /\ InOrder(k, q) /\ Become(p) /\ UNCHANGED <<run, mem, torn>> /\ run = "boot" /\ work = <<>>
      /\ tester.owed = None
  BY <1>1 DEF RequestInOrder, Asks, Ready
<1>4. /\ k \in 1..13 /\ q \in Asked /\ q.kind = Order[k] /\ q.file = f /\ q.num = n
  BY <1>1, OrderIs, Numbers DEF Asked
<1>5. /\ Ctx.bl = bl /\ Ctx.dcm = dcm /\ Open(Ctx) /\ Ctx.work = <<>>
  BY <1>3, CtxIs DEF Open
<1>6. p \in CtxT /\ Passed(Ctx, q, p)
  BY <1>4, <1>5, PassIs DEF IInv, IntegOK
<1> DEFINE c == Ctx
<1> HIDE DEF c, q, p
<1>7. /\ bl' = p.bl /\ dcm' = p.dcm /\ work' = p.work
      /\ c.bl = bl /\ c.dcm = dcm /\ c.work = <<>> /\ Passed(c, q, p)
  BY <1>3, <1>5, <1>6 DEF Become, c
<1>t. tester \in TesterT /\ tester.stage \in Nat /\ tester.file \in Files
  BY DEF IInv, TypesOK, TesterT
<1>k. k \in {tester.stage, tester.stage + 1} \/ (k <= tester.stage /\ k \in {1, 8, 9})
        \/ (k = 4 /\ tester.stage > 0)
  BY <1>3 DEF InOrder
<1>z. /\ q.kind = "34" => k \in {4, 9}
      /\ q.kind = "36" => k \in {5, 10}
      /\ q.kind = "37" => k \in {6, 11}
      /\ q.kind = "erase" => k = 8
      /\ q.kind = "key" => k = 3
      /\ q.kind # "11" /\ q.kind \in Kinds
      /\ k = 4 => q.kind = "34"
      /\ k = 9 => q.kind = "34"
  <2>1. Order[4] = "34" /\ Order[9] = "34"
    BY DEF Order
  <2> QED
    BY <1>4, <2>1, OrderIs
<1>8. /\ IF k < 9 THEN f = "driver"
         ELSE f \in AppFiles /\ (IF k = 9 THEN MayTake(f) ELSE f = tester.file)
      /\ q.kind = "36" => n \in 1..Size(f)
  BY <1>3, <1>4 DEF InOrder
<1>s. /\ s \in {k, before} /\ before \in Nat
      /\ p.ans # "pos" => s = before
  BY <1>2, <1>4, <1>t DEF Heard
<1>o. /\ Owes(p, q) \in Kinds \cup {None}
      /\ p.ans = "pos" => Owes(p, q) = None
      /\ p.ans # "pend" => Owes(p, q) = None
      /\ p.ans = "pend" /\ q.kind # "1001" => Owes(p, q) = q.kind
      /\ Owes(p, q) \in {None, q.kind}
  <2>1. /\ p.ans = None => Owes(p, q) = tester.owed
        /\ p.ans = "pend" /\ q.kind # "1001" => Owes(p, q) = q.kind
        /\ p.ans # None /\ ~(p.ans = "pend" /\ q.kind # "1001") => Owes(p, q) = None
    BY DEF Owes, None
  <2>2. q.kind \in Kinds
    BY <1>4, OrderIs
  <2> QED
    BY <1>3, <2>1, <2>2
<1>9. tester' \in TesterT
  BY <1>2, <1>4, <1>o, <1>s, <1>t DEF TesterT
<1>10. tester'.file = tester.file \/ \A i \in 1..Rows : mem.pre[i] = Blank
  BY <1>2, <1>4, <1>8 DEF MayTake
<1> HIDE DEF before
<1>b. before = IF k < tester.stage THEN k - 1 ELSE tester.stage
  BY DEF before
<1>d. bl.step = DStep => /\ tester.stage \notin 4..6 /\ dcm.busy = None
                         /\ tester.stage >= 9 /\ Unlocked => Loading
  BY <1>3 DEF IInv, DownOK
<1>u. (~Denied(c) <=> Unlocked) /\ (~Denied(p) <=> Unlocked')
  BY <1>7 DEF Denied, Unlocked
<1>11. Stored(c, q, p) => /\ k = 10 /\ tester.stage >= 9 /\ Unlocked /\ bl.step = DStep
                          /\ Loading /\ tester'.file = f /\ f = tester.file
                          /\ n = bl.pa /\ n \in 1..Rows /\ q.file = f /\ q.num = n
                          /\ f \in AppFiles
  <2> SUFFICES ASSUME Stored(c, q, p)
               PROVE  /\ k = 10 /\ tester.stage >= 9 /\ Unlocked /\ bl.step = DStep
                      /\ Loading /\ tester'.file = f /\ f = tester.file
                      /\ n = bl.pa /\ n \in 1..Rows /\ q.file = f /\ q.num = n
                      /\ f \in AppFiles
    OBVIOUS
  <2>1. bl.step = DStep /\ q.kind = "36" /\ Unlocked /\ dcm.seq = n
    BY <1>4, <1>7, <1>u DEF Stored
  <2>2. k = 10 /\ tester.stage \in {9, 10}
    <3>1. k \in {5, 10} /\ tester.stage \notin 4..6
      BY <1>d, <1>z, <2>1
    <3> QED
      BY <1>k, <1>t, <3>1
  <2>3. f \in AppFiles /\ f = tester.file /\ tester'.file = f /\ Size(f) = Rows
    BY <1>2, <1>8, <2>2, BootAssumption DEF Size
  <2>4. Loading
    BY <1>d, <2>1, <2>2
  <2> QED
    BY <1>4, <1>8, <2>1, <2>2, <2>3, <2>4 DEF Loading
<1>12. Stored(c, q, p) => work' \in Seq(Quiet(tester'.file))
  <2> SUFFICES ASSUME Stored(c, q, p) PROVE work' \in Seq(Quiet(tester'.file))
    OBVIOUS
  <2> DEFINE w == Write(n, Block(f, n))
             S == Quiet(tester'.file)
  <2>1. work' = <<w>>
    BY <1>7, <1>11 DEF Stored, FlashWrite, Write
  <2>2. w \in S
    BY <1>11 DEF Quiet
  <2> HIDE DEF w, S
  <2>3. <<w>> \in Seq(S)
    BY <2>2
  <2> QED
    BY <2>1, <2>3 DEF S
<1>13. Exited(c, q, p) => IntegOK'
  <2> SUFFICES ASSUME Exited(c, q, p) PROVE IntegOK'
    OBVIOUS
  <2>1. bl.step = DStep /\ q.kind = "37" /\ Unlocked /\ dcm.over /\ bl'.dl = bl.dl /\ work' = <<>>
    BY <1>7, <1>u DEF Exited, Kept
  <2>2. k = 11 /\ tester.stage \in {10, 11}
    <3>1. k \in {6, 11} /\ tester.stage \notin 4..6
      BY <1>d, <1>z, <2>1
    <3> QED
      BY <1>k, <1>t, <3>1
  <2>3. Loading /\ tester'.file = tester.file
    BY <1>2, <1>8, <1>d, <2>1, <2>2
  <2>4. bl.cnt \in Nat
    BY DEF IInv, TypesOK, BlT
  <2>5. bl.cnt = Rows /\ Filled(bl.cnt)
    BY <1>3, <2>1, <2>3, <2>4, Numbers DEF Loading
  <2>6. mem.pre \in [1..Rows -> Cell]
    BY DEF IInv, TypesOK, Regions
  <2>7. mem.pre = Whole(bl.dl)
    BY <2>5, <2>6 DEF Filled, Whole
  <2> QED
    BY <1>3, <2>1, <2>3, <2>7, Starters DEF IntegOK, Loading
<1>14. DownOK'
  <2> SUFFICES ASSUME bl'.step = DStep
               PROVE  /\ tester'.stage \notin 4..6 /\ tester'.owed \in {None, "erase", "11"}
                      /\ dcm'.busy # None => tester'.owed # None
                      /\ tester'.stage >= 9 /\ Unlocked' => Loading'
    BY DEF DownOK
  <2>0. tester'.stage = s /\ tester'.owed = Owes(p, q)
    BY <1>2
  <2>1. \/ Stayed(c, q, p) /\ bl.step = DStep
        \/ Stored(c, q, p) \/ Begun(c, q, p) \/ Emptied(c, q, p)
    <3>1. ~(Rested(c, q, p) /\ c.bl.step = DStep)
      <4>1. q.kind # None
        BY <1>z DEF Kinds, None
      <4> QED
        BY <1>7, <1>d, <4>1 DEF Rested
    <3> QED
      BY <1>7, <3>1, DownloadPass
  <2>2. CASE Emptied(c, q, p)
    <3>1. k = 8 /\ s = before /\ Owes(p, q) = "erase"
      BY <1>o, <1>s, <1>z, <2>2 DEF Emptied
    <3>2. s \notin 4..6 /\ ~(s >= 9)
      BY <1>b, <1>k, <1>t, <3>1
    <3> QED
      BY <2>0, <3>1, <3>2 DEF None
  <2>3. CASE Stored(c, q, p)
    <3>1. s \in {9, 10} /\ Owes(p, q) = None /\ dcm'.busy = None
      <4>1. k = 10 /\ p.ans = "pos" /\ dcm'.busy = None
        BY <1>7, <1>11, <1>d, <2>3 DEF Stored
      <4> QED
        BY <1>11, <1>b, <1>k, <1>o, <1>s, <1>t, <2>3, <4>1
    <3>2. Loading'
      <4>1. /\ bl'.dl = bl.dl /\ bl'.pa = bl.pa + 1 /\ bl'.cnt = bl.cnt + 1
            /\ dcm'.seq = dcm.seq + 1
            /\ dcm'.over => dcm.over \/ bl.cnt + 1 >= Size(bl.dl)
            /\ work' = FlashWrite("pre", bl.pa, Block(f, n))
        BY <1>7, <1>11, <2>3 DEF Stored
      <4>2. /\ Loading /\ n = bl.pa /\ n \in 1..Rows /\ f = tester.file /\ tester'.file = f
        BY <1>11, <2>3
      <4>3. bl.cnt \in Nat /\ Size(bl.dl) = Rows
        BY <4>2, BootAssumption DEF IInv, TypesOK, BlT, Size, Loading
      <4>4. Filled(bl.cnt)
        BY <1>3, <4>2 DEF Loading
      <4>5. bl'.cnt - 1 = bl.cnt /\ bl'.cnt = n
        BY <4>1, <4>2, <4>3 DEF Loading
      <4>6. work' = <<Write(bl'.cnt, Block(bl'.dl, bl'.cnt))>>
        BY <4>1, <4>2, <4>5 DEF FlashWrite, Write, Loading
      <4>7. \A i \in 1..bl'.cnt - 1 : mem'.pre[i] = Block(bl'.dl, i)
        BY <1>3, <4>1, <4>4, <4>5 DEF Filled
      <4>8. /\ bl'.dl = tester'.file /\ bl'.dl \in AppFiles /\ bl'.pa = bl'.cnt + 1
            /\ dcm'.seq = bl'.pa /\ bl'.cnt <= Rows /\ bl'.cnt > 0
            /\ dcm'.over => bl'.cnt >= Rows
        <5>1. /\ bl.dl = tester.file /\ bl.dl \in AppFiles /\ bl.pa = bl.cnt + 1
              /\ dcm.seq = bl.pa /\ bl.cnt <= Rows
              /\ dcm.over => bl.cnt >= Rows
          BY <4>2 DEF Loading
        <5>2. bl.pa \in Nat /\ Rows \in Nat
          BY Numbers DEF IInv, TypesOK, BlT
        <5>3. dcm'.over => bl.cnt + 1 >= Rows
          BY <4>1, <4>3, <5>1, <5>2
        <5> QED
          BY <4>1, <4>2, <4>3, <4>5, <5>1, <5>2, <5>3
      <4> QED
        BY <4>6, <4>7, <4>8 DEF Loading, Filled
    <3> QED
      BY <2>0, <3>1, <3>2
  <2>4. CASE Begun(c, q, p)
    <3>1. /\ q.kind = "34" /\ FileOf(f).region # "ram" /\ bl.step = DStep
      BY <1>4, <1>7, <2>4 DEF Begun
    <3>2. k = 9 /\ f \in AppFiles
      <4>1. f # "driver"
        BY <3>1 DEF FileOf, Driver
      <4>2. k \in {4, 9}
        BY <1>z, <3>1
      <4> QED
        BY <1>8, <4>1, <4>2
    <3>3. s \in Nat /\ s \notin 4..6
      BY <1>b, <1>k, <1>s, <1>t, <3>2
    <3>4. Owes(p, q) = None /\ dcm'.busy = None
      BY <1>7, <1>d, <1>o, <2>4, <3>1 DEF Begun
    <3>5. Loading'
      <4>1. bl'.dl = f /\ bl'.pa = 1 /\ bl'.cnt = 0 /\ dcm'.seq = 1 /\ ~dcm'.over /\ work' = <<>>
        BY <1>4, <1>7, <2>4 DEF Begun
      <4>2. tester'.file = f
        BY <1>2, <3>2
      <4> QED
        BY <3>2, <4>1, <4>2, Starters, Numbers DEF Loading, Filled
    <3> QED
      BY <2>0, <3>3, <3>4, <3>5
  <2>5. CASE Stayed(c, q, p) /\ bl.step = DStep
    <3>1. /\ bl'.dl = bl.dl /\ bl'.pa = bl.pa /\ bl'.cnt = bl.cnt /\ work' = <<>>
          /\ dcm'.seq = dcm.seq /\ dcm'.over = dcm.over
          /\ ~Unlocked' \/ Unlocked \/ q.kind = "key"
          /\ dcm'.busy = None \/ p.ans = "pend"
          /\ q.kind = "34" => p.ans = "neg" /\ ~Unlocked'
          /\ p.ans = "pend" => q.kind = "11"
      BY <1>7, <1>d, <1>u, <2>5 DEF Stayed, Kept
    <3>2. p.ans # "pend" /\ dcm'.busy = None /\ Owes(p, q) = None
      BY <1>o, <1>z, <3>1
    <3>3. s \notin 4..6
      <4>1. k = 4 => s = before
        BY <1>s, <1>z, <3>1
      <4>2. CASE k = 4
        BY <1>b, <1>d, <1>k, <1>t, <2>5, <4>1, <4>2
      <4>3. CASE k # 4
        BY <1>4, <1>b, <1>d, <1>k, <1>s, <1>t, <2>5, <4>3
      <4> QED
        BY <4>2, <4>3
    <3>4. ASSUME s >= 9, Unlocked' PROVE Loading'
      <4>1. q.kind # "34" /\ k # 9
        BY <1>z, <3>1, <3>4
      <4>2. k >= 10 /\ tester.stage >= 9
        BY <1>4, <1>b, <1>k, <1>s, <1>t, <3>4, <4>1
      <4>3. tester'.file = tester.file /\ q.kind # "key"
        BY <1>2, <1>4, <1>8, <1>z, <4>1, <4>2
      <4>4. Loading
        BY <1>d, <2>5, <3>1, <3>4, <4>2, <4>3
      <4> QED
        BY <1>3, <3>1, <4>3, <4>4, StillLoading
    <3> QED
      BY <2>0, <3>2, <3>3, <3>4
  <2> QED
    BY <2>1, <2>2, <2>3, <2>4, <2>5
<1> QED
  BY <1>3, <1>6, <1>9, <1>10, <1>12, <1>13, <1>14, PassKeeps DEF c

\* A request outside it.
LEMMA AnyTimeInv == ASSUME IInv, RequestAnyTime PROVE IInv'
<1>1. PICK kind \in AnyTime :
        /\ kind = "badkey" => tester.stage = 2
        /\ LET q == [kind |-> kind, file |-> "driver", num |-> 0]
           IN \E c \in {Pass(Ctx, q)} :
                /\ Become(c)
                /\ tester' = [tester EXCEPT !.owed = Owes(c, q), !.stage = AfterAnyTime(kind)]
  BY DEF RequestAnyTime
<1> DEFINE q == [kind |-> kind, file |-> "driver", num |-> 0]
           p == Pass(Ctx, q)
<1>2. /\ Become(p) /\ UNCHANGED <<run, mem, torn>> /\ run = "boot" /\ work = <<>>
      /\ tester.owed = None
      /\ tester' = [tester EXCEPT !.owed = Owes(p, q), !.stage = AfterAnyTime(kind)]
  BY <1>1 DEF RequestAnyTime, Asks, Ready
<1>3. q \in Asked /\ q.kind = kind /\ kind \in {"1001", "1003", "3E", "11", "badkey"}
  BY DEF Asked, Kinds, AnyTime, Files
<1>4. /\ Ctx.bl = bl /\ Ctx.dcm = dcm /\ Open(Ctx) /\ Ctx.work = <<>>
  BY <1>2, CtxIs DEF Open
<1>5. p \in CtxT /\ Passed(Ctx, q, p)
  BY <1>3, <1>4, PassIs DEF IInv, IntegOK
<1> DEFINE c == Ctx
<1> HIDE DEF c, q, p
<1>6. /\ bl' = p.bl /\ dcm' = p.dcm /\ work' = p.work
      /\ c.bl = bl /\ c.dcm = dcm /\ c.work = <<>> /\ Passed(c, q, p)
  BY <1>2, <1>4, <1>5 DEF Become, c
<1>t. tester \in TesterT /\ tester.stage \in Nat
  BY DEF IInv, TypesOK, TesterT
<1>o. /\ p.ans = None => Owes(p, q) = None
      /\ p.ans = "pend" /\ q.kind # "1001" => Owes(p, q) = q.kind
      /\ Owes(p, q) \in {None, q.kind} /\ (q.kind = "1001" => Owes(p, q) = None)
      /\ q.kind \in Kinds
  BY <1>2, <1>3 DEF Owes, None, Kinds
<1>s. AfterAnyTime(kind) \in {0, 1, tester.stage}
  BY <1>3 DEF AfterAnyTime
<1>7. /\ tester' \in TesterT /\ tester'.file = tester.file /\ tester'.owed = Owes(p, q)
      /\ tester'.stage = AfterAnyTime(kind)
  <2> DEFINE o == Owes(p, q)
             a == AfterAnyTime(kind)
  <2>1. o \in Kinds \cup {None} /\ a \in Nat
    BY <1>o, <1>s, <1>t
  <2>2. tester' = [tester EXCEPT !.owed = o, !.stage = a]
    BY <1>2
  <2> HIDE DEF o, a
  <2>3. tester' \in TesterT /\ tester'.file = tester.file /\ tester'.owed = o /\ tester'.stage = a
    BY <1>t, <2>1, <2>2 DEF TesterT
  <2> QED
    BY <2>3 DEF o, a
<1>8. ~Stored(c, q, p) /\ ~Begun(c, q, p) /\ ~Exited(c, q, p) /\ ~Emptied(c, q, p)
  BY <1>3 DEF Stored, Begun, Exited, Emptied
<1>d. bl.step = DStep => /\ tester.stage \notin 4..6 /\ dcm.busy = None
                         /\ tester.stage >= 9 /\ Unlocked => Loading
  BY <1>2 DEF IInv, DownOK
<1>9. DownOK'
  <2> SUFFICES ASSUME bl'.step = DStep
               PROVE  /\ tester'.stage \notin 4..6 /\ tester'.owed \in {None, "erase", "11"}
                      /\ dcm'.busy # None => tester'.owed # None
                      /\ tester'.stage >= 9 /\ Unlocked' => Loading'
    BY DEF DownOK
  <2>1. Stayed(c, q, p) /\ bl.step = DStep
    <3>1. ~(Rested(c, q, p) /\ c.bl.step = DStep)
      BY <1>3, <1>6, <1>d DEF Rested, None
    <3> QED
      BY <1>6, <1>8, <3>1, DownloadPass
  <2>2. /\ bl'.dl = bl.dl /\ bl'.pa = bl.pa /\ bl'.cnt = bl.cnt /\ work' = <<>>
        /\ dcm'.seq = dcm.seq /\ dcm'.over = dcm.over
        /\ ~Unlocked' \/ Unlocked
        /\ dcm'.busy = None \/ p.ans = "pend"
        /\ p.ans = "pend" => q.kind = "11"
    BY <1>3, <1>6, <1>d, <2>1 DEF Stayed, Kept, Denied, Unlocked
  <2>3. Owes(p, q) \in {None, "11"} /\ (dcm'.busy # None => Owes(p, q) = "11")
    <3>1. CASE p.ans = "pend"
      BY <1>o, <2>2, <3>1
    <3>2. CASE p.ans # "pend"
      BY <2>2, <1>2, <3>2 DEF Owes
    <3> QED
      BY <3>1, <3>2
  <2>4. ASSUME tester'.stage >= 9, Unlocked' PROVE Loading'
    <3>1. tester.stage >= 9
      BY <1>7, <1>s, <1>t, <2>4
    <3>2. Loading
      BY <1>d, <2>1, <2>2, <2>4, <3>1
    <3> QED
      BY <1>2, <1>7, <2>2, <3>2, StillLoading
  <2>5. tester'.stage \notin 4..6
    BY <1>7, <1>d, <1>s, <1>t, <2>1
  <2> QED
    BY <1>7, <2>3, <2>4, <2>5 DEF None
<1> QED
  BY <1>2, <1>5, <1>7, <1>8, <1>9, PassKeeps DEF c

\* A pass without a request, or with the forged one.
LEMMA LoopInv == ASSUME IInv, Loop PROVE IInv'
<1> DEFINE q == IF dcm.forged THEN [NoRequest EXCEPT !.kind = "1002"] ELSE NoRequest
           p == Pass(Ctx, q)
<1>1. /\ Become(p) /\ UNCHANGED <<run, mem, torn>> /\ run = "boot" /\ work = <<>>
      /\ tester' = [tester EXCEPT !.owed = IF p.ans = None THEN @ ELSE None,
                       !.stage = IF p.ans = "pos" THEN StageAt(tester.owed) ELSE @]
  BY DEF Loop, Ready
<1>2. (q \in Asked /\ q.kind = "1002") \/ q.kind = None
  BY DEF Asked, Kinds, Files, NoRequest
<1>3. /\ Ctx.bl = bl /\ Ctx.dcm = dcm /\ Open(Ctx) /\ Ctx.work = <<>>
  BY <1>1, CtxIs DEF Open
<1>4. p \in CtxT /\ Passed(Ctx, q, p)
  BY <1>2, <1>3, PassIs DEF IInv, IntegOK
<1> DEFINE c == Ctx
<1> HIDE DEF c, q, p
<1>5. /\ bl' = p.bl /\ dcm' = p.dcm /\ work' = p.work
      /\ c.bl = bl /\ c.dcm = dcm /\ c.work = <<>> /\ Passed(c, q, p)
  BY <1>1, <1>3, <1>4 DEF Become, c
<1>t. tester \in TesterT /\ tester.stage \in Nat
  BY DEF IInv, TypesOK, TesterT
<1>s. /\ StageAt(tester.owed) \in {0, 1, 8, 12}
      /\ tester.owed \in {None, "erase", "11"} => StageAt(tester.owed) \in {0, 8}
  BY DEF StageAt, None
<1>6. /\ tester' \in TesterT /\ tester'.file = tester.file
      /\ tester'.owed = IF p.ans = None THEN tester.owed ELSE None
      /\ tester'.stage = IF p.ans = "pos" THEN StageAt(tester.owed) ELSE tester.stage
  <2> DEFINE o == IF p.ans = None THEN tester.owed ELSE None
             a == IF p.ans = "pos" THEN StageAt(tester.owed) ELSE tester.stage
  <2>1. o \in Kinds \cup {None} /\ a \in Nat
    BY <1>s, <1>t DEF TesterT
  <2>2. tester' = [tester EXCEPT !.owed = o, !.stage = a]
    BY <1>1, <1>t DEF TesterT
  <2> HIDE DEF o, a
  <2>3. tester' \in TesterT /\ tester'.file = tester.file /\ tester'.owed = o /\ tester'.stage = a
    BY <1>t, <2>1, <2>2 DEF TesterT
  <2> QED
    BY <2>3 DEF o, a
<1>7. ~Stored(c, q, p) /\ ~Begun(c, q, p) /\ ~Exited(c, q, p) /\ ~Emptied(c, q, p)
  BY <1>2 DEF Stored, Begun, Exited, Emptied, None
<1>8. DownOK'
  <2> SUFFICES ASSUME bl'.step = DStep
               PROVE  /\ tester'.stage \notin 4..6 /\ tester'.owed \in {None, "erase", "11"}
                      /\ dcm'.busy # None => tester'.owed # None
                      /\ tester'.stage >= 9 /\ Unlocked' => Loading'
    BY DEF DownOK
  <2>1. /\ bl.step = DStep
        /\ bl'.dl = bl.dl /\ bl'.pa = bl.pa /\ bl'.cnt = bl.cnt /\ work' = <<>>
        /\ dcm'.seq = dcm.seq /\ dcm'.over = dcm.over
        /\ ~Unlocked' \/ Unlocked
        /\ dcm'.busy = None \/ (dcm'.busy = dcm.busy /\ p.ans = None)
    <3>1. CASE Rested(c, q, p) /\ c.bl.step = DStep
      BY <1>5, <3>1 DEF Rested, Waited, Unlocked
    <3>2. CASE c.dcm.busy = None /\ q \in Asked /\ Stayed(c, q, p) /\ c.bl.step = DStep
      <4>1. q.kind = "1002"
        BY <1>2, <3>2 DEF Asked, Kinds, None
      <4> QED
        BY <1>5, <3>2, <4>1 DEF Stayed, Kept, Denied, Unlocked
    <3> QED
      BY <1>5, <1>7, <3>1, <3>2, DownloadPass
  <2>2. /\ tester.stage \notin 4..6 /\ tester.owed \in {None, "erase", "11"}
        /\ dcm.busy # None => tester.owed # None
        /\ tester.stage >= 9 /\ Unlocked => Loading
    BY <2>1 DEF IInv, DownOK
  <2>3. tester'.stage \in {0, 8, tester.stage}
    BY <1>6, <1>s, <2>2
  <2>4. ASSUME tester'.stage >= 9, Unlocked' PROVE Loading'
    <3>1. Loading
      BY <2>1, <2>2, <2>3, <2>4
    <3> QED
      BY <1>1, <1>6, <2>1, <3>1, StillLoading
  <2>5. tester'.stage \notin 4..6
    BY <1>t, <2>2, <2>3
  <2> QED
    BY <1>6, <2>1, <2>2, <2>4, <2>5
<1> QED
  BY <1>1, <1>4, <1>6, <1>7, <1>8, PassKeeps DEF c

-----------------------------------------------------------------------------
(* The steps in which no request is served.                                 *)

\* Steps of service 11 and of the timers: the download is left, or as it was,
\* or less can be done with it.
LEMMA RestKeeps ==
  ASSUME IInv, work = <<>>, run = "boot", UNCHANGED <<run, mem, tester, torn>>,
         bl' \in BlT, dcm' \in DcmT, tmr' \in TmrT, work' \in Seq(NvOp),
         bl'.step \in Calm \/ (bl' = bl /\ work' \in {<<>>, SystemReset}),
         Unlocked' => Unlocked, dcm'.busy = dcm.busy, dcm'.seq = dcm.seq, dcm'.over = dcm.over
  PROVE  IInv'
<1>1. TypesOK'
  BY Starters DEF IInv, TypesOK
<1>2. WorkOK'
  BY QuietOps DEF WorkOK
<1>3. RunOK'
  BY Distinct DEF IInv, RunOK
<1>4. PreOK'
  BY DEF IInv, PreOK
<1>5. DownOK'
  <2> SUFFICES ASSUME bl'.step = DStep PROVE DownOK'
    BY DEF DownOK
  <2>1. bl' = bl /\ bl.step = DStep
    BY Distinct
  <2>2. Loading => Loading'
    <3> SUFFICES ASSUME Loading PROVE Loading'
      OBVIOUS
    <3>1. Filled(bl.cnt)
      BY DEF Loading
    <3> QED
      BY <2>1, <3>1 DEF Loading, Filled
  <2> QED
    BY <2>1, <2>2 DEF IInv, DownOK
<1>6. IntegOK'
  BY Distinct DEF IInv, IntegOK
<1>7. CheckOK'
  <2> SUFFICES ASSUME bl'.step = CStep PROVE CheckOK'
    BY DEF CheckOK
  <2>1. bl' = bl /\ bl.step = CStep
    BY Distinct
  <2>2. work # SystemReset
    BY DEF SystemReset
  <2>3. bl.dl \in AppFiles /\ mem.pre = Whole(bl.dl) /\ Installing
    BY <2>1, <2>2 DEF IInv, CheckOK
  <2>4. mem[Region] = Whole(bl.dl)
    BY <2>1, InstalledAtRest
  <2>5. CASE work' = <<>>
    BY <2>1, <2>3, <2>5 DEF CheckOK, Installing, DoneOf, Region
  <2>6. CASE work' = SystemReset
    BY <2>1, <2>3, <2>4, <2>6 DEF CheckOK, Region
  <2> QED
    BY <2>1, <2>5, <2>6, Distinct
<1>8. ImagesOK'
  BY ImagesAtRest DEF ImagesOK, Intact, Untouched
<1> QED
  BY <1>1, <1>2, <1>3, <1>4, <1>5, <1>6, <1>7, <1>8 DEF IInv

\* Service 11 before and after its answer.
LEMMA Reset11Inv == ASSUME IInv, Reset11 PROVE IInv'
<1>0. /\ work = <<>> /\ run = "boot" /\ UNCHANGED <<run, mem, tester, torn>>
      /\ bl' = bl /\ tmr' = tmr /\ bl \in BlT /\ tmr \in TmrT /\ dcm \in DcmT
  BY DEF Reset11, Ready, IInv, TypesOK
<1>1. CASE dcm' = [dcm EXCEPT !.res = "pos", !.session = "default", !.sec = "lock"] /\ work' = work
  <2>1. "pos" \in Word /\ "default" \in Word /\ "lock" \in Word
    BY Words
  <2>2. /\ dcm' \in DcmT /\ dcm'.sec = "lock" /\ dcm'.busy = dcm.busy
        /\ dcm'.seq = dcm.seq /\ dcm'.over = dcm.over
    BY <1>0, <1>1, <2>1 DEF DcmT
  <2>3. ~Unlocked'
    BY <2>2 DEF Unlocked
  <2> QED
    BY <1>0, <1>1, <2>2, <2>3, RestKeeps, Starters
<1>2. CASE work' = SystemReset /\ dcm' = dcm
  <2>1. Unlocked' => Unlocked
    BY <1>2 DEF Unlocked
  <2> QED
    BY <1>0, <1>2, <2>1, RestKeeps, Starters
<1> QED
  BY <1>1, <1>2 DEF Reset11

\* The S3 timeout leaves the download or only locks the server.
LEMMA ServerTimeIs ==
  ASSUME NEW c \in CtxT, c.work = <<>>
  PROVE  LET d == ServerTime(c)
         IN  /\ d \in CtxT /\ d.work \in Seq(NvOp)
             /\ d.bl.step \in Calm \/ (d.bl = c.bl /\ d.work = <<>>)
             /\ d.dcm.busy = c.dcm.busy /\ d.dcm.seq = c.dcm.seq /\ d.dcm.over = c.dcm.over
             /\ d.dcm.session = "prog" /\ d.dcm.sec = "L3"
                  => c.dcm.session = "prog" /\ c.dcm.sec = "L3"
<1> DEFINE e == [c EXCEPT !.dcm.session = "default"]
           t == To(e, "GOTO_APP")
           w == NvWrite("chg", "s3")
           x == Queue(t, w)
           d == IF c.tmr.s3 >= S3 /\ c.dcm.session # "default"
                  THEN IF c.bl.valid THEN x ELSE e ELSE c
           l == [d EXCEPT !.dcm.sec = "lock"]
<1>1. ServerTime(c) = IF d.dcm.session = "default" THEN l ELSE d
  BY DEF ServerTime
<1>2. /\ "default" \in Word /\ "lock" \in Word /\ "GOTO_APP" \in Calm /\ w \in Seq(NvOp)
  BY Words, CalmSteps, NvWrites
<1>3. /\ e \in CtxT /\ e.bl = c.bl /\ e.work = c.work /\ e.dcm.session = "default"
      /\ e.dcm.busy = c.dcm.busy /\ e.dcm.seq = c.dcm.seq /\ e.dcm.over = c.dcm.over
  BY <1>2 DEF CtxT, DcmT
<1> HIDE DEF e, w
<1>4. t \in CtxT /\ t.bl.step \in Calm /\ t.work = e.work /\ t.dcm = e.dcm
  BY <1>2, <1>3, CalmTo
<1> HIDE DEF t
<1>5. x \in CtxT /\ x.bl = t.bl /\ x.dcm = t.dcm /\ x.work = t.work \o w
  BY <1>2, <1>4, QueueIs, Starters
<1>6. t.work \o w = w
  BY <1>2, <1>3, <1>4, ConcatEmptySeq
<1> HIDE DEF x
<1>7. d = x \/ d = e \/ d = c
  OBVIOUS
<1> HIDE DEF d
<1>8. /\ d \in CtxT /\ d.work \in Seq(NvOp)
      /\ d.bl.step \in Calm \/ (d.bl = c.bl /\ d.work = <<>>)
      /\ d.dcm.busy = c.dcm.busy /\ d.dcm.seq = c.dcm.seq /\ d.dcm.over = c.dcm.over
      /\ d.dcm.session = "default" \/ d.dcm = c.dcm
  BY <1>2, <1>3, <1>4, <1>5, <1>6, <1>7, Starters
<1>9. /\ l \in CtxT /\ l.bl = d.bl /\ l.work = d.work /\ l.dcm.sec = "lock"
      /\ l.dcm.busy = d.dcm.busy /\ l.dcm.seq = d.dcm.seq /\ l.dcm.over = d.dcm.over
  BY <1>2, <1>8 DEF CtxT, DcmT
<1> HIDE DEF l
<1> QED
  BY <1>1, <1>8, <1>9

\* What a unit of time changes.
LEMMA TickIs ==
  ASSUME IInv, Tick
  PROVE  /\ work = <<>> /\ run = "boot" /\ UNCHANGED <<run, mem, tester, torn>>
         /\ bl' \in BlT /\ dcm' \in DcmT /\ tmr' \in TmrT /\ work' \in Seq(NvOp)
         /\ bl'.step \in Calm \/ (bl' = bl /\ work' = <<>>)
         /\ Unlocked' => Unlocked
         /\ dcm'.busy = dcm.busy /\ dcm'.seq = dcm.seq /\ dcm'.over = dcm.over
<1> DEFINE a == IF bl.step \in DwTimed THEN Minus(tmr.dw) ELSE tmr.dw
           b == Minus(tmr.left)
           e == Minus(tmr.delay)
           g == IF tmr.s3 < S3 THEN tmr.s3 + 1 ELSE S3
           t == [dw |-> a, left |-> b, delay |-> e, s3 |-> g]
           c == [Ctx EXCEPT !.tmr = t]
           d == ServerTime(c)
<1>1. /\ Become(d) /\ work = <<>> /\ run = "boot" /\ UNCHANGED <<run, mem, tester, torn>>
  BY DEF Tick, Ready
<1>2. Ctx \in CtxT /\ Ctx.bl = bl /\ Ctx.dcm = dcm /\ Ctx.work = <<>>
  BY <1>1, CtxIs DEF Open
<1>3. tmr \in TmrT /\ tmr.s3 \in Nat
  BY DEF IInv, TypesOK, TmrT
<1>4. a \in Nat /\ b \in Nat /\ e \in Nat /\ g \in Nat
  BY <1>3, Numbers DEF TmrT, Minus
<1> HIDE DEF a, b, e, g
<1>5. t \in TmrT
  BY <1>4 DEF TmrT
<1> HIDE DEF t
<1>6. c \in CtxT /\ c.bl = bl /\ c.dcm = dcm /\ c.work = <<>>
  BY <1>2, <1>5 DEF CtxT
<1> HIDE DEF c
<1>7. /\ d \in CtxT /\ d.work \in Seq(NvOp)
      /\ d.bl.step \in Calm \/ (d.bl = bl /\ d.work = <<>>)
      /\ d.dcm.busy = dcm.busy /\ d.dcm.seq = dcm.seq /\ d.dcm.over = dcm.over
      /\ d.dcm.session = "prog" /\ d.dcm.sec = "L3"
           => dcm.session = "prog" /\ dcm.sec = "L3"
  BY <1>6, ServerTimeIs
<1> HIDE DEF d
<1>8. /\ bl' \in BlT /\ dcm' \in DcmT /\ tmr' \in TmrT /\ work' \in Seq(NvOp)
      /\ bl'.step \in Calm \/ (bl' = bl /\ work' = <<>>)
      /\ Unlocked' => Unlocked
      /\ dcm'.busy = dcm.busy /\ dcm'.seq = dcm.seq /\ dcm'.over = dcm.over
  BY <1>1, <1>7 DEF Become, CtxT, Unlocked
<1> QED
  BY <1>1, <1>8

\* A unit of time.
LEMMA TickInv == ASSUME IInv, Tick PROVE IInv'
BY TickIs, RestKeeps

-----------------------------------------------------------------------------
(* Resets, the application and the flash.                                   *)

\* After a reset nothing is under way.
LEMMA RestartInv ==
  ASSUME IInv, Restart(mem, nv), mem' = mem, tester' \in TesterT, tester'.file = tester.file,
         torn' \/ \A r \in App : Intact(r) \/ Untouched(r)
  PROVE  IInv'
<1>1. /\ bl' = BlInit /\ bl'.step = "RESET" /\ bl'.step \in Calm /\ work' = <<>>
      /\ dcm' = DcmInit /\ tmr' = TmrInit /\ run' = Starts(mem, nv)
  BY Distinct DEF Restart, BlInit
<1>2. TypesOK'
  BY <1>1, InitTypes, Starters DEF IInv, TypesOK
<1>3. WorkOK'
  BY <1>1, QuietOps DEF WorkOK
<1>4. RunOK'
  BY <1>1, Distinct DEF RunOK, Starts
<1>5. PreOK'
  BY DEF IInv, PreOK
<1>6. DownOK' /\ IntegOK' /\ CheckOK'
  BY <1>1, Distinct DEF DownOK, IntegOK, CheckOK
<1>7. ImagesOK'
  BY DEF ImagesOK, Intact, Untouched
<1> QED
  BY <1>2, <1>3, <1>4, <1>5, <1>6, <1>7 DEF IInv

\* The application resets.
LEMMA AppResetsInv == ASSUME IInv, AppResets PROVE IInv'
<1>1. /\ work = <<>> /\ Restart(mem, nv) /\ UNCHANGED <<mem, tester, torn>>
  BY DEF AppResets
<1>2. tester' \in TesterT /\ tester'.file = tester.file
  BY <1>1 DEF IInv, TypesOK
<1> QED
  BY <1>1, <1>2, ImagesAtRest, RestartInv

\* What is next on an installation that is not finished.
LEMMA InstallHead ==
  ASSUME IInv, bl.step = CStep, work # <<>>, work # SystemReset
  PROVE  /\ Installing /\ Region \in App /\ bl.dl \in AppFiles
         /\ DoneOf \in 0..(2 * Rows - 1) /\ Head(work) = InstallOp(Region, DoneOf + 1)
         /\ Tail(work) \in Works /\ Len(Tail(work)) = Len(work) - 1
         /\ \A j \in 1..Len(work) - 1 : Tail(work)[j] = InstallOp(Region, DoneOf + j + 1)
<1>1. Installing /\ bl.dl \in AppFiles /\ work \in Seq(Op)
  BY DEF IInv, CheckOK, TypesOK, Works
<1>2. Region \in App
  BY <1>1, BootAssumption DEF Region, FileOf, App
<1>3. /\ Len(work) \in Nat /\ Len(work) >= 1 /\ Head(work) = work[1]
      /\ Tail(work) \in Seq(Op) /\ Len(Tail(work)) = Len(work) - 1
      /\ \A j \in 1..Len(work) - 1 : Tail(work)[j] = work[j + 1]
  BY <1>1, HeadTailProperties, EmptySeq, LenProperties
<1>4. /\ Len(work) <= 2 * Rows
      /\ \A j \in 1..Len(work) : work[j] = InstallOp(Region, DoneOf + j)
  BY <1>1 DEF Installing
<1>5. DoneOf \in 0..(2 * Rows - 1)
  BY <1>3, <1>4, Numbers DEF DoneOf
<1>6. \A j \in 1..Len(work) - 1 : Tail(work)[j] = InstallOp(Region, DoneOf + j + 1)
  <2> TAKE j \in 1..Len(work) - 1
  <2>1. j + 1 \in 1..Len(work) /\ DoneOf + (j + 1) = DoneOf + j + 1
    BY <1>3, <1>5, Numbers
  <2> QED
    BY <1>3, <1>4, <2>1
<1> QED
  BY <1>1, <1>2, <1>3, <1>4, <1>5, <1>6 DEF Works

\* An installation erases, then copies.
LEMMA InstallOpIs ==
  ASSUME NEW r, NEW n \in Nat
  PROVE  /\ n <= Rows => InstallOp(r, n) = EraseOp(r, n)
         /\ ~(n <= Rows) => InstallOp(r, n) = CopyOp(r, n - Rows)
         /\ InstallOp(r, n).op \in {"erase", "copy"} /\ InstallOp(r, n).at = r
BY DEF InstallOp, EraseOp, CopyOp

\* A supply failure in the middle of an installation is recorded in torn.
LEMMA PowerCutInv == ASSUME IInv, PowerCut PROVE IInv'
<1>1. /\ Restart(mem, nv) /\ mem' = mem /\ tester' = [tester EXCEPT !.owed = None]
      /\ torn' = (torn \/ \E i \in DOMAIN work : work[i].op \in {"erase", "copy"} /\ work[i].at \in App)
  BY DEF PowerCut
<1>2. tester' \in TesterT /\ tester'.file = tester.file
  BY <1>1 DEF IInv, TypesOK, TesterT
<1>3. CASE torn \/ \A r \in App : Intact(r) \/ Untouched(r)
  BY <1>1, <1>2, <1>3, RestartInv
<1>4. CASE ~(torn \/ \A r \in App : Intact(r) \/ Untouched(r))
  <2>1. bl.step = CStep /\ work # <<>> /\ work # SystemReset
    BY <1>4 DEF IInv, ImagesOK
  <2>2. /\ Region \in App /\ DoneOf \in 0..(2 * Rows - 1)
        /\ Head(work) = InstallOp(Region, DoneOf + 1)
    BY <2>1, InstallHead
  <2>3. Head(work).op \in {"erase", "copy"} /\ Head(work).at = Region
    BY <2>2, InstallOpIs, Numbers
  <2>4. 1 \in DOMAIN work /\ work[1] = Head(work)
    <3>1. work \in Seq(Op)
      BY DEF IInv, TypesOK, Works
    <3> QED
      BY <2>1, <3>1, HeadTailProperties, EmptySeq, LenProperties
  <2>5. torn'
    BY <1>1, <2>2, <2>3, <2>4
  <2> QED
    BY <1>1, <1>2, <2>5, RestartInv
<1> QED
  BY <1>3, <1>4

\* The application only writes EEPROM words.
LEMMA AppWord == ASSUME AppServes1002 PROVE work' \in Seq(NvOp)
<1>1. /\ NvWrite("update", "1") \in Seq(NvOp) /\ NvWrite("chg", "1002") \in Seq(NvOp)
      /\ NvWrite("jump", "boot") \in Seq(NvOp)
  <2>1. /\ "update" \in Key /\ "chg" \in Key /\ "jump" \in Key
        /\ "1" \in Value /\ "1002" \in Value /\ "boot" \in Value
    BY DEF Key, Value
  <2> QED
    BY <2>1, Starters
<1> QED
  BY <1>1, Starters DEF AppServes1002

\* The application leaves its word for the boot loader.
LEMMA AppServesInv == ASSUME IInv, AppServes1002 PROVE IInv'
<1>1. /\ run = "app" /\ UNCHANGED <<run, mem, bl, dcm, tmr, torn>> /\ work = <<>>
      /\ work' = NvWrite("update", "1") \o NvWrite("chg", "1002") \o NvWrite("jump", "boot") \o SystemReset
      /\ tester' = [tester EXCEPT !.owed = "1002", !.stage = 0]
  BY DEF AppServes1002
<1>2. bl.step = "RESET" /\ bl.step \in Calm
  BY <1>1, Distinct DEF IInv, RunOK
<1>3. tester' \in TesterT /\ tester'.file = tester.file
  BY <1>1 DEF IInv, TypesOK, TesterT, Kinds
<1>4. work' \in Seq(NvOp)
  BY AppWord
<1>5. TypesOK'
  BY <1>1, <1>3, <1>4, Starters DEF IInv, TypesOK
<1>6. WorkOK'
  BY <1>4, QuietOps DEF WorkOK
<1>7. RunOK' /\ PreOK'
  BY <1>1, <1>3 DEF IInv, RunOK, PreOK
<1>8. DownOK' /\ IntegOK' /\ CheckOK'
  BY <1>1, <1>2, Distinct DEF DownOK, IntegOK, CheckOK
<1>9. ImagesOK'
  BY <1>1, ImagesAtRest DEF ImagesOK, Intact, Untouched
<1> QED
  BY <1>5, <1>6, <1>7, <1>8, <1>9 DEF IInv

-----------------------------------------------------------------------------

\* A queued reset comes after everything before it is done.
LEMMA FlashReset == ASSUME IInv, Flash, Head(work).op = "reset" PROVE IInv'
<1>1. /\ Restart(mem, nv) /\ mem' = mem /\ torn' = torn /\ work # <<>>
      /\ tester' = [tester EXCEPT !.owed = IF @ = "11" THEN None ELSE @]
  BY DEF Flash
<1>2. tester' \in TesterT /\ tester'.file = tester.file
  <2> DEFINE o == IF tester.owed = "11" THEN None ELSE tester.owed
  <2>1. tester' = [tester EXCEPT !.owed = o] /\ o \in Kinds \cup {None} /\ tester \in TesterT
    BY <1>1 DEF IInv, TypesOK, TesterT
  <2> HIDE DEF o
  <2> QED
    BY <2>1 DEF TesterT
<1>3. torn \/ \A r \in App : Intact(r) \/ Untouched(r)
  <2>1. ~(bl.step = CStep /\ work # SystemReset)
    <3> SUFFICES ASSUME bl.step = CStep, work # SystemReset PROVE FALSE
      OBVIOUS
    <3>1. DoneOf \in 0..(2 * Rows - 1) /\ Head(work) = InstallOp(Region, DoneOf + 1)
      BY <1>1, InstallHead
    <3>2. Head(work).op \in {"erase", "copy"}
      BY <3>1, InstallOpIs, Numbers
    <3> QED
      BY <3>2
  <2> QED
    BY <2>1 DEF IInv, ImagesOK
<1> QED
  BY <1>1, <1>2, <1>3, RestartInv

\* An operation of an installation.
LEMMA FlashInstall ==
  ASSUME IInv, Flash, bl.step = CStep, work # SystemReset, Head(work).op # "reset"
  PROVE  IInv'
<1>0. /\ work # <<>> /\ work' = Tail(work) /\ UNCHANGED <<run, bl, dcm, tmr, tester, torn>>
      /\ Head(work).op = "erase" => mem' = [mem EXCEPT ![Head(work).at][Head(work).row] = Blank]
      /\ Head(work).op = "copy" => mem' = Program(mem, Head(work).at, Head(work).row, mem.pre[Head(work).row])
  BY DEF Flash
<1> DEFINE R == Region
           N == DoneOf
<1>1. /\ Installing /\ R \in App /\ bl.dl \in AppFiles
      /\ N \in 0..(2 * Rows - 1) /\ Head(work) = InstallOp(R, N + 1)
      /\ Tail(work) \in Works /\ Len(Tail(work)) = Len(work) - 1
      /\ \A j \in 1..Len(work) - 1 : Tail(work)[j] = InstallOp(R, N + j + 1)
  BY <1>0, InstallHead
<1>2. /\ Rows \in Nat /\ mem \in [Regions -> [1..Rows -> Cell]] /\ mem.pre = Whole(bl.dl)
      /\ R \in Regions /\ "pre" \in Regions /\ R # "pre"
  BY <1>1, Numbers DEF IInv, TypesOK, CheckOK, App, Regions
<1>3. /\ Len(work) <= 2 * Rows /\ N = 2 * Rows - Len(work) /\ Len(work) \in Nat
      /\ DoneOf' = N + 1 /\ Region' = R
  <2>1. Len(work) \in Nat
    BY LenProperties DEF IInv, TypesOK, Works
  <2> QED
    BY <1>0, <1>1, <1>2, <2>1 DEF Installing, DoneOf, Region
<1>4. \A i \in 1..Rows : /\ i <= N /\ N < Rows + i => mem[R][i] = Blank
                         /\ N >= Rows + i => mem[R][i] = Block(bl.dl, i)
  BY <1>1 DEF Installing
<1> HIDE DEF R, N
<1> DEFINE row == IF N + 1 <= Rows THEN N + 1 ELSE N + 1 - Rows
           val == IF N + 1 <= Rows THEN Blank ELSE Block(bl.dl, row)
<1>5. row \in 1..Rows /\ val \in Cell
  <2>1. row \in 1..Rows
    BY <1>1, <1>2
  <2>2. \A i \in Nat : Block(bl.dl, i) \in Cell /\ Blank \in Cell
    BY <1>1 DEF Block, Cell, Files
  <2> QED
    BY <2>1, <2>2, <1>2
<1>6. mem' = [mem EXCEPT ![R] = [mem[R] EXCEPT ![row] = val]]
  <2>1. CASE N + 1 <= Rows
    <3>1. Head(work) = EraseOp(R, row)
      BY <1>1, <2>1, InstallOpIs
    <3>2. mem' = [mem EXCEPT ![R][row] = Blank]
      BY <1>0, <3>1 DEF EraseOp
    <3> QED
      BY <1>2, <2>1, <3>2
  <2>2. CASE ~(N + 1 <= Rows)
    <3>1. Head(work) = CopyOp(R, row)
      BY <1>1, <1>2, <2>2, InstallOpIs
    <3>2. mem' = Program(mem, R, row, mem.pre[row])
      BY <1>0, <3>1 DEF CopyOp
    <3>3. mem.pre[row] = val
      BY <1>2, <1>5, <2>2 DEF Whole
    <3>4. mem[R][row] = Blank
      BY <1>1, <1>2, <1>4, <1>5, <2>2
    <3> QED
      BY <1>2, <1>5, <3>2, <3>3, <3>4 DEF Program
  <2> QED
    BY <2>1, <2>2
<1>7. /\ mem' \in [Regions -> [1..Rows -> Cell]] /\ mem'.pre = mem.pre
      /\ \A r \in Regions : r # R => mem'[r] = mem[r]
      /\ \A i \in 1..Rows : mem'[R][i] = IF i = row THEN val ELSE mem[R][i]
  BY <1>2, <1>5, <1>6
<1>l. Len(work') = Len(work) - 1
  BY <1>0, <1>1
<1>8. TypesOK'
  BY <1>0, <1>1, <1>7 DEF IInv, TypesOK
<1>9. WorkOK' /\ RunOK' /\ PreOK' /\ DownOK' /\ IntegOK'
  BY <1>0, <1>7, Distinct DEF IInv, WorkOK, RunOK, PreOK, DownOK, IntegOK
<1>10. Installing'
  <2>1. Len(work') = Len(work) - 1
    BY <1>l
  <2>2. \A j \in 1..Len(work') : work'[j] = InstallOp(R, (N + 1) + j)
    <3> TAKE j \in 1..Len(work')
    <3>1. N + j + 1 = (N + 1) + j
      BY <1>1, <1>2, <1>3, <2>1
    <3> QED
      BY <1>0, <1>1, <2>1, <3>1
  <2>3. \A i \in 1..Rows : /\ i <= N + 1 /\ N + 1 < Rows + i => mem'[R][i] = Blank
                           /\ N + 1 >= Rows + i => mem'[R][i] = Block(bl.dl, i)
    <3> TAKE i \in 1..Rows
    <3>1. CASE N + 1 <= Rows
      BY <1>1, <1>2, <1>4, <1>7, <3>1
    <3>2. CASE ~(N + 1 <= Rows)
      BY <1>1, <1>2, <1>4, <1>7, <3>2
    <3> QED
      BY <3>1, <3>2
  <2> QED
    BY <1>0, <1>2, <1>3, <2>1, <2>2, <2>3 DEF Installing
<1>11. CheckOK'
  BY <1>0, <1>1, <1>2, <1>7, <1>10 DEF CheckOK
<1>12. ImagesOK'
  <2>1. CASE torn
    BY <1>0, <2>1 DEF ImagesOK
  <2>2. CASE ~torn
    <3> SUFFICES ASSUME NEW r \in App
                 PROVE  \/ Intact(r)' \/ Untouched(r)'
                        \/ r = R /\ work' # <<>> /\ work' # SystemReset
      BY <1>0, <1>3 DEF ImagesOK
    <3>1. CASE r # R
      <4>1. Intact(r) \/ Untouched(r)
        BY <2>2, <3>1 DEF IInv, ImagesOK, R
      <4>2. mem'[r] = mem[r]
        BY <1>7, <3>1 DEF App, Regions
      <4> QED
        BY <4>1, <4>2 DEF Intact, Untouched
    <3>2. CASE r = R /\ work' = <<>>
      <4>1. N + 1 = 2 * Rows
        <5>1. Len(work') = 0
          BY <3>2, EmptySeq
        <5>2. \A m \in Nat : \A l : l = m - 1 /\ l = 0 /\ N = 2 * Rows - m => N + 1 = 2 * Rows
          BY <1>2
        <5> QED
          BY <1>3, <1>l, <5>1, <5>2
      <4>2. \A i \in 1..Rows : mem'[R][i] = Block(bl.dl, i)
        BY <1>3, <1>10, <4>1, <1>2, <1>0 DEF Installing
      <4>3. mem'[R] \in [1..Rows -> Cell]
        BY <1>2, <1>7
      <4>4. mem'[R] = Whole(bl.dl)
        BY <4>2, <4>3 DEF Whole
      <4> QED
        BY <1>1, <3>2, <4>4 DEF Intact
    <3>3. CASE r = R /\ work' # <<>>
      <4>1. work' # SystemReset
        <5> SUFFICES ASSUME work' = SystemReset PROVE FALSE
          OBVIOUS
        <5>1. Len(work') = 1 /\ work'[1].op = "reset"
          BY DEF SystemReset
        <5>2. work'[1] = InstallOp(R, N + 1 + 1)
          <6>1. 1 \in 1..Len(work) - 1
            <7>1. \A m \in Nat : \A l : l = m - 1 /\ l = 1 => 1 \in 1..m - 1
              OBVIOUS
            <7> QED
              BY <1>3, <1>l, <5>1, <7>1
          <6> QED
            BY <1>0, <1>1, <6>1
        <5> QED
          BY <1>1, <5>1, <5>2, InstallOpIs
      <4> QED
        BY <3>3, <4>1
    <3> QED
      BY <3>1, <3>2, <3>3
  <2> QED
    BY <2>1, <2>2
<1> QED
  BY <1>8, <1>9, <1>11, <1>12 DEF IInv

\* An operation outside an installation.
LEMMA FlashQuiet ==
  ASSUME IInv, Flash, bl.step # CStep, Head(work).op # "reset"
  PROVE  IInv'
<1> DEFINE o == Head(work)
           f == tester.file
<1>0. /\ work # <<>> /\ work' = Tail(work) /\ UNCHANGED <<run, bl, dcm, tmr, tester, torn>>
      /\ mem' = CASE o.op = "erase" -> [mem EXCEPT ![o.at][o.row] = Blank]
                  [] o.op = "write" -> Program(mem, o.at, o.row, o.val)
                  [] o.op = "copy" -> Program(mem, o.at, o.row, mem.pre[o.row])
                  [] o.op = "nv" -> mem
  BY DEF Flash
<1>1. /\ work \in Seq(Quiet(f)) /\ work \in Works /\ Rows \in Nat
      /\ mem \in [Regions -> [1..Rows -> Cell]] /\ "pre" \in Regions
      /\ \A i \in 1..Rows : mem.pre[i] \in {Blank, Block(f, i)}
      /\ f \in Files
  BY Numbers DEF IInv, WorkOK, TypesOK, Regions, PreOK, TesterT
<1>2. /\ o \in Quiet(f) /\ Tail(work) \in Seq(Quiet(f)) /\ Tail(work) \in Works
  BY <1>0, <1>1, HeadTailProperties DEF Works
<1>3. \/ o \in NvOp /\ o.op = "nv"
      \/ \E i \in 1..Rows : o = EraseOp("pre", i)
      \/ \E i \in 1..Rows : o = Write(i, Block(f, i))
  BY <1>2 DEF Quiet, NvOp
<1>4. work \in Seq(NvOp) => o \in NvOp /\ Tail(work) \in Seq(NvOp)
  BY <1>0, HeadTailProperties
<1>w. \A i, v : work = <<Write(i, v)>> => o = Write(i, v) /\ Tail(work) = <<>>
  OBVIOUS
<1>5. \A r : o # EraseOp("pre", r) \/ (o \notin NvOp /\ o.op # "write")
  BY DEF EraseOp, NvOp
<1>6. \A i, v : o = Write(i, v) => o \notin NvOp
  BY DEF Write, NvOp
<1> HIDE DEF o, f
<1>f. f = tester.file
  BY DEF f
\* the staging area after the operation
<1>7. /\ mem' \in [Regions -> [1..Rows -> Cell]]
      /\ \A r \in App : mem'[r] = mem[r]
      /\ o \in NvOp => mem' = mem
      /\ \A i \in 1..Rows : mem'.pre[i] \in {Blank, Block(f, i)}
      /\ \A i \in 1..Rows : o = Write(i, Block(f, i)) =>
           /\ mem'.pre[i] = Block(f, i)
           /\ \A j \in 1..Rows : j # i => mem'.pre[j] = mem.pre[j]
  <2>a. App \subseteq Regions /\ "pre" \notin App /\ Blank \in Cell
    BY DEF App, Regions, Cell
  <2>1. CASE o \in NvOp /\ o.op = "nv"
    <3>1. mem' = mem
      BY <1>0, <2>1
    <3>2. \A i \in 1..Rows : o # Write(i, Block(f, i))
      BY <1>6, <2>1
    <3> QED
      BY <1>1, <3>1, <3>2
  <2>2. ASSUME NEW i \in 1..Rows, o = EraseOp("pre", i)
        PROVE  /\ mem' \in [Regions -> [1..Rows -> Cell]]
               /\ \A r \in App : mem'[r] = mem[r]
               /\ \A j \in 1..Rows : mem'.pre[j] \in {Blank, Block(f, j)}
    <3>1. mem' = [mem EXCEPT !["pre"][i] = Blank]
      BY <1>0, <2>2 DEF EraseOp
    <3> QED
      BY <1>1, <2>a, <3>1
  <2>3. ASSUME NEW i \in 1..Rows, o = Write(i, Block(f, i))
        PROVE  /\ mem' \in [Regions -> [1..Rows -> Cell]]
               /\ \A r \in App : mem'[r] = mem[r]
               /\ \A j \in 1..Rows : mem'.pre[j] \in {Blank, Block(f, j)}
               /\ mem'.pre[i] = Block(f, i)
               /\ \A j \in 1..Rows : j # i => mem'.pre[j] = mem.pre[j]
    <3>1. mem' = Program(mem, "pre", i, Block(f, i))
      BY <1>0, <2>3 DEF Write
    <3>2. mem.pre[i] \in {Blank, Block(f, i)}
      BY <1>1, <2>3
    <3>3. mem' = [mem EXCEPT !["pre"][i] = Block(f, i)]
      BY <1>1, <2>3, <3>1, <3>2 DEF Program
    <3>4. Block(f, i) \in Cell
      BY <1>1 DEF Block, Cell
    <3> QED
      BY <1>1, <2>a, <3>3, <3>4
  <2>4. CASE \E i \in 1..Rows : o = EraseOp("pre", i)
    <3>1. PICK i \in 1..Rows : o = EraseOp("pre", i)
      BY <2>4
    <3>2. o \notin NvOp /\ \A j \in 1..Rows : o # Write(j, Block(f, j))
      BY <3>1, <1>5 DEF Write
    <3> QED
      BY <2>2, <3>1, <3>2
  <2>5. CASE \E i \in 1..Rows : o = Write(i, Block(f, i))
    <3>1. PICK i \in 1..Rows : o = Write(i, Block(f, i))
      BY <2>5
    <3>2. \A j \in 1..Rows : o = Write(j, Block(f, j)) => j = i
      BY <3>1 DEF Write
    <3> QED
      BY <1>6, <2>3, <3>1, <3>2
  <2> QED
    BY <1>3, <2>1, <2>4, <2>5
<1>8. TypesOK' /\ WorkOK' /\ PreOK'
  BY <1>0, <1>2, <1>7, <1>f DEF IInv, TypesOK, WorkOK, PreOK
<1>9. RunOK'
  <2>1. "m0" \in App
    BY DEF App
  <2> QED
    BY <1>0, <1>7, <2>1 DEF IInv, RunOK
<1>10. Loading => Loading'
  <2> SUFFICES ASSUME Loading PROVE Loading'
    OBVIOUS
  <2>1. CASE work \in Seq(NvOp) /\ Filled(bl.cnt)
    BY <1>0, <1>4, <1>7, <2>1 DEF Loading, Filled
  <2>2. CASE /\ bl.cnt > 0 /\ work = <<Write(bl.cnt, Block(bl.dl, bl.cnt))>>
             /\ Filled(bl.cnt - 1)
    <3>1. bl.cnt \in 1..Rows /\ bl.dl = f
      BY <1>1, <1>f, <2>2 DEF Loading, IInv, TypesOK, BlT
    <3>2. o = Write(bl.cnt, Block(f, bl.cnt)) /\ work' = <<>>
      BY <1>0, <1>w, <2>2, <3>1
    <3>3. \A j \in 1..bl.cnt : mem'.pre[j] = Block(bl.dl, j)
      <4> TAKE j \in 1..bl.cnt
      <4>1. j \in 1..Rows /\ (j # bl.cnt => j \in 1..bl.cnt - 1)
        BY <1>1, <3>1
      <4> QED
        BY <1>7, <2>2, <3>1, <3>2, <4>1 DEF Filled
    <3>4. Filled(bl.cnt)' /\ work' \in Seq(NvOp)
      BY <1>0, <3>2, <3>3, Starters DEF Filled
    <3> QED
      BY <1>0, <3>4 DEF Loading
  <2> QED
    BY <2>1, <2>2 DEF Loading
<1>11. DownOK'
  BY <1>0, <1>10 DEF IInv, DownOK, Unlocked
<1>12. IntegOK'
  BY <1>0, <1>4, <1>7 DEF IInv, IntegOK
<1>13. CheckOK'
  BY <1>0 DEF CheckOK
<1>14. ImagesOK'
  <2>1. torn \/ \A r \in App : Intact(r) \/ Untouched(r)
    BY DEF IInv, ImagesOK
  <2> QED
    BY <1>0, <1>7, <2>1 DEF ImagesOK, Intact, Untouched
<1> QED
  BY <1>8, <1>9, <1>11, <1>12, <1>13, <1>14 DEF IInv

\* Any operation on the flash.
LEMMA FlashInv == ASSUME IInv, Flash PROVE IInv'
<1>1. Head(SystemReset).op = "reset"
  BY DEF SystemReset
<1> QED
  BY <1>1, FlashReset, FlashInstall, FlashQuiet

\* IInv is inductive.
LEMMA Inductive == ASSUME ~MixFiles, IInv, [Next]_vars PROVE IInv'
<1>1. CASE RequestInOrder
  BY <1>1, InOrderInv
<1>2. CASE RequestAnyTime
  BY <1>2, AnyTimeInv
<1>3. CASE AppServes1002
  BY <1>3, AppServesInv
<1>4. CASE Loop
  BY <1>4, LoopInv
<1>5. CASE Reset11
  BY <1>5, Reset11Inv
<1>6. CASE Tick
  BY <1>6, TickInv
<1>7. CASE Flash
  BY <1>7, FlashInv
<1>8. CASE PowerCut
  BY <1>8, PowerCutInv
<1>9. CASE AppResets
  BY <1>9, AppResetsInv
<1>10. CASE UNCHANGED vars
  BY <1>10 DEF vars, IInv, TypesOK, WorkOK, RunOK, PreOK, DownOK, Unlocked, Loading, Filled,
               IntegOK, CheckOK, Installing, DoneOf, Region, ImagesOK, Intact, Untouched
<1> QED
  BY <1>1, <1>2, <1>3, <1>4, <1>5, <1>6, <1>7, <1>8, <1>9, <1>10 DEF Next, Request

\* The inductive invariant holds in every reachable state: staging area, transfer
\* counters, queued flash operations and images agree (bl_service_34_cbk,
\* bl_service_36_cbk, bl_service_31_cbk, bootloader_main_process).
THEOREM Invariant == ASSUME ~MixFiles PROVE Spec => []IInv
<1>1. Init => IInv
  BY InitInv
<1>2. IInv /\ [Next]_vars => IInv'
  BY Inductive
<1> QED
  BY <1>1, <1>2, PTL DEF Spec

\* An image that DOWNLOAD_INTEGRITY is told has been installed is, row by row,
\* the file the tester sent, however its blocks were repeated or restarted: for
\* every number of files and rows (bootloader_main_process, routine 31 01 0202).
THEOREM InstalledHolds == ASSUME ~MixFiles PROVE Spec => []InstalledIsSent
<1>1. IInv => InstalledIsSent
  BY InstalledAtRest DEF InstalledIsSent, CStep, Region
<1> QED
  BY <1>1, Invariant, PTL

\* The application that hardware_init starts has a whole m0 image, and an m4
\* image that is whole or was never written, unless the supply failed in the
\* middle of an installation.
THEOREM StartsWholeHolds == ASSUME ~MixFiles PROVE Spec => []StartsWhole
<1>1. IInv => StartsWhole
  <2> SUFFICES ASSUME IInv, run = "app", ~torn
               PROVE  Intact("m0") /\ (Intact("m4") \/ Untouched("m4"))
    BY DEF StartsWhole
  <2>1. bl.step # CStep /\ mem.m0[1] # Blank
    BY DEF IInv, RunOK, CStep
  <2>2. \A r \in App : Intact(r) \/ Untouched(r)
    BY <2>1 DEF IInv, ImagesOK
  <2>3. ~Untouched("m0")
    BY <2>1, Numbers DEF Untouched
  <2> QED
    BY <2>2, <2>3 DEF App
<1> QED
  BY <1>1, Invariant, PTL

-----------------------------------------------------------------------------
(* Which steps queue operations on the areas.                               *)

\* Writes of EEPROM words touch no area.
LEMMA NvTouchesNothing ==
  ASSUME NEW w \in Seq(NvOp)
  PROVE  ~Touches(w)
<1>1. \A i \in DOMAIN w : w[i] \in NvOp
  BY LenProperties
<1> QED
  BY <1>1 DEF Touches, NvOp

\* A pass queues such operations only when unlocked.
LEMMA PassTouches ==
  ASSUME NEW c, NEW q, NEW p, Passed(c, q, p), Touches(p.work)
  PROVE  p.dcm.session = "prog" /\ p.dcm.sec = "L3"
<1>1. ~Touches(<<>>)
  BY NvTouchesNothing, Starters
<1>2. ~Left(p)
  BY NvTouchesNothing DEF Left
<1>3. Stored(c, q, p) \/ Installed(c, q, p) \/ Emptied(c, q, p)
  BY <1>1, <1>2 DEF Passed, Rested, Waited, Stayed, Begun, Exited
<1> QED
  BY <1>3 DEF Stored, Installed, Emptied, Denied

\* So does every step.
LEMMA TouchesSafely ==
  ASSUME IInv, Next, ~Touches(work), Touches(work')
  PROVE  dcm'.session = "prog" /\ dcm'.sec = "L3"
<1>0. ~Touches(<<>>) /\ ~Touches(SystemReset)
  BY NvTouchesNothing, Starters
<1>1. ASSUME NEW q, q.kind = None \/ q \in Asked, Become(Pass(Ctx, q)), work = <<>>
      PROVE  dcm'.session = "prog" /\ dcm'.sec = "L3"
  <2>1. Open(Ctx) /\ Ctx.bl = bl
    BY <1>1, CtxIs
  <2>2. Passed(Ctx, q, Pass(Ctx, q))
    BY <1>1, <2>1, PassIs DEF IInv, IntegOK
  <2>3. dcm' = Pass(Ctx, q).dcm /\ work' = Pass(Ctx, q).work
    BY <1>1 DEF Become
  <2> QED
    BY <2>2, <2>3, PassTouches
<1>2. CASE RequestInOrder
  <2>1. work = <<>> /\ \E q : q \in Asked /\ Become(Pass(Ctx, q))
    <3>1. PICK k \in DOMAIN Order, f \in Files, n \in 0..Rows :
            Become(Pass(Ctx, [kind |-> Order[k], file |-> f, num |-> n]))
      BY <1>2 DEF RequestInOrder
    <3>2. [kind |-> Order[k], file |-> f, num |-> n] \in Asked
      BY OrderIs, Numbers DEF Asked
    <3> QED
      BY <1>2, <3>1, <3>2 DEF RequestInOrder, Asks, Ready
  <2> QED
    BY <1>1, <2>1
<1>3. CASE RequestAnyTime
  <2>1. work = <<>> /\ \E q : q \in Asked /\ Become(Pass(Ctx, q))
    <3>1. PICK kind \in AnyTime :
            Become(Pass(Ctx, [kind |-> kind, file |-> "driver", num |-> 0]))
      BY <1>3 DEF RequestAnyTime
    <3>2. [kind |-> kind, file |-> "driver", num |-> 0] \in Asked
      BY DEF Asked, AnyTime, Kinds, Files
    <3> QED
      BY <1>3, <3>1, <3>2 DEF RequestAnyTime, Asks, Ready
  <2> QED
    BY <1>1, <2>1
<1>4. CASE Loop
  <2> DEFINE q == IF dcm.forged THEN [NoRequest EXCEPT !.kind = "1002"] ELSE NoRequest
  <2>1. Become(Pass(Ctx, q)) /\ work = <<>>
    BY <1>4 DEF Loop, Ready
  <2>2. q.kind = None \/ q \in Asked
    BY DEF Asked, Kinds, Files, NoRequest
  <2> HIDE DEF q
  <2> QED
    BY <1>1, <2>1, <2>2
<1>5. CASE AppServes1002
  <2>1. work' \in Seq(NvOp)
    BY <1>5, AppWord
  <2> QED
    BY <2>1, NvTouchesNothing
<1>6. CASE Reset11
  BY <1>0, <1>6 DEF Reset11
<1>7. CASE Tick
  <2>1. work' \in Seq(NvOp)
    BY <1>7, TickIs
  <2> QED
    BY <2>1, NvTouchesNothing
<1>8. CASE Flash
  <2>1. CASE work' = <<>>
    BY <1>0, <2>1
  <2>2. CASE work' = Tail(work) /\ work # <<>>
    <3>1. \A i \in DOMAIN Tail(work) : i + 1 \in DOMAIN work /\ Tail(work)[i] = work[i + 1]
      <4>1. work \in Seq(Op)
        BY DEF IInv, TypesOK, Works
      <4>2. /\ Len(work) \in Nat /\ DOMAIN work = 1..Len(work)
            /\ Len(Tail(work)) = Len(work) - 1 /\ DOMAIN Tail(work) = 1..Len(Tail(work))
            /\ \A i \in 1..Len(work) - 1 : Tail(work)[i] = work[i + 1]
        BY <2>2, <4>1, HeadTailProperties, LenProperties
      <4> QED
        BY <4>2
    <3> QED
      BY <2>2, <3>1 DEF Touches
  <2> QED
    BY <1>8, <2>1, <2>2 DEF Flash, Restart
<1>9. CASE PowerCut \/ AppResets
  BY <1>0, <1>9 DEF PowerCut, AppResets, Restart
<1> QED
  BY <1>2, <1>3, <1>4, <1>5, <1>6, <1>7, <1>8, <1>9 DEF Next, Request

\* A pass queues operations on the image areas or the staging area only in the
\* programming session with security level L3 granted (the guards of
\* app_request_download, app_transfer_data and app_routine_control).
THEOREM SafeWritesHolds == ASSUME ~MixFiles PROVE Spec => SafeWrites
<1>1. IInv /\ [Next]_vars
        => [~Touches(work) /\ Touches(work') => dcm'.session = "prog" /\ dcm'.sec = "L3"]_vars
  BY TouchesSafely
<1> QED
  BY <1>1, Invariant, PTL DEF Spec, SafeWrites
===============================================================================
