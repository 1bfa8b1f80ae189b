---------------------------- MODULE AppDcmProofs ----------------------------
(***************************************************************************)
(* The resets of the diagnostic server, for any requests on both addresses *)
(* and all delays: the hand-over is stored before the reset, and a granted *)
(* service 11 is answered before one.                                      *)
(*                                                                         *)
(* A pass is cut into its parts; each part is described by the few things  *)
(* it can do to what the invariants look at, and the invariants are shown  *)
(* from these descriptions alone.                                          *)
(***************************************************************************)
EXTENDS AppDcm, TLAPS

\* The types, with names for the sets of the records' fields.
Bool == BOOLEAN
Sessions == {"default", "extended"}
Keys27 == {"idle", "seed"}
Nrcs == {"INIT", "POS", "PEDING"}
Steps == {"PENDING", "CHK_UPDATE_FLG", "ECU_RESET"}
Answers == {"none", "silent", "pos", "neg", "pend"}
Items == HandOver \cup Dids
Slots == Dids \cup {"none"}
Held == Requests \cup {None}
Mem == [session : Sessions, unlocked : Bool, sid27 : Keys27, s3 : Nat, busy : Held,
        nrc11 : Nrcs, reset11 : Bool, t11 : Nat, txOff : Bool, dtcOn : Bool, slot : Slots,
        t2e : Nat, step : Steps, left : Nat, cnt : Nat]
Inbox == [Chan -> Held]
Queue == Items \cup {"none"}
Image == [Items -> Bool]
Ctx == [m : Mem, rx : Inbox, flash : Queue, nv : Image, ans : Answers, to : Held, ch : Chan,
        reset : Bool]

\* The parts of a context.
LEMMA Parts ==
  ASSUME NEW c \in Ctx
  PROVE  c.m \in Mem /\ c.rx \in Inbox /\ c.flash \in Queue /\ c.nv \in Image
         /\ c.ans \in Answers /\ c.to \in Held /\ c.ch \in Chan /\ c.reset \in Bool
  BY DEF Ctx

\* What the invariants look at in the server's variables.
Alike(m, n) ==
  /\ n.s3 = m.s3 /\ n.busy = m.busy /\ n.nrc11 = m.nrc11 /\ n.reset11 = m.reset11
  /\ n.t11 = m.t11 /\ n.step = m.step /\ n.left = m.left /\ n.cnt = m.cnt
\* What no part of a pass but the first changes; nothing that is stored gets lost.
Around(c, d) ==
  /\ d \in Ctx /\ d.ans = c.ans /\ d.to = c.to /\ d.ch = c.ch
  /\ \A k \in Items : c.nv[k] => d.nv[k]

\* A positive answer changes nothing but the answer.
LEMMA PosIs ==
  ASSUME NEW c \in Ctx, NEW q \in Requests
  PROVE  LET d == Pos(c, q)
         IN /\ d \in Ctx /\ d.m = c.m /\ d.nv = c.nv /\ d.reset = c.reset /\ d.to = c.to
            /\ d.ch = c.ch /\ d.ans \in {"pos", "silent"}
  BY DEF Pos, Ctx, Answers
\* Nor does a negative one.
LEMMA NegIs ==
  ASSUME NEW c \in Ctx
  PROVE  LET d == Neg(c)
         IN /\ d \in Ctx /\ d.m = c.m /\ d.nv = c.nv /\ d.reset = c.reset /\ d.to = c.to
            /\ d.ch = c.ch /\ d.ans \in {"neg", "silent"}
  BY DEF Neg, Ctx, Answers
\* Response pending takes the context for the request.
LEMMA PendIs ==
  ASSUME NEW c \in Ctx, NEW q \in Requests
  PROVE  LET d == Pend(c, q)
         IN /\ d \in Ctx /\ d.nv = c.nv /\ d.reset = c.reset /\ d.to = c.to
            /\ d.ch = c.ch /\ d.ans = "pend"
            /\ d.m.busy = q /\ d.m.nrc11 = (IF q.s = "11" THEN "INIT" ELSE c.m.nrc11)
            /\ d.m.s3 = c.m.s3 /\ d.m.reset11 = c.m.reset11 /\ d.m.t11 = c.m.t11
            /\ d.m.step = c.m.step /\ d.m.left = c.m.left /\ d.m.cnt = c.m.cnt
  BY DEF Pend, Ctx, Mem, Answers, Held, Nrcs

\* What a service does with a request: it answers, or leaves the answer to later, and then
\* it is service 11, or service 10 that hands over.
Serves(c, d) ==
  /\ d \in Ctx /\ d.nv = c.nv /\ d.reset = c.reset /\ d.to = c.to /\ d.ch = c.ch
  /\ d.m.s3 = c.m.s3 /\ d.m.t11 = c.m.t11 /\ d.m.left = c.m.left /\ d.m.cnt = c.m.cnt
  /\ \/ /\ d.ans \in {"pos", "neg", "silent"} /\ Alike(c.m, d.m)
     \/ /\ d.ans = "pend" /\ d.m.busy = c.to /\ c.to.s = "11"
        /\ d.m.nrc11 = "INIT" /\ d.m.reset11 /\ d.m.step = c.m.step
     \/ /\ d.ans = "pend" /\ d.m.busy = c.to /\ c.to.s = "1002"
        /\ d.m.nrc11 = c.m.nrc11 /\ d.m.reset11 = c.m.reset11 /\ d.m.step = "CHK_UPDATE_FLG"

\* Setting what no invariant looks at.
LEMMA AnswerServes ==
  ASSUME NEW c \in Ctx, NEW q \in Requests, NEW b \in Ctx, b.nv = c.nv, b.reset = c.reset,
         b.to = c.to, b.ch = c.ch, Alike(c.m, b.m)
  PROVE  Serves(c, Pos(b, q)) /\ Serves(c, Neg(b))
<1> DEFINE d == Pos(b, q)
           e == Neg(b)
<1>1. /\ d \in Ctx /\ d.m = b.m /\ d.nv = b.nv /\ d.reset = b.reset /\ d.to = b.to
      /\ d.ch = b.ch /\ d.ans \in {"pos", "silent"}
  BY PosIs
<1>2. /\ e \in Ctx /\ e.m = b.m /\ e.nv = b.nv /\ e.reset = b.reset /\ e.to = b.to
      /\ e.ch = b.ch /\ e.ans \in {"neg", "silent"}
  BY NegIs
<1> HIDE DEF d, e
<1>3. Serves(c, d)
  BY <1>1 DEF Serves, Alike
<1>4. Serves(c, e)
  BY <1>2 DEF Serves, Alike
<1> QED
  BY <1>3, <1>4 DEF d, e

\* A session change, or the hand-over from another session than the default one.
LEMMA Service10Is ==
  ASSUME NEW c \in Ctx, NEW q \in Requests, c.to = q, q.s \in {"1001", "1002", "1003"}
  PROVE  Serves(c, Service10(c, q))
<1>0. c.m \in Mem /\ Alike(c.m, c.m)
  BY Parts DEF Alike
<1>1. ASSUME NEW s \in Sessions
      PROVE  LET b == Locked([c EXCEPT !.m.session = s])
             IN /\ b \in Ctx /\ b.nv = c.nv /\ b.reset = c.reset /\ b.to = c.to /\ b.ch = c.ch
                /\ Alike(c.m, b.m)
  BY <1>1 DEF Locked, Ctx, Mem, Alike, Keys27, Bool
<1>2. ASSUME NEW s \in Sessions
      PROVE  Serves(c, Pos(Locked([c EXCEPT !.m.session = s]), q))
  <2> DEFINE b == Locked([c EXCEPT !.m.session = s])
  <2>1. /\ b \in Ctx /\ b.nv = c.nv /\ b.reset = c.reset /\ b.to = c.to /\ b.ch = c.ch
        /\ Alike(c.m, b.m)
    BY <1>1
  <2> HIDE DEF b
  <2> QED
    BY <2>1, AnswerServes DEF b
<1>3. CASE q.s = "1001"
  BY <1>2, <1>3 DEF Service10, Sessions
<1>4. CASE q.s = "1003"
  BY <1>2, <1>4 DEF Service10, Sessions
<1>5. CASE q.s = "1002" /\ c.m.session = "default"
  BY <1>0, <1>5, AnswerServes DEF Service10
<1>6. CASE q.s = "1002" /\ c.m.session # "default"
  <2> DEFINE b == [c EXCEPT !.m.step = "CHK_UPDATE_FLG"]
             d == Pend(b, q)
  <2>1. /\ b \in Ctx /\ b.nv = c.nv /\ b.reset = c.reset /\ b.to = c.to /\ b.ch = c.ch
        /\ b.m.step = "CHK_UPDATE_FLG" /\ b.m.s3 = c.m.s3 /\ b.m.t11 = c.m.t11
        /\ b.m.left = c.m.left /\ b.m.cnt = c.m.cnt /\ b.m.nrc11 = c.m.nrc11
        /\ b.m.reset11 = c.m.reset11
    BY DEF Ctx, Mem, Steps
  <2>2. Service10(c, q) = d
    BY <1>6 DEF Service10
  <2> HIDE DEF b
  <2>3. /\ d \in Ctx /\ d.nv = b.nv /\ d.reset = b.reset /\ d.to = b.to
        /\ d.ch = b.ch /\ d.ans = "pend"
        /\ d.m.busy = q /\ d.m.nrc11 = (IF q.s = "11" THEN "INIT" ELSE b.m.nrc11)
        /\ d.m.s3 = b.m.s3 /\ d.m.reset11 = b.m.reset11 /\ d.m.t11 = b.m.t11
        /\ d.m.step = b.m.step /\ d.m.left = b.m.left /\ d.m.cnt = b.m.cnt
    BY <2>1, PendIs
  <2> HIDE DEF d
  <2>4. Serves(c, d)
    BY <1>6, <2>1, <2>3 DEF Serves
  <2> QED
    BY <2>2, <2>4
<1> QED
  BY <1>3, <1>4, <1>5, <1>6

\* A reset is granted in the extended session.
LEMMA Service11Is ==
  ASSUME NEW c \in Ctx, NEW q \in Requests, c.to = q, q.s = "11"
  PROVE  Serves(c, Service11(c, q))
<1>0. c.m \in Mem /\ Alike(c.m, c.m)
  BY Parts DEF Alike
<1>1. CASE c.m.session = "default"
  BY <1>0, <1>1, AnswerServes DEF Service11
<1>2. CASE c.m.session # "default"
  <2> DEFINE b == [c EXCEPT !.m.reset11 = TRUE]
             d == Pend(b, q)
  <2>1. /\ b \in Ctx /\ b.nv = c.nv /\ b.reset = c.reset /\ b.to = c.to /\ b.ch = c.ch
        /\ b.m.step = c.m.step /\ b.m.s3 = c.m.s3 /\ b.m.t11 = c.m.t11
        /\ b.m.left = c.m.left /\ b.m.cnt = c.m.cnt /\ b.m.reset11
    BY DEF Ctx, Mem, Bool
  <2>2. Service11(c, q) = d
    BY <1>2 DEF Service11
  <2> HIDE DEF b
  <2>3. /\ d \in Ctx /\ d.nv = b.nv /\ d.reset = b.reset /\ d.to = b.to
        /\ d.ch = b.ch /\ d.ans = "pend"
        /\ d.m.busy = q /\ d.m.nrc11 = (IF q.s = "11" THEN "INIT" ELSE b.m.nrc11)
        /\ d.m.s3 = b.m.s3 /\ d.m.reset11 = b.m.reset11 /\ d.m.t11 = b.m.t11
        /\ d.m.step = b.m.step /\ d.m.left = b.m.left /\ d.m.cnt = b.m.cnt
    BY <2>1, PendIs
  <2> HIDE DEF d
  <2>4. Serves(c, d)
    BY <2>1, <2>3 DEF Serves
  <2> QED
    BY <2>2, <2>4
<1> QED
  BY <1>1, <1>2

\* Seed and key touch nothing the invariants look at.
LEMMA Service27Is ==
  ASSUME NEW c \in Ctx, NEW q \in Requests, c.to = q, q.s \in {"seed", "key"}
  PROVE  Serves(c, Service27(c, q))
<1>0. c.m \in Mem /\ Alike(c.m, c.m) /\ c.m.sid27 \in Keys27
  BY Parts DEF Alike, Mem
<1>1. ASSUME NEW k \in Keys27, NEW u \in Bool
      PROVE  LET b == [c EXCEPT !.m.sid27 = k]
                 e == [c EXCEPT !.m.sid27 = k, !.m.unlocked = u]
             IN /\ b \in Ctx /\ b.nv = c.nv /\ b.reset = c.reset /\ b.to = c.to /\ b.ch = c.ch
                /\ Alike(c.m, b.m)
                /\ e \in Ctx /\ e.nv = c.nv /\ e.reset = c.reset /\ e.to = c.to /\ e.ch = c.ch
                /\ Alike(c.m, e.m)
  BY <1>1 DEF Ctx, Mem, Alike
<1>2. CASE c.m.session = "default"
  BY <1>0, <1>2, AnswerServes DEF Service27
<1>3. CASE c.m.session # "default" /\ q.s = "seed"
  <2> DEFINE b == [c EXCEPT !.m.sid27 = "seed"]
  <2>1. /\ b \in Ctx /\ b.nv = c.nv /\ b.reset = c.reset /\ b.to = c.to /\ b.ch = c.ch
        /\ Alike(c.m, b.m)
    BY <1>1 DEF Keys27, Bool
  <2>2. Service27(c, q) = Pos(b, q)
    BY <1>3 DEF Service27
  <2> HIDE DEF b
  <2> QED
    BY <2>1, <2>2, AnswerServes
<1>4. CASE c.m.session # "default" /\ q.s = "key" /\ c.m.sid27 = "idle"
  BY <1>0, <1>4, AnswerServes DEF Service27
<1>5. CASE c.m.session # "default" /\ q.s = "key" /\ c.m.sid27 = "seed"
  <2> DEFINE b == [c EXCEPT !.m.sid27 = "idle", !.m.unlocked = TRUE]
  <2>1. /\ b \in Ctx /\ b.nv = c.nv /\ b.reset = c.reset /\ b.to = c.to /\ b.ch = c.ch
        /\ Alike(c.m, b.m)
    BY <1>1 DEF Keys27, Bool
  <2>2. Service27(c, q) = Pos(b, q)
    BY <1>5 DEF Service27
  <2> HIDE DEF b
  <2> QED
    BY <2>1, <2>2, AnswerServes
<1> QED
  BY <1>0, <1>2, <1>3, <1>4, <1>5 DEF Keys27

\* An answer with a change that no invariant looks at.
LEMMA ServesAlike ==
  ASSUME NEW c, NEW a, Serves(c, a), NEW d \in Ctx, d.nv = a.nv, d.reset = a.reset,
         d.to = a.to, d.ch = a.ch, d.ans = a.ans, Alike(a.m, d.m)
  PROVE  Serves(c, d)
  BY DEF Serves, Alike

\* Services 28 and 85 set their switch after the answer, whichever it is.
LEMMA Service28Is ==
  ASSUME NEW c \in Ctx, NEW q \in Requests, c.to = q
  PROVE  Serves(c, Service28(c, q)) /\ Serves(c, Service85(c, q))
<1> DEFINE a == IF c.m.session = "default" THEN Neg(c) ELSE Pos(c, q)
           b == [a EXCEPT !.m.txOff = (q.s = "28off")]
           d == [a EXCEPT !.m.dtcOn = (q.s = "85on" /\ ~q.quiet)]
<1>1. Serves(c, a)
  <2>1. Alike(c.m, c.m)
    BY DEF Alike
  <2>2. Serves(c, Pos(c, q)) /\ Serves(c, Neg(c))
    BY <2>1, AnswerServes
  <2> QED
    BY <2>2
<1>2. Service28(c, q) = (IF q.quiet THEN a ELSE b) /\ Service85(c, q) = d
  BY DEF Service28, Service85
<1> HIDE DEF a
<1>3. a \in Ctx
  BY <1>1 DEF Serves
<1>4. /\ b \in Ctx /\ b.nv = a.nv /\ b.reset = a.reset /\ b.to = a.to /\ b.ch = a.ch
      /\ b.ans = a.ans /\ Alike(a.m, b.m)
  BY <1>3 DEF Ctx, Mem, Alike, Bool
<1>5. /\ d \in Ctx /\ d.nv = a.nv /\ d.reset = a.reset /\ d.to = a.to /\ d.ch = a.ch
      /\ d.ans = a.ans /\ Alike(a.m, d.m)
  BY <1>3 DEF Ctx, Mem, Alike, Bool
<1> HIDE DEF b, d
<1> QED
  BY <1>1, <1>2, <1>4, <1>5, ServesAlike

\* A write goes to the slot.
LEMMA Service2EIs ==
  ASSUME NEW c \in Ctx, NEW q \in Requests, c.to = q
  PROVE  Serves(c, Service2E(c, q)) /\ Serves(c, Pos(c, q))
<1>0. Alike(c.m, c.m)
  BY DEF Alike
<1> DEFINE b == [c EXCEPT !.m.slot = q.d]
<1>1. /\ b \in Ctx /\ b.nv = c.nv /\ b.reset = c.reset /\ b.to = c.to /\ b.ch = c.ch
      /\ Alike(c.m, b.m)
  BY DEF Ctx, Mem, Alike, Slots, Requests
<1>2. \/ Service2E(c, q) = Neg(c)
      \/ Service2E(c, q) = Pos(b, q)
  BY DEF Service2E
<1> HIDE DEF b
<1> QED
  BY <1>0, <1>1, <1>2, AnswerServes

\* Every service does one of the three things.
LEMMA ServiceIs ==
  ASSUME NEW c \in Ctx, NEW q \in Requests, c.to = q
  PROVE  Serves(c, Service(c, q))
<1>1. q.s \in Names
  BY DEF Requests
<1> QED
  BY <1>1, Service10Is, Service11Is, Service27Is, Service28Is, Service2EIs DEF Names, Service

\* dcm_main_function: it rests, comes to the end of a request it held, or serves one.
Mains(c, d) ==
  /\ d \in Ctx /\ d.nv = c.nv /\ d.reset = c.reset
  /\ d.m.t11 = c.m.t11 /\ d.m.left = c.m.left /\ d.m.cnt = c.m.cnt
  /\ \/ /\ d.ans = c.ans /\ Alike(c.m, d.m)
        /\ c.m.busy # None => /\ c.m.s3 < S3
                              /\ c.m.busy.s = "11" => c.m.nrc11 = "INIT"
     \/ /\ c.m.busy # None /\ d.m.busy = None /\ d.m.s3 = c.m.s3 /\ d.m.step = c.m.step
        /\ d.m.reset11 = c.m.reset11 /\ d.ch = c.ch
        /\ \/ c.m.s3 >= S3 /\ d.ans = c.ans /\ d.m.nrc11 = c.m.nrc11
           \/ c.m.busy.s = "11" /\ c.m.nrc11 = "POS" /\ d.ans = "pos" /\ d.m.nrc11 = "PEDING"
           \/ /\ c.m.busy.s = "11" /\ c.m.nrc11 = "PEDING" /\ d.ans = c.ans
              /\ d.m.nrc11 = "PEDING"
     \/ /\ c.m.busy = None /\ d.ans \in {"pos", "neg", "silent"} /\ d.m.s3 = 0
        /\ d.m.busy = None /\ d.m.nrc11 = c.m.nrc11 /\ d.m.reset11 = c.m.reset11
        /\ d.m.step = c.m.step
     \/ /\ c.m.busy = None /\ d.ans = "pend" /\ d.m.s3 = 0 /\ d.m.busy = d.to /\ d.to.s = "11"
        /\ d.m.nrc11 = "INIT" /\ d.m.reset11 /\ d.m.step = c.m.step
     \/ /\ c.m.busy = None /\ d.ans = "pend" /\ d.m.s3 = 0 /\ d.m.busy = d.to
        /\ d.to.s = "1002" /\ d.m.nrc11 = c.m.nrc11 /\ d.m.reset11 = c.m.reset11
        /\ d.m.step = "CHK_UPDATE_FLG"

\* A request is taken from its buffer and served.
LEMMA TakeIs ==
  ASSUME NEW c \in Ctx, NEW h \in Chan, c.m.busy = None, c.rx[h] # None
  PROVE  Mains(c, Take(c, h))
<1> DEFINE q == c.rx[h]
           b == [c EXCEPT !.rx[h] = None, !.m.s3 = 0, !.to = c.rx[h], !.ch = h]
           d == Service(b, q)
<1>1. q \in Requests
  BY DEF Ctx, Inbox, Held
<1>2. /\ b \in Ctx /\ b.nv = c.nv /\ b.reset = c.reset /\ b.to = q /\ b.ans = c.ans
      /\ b.m.s3 = 0 /\ b.m.busy = c.m.busy /\ b.m.nrc11 = c.m.nrc11
      /\ b.m.reset11 = c.m.reset11 /\ b.m.t11 = c.m.t11 /\ b.m.step = c.m.step
      /\ b.m.left = c.m.left /\ b.m.cnt = c.m.cnt
  BY <1>1 DEF Ctx, Mem, Inbox, Held
<1>3. Take(c, h) = d
  BY DEF Take
<1> HIDE DEF q, b
<1>4. Serves(b, d)
  BY <1>1, <1>2, ServiceIs
<1> HIDE DEF d
<1> QED
  BY <1>2, <1>3, <1>4 DEF Serves, Mains, Alike

\* A request held comes to its end with S3, or with the result of service 11, or goes on.
LEMMA ResultIs ==
  ASSUME NEW c \in Ctx, c.m.busy # None
  PROVE  Mains(c, Result(c))
<1> DEFINE b == [c EXCEPT !.m.busy = None, !.to = c.m.busy]
           d == [b EXCEPT !.ans = "pos", !.m.nrc11 = "PEDING"]
<1>0. c.m.s3 \in Nat /\ c.m.nrc11 \in Nrcs /\ c.m.busy \in Held /\ S3 \in Nat
  BY Parts, DcmAssumption DEF Mem
<1>1. /\ b \in Ctx /\ b.nv = c.nv /\ b.reset = c.reset /\ b.ans = c.ans /\ b.ch = c.ch
      /\ b.m.busy = None /\ b.m.s3 = c.m.s3 /\ b.m.nrc11 = c.m.nrc11
      /\ b.m.reset11 = c.m.reset11 /\ b.m.t11 = c.m.t11 /\ b.m.step = c.m.step
      /\ b.m.left = c.m.left /\ b.m.cnt = c.m.cnt
  BY <1>0 DEF Ctx, Mem, Held
<1>r. Result(c) = CASE c.m.s3 >= S3 -> b
       [] c.m.s3 < S3 /\ c.m.busy.s = "11" /\ c.m.nrc11 = "POS" -> d
       [] c.m.s3 < S3 /\ c.m.busy.s = "11" /\ c.m.nrc11 = "PEDING" -> b
       [] c.m.s3 < S3 /\ (c.m.busy.s = "11" => c.m.nrc11 = "INIT") -> c
  BY DEF Result
<1> HIDE DEF b
<1>2. /\ d \in Ctx /\ d.nv = b.nv /\ d.reset = b.reset /\ d.ans = "pos" /\ d.ch = b.ch
      /\ d.m.busy = b.m.busy /\ d.m.s3 = b.m.s3 /\ d.m.nrc11 = "PEDING"
      /\ d.m.reset11 = b.m.reset11 /\ d.m.t11 = b.m.t11 /\ d.m.step = b.m.step
      /\ d.m.left = b.m.left /\ d.m.cnt = b.m.cnt
  BY <1>1 DEF Ctx, Mem, Nrcs, Answers
<1> HIDE DEF d
<1>3. CASE c.m.s3 >= S3
  <2>1. Result(c) = b
    <3>1. ~(c.m.s3 < S3)
      BY <1>0, <1>3
    <3> QED
      BY <1>r, <1>3, <3>1
  <2> QED
    BY <1>1, <1>3, <2>1 DEF Mains
<1>4. CASE c.m.s3 < S3 /\ c.m.busy.s = "11" /\ c.m.nrc11 = "POS"
  <2>1. Result(c) = d
    BY <1>0, <1>r, <1>4
  <2> QED
    BY <1>1, <1>2, <1>4, <2>1 DEF Mains
<1>5. CASE c.m.s3 < S3 /\ c.m.busy.s = "11" /\ c.m.nrc11 = "PEDING"
  <2>1. Result(c) = b
    BY <1>0, <1>r, <1>5
  <2> QED
    BY <1>1, <1>5, <2>1 DEF Mains
<1>6. CASE c.m.s3 < S3 /\ (c.m.busy.s = "11" => c.m.nrc11 = "INIT")
  <2>1. Result(c) = c
    BY <1>0, <1>r, <1>6
  <2> QED
    BY <1>6, <2>1 DEF Mains, Alike
<1> QED
  BY <1>0, <1>3, <1>4, <1>5, <1>6 DEF Nrcs

\* dcm_main_function does one of the five things.
LEMMA DcmMainIs ==
  ASSUME NEW c \in Ctx
  PROVE  Mains(c, DcmMain(c))
<1>1. CASE c.m.busy # None
  BY <1>1, ResultIs DEF DcmMain
<1>2. CASE c.m.busy = None /\ c.rx["phys"] # None
  BY <1>2, TakeIs DEF DcmMain, Chan
<1>3. CASE c.m.busy = None /\ c.rx["phys"] = None /\ c.rx["func"] # None
  BY <1>3, TakeIs DEF DcmMain, Chan
<1>4. CASE c.m.busy = None /\ c.rx["phys"] = None /\ c.rx["func"] = None
  BY <1>4 DEF DcmMain, Mains, Alike
<1> QED
  BY <1>1, <1>2, <1>3, <1>4

\* What bootloader_main_process does: it stores the hand-over, waits, or resets.
Starts(c, d) ==
  /\ Around(c, d)
  /\ d.m.s3 = c.m.s3 /\ d.m.busy = c.m.busy /\ d.m.nrc11 = c.m.nrc11
  /\ d.m.reset11 = c.m.reset11 /\ d.m.t11 = c.m.t11 /\ d.m.cnt = c.m.cnt
  /\ \/ /\ c.m.step = "CHK_UPDATE_FLG" /\ d.m.step = "ECU_RESET" /\ d.m.left = GoReset
        /\ \A k \in HandOver : d.nv[k]
        /\ d.reset = c.reset
     \/ /\ c.m.step = "ECU_RESET" /\ d.m.step = "ECU_RESET" /\ d.m.left = c.m.left
        /\ d.reset = (c.m.left = 0)
     \/ /\ c.m.step = "PENDING" /\ d.m.step = "PENDING" /\ d.m.left = c.m.left
        /\ d.reset = c.reset

\* Waiting for the flash queue stores what is in it; storing puts the next item there.
LEMMA StoreIs ==
  ASSUME NEW c \in Ctx, NEW k \in Items
  PROVE  /\ Flash_Task_Wait(c) \in Ctx /\ Store(c, k) \in Ctx
         /\ Around(c, Flash_Task_Wait(c)) /\ Around(c, Store(c, k))
         /\ Flash_Task_Wait(c).m = c.m /\ Store(c, k).m = c.m
         /\ Flash_Task_Wait(c).reset = c.reset /\ Store(c, k).reset = c.reset
         /\ Store(c, k).flash = k
         /\ c.flash \in Items => Flash_Task_Wait(c).nv[c.flash] /\ Store(c, k).nv[c.flash]
<1> DEFINE v == [j \in DOMAIN c.nv |-> c.nv[j] \/ j = c.flash]
           w == [c EXCEPT !.flash = "none", !.nv = v]
           s == [w EXCEPT !.flash = k]
<1>1. /\ v \in Image /\ \A j \in Items : c.nv[j] => v[j]
      /\ c.flash \in Items => v[c.flash]
  <2>1. c.nv \in Image
    BY Parts
  <2> QED
    BY <2>1 DEF Image, Bool
<1>2. Flash_Task_Wait(c) = w /\ Store(c, k) = s
  BY DEF Flash_Task_Wait, Store
<1> HIDE DEF v
<1>3. /\ w \in Ctx /\ w.m = c.m /\ w.reset = c.reset /\ w.nv = v /\ w.ans = c.ans
      /\ w.to = c.to /\ w.ch = c.ch
  BY <1>1 DEF Ctx, Queue
<1> HIDE DEF w
<1>4. /\ s \in Ctx /\ s.m = w.m /\ s.reset = w.reset /\ s.nv = w.nv /\ s.ans = w.ans
      /\ s.to = w.to /\ s.ch = w.ch /\ s.flash = k
  BY <1>3 DEF Ctx, Queue
<1> HIDE DEF s
<1> QED
  BY <1>1, <1>2, <1>3, <1>4 DEF Around

\* The three flags are in the flash when the queue is empty.
LEMMA WriteFlagsIs ==
  ASSUME NEW c \in Ctx
  PROVE  LET d == Flash_Task_Wait(WriteFlags(c))
         IN Around(c, d) /\ d.m = c.m /\ d.reset = c.reset /\ \A k \in HandOver : d.nv[k]
<1> DEFINE a == Store(c, "update")
           b == Store(a, "chg")
           e == Store(b, "jump")
           d == Flash_Task_Wait(e)
<1>0. "update" \in Items /\ "chg" \in Items /\ "jump" \in Items
  BY DEF Items, HandOver
<1>1. a \in Ctx /\ Around(c, a) /\ a.m = c.m /\ a.reset = c.reset /\ a.flash = "update"
  BY <1>0, StoreIs
<1> HIDE DEF a
<1>2. /\ b \in Ctx /\ Around(a, b) /\ b.m = a.m /\ b.reset = a.reset /\ b.flash = "chg"
      /\ b.nv["update"]
  BY <1>0, <1>1, StoreIs
<1> HIDE DEF b
<1>3. /\ e \in Ctx /\ Around(b, e) /\ e.m = b.m /\ e.reset = b.reset /\ e.flash = "jump"
      /\ e.nv["chg"]
  BY <1>0, <1>2, StoreIs
<1> HIDE DEF e
<1>4. /\ d \in Ctx /\ Around(e, d) /\ d.m = e.m /\ d.reset = e.reset /\ d.nv["jump"]
  BY <1>0, <1>3, StoreIs
<1>5. Flash_Task_Wait(WriteFlags(c)) = d
  BY DEF WriteFlags, a, b, e
<1> HIDE DEF d
<1>6. e.nv["update"] /\ d.nv["update"] /\ d.nv["chg"]
  BY <1>0, <1>2, <1>3, <1>4 DEF Around
<1>7. Around(c, d)
  BY <1>1, <1>2, <1>3, <1>4 DEF Around
<1> QED
  BY <1>1, <1>2, <1>3, <1>4, <1>5, <1>6, <1>7 DEF HandOver

\* bootloader_main_process by its step.
LEMMA BlMainIs ==
  ASSUME NEW c \in Ctx
  PROVE  Starts(c, BlMain(c))
<1>0. c.m \in Mem /\ c.m.step \in Steps /\ c.m.left \in Nat /\ Around(c, c)
  BY Parts DEF Mem, Around
<1>1. CASE c.m.step = "CHK_UPDATE_FLG"
  <2> DEFINE b == Flash_Task_Wait(WriteFlags(c))
             d == [b EXCEPT !.m.step = "ECU_RESET", !.m.left = GoReset]
  <2>1. Around(c, b) /\ b.m = c.m /\ b.reset = c.reset /\ \A k \in HandOver : b.nv[k]
    BY WriteFlagsIs
  <2>2. BlMain(c) = d
    BY <1>1 DEF BlMain, ChkUpdateFlg
  <2> HIDE DEF b
  <2>3. b \in Ctx /\ GoReset \in Nat
    BY <2>1, DcmAssumption DEF Around
  <2>4. /\ d \in Ctx /\ d.nv = b.nv /\ d.reset = b.reset /\ d.ans = b.ans /\ d.to = b.to
        /\ d.ch = b.ch /\ d.m.s3 = b.m.s3 /\ d.m.busy = b.m.busy /\ d.m.nrc11 = b.m.nrc11
        /\ d.m.reset11 = b.m.reset11 /\ d.m.t11 = b.m.t11 /\ d.m.cnt = b.m.cnt
        /\ d.m.step = "ECU_RESET" /\ d.m.left = GoReset
    BY <2>3 DEF Ctx, Mem, Steps
  <2> HIDE DEF d
  <2> QED
    BY <1>1, <2>1, <2>2, <2>4 DEF Starts, Around
<1>2. CASE c.m.step = "ECU_RESET"
  <2> DEFINE d == [c EXCEPT !.reset = (c.m.left = 0)]
  <2>1. BlMain(c) = d
    BY <1>2 DEF BlMain
  <2>2. /\ d \in Ctx /\ d.m = c.m /\ d.nv = c.nv /\ d.ans = c.ans /\ d.to = c.to
        /\ d.ch = c.ch /\ d.reset = (c.m.left = 0)
    BY DEF Ctx, Bool
  <2> HIDE DEF d
  <2> QED
    BY <1>2, <2>1, <2>2 DEF Starts, Around
<1>3. CASE c.m.step = "PENDING"
  <2>1. BlMain(c) = c
    BY <1>3 DEF BlMain
  <2> QED
    BY <1>0, <1>3, <2>1 DEF Starts
<1> QED
  BY <1>0, <1>1, <1>2, <1>3 DEF Steps

\* What uds_service_11_process does: nothing is due, the answer is, or the reset is.
Answers11(c, d) ==
  /\ Around(c, d)
  /\ d.m.s3 = c.m.s3 /\ d.m.busy = c.m.busy /\ d.m.reset11 = c.m.reset11
  /\ d.m.step = c.m.step /\ d.m.left = c.m.left /\ d.m.cnt = c.m.cnt
  /\ \/ ~c.m.reset11 /\ d.m.t11 = 0 /\ d.m.nrc11 = c.m.nrc11 /\ d.reset = c.reset
     \/ /\ c.m.reset11 /\ c.m.t11 >= Dly /\ c.m.nrc11 = "INIT"
        /\ d.m.nrc11 = "POS" /\ d.m.t11 = 0 /\ d.reset = c.reset
     \/ /\ c.m.reset11 /\ c.m.t11 >= Dly + After /\ c.m.nrc11 = "PEDING"
        /\ d.m.nrc11 = "PEDING" /\ d.m.t11 = c.m.t11 /\ d.reset
     \/ /\ c.m.reset11 /\ (c.m.nrc11 = "INIT" => c.m.t11 < Dly)
        /\ d.m.nrc11 = c.m.nrc11 /\ d.m.t11 = c.m.t11 /\ d.reset = c.reset

\* uds_service_11_process by the result and its timer.
LEMMA Service11ProcessIs ==
  ASSUME NEW c \in Ctx
  PROVE  Answers11(c, Service11Process(c))
<1> DEFINE due == c.m.t11 >= Dly
           late == c.m.t11 >= Dly + After
           b == [c EXCEPT !.m.t11 = 0]
           p == [c EXCEPT !.m.nrc11 = "POS", !.m.t11 = 0, !.m.session = "default"]
           r == [c EXCEPT !.reset = TRUE]
<1>0. c.m.reset11 \in Bool /\ c.m.t11 \in Nat /\ Dly \in Nat /\ Around(c, c)
      /\ (~due => c.m.t11 < Dly)
  BY Parts, DcmAssumption DEF Mem, Around
<1>1. /\ b \in Ctx /\ b.nv = c.nv /\ b.reset = c.reset /\ b.ans = c.ans /\ b.to = c.to
      /\ b.ch = c.ch /\ b.m.s3 = c.m.s3 /\ b.m.busy = c.m.busy
      /\ b.m.reset11 = c.m.reset11 /\ b.m.step = c.m.step /\ b.m.left = c.m.left
      /\ b.m.cnt = c.m.cnt /\ b.m.t11 = 0 /\ b.m.nrc11 = c.m.nrc11
  BY DEF Ctx, Mem
<1>2. /\ p \in Ctx /\ p.nv = c.nv /\ p.reset = c.reset /\ p.ans = c.ans /\ p.to = c.to
      /\ p.ch = c.ch /\ p.m.s3 = c.m.s3 /\ p.m.busy = c.m.busy
      /\ p.m.reset11 = c.m.reset11 /\ p.m.step = c.m.step /\ p.m.left = c.m.left
      /\ p.m.cnt = c.m.cnt /\ p.m.t11 = 0 /\ p.m.nrc11 = "POS"
  BY DEF Ctx, Mem, Nrcs, Sessions
<1>3. /\ r \in Ctx /\ r.m = c.m /\ r.nv = c.nv /\ r.ans = c.ans /\ r.to = c.to
      /\ r.ch = c.ch /\ r.reset
  BY DEF Ctx, Bool
<1>r. Service11Process(c) = CASE ~c.m.reset11 -> b
        [] c.m.reset11 /\ due /\ c.m.nrc11 = "INIT" -> p
        [] c.m.reset11 /\ late /\ c.m.nrc11 = "PEDING" -> r
        [] OTHER -> c
  BY DEF Service11Process
<1>d. (due <=> c.m.t11 >= Dly) /\ (late <=> c.m.t11 >= Dly + After)
  OBVIOUS
<1> HIDE DEF b, p, r, due, late
<1>4. CASE ~c.m.reset11
  <2>1. Service11Process(c) = b
    BY <1>4, <1>r
  <2> QED
    BY <1>1, <1>4, <2>1 DEF Answers11, Around
<1>5. CASE c.m.reset11 /\ due /\ c.m.nrc11 = "INIT"
  <2>1. Service11Process(c) = p
    BY <1>5, <1>r
  <2> QED
    BY <1>2, <1>5, <1>d, <2>1 DEF Answers11, Around
<1>6. CASE c.m.reset11 /\ late /\ c.m.nrc11 = "PEDING"
  <2>1. Service11Process(c) = r
    BY <1>6, <1>r
  <2> QED
    BY <1>3, <1>6, <1>d, <2>1 DEF Answers11, Around
<1>7. CASE c.m.reset11 /\ ~(due /\ c.m.nrc11 = "INIT") /\ ~(late /\ c.m.nrc11 = "PEDING")
  <2>1. Service11Process(c) = c
    BY <1>7, <1>r
  <2> QED
    BY <1>0, <1>7, <2>1 DEF Answers11
<1> QED
  BY <1>0, <1>4, <1>5, <1>6, <1>7 DEF Bool

\* The DTC setting and the write of service 2E disturb nothing of this.
LEMMA WritesAre ==
  ASSUME NEW c \in Ctx
  PROVE  LET d == Service2EProcess(Service85Process(c))
         IN Around(c, d) /\ Alike(c.m, d.m) /\ d.reset = c.reset
<1> DEFINE a == Service85Process(c)
           k == a.m.slot
           b == Store(a, k)
           d == [b EXCEPT !.m.slot = "none"]
<1>1. /\ a \in Ctx /\ a.nv = c.nv /\ a.reset = c.reset /\ a.ans = c.ans /\ a.to = c.to
      /\ a.ch = c.ch /\ Alike(c.m, a.m)
  <2>1. Service85Process(c) = [c EXCEPT !.m.dtcOn = (c.m.dtcOn \/ c.m.session = "default")]
    BY DEF Service85Process
  <2>2. (c.m.dtcOn \/ c.m.session = "default") \in Bool
    BY DEF Bool
  <2> QED
    BY <2>1, <2>2 DEF Ctx, Mem, Alike
<1>2. Service2EProcess(a) = (IF a.m.slot = "none" \/ a.m.t2e < Warm THEN a ELSE d)
  BY DEF Service2EProcess
<1> HIDE DEF a
<1>3. CASE k = "none"
  BY <1>1, <1>2, <1>3 DEF Around, a
<1>4. CASE k # "none"
  <2>1. k \in Items
    <3>1. a.m \in Mem
      BY <1>1, Parts
    <3> QED
      BY <1>4, <3>1 DEF Mem, Slots, Items
  <2> HIDE DEF k
  <2>2. Around(a, b) /\ b.m = a.m /\ b.reset = a.reset
    BY <1>1, <2>1, StoreIs
  <2> HIDE DEF b
  <2>3. b \in Ctx
    BY <2>2 DEF Around
  <2>4. /\ d \in Ctx /\ d.nv = b.nv /\ d.reset = b.reset /\ d.ans = b.ans /\ d.to = b.to
        /\ d.ch = b.ch /\ Alike(b.m, d.m)
    BY <2>3 DEF Ctx, Mem, Alike, Slots
  <2> HIDE DEF d
  <2>5. Around(a, d) /\ Alike(a.m, d.m) /\ d.reset = a.reset
    BY <2>2, <2>4 DEF Around, Alike
  <2>6. Around(a, a) /\ Alike(a.m, a.m)
    BY <1>1 DEF Around, Alike
  <2>7. \E e : /\ Service2EProcess(a) = e
               /\ Around(a, e) /\ Alike(a.m, e.m) /\ e.reset = a.reset
    BY <1>2, <2>5, <2>6
  <2>8. PICK e : /\ Service2EProcess(a) = e
                 /\ Around(a, e) /\ Alike(a.m, e.m) /\ e.reset = a.reset
    BY <2>7
  <2>9. Around(c, e) /\ Alike(c.m, e.m) /\ e.reset = c.reset
    BY <1>1, <2>8 DEF Around, Alike
  <2> QED
    BY <2>8, <2>9 DEF a
<1> QED
  BY <1>3, <1>4

\* What the 10 ms part of a pass does: its timer goes on when the pass counts a unit.
Counts(c, d) ==
  /\ d \in Ctx /\ d.nv = c.nv /\ d.reset = c.reset /\ d.ans = c.ans /\ d.to = c.to
  /\ d.ch = c.ch /\ d.m.s3 = c.m.s3 /\ d.m.busy = c.m.busy /\ d.m.nrc11 = c.m.nrc11
  /\ d.m.reset11 = c.m.reset11 /\ d.m.step = c.m.step /\ d.m.left = c.m.left
  /\ \/ d.m.cnt # 0 /\ d.m.t11 = c.m.t11
     \/ d.m.cnt = 0 /\ d.m.t11 = UpTo(c.m.t11, Dly + After)

\* The 10 ms part of a pass.
LEMMA Period10msIs ==
  ASSUME NEW c \in Ctx
  PROVE  Counts(c, Period10ms(c))
<1> DEFINE n == c.m.cnt + 1
           t == UpTo(c.m.t11, Dly + After)
           u == UpTo(c.m.t2e, Warm + 1)
           b == [c EXCEPT !.m.cnt = n]
           d == [c EXCEPT !.m.cnt = 0, !.m.t11 = t, !.m.t2e = u]
<1>1. n \in Nat /\ n # 0 /\ t \in Nat /\ u \in Nat
  <2>1. c.m.cnt \in Nat /\ c.m.t11 \in Nat /\ c.m.t2e \in Nat
    BY Parts DEF Mem
  <2> QED
    BY <2>1 DEF UpTo
<1>2. Period10ms(c) = (IF n < Per10 THEN b ELSE d)
  BY DEF Period10ms
<1>t. t = UpTo(c.m.t11, Dly + After)
  OBVIOUS
<1> HIDE DEF n, t, u
<1>3. /\ b \in Ctx /\ b.nv = c.nv /\ b.reset = c.reset /\ b.ans = c.ans /\ b.to = c.to
      /\ b.ch = c.ch /\ b.m.s3 = c.m.s3 /\ b.m.busy = c.m.busy /\ b.m.nrc11 = c.m.nrc11
      /\ b.m.reset11 = c.m.reset11 /\ b.m.step = c.m.step /\ b.m.left = c.m.left
      /\ b.m.cnt = n /\ b.m.t11 = c.m.t11
  BY <1>1 DEF Ctx, Mem
<1>4. /\ d \in Ctx /\ d.nv = c.nv /\ d.reset = c.reset /\ d.ans = c.ans /\ d.to = c.to
      /\ d.ch = c.ch /\ d.m.s3 = c.m.s3 /\ d.m.busy = c.m.busy /\ d.m.nrc11 = c.m.nrc11
      /\ d.m.reset11 = c.m.reset11 /\ d.m.step = c.m.step /\ d.m.left = c.m.left
      /\ d.m.cnt = 0 /\ d.m.t11 = t
  BY <1>1 DEF Ctx, Mem
<1> HIDE DEF b, d
<1>5. Counts(c, b) /\ Counts(c, d)
  BY <1>1, <1>3, <1>4, <1>t DEF Counts
<1> QED
  BY <1>2, <1>5
-----------------------------------------------------------------------------
(* The inductive invariant.                                                  *)
Types ==
  /\ run \in {"app", "boot"} /\ ram \in Mem /\ rx \in Inbox /\ flash \in Queue /\ nv \in Image
  /\ lag \in 0..Lag /\ life \in Bool
  /\ run = "boot" => owed = "none"

\* The hand-over is stored before the pass that takes it up is over.
Hand ==
  /\ ram.step # "CHK_UPDATE_FLG"
  /\ ram.step = "ECU_RESET" => \A k \in HandOver : nv[k]
  /\ owed = "1002" => ram.step = "ECU_RESET"

\* A hand-over holds the context until the reset: it is faster than S3.
Going ==
  ram.step = "ECU_RESET" =>
    /\ ram.busy.s = "1002"
    /\ ram.left > 0 => ram.s3 + ram.left <= GoReset
    /\ ram.left = 0 => ram.s3 < GoReset + lag

\* A granted service 11 is answered before S3, and before its reset.
Timely ==
  ram.busy.s = "11" =>
    /\ ram.reset11
    /\ ram.nrc11 = "INIT" => ram.t11 <= Dly /\ ram.s3 <= Lag * ram.t11 + lag
    /\ ram.nrc11 = "POS" => ram.t11 <= 1 /\ ram.s3 <= Lag * (Dly + 1) + lag
Asks == owed = "11" => ram.busy.s = "11" /\ ram.nrc11 \in {"INIT", "POS"}

IInv == Types /\ Hand
TInv == IInv /\ Going /\ Timely /\ Asks

\* Multiples of the lag.
LEMMA Multiples ==
  ASSUME NEW t \in Nat
  PROVE  /\ Lag * t \in Nat /\ Lag * (t + 1) = Lag * t + Lag
         /\ t <= Dly => Lag * t <= Lag * Dly
<1>1. Lag \in Nat /\ Dly \in Nat
  BY DcmAssumption
<1>2. Lag * t \in Nat /\ Lag * (t + 1) = Lag * t + Lag
  BY <1>1
<1>3. ASSUME t <= Dly
      PROVE  Lag * t <= Lag * Dly
  <2> DEFINE r == Dly - t
  <2>1. r \in Nat /\ Dly = t + r
    BY <1>1, <1>3
  <2> HIDE DEF r
  <2>2. Lag * Dly = Lag * t + Lag * r /\ Lag * r \in Nat
    BY <1>1, <2>1
  <2> QED
    BY <1>2, <2>2
<1> QED
  BY <1>2, <1>3

\* What a pass does, part by part, and what it leaves.
Passes(a, b, s, w, c) ==
  /\ run = "app"
  /\ Mains(Context, a) /\ Starts(a, b) /\ Answers11(b, s)
  /\ Around(s, w) /\ Alike(s.m, w.m) /\ w.reset = s.reset /\ Counts(w, c)
  /\ ram' = (IF c.reset THEN Ram0 ELSE c.m)
  /\ rx' = (IF c.reset THEN [h \in Chan |-> None] ELSE c.rx)
  /\ flash' = (IF c.reset THEN "none" ELSE c.flash)
  /\ nv' = c.nv
  /\ run' = (IF c.reset /\ c.nv.jump THEN "boot" ELSE "app")
  /\ life' = (life # c.reset)
  /\ lag' = (IF c.reset \/ c.m.cnt = 0 THEN 0 ELSE lag)
  /\ owed' = OwedAfter(c)

\* A pass starts from the variables, without an answer.
LEMMA ContextIs ==
  ASSUME Types
  PROVE  /\ Context \in Ctx /\ Context.m = ram /\ Context.nv = nv /\ Context.ans = "none"
         /\ Context.ch = "phys" /\ Context.reset = FALSE
  BY DEF Types, Context, Ctx, Answers, Held, Chan, Bool

\* A pass is its parts, one after the other.
LEMMA PassIs ==
  ASSUME Types, Pass
  PROVE  \E a, b, s, w, c : Passes(a, b, s, w, c)
<1> DEFINE a == DcmMain(Context)
           b == BlMain(a)
           s == Service11Process(b)
           w == Service2EProcess(Service85Process(s))
           c == Period10ms(w)
<1>1. Mains(Context, a)
  BY ContextIs, DcmMainIs
<1>p. /\ run = "app"
      /\ ram' = (IF c.reset THEN Ram0 ELSE c.m)
      /\ rx' = (IF c.reset THEN [h \in Chan |-> None] ELSE c.rx)
      /\ flash' = (IF c.reset THEN "none" ELSE c.flash)
      /\ nv' = c.nv
      /\ run' = (IF c.reset /\ c.nv.jump THEN "boot" ELSE "app")
      /\ life' = (life # c.reset)
      /\ lag' = (IF c.reset \/ c.m.cnt = 0 THEN 0 ELSE lag)
      /\ owed' = OwedAfter(c)
  BY Zenon DEF Pass
<1> HIDE DEF a
<1>2. Starts(a, b)
  BY <1>1, BlMainIs DEF Mains
<1> HIDE DEF b
<1>3. Answers11(b, s)
  BY <1>2, Service11ProcessIs DEF Starts, Around
<1> HIDE DEF s
<1>4. Around(s, w) /\ Alike(s.m, w.m) /\ w.reset = s.reset
  BY <1>3, WritesAre DEF Answers11, Around
<1> HIDE DEF w
<1>5. Counts(w, c)
  BY <1>4, Period10msIs DEF Around
<1> HIDE DEF c
<1>6. Passes(a, b, s, w, c)
  BY <1>1, <1>2, <1>3, <1>4, <1>5, <1>p DEF Passes
<1> QED
  BY <1>6

\* After a reset.
LEMMA AfterReset ==
  Ram0 \in Mem /\ Ram0.step = "PENDING" /\ Ram0.busy.s = "none" /\ [h \in Chan |-> None] \in Inbox
  BY DEF Ram0, Mem, Sessions, Keys27, Held, None, Nrcs, Bool, Slots, Steps, Inbox

\* The tester waits on, or for what has just been taken up, or not at all.
LEMMA OwedIs ==
  ASSUME NEW c \in Ctx
  PROVE  /\ c.reset => OwedAfter(c) = "none"
         /\ ~c.reset => \/ OwedAfter(c) = owed
                           /\ (c.ans = "none" \/ c.ch = "func")
                        \/ OwedAfter(c) = c.to.s /\ c.ans = "pend"
                        \/ OwedAfter(c) = "none"
<1>1. c.ans \in Answers /\ c.ch \in Chan /\ c.reset \in Bool
  BY Parts
<1>2. CASE c.reset
  BY <1>2 DEF OwedAfter
<1>3. CASE ~c.reset /\ c.ans = "none"
  BY <1>3 DEF OwedAfter
<1>4. CASE ~c.reset /\ c.ans = "pend" /\ c.ch = "phys"
  BY <1>4 DEF OwedAfter
<1>5. CASE ~c.reset /\ c.ans # "none" /\ c.ans # "pend" /\ c.ch = "phys"
  BY <1>5 DEF OwedAfter
<1>6. CASE ~c.reset /\ c.ans # "none" /\ c.ch = "func"
  BY <1>6 DEF OwedAfter
<1> QED
  BY <1>1, <1>2, <1>3, <1>4, <1>5, <1>6 DEF Chan

\* What a pass hands on from part to part.
LEMMA PassFlow ==
  ASSUME NEW a, NEW b, NEW s, NEW w, NEW c, Types, Passes(a, b, s, w, c)
  PROVE  /\ c \in Ctx /\ c.ans = a.ans /\ c.to = a.to /\ c.ch = a.ch
         /\ c.m.busy = a.m.busy /\ c.m.s3 = a.m.s3 /\ c.m.reset11 = a.m.reset11
         /\ c.m.step = b.m.step /\ c.m.left = b.m.left /\ c.m.nrc11 = s.m.nrc11
         /\ c.reset = s.reset /\ b.m.nrc11 = a.m.nrc11 /\ b.m.reset11 = a.m.reset11
         /\ b.m.t11 = a.m.t11
         /\ \A k \in Items : b.nv[k] => c.nv[k]
         /\ \A k \in Items : nv[k] => c.nv[k]
<1>1. /\ a \in Ctx /\ a.nv = nv
  BY ContextIs DEF Passes, Mains
<1>2. /\ b \in Ctx /\ b.ans = a.ans /\ b.to = a.to /\ b.ch = a.ch
      /\ b.m.s3 = a.m.s3 /\ b.m.busy = a.m.busy /\ b.m.nrc11 = a.m.nrc11
      /\ b.m.reset11 = a.m.reset11 /\ b.m.t11 = a.m.t11
      /\ \A k \in Items : a.nv[k] => b.nv[k]
  BY DEF Passes, Starts, Around
<1>3. /\ s \in Ctx /\ s.ans = b.ans /\ s.to = b.to /\ s.ch = b.ch
      /\ s.m.s3 = b.m.s3 /\ s.m.busy = b.m.busy /\ s.m.reset11 = b.m.reset11
      /\ s.m.step = b.m.step /\ s.m.left = b.m.left
      /\ \A k \in Items : b.nv[k] => s.nv[k]
  BY DEF Passes, Answers11, Around
<1>4. /\ w \in Ctx /\ w.ans = s.ans /\ w.to = s.to /\ w.ch = s.ch /\ w.reset = s.reset
      /\ w.m.s3 = s.m.s3 /\ w.m.busy = s.m.busy /\ w.m.reset11 = s.m.reset11
      /\ w.m.step = s.m.step /\ w.m.left = s.m.left /\ w.m.nrc11 = s.m.nrc11
      /\ \A k \in Items : s.nv[k] => w.nv[k]
  BY DEF Passes, Around, Alike
<1>5. /\ c \in Ctx /\ c.ans = w.ans /\ c.to = w.to /\ c.ch = w.ch /\ c.reset = w.reset
      /\ c.m.s3 = w.m.s3 /\ c.m.busy = w.m.busy /\ c.m.reset11 = w.m.reset11
      /\ c.m.step = w.m.step /\ c.m.left = w.m.left /\ c.m.nrc11 = w.m.nrc11
      /\ c.nv = w.nv
  BY DEF Passes, Counts
<1>6. \A k \in Items : b.nv[k] => c.nv[k]
  BY <1>3, <1>4, <1>5
<1>7. \A k \in Items : nv[k] => c.nv[k]
  BY <1>1, <1>2, <1>6
<1> QED
  BY <1>2, <1>3, <1>4, <1>5, <1>6, <1>7

\* A pass keeps the types.
LEMMA PassTypes ==
  ASSUME NEW a, NEW b, NEW s, NEW w, NEW c, Types, Passes(a, b, s, w, c)
  PROVE  Types'
<1>1. c \in Ctx
  BY PassFlow
<1>2. c.m \in Mem /\ c.rx \in Inbox /\ c.flash \in Queue /\ c.nv \in Image /\ c.reset \in Bool
  BY <1>1, Parts
<1>3. ram' \in Mem /\ rx' \in Inbox /\ flash' \in Queue /\ nv' \in Image
  BY <1>2, AfterReset DEF Passes, Queue
<1>4. lag' \in 0..Lag /\ life' \in Bool /\ run' \in {"app", "boot"}
  BY <1>2, DcmAssumption DEF Passes, Types, Bool
<1>5. run' = "boot" => owed' = "none"
  BY <1>1, OwedIs DEF Passes
<1> QED
  BY <1>3, <1>4, <1>5 DEF Types

\* A pass that takes the hand-over up stores it before it is over.
LEMMA PassHand ==
  ASSUME NEW a, NEW b, NEW s, NEW w, NEW c, Types, Hand, Passes(a, b, s, w, c)
  PROVE  Hand'
<1>0. HandOver \subseteq Items
  BY DEF Items
<1>1. CASE c.reset
  <2>1. ram' = Ram0 /\ owed' = "none"
    BY <1>1, PassFlow, OwedIs DEF Passes
  <2> QED
    BY <2>1, AfterReset DEF Hand
<1>2. CASE ~c.reset
  <2>1. ram' = c.m /\ owed' = OwedAfter(c) /\ nv' = c.nv /\ c \in Ctx /\ ram'.step = b.m.step
    BY <1>2, PassFlow DEF Passes
  <2>2. a.m.step = ram.step \/ a.m.step = "CHK_UPDATE_FLG"
    BY ContextIs DEF Passes, Mains, Alike
  <2>3. b.m.step = "ECU_RESET" \/ b.m.step = "PENDING"
    BY DEF Passes, Starts
  <2>4. ASSUME b.m.step = "ECU_RESET"
        PROVE  \A k \in HandOver : c.nv[k]
    <3>1. a.m.step = "CHK_UPDATE_FLG" \/ a.m.step = "ECU_RESET"
      BY <2>4 DEF Passes, Starts
    <3>2. CASE a.m.step = "CHK_UPDATE_FLG"
      <4>1. \A k \in HandOver : b.nv[k]
        BY <3>2 DEF Passes, Starts
      <4> QED
        BY <1>0, <4>1, PassFlow
    <3>3. CASE a.m.step = "ECU_RESET"
      <4>1. \A k \in HandOver : nv[k]
        BY <2>2, <3>3 DEF Hand
      <4> QED
        BY <1>0, <4>1, PassFlow
    <3> QED
      BY <3>1, <3>2, <3>3
  <2>5. ASSUME owed' = "1002"
        PROVE  b.m.step = "ECU_RESET"
    <3>1. owed = "1002" \/ (c.to.s = "1002" /\ c.ans = "pend")
      BY <1>2, <2>1, <2>5, OwedIs
    <3>2. CASE owed = "1002"
      <4>1. ram.step = "ECU_RESET"
        BY <3>2 DEF Hand
      <4> QED
        BY <2>2, <4>1 DEF Passes, Starts
    <3>3. CASE c.to.s = "1002" /\ c.ans = "pend"
      <4>1. a.to.s = "1002" /\ a.ans = "pend"
        BY <3>3, PassFlow
      <4>2. a.m.step = "CHK_UPDATE_FLG"
        BY <4>1, ContextIs DEF Passes, Mains
      <4> QED
        BY <4>2 DEF Passes, Starts
    <3> QED
      BY <3>1, <3>2, <3>3
  <2> QED
    BY <2>1, <2>3, <2>4, <2>5 DEF Hand
<1> QED
  BY <1>1, <1>2

\* A hand-over under way is waited for or ends in the reset.
LEMMA PassGoing ==
  ASSUME NEW a, NEW b, NEW s, NEW w, NEW c, Types, Hand, Going, Passes(a, b, s, w, c)
  PROVE  Going'
<1>0. /\ ram.s3 \in Nat /\ ram.left \in Nat /\ GoReset \in Nat /\ GoReset > 0 /\ lag \in 0..Lag
      /\ Lag \in Nat /\ Dly \in Nat /\ Dly + GoReset + Lag < S3 /\ S3 \in Nat
  BY DcmAssumption DEF Types, Mem
<1>1. CASE c.reset
  BY <1>1, AfterReset DEF Passes, Going
<1>2. CASE ~c.reset
  <2>1. ram' = c.m
    BY <1>2 DEF Passes
  <2> SUFFICES ASSUME b.m.step = "ECU_RESET"
               PROVE  /\ c.m.busy.s = "1002"
                      /\ c.m.left > 0 => c.m.s3 + c.m.left <= GoReset
                      /\ c.m.left # 0
    BY <2>1, PassFlow DEF Going
  <2>2. a.m.step = "CHK_UPDATE_FLG" \/ a.m.step = "ECU_RESET"
    BY DEF Passes, Starts
  <2>3. CASE a.m.step = "CHK_UPDATE_FLG"
    <3>1. b.m.left = GoReset
      BY <2>3 DEF Passes, Starts
    <3>2. ram.step # a.m.step
      BY <2>3 DEF Hand
    <3>3. a.m.busy.s = "1002" /\ a.m.s3 = 0
      BY <3>2, ContextIs DEF Passes, Mains, Alike
    <3> QED
      BY <1>0, <3>1, <3>3, PassFlow
  <2>4. CASE a.m.step = "ECU_RESET"
    <3>1. ram.step = "ECU_RESET"
      BY <2>4, ContextIs DEF Passes, Mains, Alike
    <3>2. /\ ram.busy.s = "1002"
          /\ ram.left > 0 => ram.s3 + ram.left <= GoReset
          /\ ram.left = 0 => ram.s3 < GoReset + lag
      BY <3>1 DEF Going
    <3>3. ~(ram.s3 >= S3)
      BY <1>0, <3>2
    <3>4. Alike(ram, a.m)
      <4>1. ram.busy # None
        BY <3>2 DEF None
      <4> QED
        BY <3>2, <3>3, <4>1, ContextIs DEF Passes, Mains
    <3>5. /\ b.m.left = ram.left /\ b.m.s3 = ram.s3 /\ b.m.busy = ram.busy
      BY <2>4, <3>4 DEF Passes, Starts, Alike
    <3>6. ~b.reset
      BY <1>2, PassFlow DEF Passes, Answers11
    <3>7. c.m.left = ram.left /\ c.m.s3 = ram.s3 /\ c.m.busy = ram.busy
      BY <3>4, <3>5, PassFlow DEF Alike
    <3>8. ram.left # 0
      <4>1. b.reset = (a.m.left = 0)
        BY <2>4 DEF Passes, Starts
      <4>2. a.m.left # 0
        BY <3>6, <4>1
      <4> QED
        BY <3>4, <4>2 DEF Alike
    <3> QED
      BY <3>2, <3>7, <3>8
  <2> QED
    BY <2>2, <2>3, <2>4
<1> QED
  BY <1>1, <1>2

\* While its answer is due, S3 is not over.
LEMMA InTime ==
  ASSUME Types, Timely, Lag * (Dly + 2) < S3, ram.busy.s = "11", ram.nrc11 \in {"INIT", "POS"}
  PROVE  ram.s3 < S3
<1> DEFINE l == Lag * Dly
           k == Lag * ram.t11
<1>1. /\ ram.s3 \in Nat /\ ram.t11 \in Nat /\ lag \in 0..Lag /\ Lag \in Nat /\ Dly \in Nat
      /\ S3 \in Nat
  BY DcmAssumption DEF Types, Mem
<1>2. l \in Nat /\ Lag * (Dly + 1) = l + Lag
  BY <1>1, Multiples
<1>3. Lag * ((Dly + 1) + 1) = Lag * (Dly + 1) + Lag
  BY <1>1, Multiples
<1>4. Lag * (Dly + 2) = l + Lag + Lag
  BY <1>1, <1>2, <1>3
<1>5. k \in Nat /\ (ram.t11 <= Dly => k <= l)
  BY <1>1, Multiples
<1>6. l + Lag + Lag < S3
  BY <1>4
<1>7. /\ ram.nrc11 = "INIT" => ram.t11 <= Dly /\ ram.s3 <= k + lag
      /\ ram.nrc11 = "POS" => ram.s3 <= l + Lag + lag
  BY <1>2 DEF Timely
<1> HIDE DEF l, k
<1>8. CASE ram.nrc11 = "INIT"
  <2>1. ram.s3 <= k + lag /\ k <= l
    BY <1>5, <1>7, <1>8
  <2> QED
    BY <1>1, <1>2, <1>5, <1>6, <2>1
<1>9. CASE ram.nrc11 = "POS"
  <2>1. ram.s3 <= l + Lag + lag
    BY <1>7, <1>9
  <2> QED
    BY <1>1, <1>2, <1>6, <2>1
<1> QED
  BY <1>8, <1>9

\* What a pass adds to the delay of service 11, S3 has had at most Lag times.
LEMMA PassTimely ==
  ASSUME NEW a, NEW b, NEW s, NEW w, NEW c, Types, Timely, Passes(a, b, s, w, c)
  PROVE  Timely'
<1> DEFINE t == b.m.t11
           k == Lag * t
           l == Lag * Dly
<1>0. /\ ram \in Mem /\ ram.s3 \in Nat /\ ram.t11 \in Nat /\ lag \in 0..Lag /\ Lag \in Nat
      /\ Dly \in Nat \ {0} /\ After \in Nat
  BY DcmAssumption DEF Types, Mem
<1>1. CASE c.reset
  BY <1>1, AfterReset DEF Passes, Timely
<1>2. CASE ~c.reset
  <2>1. ram' = c.m /\ lag' = (IF c.m.cnt = 0 THEN 0 ELSE lag)
    BY <1>2 DEF Passes
  <2> SUFFICES ASSUME a.m.busy.s = "11"
               PROVE  /\ c.m.reset11
                      /\ c.m.nrc11 = "INIT" =>
                           c.m.t11 <= Dly /\ c.m.s3 <= Lag * c.m.t11 + lag'
                      /\ c.m.nrc11 = "POS" =>
                           c.m.t11 <= 1 /\ c.m.s3 <= Lag * (Dly + 1) + lag'
    BY <2>1, PassFlow DEF Timely
  <2>2. a.m.busy # None
    BY DEF None
  <2>3. \/ /\ ram.busy.s = "11" /\ ram.nrc11 = "INIT" /\ Alike(ram, a.m)
        \/ /\ a.m.s3 = 0 /\ a.m.nrc11 = "INIT" /\ a.m.reset11
    BY <2>2, ContextIs DEF Passes, Mains, Alike
  <2>4. a.m.t11 = ram.t11
    BY ContextIs DEF Passes, Mains
  <2>5. /\ a.m.s3 \in Nat /\ t \in Nat /\ a.m.reset11 /\ a.m.nrc11 = "INIT"
        /\ a.m.s3 = 0 \/ (t <= Dly /\ a.m.s3 <= k + lag)
    <3>1. t = ram.t11
      BY <2>4, PassFlow
    <3>2. CASE ram.busy.s = "11" /\ ram.nrc11 = "INIT" /\ Alike(ram, a.m)
      <4>1. ram.reset11 /\ ram.t11 <= Dly /\ ram.s3 <= Lag * ram.t11 + lag
        BY <3>2 DEF Timely
      <4>2. k = Lag * ram.t11
        BY <3>1
      <4> HIDE DEF t, k
      <4> QED
        BY <1>0, <3>1, <3>2, <4>1, <4>2 DEF Alike
    <3>3. CASE a.m.s3 = 0 /\ a.m.nrc11 = "INIT" /\ a.m.reset11
      BY <1>0, <3>1, <3>3
    <3> QED
      BY <2>3, <3>2, <3>3
  <2>6. \/ s.m.nrc11 = "POS" /\ s.m.t11 = 0
        \/ s.m.nrc11 = "INIT" /\ s.m.t11 = t /\ t < Dly
    <3>1. b.m.reset11 /\ b.m.nrc11 = "INIT"
      BY <2>5, PassFlow
    <3> QED
      BY <3>1 DEF Passes, Answers11
  <2>7. k \in Nat /\ l \in Nat /\ (t <= Dly => k <= l) /\ Lag * (t + 1) = k + Lag
        /\ Lag * (Dly + 1) = l + Lag
    BY <1>0, <2>5, Multiples
  <2>8. /\ c.m.s3 = a.m.s3 /\ c.m.reset11 /\ c.m.nrc11 = s.m.nrc11
        /\ \/ c.m.t11 = s.m.t11 /\ lag' = lag
           \/ c.m.t11 = UpTo(s.m.t11, Dly + After) /\ lag' = 0
    <3>1. c.m.s3 = a.m.s3 /\ c.m.reset11 /\ c.m.nrc11 = s.m.nrc11
      BY <2>5, PassFlow
    <3>2. \/ c.m.cnt # 0 /\ c.m.t11 = w.m.t11
          \/ c.m.cnt = 0 /\ c.m.t11 = UpTo(w.m.t11, Dly + After)
      BY DEF Passes, Counts
    <3>3. w.m.t11 = s.m.t11
      BY DEF Passes, Alike
    <3> QED
      BY <2>1, <3>1, <3>2, <3>3
  <2>9. CASE s.m.nrc11 = "POS" /\ s.m.t11 = 0
    <3>1. UpTo(0, Dly + After) = 1
      BY <1>0 DEF UpTo
    <3>2. c.m.t11 \in {0, 1}
      BY <2>8, <2>9, <3>1
    <3> HIDE DEF t, k, l
    <3>3. a.m.s3 <= l + lag
      BY <1>0, <2>5, <2>7
    <3>4. a.m.s3 <= l + Lag + lag'
      BY <1>0, <2>5, <2>7, <2>8, <3>3
    <3>5. a.m.s3 <= Lag * (Dly + 1) + lag'
      BY <2>7, <3>4
    <3> QED
      BY <2>8, <2>9, <3>2, <3>5
  <2>10. CASE s.m.nrc11 = "INIT" /\ s.m.t11 = t /\ t < Dly
    <3>1. UpTo(t, Dly + After) = t + 1
      BY <1>0, <2>5, <2>10 DEF UpTo
    <3>k. k = Lag * t
      OBVIOUS
    <3> HIDE DEF t, k, l
    <3>2. CASE c.m.t11 = t /\ lag' = lag
      <4>1. a.m.s3 <= k + lag
        BY <1>0, <2>5, <2>7
      <4> QED
        BY <1>0, <2>5, <2>8, <2>10, <3>2, <3>k, <4>1
    <3>3. CASE c.m.t11 = t + 1 /\ lag' = 0
      <4>1. a.m.s3 <= k + Lag
        BY <1>0, <2>5, <2>7
      <4>2. a.m.s3 <= Lag * (t + 1) + 0
        BY <1>0, <2>5, <2>7, <4>1
      <4>3. t + 1 <= Dly
        BY <1>0, <2>5, <2>10
      <4> QED
        BY <2>8, <2>10, <3>3, <4>2, <4>3
    <3> QED
      BY <2>8, <2>10, <3>1, <3>2, <3>3
  <2> QED
    BY <2>6, <2>9, <2>10
<1> QED
  BY <1>1, <1>2

\* The answer that is owed is still to come, or has been given.
LEMMA PassAsks ==
  ASSUME NEW a, NEW b, NEW s, NEW w, NEW c, Types, Timely, Asks, Lag * (Dly + 2) < S3,
         Passes(a, b, s, w, c)
  PROVE  Asks'
<1>1. CASE c.reset
  BY <1>1, PassFlow, OwedIs DEF Passes, Asks
<1>2. CASE ~c.reset
  <2>1. ram' = c.m /\ owed' = OwedAfter(c) /\ c \in Ctx
    BY <1>2, PassFlow DEF Passes
  <2> SUFFICES ASSUME OwedAfter(c) = "11"
               PROVE  c.m.busy.s = "11" /\ c.m.nrc11 \in {"INIT", "POS"}
    BY <2>1 DEF Asks
  <2>2. \/ owed = "11" /\ (a.ans = "none" \/ a.ch = "func")
        \/ a.to.s = "11" /\ a.ans = "pend"
    BY <1>2, <2>1, OwedIs, PassFlow
  <2>3. a.m.busy.s = "11" /\ a.m.nrc11 = "INIT"
    <3>1. CASE owed = "11" /\ (a.ans = "none" \/ a.ch = "func")
      <4>1. ram.busy.s = "11" /\ ram.nrc11 \in {"INIT", "POS"}
        BY <3>1 DEF Asks
      <4>2. ram.s3 < S3 /\ ~(ram.s3 >= S3)
        <5>1. ram.s3 < S3
          BY <4>1, InTime
        <5>2. ram.s3 \in Nat /\ S3 \in Nat
          BY DcmAssumption DEF Types, Mem
        <5> QED
          BY <5>1, <5>2
      <4>3. ram.busy # None
        BY <4>1 DEF None
      <4> QED
        BY <3>1, <4>1, <4>2, <4>3, ContextIs DEF Passes, Mains, Alike
    <3>2. CASE a.to.s = "11" /\ a.ans = "pend"
      BY <3>2, ContextIs DEF Passes, Mains
    <3> QED
      BY <2>2, <3>1, <3>2
  <2>4. s.m.nrc11 \in {"INIT", "POS"}
    BY <2>3, PassFlow DEF Passes, Answers11
  <2> QED
    BY <2>3, <2>4, PassFlow
<1> QED
  BY <1>1, <1>2
-----------------------------------------------------------------------------
(* The other steps.                                                          *)
\* The 10 ms task counts S3 up and the reset's delay down.
LEMMA Period10Is ==
  ASSUME Types, Period10
  PROVE  /\ ram' \in Mem /\ ram'.step = ram.step /\ ram'.busy = ram.busy
         /\ ram'.nrc11 = ram.nrc11 /\ ram'.reset11 = ram.reset11 /\ ram'.t11 = ram.t11
         /\ ram'.s3 \in Nat /\ ram'.s3 <= ram.s3 + 1
         /\ ram'.left \in Nat
         /\ (ram.left = 0 /\ ram'.left = 0) \/ (ram.left > 0 /\ ram'.left = ram.left - 1)
         /\ lag' = lag + 1 /\ lag' \in 0..Lag
<1> DEFINE x == UpTo(ram.s3, S3)
           y == Minus(ram.left)
           m == [ram EXCEPT !.s3 = x, !.left = y]
           e == IF m.s3 >= S3 THEN "default" ELSE m.session
           u == m.unlocked /\ e # "default"
           n == [m EXCEPT !.session = e, !.unlocked = u]
<1>0. ram \in Mem /\ ram.s3 \in Nat /\ ram.left \in Nat /\ S3 \in Nat
  BY DcmAssumption DEF Types, Mem
<1>1. ram' = n
  BY DEF Period10, ServerTime
<1>2. x \in Nat /\ x <= ram.s3 + 1
  BY <1>0 DEF UpTo
<1>3. y \in Nat /\ ((ram.left = 0 /\ y = 0) \/ (ram.left > 0 /\ y = ram.left - 1))
  BY <1>0 DEF Minus
<1> HIDE DEF x, y
<1>4. /\ m \in Mem /\ m.step = ram.step /\ m.busy = ram.busy /\ m.nrc11 = ram.nrc11
      /\ m.reset11 = ram.reset11 /\ m.t11 = ram.t11 /\ m.s3 = x /\ m.left = y
  BY <1>0, <1>2, <1>3 DEF Mem
<1> HIDE DEF m
<1>5. e \in Sessions
  BY <1>4 DEF Mem, Sessions
<1>6. u \in Bool
  BY DEF Bool
<1> HIDE DEF e, u
<1>7. /\ n \in Mem /\ n.step = m.step /\ n.busy = m.busy /\ n.nrc11 = m.nrc11
      /\ n.reset11 = m.reset11 /\ n.t11 = m.t11 /\ n.s3 = m.s3 /\ n.left = m.left
  BY <1>4, <1>5, <1>6 DEF Mem
<1> HIDE DEF n
<1>8. lag' = lag + 1 /\ lag' \in 0..Lag
  BY DcmAssumption DEF Types, Period10
<1> QED
  BY <1>1, <1>2, <1>3, <1>4, <1>7, <1>8

\* The 10 ms task keeps the invariant.
LEMMA Period10Keeps ==
  ASSUME Types, Period10
  PROVE  Types' /\ (Hand => Hand') /\ (Going => Going') /\ (Timely => Timely') /\ (Asks => Asks')
<1>1. /\ run' = run /\ rx' = rx /\ flash' = flash /\ nv' = nv /\ life' = life /\ owed' = owed
      /\ run = "app"
  BY DEF Period10
<1>2. Types'
  BY <1>1, Period10Is DEF Types
<1>3. Hand => Hand'
  BY <1>1, Period10Is DEF Hand
<1>t. /\ ram.s3 \in Nat /\ ram.left \in Nat /\ ram.t11 \in Nat /\ lag \in Nat /\ GoReset \in Nat
      /\ Lag \in Nat /\ Dly \in Nat
  BY DcmAssumption DEF Types, Mem
<1>4. ASSUME Going
      PROVE  Going'
  <2> SUFFICES ASSUME ram'.step = "ECU_RESET"
               PROVE  /\ ram'.busy.s = "1002"
                      /\ ram'.left > 0 => ram'.s3 + ram'.left <= GoReset
                      /\ ram'.left = 0 => ram'.s3 < GoReset + lag'
    BY DEF Going
  <2>1. /\ ram.busy.s = "1002"
        /\ ram.left > 0 => ram.s3 + ram.left <= GoReset
        /\ ram.left = 0 => ram.s3 < GoReset + lag
    BY <1>4, Period10Is DEF Going
  <2>2. ram'.busy.s = "1002"
    BY <2>1, Period10Is
  <2>3. CASE ram.left = 0 /\ ram'.left = 0
    BY <1>t, <2>1, <2>2, <2>3, Period10Is
  <2>4. CASE ram.left > 0 /\ ram'.left = ram.left - 1
    BY <1>t, <2>1, <2>2, <2>4, Period10Is
  <2> QED
    BY <2>3, <2>4, Period10Is
<1>5. ASSUME Timely
      PROVE  Timely'
  <2> DEFINE k == Lag * ram.t11
             l == Lag * (Dly + 1)
  <2>0. k \in Nat /\ l \in Nat
    BY <1>t, Multiples
  <2> SUFFICES ASSUME ram'.busy.s = "11"
               PROVE  /\ ram'.reset11
                      /\ ram'.nrc11 = "INIT" => ram'.t11 <= Dly /\ ram'.s3 <= Lag * ram'.t11 + lag'
                      /\ ram'.nrc11 = "POS" => ram'.t11 <= 1 /\ ram'.s3 <= l + lag'
    BY DEF Timely
  <2>1. /\ ram.reset11
        /\ ram.nrc11 = "INIT" => ram.t11 <= Dly /\ ram.s3 <= k + lag
        /\ ram.nrc11 = "POS" => ram.t11 <= 1 /\ ram.s3 <= l + lag
    BY <1>5, Period10Is DEF Timely
  <2>2. Lag * ram'.t11 = k
    BY Period10Is
  <2> HIDE DEF k, l
  <2>3. ram.s3 <= k + lag => ram'.s3 <= k + lag'
    BY <1>t, <2>0, Period10Is
  <2>4. ram.s3 <= l + lag => ram'.s3 <= l + lag'
    BY <1>t, <2>0, Period10Is
  <2> QED
    BY <2>1, <2>2, <2>3, <2>4, Period10Is
<1>6. Asks => Asks'
  BY <1>1, Period10Is DEF Asks
<1> QED
  BY <1>2, <1>3, <1>4, <1>5, <1>6

\* So do the tester, the tick, the flash engine and the boot loader.
LEMMA OthersKeep ==
  ASSUME Types, (\E h \in Chan : Ask(h)) \/ Can_Transmit \/ FlashDone \/ BootReturns
  PROVE  Types' /\ (Hand => Hand') /\ (Going => Going') /\ (Timely => Timely') /\ (Asks => Asks')
<1>1. ASSUME NEW h \in Chan, Ask(h)
      PROVE  Types' /\ (Hand => Hand') /\ (Going => Going') /\ (Timely => Timely') /\ (Asks => Asks')
  <2>1. PICK q \in Asked[h] : rx' = [rx EXCEPT ![h] = q]
    BY <1>1 DEF Ask
  <2>2. /\ run' = run /\ run = "app" /\ ram' = ram /\ flash' = flash /\ nv' = nv /\ lag' = lag
        /\ life' = life /\ owed' \in {"asked", owed}
    BY <1>1 DEF Ask
  <2>3. q \in Requests
    BY DcmAssumption
  <2>4. rx' \in Inbox
    BY <2>1, <2>3 DEF Types, Inbox, Held
  <2>5. Types'
    BY <2>2, <2>4 DEF Types
  <2>6. (Hand => Hand') /\ (Going => Going') /\ (Timely => Timely') /\ (Asks => Asks')
    BY <2>2 DEF Hand, Going, Timely, Asks
  <2> QED
    BY <2>5, <2>6
<1>2. CASE Can_Transmit
  BY <1>2 DEF Can_Transmit, Types, Hand, Going, Timely, Asks
<1>3. CASE FlashDone
  <2>1. /\ run' = run /\ ram' = ram /\ rx' = rx /\ lag' = lag /\ life' = life /\ owed' = owed
        /\ flash' = "none" /\ nv' = [nv EXCEPT ![flash] = TRUE] /\ flash # "none"
    BY <1>3 DEF FlashDone
  <2>2. flash \in Items /\ nv \in Image
    BY <2>1 DEF Types, Queue
  <2>3. nv' \in Image /\ \A k \in Items : nv[k] => nv'[k]
    BY <2>1, <2>2 DEF Image, Bool
  <2>4. HandOver \subseteq Items
    BY DEF Items
  <2>5. Types'
    BY <2>1, <2>3 DEF Types, Queue
  <2>6. (Hand => Hand') /\ (Going => Going') /\ (Timely => Timely') /\ (Asks => Asks')
    BY <2>1, <2>3, <2>4 DEF Hand, Going, Timely, Asks
  <2> QED
    BY <2>5, <2>6
<1>4. CASE BootReturns
  <2>1. /\ run = "boot" /\ run' = "app" /\ ram' = Ram0 /\ rx' = rx
        /\ nv' = [k \in DOMAIN nv |-> k \notin HandOver /\ nv[k]]
        /\ flash' = flash /\ lag' = lag /\ life' = life /\ owed' = owed
    BY <1>4 DEF BootReturns
  <2>2. owed = "none"
    BY <2>1 DEF Types
  <2>3. nv' \in Image
    <3>1. nv \in Image
      BY DEF Types
    <3> QED
      BY <2>1, <3>1 DEF Image, Bool
  <2>4. Types'
    BY <2>1, <2>2, <2>3, AfterReset DEF Types
  <2>5. Hand' /\ Going' /\ Timely' /\ Asks'
    BY <2>1, <2>2, AfterReset DEF Hand, Going, Timely, Asks
  <2> QED
    BY <2>4, <2>5
<1> QED
  BY <1>1, <1>2, <1>3, <1>4

\* The server starts with the invariant.
LEMMA InitInv ==
  ASSUME Init
  PROVE  TInv
<1>1. nv \in Image
  BY DEF Init, Nv0, Image, Items, Bool
<1>2. Types
  <2>1. rx \in Inbox /\ ram \in Mem
    BY AfterReset DEF Init
  <2>2. run = "app" /\ flash \in Queue /\ life \in Bool
    BY DEF Init, Queue, Bool
  <2>3. lag \in 0..Lag
    BY DcmAssumption DEF Init
  <2> QED
    BY <1>1, <2>1, <2>2, <2>3 DEF Types
<1>3. Hand /\ Going /\ Timely /\ Asks
  BY AfterReset DEF Init, Hand, Going, Timely, Asks
<1> QED
  BY <1>2, <1>3 DEF TInv, IInv

\* Every step keeps the types and the hand-over.
LEMMA NextIInv ==
  ASSUME IInv, [Next]_vars
  PROVE  IInv'
<1>1. CASE Pass
  <2>1. PICK a, b, s, w, c : Passes(a, b, s, w, c)
    BY <1>1, PassIs DEF IInv
  <2> QED
    BY <2>1, PassTypes, PassHand DEF IInv
<1>2. CASE Period10
  BY <1>2, Period10Keeps DEF IInv
<1>3. CASE (\E h \in Chan : Ask(h)) \/ Can_Transmit \/ FlashDone \/ BootReturns
  BY <1>3, OthersKeep DEF IInv
<1>4. CASE UNCHANGED vars
  BY <1>4 DEF vars, IInv, Types, Hand
<1> QED
  BY <1>1, <1>2, <1>3, <1>4 DEF Next

\* Every step keeps the timing.
LEMMA NextTInv ==
  ASSUME Lag * (Dly + 2) < S3, TInv, [Next]_vars
  PROVE  TInv'
<1>0. IInv'
  BY NextIInv DEF TInv
<1>1. CASE Pass
  <2>1. PICK a, b, s, w, c : Passes(a, b, s, w, c)
    BY <1>1, PassIs DEF TInv, IInv
  <2> QED
    BY <1>0, <2>1, PassGoing, PassTimely, PassAsks DEF TInv, IInv
<1>2. CASE Period10
  BY <1>0, <1>2, Period10Keeps DEF TInv, IInv
<1>3. CASE (\E h \in Chan : Ask(h)) \/ Can_Transmit \/ FlashDone \/ BootReturns
  BY <1>0, <1>3, OthersKeep DEF TInv, IInv
<1>4. CASE UNCHANGED vars
  BY <1>4 DEF vars, TInv, IInv, Types, Hand, Going, Timely, Asks
<1> QED
  BY <1>1, <1>2, <1>3, <1>4 DEF Next

\* A reset comes only at the end of a pass.
LEMMA OnlyPasses ==
  ASSUME Types, [Next]_vars, life' # life
  PROVE  \E a, b, s, w, c : Passes(a, b, s, w, c) /\ c.reset
<1>1. Pass
  BY DEF Next, Ask, Period10, Can_Transmit, FlashDone, BootReturns, vars
<1>2. PICK a, b, s, w, c : Passes(a, b, s, w, c)
  BY <1>1, PassIs
<1>3. c \in Ctx /\ life' = (life # c.reset)
  BY <1>2, PassFlow DEF Passes
<1>4. c.reset
  BY <1>3 DEF Types, Ctx, Bool
<1> QED
  BY <1>2, <1>4

\* A reset finds the hand-over of a pending 10 02 stored.
LEMMA StepHandsOver ==
  ASSUME IInv, [Next]_vars, life' # life, owed = "1002"
  PROVE  nv'.update /\ nv'.chg /\ nv'.jump /\ run' = "boot"
<1>1. PICK a, b, s, w, c : Passes(a, b, s, w, c) /\ c.reset
  BY OnlyPasses DEF IInv
<1>2. \A k \in HandOver : nv[k] /\ k \in Items
  BY DEF IInv, Hand, Items
<1>3. \A k \in HandOver : c.nv[k]
  BY <1>1, <1>2, PassFlow DEF IInv
<1> QED
  BY <1>1, <1>3 DEF Passes, HandOver

\* No reset finds a granted service 11 unanswered.
LEMMA StepAnswers ==
  ASSUME Lag * (Dly + 2) < S3, 1 < Dly + After, TInv, [Next]_vars, life' # life
  PROVE  owed # "11"
<1> SUFFICES ASSUME owed = "11"
             PROVE  FALSE
  OBVIOUS
<1>1. PICK a, b, s, w, c : Passes(a, b, s, w, c) /\ c.reset
  BY OnlyPasses DEF TInv, IInv
<1>2. ram.busy.s = "11" /\ ram.nrc11 \in {"INIT", "POS"} /\ Types /\ Hand /\ Timely /\ Going
  BY DEF TInv, IInv, Asks
<1>3. ram.step = "PENDING"
  <2>1. ram.step \in Steps
    BY <1>2 DEF Types, Mem
  <2> QED
    BY <1>2, <2>1 DEF Steps, Hand, Going
<1>4. ram.busy # None
  BY <1>2 DEF None
<1>5. ~(ram.s3 >= S3)
  <2>1. ram.s3 < S3
    BY <1>2, InTime
  <2>2. ram.s3 \in Nat /\ S3 \in Nat
    BY <1>2, DcmAssumption DEF Types, Mem
  <2> QED
    BY <2>1, <2>2
<1>6. a.m.step = "PENDING" /\ a.m.t11 = ram.t11 /\ ~a.reset
  BY <1>1, <1>2, <1>3, <1>4, ContextIs DEF Passes, Mains, Alike
<1>7. ~b.reset
  BY <1>1, <1>6 DEF Passes, Starts
<1>8. b.m.nrc11 = "PEDING" /\ b.m.t11 >= Dly + After
  <2>1. s.reset
    BY <1>1, <1>2, PassFlow
  <2> QED
    BY <1>1, <1>7, <2>1 DEF Passes, Answers11
<1>9. a.m.nrc11 = "PEDING" /\ ram.t11 >= Dly + After
  BY <1>1, <1>2, <1>6, <1>8, PassFlow
<1>10. ram.nrc11 = "POS"
  BY <1>1, <1>2, <1>4, <1>5, <1>9, ContextIs DEF Passes, Mains, Alike
<1>11. ram.t11 <= 1
  BY <1>2, <1>10 DEF Timely
<1>12. ram.t11 \in Nat /\ Dly \in Nat /\ After \in Nat
  BY <1>2, DcmAssumption DEF Types, Mem
<1> QED
  BY <1>9, <1>11, <1>12

\* Whatever reset ends a pending 10 02, bootloader_main_process has all three flags in
\* the flash by then, and the boot loader comes up; for every timing and any requests.
THEOREM HandOversWhole == Spec => HandedOver
<1>1. Init => IInv
  BY InitInv DEF TInv
<1>2. IInv /\ [Next]_vars => IInv'
  BY NextIInv
<1>3. IInv /\ [Next]_vars =>
        [life' # life /\ owed = "1002" => nv'.update /\ nv'.chg /\ nv'.jump /\ run' = "boot"]_vars
  BY StepHandsOver
<1> QED
  BY <1>1, <1>2, <1>3, PTL DEF Spec, HandedOver

\* uds_service_11_process resets only after the answer to every granted service 11 is
\* out, if S3 cannot run out during the delay though the passes fall behind, and the
\* reset comes at least two units after the request.
THEOREM ResetsAnswered ==
  ASSUME Lag * (Dly + 2) < S3, 1 < Dly + After
  PROVE  Spec => ResetAnswered
<1>1. Init => TInv
  BY InitInv
<1>2. TInv /\ [Next]_vars => TInv'
  BY NextTInv
<1>3. TInv /\ [Next]_vars => [life' # life => owed # "11"]_vars
  BY StepAnswers
<1> QED
  BY <1>1, <1>2, <1>3, PTL DEF Spec, ResetAnswered
=============================================================================
