-------------------------- MODULE FlashAsyncProofs --------------------------
(***************************************************************************)
(* Theorems about the flash request engine, for every geometry, queue      *)
(* depth, buffer size and set of requests, with failing and hanging        *)
(* operations and power losses: its state keeps its types and the segments *)
(* of the queued writes stay apart inside the data buffer; and, provided   *)
(* that a good operation answers within the timeout, what an operation     *)
(* reads stays while it runs and the engine implements FlashStore.         *)
(***************************************************************************)
EXTENDS FlashAsync, SequenceTheorems, TLAPS

\* The calls the main loop can be inside of; the address of an oversized write
\* moves on as its segments are queued.
CallOK ==
  call \in {NoCall, [op |-> "wait"]}
      \cup [op : {"erase"}, addr : Addr, size : Nat, sync : BOOLEAN]
      \cup [op : {"write"}, addr : Nat, data : Seq(Data), sync : BOOLEAN]
      \cup [op : {"read"}, addr : Addr, size : 1 .. Words]

\* The operations of the macro: a work-flash word is read from inside the buffer.
MacroOps ==
  {MacroIdle}
    \cup [st : {"busy", "hung"}, op : {"erase", "row"}, at : Int,
          orphan : BOOLEAN]
    \cup [st : {"busy", "hung"}, op : {"word"}, at : Int,
          src : 0 .. BufWords - 1, orphan : BOOLEAN]
MacroOK == macro \in MacroOps

\* Only the task at the head has been worked on.
NotBegun == \A i \in DOMAIN q : i > 1 => q[i].done = 0

\* The inductive invariant: the types need the segments (a chunk's source lies
\* in the buffer), the call and the operation under way.
IInv == TypeOK /\ SegmentsOK /\ CallOK /\ MacroOK /\ NotBegun

USE DEF DATA_INVALID

\* A row never reaches past its end: what is left of it is 1 to RowWords words.
LEMMA RowRestOK == \A a \in Nat : RowRest(a) \in 1 .. RowWords /\ a % RowWords \in Nat
BY GeometryAssumption DEF RowRest

\* A task with work left gets a chunk of at least one word; a write's chunk
\* stays within what it has left.
LEMMA ChunkOK ==
  ASSUME NEW t \in Task, t.done < t.size
  PROVE  /\ ChunkOf(t) \in Nat \ {0}
         /\ t.type = "write" => ChunkOf(t) <= t.size - t.done
BY RowRestOK, GeometryAssumption DEF ChunkOf, Task

\* Every word of flash keeps a legal content through an operation.
LEMMA CellsOK ==
  ASSUME NEW m \in [Addr -> Cell], NEW cells
  PROVE  /\ EraseCells(m, cells) \in [Addr -> Cell]
         /\ SpoilCells(m, cells) \in [Addr -> Cell]
BY DEF EraseCells, SpoilCells, Cell

LEMMA EffectOK ==
  ASSUME TypeOK, MacroOK, macro.st = "busy"
  PROVE  Effect \in [Addr -> Cell]
<1>1. CASE macro.op = "erase"
  BY <1>1, CellsOK DEF Effect, TypeOK
<1>2. CASE macro.op = "row"
  <2>1. macro.at \in Int
    BY <1>2 DEF MacroOK, MacroOps, MacroIdle
  <2>2. \A a \in Target : rowBuf[a - macro.at] \in Data \cup {Erased}
    BY <1>2, <2>1, GeometryAssumption DEF Target, TypeOK
  <2> QED
    BY <1>2, <2>2 DEF Effect, ProgramCells, Programmed, TypeOK, Cell
<1>3. CASE macro.op = "word"
  <2>1. buf[macro.src] \in Data \cup {Erased}
    BY <1>3 DEF MacroOK, MacroOps, MacroIdle, TypeOK
  <2> QED
    BY <1>3, <2>1 DEF Effect, ProgramCells, Programmed, TypeOK, Cell
<1> QED
  BY <1>1, <1>2, <1>3 DEF MacroOK, MacroOps, MacroIdle

-----------------------------------------------------------------------------
(* The segments depend only on what never changes in a task once it is      *)
(* queued.                                                                  *)
SameSegment(t, u) ==
  t.type = u.type /\ t.size = u.size /\ t.off = u.off /\ t.len = u.len

\* A step that leaves every queued task its segment, and the allocator alone,
\* keeps the segments in order.
LEMMA KeptSegments ==
  ASSUME SegmentsOK, DOMAIN q' = DOMAIN q,
         \A i \in DOMAIN q : SameSegment(q'[i], q[i]),
         UNCHANGED <<dataStart, dataAlloc>>
  PROVE  SegmentsOK'
<1>1. Live' = Live
  BY DEF Live, SameSegment
<1> QED
  BY <1>1 DEF SegmentsOK, SegmentsInside, SegmentsApart,
              LastSegmentEndsAtAlloc, Live, SameSegment

\* Releasing the head's segment keeps the segments of the others in order, and
\* frees the whole buffer when none is left.
LEMMA AbandonedSegments ==
  ASSUME TypeOK, SegmentsOK, q # <<>>, Abandon,
         q' \in Seq(Task), Len(q') = Len(q) - 1,
         \A i \in 1 .. Len(q) - 1 : SameSegment(q'[i], q[i + 1])
  PROVE  /\ SegmentsOK'
         /\ dataStart' \in 0 .. BufWords /\ dataAlloc' \in 0 .. BufWords
<1>1. /\ q \in Seq(Task) /\ Len(q) \in Nat \ {0} /\ 1 \in DOMAIN q
      /\ \A i \in DOMAIN q : q[i] \in Task
      /\ DOMAIN q = 1 .. Len(q) /\ DOMAIN q' = 1 .. (Len(q) - 1)
      /\ Head(q) = q[1]
  BY DEF TypeOK
<1>2. Live' = {i \in 1 .. Len(q) - 1 : i + 1 \in Live}
  BY <1>1 DEF Live, SameSegment
<1>3. \A i \in Live : /\ i \in 1 .. Len(q) /\ q[i].len \in Nat \ {0}
                      /\ q[i].off \in Nat
  <2>1. SUFFICES ASSUME NEW i \in Live
                 PROVE  /\ i \in 1 .. Len(q) /\ q[i].len \in Nat \ {0}
                        /\ q[i].off \in Nat
    OBVIOUS
  <2>2. i \in 1 .. Len(q) /\ q[i] \in Task
    BY <1>1 DEF Live
  <2>3. /\ q[i].off \in 0 .. BufWords \cup {-1} /\ q[i].len \in 0 .. BufWords
        /\ q[i].size \in Nat \ {0}
    BY <2>2 DEF Task
  <2>4. q[i].len = q[i].size /\ q[i].off >= dataStart
    BY DEF SegmentsOK, SegmentsInside
  <2> QED
    BY <2>2, <2>3, <2>4, EngineAssumption DEF TypeOK
<1>4. ASSUME NEW i \in Live'
      PROVE  /\ i \in 1 .. Len(q) - 1 /\ i + 1 \in Live
             /\ q'[i].off = q[i + 1].off /\ q'[i].len = q[i + 1].len
             /\ q'[i].off \in Nat /\ q'[i].len \in Nat \ {0}
             /\ q'[i].len = q'[i].size
             /\ q'[i].off >= dataStart /\ q'[i].off + q'[i].len <= dataAlloc
  <2>1. i \in 1 .. Len(q) - 1 /\ i + 1 \in Live
    BY <1>2
  <2>2. SameSegment(q'[i], q[i + 1])
    BY <2>1
  <2> QED
    BY <2>1, <2>2, <1>3 DEF SameSegment, SegmentsOK, SegmentsInside
<1>5. SegmentsApart'
  <2>1. SUFFICES ASSUME NEW i \in Live', NEW j \in Live', i < j
                 PROVE  q'[i].off + q'[i].len <= q'[j].off
    BY DEF SegmentsApart
  <2>2. i + 1 \in Live /\ j + 1 \in Live /\ i + 1 < j + 1
    BY <1>1, <1>4, <2>1
  <2>3. q[i + 1].off + q[i + 1].len <= q[j + 1].off
    BY <2>2 DEF SegmentsOK, SegmentsApart
  <2> QED
    BY <1>4, <2>3
<1>6. ASSUME NEW i \in Live', \A j \in Live' : j <= i
      PROVE  q'[i].off + q'[i].len = dataAlloc
  <2>1. ASSUME NEW j \in Live PROVE j <= i + 1
    <3>1. CASE j = 1
      BY <1>1, <1>4, <3>1
    <3>2. CASE j # 1
      <4>1. j - 1 \in Live'
        BY <1>1, <1>2, <1>3, <3>2
      <4> QED
        BY <1>1, <1>3, <1>4, <1>6, <4>1
    <3> QED
      BY <3>1, <3>2
  <2> QED
    BY <1>4, <2>1 DEF SegmentsOK, LastSegmentEndsAtAlloc
<1>7. ASSUME Live' = {}, NEW j \in Live PROVE j = 1
  <2>1. SUFFICES ASSUME j # 1 PROVE FALSE
    OBVIOUS
  <2>2. j - 1 \in Live'
    BY <1>1, <1>2, <1>3, <2>1
  <2> QED
    BY <1>7, <2>2
<1>8. CASE q[1].type # "write"
  <2>1. UNCHANGED <<dataStart, dataAlloc>> /\ 1 \notin Live
    BY <1>1, <1>8 DEF Abandon, Live
  <2>2. SegmentsInside' /\ LastSegmentEndsAtAlloc'
    BY <1>4, <1>6, <2>1 DEF SegmentsInside, LastSegmentEndsAtAlloc
  <2>3. Live' = {} => Live = {}
    BY <1>7, <2>1
  <2> QED
    BY <1>5, <2>1, <2>2, <2>3 DEF SegmentsOK, TypeOK
<1>9. CASE q[1].type = "write"
  <2> DEFINE released == q[1].off + q[1].len
  <2>1. 1 \in Live
    BY <1>1, <1>9 DEF Live
  <2>2. released \in 0 .. BufWords /\ released <= dataAlloc
    BY <1>3, <2>1, EngineAssumption DEF SegmentsOK, SegmentsInside, TypeOK
  <2>3. ASSUME NEW i \in Live'
        PROVE  released <= q'[i].off /\ released # dataAlloc
    <3>1. released <= q[i + 1].off
      BY <1>1, <1>4, <2>1 DEF SegmentsOK, SegmentsApart
    <3>2. /\ q'[i].off = q[i + 1].off /\ q'[i].off \in Nat
          /\ q'[i].len \in Nat \ {0} /\ q'[i].off + q'[i].len <= dataAlloc
      BY <1>4
    <3>3. dataAlloc \in Nat /\ released \in Nat
      BY <2>2, EngineAssumption DEF TypeOK
    <3> QED
      BY <3>1, <3>2, <3>3
  <2>4. CASE released = dataAlloc
    <3>1. dataStart' = 0 /\ dataAlloc' = 0 /\ Live' = {}
      BY <1>1, <1>9, <2>3, <2>4 DEF Abandon
    <3> QED
      BY <1>5, <3>1, EngineAssumption
         DEF SegmentsOK, SegmentsInside, LastSegmentEndsAtAlloc
  <2>5. CASE released # dataAlloc
    <3>1. dataStart' = released /\ dataAlloc' = dataAlloc
      BY <1>1, <1>9, <2>5 DEF Abandon
    <3>2. SegmentsInside' /\ LastSegmentEndsAtAlloc'
      BY <1>4, <1>6, <2>3, <3>1 DEF SegmentsInside, LastSegmentEndsAtAlloc
    <3>3. Live' # {}
      <4>1. SUFFICES ASSUME Live' = {} PROVE FALSE
        OBVIOUS
      <4>2. ASSUME NEW j \in Live PROVE j <= 1
        BY <1>7, <4>1
      <4> QED
        BY <2>1, <2>5, <4>2 DEF SegmentsOK, LastSegmentEndsAtAlloc
    <3> QED
      BY <1>5, <2>2, <3>1, <3>2, <3>3 DEF SegmentsOK, TypeOK
  <2> QED
    BY <2>4, <2>5
<1> QED
  BY <1>8, <1>9

-----------------------------------------------------------------------------
LEMMA InitInv == Init => IInv
<1> SUFFICES ASSUME Init PROVE IInv
  OBVIOUS
<1>1. TypeOK
  <2>1. q \in Seq(Task) /\ Len(q) <= Depth
    BY EngineAssumption DEF Init
  <2>2. mem \in [Addr -> Cell] /\ macro.st = "idle"
    BY DEF Init, Cell, MacroIdle
  <2>3. /\ buf \in [0 .. BufWords - 1 -> Data \cup {Erased}]
        /\ rowBuf \in [0 .. RowWords - 1 -> Data \cup {Erased}]
    BY DEF Init
  <2>4. /\ dataStart \in 0 .. BufWords /\ dataAlloc \in 0 .. BufWords
        /\ age \in 0 .. Timeout
    BY EngineAssumption DEF Init
  <2>5. complete \in BOOLEAN /\ inflight \in BOOLEAN
    BY DEF Init
  <2> QED
    BY <2>1, <2>2, <2>3, <2>4, <2>5 DEF TypeOK
<1>2. SegmentsOK
  BY DEF Init, SegmentsOK, Live, SegmentsInside, SegmentsApart,
         LastSegmentEndsAtAlloc
<1> QED
  BY <1>1, <1>2 DEF IInv, Init, CallOK, MacroOK, MacroOps, NotBegun

\* What Process writes into a task leaves it a task.
LEMMA TaskUpdated ==
  \A t \in Task, n \in Nat :
    /\ [t EXCEPT !.done = n] \in Task /\ SameSegment([t EXCEPT !.done = n], t)
    /\ [t EXCEPT !.chunk = n] \in Task /\ SameSegment([t EXCEPT !.chunk = n], t)
BY DEF Task, SameSegment

\* The head task, the next one, and the head as Process counts it.
LEMMA HeadTask ==
  ASSUME IInv, q # <<>>
  PROVE  /\ Len(q) \in Nat \ {0} /\ Head(q) = q[1] /\ q[1] \in Task
         /\ Tail(q) \in Seq(Task) /\ Len(Tail(q)) = Len(q) - 1
         /\ \A i \in 1 .. Len(q) - 1 : Tail(q)[i] = q[i + 1]
         /\ Counted \in Task /\ SameSegment(Counted, q[1])
<1>1. q \in Seq(Task)
  BY DEF IInv, TypeOK
<1>2. /\ Len(q) \in Nat \ {0} /\ Head(q) = q[1] /\ q[1] \in Task
      /\ Tail(q) \in Seq(Task) /\ Len(Tail(q)) = Len(q) - 1
      /\ \A i \in 1 .. Len(q) - 1 : Tail(q)[i] = q[i + 1]
  BY <1>1, HeadTailProperties, EmptySeq
<1> DEFINE n == q[1].done + q[1].chunk
<1>3. n \in Nat
  BY <1>2 DEF Task
<1>4. Counted \in {q[1], [q[1] EXCEPT !.done = n]}
  BY <1>2 DEF Counted
<1> HIDE DEF n
<1>5. Counted \in Task
  BY <1>2, <1>3, <1>4, TaskUpdated
<1>6. SameSegment(Counted, q[1])
  <2>1. SameSegment(q[1], q[1])
    BY DEF SameSegment
  <2>2. SameSegment([q[1] EXCEPT !.done = n], q[1])
    BY <1>2, <1>3, TaskUpdated
  <2> QED
    BY <1>4, <2>1, <2>2
<1> QED
  BY <1>2, <1>5, <1>6

\* The macro after the engine asked for an operation.
LEMMA StartOK ==
  ASSUME IInv, NEW o \in MacroOps, o.st = "busy", StartOp(o)
  PROVE  MacroOK' /\ macro'.st \in {"idle", "busy", "hung"}
BY DEF IInv, TypeOK, MacroOK, StartOp

\* Issuing a chunk of a write whose segment is inside the buffer keeps the
\* macro, the staging row and the flags in their types.
LEMMA IssueOK ==
  ASSUME IInv, NEW t \in Task, t.done < t.size, IssueChunk(t),
         t.type = "write" => /\ t.off \in Nat /\ t.off + t.size <= BufWords
  PROVE  /\ MacroOK' /\ macro'.st \in {"idle", "busy", "hung"}
         /\ rowBuf' \in [0 .. RowWords - 1 -> Data \cup {Erased}]
         /\ complete' \in BOOLEAN /\ inflight' \in BOOLEAN /\ age' \in 0 .. Timeout
<1> DEFINE cur == t.addr + t.done
<1> DEFINE rowOff == cur % RowWords
<1>1. /\ t.addr \in Nat /\ t.done \in Nat /\ t.size \in Nat \ {0}
      /\ t.type \in {"erase", "write"} /\ cur \in Nat
  BY DEF Task
<1>2. /\ ChunkOf(t) \in Nat \ {0} /\ rowOff \in Nat
      /\ t.type = "write" => ChunkOf(t) <= t.size - t.done
  BY <1>1, ChunkOK, RowRestOK
<1>3. complete' = FALSE /\ inflight' = TRUE /\ age' \in 0 .. Timeout
  BY EngineAssumption DEF IssueChunk
<1>4. rowBuf \in [0 .. RowWords - 1 -> Data \cup {Erased}]
  BY DEF IInv, TypeOK
<1>5. CASE t.type = "erase"
  <2>1. rowBuf' = rowBuf /\ StartOp(EraseOp(cur))
    BY <1>5 DEF IssueChunk
  <2>2. EraseOp(cur) \in MacroOps /\ EraseOp(cur).st = "busy"
    BY <1>1 DEF EraseOp, MacroOps
  <2> QED
    BY <1>3, <1>4, <2>1, <2>2, StartOK
<1>6. CASE t.type = "write" /\ IsMain(cur)
  <2>1. /\ StartOp(RowOp(cur - rowOff))
        /\ rowBuf' = [i \in 0 .. RowWords - 1 |->
             IF i \in rowOff .. rowOff + ChunkOf(t) - 1
               THEN buf[t.off + t.done + i - rowOff] ELSE Erased]
    BY <1>6 DEF IssueChunk
  <2>2. RowOp(cur - rowOff) \in MacroOps /\ RowOp(cur - rowOff).st = "busy"
    BY <1>1, <1>2 DEF RowOp, MacroOps
  <2> HIDE DEF rowOff
  <2>3. ASSUME NEW i \in rowOff .. rowOff + ChunkOf(t) - 1
        PROVE  buf[t.off + t.done + i - rowOff] \in Data \cup {Erased}
    <3>1. t.off + t.done + i - rowOff \in 0 .. BufWords - 1
      BY <1>1, <1>2, <1>6, EngineAssumption
    <3> QED
      BY <3>1 DEF IInv, TypeOK
  <2>4. rowBuf' \in [0 .. RowWords - 1 -> Data \cup {Erased}]
    BY <2>1, <2>3
  <2> QED
    BY <1>3, <2>1, <2>2, <2>4, StartOK
<1>7. CASE t.type = "write" /\ ~IsMain(cur)
  <2>1. rowBuf' = rowBuf /\ StartOp(WordOp(cur, t.off + t.done))
    BY <1>7 DEF IssueChunk
  <2>2. t.off + t.done \in 0 .. BufWords - 1
    BY <1>1, <1>7, EngineAssumption
  <2>3. /\ WordOp(cur, t.off + t.done) \in MacroOps
        /\ WordOp(cur, t.off + t.done).st = "busy"
    BY <1>1, <2>2 DEF WordOp, MacroOps
  <2> QED
    BY <1>3, <1>4, <2>1, <2>3, StartOK
<1> QED
  BY <1>1, <1>5, <1>6, <1>7

-----------------------------------------------------------------------------
\* A write task of the queue has its whole segment inside the buffer.
LEMMA SegmentInBuffer ==
  ASSUME IInv, NEW i \in DOMAIN q, q[i].type = "write"
  PROVE  q[i].off \in Nat /\ q[i].off + q[i].size <= BufWords
<1>1. i \in Live /\ q[i] \in Task
  BY DEF IInv, TypeOK, Live
<1>2. /\ q[i].off \in 0 .. BufWords \cup {-1} /\ q[i].size \in Nat \ {0}
  BY <1>1 DEF Task
<1>3. /\ q[i].len = q[i].size /\ q[i].off >= dataStart
      /\ q[i].off + q[i].len <= dataAlloc
  BY <1>1 DEF IInv, SegmentsOK, SegmentsInside
<1> QED
  BY <1>2, <1>3, EngineAssumption DEF IInv, TypeOK

LEMMA TimeoutStep == IInv /\ ProcessTimeout => IInv'
<1> SUFFICES ASSUME IInv, ProcessTimeout PROVE IInv'
  OBVIOUS
<1>1. q # <<>> /\ Abandon /\ q' = Tail(q)
  BY DEF ProcessTimeout
<1>2. /\ q' \in Seq(Task) /\ Len(q') = Len(q) - 1 /\ Len(q) \in Nat
      /\ \A i \in 1 .. Len(q) - 1 : SameSegment(q'[i], q[i + 1])
  BY <1>1, HeadTask DEF SameSegment
<1>3. SegmentsOK' /\ dataStart' \in 0 .. BufWords /\ dataAlloc' \in 0 .. BufWords
  BY <1>1, <1>2, AbandonedSegments DEF IInv
<1>4. MacroOK' /\ macro'.st \in {"idle", "busy", "hung"}
  <2>1. macro.st = "idle" => macro' = macro
    BY DEF ProcessTimeout
  <2>2. macro.st # "idle" => macro' = [macro EXCEPT !.orphan = TRUE]
    BY DEF ProcessTimeout
  <2> QED
    BY <2>1, <2>2 DEF IInv, TypeOK, MacroOK, MacroOps, MacroIdle
<1>5. /\ UNCHANGED <<buf, rowBuf, age, mem, call>>
      /\ inflight' = FALSE /\ complete' = TRUE
  BY DEF ProcessTimeout
<1>6. Len(q') <= Depth
  BY <1>2, EngineAssumption DEF IInv, TypeOK
<1>7. TypeOK'
  BY <1>2, <1>3, <1>4, <1>5, <1>6 DEF IInv, TypeOK
<1>8. CallOK'
  BY <1>5 DEF IInv, CallOK
<1>9. NotBegun'
  <2>1. ASSUME NEW i \in DOMAIN q', i > 1 PROVE q'[i].done = 0
    <3>1. i \in 1 .. Len(q) - 1 /\ i + 1 \in DOMAIN q /\ i + 1 > 1
      BY <1>2, <2>1 DEF IInv, TypeOK
    <3>2. q'[i] = q[i + 1]
      BY <1>1, <3>1, HeadTask
    <3> QED
      BY <3>1, <3>2 DEF IInv, NotBegun
  <2> QED
    BY <2>1 DEF NotBegun
<1> QED
  BY <1>3, <1>4, <1>7, <1>8, <1>9 DEF IInv

LEMMA ChunkStep == IInv /\ ProcessChunk => IInv'
<1> SUFFICES ASSUME IInv, ProcessChunk PROVE IInv'
  OBVIOUS
<1>1. /\ q # <<>> /\ Counted.done < Counted.size /\ IssueChunk(Counted)
      /\ q' = [q EXCEPT ![1] = Issued(Counted)]
      /\ UNCHANGED <<buf, dataStart, dataAlloc, mem, call>>
  BY DEF ProcessChunk
<1>2. /\ Counted \in Task /\ SameSegment(Counted, q[1])
      /\ Len(q) \in Nat \ {0} /\ q[1] \in Task
  BY <1>1, HeadTask
<1>3. Issued(Counted) \in Task /\ SameSegment(Issued(Counted), q[1])
  <2>1. ChunkOf(Counted) \in Nat
    BY <1>1, <1>2, ChunkOK
  <2> QED
    BY <1>2, <2>1, TaskUpdated DEF Issued, SameSegment
<1>4. /\ q \in Seq(Task) /\ q' \in Seq(Task) /\ Len(q') = Len(q)
      /\ DOMAIN q' = DOMAIN q /\ \A i \in DOMAIN q : SameSegment(q'[i], q[i])
  <2>1. q \in Seq(Task)
    BY DEF IInv, TypeOK
  <2> QED
    BY <1>1, <1>2, <1>3, <2>1 DEF SameSegment
<1>5. SegmentsOK'
  BY <1>1, <1>4, KeptSegments DEF IInv
<1>6. Counted.type = "write" =>
        /\ Counted.off \in Nat /\ Counted.off + Counted.size <= BufWords
  <2>1. 1 \in DOMAIN q
    BY <1>2, <1>4
  <2>2. q[1].type = "write" => q[1].off \in Nat /\ q[1].off + q[1].size <= BufWords
    BY <2>1, SegmentInBuffer
  <2> QED
    BY <1>2, <2>2 DEF SameSegment
<1>7. /\ MacroOK' /\ macro'.st \in {"idle", "busy", "hung"}
      /\ rowBuf' \in [0 .. RowWords - 1 -> Data \cup {Erased}]
      /\ complete' \in BOOLEAN /\ inflight' \in BOOLEAN /\ age' \in 0 .. Timeout
  BY <1>1, <1>2, <1>6, IssueOK
<1>8. TypeOK'
  BY <1>1, <1>4, <1>7 DEF IInv, TypeOK
<1>9. CallOK'
  BY <1>1 DEF IInv, CallOK
<1>10. NotBegun'
  BY <1>1, <1>4 DEF IInv, NotBegun
<1> QED
  BY <1>5, <1>7, <1>8, <1>9, <1>10 DEF IInv

LEMMA PopStep ==
  ASSUME IInv, ProcessPop
  PROVE  IInv'
<1>1. /\ q # <<>> /\ Abandon /\ UNCHANGED <<buf, mem, call>>
  BY DEF ProcessPop
<1>2. /\ Len(q) \in Nat \ {0} /\ Tail(q) \in Seq(Task) /\ q \in Seq(Task)
      /\ Len(Tail(q)) = Len(q) - 1
      /\ \A i \in 1 .. Len(q) - 1 : Tail(q)[i] = q[i + 1]
      /\ Len(q) <= Depth
  BY <1>1, HeadTask DEF IInv, TypeOK
<1>3. CASE Tail(q) = <<>>
  <2>0. Len(q) = 1
    <3> DEFINE s == Tail(q)
    <3>1. s \in Seq(Task) /\ Len(s) = Len(q) - 1 /\ s = <<>>
      BY <1>2, <1>3
    <3> HIDE DEF s
    <3>2. Len(s) = 0
      BY <3>1, EmptySeq
    <3>3. Len(q) - 1 = 0
      BY <3>1, <3>2
    <3>4. Len(q) \in Nat
      BY <1>2
    <3> QED
      BY <3>3, <3>4
  <2>1. /\ q' = <<>> /\ inflight' = FALSE
        /\ rowBuf' = rowBuf /\ complete' = complete /\ age' = age
        /\ macro' = macro
    BY <1>3 DEF ProcessPop
  <2>2. /\ q' \in Seq(Task) /\ Len(q') = 0
        /\ \A i \in 1 .. Len(q) - 1 : SameSegment(q'[i], q[i + 1])
    BY <2>0, <2>1, EmptySeq
  <2>3. SegmentsOK' /\ dataStart' \in 0 .. BufWords /\ dataAlloc' \in 0 .. BufWords
    BY <1>1, <2>0, <2>2, AbandonedSegments DEF IInv
  <2>4. Len(q') <= Depth /\ complete' \in BOOLEAN /\ inflight' \in BOOLEAN
    <3>1. Len(q') <= Depth
      BY <2>2, EngineAssumption
    <3>2. complete' \in BOOLEAN
      BY <2>1 DEF IInv, TypeOK
    <3> QED
      BY <2>1, <3>1, <3>2
  <2>5. TypeOK'
    BY <1>1, <2>1, <2>2, <2>3, <2>4 DEF IInv, TypeOK
  <2> QED
    BY <1>1, <2>1, <2>2, <2>3, <2>5 DEF IInv, CallOK, MacroOK, NotBegun
<1>4. CASE Tail(q) # <<>>
  <2>1. /\ q' = [Tail(q) EXCEPT ![1] = Issued(@)] /\ IssueChunk(q[2])
    BY <1>4 DEF ProcessPop
  <2>2. Len(q) >= 2 /\ q[2] \in Task /\ q[2].done = 0 /\ Tail(q)[1] = q[2]
    <3>1. Len(Tail(q)) # 0
      BY <1>2, <1>4, EmptySeq
    <3>2. Len(q) >= 2 /\ 2 \in DOMAIN q /\ Tail(q)[1] = q[2]
      BY <1>2, <3>1
    <3> QED
      BY <1>2, <3>2 DEF IInv, NotBegun
  <2>3. q[2].done < q[2].size
    BY <2>2 DEF Task
  <2>4. Issued(q[2]) \in Task /\ SameSegment(Issued(q[2]), q[2])
    BY <2>2, <2>3, ChunkOK, TaskUpdated DEF Issued
  <2>5. /\ q' \in Seq(Task) /\ Len(q') = Len(q) - 1
        /\ \A i \in 1 .. Len(q) - 1 : SameSegment(q'[i], q[i + 1])
    <3>1. /\ q' \in Seq(Task) /\ Len(q') = Len(q) - 1
          /\ \A i \in 1 .. Len(q) - 1 :
               q'[i] = IF i = 1 THEN Issued(q[2]) ELSE q[i + 1]
      <4> DEFINE s == Tail(q)
      <4> DEFINE e == Issued(q[2])
      <4>1. q' = [s EXCEPT ![1] = e]
        BY <2>1, <2>2
      <4>2. s \in Seq(Task) /\ Len(s) = Len(q) - 1 /\ e \in Task /\ Len(s) \in Nat
        BY <1>2, <2>4
      <4>3. \A i \in 1 .. Len(q) - 1 : s[i] = q[i + 1]
        BY <1>2
      <4> HIDE DEF s, e
      <4>4. q' \in Seq(Task) /\ Len(q') = Len(s) /\ DOMAIN s = 1 .. Len(s)
        <5>1. 1 \in 1 .. Len(s)
          BY <1>2, <2>2, <4>2
        <5> QED
          BY <4>1, <4>2, <5>1, ExceptSeq
      <4> QED
        BY <4>1, <4>2, <4>3, <4>4 DEF e
    <3>2. \A i \in 1 .. Len(q) - 1 : SameSegment(q'[i], q[i + 1])
      BY <2>4, <3>1 DEF SameSegment
    <3> QED
      BY <3>1, <3>2
  <2>6. SegmentsOK' /\ dataStart' \in 0 .. BufWords /\ dataAlloc' \in 0 .. BufWords
    BY <1>1, <2>5, AbandonedSegments DEF IInv
  <2>7. q[2].type = "write" => q[2].off \in Nat /\ q[2].off + q[2].size <= BufWords
    BY <1>2, <2>2, SegmentInBuffer
  <2>8. /\ MacroOK' /\ macro'.st \in {"idle", "busy", "hung"}
        /\ rowBuf' \in [0 .. RowWords - 1 -> Data \cup {Erased}]
        /\ complete' \in BOOLEAN /\ inflight' \in BOOLEAN /\ age' \in 0 .. Timeout
    BY <2>1, <2>2, <2>3, <2>7, IssueOK
  <2>9. Len(q') <= Depth
    BY <1>2, <2>5, EngineAssumption
  <2>10. TypeOK'
    BY <1>1, <2>5, <2>6, <2>8, <2>9 DEF IInv, TypeOK
  <2>11. NotBegun'
    <3>1. ASSUME NEW i \in DOMAIN q', i > 1 PROVE q'[i].done = 0
      <4>1. i \in 1 .. Len(q) - 1 /\ i + 1 \in DOMAIN q /\ i + 1 > 1
        BY <1>2, <2>5, <3>1
      <4>2. q'[i] = q[i + 1]
        <5>1. Tail(q)[i] = q[i + 1] /\ i # 1
          BY <1>2, <3>1, <4>1
        <5> QED
          BY <2>1, <2>5, <4>1, <5>1
      <4> QED
        BY <4>1, <4>2 DEF IInv, NotBegun
    <3> QED
      BY <3>1 DEF NotBegun
  <2> QED
    BY <1>1, <2>6, <2>8, <2>10, <2>11 DEF IInv, CallOK
<1> QED
  BY <1>3, <1>4

-----------------------------------------------------------------------------
\* A step that leaves the engine's tasks, buffer and macro alone.
LEMMA QuietStep ==
  ASSUME IInv, CallOK', mem' \in [Addr -> Cell], complete' \in BOOLEAN,
         age' \in 0 .. Timeout, MacroOK', macro'.st \in {"idle", "busy", "hung"},
         UNCHANGED <<q, buf, dataStart, dataAlloc, rowBuf, inflight>>
  PROVE  IInv'
BY DEF IInv, TypeOK, SegmentsOK, Live, SegmentsInside, SegmentsApart,
       LastSegmentEndsAtAlloc, NotBegun

\* A task joins the queue: nothing else in it changes.
LEMMA Queued ==
  ASSUME IInv, NEW t \in Task, t.done = 0, Len(q) < Depth, q' = Append(q, t)
  PROVE  /\ q' \in Seq(Task) /\ Len(q') = Len(q) + 1 /\ Len(q') <= Depth
         /\ Len(q) \in Nat /\ q'[Len(q) + 1] = t
         /\ \A i \in 1 .. Len(q) : q'[i] = q[i]
         /\ NotBegun'
<1>1. q \in Seq(Task) /\ Len(q) \in Nat
  BY DEF IInv, TypeOK
<1>2. /\ q' \in Seq(Task) /\ Len(q') = Len(q) + 1 /\ q'[Len(q) + 1] = t
      /\ \A i \in 1 .. Len(q) : q'[i] = q[i]
  BY <1>1, AppendProperties
<1>3. NotBegun'
  <2>1. ASSUME NEW i \in DOMAIN q', i > 1 PROVE q'[i].done = 0
    <3>1. i \in 1 .. Len(q) + 1
      BY <1>2
    <3>2. CASE i = Len(q) + 1
      BY <1>2, <3>2
    <3>3. CASE i # Len(q) + 1
      <4>1. i \in 1 .. Len(q) /\ i \in DOMAIN q
        BY <1>1, <3>1, <3>3
      <4> QED
        BY <1>2, <2>1, <4>1 DEF IInv, NotBegun
    <3> QED
      BY <3>2, <3>3
  <2> QED
    BY <2>1 DEF NotBegun
<1> QED
  BY <1>1, <1>2, <1>3, EngineAssumption

LEMMA QueueEraseStep == IInv /\ QueueErase => IInv'
<1> SUFFICES ASSUME IInv, QueueErase PROVE IInv'
  OBVIOUS
<1>1. /\ UNCHANGED <<buf, dataStart, dataAlloc, rowBuf, complete, inflight, age,
                     macro, mem>>
      /\ call.op = "erase" /\ call' = AfterQueueing
  BY DEF QueueErase
<1>2. call' \in {NoCall, [op |-> "wait"]} /\ CallOK' /\ MacroOK'
  BY <1>1 DEF AfterQueueing, CallOK, IInv, MacroOK
<1>3. CASE call.size = 0
  <2>1. q' = q
    BY <1>3 DEF QueueErase
  <2> QED
    BY <1>1, <1>2, <2>1, QuietStep DEF IInv, TypeOK
<1>4. CASE call.size # 0
  <2> DEFINE t == [type |-> "erase", addr |-> call.addr, size |-> call.size,
                   done |-> 0, chunk |-> 0, off |-> DATA_INVALID, len |-> 0]
  <2>1. call.addr \in Nat /\ call.size \in Nat \ {0}
    BY <1>1, <1>4 DEF IInv, CallOK, NoCall, Addr
  <2>2. t \in Task /\ t.done = 0 /\ t.type = "erase"
    BY <2>1, EngineAssumption DEF Task
  <2>3. Len(q) < Depth /\ q' = Append(q, t)
    BY <1>4 DEF QueueErase
  <2> HIDE DEF t
  <2>4. /\ q' \in Seq(Task) /\ Len(q') = Len(q) + 1 /\ Len(q') <= Depth
        /\ Len(q) \in Nat /\ q'[Len(q) + 1] = t
        /\ \A i \in 1 .. Len(q) : q'[i] = q[i]
        /\ NotBegun'
    BY <2>2, <2>3, Queued
  <2>5. q \in Seq(Task) /\ DOMAIN q = 1 .. Len(q) /\ DOMAIN q' = 1 .. Len(q) + 1
    BY <2>4 DEF IInv, TypeOK
  <2>6. Live' = Live /\ \A i \in Live : q'[i] = q[i]
    BY <2>2, <2>4, <2>5 DEF Live
  <2>7. SegmentsOK'
    BY <1>1, <2>6 DEF IInv, SegmentsOK, SegmentsInside, SegmentsApart,
                      LastSegmentEndsAtAlloc
  <2>8. TypeOK'
    BY <1>1, <2>4 DEF IInv, TypeOK
  <2> QED
    BY <1>2, <2>4, <2>7, <2>8 DEF IInv
<1> QED
  BY <1>3, <1>4

LEMMA QueueSegmentStep == IInv /\ QueueSegment => IInv'
<1> SUFFICES ASSUME IInv, QueueSegment PROVE IInv'
  OBVIOUS
<1> DEFINE t == [type |-> "write", addr |-> call.addr, size |-> Segment,
                 done |-> 0, chunk |-> 0, off |-> dataAlloc, len |-> Segment]
<1>1. /\ UNCHANGED <<dataStart, rowBuf, complete, inflight, age, macro, mem>>
      /\ call.op = "write" /\ call.data # <<>> /\ Len(q) < Depth
      /\ BufWords - dataAlloc >= Segment
      /\ q' = Append(q, t) /\ dataAlloc' = dataAlloc + Segment
  BY DEF QueueSegment
<1>2. /\ call \in [op : {"write"}, addr : Nat, data : Seq(Data), sync : BOOLEAN]
      /\ call.addr \in Nat /\ call.data \in Seq(Data)
  BY <1>1 DEF IInv, CallOK, NoCall
<1>3. Len(call.data) \in Nat \ {0}
  BY <1>1, <1>2, EmptySeq
<1>4. Segment \in 1 .. BufWords /\ Segment <= Len(call.data)
  BY <1>3, EngineAssumption DEF Segment
<1>5. dataAlloc \in 0 .. BufWords /\ dataStart \in 0 .. BufWords
  BY DEF IInv, TypeOK
<1>6. t \in Task /\ t.done = 0 /\ t.type = "write" /\ t.size = Segment
      /\ t.off = dataAlloc /\ t.len = Segment
  BY <1>2, <1>4, <1>5, EngineAssumption DEF Task
<1>7. dataAlloc' \in 0 .. BufWords
  BY <1>1, <1>4, <1>5, EngineAssumption
<1>8. buf' \in [0 .. BufWords - 1 -> Data \cup {Erased}]
  <2>1. ASSUME NEW i \in dataAlloc .. dataAlloc + Segment - 1
        PROVE  call.data[i - dataAlloc + 1] \in Data
    <3>1. i - dataAlloc + 1 \in 1 .. Len(call.data)
      BY <1>3, <1>4, <1>5, EngineAssumption
    <3> QED
      BY <1>2, <3>1
  <2>2. buf \in [0 .. BufWords - 1 -> Data \cup {Erased}]
    BY DEF IInv, TypeOK
  <2>3. buf' = [i \in 0 .. BufWords - 1 |->
                  IF i \in dataAlloc .. dataAlloc + Segment - 1
                    THEN call.data[i - dataAlloc + 1] ELSE buf[i]]
    BY DEF QueueSegment
  <2> QED
    BY <2>1, <2>2, <2>3
<1>9. CallOK'
  <2>1. call' = [call EXCEPT !.addr = @ + Segment,
                             !.data = SubSeq(@, Segment + 1, Len(@))]
    BY DEF QueueSegment
  <2>2. SubSeq(call.data, Segment + 1, Len(call.data)) \in Seq(Data)
    BY <1>2, <1>3, <1>4, EngineAssumption, SubSeqProperties
  <2>3. call.addr + Segment \in Nat
    BY <1>2, <1>4, EngineAssumption
  <2>4. call' \in [op : {"write"}, addr : Nat, data : Seq(Data), sync : BOOLEAN]
    BY <1>2, <2>1, <2>2, <2>3
  <2> QED
    BY <2>4 DEF CallOK
<1> HIDE DEF t
<1>10. /\ q' \in Seq(Task) /\ Len(q') = Len(q) + 1 /\ Len(q') <= Depth
       /\ Len(q) \in Nat /\ q'[Len(q) + 1] = t
       /\ \A i \in 1 .. Len(q) : q'[i] = q[i]
       /\ NotBegun'
  BY <1>1, <1>6, Queued
<1>11. /\ q \in Seq(Task) /\ DOMAIN q = 1 .. Len(q)
       /\ DOMAIN q' = 1 .. Len(q) + 1
  BY <1>10 DEF IInv, TypeOK
<1>12. /\ Live' = Live \cup {Len(q) + 1} /\ \A i \in Live : q'[i] = q[i]
       /\ \A i \in Live : i < Len(q) + 1
       /\ \A i \in Live' : i \in 1 .. Len(q) + 1
  BY <1>6, <1>10, <1>11 DEF Live
<1>13. SegmentsInside'
  <2>1. ASSUME NEW i \in Live
        PROVE  /\ q'[i].len = q'[i].size /\ q'[i].off >= dataStart'
               /\ q'[i].off + q'[i].len <= dataAlloc'
    <3>1. /\ q[i].len = q[i].size /\ q[i].off >= dataStart
          /\ q[i].off + q[i].len <= dataAlloc
      BY DEF IInv, SegmentsOK, SegmentsInside
    <3>2. q[i] \in Task /\ q'[i] = q[i] /\ q[i].type = "write"
      BY <1>11, <1>12 DEF Live
    <3>3. q[i].off \in 0 .. BufWords \cup {-1} /\ q[i].len \in 0 .. BufWords
      BY <3>2 DEF Task
    <3> QED
      BY <1>1, <1>4, <1>5, <3>1, <3>2, <3>3, EngineAssumption
  <2>2. dataStart <= dataAlloc
    BY DEF IInv, SegmentsOK
  <2>3. t.len = t.size /\ t.off >= dataStart' /\ t.off + t.len <= dataAlloc'
    BY <1>1, <1>4, <1>5, <1>6, <2>2, EngineAssumption
  <2> QED
    BY <1>10, <1>12, <2>1, <2>3 DEF SegmentsInside
<1>14. SegmentsApart'
  <2>1. SUFFICES ASSUME NEW i \in Live', NEW j \in Live', i < j
                 PROVE  q'[i].off + q'[i].len <= q'[j].off
    BY DEF SegmentsApart
  <2>2. i \in Live
    BY <1>10, <1>11, <1>12, <2>1
  <2>3. CASE j \in Live
    BY <1>12, <2>1, <2>2, <2>3 DEF IInv, SegmentsOK, SegmentsApart
  <2>4. CASE j = Len(q) + 1
    BY <1>6, <1>10, <1>12, <2>2, <2>4 DEF IInv, SegmentsOK, SegmentsInside
  <2> QED
    BY <1>12, <2>3, <2>4
<1>15. LastSegmentEndsAtAlloc' /\ Live' # {}
  <2>1. ASSUME NEW i \in Live', \A j \in Live' : j <= i
        PROVE  q'[i].off + q'[i].len = dataAlloc'
    <3>1. i = Len(q) + 1
      <4>1. Len(q) + 1 <= i
        BY <1>12, <2>1
      <4> QED
        BY <1>10, <1>11, <1>12, <4>1
    <3> QED
      BY <1>1, <1>6, <1>10, <3>1
  <2> QED
    BY <1>12, <2>1 DEF LastSegmentEndsAtAlloc
<1>16. SegmentsOK'
  <2>1. dataStart' <= dataAlloc'
    BY <1>1, <1>4, <1>5, EngineAssumption DEF IInv, SegmentsOK
  <2> QED
    BY <1>13, <1>14, <1>15, <2>1 DEF SegmentsOK
<1>17. TypeOK'
  BY <1>1, <1>5, <1>7, <1>8, <1>10 DEF IInv, TypeOK
<1>18. MacroOK'
  BY <1>1 DEF IInv, MacroOK
<1> QED
  BY <1>9, <1>10, <1>16, <1>17, <1>18 DEF IInv

LEMMA CallerStep == IInv /\ Caller => IInv'
<1> SUFFICES ASSUME IInv, Caller PROVE IInv'
  OBVIOUS
<1>1. CASE QueueErase
  BY <1>1, QueueEraseStep
<1>2. CASE QueueSegment
  BY <1>2, QueueSegmentStep
<1>3. CASE Call
  <2>1. CallOK'
    BY <1>3, RequestsAssumption DEF Call, CallOK, Addr, GeometryAssumption
  <2> QED
    BY <1>3, <2>1, QuietStep DEF Call, engineVars, IInv, TypeOK, MacroOK
<1>4. CASE WriteQueued \/ WaitDone \/ Read
  <2>1. /\ call' \in {NoCall, [op |-> "wait"]}
        /\ UNCHANGED <<engineVars, macro, mem>>
    BY <1>4 DEF WriteQueued, WaitDone, Read, AfterQueueing
  <2>2. CallOK'
    BY <2>1 DEF CallOK
  <2> QED
    BY <2>1, <2>2, QuietStep DEF engineVars, IInv, TypeOK, MacroOK
<1> QED
  BY <1>1, <1>2, <1>3, <1>4 DEF Caller

LEMMA MacroStep == IInv /\ (MacroDone \/ MacroFail \/ MacroHang \/ Tick) => IInv'
<1> SUFFICES ASSUME IInv, MacroDone \/ MacroFail \/ MacroHang \/ Tick PROVE IInv'
  OBVIOUS
<1>1. TypeOK /\ CallOK /\ MacroOK /\ mem \in [Addr -> Cell]
  BY DEF IInv, TypeOK
<1>2. CASE MacroDone
  <2>1. mem' \in [Addr -> Cell]
    BY <1>1, <1>2, EffectOK DEF MacroDone
  <2>2. MacroOK' /\ macro'.st = "idle"
    BY <1>2 DEF MacroDone, MacroOK, MacroOps, MacroIdle
  <2>3. complete' \in BOOLEAN
    BY <1>1, <1>2 DEF MacroDone, TypeOK
  <2> QED
    BY <1>1, <1>2, <2>1, <2>2, <2>3, QuietStep DEF MacroDone, TypeOK, CallOK
<1>3. CASE MacroFail
  <2>1. mem' \in [Addr -> Cell]
    BY <1>1, <1>3, CellsOK DEF MacroFail
  <2>2. MacroOK' /\ macro'.st = "idle"
    BY <1>3 DEF MacroFail, MacroOK, MacroOps, MacroIdle
  <2> QED
    BY <1>1, <1>3, <2>1, <2>2, QuietStep DEF MacroFail, engineVars, TypeOK, CallOK
<1>4. CASE MacroHang
  <2>1. MacroOK' /\ macro'.st = "hung"
    BY <1>1, <1>4 DEF MacroHang, MacroOK, MacroOps, MacroIdle
  <2> QED
    BY <1>1, <1>4, <2>1, QuietStep DEF MacroHang, engineVars, TypeOK, CallOK
<1>5. CASE Tick
  <2>1. age' \in 0 .. Timeout
    BY <1>1, <1>5, EngineAssumption DEF Tick, TypeOK
  <2> QED
    BY <1>1, <1>5, <2>1, QuietStep DEF Tick, TypeOK, CallOK, MacroOK
<1> QED
  BY <1>2, <1>3, <1>4, <1>5

LEMMA ResetStep == IInv /\ Reset => IInv'
<1> SUFFICES ASSUME IInv, Reset PROVE IInv'
  OBVIOUS
<1>1. /\ q' = <<>> /\ dataStart' = 0 /\ dataAlloc' = 0 /\ age' = 0
      /\ complete' = TRUE /\ inflight' = FALSE
      /\ macro' = MacroIdle /\ call' = NoCall
      /\ buf' = [i \in 0 .. BufWords - 1 |-> Erased]
      /\ rowBuf' = [i \in 0 .. RowWords - 1 |-> Erased]
  BY DEF Reset
<1>2. mem' \in [Addr -> Cell]
  BY EffectOK, CellsOK DEF Reset, IInv, TypeOK
<1>3. /\ q' \in Seq(Task) /\ Len(q') <= Depth /\ macro'.st = "idle"
      /\ dataStart' \in 0 .. BufWords /\ dataAlloc' \in 0 .. BufWords
      /\ age' \in 0 .. Timeout
  BY <1>1, EngineAssumption DEF MacroIdle
<1>4. complete' \in BOOLEAN /\ inflight' \in BOOLEAN
  BY <1>1
<1>5. TypeOK'
  BY <1>1, <1>2, <1>3, <1>4 DEF TypeOK
<1>6. SegmentsOK' /\ NotBegun'
  BY <1>1 DEF SegmentsOK, Live, SegmentsInside, SegmentsApart,
              LastSegmentEndsAtAlloc, NotBegun
<1> QED
  BY <1>1, <1>5, <1>6 DEF IInv, CallOK, MacroOK, MacroOps

LEMMA NextInv == IInv /\ [Next]_vars => IInv'
<1> SUFFICES ASSUME IInv, [Next]_vars PROVE IInv'
  OBVIOUS
<1>1. CASE UNCHANGED vars
  BY <1>1 DEF vars, engineVars, IInv, TypeOK, SegmentsOK, Live, SegmentsInside,
              SegmentsApart, LastSegmentEndsAtAlloc, CallOK, MacroOK, NotBegun
<1>2. CASE Pump
  BY <1>2, TimeoutStep, ChunkStep, PopStep DEF Pump
<1> QED
  BY <1>1, <1>2, CallerStep, MacroStep, ResetStep DEF Next

\* The state of the engine keeps its types, and the segments of the queued
\* writes stay apart inside the data buffer, in every behaviour: whatever the
\* calls, the failures of the macro, the late responses and the power losses.
THEOREM InductiveInvariant == Spec => []IInv
BY InitInv, NextInv, PTL DEF Spec

\* The queue stays within its depth and every offset within the data buffer.
THEOREM TypeCorrect == Spec => []TypeOK
BY InductiveInvariant, PTL DEF IInv

\* flash_task_abandon's argument for reclaiming by advancing s_data_start: the
\* live segments lie apart, in queue order, between s_data_start and
\* s_data_alloc, and the buffer is whole again when none is left.
THEOREM SegmentsStayApart == Spec => []SegmentsOK
BY InductiveInvariant, PTL DEF IInv
-----------------------------------------------------------------------------
(* The engine implements the store.                                          *)
\* The store's operators are the engine's.
LEMMA SameOperators ==
  /\ \A t : Store!ChunkOf(t) = ChunkOf(t)
  /\ \A a : Store!Sector(a) = Sector(a) /\ Store!Row(a) = Row(a)
  /\ \A m, cells : Store!EraseCells(m, cells) = EraseCells(m, cells)
  /\ \A m, cells : Store!SpoilCells(m, cells) = SpoilCells(m, cells)
  /\ \A m, val : Store!ProgramCells(m, val) = ProgramCells(m, val)
BY DEF Store!ChunkOf, ChunkOf, Store!Sector, Sector, Store!Row, Row,
       Store!EraseCells, EraseCells, Store!SpoilCells, SpoilCells,
       Store!ProgramCells, ProgramCells, Store!IsMain, IsMain, Store!RowRest,
       RowRest, Store!Programmed, Programmed, Store!Addr, Addr

\* What the store sees of a task: its parameters, the words done with a
\* completed chunk counted in, and the data its segment holds.
Seen == [type : {"erase", "write"}, addr : Nat, size : Nat, done : Nat,
         data : Seq(Data \cup {Erased})]
DataOf(t, b) ==
  IF t.type = "write" THEN [k \in 1 .. t.size |-> b[t.off + k - 1]] ELSE <<>>

View(i) ==
  [type |-> q[i].type, addr |-> q[i].addr, size |-> q[i].size,
   done |-> q[i].done + (IF i = 1 /\ inflight /\ complete
                           THEN q[i].chunk ELSE 0),
   data |-> DataOf(q[i], buf)]

LEMMA SameData ==
  ASSUME NEW t, NEW u, t.type = u.type, t.size = u.size, t.off = u.off, NEW b
  PROVE  DataOf(t, b) = DataOf(u, b)
BY DEF DataOf

\* A queued task is a request with its data.
LEMMA ViewSeen ==
  ASSUME IInv, NEW i \in 1 .. Len(q)
  PROVE  View(i) \in Seen
<1>1. q[i] \in Task /\ i \in DOMAIN q
  BY DEF IInv, TypeOK
<1> DEFINE d == DataOf(q[i], buf)
           n == q[i].done + (IF i = 1 /\ inflight /\ complete THEN q[i].chunk ELSE 0)
<1>2. d \in Seq(Data \cup {Erased})
  <2>1. CASE q[i].type = "write"
    <3>1. q[i].off \in Nat /\ q[i].off + q[i].size <= BufWords /\ q[i].size \in Nat
      BY <1>1, <2>1, SegmentInBuffer DEF Task
    <3>2. \A k \in 1 .. q[i].size : buf[q[i].off + k - 1] \in Data \cup {Erased}
      BY <3>1, EngineAssumption DEF IInv, TypeOK
    <3> QED
      BY <2>1, <3>1, <3>2 DEF DataOf
  <2> QED
    BY <2>1 DEF DataOf
<1>3. n \in Nat
  BY <1>1 DEF Task
<1> HIDE DEF d, n
<1> QED
  BY <1>1, <1>2, <1>3 DEF Seen, View, Task, d, n

\* The requests pending are the queued tasks, in their order.
LEMMA PendingSeq ==
  ASSUME IInv
  PROVE  /\ Pending \in Seq(Seen) /\ Len(Pending) = Len(q)
         /\ \A i \in 1 .. Len(q) : Pending[i] = View(i)
<1>1. q \in Seq(Task) /\ Len(q) \in Nat /\ DOMAIN q = 1 .. Len(q)
  BY DEF IInv, TypeOK
<1>2. Pending = [i \in 1 .. Len(q) |-> View(i)]
  BY <1>1 DEF Pending, View, DataOf
<1>3. \A i \in 1 .. Len(q) : View(i) \in Seen
  BY ViewSeen
<1> HIDE DEF Pending, View
<1> QED
  BY <1>1, <1>2, <1>3

-----------------------------------------------------------------------------
(* Rows: two addresses share one when they share their quotient.            *)
\* Division with remainder.
LEMMA DivMod ==
  ASSUME NEW R \in Nat \ {0}, NEW a \in Int
  PROVE  /\ a \div R \in Int /\ a % R \in 0 .. R - 1
         /\ a = R * (a \div R) + (a % R)
OBVIOUS

\* Multiples of R lie at least R apart.
LEMMA Scaled ==
  ASSUME NEW R \in Nat \ {0}, NEW x \in Int, NEW y \in Int, x < y
  PROVE  R * x + R <= R * y
<1>1. R * (y - x) >= R
  OBVIOUS
<1> QED BY <1>1

\* The numbers with the quotient of a are the R from a - (a % R) on.
LEMMA SameRow ==
  ASSUME NEW R \in Nat \ {0}, NEW a \in Int, NEW b \in Int
  PROVE  b \div R = a \div R <=> b \in a - (a % R) .. a - (a % R) + R - 1
<1> DEFINE x == a \div R
           y == b \div R
           m == a % R
           n == b % R
<1>1. x \in Int /\ y \in Int /\ m \in 0 .. R - 1 /\ n \in 0 .. R - 1
      /\ a = R * x + m /\ b = R * y + n
  BY DivMod
<1> HIDE DEF x, y, m, n
<1>2. R * x \in Int /\ R * y \in Int
  BY <1>1
<1>3. y < x => R * y + R <= R * x
  BY <1>1, Scaled
<1>4. x < y => R * x + R <= R * y
  BY <1>1, Scaled
<1>5. y = x <=> b \in a - m .. a - m + R - 1
  <2>1. y = x => b \in a - m .. a - m + R - 1
    BY <1>1, <1>2
  <2>2. y < x \/ x < y => b \notin a - m .. a - m + R - 1
    BY <1>1, <1>2, <1>3, <1>4
  <2> QED BY <1>1, <2>1, <2>2
<1> QED BY <1>5 DEF x, y, m

-----------------------------------------------------------------------------
(* The operation under way is the next chunk of the head.                   *)

\* The staged row: the words of t's next chunk in place, the others blank.
RowOf(t, rb, b) ==
  LET rowOff == (t.addr + t.done) % RowWords
  IN  rb = [i \in 0 .. RowWords - 1 |->
              IF i \in rowOff .. rowOff + ChunkOf(t) - 1
                THEN b[t.off + t.done + i - rowOff] ELSE Erased]

\* What IssueChunk made of task t: the operation m, the staged row rb.
OpOf(t, m, rb, b) ==
  LET cur == t.addr + t.done
  IN  \/ t.type = "erase" /\ m.op = "erase" /\ m.at = cur
      \/ /\ t.type = "write" /\ IsMain(cur)
         /\ m.op = "row" /\ m.at = cur - (cur % RowWords)
         /\ RowOf(t, rb, b)
      \/ /\ t.type = "write" /\ ~IsMain(cur)
         /\ m.op = "word" /\ m.at = cur /\ m.src = t.off + t.done

\* A chunk in flight is one of the head's; a head without one was never begun.
HeadInFlight ==
  IF inflight
    THEN /\ q # <<>> /\ q[1].done < q[1].size /\ q[1].chunk = ChunkOf(q[1])
         /\ complete => macro.st = "idle"
    ELSE q # <<>> => q[1].done = 0

\* Without late responses the macro never works on what the engine gave up.
BusyOnHead ==
  macro.st = "busy" =>
    /\ inflight /\ ~complete /\ age < Timeout
    /\ OpOf(q[1], macro, rowBuf, buf)

OpInv == HeadInFlight /\ BusyOnHead

\* Both speak of a task only through what a chunk count does not change.
SameWork(t, u) ==
  /\ t.type = u.type /\ t.addr = u.addr /\ t.size = u.size
  /\ t.done = u.done /\ t.off = u.off

LEMMA SameOp ==
  ASSUME NEW t, NEW u, SameWork(t, u), NEW m, NEW rb, NEW b
  PROVE  /\ ChunkOf(u) = ChunkOf(t)
         /\ OpOf(t, m, rb, b) => OpOf(u, m, rb, b)
BY DEF SameWork, ChunkOf, OpOf, RowOf

LEMMA IssuedSame ==
  ASSUME NEW t \in Task
  PROVE  SameWork(t, Issued(t)) /\ Issued(t).chunk = ChunkOf(t)
BY DEF Issued, SameWork, Task

\* A macro that is idle takes the chunk; a hung one ignores it.
LEMMA Issues ==
  ASSUME IInv, NEW t \in Task, IssueChunk(t), macro.st # "busy"
  PROVE  /\ inflight' = TRUE /\ complete' = FALSE /\ age' = 0
         /\ macro.st = "idle" =>
              macro'.st = "busy" /\ OpOf(t, macro', rowBuf', buf)
         /\ macro.st = "hung" => macro' = macro
<1>1. /\ inflight' = TRUE /\ complete' = FALSE /\ age' = 0
      /\ t.type \in {"erase", "write"} /\ macro.st \in {"idle", "hung"}
  BY DEF IssueChunk, Task, IInv, TypeOK
<1>2. macro.st = "hung" => macro' = macro
  BY DEF IssueChunk, StartOp
<1>3. ASSUME macro.st = "idle"
      PROVE  macro'.st = "busy" /\ OpOf(t, macro', rowBuf', buf)
  BY <1>1, <1>3 DEF IssueChunk, StartOp, EraseOp, RowOp, WordOp, OpOf, RowOf
<1> QED
  BY <1>1, <1>2, <1>3

\* The queue after a chunk was issued, and after the head was popped.
LEMMA ChunkShape ==
  ASSUME IInv, ProcessChunk
  PROVE  /\ q' # <<>> /\ Len(q') = Len(q) /\ Len(q) \in Nat \ {0}
         /\ q'[1] = Issued(Counted)
         /\ \A i \in 2 .. Len(q) : q'[i] = q[i]
<1>1. q # <<>> /\ q' = [q EXCEPT ![1] = Issued(Counted)]
  BY DEF ProcessChunk
<1>2. q \in Seq(Task) /\ Len(q) \in Nat \ {0} /\ DOMAIN q = 1 .. Len(q)
  BY <1>1, HeadTask DEF IInv, TypeOK
<1>3. Counted \in Task
  BY <1>1, HeadTask
<1> DEFINE e == Issued(Counted)
<1>4. Issued(Counted) \in Task
  <2>1. ChunkOf(Counted) \in Nat
    BY <1>3, ChunkOK DEF ProcessChunk
  <2> QED
    BY <1>3, <2>1, TaskUpdated DEF Issued
<1> HIDE DEF e
<1>5. /\ q' \in Seq(Task) /\ Len(q') = Len(q)
      /\ q'[1] = e /\ \A i \in 2 .. Len(q) : q'[i] = q[i]
  BY <1>1, <1>2, <1>4 DEF e
<1> QED
  BY <1>2, <1>5, EmptySeq DEF e

LEMMA PopShape ==
  ASSUME IInv, ProcessPop
  PROVE  /\ Len(q) \in Nat \ {0} /\ Len(q') = Len(q) - 1
         /\ q' = <<>> <=> Len(q) = 1
         /\ Tail(q) = <<>> <=> Len(q) = 1
         /\ Len(q) > 1 => /\ q[2] \in Task /\ q[2].done = 0
                          /\ q'[1] = Issued(q[2])
         /\ \A i \in 2 .. Len(q) - 1 : q'[i] = q[i + 1]
<1>1. q # <<>>
  BY DEF ProcessPop
<1>2. /\ Len(q) \in Nat \ {0} /\ Tail(q) \in Seq(Task) /\ q \in Seq(Task)
      /\ Len(Tail(q)) = Len(q) - 1
      /\ \A i \in 1 .. Len(q) - 1 : Tail(q)[i] = q[i + 1]
  BY <1>1, HeadTask DEF IInv, TypeOK
<1> DEFINE s == Tail(q)
<1>3. s \in Seq(Task) /\ Len(s) = Len(q) - 1
      /\ \A i \in 1 .. Len(q) - 1 : s[i] = q[i + 1]
  BY <1>2
<1>4. IF s = <<>> THEN q' = <<>> ELSE q' = [s EXCEPT ![1] = Issued(s[1])]
  BY DEF ProcessPop
<1> HIDE DEF s
<1>5. s = <<>> <=> Len(q) = 1
  BY <1>2, <1>3, EmptySeq
<1>6. CASE Len(q) = 1
  BY <1>2, <1>4, <1>5, <1>6 DEF s
<1>7. CASE Len(q) # 1
  <2>1. Len(q) > 1 /\ 2 \in DOMAIN q /\ q[2] \in Task
    BY <1>2, <1>7
  <2>2. q[2].done = 0 /\ s[1] = q[2]
    BY <1>2, <1>3, <2>1 DEF IInv, NotBegun
  <2> DEFINE e == Issued(q[2])
  <2>3. e \in Task
    <3>1. ChunkOf(q[2]) \in Nat
      BY <2>1, <2>2, ChunkOK DEF Task
    <3> QED
      BY <2>1, <3>1, TaskUpdated DEF Issued
  <2>4. q' = [s EXCEPT ![1] = e]
    BY <1>4, <1>5, <1>7, <2>2
  <2> HIDE DEF e
  <2>5. /\ Len(q') = Len(s) /\ q'[1] = e /\ q' \in Seq(Task)
        /\ \A i \in 2 .. Len(s) : q'[i] = s[i]
    <3>1. /\ s \in Seq(Task) /\ Len(s) \in Nat \ {0} /\ DOMAIN s = 1 .. Len(s)
          /\ 1 \in 1 .. Len(s)
      BY <1>2, <1>3, <2>1
    <3> QED
      BY <2>3, <2>4, <3>1, ExceptSeq
  <2>6. q' # <<>>
    BY <1>2, <1>3, <2>1, <2>5, EmptySeq
  <2> QED
    BY <1>2, <1>3, <1>5, <1>7, <2>1, <2>2, <2>5, <2>6 DEF s, e
<1> QED
  BY <1>6, <1>7

LEMMA InitOp == Init => OpInv
BY DEF Init, OpInv, HeadInFlight, BusyOnHead, MacroIdle

\* What a timeout gives up is never what the macro works on.
LEMMA TimeoutOp ==
  ASSUME IInv, OpInv, ProcessTimeout
  PROVE  OpInv'
<1>1. q # <<>> /\ q' = Tail(q) /\ inflight' = FALSE /\ age >= Timeout
  BY DEF ProcessTimeout
<1>2. macro.st # "busy"
  BY <1>1, EngineAssumption DEF OpInv, BusyOnHead, IInv, TypeOK
<1>3. macro'.st # "busy"
  BY <1>2 DEF ProcessTimeout, IInv, MacroOK, MacroOps, MacroIdle
<1>4. q' # <<>> => q'[1].done = 0
  <2>1. /\ Len(q) \in Nat \ {0} /\ Tail(q) \in Seq(Task)
        /\ Len(Tail(q)) = Len(q) - 1 /\ q \in Seq(Task)
        /\ \A i \in 1 .. Len(q) - 1 : Tail(q)[i] = q[i + 1]
    BY <1>1, HeadTask DEF IInv, TypeOK
  <2>2. ASSUME q' # <<>> PROVE q'[1].done = 0
    <3>1. Len(q) > 1 /\ 2 \in DOMAIN q
      BY <1>1, <2>1, <2>2, EmptySeq
    <3>2. q'[1] = q[2]
      BY <1>1, <2>1, <3>1
    <3> QED
      BY <3>1, <3>2 DEF IInv, NotBegun
  <2> QED
    BY <2>2
<1> QED
  BY <1>1, <1>3, <1>4 DEF OpInv, HeadInFlight, BusyOnHead

\* A head that got a chunk, by either branch of Process.
LEMMA IssuedOp ==
  ASSUME IInv, NEW t \in Task, t.done < t.size, IssueChunk(t), buf' = buf,
         macro.st # "busy", q' # <<>>, q'[1] = Issued(t)
  PROVE  OpInv'
<1>1. /\ inflight' = TRUE /\ complete' = FALSE /\ age' = 0
      /\ macro.st = "idle" => macro'.st = "busy" /\ OpOf(t, macro', rowBuf', buf)
      /\ macro.st = "hung" => macro' = macro
      /\ macro.st \in {"idle", "hung"}
  BY Issues DEF IInv, TypeOK
<1> DEFINE e == Issued(t)
<1>2. /\ SameWork(t, e) /\ e.chunk = ChunkOf(t) /\ ChunkOf(e) = ChunkOf(t)
      /\ \A m, rb, b : OpOf(t, m, rb, b) => OpOf(e, m, rb, b)
  BY IssuedSame, SameOp
<1>3. q'[1] = e
  OBVIOUS
<1> HIDE DEF e
<1>4. HeadInFlight'
  BY <1>1, <1>2, <1>3 DEF HeadInFlight, SameWork
<1>5. BusyOnHead'
  <2>1. macro'.st = "busy" => OpOf(e, macro', rowBuf', buf')
    BY <1>1, <1>2
  <2>2. inflight' /\ ~complete' /\ age' < Timeout'
    BY <1>1, EngineAssumption
  <2> QED
    BY <1>3, <2>1, <2>2 DEF BusyOnHead
<1> QED
  BY <1>4, <1>5 DEF OpInv

\* Process issues a chunk only when the macro is idle or hung.
LEMMA ProcessNotBusy ==
  ASSUME IInv, OpInv, inflight => complete
  PROVE  macro.st # "busy"
BY DEF OpInv, BusyOnHead

LEMMA ChunkOp ==
  ASSUME IInv, OpInv, ProcessChunk
  PROVE  OpInv'
<1>1. /\ Counted.done < Counted.size /\ IssueChunk(Counted) /\ buf' = buf
      /\ q # <<>> /\ (inflight => complete)
  BY DEF ProcessChunk
<1>2. Counted \in Task /\ macro.st # "busy"
  BY <1>1, HeadTask, ProcessNotBusy
<1>3. q' # <<>> /\ q'[1] = Issued(Counted)
  BY ChunkShape
<1> DEFINE t == Counted
<1>4. /\ t \in Task /\ t.done < t.size /\ IssueChunk(t) /\ q'[1] = Issued(t)
  BY <1>1, <1>2, <1>3
<1> HIDE DEF t
<1> QED
  BY <1>1, <1>2, <1>3, <1>4, IssuedOp

LEMMA PopOp ==
  ASSUME IInv, OpInv, ProcessPop
  PROVE  OpInv'
<1>1. /\ q # <<>> /\ (inflight => complete) /\ buf' = buf
      /\ Counted.done >= Counted.size
  BY DEF ProcessPop
<1>2. macro.st # "busy"
  BY <1>1, ProcessNotBusy
<1>3. CASE Len(q) = 1
  <2>1. q' = <<>> /\ inflight' = FALSE /\ macro' = macro
    BY <1>3, PopShape DEF ProcessPop
  <2> QED
    BY <1>2, <2>1 DEF OpInv, HeadInFlight, BusyOnHead
<1>4. CASE Len(q) # 1
  <2>1. /\ q[2] \in Task /\ q[2].done = 0 /\ q'[1] = Issued(q[2]) /\ q' # <<>>
        /\ Tail(q) # <<>>
    BY <1>4, PopShape
  <2>2. IssueChunk(q[2]) /\ q[2].done < q[2].size
    BY <2>1 DEF ProcessPop, Task
  <2> QED
    BY <1>1, <1>2, <2>1, <2>2, IssuedOp
<1> QED
  BY <1>3, <1>4

\* A task joins the queue behind what is there; the words an operation still
\* reads stay.
LEMMA AppendedOp ==
  ASSUME IInv, OpInv, NEW t \in Task, t.done = 0, Len(q) < Depth,
         q' = Append(q, t),
         UNCHANGED <<rowBuf, complete, inflight, age, macro>>,
         \A k \in 0 .. dataAlloc - 1 : buf'[k] = buf[k]
  PROVE  OpInv'
<1>1. /\ Len(q) \in Nat /\ Len(q') = Len(q) + 1 /\ q'[Len(q) + 1] = t
      /\ \A i \in 1 .. Len(q) : q'[i] = q[i]
      /\ q \in Seq(Task) /\ q' \in Seq(Task)
  BY Queued DEF IInv, TypeOK
<1>2. q' # <<>>
  BY <1>1, EmptySeq
<1>3. q # <<>> => Len(q) \in Nat \ {0} /\ q'[1] = q[1] /\ q[1] \in Task
  BY <1>1, EmptySeq
<1>4. q = <<>> => q'[1] = t
  BY <1>1, EmptySeq
<1>5. HeadInFlight'
  <2>1. CASE q = <<>>
    BY <1>2, <1>4, <2>1 DEF OpInv, HeadInFlight
  <2>2. CASE q # <<>>
    BY <1>2, <1>3, <2>2 DEF OpInv, HeadInFlight, ChunkOf
  <2> QED
    BY <2>1, <2>2
<1>6. BusyOnHead'
  <2> SUFFICES ASSUME macro.st = "busy"
               PROVE  /\ inflight /\ ~complete /\ age < Timeout
                      /\ OpOf(q'[1], macro, rowBuf, buf')
    BY DEF BusyOnHead
  <2>1. /\ inflight /\ ~complete /\ age < Timeout /\ q # <<>>
        /\ OpOf(q[1], macro, rowBuf, buf) /\ q[1].done < q[1].size
    BY DEF OpInv, BusyOnHead, HeadInFlight
  <2> DEFINE h == q[1]
  <2>2. h \in Task /\ h = q'[1] /\ 1 \in DOMAIN q
    BY <1>3, <2>1, HeadTask
  <2>3. h.type = "write" =>
          h.off \in Nat /\ h.len = h.size /\ h.off + h.len <= dataAlloc
    <3>1. h.type = "write" => h.off \in Nat
      BY <2>2, SegmentInBuffer
    <3> QED
      BY <2>2, <3>1 DEF IInv, SegmentsOK, SegmentsInside, Live
  <2>4. h.type = "write" => ChunkOf(h) \in Nat \ {0} /\ ChunkOf(h) <= h.size - h.done
    BY <2>1, <2>2, ChunkOK
  <2>5. OpOf(h, macro, rowBuf, buf) /\ h.done \in Nat /\ h.size \in Nat
        /\ h.addr \in Nat /\ h.done < h.size
    BY <2>1, <2>2 DEF Task
  <2> HIDE DEF h
  <2>6. OpOf(h, macro, rowBuf, buf')
    <3> DEFINE rowOff == (h.addr + h.done) % RowWords
    <3>1. rowOff \in Nat
      BY <2>5, RowRestOK
    <3> DEFINE c == ChunkOf(h)
    <3> HIDE DEF rowOff, c
    <3>2. ASSUME h.type = "write", NEW i \in rowOff .. rowOff + c - 1
          PROVE  buf'[h.off + h.done + i - rowOff] = buf[h.off + h.done + i - rowOff]
      <4>1. /\ c \in Nat /\ c <= h.size - h.done
            /\ h.off \in Nat /\ h.off + h.size <= dataAlloc
        BY <2>3, <2>4, <3>2 DEF c
      <4>2. dataAlloc \in Nat
        BY EngineAssumption DEF IInv, TypeOK
      <4>3. h.off + h.done + i - rowOff \in 0 .. dataAlloc - 1
        BY <2>5, <3>1, <3>2, <4>1, <4>2
      <4> QED
        BY <4>3
    <3>3. h.type = "write" /\ RowOf(h, rowBuf, buf) => RowOf(h, rowBuf, buf')
      BY <3>2 DEF RowOf, rowOff, c
    <3> QED
      BY <2>5, <3>3 DEF OpOf
  <2> QED
    BY <2>1, <2>2, <2>6
<1> QED
  BY <1>5, <1>6 DEF OpInv

LEMMA QueueEraseOp ==
  ASSUME IInv, OpInv, QueueErase
  PROVE  OpInv'
<1>1. /\ UNCHANGED <<buf, rowBuf, complete, inflight, age, macro>>
      /\ call.op = "erase"
  BY DEF QueueErase
<1>2. CASE call.size = 0
  <2>1. q' = q
    BY <1>2 DEF QueueErase
  <2> QED
    BY <1>1, <2>1 DEF OpInv, HeadInFlight, BusyOnHead
<1>3. CASE call.size # 0
  <2> DEFINE t == [type |-> "erase", addr |-> call.addr, size |-> call.size,
                   done |-> 0, chunk |-> 0, off |-> DATA_INVALID, len |-> 0]
  <2>1. call.addr \in Nat /\ call.size \in Nat \ {0}
    BY <1>1, <1>3 DEF IInv, CallOK, NoCall, Addr
  <2>2. t \in Task /\ t.done = 0
    BY <2>1, EngineAssumption DEF Task
  <2>3. Len(q) < Depth /\ q' = Append(q, t)
    BY <1>3 DEF QueueErase
  <2> HIDE DEF t
  <2> QED
    BY <1>1, <2>2, <2>3, AppendedOp
<1> QED
  BY <1>2, <1>3

\* The segment a write queues, and that no word before it is disturbed.
LEMMA SegmentQueued ==
  ASSUME IInv, QueueSegment,
         NEW t, t = [type |-> "write", addr |-> call.addr, size |-> Segment,
                     done |-> 0, chunk |-> 0, off |-> dataAlloc, len |-> Segment]
  PROVE  /\ t \in Task /\ t.done = 0 /\ t.type = "write" /\ t.size = Segment
         /\ t.off = dataAlloc /\ Len(q) < Depth /\ q' = Append(q, t)
         /\ call.data \in Seq(Data)
         /\ Segment \in 1 .. BufWords /\ Segment <= Len(call.data)
         /\ dataAlloc \in Nat /\ dataAlloc + Segment <= BufWords
         /\ \A k \in 0 .. dataAlloc - 1 : buf'[k] = buf[k]
         /\ \A k \in 1 .. Segment : buf'[dataAlloc + k - 1] = call.data[k]
<1>1. /\ call.op = "write" /\ call.data # <<>> /\ Len(q) < Depth
      /\ BufWords - dataAlloc >= Segment /\ q' = Append(q, t)
      /\ buf' = [i \in 0 .. BufWords - 1 |->
               IF i \in dataAlloc .. dataAlloc + Segment - 1
                 THEN call.data[i - dataAlloc + 1] ELSE buf[i]]
  BY DEF QueueSegment
<1>2. call.addr \in Nat /\ call.data \in Seq(Data)
  BY <1>1 DEF IInv, CallOK, NoCall
<1>3. Segment \in 1 .. BufWords /\ Segment <= Len(call.data)
  BY <1>1, <1>2, EmptySeq, EngineAssumption DEF Segment
<1>4. dataAlloc \in Nat /\ dataAlloc + Segment <= BufWords
      /\ dataAlloc \in 0 .. BufWords
  BY <1>1, <1>3, EngineAssumption DEF IInv, TypeOK
<1>5. /\ t \in Task /\ t.done = 0 /\ t.type = "write" /\ t.size = Segment
      /\ t.off = dataAlloc
  BY <1>2, <1>3, <1>4, EngineAssumption DEF Task
<1>6. /\ \A k \in 0 .. dataAlloc - 1 : buf'[k] = buf[k]
      /\ \A k \in 1 .. Segment : buf'[dataAlloc + k - 1] = call.data[k]
  <2>1. Segment \in Nat /\ BufWords \in Nat
    BY <1>3, EngineAssumption
  <2>2. ASSUME NEW k \in 0 .. dataAlloc - 1 PROVE buf'[k] = buf[k]
    BY <1>1, <1>4, <2>1
  <2>3. ASSUME NEW k \in 1 .. Segment
        PROVE  buf'[dataAlloc + k - 1] = call.data[k]
    <3>1. /\ dataAlloc + k - 1 \in dataAlloc .. dataAlloc + Segment - 1
          /\ dataAlloc + k - 1 \in 0 .. BufWords - 1
          /\ (dataAlloc + k - 1) - dataAlloc + 1 = k
      BY <1>4, <2>1
    <3> QED
      BY <1>1, <3>1
  <2> QED
    BY <2>2, <2>3
<1> QED
  BY <1>1, <1>2, <1>3, <1>4, <1>5, <1>6

LEMMA QueueSegmentOp ==
  ASSUME IInv, OpInv, QueueSegment
  PROVE  OpInv'
<1> DEFINE t == [type |-> "write", addr |-> call.addr, size |-> Segment,
                 done |-> 0, chunk |-> 0, off |-> dataAlloc, len |-> Segment]
<1>1. UNCHANGED <<rowBuf, complete, inflight, age, macro>>
  BY DEF QueueSegment
<1>2. /\ t \in Task /\ t.done = 0 /\ Len(q) < Depth /\ q' = Append(q, t)
      /\ \A k \in 0 .. dataAlloc - 1 : buf'[k] = buf[k]
  BY SegmentQueued
<1> HIDE DEF t
<1> QED
  BY <1>1, <1>2, AppendedOp

\* Steps that leave the engine alone: the call goes on, or the macro ends.
LEMMA QuietOp ==
  ASSUME IInv, OpInv, ~Late,
         \/ Call \/ WriteQueued \/ WaitDone \/ Read
         \/ MacroDone \/ MacroFail \/ MacroHang \/ Tick \/ UNCHANGED vars
  PROVE  OpInv'
<1>1. CASE Call \/ WriteQueued \/ WaitDone \/ Read \/ UNCHANGED vars
  <2>1. UNCHANGED <<engineVars, macro>>
    BY <1>1 DEF Call, WriteQueued, WaitDone, Read, vars
  <2> QED
    BY <2>1 DEF engineVars, OpInv, HeadInFlight, BusyOnHead
<1>2. CASE MacroDone
  BY <1>2 DEF MacroDone, MacroIdle, OpInv, HeadInFlight, BusyOnHead
<1>3. CASE MacroFail
  BY <1>3 DEF MacroFail, engineVars, MacroIdle, OpInv, HeadInFlight, BusyOnHead
<1>4. CASE MacroHang
  <2>1. macro.st = "busy" /\ macro'.st = "hung" /\ UNCHANGED engineVars
    BY <1>4 DEF MacroHang, IInv, MacroOK, MacroOps, MacroIdle
  <2>2. ~complete
    BY <2>1 DEF OpInv, BusyOnHead
  <2> QED
    BY <2>1, <2>2 DEF engineVars, OpInv, HeadInFlight, BusyOnHead
<1>5. CASE Tick
  <2>1. /\ age' = age + 1 /\ (macro.st = "busy" => age' < Timeout)
        /\ UNCHANGED <<q, buf, rowBuf, complete, inflight, macro>>
    BY <1>5 DEF Tick
  <2> QED
    BY <2>1 DEF OpInv, HeadInFlight, BusyOnHead
<1> QED
  BY <1>1, <1>2, <1>3, <1>4, <1>5

LEMMA NextOp ==
  ASSUME IInv, OpInv, ~Late, [Next]_vars
  PROVE  OpInv'
<1>1. CASE Reset
  BY <1>1 DEF Reset, MacroIdle, OpInv, HeadInFlight, BusyOnHead
<1>2. CASE Pump
  BY <1>2, TimeoutOp, ChunkOp, PopOp DEF Pump
<1>3. CASE Caller
  BY <1>3, QueueEraseOp, QueueSegmentOp, QuietOp DEF Caller
<1> QED
  BY <1>1, <1>2, <1>3, QuietOp DEF Next

\* Without late responses the macro only ever works on the next chunk of the
\* head, with the words of its segment as its source.
LEMMA OpInductive ==
  ASSUME ~Late PROVE Spec => [](IInv /\ OpInv)
<1>1. Init => IInv /\ OpInv
  BY InitInv, InitOp
<1>2. IInv /\ OpInv /\ [Next]_vars => (IInv /\ OpInv)'
  BY NextInv, NextOp
<1> QED
  BY <1>1, <1>2, PTL DEF Spec

-----------------------------------------------------------------------------
(* The source of an operation while it runs.                                *)

\* The words a work-flash program reads lie before dataAlloc.
LEMMA SourceBeforeAlloc ==
  ASSUME IInv, OpInv, macro.st = "busy", macro.op = "word"
  PROVE  macro.src \in 0 .. dataAlloc - 1
<1>1. q # <<>> /\ OpOf(q[1], macro, rowBuf, buf) /\ q[1].done < q[1].size
  BY DEF OpInv, BusyOnHead, HeadInFlight
<1>2. q[1] \in Task /\ 1 \in DOMAIN q
  BY <1>1, HeadTask
<1>3. q[1].type = "write" /\ macro.src = q[1].off + q[1].done
  BY <1>1 DEF OpOf
<1>4. /\ q[1].off \in Nat /\ q[1].off + q[1].size <= dataAlloc
      /\ q[1].done \in Nat /\ q[1].size \in Nat
  BY <1>2, <1>3, SegmentInBuffer DEF IInv, SegmentsOK, SegmentsInside, Live, Task
<1>5. dataAlloc \in Nat
  BY EngineAssumption DEF IInv, TypeOK
<1> QED
  BY <1>1, <1>3, <1>4, <1>5

\* Between two states with the macro at work nothing it reads changes.
LEMMA SourceStep ==
  ASSUME IInv, OpInv, [Next]_vars, macro.st = "busy", macro'.st = "busy"
  PROVE  /\ macro.op = "word" => buf'[macro.src] = buf[macro.src]
         /\ macro.op = "row"  => rowBuf' = rowBuf
<1>1. CASE UNCHANGED <<buf, rowBuf>>
  BY <1>1
<1>2. CASE QueueSegment
  <2>1. rowBuf' = rowBuf /\ \A k \in 0 .. dataAlloc - 1 : buf'[k] = buf[k]
    BY <1>2, SegmentQueued DEF QueueSegment
  <2> QED
    BY <2>1, SourceBeforeAlloc
<1>3. CASE Pump \/ Reset
  <2>1. inflight /\ ~complete /\ age < Timeout /\ macro'.st # "idle"
    BY DEF OpInv, BusyOnHead
  <2>2. ~Reset
    BY <2>1 DEF Reset, MacroIdle
  <2> QED
    BY <1>3, <2>1, <2>2, EngineAssumption
       DEF Pump, ProcessTimeout, ProcessChunk, ProcessPop, IInv, TypeOK
<1>4. CASE MacroDone \/ MacroFail \/ MacroHang \/ Tick
  BY <1>1, <1>4 DEF MacroDone, MacroFail, MacroHang, Tick, engineVars
<1>5. CASE Call \/ QueueErase \/ WriteQueued \/ WaitDone \/ Read
  BY <1>1, <1>5 DEF Call, QueueErase, WriteQueued, WaitDone, Read, engineVars
<1>6. CASE UNCHANGED vars
  BY <1>1, <1>6 DEF vars, engineVars
<1> QED
  BY <1>2, <1>3, <1>4, <1>5, <1>6 DEF Next, Caller

\* flash_issue_chunk's argument for programming straight from the data buffer,
\* for every geometry, depth, buffer size and set of requests, failures of the
\* macro and power losses included: while an operation runs, what it reads
\* stays.  It needs that a good operation answers within the timeout.
THEOREM SourceStaysIntact == ASSUME ~Late PROVE Spec => SourceIntact
<1>1. ASSUME IInv, OpInv, [Next]_vars
      PROVE  [macro.st = "busy" /\ macro'.st = "busy" =>
                /\ macro.op = "word" => buf'[macro.src] = buf[macro.src]
                /\ macro.op = "row"  => rowBuf' = rowBuf]_vars
  BY <1>1, SourceStep
<1>2. Spec => [](IInv /\ OpInv)
  BY OpInductive
<1> QED
  BY <1>1, <1>2, PTL DEF Spec, SourceIntact

-----------------------------------------------------------------------------
(* The engine implements FlashStore: what each step does to the requests as *)
(* their callers see them.                                                  *)

\* PendingSeq after a step.
LEMMA PendingNext ==
  ASSUME IInv'
  PROVE  /\ Pending' \in Seq(Seen) /\ Len(Pending') = Len(q')
         /\ \A i \in 1 .. Len(q') : Pending'[i] = View(i)'
<1>1. (Pending \in Seq(Seen))' /\ (Len(Pending) = Len(q))'
  BY PendingSeq, PTL
<1>2. (\A i \in 1 .. Len(q) : Pending[i] = View(i))'
  BY PendingSeq, PTL
<1> QED
  BY <1>1, <1>2 DEF Seen

\* The requests stay as they are when each of them does.
LEMMA PendingKept ==
  ASSUME IInv, IInv', Len(q') = Len(q),
         \A i \in 1 .. Len(q) : View(i)' = View(i)
  PROVE  Pending' = Pending
<1> DEFINE P == Pending
<1> DEFINE R == Pending'
<1>1. /\ P \in Seq(Seen) /\ R \in Seq(Seen) /\ Len(P) = Len(R)
      /\ \A i \in 1 .. Len(P) : P[i] = R[i]
  BY PendingSeq, PendingNext
<1> HIDE DEF P, R
<1>2. P = R
  BY <1>1, SeqEqual
<1> QED
  BY <1>2 DEF P, R

\* The oldest request leaves.
LEMMA PendingPopped ==
  ASSUME IInv, IInv', q # <<>>, Len(q') = Len(q) - 1,
         \A i \in 1 .. Len(q) - 1 : View(i)' = View(i + 1)
  PROVE  Pending # <<>> /\ Pending' = Tail(Pending)
<1> DEFINE P == Pending
<1> DEFINE R == Pending'
<1>1. /\ P \in Seq(Seen) /\ R \in Seq(Seen) /\ Len(P) = Len(q)
      /\ Len(R) = Len(P) - 1 /\ Len(q) \in Nat \ {0}
      /\ \A i \in 1 .. Len(P) - 1 : R[i] = P[i + 1]
  BY PendingSeq, PendingNext, HeadTask
<1> HIDE DEF P, R
<1>2. /\ P # <<>> /\ Tail(P) \in Seq(Seen) /\ Len(Tail(P)) = Len(P) - 1
      /\ \A i \in 1 .. Len(P) - 1 : Tail(P)[i] = P[i + 1]
  BY <1>1, HeadTailProperties, EmptySeq
<1>3. R = Tail(P)
  BY <1>1, <1>2, SeqEqual
<1> QED
  BY <1>2, <1>3 DEF P, R

\* The oldest request, as the store sees it.
LEMMA PendingHead ==
  ASSUME IInv
  PROVE  /\ Pending = <<>> <=> q = <<>>
         /\ q # <<>> => /\ Head(Pending) = View(1) /\ Pending[1] = View(1)
                        /\ View(1) \in Seen /\ q[1] \in Task
                        /\ Len(q) \in Nat \ {0}
<1> DEFINE P == Pending
<1>1. /\ P \in Seq(Seen) /\ Len(P) = Len(q) /\ q \in Seq(Task)
      /\ \A i \in 1 .. Len(q) : P[i] = View(i)
  BY PendingSeq DEF IInv, TypeOK
<1> HIDE DEF P
<1>2. (P = <<>> <=> Len(P) = 0) /\ (q = <<>> <=> Len(q) = 0) /\ Len(q) \in Nat
  BY <1>1, EmptySeq
<1>3. q # <<>> => /\ Head(P) = View(1) /\ P[1] = View(1) /\ View(1) \in Seen
                  /\ q[1] \in Task /\ Len(q) \in Nat \ {0}
  BY <1>1, <1>2, HeadTask, HeadTailProperties
<1> QED
  BY <1>1, <1>2, <1>3 DEF P

\* At the start nothing is pending and the flash is blank.
LEMMA InitMaps == Init => Store!Init
<1> SUFFICES ASSUME Init PROVE Store!Init
  OBVIOUS
<1>1. mem = [a \in Store!Addr |-> Erased]
  BY DEF Init, Store!Addr, Addr
<1>2. Sick = FALSE
  BY DEF Init, Sick, MacroIdle
<1>3. Pending = <<>>
  BY InitInv, PendingHead DEF Init
<1> QED
  BY <1>1, <1>2, <1>3 DEF Store!Init

\* Issuing the next chunk of a head that goes on changes nothing the store sees.
LEMMA ChunkMaps ==
  ASSUME IInv, IInv', OpInv, ProcessChunk
  PROVE  UNCHANGED <<mem, Pending, Sick>>
<1>1. /\ q # <<>> /\ (inflight => complete) /\ IssueChunk(Counted)
      /\ mem' = mem /\ buf' = buf
  BY DEF ProcessChunk
<1>2. Counted \in Task /\ SameSegment(Counted, q[1]) /\ macro.st # "busy"
      /\ Head(q) = q[1] /\ q[1] \in Task
  BY <1>1, HeadTask, ProcessNotBusy
<1>3. /\ inflight' = TRUE /\ complete' = FALSE
      /\ macro.st = "idle" => macro'.st = "busy"
      /\ macro.st = "hung" => macro' = macro
      /\ macro.st \in {"idle", "hung"}
  <2> DEFINE t == Counted
  <2>1. t \in Task /\ IssueChunk(t)
    BY <1>1, <1>2
  <2> HIDE DEF t
  <2> QED
    BY <1>2, <2>1, Issues DEF IInv, TypeOK
<1>4. Sick' = Sick
  BY <1>1, <1>3 DEF Sick
<1>5. Len(q') = Len(q) /\ q'[1] = Issued(Counted) /\ Len(q) \in Nat \ {0}
      /\ \A i \in 2 .. Len(q) : q'[i] = q[i]
  BY ChunkShape
<1>6. ASSUME NEW i \in 1 .. Len(q) PROVE View(i)' = View(i)
  <2>1. CASE i = 1
    <3>1. SameWork(Counted, q'[1])
      BY <1>2, <1>5, IssuedSame
    <3>2. /\ Counted.addr = q[1].addr
          /\ Counted.done = q[1].done + (IF inflight THEN q[1].chunk ELSE 0)
      BY <1>2 DEF Counted, Task
    <3>3. q'[1].done \in Nat
      BY <1>2, <3>1 DEF SameWork, Task
    <3>4. DataOf(q'[1], buf') = DataOf(q[1], buf)
      BY <1>1, <1>2, <3>1, SameData DEF SameWork, SameSegment
    <3> QED
      BY <1>1, <1>3, <1>2, <2>1, <3>1, <3>2, <3>3, <3>4 DEF View, SameWork, SameSegment
  <2>2. CASE i # 1
    BY <1>1, <1>5, <2>2 DEF View
  <2> QED
    BY <2>1, <2>2
<1>7. Pending' = Pending
  BY <1>5, <1>6, PendingKept
<1> QED
  BY <1>1, <1>4, <1>7

\* Popping a finished head retires the oldest request.
LEMMA PopMaps ==
  ASSUME IInv, IInv', OpInv, ProcessPop
  PROVE  Store!Retire
<1>1. /\ q # <<>> /\ (inflight => complete) /\ mem' = mem /\ buf' = buf
      /\ Counted.done >= Counted.size
  BY DEF ProcessPop
<1>2. q[1] \in Task /\ Head(q) = q[1] /\ macro.st # "busy"
  BY <1>1, HeadTask, ProcessNotBusy
<1>3. inflight /\ complete /\ macro.st = "idle"
  <2>1. CASE ~inflight
    BY <1>1, <1>2, <2>1 DEF Counted, OpInv, HeadInFlight, Task
  <2> QED
    BY <1>1, <2>1 DEF OpInv, HeadInFlight
<1>4. View(1).done >= View(1).size
  BY <1>1, <1>2, <1>3 DEF Counted, View, Task
<1>5. ~Store!Unfinished
  <2>1. Head(Pending) = View(1) /\ View(1).done \in Nat /\ View(1).size \in Nat
    BY <1>1, PendingHead DEF Seen
  <2> QED
    BY <1>4, <2>1 DEF Store!Unfinished
<1>6. /\ Len(q) \in Nat \ {0} /\ Len(q') = Len(q) - 1
      /\ Tail(q) = <<>> <=> Len(q) = 1
      /\ Len(q) > 1 => /\ q[2] \in Task /\ q[2].done = 0
                       /\ q'[1] = Issued(q[2])
      /\ \A i \in 2 .. Len(q) - 1 : q'[i] = q[i + 1]
  BY PopShape
<1>7. CASE Len(q) = 1
  <2>1. inflight' = FALSE /\ macro' = macro
    BY <1>6, <1>7 DEF ProcessPop
  <2>2. Sick' = Sick
    BY <1>3, <2>1 DEF Sick
  <2>3. Pending # <<>> /\ Pending' = Tail(Pending)
    BY <1>1, <1>6, <1>7, PendingPopped
  <2> QED
    BY <1>1, <1>5, <2>2, <2>3 DEF Store!Retire
<1>8. CASE Len(q) # 1
  <2>1. q[2] \in Task /\ IssueChunk(q[2]) /\ q'[1] = Issued(q[2]) /\ q[2].done = 0
    BY <1>6, <1>8 DEF ProcessPop
  <2>2. inflight' = TRUE /\ complete' = FALSE /\ macro'.st = "busy"
    BY <1>3, <2>1, Issues
  <2>3. Sick' = Sick
    BY <1>3, <2>2 DEF Sick
  <2>4. ASSUME NEW i \in 1 .. Len(q) - 1 PROVE View(i)' = View(i + 1)
    <3>1. CASE i = 1
      <4>1. SameWork(q[2], q'[1])
        BY <2>1, IssuedSame
      <4>2. DataOf(q'[1], buf') = DataOf(q[2], buf)
        BY <1>1, <4>1, SameData DEF SameWork
      <4> QED
        BY <1>1, <2>1, <2>2, <3>1, <4>1, <4>2 DEF View, SameWork
    <3>2. CASE i # 1
      BY <1>1, <1>6, <3>2 DEF View
    <3> QED
      BY <3>1, <3>2
  <2>5. Pending # <<>> /\ Pending' = Tail(Pending)
    BY <1>1, <1>6, <2>4, PendingPopped
  <2> QED
    BY <1>1, <1>5, <2>3, <2>5 DEF Store!Retire
<1> QED
  BY <1>7, <1>8

\* Giving up a chunk that timed out drops a request the macro failed on.
LEMMA TimeoutMaps ==
  ASSUME IInv, IInv', OpInv, ProcessTimeout
  PROVE  Store!Drop
<1>1. /\ q # <<>> /\ inflight /\ ~complete /\ age >= Timeout /\ q' = Tail(q)
      /\ inflight' = FALSE /\ mem' = mem /\ buf' = buf
  BY DEF ProcessTimeout
<1>2. macro.st \in {"idle", "hung"}
  BY <1>1, EngineAssumption DEF OpInv, BusyOnHead, IInv, TypeOK
<1>3. Sick /\ Sick' \in BOOLEAN
  BY <1>1, <1>2 DEF Sick
<1>4. /\ Len(q) \in Nat \ {0} /\ Len(q') = Len(q) - 1
      /\ \A i \in 1 .. Len(q) - 1 : q'[i] = q[i + 1]
  BY <1>1, HeadTask
<1>5. ASSUME NEW i \in 1 .. Len(q) - 1 PROVE View(i)' = View(i + 1)
  BY <1>1, <1>4 DEF View
<1>6. Pending # <<>> /\ Pending' = Tail(Pending)
  BY <1>1, <1>4, <1>5, PendingPopped
<1> QED
  BY <1>1, <1>3, <1>6 DEF Store!Drop

\* A request queued behind the others, its data in the buffer, is a submission.
LEMMA AppendedMaps ==
  ASSUME IInv, IInv', OpInv, NEW t \in Task, t.done = 0, Len(q) < Depth,
         q' = Append(q, t), UNCHANGED <<complete, inflight, macro, mem>>,
         \A k \in 0 .. dataAlloc - 1 : buf'[k] = buf[k],
         t.type = "write" =>
           DataOf(t, buf') \in Seq(Data) /\ Len(DataOf(t, buf')) = t.size
  PROVE  Store!Submit
<1>1. /\ Len(q) \in Nat /\ Len(q') = Len(q) + 1 /\ q'[Len(q) + 1] = t
      /\ \A i \in 1 .. Len(q) : q'[i] = q[i]
      /\ q \in Seq(Task)
  BY Queued DEF IInv, TypeOK
<1>2. ASSUME NEW i \in 1 .. Len(q) PROVE View(i)' = View(i)
  <2>1. q[i] \in Task /\ i \in DOMAIN q /\ q'[i] = q[i]
    BY <1>1
  <2>2. ASSUME q[i].type = "write", NEW k \in 1 .. q[i].size
        PROVE  buf'[q[i].off + k - 1] = buf[q[i].off + k - 1]
    <3>1. q[i].off \in Nat /\ q[i].size \in Nat
      BY <2>1, <2>2, SegmentInBuffer DEF Task
    <3>2. q[i].off + q[i].size <= dataAlloc
      BY <2>1, <2>2 DEF IInv, SegmentsOK, SegmentsInside, Live
    <3>3. dataAlloc \in Nat
      BY EngineAssumption DEF IInv, TypeOK
    <3>4. q[i].off + k - 1 \in 0 .. dataAlloc - 1
      BY <3>1, <3>2, <3>3
    <3> QED
      BY <3>4
  <2>3. DataOf(q'[i], buf') = DataOf(q[i], buf)
    BY <2>1, <2>2 DEF DataOf
  <2> QED
    BY <2>1, <2>3 DEF View
<1>0. PICK n : n = Len(q) + 1
  OBVIOUS
<1> DEFINE v == View(n)'
<1>3. /\ v.type = t.type /\ v.addr = t.addr /\ v.size = t.size
      /\ v.done = 0 /\ v.data = DataOf(t, buf')
  <2>1. n = 1 => ~inflight
    BY <1>0, <1>1, EmptySeq DEF OpInv, HeadInFlight
  <2>2. /\ v.type = t.type /\ v.addr = t.addr /\ v.size = t.size
        /\ v.data = DataOf(t, buf')
        /\ v.done = t.done + (IF n = 1 /\ inflight /\ complete
                                THEN t.chunk ELSE 0)
    BY <1>0, <1>1 DEF View
  <2> QED
    BY <2>1, <2>2
<1>4. Store!Fresh(v)
  <2>1. t.addr \in Nat /\ t.size \in Nat \ {0} /\ t.type \in {"erase", "write"}
    BY DEF Task
  <2>2. t.type = "erase" => DataOf(t, buf') = <<>>
    BY DEF DataOf
  <2> HIDE DEF v
  <2> QED
    BY <1>3, <2>1, <2>2 DEF Store!Fresh
<1> DEFINE P == Pending
<1> DEFINE R == Pending'
<1>5. /\ P \in Seq(Seen) /\ R \in Seq(Seen) /\ Len(P) = Len(q)
      /\ Len(R) = Len(q) + 1 /\ R[n] = v
      /\ \A i \in 1 .. Len(q) : R[i] = P[i]
  BY <1>0, <1>1, <1>2, PendingSeq, PendingNext
<1> HIDE DEF P, R, v
<1>6. Store!Last(R) = v
  BY <1>0, <1>5 DEF Store!Last
<1>7. Store!Front(R) = P
  <2> DEFINE f == SubSeq(R, 1, Len(R) - 1)
  <2>1. f \in Seq(Seen) /\ Len(f) = Len(q) /\ \A i \in 1 .. Len(q) : f[i] = R[i]
    BY <1>1, <1>5, SubSeqProperties
  <2> HIDE DEF f
  <2>2. f = P
    BY <1>5, <2>1, SeqEqual
  <2> QED
    BY <2>2 DEF f, Store!Front
<1>8. Sick' = Sick
  BY DEF Sick
<1> QED
  BY <1>1, <1>4, <1>5, <1>6, <1>7, <1>8 DEF Store!Submit, P, R

\* Queueing is a submission; an erase of nothing is none.
LEMMA QueueEraseMaps ==
  ASSUME IInv, IInv', OpInv, QueueErase
  PROVE  Store!Submit \/ UNCHANGED <<mem, Pending, Sick>>
<1>1. /\ UNCHANGED <<buf, complete, inflight, macro, mem>> /\ call.op = "erase"
  BY DEF QueueErase
<1>2. CASE call.size = 0
  <2>1. q' = q
    BY <1>2 DEF QueueErase
  <2> QED
    BY <1>1, <2>1 DEF Pending, Sick
<1>3. CASE call.size # 0
  <2> DEFINE t == [type |-> "erase", addr |-> call.addr, size |-> call.size,
                   done |-> 0, chunk |-> 0, off |-> DATA_INVALID, len |-> 0]
  <2>1. call.addr \in Nat /\ call.size \in Nat \ {0}
    BY <1>1, <1>3 DEF IInv, CallOK, NoCall, Addr
  <2>2. t \in Task /\ t.done = 0 /\ t.type = "erase"
    BY <2>1, EngineAssumption DEF Task
  <2>3. Len(q) < Depth /\ q' = Append(q, t)
    BY <1>3 DEF QueueErase
  <2> HIDE DEF t
  <2> QED
    BY <1>1, <2>2, <2>3, AppendedMaps
<1> QED
  BY <1>2, <1>3

LEMMA QueueSegmentMaps ==
  ASSUME IInv, IInv', OpInv, QueueSegment
  PROVE  Store!Submit
<1> DEFINE t == [type |-> "write", addr |-> call.addr, size |-> Segment,
                 done |-> 0, chunk |-> 0, off |-> dataAlloc, len |-> Segment]
<1>1. UNCHANGED <<complete, inflight, macro, mem>>
  BY DEF QueueSegment
<1>2. /\ t \in Task /\ t.done = 0 /\ t.type = "write" /\ t.size = Segment
      /\ t.off = dataAlloc /\ Len(q) < Depth /\ q' = Append(q, t)
      /\ call.data \in Seq(Data)
      /\ Segment \in 1 .. BufWords /\ Segment <= Len(call.data)
      /\ dataAlloc \in Nat
      /\ \A k \in 0 .. dataAlloc - 1 : buf'[k] = buf[k]
      /\ \A k \in 1 .. Segment : buf'[dataAlloc + k - 1] = call.data[k]
  BY SegmentQueued
<1> HIDE DEF t
<1>3. DataOf(t, buf') \in Seq(Data) /\ Len(DataOf(t, buf')) = t.size
  <2>1. Segment \in Nat /\ Len(call.data) \in Nat
    BY <1>2, EngineAssumption
  <2>2. ASSUME NEW k \in 1 .. Segment PROVE buf'[t.off + k - 1] \in Data
    <3>1. k \in 1 .. Len(call.data) /\ buf'[t.off + k - 1] = call.data[k]
      BY <1>2, <2>1
    <3> QED
      BY <1>2, <3>1
  <2>3. DataOf(t, buf') = [k \in 1 .. Segment |-> buf'[t.off + k - 1]]
    BY <1>2 DEF DataOf
  <2> DEFINE n == Segment
  <2>4. n \in Nat /\ n = t.size /\ DataOf(t, buf') = [k \in 1 .. n |-> buf'[t.off + k - 1]]
        /\ \A k \in 1 .. n : buf'[t.off + k - 1] \in Data
    BY <1>2, <2>1, <2>2, <2>3
  <2> DEFINE d == [k \in 1 .. n |-> buf'[t.off + k - 1]]
  <2> HIDE DEF n
  <2>5. d \in Seq(Data)
    BY <2>4
  <2>6. Len(d) = n
    BY <2>4
  <2> HIDE DEF d
  <2>7. DataOf(t, buf') = d /\ n = t.size
    BY <2>4 DEF d
  <2> QED
    BY <2>5, <2>6, <2>7
<1> QED
  BY <1>1, <1>2, <1>3, AppendedMaps

\* While the macro works, the head of the store has a chunk to go: the one the
\* operation is for.
LEMMA HeadBusy ==
  ASSUME IInv, OpInv, macro.st = "busy"
  PROVE  /\ q # <<>> /\ inflight /\ ~complete /\ q[1] \in Task
         /\ q[1].done < q[1].size /\ q[1].chunk = ChunkOf(q[1])
         /\ OpOf(q[1], macro, rowBuf, buf)
         /\ Head(Pending) = View(1) /\ Pending # <<>> /\ View(1) \in Seen
         /\ View(1).type = q[1].type /\ View(1).addr = q[1].addr
         /\ View(1).size = q[1].size /\ View(1).done = q[1].done
         /\ View(1).data = DataOf(q[1], buf)
         /\ Store!ChunkOf(Head(Pending)) = ChunkOf(q[1])
         /\ Store!Unfinished /\ ~Sick
<1>1. /\ inflight /\ ~complete /\ q # <<>>
      /\ q[1].done < q[1].size /\ q[1].chunk = ChunkOf(q[1])
      /\ OpOf(q[1], macro, rowBuf, buf)
  BY DEF OpInv, BusyOnHead, HeadInFlight
<1>2. /\ Head(Pending) = View(1) /\ Pending # <<>> /\ View(1) \in Seen
      /\ q[1] \in Task
  BY <1>1, PendingHead
<1>3. /\ View(1).type = q[1].type /\ View(1).addr = q[1].addr
      /\ View(1).size = q[1].size /\ View(1).data = DataOf(q[1], buf)
      /\ View(1).done = q[1].done + 0
  BY <1>1 DEF View
<1>4. q[1].done \in Nat
  BY <1>2 DEF Task
<1>5. View(1).done = q[1].done
  BY <1>3, <1>4
<1>6. Store!ChunkOf(Head(Pending)) = ChunkOf(q[1])
  <2>1. Store!ChunkOf(View(1)) = ChunkOf(View(1))
    BY SameOperators
  <2>2. ChunkOf(View(1)) = ChunkOf(q[1])
    BY <1>3, <1>5 DEF ChunkOf
  <2> QED
    BY <1>2, <2>1, <2>2
<1>7. Store!Unfinished
  BY <1>1, <1>2, <1>3, <1>5 DEF Store!Unfinished
<1>8. ~Sick
  BY <1>1 DEF Sick
<1> QED
  BY <1>1, <1>2, <1>3, <1>5, <1>6, <1>7, <1>8

\* What arithmetic needs of a task.
LEMMA TaskFields ==
  ASSUME NEW t \in Task
  PROVE  /\ t.type \in {"erase", "write"} /\ t.addr \in Nat
         /\ t.size \in Nat \ {0} /\ t.done \in Nat /\ t.off \in Int
<1>1. t.off \in 0 .. BufWords \cup {-1}
  BY DEF Task, DATA_INVALID
<1>2. t.off \in Int
  BY <1>1, EngineAssumption
<1> QED
  BY <1>2 DEF Task

\* The staged row covers the row of main flash the chunk lies in, and no more.
LEMMA RowTarget ==
  ASSUME NEW cur \in Nat, NEW a \in Addr, IsMain(cur)
  PROVE  a \in Row(cur) <=> a \in cur - (cur % RowWords)
                                    .. cur - (cur % RowWords) + RowWords - 1
BY SameRow, GeometryAssumption DEF Row, Addr

\* Programming the staged row is programming the chunk.
LEMMA RowEffect ==
  ASSUME IInv, NEW t \in Task, t.done < t.size, t.type = "write",
         IsMain(t.addr + t.done), RowOf(t, rowBuf, buf),
         NEW at, at = (t.addr + t.done) - ((t.addr + t.done) % RowWords)
  PROVE  ProgramCells(mem, [a \in at .. at + RowWords - 1 |-> rowBuf[a - at]])
           = ProgramCells(mem,
               [a \in t.addr + t.done .. t.addr + t.done + ChunkOf(t) - 1
                  |-> DataOf(t, buf)[a - t.addr + 1]])
<1> DEFINE cur == t.addr + t.done
<1> DEFINE rowOff == cur % RowWords
<1> DEFINE c == ChunkOf(t)
<1> DEFINE staged == [a \in at .. at + RowWords - 1 |-> rowBuf[a - at]]
<1> DEFINE asked == [a \in cur .. cur + c - 1 |-> DataOf(t, buf)[a - t.addr + 1]]
<1>1. /\ t.addr \in Nat /\ t.done \in Nat /\ t.size \in Nat /\ cur \in Nat
      /\ RowWords \in Nat \ {0} /\ t.off \in Int
  BY GeometryAssumption, TaskFields
<1>2. c \in Nat \ {0} /\ c <= t.size - t.done /\ rowOff \in 0 .. RowWords - 1
      /\ rowOff + c <= RowWords
  <2>1. c \in Nat \ {0} /\ c <= t.size - t.done
    BY ChunkOK
  <2>2. rowOff \in 0 .. RowWords - 1
    <3> HIDE DEF cur
    <3> QED
      BY <1>1, DivMod
  <2>3. c <= RowWords - rowOff
    BY <1>1, <2>2 DEF ChunkOf, RowRest
  <2> HIDE DEF rowOff, c
  <2> QED
    BY <1>1, <2>1, <2>2, <2>3
<1>3. at = cur - rowOff
  OBVIOUS
<1>4. rowBuf = [i \in 0 .. RowWords - 1 |->
                  IF i \in rowOff .. rowOff + c - 1
                    THEN buf[t.off + t.done + i - rowOff] ELSE Erased]
  BY DEF RowOf
<1>5. DataOf(t, buf) = [k \in 1 .. t.size |-> buf[t.off + k - 1]]
  BY DEF DataOf
<1>c. cur = t.addr + t.done
  OBVIOUS
<1> HIDE DEF cur, rowOff, c
<1>6. ASSUME NEW a \in cur .. cur + c - 1
      PROVE  a \in at .. at + RowWords - 1 /\ staged[a] = asked[a]
  <2>1. /\ a \in at .. at + RowWords - 1 /\ a - at \in 0 .. RowWords - 1
        /\ a - at \in rowOff .. rowOff + c - 1
        /\ a - t.addr + 1 \in 1 .. t.size
    BY <1>1, <1>2, <1>3, <1>c
  <2>2. t.off + t.done + (a - at) - rowOff = t.off + (a - t.addr + 1) - 1
    BY <1>1, <1>2, <1>3, <1>c
  <2>3. rowBuf[a - at] = buf[t.off + t.done + (a - at) - rowOff]
    BY <1>4, <2>1
  <2>4. DataOf(t, buf)[a - t.addr + 1] = buf[t.off + (a - t.addr + 1) - 1]
    BY <1>5, <2>1
  <2>5. rowBuf[a - at] = DataOf(t, buf)[a - t.addr + 1]
    BY <2>2, <2>3, <2>4
  <2> QED
    BY <2>1, <2>5
<1>7. ASSUME NEW a \in at .. at + RowWords - 1, a \notin cur .. cur + c - 1
      PROVE  staged[a] = Erased
  <2>1. /\ a - at \in 0 .. RowWords - 1
        /\ a - at \notin rowOff .. rowOff + c - 1
    BY <1>1, <1>2, <1>3, <1>7
  <2> QED
    BY <1>4, <2>1
<1>8. /\ DOMAIN staged = at .. at + RowWords - 1
      /\ DOMAIN asked = cur .. cur + c - 1
  OBVIOUS
<1>9. ProgramCells(mem, staged) = ProgramCells(mem, asked)
  <2> HIDE DEF staged, asked
  <2>1. ASSUME NEW a \in Addr
        PROVE  /\ (a \in DOMAIN staged /\ staged[a] # Erased)
                    <=> (a \in DOMAIN asked /\ asked[a] # Erased)
               /\ a \in DOMAIN asked => staged[a] = asked[a]
    BY <1>6, <1>7, <1>8
  <2> QED
    BY <2>1 DEF ProgramCells
<1> QED
  BY <1>9 DEF cur, c

\* What the operation makes of the flash, whole or broken off, is what the store
\* allows for the next chunk of its head.
LEMMA EffectMaps ==
  ASSUME IInv, OpInv, macro.st = "busy"
  PROVE  /\ Effect = Store!HeadApplied
         /\ SpoilCells(mem, Target) = Store!SpoilCells(mem, Store!HeadExposed)
<1> DEFINE t == q[1]
<1> DEFINE cur == t.addr + t.done
<1> DEFINE v == Head(Pending)
<1>1. /\ t \in Task /\ t.done < t.size /\ OpOf(t, macro, rowBuf, buf)
      /\ v.type = t.type /\ v.addr = t.addr /\ v.done = t.done
      /\ v.data = DataOf(t, buf) /\ Store!ChunkOf(v) = ChunkOf(t)
  BY HeadBusy
<1>2. t.addr \in Nat /\ t.done \in Nat /\ t.size \in Nat /\ cur \in Nat
  BY <1>1 DEF Task
<1>3. Store!HeadCells = IF t.type = "erase" THEN Sector(cur)
                        ELSE cur .. cur + ChunkOf(t) - 1
  <2>1. Store!HeadCells = IF v.type = "erase" THEN Store!Sector(v.addr + v.done)
                          ELSE v.addr + v.done .. v.addr + v.done + Store!ChunkOf(v) - 1
    BY DEF Store!HeadCells
  <2> HIDE DEF v
  <2> QED
    BY <1>1, <2>1, SameOperators
<1>4. Store!HeadExposed = IF t.type = "erase" THEN Sector(cur) ELSE Row(cur)
  <2>1. Store!HeadExposed = IF v.type = "erase" THEN Store!HeadCells
                            ELSE Store!Row(v.addr + v.done)
    BY DEF Store!HeadExposed
  <2> HIDE DEF v
  <2> QED
    BY <1>1, <1>3, <2>1, SameOperators
<1>5. Store!HeadApplied =
        IF t.type = "erase" THEN EraseCells(mem, Store!HeadCells)
        ELSE ProgramCells(mem, [a \in Store!HeadCells |-> DataOf(t, buf)[a - t.addr + 1]])
  <2>1. Store!HeadApplied =
          IF v.type = "erase" THEN Store!EraseCells(mem, Store!HeadCells)
          ELSE Store!ProgramCells(mem, [a \in Store!HeadCells |-> v.data[a - v.addr + 1]])
    BY DEF Store!HeadApplied
  <2> HIDE DEF v
  <2> QED
    BY <1>1, <2>1, SameOperators
<1> HIDE DEF v
<1>6. CASE t.type = "erase"
  <2>1. macro.op = "erase" /\ macro.at = cur
    BY <1>1, <1>6 DEF OpOf
  <2>2. Target = Sector(cur) /\ Effect = EraseCells(mem, Sector(cur))
    BY <2>1 DEF Target, Effect
  <2> QED
    BY <1>3, <1>4, <1>5, <1>6, <2>2, SameOperators
<1>7. CASE t.type = "write" /\ IsMain(cur)
  <2>1. macro.op = "row" /\ macro.at = cur - (cur % RowWords) /\ RowOf(t, rowBuf, buf)
    BY <1>1, <1>7 DEF OpOf
  <2> DEFINE at == macro.at
  <2>2. /\ Target = at .. at + RowWords - 1
        /\ Effect = ProgramCells(mem, [a \in Target |-> rowBuf[a - at]])
    BY <2>1 DEF Target, Effect
  <2>3. Effect = Store!HeadApplied
    <3> HIDE DEF t
    <3>1. ProgramCells(mem, [a \in at .. at + RowWords - 1 |-> rowBuf[a - at]])
           = ProgramCells(mem, [a \in cur .. cur + ChunkOf(t) - 1
                                  |-> DataOf(t, buf)[a - t.addr + 1]])
      BY <1>1, <1>7, <2>1, RowEffect
    <3> QED
      BY <1>3, <1>5, <1>7, <2>2, <3>1
  <2>4. \A a \in Addr : a \in Target <=> a \in Row(cur)
    BY <1>2, <1>7, <2>1, <2>2, RowTarget
  <2>5. SpoilCells(mem, Target) = SpoilCells(mem, Row(cur))
    BY <2>4 DEF SpoilCells
  <2> QED
    BY <1>4, <1>7, <2>3, <2>5, SameOperators
<1>8. CASE t.type = "write" /\ ~IsMain(cur)
  <2>1. macro.op = "word" /\ macro.at = cur /\ macro.src = t.off + t.done
    BY <1>1, <1>8 DEF OpOf
  <2>2. Target = {cur} /\ Row(cur) = {cur} /\ ChunkOf(t) = 1
    BY <1>1, <1>8, <2>1 DEF Target, Row, ChunkOf
  <2>3. Store!HeadCells = {cur}
    BY <1>2, <1>3, <1>8, <2>2
  <2>4. DataOf(t, buf)[cur - t.addr + 1] = buf[macro.src]
    <3>1. /\ cur - t.addr + 1 \in 1 .. t.size /\ t.off \in Int
          /\ t.off + (cur - t.addr + 1) - 1 = t.off + t.done
      BY <1>1, <1>2, TaskFields
    <3>2. DataOf(t, buf) = [k \in 1 .. t.size |-> buf[t.off + k - 1]]
      BY <1>8 DEF DataOf
    <3> QED
      BY <2>1, <3>1, <3>2
  <2>5. [a \in Target |-> buf[macro.src]]
          = [a \in Store!HeadCells |-> DataOf(t, buf)[a - t.addr + 1]]
    BY <2>2, <2>3, <2>4
  <2>6. Effect = ProgramCells(mem, [a \in Target |-> buf[macro.src]])
    BY <2>1 DEF Effect
  <2> QED
    BY <1>4, <1>5, <1>8, <2>2, <2>5, <2>6, SameOperators
<1> QED
  BY <1>1, <1>6, <1>7, <1>8 DEF Task

\* An operation that succeeds applies the head's next chunk.
LEMMA DoneMaps ==
  ASSUME IInv, IInv', OpInv, MacroDone
  PROVE  Store!Apply
<1>1. /\ macro.st = "busy" /\ mem' = Effect /\ macro' = MacroIdle
      /\ complete' = (complete \/ inflight) /\ UNCHANGED <<q, buf, inflight>>
  BY DEF MacroDone
<1>2. /\ Store!Unfinished /\ ~Sick /\ q # <<>> /\ inflight /\ ~complete
      /\ q[1].chunk = ChunkOf(q[1]) /\ q[1] \in Task /\ q[1].done < q[1].size
      /\ Head(Pending) = View(1) /\ View(1) \in Seen
      /\ View(1).done = q[1].done
      /\ Store!ChunkOf(Head(Pending)) = ChunkOf(q[1])
  BY <1>1, HeadBusy
<1>3. mem' = Store!HeadApplied
  BY <1>1, EffectMaps
<1>4. complete' = TRUE /\ ~Sick' /\ Sick' \in BOOLEAN /\ Sick \in BOOLEAN
  BY <1>1, <1>2 DEF Sick, MacroIdle
<1> DEFINE P == Pending
<1> DEFINE R == Pending'
<1> DEFINE c == ChunkOf(q[1])
<1>5. c \in Nat
  BY <1>2, ChunkOK
<1>6. /\ P \in Seq(Seen) /\ R \in Seq(Seen) /\ Len(P) = Len(q)
      /\ Len(R) = Len(P) /\ Len(P) \in Nat \ {0} /\ P[1] = View(1)
      /\ \A i \in 1 .. Len(P) : R[i] = View(i)' /\ P[i] = View(i)
  BY <1>1, <1>2, PendingSeq, PendingNext, PendingHead
<1>7. View(1)' = [View(1) EXCEPT !.done = @ + c]
  <2>1. /\ View(1)' = [type |-> q[1].type, addr |-> q[1].addr, size |-> q[1].size,
                       done |-> q[1].done + c, data |-> DataOf(q[1], buf)]
    BY <1>1, <1>2, <1>4 DEF View
  <2>2. /\ View(1) = [type |-> q[1].type, addr |-> q[1].addr, size |-> q[1].size,
                      done |-> View(1).done, data |-> DataOf(q[1], buf)]
    BY DEF View
  <2> QED
    BY <1>2, <2>1, <2>2
<1>8. ASSUME NEW i \in 2 .. Len(P) PROVE R[i] = P[i]
  <2>1. i \in 1 .. Len(P) /\ i # 1
    BY <1>6, <1>8
  <2>2. View(i)' = View(i)
    BY <1>1, <2>1 DEF View
  <2> QED
    BY <1>6, <2>1, <2>2
<1> DEFINE e == View(1)'
<1>9. e \in Seen /\ R[1] = e
  BY <1>6
<1>10. e = [P[1] EXCEPT !.done = @ + c]
  BY <1>6, <1>7
<1> HIDE DEF P, R, e, c
<1>11. R = [P EXCEPT ![1] = e]
  <2>1. /\ 1 \in 1 .. Len(P) /\ DOMAIN P = 1 .. Len(P)
    BY <1>6
  <2>2. /\ [P EXCEPT ![1] = e] \in Seq(Seen) /\ Len([P EXCEPT ![1] = e]) = Len(P)
        /\ \A i \in 1 .. Len(P) : [P EXCEPT ![1] = e][i] = R[i]
    BY <1>6, <1>8, <1>9, <2>1, ExceptSeq
  <2> QED
    BY <1>6, <2>2, SeqEqual
<1>12. R = [P EXCEPT ![1].done = @ + c]
  BY <1>10, <1>11
<1>13. Pending' = [Pending EXCEPT ![1].done = @ + Store!ChunkOf(Head(Pending))]
  BY <1>2, <1>12 DEF P, R, c
<1> QED
  BY <1>2, <1>3, <1>4, <1>13 DEF Store!Apply

\* One that fails or hangs leaves the chunk undone or its cells undefined.
LEMMA FailMaps ==
  ASSUME IInv, OpInv, MacroFail \/ MacroHang
  PROVE  Store!Fail
<1>1. /\ macro.st = "busy" /\ UNCHANGED <<q, buf, inflight, complete>>
      /\ mem' \in {mem, SpoilCells(mem, Target)}
  BY DEF MacroFail, MacroHang, engineVars
<1>2. macro'.st \in {"idle", "hung"}
  BY DEF MacroFail, MacroHang, MacroIdle, IInv, MacroOK, MacroOps
<1>3. Store!Unfinished /\ ~Sick /\ inflight /\ ~complete
  BY <1>1, HeadBusy
<1>4. Sick' = TRUE
  BY <1>1, <1>2, <1>3 DEF Sick
<1>5. mem' \in {mem, Store!SpoilCells(mem, Store!HeadExposed)}
  BY <1>1, EffectMaps
<1>6. Pending' = Pending
  BY <1>1 DEF Pending
<1> QED
  BY <1>3, <1>4, <1>5, <1>6 DEF Store!Fail

\* A power loss forgets the requests and hurts no more than the next chunk.
LEMMA ResetMaps ==
  ASSUME IInv, IInv', OpInv, Reset
  PROVE  Store!Crash
<1>1. Pending' = <<>>
  <2>1. Len(q') = 0 /\ Len(Pending') = Len(q') /\ Pending' \in Seq(Seen)
    BY PendingNext DEF Reset
  <2> QED
    BY <2>1, EmptySeq
<1>2. Sick' = FALSE
  BY DEF Reset, Sick, MacroIdle
<1>3. \/ mem' = mem
      \/ macro.st = "busy" /\ mem' \in {Effect, SpoilCells(mem, Target)}
  BY DEF Reset
<1>4. macro.st = "busy" =>
        /\ Store!Unfinished /\ Effect = Store!HeadApplied
        /\ SpoilCells(mem, Target) = Store!SpoilCells(mem, Store!HeadExposed)
  BY HeadBusy, EffectMaps
<1> QED
  BY <1>1, <1>2, <1>3, <1>4 DEF Store!Crash

\* Every other step leaves the requests and the flash alone.
LEMMA QuietMaps ==
  ASSUME Call \/ WriteQueued \/ WaitDone \/ Read \/ Tick \/ UNCHANGED vars
  PROVE  UNCHANGED <<mem, Pending, Sick>>
<1>1. UNCHANGED <<q, buf, inflight, complete, macro, mem>>
  BY DEF Call, WriteQueued, WaitDone, Read, Tick, vars, engineVars
<1> QED
  BY <1>1 DEF Pending, Sick

\* Every step of the engine is one of the store's, or none.
LEMMA NextMaps ==
  ASSUME IInv, IInv', OpInv, [Next]_vars
  PROVE  [Store!Next]_Store!vars
<1> USE DEF Store!Next, Store!Work, Store!vars
<1>1. CASE Pump
  BY <1>1, TimeoutMaps, ChunkMaps, PopMaps DEF Pump
<1>2. CASE Caller
  BY <1>2, QueueEraseMaps, QueueSegmentMaps, QuietMaps DEF Caller
<1>3. CASE MacroDone \/ MacroFail \/ MacroHang
  BY <1>3, DoneMaps, FailMaps
<1>4. CASE Reset
  BY <1>4, ResetMaps
<1> QED
  BY <1>1, <1>2, <1>3, <1>4, QuietMaps DEF Next

\* The engine implements FlashStore, for every geometry, depth, buffer size and
\* set of requests: requests are carried out in order, each chunk once, with the
\* data of the submission; one is given up only when the macro failed on it, and
\* a power loss hurts no more than the chunk under way.  It needs that a good
\* operation answers within the timeout.
THEOREM EngineIsStore == ASSUME ~Late PROVE Spec => StoreSpec
<1>1. Init => Store!Init
  BY InitMaps
<1>2. IInv /\ OpInv /\ IInv' /\ [Next]_vars => [Store!Next]_Store!vars
  BY NextMaps
<1>3. Spec => [](IInv /\ OpInv)
  BY OpInductive
<1> QED
  BY <1>1, <1>2, <1>3, PTL DEF Spec, StoreSpec, Store!Spec
=============================================================================
