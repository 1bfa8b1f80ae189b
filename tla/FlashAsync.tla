----------------------------- MODULE FlashAsync -----------------------------
(***************************************************************************)
(* The asynchronous flash request engine of the CM0+ core:                 *)
(* M0_BSW/SOURCE/ld_flash/src/m0_flash_async.c and the wrappers of         *)
(* m0_flash.c.                                                             *)
(*                                                                         *)
(* One thread of control (the cooperative main loop) queues erases and     *)
(* writes, waits and reads; a caller that finds the queue or the data      *)
(* buffer full pumps Flash_Async_Process itself.  The flash macro works on *)
(* one operation at a time and its completion interrupt, Flash_Isr, can    *)
(* come between any two of those steps.  Offsets and sizes are in words.   *)
(* The data buffer is append-allocated: alloc only rewinds when the last   *)
(* live segment is released.                                               *)
(***************************************************************************)
EXTENDS FlashMacro

CONSTANTS Depth,     \* FLASH_TASK_QUEUE_DEPTH
          BufWords,  \* FLASH_DATA_BUF_SIZE, in words
          Timeout,   \* FLASH_TASK_TIMEOUT_MS, in ticks of the model
          WordBytes, \* bytes of a word
          Requests,  \* the calls the application makes
          Faults,    \* whether the macro may fail or hang
          Late       \* whether a good operation may outlast Timeout

DATA_INVALID == -1   \* FLASH_DATA_INVALID: the offset of a task without data
NoCall == [op |-> "none"]

ASSUME EngineAssumption ==
  /\ Depth \in Nat \ {0} /\ BufWords \in Nat \ {0} /\ Timeout \in Nat \ {0}
  /\ WordBytes \in Nat \ {0} /\ SectorWords % WordBytes = 0
  /\ Faults \in BOOLEAN /\ Late \in BOOLEAN

ASSUME RequestsAssumption ==
  Requests \subseteq
       [op : {"erase"}, addr : Addr, size : Nat, sync : BOOLEAN]
  \cup [op : {"write"}, addr : Addr, data : Seq(Data), sync : BOOLEAN]
  \cup [op : {"read"}, addr : Addr, size : 1 .. Words]

VARIABLES
  q,          \* s_flash_queue from s_q_head on, s_q_count long
  buf,        \* s_data_buf
  dataStart,  \* s_data_start
  dataAlloc,  \* s_data_alloc
  rowBuf,     \* s_row_buf
  complete,   \* s_completeflag
  inflight,   \* s_op_inflight
  age,        \* ticks since start_tick of the chunk in flight, up to Timeout
  macro,      \* the operation the flash macro works on, if any
  mem,        \* the flash
  call,       \* the call the main loop is inside of, if any
  ret         \* what the last Flash_Async_Read returned

engineVars == <<q, buf, dataStart, dataAlloc, rowBuf, complete, inflight, age>>
vars == <<engineVars, macro, mem, call, ret>>

MacroIdle == [st |-> "idle"]

\* The operation Cy_Flash_EraseSector starts, and the one Cy_Flash_ProgramRow
\* starts with its source either the row buffer or a word of the data buffer.
EraseOp(at) ==
  [st |-> "busy", op |-> "erase", at |-> at, orphan |-> FALSE]
RowOp(at) ==
  [st |-> "busy", op |-> "row", at |-> at, orphan |-> FALSE]
WordOp(at, src) ==
  [st |-> "busy", op |-> "word", at |-> at, src |-> src, orphan |-> FALSE]

\* The words of the write in progress that the next task takes.
Segment ==
  IF Len(call.data) > BufWords THEN BufWords ELSE Len(call.data)

Init ==
  /\ q = <<>> /\ dataStart = 0 /\ dataAlloc = 0
  /\ buf = [i \in 0 .. BufWords - 1 |-> Erased]
  /\ rowBuf = [i \in 0 .. RowWords - 1 |-> Erased]
  /\ complete = TRUE /\ inflight = FALSE /\ age = 0
  /\ macro = MacroIdle
  /\ mem = [a \in Addr |-> Erased]
  /\ call = NoCall /\ ret = <<>>
-----------------------------------------------------------------------------
\* Mutants of Abandon: never rewinding, and rewinding with segments still live.
AbandonNoRewind ==
  IF Head(q).type = "write"
    THEN dataStart' = Head(q).off + Head(q).len /\ UNCHANGED dataAlloc
    ELSE UNCHANGED <<dataStart, dataAlloc>>
AbandonRewindAll == dataStart' = 0 /\ dataAlloc' = 0

(* flash_task_abandon: release the head's segment, if it has one, and pop. *)
Abandon ==
  LET t == Head(q)
      released == t.off + t.len
  IN  IF t.type = "write"
        THEN IF released = dataAlloc
               THEN dataStart' = 0 /\ dataAlloc' = 0
               ELSE dataStart' = released /\ UNCHANGED dataAlloc
        ELSE UNCHANGED <<dataStart, dataAlloc>>

(* flash_issue_chunk: a SROM call made while the macro holds an operation   *)
(* is refused (IPC busy), and the engine ignores that return code.          *)
StartOp(o) == macro' = IF macro.st = "idle" THEN o ELSE macro

\* Mutant: the source does not advance with the chunks done.
IssueFromStart(t) ==
  /\ age' = 0 /\ complete' = FALSE /\ inflight' = TRUE
  /\ StartOp(IF t.type = "erase" THEN EraseOp(t.addr + t.done)
             ELSE WordOp(t.addr + t.done, t.off))
  /\ UNCHANGED rowBuf

IssueChunk(t) ==
  LET cur    == t.addr + t.done
      chunk  == ChunkOf(t)
      rowOff == cur % RowWords
  IN  /\ age' = 0 /\ complete' = FALSE /\ inflight' = TRUE
      /\ IF t.type = "erase"
           THEN StartOp(EraseOp(cur)) /\ UNCHANGED rowBuf
         ELSE IF IsMain(cur)
           THEN /\ rowBuf' = [i \in 0 .. RowWords - 1 |->
                                IF i \in rowOff .. rowOff + chunk - 1
                                  THEN buf[t.off + t.done + i - rowOff]
                                  ELSE Erased]
                /\ StartOp(RowOp(cur - rowOff))
           ELSE StartOp(WordOp(cur, t.off + t.done)) /\ UNCHANGED rowBuf

Issued(t) == [t EXCEPT !.chunk = ChunkOf(t)]

\* The head as Process sees it: a completed chunk counts as done.
Counted ==
  IF inflight THEN [Head(q) EXCEPT !.done = @ + Head(q).chunk] ELSE Head(q)

\* Mutant: the chunk that timed out is tried again, for ever.
TimeoutRetries ==
  /\ q # <<>> /\ inflight /\ ~complete /\ age >= Timeout
  /\ IssueChunk(Head(q))
  /\ UNCHANGED <<q, buf, dataStart, dataAlloc, mem, call, ret>>

\* Flash_Async_Process, the chunk in flight not completed within the timeout.
ProcessTimeout ==
  /\ q # <<>> /\ inflight /\ ~complete /\ age >= Timeout
  /\ inflight' = FALSE /\ complete' = TRUE
  /\ Abandon /\ q' = Tail(q)
  /\ macro' = IF macro.st = "idle" THEN macro ELSE [macro EXCEPT !.orphan = TRUE]
  /\ UNCHANGED <<buf, rowBuf, age, mem, call, ret>>

\* Flash_Async_Process, the head not finished: its next chunk is issued.
ProcessChunk ==
  /\ q # <<>> /\ (inflight => complete)
  /\ Counted.done < Counted.size
  /\ q' = [q EXCEPT ![1] = Issued(Counted)]
  /\ IssueChunk(Counted)
  /\ UNCHANGED <<buf, dataStart, dataAlloc, mem, call, ret>>

\* Flash_Async_Process, the head finished: it is popped and the next one, which
\* was never started, gets its first chunk.
ProcessPop ==
  /\ q # <<>> /\ (inflight => complete)
  /\ Counted.done >= Counted.size
  /\ Abandon
  /\ IF Tail(q) = <<>>
       THEN /\ q' = <<>> /\ inflight' = FALSE
            /\ UNCHANGED <<rowBuf, complete, age, macro>>
       ELSE /\ q' = [Tail(q) EXCEPT ![1] = Issued(@)]
            /\ IssueChunk(q[2])
  /\ UNCHANGED <<buf, mem, call, ret>>

-----------------------------------------------------------------------------
(* The callers.  A call that cannot go on pumps Process; every other step of *)
(* the main loop finds no call in progress and may pump it too.              *)
Pump ==
  /\ \/ call.op = "none"
     \/ call.op \in {"erase", "write"} /\ Len(q) >= Depth
     \/ call.op = "write" /\ BufWords - dataAlloc < Segment
     \/ call.op \in {"read", "wait"} /\ q # <<>>
  /\ ProcessTimeout \/ ProcessChunk \/ ProcessPop

\* The application makes a call.  An erase of nothing, or a write of nothing,
\* queues nothing; its synchronous variant still waits.
Call ==
  /\ call = NoCall
  /\ call' \in Requests
  /\ ret' = <<>>
  /\ UNCHANGED <<engineVars, macro, mem>>

\* What follows the queueing: the _Sync variants wait for the whole queue.
AfterQueueing == IF call.sync THEN [op |-> "wait"] ELSE NoCall

\* Mutant: no wait for a free slot.
QueueEraseUnbounded ==
  /\ call.op = "erase"
  /\ q' = Append(q, [type |-> "erase", addr |-> call.addr,
                     size |-> call.size, done |-> 0, chunk |-> 0,
                     off |-> DATA_INVALID, len |-> 0])
  /\ call' = AfterQueueing
  /\ UNCHANGED <<buf, dataStart, dataAlloc, rowBuf, complete, inflight, age,
                 macro, mem, ret>>

QueueErase ==
  /\ call.op = "erase"
  /\ IF call.size = 0
       THEN UNCHANGED q
       ELSE /\ Len(q) < Depth
            /\ q' = Append(q, [type |-> "erase", addr |-> call.addr,
                               size |-> call.size, done |-> 0, chunk |-> 0,
                               off |-> DATA_INVALID, len |-> 0])
  /\ call' = AfterQueueing
  /\ UNCHANGED <<buf, dataStart, dataAlloc, rowBuf, complete, inflight, age,
                 macro, mem, ret>>

\* One segment of a write; the rest of an oversized write stays in the call.
QueueSegment ==
  /\ call.op = "write" /\ call.data # <<>>
  /\ Len(q) < Depth /\ BufWords - dataAlloc >= Segment
  /\ q' = Append(q, [type |-> "write", addr |-> call.addr, size |-> Segment,
                     done |-> 0, chunk |-> 0, off |-> dataAlloc, len |-> Segment])
  /\ buf' = [i \in 0 .. BufWords - 1 |->
               IF i \in dataAlloc .. dataAlloc + Segment - 1
                 THEN call.data[i - dataAlloc + 1] ELSE buf[i]]
  /\ dataAlloc' = dataAlloc + Segment
  /\ call' = [call EXCEPT !.addr = @ + Segment,
                          !.data = SubSeq(@, Segment + 1, Len(@))]
  /\ UNCHANGED <<dataStart, rowBuf, complete, inflight, age, macro, mem, ret>>

WriteQueued ==
  /\ call.op = "write" /\ call.data = <<>>
  /\ call' = AfterQueueing
  /\ UNCHANGED <<engineVars, macro, mem, ret>>

WaitDone ==
  /\ call.op = "wait" /\ q = <<>>
  /\ call' = NoCall
  /\ UNCHANGED <<engineVars, macro, mem, ret>>

(* Flash_Async_Read.  The blank check is told a number of bytes where the    *)
(* SROM expects words, and the address then advances by that number of       *)
(* bytes: window k starts k * SectorWords bytes on and spans WordBytes times *)
(* the bytes it stands for.  A check is refused when the window leaves work  *)
(* flash or the macro is held; then, as when it finds data, it is not blank. *)
BlankWindow(k) ==
  LET left == call.size * WordBytes - k * SectorWords
      from == call.addr + (k * SectorWords) \div WordBytes
      n    == IF left < SectorWords THEN left ELSE SectorWords
  IN  /\ left > 0 /\ macro.st = "idle"
      /\ from >= MainWords /\ from + n <= Words
      /\ \A a \in from .. from + n - 1 : mem[a] = Erased

Read ==
  /\ call.op = "read" /\ q = <<>>
  /\ ret' = IF \E k \in 0 .. call.size * WordBytes : BlankWindow(k)
              THEN [i \in 1 .. call.size |-> Erased]
              ELSE [i \in 1 .. call.size |-> mem[call.addr + i - 1]]
  /\ call' = NoCall
  /\ UNCHANGED <<engineVars, macro, mem>>

Caller == Call \/ QueueErase \/ QueueSegment \/ WriteQueued \/ WaitDone \/ Read
-----------------------------------------------------------------------------
(* The flash macro and its response interrupt.                              *)
Target ==
  CASE macro.op = "erase" -> Sector(macro.at)
    [] macro.op = "row"   -> macro.at .. macro.at + RowWords - 1
    [] macro.op = "word"  -> {macro.at}

\* What the operation makes of the flash.  The SROM reads its source while the
\* operation runs: the source as it is when the operation ends.
Effect ==
  CASE macro.op = "erase" -> EraseCells(mem, Target)
    [] macro.op = "row"   ->
         ProgramCells(mem, [a \in Target |-> rowBuf[a - macro.at]])
    [] macro.op = "word"  -> ProgramCells(mem, [a \in Target |-> buf[macro.src]])

\* The operation succeeds; Flash_Isr accepts the response if an operation of
\* the engine's is in flight.
MacroDone ==
  /\ macro.st = "busy"
  /\ mem' = Effect
  /\ macro' = MacroIdle
  /\ complete' = (complete \/ inflight)
  /\ UNCHANGED <<q, buf, dataStart, dataAlloc, rowBuf, inflight, age, call, ret>>

\* The SROM reports an error: Flash_Isr ignores the response.
MacroFail ==
  /\ Faults /\ macro.st = "busy"
  /\ mem' \in {mem, SpoilCells(mem, Target)}
  /\ macro' = MacroIdle
  /\ UNCHANGED <<engineVars, call, ret>>

\* The operation never answers and keeps the IPC lock.
MacroHang ==
  /\ Faults /\ macro.st = "busy"
  /\ macro' = [macro EXCEPT !.st = "hung"]
  /\ UNCHANGED <<engineVars, mem, call, ret>>

\* The 1 ms tick.  Unless Late, a good operation ends before its timeout.
Tick ==
  /\ inflight /\ ~complete /\ age < Timeout
  /\ macro.st = "busy" /\ ~Late => age + 1 < Timeout
  /\ age' = age + 1
  /\ UNCHANGED <<q, buf, dataStart, dataAlloc, rowBuf, complete, inflight,
                 macro, mem, call, ret>>

\* Power loss or reset: RAM and the calls are gone, Flash_Async_Init follows,
\* and the operation under way may be undone, done or half done.
Reset ==
  /\ q' = <<>> /\ dataStart' = 0 /\ dataAlloc' = 0
  /\ buf' = [i \in 0 .. BufWords - 1 |-> Erased]
  /\ rowBuf' = [i \in 0 .. RowWords - 1 |-> Erased]
  /\ complete' = TRUE /\ inflight' = FALSE /\ age' = 0
  /\ macro' = MacroIdle /\ call' = NoCall /\ ret' = <<>>
  /\ \/ mem' = mem
     \/ macro.st = "busy" /\ mem' \in {Effect, SpoilCells(mem, Target)}

Next ==
  Pump \/ Caller \/ MacroDone \/ MacroFail \/ MacroHang \/ Tick \/ Reset

\* The main loop keeps running, the tick keeps coming, and an operation of the
\* macro ends, fails or hangs; a call, a fault and a reset need never happen.
Fairness ==
  /\ WF_vars(Pump)
  /\ WF_vars(QueueErase \/ QueueSegment \/ WriteQueued \/ WaitDone \/ Read)
  /\ WF_vars(MacroDone \/ MacroFail \/ MacroHang)
  /\ WF_vars(Tick)

Spec == Init /\ [][Next]_vars /\ Fairness

-----------------------------------------------------------------------------
Task ==
  [type : {"erase", "write"}, addr : Nat, size : Nat \ {0}, done : Nat,
   chunk : Nat, off : 0 .. BufWords \cup {DATA_INVALID}, len : 0 .. BufWords]

\* Type invariant: the queue within its depth, offsets within the data buffer.
TypeOK ==
  /\ q \in Seq(Task) /\ Len(q) <= Depth
  /\ buf \in [0 .. BufWords - 1 -> Data \cup {Erased}]
  /\ rowBuf \in [0 .. RowWords - 1 -> Data \cup {Erased}]
  /\ dataStart \in 0 .. BufWords /\ dataAlloc \in 0 .. BufWords
  /\ complete \in BOOLEAN /\ inflight \in BOOLEAN /\ age \in 0 .. Timeout
  /\ macro.st \in {"idle", "busy", "hung"}
  /\ mem \in [Addr -> Cell]

Live == {i \in DOMAIN q : q[i].type = "write"}

\* The live segments, in queue order.
SegmentsInside ==
  \A i \in Live : /\ q[i].len = q[i].size /\ q[i].off >= dataStart
                  /\ q[i].off + q[i].len <= dataAlloc
SegmentsApart ==
  \A i, j \in Live : i < j => q[i].off + q[i].len <= q[j].off
LastSegmentEndsAtAlloc ==
  \A i \in Live : (\A j \in Live : j <= i) => q[i].off + q[i].len = dataAlloc

\* flash_task_abandon's comment: the head's segment is the oldest one, so that
\* releasing it is advancing s_data_start, and no later append moves or
\* overwrites a live segment.  The segments of the queued writes lie apart, in
\* queue order, between s_data_start and s_data_alloc, the last one ends at
\* s_data_alloc, and with no write queued the whole buffer is free again.
SegmentsOK ==
  /\ dataStart <= dataAlloc
  /\ SegmentsInside /\ SegmentsApart /\ LastSegmentEndsAtAlloc
  /\ Live = {} => dataStart = 0 /\ dataAlloc = 0

\* flash_issue_chunk's comment on the source of a program operation: while the
\* macro works on it, neither a later append nor the staging of a later row
\* changes the words the SROM still reads.
SourceIntact ==
  [][macro.st = "busy" /\ macro'.st = "busy" =>
       /\ macro.op = "word" => buf'[macro.src] = buf[macro.src]
       /\ macro.op = "row"  => rowBuf' = rowBuf]_vars

\* Flash_Isr's comment: a late response from a timed-out chunk must not complete
\* a later one.
LateResponseIgnored ==
  [][macro.st = "busy" /\ macro.orphan /\ macro'.st = "idle"
       => ~(complete' /\ ~complete)]_vars

\* Flash_Async_Read's comment: a read must see committed data.  It returns every
\* word the flash holds data in.
ReadSeesCommitted ==
  [][call.op = "read" /\ ret' # ret /\ call' = NoCall
       => \A i \in 1 .. call.size :
            mem[call.addr + i - 1] \in Data => ret'[i] = mem[call.addr + i - 1]]_vars

\* Every call returns, whatever the macro does: a caller pumping for a free
\* slot, for buffer room or for the queue to drain is never stuck.
CallReturns == call # NoCall ~> call = NoCall

\* Without further calls the queue drains.
QueueDrains == (q # <<>> /\ call = NoCall) ~> (q = <<>> \/ call # NoCall)

\* What is left to do of each queued task, with the data its segment holds now.
Pending ==
  [i \in DOMAIN q |->
     [type |-> q[i].type, addr |-> q[i].addr, size |-> q[i].size,
      done |-> q[i].done + (IF i = 1 /\ inflight /\ complete
                              THEN q[i].chunk ELSE 0),
      data |-> IF q[i].type = "write"
                 THEN [k \in 1 .. q[i].size |-> buf[q[i].off + k - 1]]
                 ELSE <<>>]]

\* The macro cannot finish the chunk in flight: it failed on it or is held.
Sick ==
  macro.st = "hung" \/ (inflight /\ ~complete /\ macro.st = "idle")

Store == INSTANCE FlashStore WITH pending <- Pending, sick <- Sick

\* The engine does what FlashStore promises: in order, once each, with the data
\* of the submission, dropping only what the macro failed on.
StoreSpec == Store!Spec
=============================================================================
