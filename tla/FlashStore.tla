----------------------------- MODULE FlashStore -----------------------------
(***************************************************************************)
(* What the flash request engine promises its callers.  Requests are       *)
(* carried out one chunk at a time, in the order they were submitted, each *)
(* chunk at most once, with the data of the submission; a request is given up only *)
(* when the flash macro failed on it; a power loss forgets the requests    *)
(* and can hurt only the sector or row the head's next chunk is for.                   *)
(***************************************************************************)
EXTENDS FlashMacro, SequencesExt

CONSTANT Depth   \* requests the queue holds

VARIABLES mem,      \* the flash
          pending,  \* submitted requests, oldest first
          sick      \* the macro failed on the request at the head

vars == <<mem, pending, sick>>

Init == mem = [a \in Addr |-> Erased] /\ pending = <<>> /\ sick = FALSE

\* Words the next chunk of the head request touches, and what it makes of them.
HeadCells ==
  LET t == Head(pending)
  IN  IF t.type = "erase" THEN Sector(t.addr + t.done)
      ELSE (t.addr + t.done) .. (t.addr + t.done + ChunkOf(t) - 1)

HeadApplied ==
  LET t == Head(pending)
  IN  IF t.type = "erase" THEN EraseCells(mem, HeadCells)
      ELSE ProgramCells(mem, [a \in HeadCells |-> t.data[a - t.addr + 1]])

Unfinished == pending # <<>> /\ Head(pending).done < Head(pending).size

\* What the next chunk can hurt when it is not carried through.
HeadExposed ==
  LET t == Head(pending)
  IN  IF t.type = "erase" THEN HeadCells ELSE Row(t.addr + t.done)

\* A request not begun: an erase, or a write with its data. The engine takes any
\* address; an erase or a program beyond the flash changes nothing.
Fresh(t) ==
  /\ t.addr \in Nat /\ t.size \in Nat \ {0} /\ t.done = 0
  /\ \/ t.type = "erase" /\ t.data = <<>>
     \/ t.type = "write" /\ t.data \in Seq(Data) /\ Len(t.data) = t.size

Submit ==
  /\ Len(pending) < Depth
  /\ Len(pending') > 0 /\ Front(pending') = pending /\ Fresh(Last(pending'))
  /\ UNCHANGED <<mem, sick>>

Apply ==
  /\ Unfinished /\ ~sick
  /\ mem' = HeadApplied
  /\ pending' = [pending EXCEPT ![1].done = @ + ChunkOf(Head(pending))]
  /\ UNCHANGED sick

Fail ==
  /\ Unfinished /\ ~sick
  /\ sick' = TRUE
  /\ mem' \in {mem, SpoilCells(mem, HeadExposed)}
  /\ UNCHANGED pending

Retire ==
  /\ pending # <<>> /\ ~Unfinished
  /\ pending' = Tail(pending)
  /\ UNCHANGED <<mem, sick>>

Drop ==
  /\ pending # <<>> /\ sick
  /\ pending' = Tail(pending)
  /\ sick' \in BOOLEAN
  /\ UNCHANGED mem

Crash ==
  /\ pending' = <<>> /\ sick' = FALSE
  /\ \/ mem' = mem
     \/ Unfinished /\ mem' \in {SpoilCells(mem, HeadExposed), HeadApplied}

Work == Apply \/ Fail \/ Retire \/ Drop
Next == Submit \/ Work \/ Crash

Spec == Init /\ [][Next]_vars
=============================================================================
