---------------------------- MODULE MCFlashAsync ----------------------------
(***************************************************************************)
(* A small instance of FlashAsync.  Main flash is words 0..3, two rows of  *)
(* one sector each; work flash is words 4..7, two sectors.  The data of    *)
(* every request are distinct, so that a word in the wrong place shows.    *)
(***************************************************************************)
EXTENDS FlashAsync

MCData == 1 .. 6

\* A work-flash write larger than the data buffer, a main-flash write that
\* straddles two rows, a synchronous erase of both work-flash sectors and a
\* read: enough to fill the queue and the data buffer.
MCRequests ==
  { [op |-> "write", addr |-> 4, data |-> <<1, 2, 3, 4>>, sync |-> FALSE],
    [op |-> "write", addr |-> 1, data |-> <<5, 6>>, sync |-> FALSE],
    [op |-> "erase", addr |-> 4, size |-> 4, sync |-> TRUE],
    [op |-> "read", addr |-> 4, size |-> 3] }
=============================================================================
