----------------------------- MODULE FlashMacro -----------------------------
(***************************************************************************)
(* The flash memory the request engine drives, as the engine sees it: an   *)
(* array of 32-bit words, the lower MainWords of which are main (code)     *)
(* flash and the rest work flash.  The SROM firmware that erases and       *)
(* programs it is not part of the repository's own code; what is below is  *)
(* what m0_flash_async.c relies on.  Sizes are in words: the engine rounds *)
(* every segment up to a whole word.                                       *)
(***************************************************************************)
EXTENDS Integers, Sequences, FiniteSets

CONSTANTS Words,       \* words of flash, main and work together
          MainWords,   \* words of main flash
          RowWords,    \* words of a main-flash program row
          SectorWords, \* words of an erase sector
          Data,        \* what a programmed word can hold
          Erased,      \* a word that was erased and not programmed since
          Junk         \* a word an interrupted operation left undefined

ASSUME GeometryAssumption ==
  /\ Words \in Nat /\ MainWords \in 0 .. Words
  /\ RowWords \in Nat \ {0} /\ SectorWords \in Nat \ {0}
  /\ Erased \notin Data /\ Junk \notin Data /\ Erased # Junk

Addr == 0 .. (Words - 1)
Cell == Data \cup {Erased, Junk}

IsMain(a) == a < MainWords

\* The erase sector a word lies in.
Sector(a) == {b \in Addr : b \div SectorWords = a \div SectorWords}

\* The words one program operation at a covers, and those of them from a on.
Row(a) == IF IsMain(a) THEN {b \in Addr : b \div RowWords = a \div RowWords}
                       ELSE {a}
RowRest(a) == RowWords - (a % RowWords)

\* Words one operation of a task handles: a sector, the rest of a main row, or
\* one work-flash word.
ChunkOf(t) ==
  LET cur    == t.addr + t.done
      remain == t.size - t.done
  IN  IF t.type = "erase" THEN SectorWords
      ELSE IF ~IsMain(cur) THEN 1
      ELSE IF remain < RowRest(cur) THEN remain ELSE RowRest(cur)

\* A word holds what is programmed into it only if it was erased before.
Programmed(old, v) == IF old = Erased THEN v ELSE Junk

EraseCells(m, cells) == [a \in Addr |-> IF a \in cells THEN Erased ELSE m[a]]
SpoilCells(m, cells) == [a \in Addr |-> IF a \in cells THEN Junk ELSE m[a]]

\* Programming the words val, a function on addresses; 0xFF (Erased) programs
\* nothing.
ProgramCells(m, val) ==
  [a \in Addr |-> IF a \in DOMAIN val /\ val[a] # Erased
                    THEN Programmed(m[a], val[a]) ELSE m[a]]
=============================================================================
