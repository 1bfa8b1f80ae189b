----------------------------- MODULE EepromCtrl -----------------------------
(***************************************************************************)
(* The EEPROM emulation of the CM0+ application: the ring buffer of write  *)
(* requests, the page-by-page writer of eeprom_ctrl.c with its check and   *)
(* retries, the per-item error of eeprom_app.c, and eeprom_driver.c, which *)
(* turns every page into a read, an erase and a write of whole sectors of  *)
(* the work flash.  The flash requests are queued and carried out later;   *)
(* a driver call first waits for the queue to run empty.                   *)
(*                                                                         *)
(* Sizes are in cells: a cell is the largest unit that the sizes of        *)
(* headers, items, pages and sectors have in common in the instance.  The  *)
(* 6 ms page timer is always up by the next 10 ms call and never in the    *)
(* call that set it, so it does not appear.                                *)
(***************************************************************************)
EXTENDS Integers, Sequences, FiniteSets

CONSTANTS Items,       \* the items with a place of their own
          FirstItem,   \* the one numbered 0, which cur starts as
          ItemAddr,    \* where each begins
          ItemLen,     \* its length
          ItemArea,    \* cells from its beginning that no other item uses
          Cells,       \* cells of the work flash
          SectorCells, \* CY_WORK_SES_SIZE_IN_BYTE
          PageCells,   \* EE_WR_PAGE_BYTE_SIZE
          BufCells,    \* EE_WR_BUF_NUM
          TempCells,   \* EE_WR_ITEM_BUF_SIZE
          WrCntNum,    \* EE_WR_CNT_NUM
          Data,        \* what a cell may be written with
          Zero,        \* the content of RAM at start-up
          Erased,      \* a cell after an erase
          Junk,        \* a cell an interrupted operation left undefined
          MaxFails     \* bound: flash requests that fail

ASSUME GeometryAssumption ==
  /\ {Cells, SectorCells, PageCells, BufCells, TempCells, WrCntNum} \subseteq Nat \ {0}
  /\ Cells % SectorCells = 0
  /\ ItemAddr \in [Items -> 0 .. Cells - 1]
  /\ FirstItem \in Items
  /\ {ItemLen, ItemArea} \subseteq [Items -> 1 .. Cells]
  /\ MaxFails \in Nat

Least(a, b) == IF a < b THEN a ELSE b

\* The whole pages of an item, of which one is always written, and the calls that
\* writing it takes with all retries: taking it, a call for each page, two for each
\* check, and one to give it up; a retry writes one page.
FullPages(i) == IF ItemLen[i] < PageCells THEN 1 ELSE ItemLen[i] \div PageCells
CallsFor(i) == FullPages(i) + 3 * WrCntNum + 3

\* Items are placed in whole sectors, one behind the other, with room for the pages of
\* the retries, which each go one further.
ASSUME FitAssumption ==
  /\ PageCells <= SectorCells
  /\ \A i \in Items :
       /\ ItemAddr[i] % SectorCells = 0 /\ ItemArea[i] % SectorCells = 0
       /\ ItemAddr[i] + ItemArea[i] <= Cells
       /\ (FullPages(i) + WrCntNum) * PageCells <= Least(ItemArea[i], TempCells)
       /\ 1 + ItemLen[i] <= BufCells
  /\ \A i, j \in Items :
       i = j \/ ItemAddr[i] + ItemArea[i] <= ItemAddr[j]
             \/ ItemAddr[j] + ItemArea[j] <= ItemAddr[i]

ASSUME ContentAssumption == Zero \in Data /\ {Erased, Junk} \cap Data = {}

VARIABLES
  rb,    \* s_eeprom_rb: headers and data in the order they were put
  ctrl,  \* s_eeprom_ctrl_sts; EE_CTRL_RD_PROCEED lasts only inside a call
  wr,    \* s_ee_wr_info: wr_sts, wr_cnt, quotient, remainder, page
  cur,   \* s_cur_item_info, the item being written
  temp,  \* s_ee_wr_temp_buf
  err,   \* s_ee_wr_err
  mem,   \* the work flash
  pend,  \* flash requests queued and not yet done
  fails  \* requests that have failed

eeVars == <<rb, ctrl, wr, cur, temp, err, mem, pend, fails>>

Header(i) == [hdr |-> i]
Content == Data \cup {Erased, Junk}

\* eeprom_ctrl_init and eeprom_app_init, at the first start and at a later one.
WrAtStart == [sts |-> "idle", cnt |-> WrCntNum, quotient |-> 0, remainder |-> 0, page |-> 0]
TempAtStart == [k \in 0 .. TempCells - 1 |-> Zero]
ErrAtStart == [i \in Items |-> "none"]
EeInit ==
  /\ rb = <<>> /\ ctrl = "idle" /\ wr = WrAtStart /\ cur = FirstItem
  /\ temp = TempAtStart /\ err = ErrAtStart /\ pend = <<>>
EeRestart ==
  /\ rb' = <<>> /\ ctrl' = "idle" /\ wr' = WrAtStart /\ cur' = FirstItem
  /\ temp' = TempAtStart /\ err' = ErrAtStart /\ pend' = <<>>
-----------------------------------------------------------------------------
\* The ring buffer: a put takes what fits, a get what is there.
Remain(r) == BufCells - Len(r)
Put(r, s) == r \o SubSeq(s, 1, Least(Len(s), Remain(r)))
Drop(r, n) == SubSeq(r, Least(Len(r), n) + 1, Len(r))

\* What a get of n cells leaves in the buffer t.
Into(t, r, n) == [k \in DOMAIN t |-> IF k < Least(Len(r), n) THEN r[k + 1] ELSE t[k]]
-----------------------------------------------------------------------------
\* The driver: the sectors a write touches are read, merged, erased and
\* written back whole, as two queued requests.
Base(a) == a - (a % SectorCells)
Span(a, n) == IF (a % SectorCells) + n > SectorCells THEN 2 * SectorCells ELSE SectorCells
Merged(a, n, from) ==
  [k \in Base(a) .. Base(a) + Span(a, n) - 1 |->
     IF k \in a .. a + n - 1 THEN temp[from + k - a] ELSE mem[k]]

DrvWrite(a, n, from) ==
  /\ pend = <<>>
  /\ pend' = << [op |-> "erase", val |-> Merged(a, n, from)],
                [op |-> "write", val |-> Merged(a, n, from)] >>

\* Programming a cell that was not erased spoils it; 0xFF programs nothing.
Program(old, new) == IF new = Erased THEN old ELSE IF old = Erased THEN new ELSE Junk
After(t, k) ==
  IF t.op = "erase" THEN Erased ELSE Program(mem[k], t.val[k])

\* What is left when a request ends early: an erased sector is undefined; of a
\* write the cells before "at" are done and the one it was at is undefined.
Cut(t, at) ==
  [k \in DOMAIN mem |->
     IF k \notin DOMAIN t.val THEN mem[k]
     ELSE IF t.op = "erase" THEN Junk
     ELSE IF k < at THEN After(t, k) ELSE IF k = at THEN Junk ELSE mem[k]]

\* What a request half done may leave of the flash.
Halves == IF pend = <<>> THEN {} ELSE {Cut(Head(pend), at) : at \in DOMAIN Head(pend).val}

FlashDone ==
  /\ pend # <<>>
  /\ mem' = [k \in DOMAIN mem |->
               IF k \in DOMAIN Head(pend).val THEN After(Head(pend), k) ELSE mem[k]]
  /\ pend' = Tail(pend)
  /\ UNCHANGED <<rb, ctrl, wr, cur, temp, err, fails>>

FlashFail ==
  /\ pend # <<>> /\ fails < MaxFails /\ fails' = fails + 1
  /\ \/ mem' = mem
     \/ mem' \in Halves
  /\ pend' = Tail(pend)
  /\ UNCHANGED <<rb, ctrl, wr, cur, temp, err>>

-----------------------------------------------------------------------------
\* eeprom_ctrl_write_buf: refused while the item is being written or in error;
\* the room is compared with the data alone.  The refusals leave wr alone.
WriteBuf(i, data) ==
  \/ /\ err[i] \in {"process", "busy", "otr"}
     /\ UNCHANGED <<rb, wr, err>>
  \/ /\ err[i] \notin {"process", "busy", "otr"} /\ Remain(rb) < ItemLen[i]
     /\ err' = [err EXCEPT ![i] = "ovf"]
     /\ UNCHANGED <<rb, wr>>
  \/ /\ err[i] \notin {"process", "busy", "otr"} /\ Remain(rb) >= ItemLen[i]
     /\ err' = [err EXCEPT ![i] = "process"]
     /\ rb' = Put(Put(rb, <<Header(i)>>), data)
     /\ wr' = [wr EXCEPT !.cnt = WrCntNum]

\* eeprom_ctrl_write_process picks the next header (by way of temp, whose first
\* bytes the item's data overwrite in the next call).
TakeItem ==
  /\ ctrl = "idle" /\ Len(rb) > 1
  /\ cur' = Head(rb).hdr
  /\ rb' = Tail(rb)
  /\ ctrl' = "wr"
  /\ UNCHANGED <<wr, temp, err, mem, pend, fails>>

\* eeprom_item_write_idle
WriteIdle ==
  /\ ctrl = "wr" /\ wr.sts = "idle"
  /\ temp' = Into(temp, rb, ItemLen[cur])
  /\ rb' = Drop(rb, ItemLen[cur])
  /\ wr' = [wr EXCEPT !.sts = "start", !.page = 0,
              !.quotient = ItemLen[cur] \div PageCells,
              !.remainder = ItemLen[cur] % PageCells]
  /\ UNCHANGED <<ctrl, cur, err, mem, pend, fails>>

\* eeprom_item_write_start: one page a call; the first is always a whole page,
\* and a page not below the quotient is the remainder, whichever page it is.
PageNow(n) == DrvWrite(ItemAddr[cur] + wr.page * PageCells, n, wr.page * PageCells)
WriteStartUncounted ==
  /\ ctrl = "wr" /\ wr.sts = "start"
  /\ \/ /\ wr.page = 0
        /\ PageNow(PageCells)
        /\ wr' = [wr EXCEPT !.page = 1]
     \/ /\ wr.page > 0 /\ wr.page < wr.quotient
        /\ PageNow(PageCells)
        /\ wr' = [wr EXCEPT !.page = @ + 1,
                    !.sts = IF wr.remainder = 0 THEN "proceed" ELSE @]
     \/ /\ wr.page > 0 /\ wr.page >= wr.quotient
        /\ PageNow(wr.remainder)
        /\ wr' = [wr EXCEPT !.page = @ + 1, !.sts = "proceed"]
  /\ UNCHANGED <<rb, ctrl, cur, temp, err, mem, fails>>
WriteStart ==
  /\ ctrl = "wr" /\ wr.sts = "start"
  /\ \/ /\ wr.cnt = 0
        /\ ctrl' = "idle" /\ wr' = [wr EXCEPT !.sts = "idle"]
        /\ UNCHANGED pend
     \/ /\ wr.cnt > 0 /\ wr.page = 0
        /\ PageNow(PageCells)
        /\ wr' = [wr EXCEPT !.page = 1]
        /\ UNCHANGED ctrl
     \/ /\ wr.cnt > 0 /\ wr.page > 0 /\ wr.page < wr.quotient
        /\ PageNow(PageCells)
        /\ wr' = [wr EXCEPT !.page = @ + 1,
                    !.sts = IF wr.remainder = 0 THEN "proceed" ELSE @]
        /\ UNCHANGED ctrl
     \/ /\ wr.cnt > 0 /\ wr.page > 0 /\ wr.page >= wr.quotient
        /\ PageNow(wr.remainder)
        /\ wr' = [wr EXCEPT !.page = @ + 1, !.sts = "proceed"]
        /\ UNCHANGED ctrl
  /\ UNCHANGED <<rb, cur, temp, err, mem, fails>>

\* eeprom_item_write_proceed: the driver always reports success.
WriteProceed ==
  /\ ctrl = "wr" /\ wr.sts = "proceed"
  /\ wr' = [wr EXCEPT !.sts = "chk"]
  /\ err' = [err EXCEPT ![cur] = "none"]
  /\ UNCHANGED <<rb, ctrl, cur, temp, mem, pend, fails>>

\* eeprom_item_write_chk: reading waits for the queue, too.
ReadsBackLess ==
  \A k \in 0 .. ItemLen[cur] - 2 : mem[ItemAddr[cur] + k] = temp[k]
ReadsBack ==
  \A k \in 0 .. ItemLen[cur] - 1 : mem[ItemAddr[cur] + k] = temp[k]
WriteChkForEver ==
  /\ ctrl = "wr" /\ wr.sts = "chk" /\ pend = <<>>
  /\ \/ /\ ReadsBack
        /\ ctrl' = "idle" /\ wr' = [wr EXCEPT !.sts = "idle"]
        /\ err' = [err EXCEPT ![cur] = "success"]
     \/ /\ ~ReadsBack
        /\ wr' = [wr EXCEPT !.sts = "start"]
        /\ err' = [err EXCEPT ![cur] = "otr"]
        /\ UNCHANGED ctrl
  /\ UNCHANGED <<rb, cur, temp, mem, pend, fails>>
WriteChk ==
  /\ ctrl = "wr" /\ wr.sts = "chk" /\ pend = <<>>
  /\ \/ /\ ReadsBack
        /\ ctrl' = "idle" /\ wr' = [wr EXCEPT !.sts = "idle"]
        /\ err' = [err EXCEPT ![cur] = "success"]
     \/ /\ ~ReadsBack
        /\ wr' = [wr EXCEPT !.sts = "start", !.cnt = @ - 1]
        /\ err' = [err EXCEPT ![cur] = "otr"]
        /\ UNCHANGED ctrl
  /\ UNCHANGED <<rb, cur, temp, mem, pend, fails>>

\* One call of eeprom_app_process; with nothing to write it returns at once.
EeProcess ==
  \/ TakeItem \/ WriteIdle \/ WriteStart \/ WriteProceed \/ WriteChk
  \/ ctrl = "idle" /\ Len(rb) <= 1 /\ UNCHANGED eeVars
=============================================================================
