------------------------------ MODULE DtcStore ------------------------------
(***************************************************************************)
(* The trouble-code memory of the CM0+ application (can_dtc.c, dtc_user.c) *)
(* on top of the EEPROM emulation of EepromCtrl.  can_dtc_process and      *)
(* eeprom_app_process are tasks of the same period in one main loop and    *)
(* take turns.  What the rest of the loop and the services give the codes  *)
(* (faults, the setting of service 85, clearings by service 14) is read by *)
(* can_dtc_process alone and appears there.  The flash works in between,   *)
(* and the supply may fail at any point.                                   *)
(*                                                                         *)
(* Of a code's status the model keeps testFailed, pending and confirmed:   *)
(* they alone decide what the next start-up takes for confirmed.  The      *)
(* build confirms at the first occurrence and never ends an operation      *)
(* cycle, so ageing does not run; the local snapshot is never stored,      *)
(* g_dtc_nvm_store having no writer.                                       *)
(***************************************************************************)
EXTENDS EepromCtrl

CONSTANTS Dtcs,     \* eDTC_TYP: the codes, numbered from 0
          Active,   \* the codes that may ever be recorded
          Failing,  \* those whose fault may come up
          Earlier,  \* the sets of codes an earlier run may have stored
          WrWait,   \* calls between two stores, 50
          ClrWait,  \* DTC_FAULT_CLR_LAST_TIME
          MaxCuts,  \* bound: supply failures of a behaviour
          MaxEvents \* bound: faults, settings and clearings that come up

StatusCell(s) == [tag |-> "status", codes |-> s]
SnapCell(t)   == [tag |-> t, codes |-> {}]
ZeroCell      == SnapCell("zero")
ErasedCell    == SnapCell("erased")
JunkCell      == SnapCell("junk")
Contents      == {StatusCell(s) : s \in SUBSET Active} \cup {SnapCell(t) : t \in {"zero", "clear", "taken"}}

ASSUME DtcAssumption ==
  /\ Dtcs = 0 .. Cardinality(Dtcs) - 1 /\ Active \subseteq Dtcs /\ Failing \subseteq Active /\ Earlier \subseteq SUBSET Active
  /\ {WrWait, ClrWait, MaxCuts, MaxEvents} \subseteq Nat
  /\ Zero = ZeroCell /\ Erased = ErasedCell /\ Junk = JunkCell /\ Data = Contents
  /\ Items = {"status", "snapshot"} /\ ItemLen["status"] = 1
  /\ ItemLen["snapshot"] = Cardinality(Dtcs)
  \* An item and its retries are over before the next may be stored.
  /\ \A i \in Items : CallsFor(i) <= WrWait

VARIABLES
  sts,      \* s_dtc_sts: the flags set for each code
  appear,   \* s_dtc_appear_this_oc_sts
  occ,      \* s_dtc_ext_fault_occ_flg
  clrCnt,   \* s_dtc_fault_clr_cnt
  snap,     \* g_dtc_snapshot
  wrFlg,    \* wr_flg of dtc_data_store_to_nvm with s_dtc_wr_flg merged into it
  wait,     \* s_dtc_wr_wait_cnt
  started,  \* s_dtc_operation_cycle_sts: the first call has been made
  turn,     \* the task of the two that runs next
  seen,     \* the codes whose fault functions report a fault
  on,       \* service 85: the setting is on
  events,   \* changes of these and clearings so far
  cuts,     \* supply failures so far
  last,     \* history: what was last accepted for each item
  kept      \* history: the codes the flash must know

dtcVars == <<sts, appear, occ, clrCnt, snap, wrFlg, wait, started>>
envVars == <<seen, on, events, cuts>>
vars == <<eeVars, dtcVars, turn, envVars, last, kept>>

Status == mem[ItemAddr["status"]]
Stored == IF Status.tag = "status" THEN Status.codes ELSE {}
Recorded == {d \in Dtcs : sts[d] # {}}

\* can_dtc_init: the occurrence flags start set.
Every(v) == [d \in Dtcs |-> v]
DtcInit ==
  /\ sts = Every({}) /\ appear = Every("no") /\ occ = Every(TRUE)
  /\ clrCnt = Every(ClrWait) /\ snap = Every(Zero) /\ wrFlg = {} /\ wait = WrWait
  /\ started = FALSE /\ turn = "ee"
DtcRestart ==
  /\ sts' = Every({}) /\ appear' = Every("no") /\ occ' = Every(TRUE)
  /\ clrCnt' = Every(ClrWait) /\ snap' = Every(Zero) /\ wrFlg' = {} /\ wait' = WrWait
  /\ started' = FALSE /\ turn' = "ee"
\* The codes an earlier run of the program left in the flash.
Init ==
  /\ EeInit /\ DtcInit
  /\ kept \in Earlier
  /\ mem = [k \in 0 .. Cells - 1 |->
             IF k = ItemAddr["status"] /\ kept # {} THEN StatusCell(kept) ELSE Erased]
  /\ seen = {} /\ on = TRUE /\ events = 0 /\ cuts = 0 /\ fails = 0
  /\ last = [i \in Items |-> <<>>]
-----------------------------------------------------------------------------
\* One code in dtc_fault_once_handle, up to the clearing: s is its status, a its
\* appearance, o its occurrence flag; seen says what the fault function returned.
Evaluated(d) == on' /\ (clrCnt[d] >= ClrWait \/ clrCnt[d] + 1 >= ClrWait)
Fault(s, a, o, failing) ==
  IF ~failing THEN [s |-> s \ {"failed"}, a |-> a, o |-> FALSE]
  ELSE IF o THEN [s |-> s \cup {"failed"}, a |-> a, o |-> TRUE]
  ELSE [s |-> s \cup {"failed", "pending"}, o |-> TRUE,
        a |-> IF a = "no" /\ "confirmed" \notin s THEN "first" ELSE "last"]

\* Clearing a code resets the appearance of all of them, also of those handled
\* before it in the loop.
Forgotten(d, clr) == \E c \in clr : c < d
Undone(d, clr) == \E c \in clr : c >= d

Handled(s, clr) ==
  [d \in Dtcs |->
     LET a == IF Forgotten(d, clr) THEN "no" ELSE appear[d]
         r == IF Evaluated(d) THEN Fault(s[d], a, occ[d], d \in seen')
              ELSE [s |-> s[d], a |-> a, o |-> occ[d]]
     IN  [s |-> IF d \in clr THEN {} ELSE r.s,
          a |-> IF Undone(d, clr) THEN "no" ELSE r.a,
          o |-> IF d \in clr THEN FALSE ELSE r.o]]

\* dtc_data_read_from_nvm, in the first call only: what was stored counts as
\* confirmed.  An undefined cell reads as anything.
ReadStatusAsFailed ==
  IF started THEN {sts}
  ELSE { [d \in Dtcs |-> IF d \in codes THEN {"failed"} ELSE {}] :
           codes \in IF Status = JunkCell THEN SUBSET Active ELSE {Stored} }
ReadStatus ==
  IF started THEN {sts}
  ELSE { [d \in Dtcs |-> IF d \in codes THEN {"confirmed"} ELSE {}] :
           codes \in IF Status = JunkCell THEN SUBSET Active ELSE {Stored} }
ReadSnap(d) == IF started THEN snap[d] ELSE mem[ItemAddr["snapshot"] + d]

\* dtc_data_store_to_nvm: one item a call, the status first.
Ready(i) == err[i] \in {"none", "success", "ovf"}
StatusNow == <<StatusCell({d \in Active : sts'[d] # {}})>>
SnapNow == [k \in 1 .. ItemLen["snapshot"] |-> snap'[k - 1]]
StoreItemAtOnce(i, data, f) ==
  IF Ready(i)
    THEN /\ WriteBuf(i, data)
         /\ last' = IF err'[i] = "ovf" THEN last ELSE [last EXCEPT ![i] = data]
         /\ wrFlg' = f \ {i} /\ wait' = 0
    ELSE wrFlg' = f /\ wait' = 0 /\ UNCHANGED <<rb, wr, err, last>>
StoreItem(i, data, f) ==
  IF Ready(i)
    THEN /\ WriteBuf(i, data)
         /\ last' = IF err'[i] = "ovf" THEN last ELSE [last EXCEPT ![i] = data]
         /\ wrFlg' = f \ {i} /\ wait' = WrWait - 1
    ELSE wrFlg' = f /\ wait' = 0 /\ UNCHANGED <<rb, wr, err, last>>
StoreForgetful(f) ==
  \/ /\ wait > 0
     /\ wrFlg' = {} /\ wait' = wait - 1 /\ UNCHANGED <<rb, wr, err, last>>
  \/ /\ wait = 0 /\ "status" \in f
     /\ StoreItem("status", StatusNow, f)
  \/ /\ wait = 0 /\ "status" \notin f /\ "snapshot" \in f /\ "none" \notin f
     /\ StoreItem("snapshot", SnapNow, f)
  \/ /\ wait = 0 /\ "status" \notin f /\ ("none" \in f \/ "snapshot" \notin f)
     /\ wrFlg' = f \ {"none"} /\ UNCHANGED <<wait, rb, wr, err, last>>
Store(f) ==
  \/ /\ wait > 0
     /\ wrFlg' = f /\ wait' = wait - 1 /\ UNCHANGED <<rb, wr, err, last>>
  \/ /\ wait = 0 /\ "status" \in f
     /\ StoreItem("status", StatusNow, f)
  \/ /\ wait = 0 /\ "status" \notin f /\ "snapshot" \in f /\ "none" \notin f
     /\ StoreItem("snapshot", SnapNow, f)
  \/ /\ wait = 0 /\ "status" \notin f /\ ("none" \in f \/ "snapshot" \notin f)
     /\ wrFlg' = f \ {"none"} /\ UNCHANGED <<wait, rb, wr, err, last>>

\* What came up since the last call: a fault came or went, the setting was
\* switched, or codes are to be cleared; one of these at a time.
Inputs(clr) ==
  LET quiet == seen' = seen /\ on' = on
  IN  \/ clr = {} /\ quiet /\ events' = events
      \/ /\ events < MaxEvents /\ events' = events + 1
         /\ \/ clr # {} /\ quiet
            \/ clr = {} /\ on' = ~on /\ seen' = seen
            \/ /\ clr = {} /\ on' = on
               /\ \E d \in Failing : seen' = IF d \in seen THEN seen \ {d} ELSE seen \cup {d}

\* can_dtc_process
DtcProcess(clr) ==
  /\ turn = "dtc" /\ turn' = "ee"
  /\ started \/ pend = <<>>
  /\ Inputs(clr)
  /\ \E s \in ReadStatus : \E h \in {Handled(s, clr)} :
       /\ sts' = [d \in Dtcs |-> h[d].s]
       /\ appear' = [d \in Dtcs |-> h[d].a]
       /\ occ' = [d \in Dtcs |-> h[d].o]
  /\ snap' = [d \in Dtcs |-> IF d \in clr THEN SnapCell("clear") ELSE ReadSnap(d)]
  /\ clrCnt' = [d \in Dtcs |-> IF d \in clr THEN 0 ELSE Least(clrCnt[d] + 1, ClrWait)]
  /\ started' = TRUE
  /\ Store(IF clr = {} THEN wrFlg ELSE {"status", "none", "snapshot", "local"})
  /\ kept' = kept \ clr
  /\ UNCHANGED <<ctrl, cur, temp, mem, pend, fails, cuts>>

\* dtc_user_process: the snapshots due are taken, if the fault is still there.
\* What it changes only can_dtc_process looks at, so it runs just before that.
DtcUser ==
  LET due(a) == {d \in Dtcs : appear[d] = a /\ "failed" \in sts[d]}
  IN  /\ turn = "dtc" /\ due("first") \cup due("last") # {}
      /\ snap' = [d \in Dtcs |-> IF d \in due("first") THEN SnapCell("taken") ELSE snap[d]]
      /\ appear' = [d \in Dtcs |-> IF d \in due("first") \cup due("last") THEN "over" ELSE appear[d]]
      /\ wrFlg' = wrFlg \cup {"status"}
                  \cup (IF due("first") # {} THEN {"snapshot"} ELSE {})
                  \cup (IF due("last") # {} THEN {"local"} ELSE {})
      /\ UNCHANGED <<eeVars, sts, occ, clrCnt, wait, started, turn, envVars, last, kept>>

\* eeprom_app_process.  A status that was read back is known to the flash.
OnStatus == pend # <<>> /\ ItemAddr["status"] \in DOMAIN Head(pend).val
Lasting(s) == {d \in s : sts[d] \cap {"pending", "confirmed"} # {}}
EeTask ==
  /\ turn = "ee" /\ turn' = "dtc" /\ EeProcess
  /\ kept' = IF ctrl = "wr" /\ ctrl' = "idle" /\ cur = "status" /\ err'["status"] = "success"
               THEN kept \cup Lasting(temp[0].codes) ELSE kept
  /\ UNCHANGED <<dtcVars, envVars, last>>

FlashTask ==
  \/ FlashDone /\ UNCHANGED <<dtcVars, turn, envVars, last, kept>>
  \/ FlashFail /\ kept' = (IF OnStatus THEN {} ELSE kept)
               /\ UNCHANGED <<dtcVars, turn, envVars, last>>

\* The supply fails: the RAM is lost, and what the flash was working on.
PowerCut ==
  /\ cuts < MaxCuts /\ cuts' = cuts + 1
  /\ \E m \in {mem} \cup Halves : mem' = m
  /\ EeRestart /\ DtcRestart
  /\ kept' = (IF OnStatus THEN {} ELSE kept)
  /\ on' = TRUE /\ last' = [i \in Items |-> <<>>]
  /\ UNCHANGED <<seen, events, fails>>

Dtc == \E clr \in {{}, Active} \cup {{d} : d \in Active} : DtcProcess(clr)
Next == Dtc \/ DtcUser \/ EeTask \/ FlashTask \/ PowerCut

Fairness == WF_vars(Dtc) /\ WF_vars(EeTask) /\ WF_vars(FlashTask)
Spec == Init /\ [][Next]_vars /\ Fairness
-----------------------------------------------------------------------------
TypeOK ==
  /\ rb \in Seq({Header(i) : i \in Items} \cup Content) /\ Len(rb) <= BufCells
  /\ ctrl \in {"idle", "wr"} /\ cur \in Items
  /\ wr \in [sts : {"idle", "start", "proceed", "chk"}, cnt : 0 .. WrCntNum,
             quotient : Nat, remainder : 0 .. PageCells - 1, page : Nat]
  /\ temp \in [0 .. TempCells - 1 -> Content]
  /\ err \in [Items -> {"none", "process", "success", "ovf", "otr"}]
  /\ mem \in [0 .. Cells - 1 -> Content]
  /\ sts \in [Dtcs -> SUBSET {"failed", "pending", "confirmed"}]
  /\ appear \in [Dtcs -> {"no", "first", "last", "over"}]
  /\ occ \in [Dtcs -> BOOLEAN] /\ clrCnt \in [Dtcs -> 0 .. ClrWait]
  /\ snap \in [Dtcs -> Content] /\ wrFlg \subseteq {"status", "none", "snapshot", "local"}
  /\ wait \in 0 .. WrWait /\ started \in BOOLEAN /\ turn \in {"dtc", "ee"}

\* Whatever the writer, its retries and the overlong pages of short items do, they
\* stay inside the area of the item being written, and read inside its buffer.
StaysInArea ==
  \A n \in DOMAIN pend :
    DOMAIN pend[n].val \subseteq ItemAddr[cur] .. ItemAddr[cur] + ItemArea[cur] - 1

\* The room check forgets the header; that no frame is ever cut short rests on
\* the pause between two stores.
FramesWhole ==
  /\ \A i \in Items : err[i] # "ovf"
  /\ (rb # <<>> /\ ~(ctrl = "wr" /\ wr.sts = "idle")) =>
       \E i \in Items : Head(rb) = Header(i) /\ Len(rb) = 1 + ItemLen[i]

\* An item reported as written, and not given again since, is in the flash as it
\* was given.
At(i) == [k \in 1 .. ItemLen[i] |-> mem[ItemAddr[i] + k - 1]]
SuccessIsStored == \A i \in Items : err[i] = "success" => At(i) = last[i]

\* A lasting fault, once stored, is in the flash through every later store, start
\* and loss of supply until it is cleared, unless its sector was being rewritten
\* when a request failed or the supply did.
Remembered ==
  /\ OnStatus \/ Len(pend) = 2 \/ kept \subseteq Stored
  /\ started => kept = Lasting(kept)

\* What the RAM says of a code when a store of the status is due reaches the flash,
\* or the RAM changes, or the item is given up.
Reaches(d, b) ==
  (started /\ "status" \in wrFlg /\ (d \in Recorded) = b)
    ~> ((d \in Stored) = b \/ (d \in Recorded) # b \/ err["status"] = "otr")
StatusStored == \A d \in Active : Reaches(d, TRUE) /\ Reaches(d, FALSE)

\* "this operation cycle appear the DTC": only its own clearing makes a code that
\* appeared in this cycle look as if it had not.
AppearKept ==
  [][\A d \in Active : appear[d] # "no" /\ appear'[d] = "no"
                         => sts'[d] = {}]_vars

\* "DTC status bit0 0->1 trigger failure occurrence count": a fault that begins is
\* an occurrence, whatever the code's history.
OccurrenceCounted ==
  [][\A d \in Active : "failed" \in sts'[d] \ sts[d] => appear'[d] \in {"first", "last"}]_vars

\* An item that failed once is written again until it is right.
RetriesSucceed == \A i \in Items : err[i] = "otr" ~> err[i] # "otr"
=============================================================================
