--------------------------- MODULE DtcStoreProofs ---------------------------
(***************************************************************************)
(* The trouble-code memory for every geometry, number of codes, failures   *)
(* and supply losses: writes stay in the area of their item, frames are    *)
(* whole, what is reported as written is in the flash, and a lasting fault *)
(* that was stored is not forgotten.                                       *)
(*                                                                         *)
(* The invariant follows one item on its way, in phases: given, taken,     *)
(* loaded and written, checked.  Each knows how far the pages have come    *)
(* (with the retries they never pass the area) and how many calls of the   *)
(* EEPROM task are left before the next item may be given (Room), so that  *)
(* when the pause is over the writer rests and the ring buffer is empty.   *)
(* KeptOK relates the codes that the flash must know to the status cell,   *)
(* to what is queued for it and to what was last given.                    *)
(***************************************************************************)
EXTENDS DtcStore, TLAPS, SequenceTheorems

-----------------------------------------------------------------------------
(* The parts of the invariant.                                               *)
Statuses == {StatusCell(s) : s \in SUBSET Active}
Area(i) == ItemAddr[i] .. ItemAddr[i] + ItemArea[i] - 1
Codes(c) == IF c.tag = "status" THEN c.codes ELSE {}
StatusAt == ItemAddr["status"]
WrSts == {"idle", "start", "proceed", "chk"}
ErrSts == {"none", "process", "success", "otr"}

\* What is kept in the variables.
Types ==
  /\ ctrl \in {"idle", "wr"} /\ cur \in Items
  /\ wr \in [sts : {"idle", "start", "proceed", "chk"}, cnt : Nat, quotient : Nat,
             remainder : Nat, page : Nat]
  /\ temp \in [0 .. TempCells - 1 -> Content]
  /\ err \in [Items -> {"none", "process", "success", "otr"}]
  /\ mem \in [0 .. Cells - 1 -> Content]
  /\ snap \in [Dtcs -> Content]
  /\ wait \in Nat /\ wait <= WrWait /\ started \in BOOLEAN /\ turn \in {"dtc", "ee"}
  /\ last \in [Items -> Seq(Content)]
  /\ \A i \in Items : last[i] = <<>> \/ Len(last[i]) = ItemLen[i]

\* There is time for n calls before the next item may be given.
CallsLeft == wait + (IF turn = "ee" THEN 1 ELSE 0)
Room(n) == n <= CallsLeft

\* The phases of an item: none is under way, or it is in the ring buffer with its header,
\* or without it, or in temp while its pages are sent, are written, and are read back.
Resting == ctrl = "idle" /\ wr.sts = "idle" /\ rb = <<>>
Given(i) ==
  /\ ctrl = "idle" /\ wr.sts = "idle" /\ wr.cnt = WrCntNum
  /\ last[i] # <<>> /\ rb = <<Header(i)>> \o last[i]
  /\ err[i] = "process" /\ Room(CallsFor(i))
Taken ==
  /\ ctrl = "wr" /\ wr.sts = "idle" /\ wr.cnt = WrCntNum
  /\ last[cur] # <<>> /\ rb = last[cur]
  /\ err[cur] = "process" /\ Room(CallsFor(cur) - 1)
Loaded ==
  /\ ctrl = "wr" /\ rb = <<>>
  /\ last[cur] # <<>> /\ \A k \in 0 .. ItemLen[cur] - 1 : temp[k] = last[cur][k + 1]
  /\ err[cur] # "success"
  /\ wr.quotient = ItemLen[cur] \div PageCells /\ wr.remainder = ItemLen[cur] % PageCells
\* The pages written before a check: to the last whole one, or with no remainder two.
AtEnd == wr.page >= 1 /\ (wr.remainder = 0 \/ wr.page >= FullPages(cur))
Writing ==
  /\ Loaded /\ wr.sts = "start"
  /\ \/ wr.cnt = WrCntNum /\ wr.page <= FullPages(cur)
        /\ Room(FullPages(cur) + 1 - wr.page + 3 * WrCntNum)
     \/ wr.cnt < WrCntNum /\ wr.page <= FullPages(cur) + WrCntNum - wr.cnt /\ AtEnd
        /\ pend = <<>> /\ Room(1 + 3 * wr.cnt)
Written ==
  /\ Loaded /\ wr.sts = "proceed" /\ wr.cnt \in 1 .. WrCntNum
  /\ wr.page <= FullPages(cur) + WrCntNum + 1 - wr.cnt /\ AtEnd
  /\ Room(3 * wr.cnt)
Checking ==
  /\ Loaded /\ wr.sts = "chk" /\ wr.cnt \in 1 .. WrCntNum
  /\ wr.page <= FullPages(cur) + WrCntNum + 1 - wr.cnt /\ AtEnd
  /\ Room(3 * wr.cnt - 1)

Phase == Resting \/ (\E i \in Items : Given(i)) \/ Taken \/ Writing \/ Written \/ Checking

\* The requests under way are those of one call of the driver.
Val == Head(pend).val
Erase(v) == [op |-> "erase", val |-> v]
Write(v) == [op |-> "write", val |-> v]
Requests ==
  pend # <<>> =>
    /\ ctrl = "wr" /\ wr.sts # "idle"
    /\ DOMAIN Val \subseteq Area(cur) /\ Val \in [DOMAIN Val -> Content]
    /\ pend = <<Write(Val)>> \/ pend = <<Erase(Val), Write(Val)>>

\* The codes that the flash must know are lasting faults, were part of the last status
\* given, and are in the status cell, or in the image queued for it while it is erased.
KeptOK ==
  /\ kept \subseteq Active
  /\ started => \A d \in kept : sts[d] \cap {"pending", "confirmed"} # {}
  /\ last["status"] # <<>> =>
       last["status"][1] \in Statuses /\ kept \subseteq last["status"][1].codes
  /\ kept \subseteq Stored \/ (OnStatus /\ Len(pend) = 1)
  /\ OnStatus => /\ kept \subseteq Codes(Val[StatusAt])
                 /\ Len(pend) = 1 => kept = {} \/ mem[StatusAt] = Erased
-----------------------------------------------------------------------------
(* Places and pages.                                                         *)
\* The sizes of the instance.
LEMMA Sizes ==
  /\ Cells \in Nat \ {0} /\ SectorCells \in Nat \ {0} /\ PageCells \in Nat \ {0}
  /\ BufCells \in Nat \ {0} /\ TempCells \in Nat \ {0} /\ WrCntNum \in Nat \ {0}
  /\ PageCells <= SectorCells /\ WrWait \in Nat
  BY GeometryAssumption, FitAssumption, DtcAssumption

\* What the assumptions say of an item's place, length and pages.
LEMMA Places ==
  ASSUME NEW i \in Items
  PROVE  /\ ItemAddr[i] \in Nat /\ ItemLen[i] \in Nat \ {0} /\ ItemArea[i] \in Nat \ {0}
         /\ ItemAddr[i] + ItemArea[i] <= Cells /\ 1 + ItemLen[i] <= BufCells
         /\ ItemAddr[i] % SectorCells = 0 /\ ItemArea[i] % SectorCells = 0
         /\ (FullPages(i) + WrCntNum) * PageCells <= Least(ItemArea[i], TempCells)
         /\ CallsFor(i) <= WrWait
<1>1. ItemAddr[i] \in Nat /\ ItemLen[i] \in Nat \ {0} /\ ItemArea[i] \in Nat \ {0}
  BY GeometryAssumption
<1>2. /\ ItemAddr[i] + ItemArea[i] <= Cells /\ 1 + ItemLen[i] <= BufCells
      /\ ItemAddr[i] % SectorCells = 0 /\ ItemArea[i] % SectorCells = 0
      /\ (FullPages(i) + WrCntNum) * PageCells <= Least(ItemArea[i], TempCells)
  BY FitAssumption
<1>3. CallsFor(i) <= WrWait
  BY DtcAssumption
<1> QED
  BY <1>1, <1>2, <1>3

\* The pages of an item, the first whole and the last perhaps a remainder.
LEMMA PagesOf ==
  ASSUME NEW i \in Items
  PROVE  /\ FullPages(i) \in Nat \ {0}
         /\ ItemLen[i] \div PageCells \in Nat /\ ItemLen[i] \div PageCells <= FullPages(i)
         /\ ItemLen[i] % PageCells \in 0 .. PageCells - 1
         /\ ItemLen[i] <= FullPages(i) * PageCells + PageCells
         /\ FullPages(i) = 1 \/ FullPages(i) = ItemLen[i] \div PageCells
<1> DEFINE l == ItemLen[i]
           q == l \div PageCells
           r == l % PageCells
<1>1. l \in Nat /\ l # 0 /\ PageCells \in Nat /\ PageCells > 0
  BY Places, Sizes
<1> HIDE DEF l
<1>2. q \in Nat /\ r \in 0 .. PageCells - 1
  BY <1>1
<1>3. l = PageCells * q + r
  BY <1>1
<1>4. l >= PageCells => q # 0
  BY <1>1, <1>2, <1>3
<1>5. FullPages(i) = IF l < PageCells THEN 1 ELSE q
  BY DEF FullPages, l
<1> HIDE DEF q, r
<1>6. CASE l < PageCells
  <2>1. q = 0
    <3>1. q >= 1 => PageCells * q >= PageCells
      BY <1>1, <1>2
    <3> QED
      BY <1>1, <1>2, <1>3, <1>6, <3>1
  <2>2. FullPages(i) = 1
    BY <1>5, <1>6
  <2>3. l <= 1 * PageCells + PageCells
    BY <1>1, <1>6
  <2> QED
    BY <1>2, <2>1, <2>2, <2>3 DEF l, q, r
<1>7. CASE ~(l < PageCells)
  <2>1. FullPages(i) = q
    BY <1>5, <1>7
  <2>2. PageCells * q = q * PageCells /\ q * PageCells \in Nat
    BY <1>1, <1>2
  <2>3. l <= q * PageCells + PageCells
    BY <1>1, <1>2, <1>3, <2>2
  <2>4. q # 0
    BY <1>1, <1>4, <1>7
  <2> QED
    BY <1>2, <2>1, <2>3, <2>4 DEF l, q, r
<1> QED
  BY <1>6, <1>7

\* Every page that is ever written fits the area and the buffer.
LEMMA PageFits ==
  ASSUME NEW i \in Items, NEW p \in Nat, p + 1 <= FullPages(i) + WrCntNum
  PROVE  /\ p * PageCells \in Nat
         /\ p * PageCells + PageCells <= ItemArea[i] /\ p * PageCells + PageCells <= TempCells
<1> DEFINE f == FullPages(i)
           m == (f + WrCntNum) * PageCells
           r == f + WrCntNum - (p + 1)
<1>1. f \in Nat /\ WrCntNum \in Nat /\ PageCells \in Nat /\ ItemArea[i] \in Nat /\ TempCells \in Nat
  BY Sizes, PagesOf, Places
<1>2. m <= Least(ItemArea[i], TempCells)
  BY Places
<1> HIDE DEF f
<1>3. r \in Nat /\ f + WrCntNum = (p + 1) + r
  BY <1>1 DEF f
<1> HIDE DEF r
<1>4. m = ((p + 1) + r) * PageCells
  BY <1>3
<1>5. m = p * PageCells + PageCells + r * PageCells
  BY <1>1, <1>3, <1>4
<1>6. p * PageCells \in Nat /\ r * PageCells \in Nat
  BY <1>1, <1>3
<1> HIDE DEF m
<1>7. m <= ItemArea[i] /\ m <= TempCells
  BY <1>1, <1>2, <1>5, <1>6 DEF Least
<1> QED
  BY <1>1, <1>5, <1>6, <1>7

\* The whole sectors a write inside the area touches lie in the area.
LEMMA SectorsIn ==
  ASSUME NEW i \in Items, NEW x \in Nat, NEW n \in Nat, n <= PageCells,
         x + PageCells <= ItemArea[i]
  PROVE  LET a == ItemAddr[i] + x
         IN /\ Base(a) \in Nat /\ Span(a, n) \in Nat /\ Base(a) <= a
            /\ a + n <= Base(a) + Span(a, n)
            /\ Base(a) .. Base(a) + Span(a, n) - 1 \subseteq Area(i)
<1> DEFINE a == ItemAddr[i] + x
           s == SectorCells
           d == ItemAddr[i]
           e == d + ItemArea[i]
           u == d \div s
           v == e \div s
           k == a \div s
           o == a % s
<1>1. s \in Nat /\ s > 0 /\ d \in Nat /\ ItemArea[i] \in Nat /\ PageCells \in Nat \ {0}
      /\ PageCells <= s /\ d % s = 0 /\ ItemArea[i] % s = 0
  BY Sizes, Places
<1>2. a \in Nat /\ e \in Nat /\ d <= a /\ a + n <= e /\ a < e
  <2> DEFINE b == ItemArea[i]
             pc == PageCells
  <2>1. d \in Nat /\ b \in Nat /\ pc \in Nat /\ pc # 0 /\ x \in Nat /\ n \in Nat
        /\ n <= pc /\ x + pc <= b /\ a = d + x /\ e = d + b
    BY <1>1
  <2> HIDE DEF a, e, d, b, pc
  <2> QED
    BY <2>1
<1> HIDE DEF s, d, a
<1>3. u \in Nat /\ d = s * u
  BY <1>1
<1> HIDE DEF u
<1>4. v \in Nat /\ e = s * v
  <2> DEFINE b == ItemArea[i]
             w == b \div s
  <2>1. b \in Nat /\ b % s = 0
    BY <1>1
  <2>2b. e = d + b
    OBVIOUS
  <2> HIDE DEF b
  <2>2a. w \in Nat /\ b = s * w
    BY <1>1, <2>1
  <2> HIDE DEF w
  <2>2. e = s * (u + w)
    BY <1>1, <1>3, <2>2a, <2>2b
  <2>3. u + w \in Nat
    BY <1>3, <2>2a
  <2>4. e \div s = u + w
    BY <1>1, <2>2, <2>3
  <2> QED
    BY <2>2, <2>3, <2>4
<1>5. k \in Nat /\ o \in 0 .. s - 1 /\ a = s * k + o
  BY <1>1, <1>2
<1> HIDE DEF e, u, v, k, o
<1>6. u <= k
  <2> SUFFICES ASSUME k + 1 <= u
               PROVE  FALSE
    BY <1>3, <1>5
  <2>1. s * (k + 1) <= s * u
    BY <1>1, <1>3, <1>5
  <2>2. s * (k + 1) = s * k + s
    BY <1>1, <1>5
  <2> QED
    BY <1>1, <1>2, <1>3, <1>5, <2>1, <2>2
<1>7. s * u <= s * k
  BY <1>1, <1>3, <1>5, <1>6
<1>8. k + 1 <= v
  <2> SUFFICES ASSUME v <= k
               PROVE  FALSE
    BY <1>4, <1>5
  <2>1. s * v <= s * k
    BY <1>1, <1>4, <1>5
  <2> QED
    BY <1>1, <1>2, <1>4, <1>5, <2>1
<1>9. s * (k + 1) <= s * v /\ s * (k + 1) = s * k + s
  BY <1>1, <1>4, <1>5, <1>8
<1>10. Base(a) = s * k /\ s * k \in Nat
  BY <1>1, <1>5 DEF Base, s, o
<1>11. Span(a, n) = IF o + n > s THEN 2 * s ELSE s
  BY DEF Span, s, o
<1>12. CASE ~(o + n > s)
  <2>1. Span(a, n) = s
    BY <1>11, <1>12
  <2>2. /\ s * k <= a /\ a + n <= s * k + s
        /\ d <= s * k /\ s * k + s <= e
    BY <1>1, <1>3, <1>4, <1>5, <1>7, <1>9, <1>10, <1>12
  <2>3. s * k .. s * k + s - 1 \subseteq d .. e - 1
    BY <1>1, <1>2, <1>10, <2>2
  <2> QED
    BY <1>1, <1>10, <2>1, <2>2, <2>3 DEF Area, d, e, a
<1>13. CASE o + n > s
  <2>1. Span(a, n) = 2 * s
    BY <1>11, <1>13
  <2>2. k + 2 <= v
    <3> SUFFICES ASSUME v <= k + 1
                 PROVE  FALSE
      BY <1>4, <1>5
    <3>1. s * v <= s * (k + 1)
      BY <1>1, <1>4, <1>5
    <3> QED
      BY <1>1, <1>2, <1>4, <1>5, <1>9, <1>10, <1>13, <3>1
  <2>3. s * (k + 2) <= s * v /\ s * (k + 2) = s * k + s + s
    BY <1>1, <1>4, <1>5, <2>2
  <2>4. /\ s * k <= a /\ a + n <= s * k + (s + s)
        /\ d <= s * k /\ s * k + (s + s) <= e
    BY <1>1, <1>2, <1>3, <1>4, <1>5, <1>7, <1>10, <2>3
  <2>5. s * k .. s * k + (s + s) - 1 \subseteq d .. e - 1
    BY <1>1, <1>2, <1>10, <2>4
  <2>6. 2 * s = s + s /\ s + s \in Nat
    BY <1>1
  <2> QED
    BY <1>1, <1>10, <2>1, <2>4, <2>5, <2>6 DEF Area, d, e, a
<1> QED
  BY <1>12, <1>13

\* The areas of two items have no cell in common.
LEMMA AreasDisjoint ==
  ASSUME NEW i \in Items, NEW j \in Items, i # j, NEW x \in Area(i)
  PROVE  x \notin Area(j)
<1>1. \/ ItemAddr[i] + ItemArea[i] <= ItemAddr[j]
      \/ ItemAddr[j] + ItemArea[j] <= ItemAddr[i]
  BY FitAssumption
<1> DEFINE a == ItemAddr[i]
           b == ItemAddr[j]
           m == ItemArea[i]
           n == ItemArea[j]
<1>2. a \in Nat /\ b \in Nat /\ m \in Nat /\ n \in Nat
  BY Places
<1>3. a + m <= b \/ b + n <= a
  BY <1>1
<1>4. Area(i) = a .. a + m - 1 /\ Area(j) = b .. b + n - 1
  BY DEF Area
<1> HIDE DEF a, b, m, n
<1> QED
  BY <1>2, <1>3, <1>4

\* Every cell of an item is in its area, and the area in the flash.
LEMMA ItemInArea ==
  ASSUME NEW i \in Items
  PROVE  /\ Area(i) \subseteq 0 .. Cells - 1
         /\ ItemLen[i] <= ItemArea[i] /\ ItemLen[i] <= TempCells
         /\ \A k \in 0 .. ItemLen[i] - 1 : ItemAddr[i] + k \in Area(i)
<1> DEFINE a == ItemAddr[i]
           m == ItemArea[i]
           l == ItemLen[i]
           p == FullPages(i)
           pp == p * PageCells
<1>1. a \in Nat /\ m \in Nat /\ l \in Nat /\ a + m <= Cells /\ Cells \in Nat
  BY Places, Sizes
<1>2. p \in Nat /\ p + 1 <= p + WrCntNum
  BY PagesOf, Sizes
<1>3. pp \in Nat /\ pp + PageCells <= m /\ pp + PageCells <= TempCells
  BY <1>2, PageFits
<1>4. l <= pp + PageCells
  BY PagesOf
<1>5. PageCells \in Nat /\ TempCells \in Nat
  BY Sizes
<1>6. Area(i) = a .. a + m - 1
  BY DEF Area
<1> HIDE DEF a, m, l, p, pp
<1>7. l <= m /\ l <= TempCells
  BY <1>1, <1>3, <1>4, <1>5
<1>8. Area(i) \subseteq 0 .. Cells - 1
  BY <1>1, <1>6
<1>9. \A k \in 0 .. l - 1 : a + k \in Area(i)
  BY <1>1, <1>6, <1>7
<1> QED
  BY <1>7, <1>8, <1>9 DEF a, m, l

\* The status is the first cell of its item.
LEMMA StatusPlace ==
  /\ "status" \in Items /\ "snapshot" \in Items
  /\ StatusAt \in Area("status") /\ StatusAt \in 0 .. Cells - 1
<1>1. "status" \in Items /\ "snapshot" \in Items /\ ItemLen["status"] = 1
  BY DtcAssumption
<1>2. ItemAddr["status"] + 0 \in Area("status")
  BY <1>1, ItemInArea
<1>3. ItemAddr["status"] \in Nat
  BY <1>1, Places
<1>4. StatusAt \in Area("status")
  BY <1>2, <1>3 DEF StatusAt
<1> QED
  BY <1>1, <1>4, ItemInArea
-----------------------------------------------------------------------------
(* Cells and frames.                                                         *)
\* What a cell may hold; only a status has codes.
LEMMA Cells1 ==
  /\ Contents \subseteq Content /\ Erased \in Content /\ Junk \in Content /\ Zero \in Content
  /\ Statuses \subseteq Content
  /\ SnapCell("clear") \in Content /\ SnapCell("taken") \in Content
  /\ Codes(Erased) = {} /\ Codes(Junk) = {} /\ Junk = JunkCell
  /\ Erased \notin Statuses
  /\ \A s : StatusCell(s).tag = "status" /\ StatusCell(s).codes = s
<1>1. Data = Contents /\ Zero = ZeroCell /\ Erased = ErasedCell /\ Junk = JunkCell
  BY DtcAssumption
<1>2. Contents \subseteq Content /\ Erased \in Content /\ Junk \in Content
  BY <1>1 DEF Content
<1>3. Statuses \subseteq Contents /\ SnapCell("clear") \in Contents
      /\ SnapCell("taken") \in Contents /\ ZeroCell \in Contents
  BY DEF Statuses, Contents, ZeroCell
<1>4. Codes(Erased) = {} /\ Codes(Junk) = {}
  BY <1>1 DEF Codes, ErasedCell, JunkCell, SnapCell
<1>5. \A s : StatusCell(s).tag = "status" /\ StatusCell(s).codes = s
  BY DEF StatusCell
<1>6. Erased \notin Statuses
  <2>1. Erased.tag = "erased"
    BY <1>1 DEF ErasedCell, SnapCell
  <2> QED
    BY <1>5, <2>1 DEF Statuses
<1> QED
  BY <1>1, <1>2, <1>3, <1>4, <1>5, <1>6

\* Programming leaves a cell with some content.
LEMMA ProgramInContent ==
  ASSUME NEW old \in Content, NEW new \in Content
  PROVE  Program(old, new) \in Content
  BY Cells1 DEF Program

\* An erased cell takes what it is programmed with.
LEMMA ProgramErased ==
  ASSUME NEW new
  PROVE  Program(Erased, new) = new
  BY DEF Program

\* The first frame put into an empty buffer is whole.
LEMMA PutWhole ==
  ASSUME NEW i \in Items, NEW S, NEW s \in Seq(S), Len(s) = ItemLen[i]
  PROVE  Put(Put(<<>>, <<Header(i)>>), s) = <<Header(i)>> \o s
<1> DEFINE h == <<Header(i)>>
           l == Len(s)
<1>1. l \in Nat /\ l <= BufCells - 1 /\ BufCells \in Nat /\ BufCells >= 1
  <2>1. ItemLen[i] \in Nat /\ 1 + ItemLen[i] <= BufCells /\ BufCells \in Nat \ {0}
    BY Places, Sizes
  <2> DEFINE m == ItemLen[i]
  <2>2. l = m
    OBVIOUS
  <2> HIDE DEF l, m
  <2>3. m \in Nat /\ 1 + m <= BufCells /\ BufCells \in Nat \ {0}
    BY <2>1 DEF m
  <2> QED
    BY <2>2, <2>3
<1>2. Len(<<>>) = 0 /\ Len(h) = 1 /\ h \in Seq({Header(i)})
  OBVIOUS
<1>3. Remain(<<>>) = BufCells /\ Remain(h) = BufCells - 1
  BY <1>1, <1>2 DEF Remain
<1>4. SubSeq(h, 1, 1) = h
  BY <1>2, SubSeqFull
<1>5. Put(<<>>, h) = h
  <2>1. Least(1, BufCells) = 1
    BY <1>1 DEF Least
  <2>2. Put(<<>>, h) = <<>> \o SubSeq(h, 1, Least(1, Remain(<<>>)))
    BY <1>2 DEF Put
  <2>3. <<>> \o h = h
    OBVIOUS
  <2> HIDE DEF h
  <2> QED
    BY <1>3, <1>4, <2>1, <2>2, <2>3
<1>6. Least(l, Remain(h)) = l
  <2> DEFINE r == Remain(h)
  <2>1. r \in Int /\ l <= r /\ l \in Int
    BY <1>1, <1>3
  <2> HIDE DEF r, l
  <2>2. Least(l, r) = l
    BY <2>1 DEF Least
  <2> QED
    BY <2>2 DEF r
<1>7. SubSeq(s, 1, l) = s
  OBVIOUS
<1>8. Put(h, s) = h \o SubSeq(s, 1, Least(l, Remain(h)))
  BY DEF Put
<1> HIDE DEF l
<1> QED
  BY <1>5, <1>6, <1>7, <1>8

\* A frame is its header and its data.
LEMMA FrameParts ==
  ASSUME NEW i, NEW S, NEW s \in Seq(S)
  PROVE  /\ Head(<<Header(i)>> \o s) = Header(i) /\ Tail(<<Header(i)>> \o s) = s
         /\ Len(<<Header(i)>> \o s) = 1 + Len(s) /\ <<Header(i)>> \o s # <<>>
<1> DEFINE h == Header(i)
           f == <<h>> \o s
           T == S \cup {h}
<1> HIDE DEF h
<1>1. s \in Seq(T) /\ <<h>> \in Seq(T)
  OBVIOUS
<1>2. f \in Seq(T) /\ Len(f) = 1 + Len(s)
  BY <1>1
<1>3. f[1] = h /\ \A k \in 1 .. Len(s) : f[k + 1] = s[k]
  BY <1>1
<1>4. f # <<>>
  BY <1>2
<1>5. Head(f) = h
  BY <1>2, <1>3, <1>4
<1>6. Tail(f) = s
  <2>1. Tail(f) \in Seq(T) /\ Len(Tail(f)) = Len(s)
    BY <1>2, <1>4
  <2>2. \A k \in 1 .. Len(s) : Tail(f)[k] = f[k + 1]
    BY <1>2, <1>4
  <2> QED
    BY <1>1, <1>3, <2>1, <2>2, SeqEqual
<1> QED
  BY <1>2, <1>4, <1>5, <1>6 DEF h

\* A get of all there is empties the buffer.
LEMMA DropAll ==
  ASSUME NEW S, NEW s \in Seq(S)
  PROVE  Drop(s, Len(s)) = <<>>
<1>1. Len(s) \in Nat /\ Least(Len(s), Len(s)) = Len(s)
  BY DEF Least
<1>2. SubSeq(s, Len(s) + 1, Len(s)) = <<>>
  OBVIOUS
<1> QED
  BY <1>1, <1>2 DEF Drop

\* The codes stored are those of the status cell.
LEMMA StoredIs ==
  Stored = Codes(mem[StatusAt])
  BY DEF Stored, Status, Codes, StatusAt

\* What the driver queues for a page that may be written: whole sectors inside the
\* area, with the codes that the flash must know where the status is among them.
LEMMA PageQueued ==
  ASSUME Types, Loaded, KeptOK, pend = <<>>, NEW n \in Nat, n <= PageCells,
         wr.page + 1 <= FullPages(cur) + WrCntNum
  PROVE  LET from == wr.page * PageCells
             v == Merged(ItemAddr[cur] + from, n, from)
         IN  /\ DOMAIN v \subseteq Area(cur) /\ v \in [DOMAIN v -> Content]
             /\ StatusAt \in DOMAIN v => kept \subseteq Codes(v[StatusAt])
<1> DEFINE d == ItemAddr[cur]
           x == wr.page * PageCells
           a == d + x
           v == Merged(a, n, x)
           D == Base(a) .. Base(a) + Span(a, n) - 1
<1>1. cur \in Items /\ wr.page \in Nat
  BY DEF Types
<1>2. x \in Nat /\ x + PageCells <= ItemArea[cur] /\ x + PageCells <= TempCells
  BY <1>1, PageFits
<1>3. d \in Nat /\ PageCells \in Nat /\ TempCells \in Nat
  BY <1>1, Places, Sizes
<1>4. v = [k \in D |-> IF k \in a .. a + n - 1 THEN temp[x + k - a] ELSE mem[k]]
  BY DEF Merged
<1> HIDE DEF x
<1>5. D \subseteq Area(cur)
  BY <1>1, <1>2, SectorsIn
<1>6. Area(cur) \subseteq 0 .. Cells - 1
  BY <1>1, ItemInArea
<1> HIDE DEF d, v, D
<1>7. DOMAIN v = D /\ \A k \in D : v[k] = IF k \in a .. a + n - 1 THEN temp[x + k - a] ELSE mem[k]
  BY <1>4
<1>8. \A k \in a .. a + n - 1 : x + k - a \in 0 .. TempCells - 1
  BY <1>2, <1>3
<1>9. \A k \in D : k \in 0 .. Cells - 1
  BY <1>5, <1>6
<1>10. /\ \A k \in 0 .. TempCells - 1 : temp[k] \in Content
       /\ \A k \in 0 .. Cells - 1 : mem[k] \in Content
  BY DEF Types
<1>11. v \in [D -> Content]
  <2>1. \A k \in D : v[k] \in Content
    <3> HIDE DEF a
    <3> QED
      BY <1>7, <1>8, <1>9, <1>10
  <2> QED
    BY <1>4, <1>7, <2>1
<1>12. ASSUME StatusAt \in D
       PROVE  kept \subseteq Codes(v[StatusAt])
  <2>1. cur = "status"
    BY <1>1, <1>5, <1>12, AreasDisjoint, StatusPlace
  <2>2. d = StatusAt
    BY <2>1 DEF d, StatusAt
  <2>3. CASE StatusAt \in a .. a + n - 1
    <3>1. x + StatusAt - a = 0
      BY <1>2, <1>3, <2>2
    <3>2. v[StatusAt] = temp[0]
      BY <1>7, <1>12, <2>3, <3>1
    <3>3. 0 \in 0 .. ItemLen[cur] - 1 /\ last[cur] # <<>>
      BY <1>1, Places DEF Loaded
    <3>4. temp[0] = last["status"][1]
      BY <2>1, <3>3 DEF Loaded
    <3>5. kept \subseteq last["status"][1].codes /\ last["status"][1] \in Statuses
      BY <2>1, <3>3 DEF KeptOK
    <3>6. Codes(temp[0]) = temp[0].codes
      BY <3>4, <3>5, Cells1 DEF Statuses, Codes
    <3> QED
      BY <3>2, <3>4, <3>5, <3>6
  <2>4. CASE StatusAt \notin a .. a + n - 1
    <3>1. v[StatusAt] = mem[StatusAt]
      <4> HIDE DEF a
      <4> QED
        BY <1>7, <1>12, <2>4
    <3>2. kept \subseteq Stored
      BY DEF KeptOK, OnStatus
    <3> QED
      BY <3>1, <3>2, StoredIs
  <2> QED
    BY <2>3, <2>4
<1> QED
  BY <1>5, <1>7, <1>11, <1>12 DEF v, d, x

\* The inductive invariant.
IInv == Types /\ Phase /\ Requests /\ KeptOK /\ SuccessIsStored
-----------------------------------------------------------------------------
(* The flash.                                                                *)
\* What a queue of one or two requests consists of.
LEMMA QueueParts ==
  ASSUME NEW v
  PROVE  /\ Head(<<Write(v)>>) = Write(v) /\ Tail(<<Write(v)>>) = <<>>
         /\ Len(<<Write(v)>>) = 1 /\ <<Write(v)>> # <<>>
         /\ Head(<<Erase(v), Write(v)>>) = Erase(v)
         /\ Tail(<<Erase(v), Write(v)>>) = <<Write(v)>>
         /\ Len(<<Erase(v), Write(v)>>) = 2 /\ <<Erase(v), Write(v)>> # <<>>
         /\ Write(v).op = "write" /\ Write(v).val = v /\ Erase(v).op = "erase" /\ Erase(v).val = v
<1> DEFINE w == Write(v)
           e == Erase(v)
<1>1. w.op = "write" /\ w.val = v /\ e.op = "erase" /\ e.val = v
  BY DEF Write, Erase
<1> HIDE DEF w, e
<1>2. /\ Head(<<w>>) = w /\ Tail(<<w>>) = <<>> /\ Len(<<w>>) = 1 /\ <<w>> # <<>>
      /\ Head(<<e, w>>) = e /\ Tail(<<e, w>>) = <<w>> /\ Len(<<e, w>>) = 2 /\ <<e, w>> # <<>>
  OBVIOUS
<1> QED
  BY <1>1, <1>2 DEF w, e

\* Requests are queued only for an item that is being written.
LEMMA QueuedLoaded ==
  ASSUME IInv, pend # <<>>
  PROVE  Loaded /\ cur \in Items /\ err[cur] # "success"
  BY DEF IInv, Types, Requests, Phase, Resting, Given, Taken, Writing, Written, Checking, Loaded

\* What is done to the cells of the item being written leaves what was stored of others.
LEMMA ElsewhereStored ==
  ASSUME IInv, pend # <<>>, err' = err, last' = last,
         \A k \in 0 .. Cells - 1 : k \notin DOMAIN Val => mem'[k] = mem[k]
  PROVE  SuccessIsStored'
<1> SUFFICES ASSUME NEW i \in Items, err[i] = "success"
             PROVE  At(i)' = last[i]
  BY DEF SuccessIsStored
<1>1. i # cur /\ cur \in Items
  BY QueuedLoaded
<1>2. \A k \in Area(i) : k \notin DOMAIN Val
  BY <1>1, AreasDisjoint DEF IInv, Requests
<1>3. \A k \in Area(i) : mem'[k] = mem[k]
  BY <1>2, ItemInArea
<1>4. ItemAddr[i] \in Nat /\ ItemLen[i] \in Nat
  BY Places
<1>5. \A k \in 1 .. ItemLen[i] : ItemAddr[i] + k - 1 \in Area(i)
  <2> TAKE k \in 1 .. ItemLen[i]
  <2>1. ItemAddr[i] + (k - 1) \in Area(i)
    BY <1>4, ItemInArea
  <2>2. ItemAddr[i] + (k - 1) = ItemAddr[i] + k - 1
    BY <1>4
  <2> QED
    BY <2>1, <2>2
<1>6. \A k \in 1 .. ItemLen[i] : mem'[ItemAddr[i] + k - 1] = mem[ItemAddr[i] + k - 1]
  BY <1>3, <1>5
<1>7. At(i)' = At(i)
  BY <1>6 DEF At
<1> QED
  BY <1>7 DEF IInv, SuccessIsStored

\* The phase depends on the writer, the frame and the time left.
LEMMA PhaseSame ==
  ASSUME Phase, UNCHANGED <<rb, ctrl, wr, cur, temp, err, last, CallsLeft>>,
         pend = <<>> => pend' = <<>>
  PROVE  Phase'
  BY DEF Phase, Resting, Given, Taken, Loaded, Writing, Written, Checking, AtEnd, Room

\* A request that ends, however it ends, and what the flash must know of it.
LEMMA RequestEnds ==
  ASSUME IInv, pend # <<>>, pend' = Tail(pend), mem' \in [0 .. Cells - 1 -> Content],
         \A k \in 0 .. Cells - 1 : k \notin DOMAIN Val => mem'[k] = mem[k],
         UNCHANGED <<rb, ctrl, wr, cur, temp, err, dtcVars, turn, last>>, KeptOK'
  PROVE  IInv'
<1>1. Types'
  BY DEF IInv, Types, dtcVars
<1>2. Phase'
  BY PhaseSame DEF IInv, dtcVars, CallsLeft
<1>3. Requests'
  <2> DEFINE v == Val
  <2>1. /\ ctrl = "wr" /\ wr.sts # "idle" /\ DOMAIN v \subseteq Area(cur)
        /\ v \in [DOMAIN v -> Content]
        /\ pend = <<Write(v)>> \/ pend = <<Erase(v), Write(v)>>
    BY DEF IInv, Requests
  <2> HIDE DEF v
  <2>2. CASE pend = <<Write(v)>>
    <3>1. pend' = <<>>
      BY <2>2, QueueParts
    <3> QED
      BY <3>1 DEF Requests
  <2>3. CASE pend = <<Erase(v), Write(v)>>
    <3>1. pend' = <<Write(v)>>
      BY <2>3, QueueParts
    <3>2. Val' = v
      <4>1. Val' = Head(pend').val
        BY DEF Val
      <4>2. Head(<<Write(v)>>).val = v
        BY QueueParts
      <4> QED
        BY <3>1, <4>1, <4>2
    <3>3. ctrl' = "wr" /\ wr'.sts # "idle" /\ DOMAIN v \subseteq Area(cur)'
      <4>1. ctrl' = ctrl /\ wr' = wr /\ cur' = cur
        OBVIOUS
      <4>2. Area(cur)' = Area(cur)
        BY <4>1 DEF Area
      <4> QED
        BY <2>1, <4>1, <4>2
    <3>4. pend' = <<Write(Val')>> /\ DOMAIN Val' \subseteq Area(cur)' /\ Val' \in [DOMAIN Val' -> Content]
      BY <2>1, <3>1, <3>2, <3>3
    <3> QED
      BY <3>3, <3>4 DEF Requests
  <2> QED
    BY <2>1, <2>2, <2>3
<1>4. SuccessIsStored'
  BY ElsewhereStored
<1> QED
  BY <1>1, <1>2, <1>3, <1>4 DEF IInv


\* The first three parts of what is known of kept, when nothing is added to it.
LEMMA KeptLess ==
  ASSUME KeptOK, kept' \subseteq kept, UNCHANGED <<sts, started, last>>,
         kept' \subseteq Stored' \/ (OnStatus' /\ Len(pend') = 1),
         OnStatus' => /\ kept' \subseteq Codes(Val'[StatusAt])
                      /\ Len(pend') = 1 => kept' = {} \/ mem'[StatusAt] = Erased
  PROVE  KeptOK'
<1>1. Codes(Val[StatusAt])' = Codes(Val'[StatusAt])
  BY DEF Codes, StatusAt
<1>2. kept' \subseteq Active /\ (started' => \A d \in kept' : sts'[d] \cap {"pending", "confirmed"} # {})
  BY DEF KeptOK
<1>3. last'["status"] # <<>> =>
        last'["status"][1] \in Statuses /\ kept' \subseteq last'["status"][1].codes
  BY DEF KeptOK
<1>4. StatusAt' = StatusAt
  BY DEF StatusAt
<1> QED
  BY <1>1, <1>2, <1>3, <1>4 DEF KeptOK, Statuses

\* The request at the head of the queue, by what it does.
LEMMA HeadRequest ==
  ASSUME IInv, pend # <<>>
  PROVE  /\ DOMAIN Val \subseteq Area(cur) /\ Area(cur) \subseteq 0 .. Cells - 1
         /\ \A k \in DOMAIN Val : Val[k] \in Content /\ k \in 0 .. Cells - 1
         /\ \/ /\ pend = <<Erase(Val), Write(Val)>> /\ Head(pend) = Erase(Val)
               /\ Tail(pend) = <<Write(Val)>> /\ Len(pend) = 2
            \/ /\ pend = <<Write(Val)>> /\ Head(pend) = Write(Val)
               /\ Tail(pend) = <<>> /\ Len(pend) = 1
<1> DEFINE v == Val
<1>1. /\ DOMAIN v \subseteq Area(cur) /\ v \in [DOMAIN v -> Content] /\ cur \in Items
      /\ pend = <<Write(v)>> \/ pend = <<Erase(v), Write(v)>>
  BY DEF IInv, Requests, Types
<1> HIDE DEF v
<1>2. Area(cur) \subseteq 0 .. Cells - 1
  BY <1>1, ItemInArea
<1>3. \/ /\ pend = <<Erase(v), Write(v)>> /\ Head(pend) = Erase(v)
         /\ Tail(pend) = <<Write(v)>> /\ Len(pend) = 2
      \/ /\ pend = <<Write(v)>> /\ Head(pend) = Write(v)
         /\ Tail(pend) = <<>> /\ Len(pend) = 1
  BY <1>1, QueueParts
<1>4. \A k \in DOMAIN v : v[k] \in Content /\ k \in 0 .. Cells - 1
  BY <1>1, <1>2
<1> QED
  BY <1>1, <1>2, <1>3, <1>4 DEF v

\* A request leaves a cell with some content.
LEMMA AfterInContent ==
  ASSUME IInv, pend # <<>>, NEW k \in DOMAIN Val
  PROVE  After(Head(pend), k) \in Content
<1>1. Val[k] \in Content /\ k \in 0 .. Cells - 1
  BY HeadRequest
<1>2. mem[k] \in Content
  BY <1>1 DEF IInv, Types
<1>3. Program(mem[k], Val[k]) \in Content
  BY <1>1, <1>2, ProgramInContent
<1> QED
  BY <1>3, Cells1 DEF After, Val

\* A request that is carried out.
LEMMA FlashDoneOK ==
  ASSUME IInv, FlashDone, UNCHANGED <<dtcVars, turn, envVars, last, kept>>
  PROVE  IInv'
<1>1. pend # <<>> /\ pend' = Tail(pend) /\ UNCHANGED <<rb, ctrl, wr, cur, temp, err>>
  BY DEF FlashDone
<1>2. mem' = [k \in DOMAIN mem |-> IF k \in DOMAIN Val THEN After(Head(pend), k) ELSE mem[k]]
  BY DEF FlashDone, Val
<1>3. DOMAIN mem = 0 .. Cells - 1 /\ \A k \in 0 .. Cells - 1 : mem[k] \in Content
  BY DEF IInv, Types
<1> DEFINE Aft(k) == After(Head(pend), k)
           v == Val
<1>4. \A k \in DOMAIN v : Aft(k) \in Content
  BY <1>1, AfterInContent
<1>5. \A k \in DOMAIN v : Aft(k) = IF Head(pend).op = "erase" THEN Erased ELSE Program(mem[k], v[k])
  BY DEF After, Val
<1> HIDE DEF Aft
<1>6. mem' = [k \in 0 .. Cells - 1 |-> IF k \in DOMAIN v THEN Aft(k) ELSE mem[k]]
  BY <1>2, <1>3 DEF Aft
<1> HIDE DEF v
<1>7. /\ mem' \in [0 .. Cells - 1 -> Content]
      /\ \A k \in 0 .. Cells - 1 : mem'[k] = IF k \in DOMAIN v THEN Aft(k) ELSE mem[k]
  BY <1>3, <1>4, <1>6
<1>8. StatusAt \in 0 .. Cells - 1 /\ StatusAt' = StatusAt
  BY StatusPlace DEF StatusAt
<1>9. Stored = Codes(mem[StatusAt]) /\ Stored' = Codes(mem'[StatusAt])
  BY StoredIs, <1>8 DEF Stored, Status, Codes, StatusAt
<1>10. OnStatus <=> StatusAt \in DOMAIN v
  BY <1>1 DEF OnStatus, StatusAt, v, Val
<1>11. KeptOK
  BY DEF IInv
<1>12. KeptOK'
  <2>1. CASE pend = <<Erase(v), Write(v)>> /\ Head(pend) = Erase(v) /\ Tail(pend) = <<Write(v)>> /\ Len(pend) = 2
    <3>1. pend' = <<Write(v)>> /\ Len(pend') = 1 /\ Head(pend').val = v /\ pend' # <<>>
      BY <1>1, <2>1, QueueParts
    <3>2. Val' = v
      BY <3>1 DEF Val
    <3>3. OnStatus' <=> StatusAt \in DOMAIN v
      BY <3>1 DEF OnStatus, StatusAt
    <3>4. kept \subseteq Stored
      BY <1>11, <2>1 DEF KeptOK
    <3>5. CASE StatusAt \in DOMAIN v
      <4>1. Aft(StatusAt) = Erased
        BY <1>5, <2>1, <3>5, QueueParts
      <4>2. mem'[StatusAt] = Erased
        BY <1>7, <1>8, <3>5, <4>1
      <4>3. kept \subseteq Codes(v[StatusAt])
        BY <1>10, <1>11, <3>5 DEF KeptOK, v
      <4> QED
        BY <1>11, <3>1, <3>2, <3>3, <3>5, <4>2, <4>3, KeptLess DEF dtcVars
    <3>6. CASE StatusAt \notin DOMAIN v
      <4>1. mem'[StatusAt] = mem[StatusAt]
        BY <1>7, <1>8, <3>6
      <4>2. kept' \subseteq Stored'
        BY <1>9, <3>4, <4>1
      <4> QED
        BY <1>11, <3>3, <3>6, <4>2, KeptLess DEF dtcVars
    <3> QED
      BY <3>5, <3>6
  <2>2. CASE pend = <<Write(v)>> /\ Head(pend) = Write(v) /\ Tail(pend) = <<>> /\ Len(pend) = 1
    <3>1. pend' = <<>>
      BY <1>1, <2>2
    <3>2. ~OnStatus'
      BY <3>1 DEF OnStatus
    <3>3. kept \subseteq Stored'
      <4>1. CASE StatusAt \in DOMAIN v
        <5>1. kept \subseteq Codes(v[StatusAt]) /\ (kept = {} \/ mem[StatusAt] = Erased)
          BY <1>10, <1>11, <2>2, <4>1 DEF KeptOK, v
        <5>2. Aft(StatusAt) = Program(mem[StatusAt], v[StatusAt])
          BY <1>5, <2>2, <4>1, QueueParts
        <5>3. mem[StatusAt] = Erased => mem'[StatusAt] = v[StatusAt]
          BY <1>7, <1>8, <4>1, <5>2, ProgramErased
        <5> QED
          BY <1>9, <5>1, <5>3
      <4>2. CASE StatusAt \notin DOMAIN v
        <5>1. mem'[StatusAt] = mem[StatusAt]
          BY <1>7, <1>8, <4>2
        <5>2. kept \subseteq Stored
          BY <1>10, <1>11, <4>2 DEF KeptOK
        <5> QED
          BY <1>9, <5>1, <5>2
      <4> QED
        BY <4>1, <4>2
    <3> QED
      BY <1>11, <3>2, <3>3, KeptLess DEF dtcVars
  <2> QED
    BY <1>1, <2>1, <2>2, HeadRequest DEF v
<1> QED
  BY <1>1, <1>7, <1>12, RequestEnds DEF v


\* What a request half done may leave: other cells are as they were.
LEMMA HalfDone ==
  ASSUME IInv, NEW m \in {mem} \cup Halves
  PROVE  /\ m \in [0 .. Cells - 1 -> Content]
         /\ pend = <<>> => m = mem
         /\ pend # <<>> => \A k \in 0 .. Cells - 1 : k \notin DOMAIN Val => m[k] = mem[k]
<1>1. mem \in [0 .. Cells - 1 -> Content]
  BY DEF IInv, Types
<1>2. CASE m = mem
  BY <1>1, <1>2
<1>3. CASE m # mem
  <2>1. pend # <<>> /\ \E at : m = Cut(Head(pend), at)
    BY <1>3 DEF Halves
  <2>2. PICK at : m = Cut(Head(pend), at)
    BY <2>1
  <2> DEFINE C(k) == IF Head(pend).op = "erase" THEN Junk
                     ELSE IF k < at THEN After(Head(pend), k) ELSE IF k = at THEN Junk ELSE mem[k]
             D == DOMAIN Val
  <2>3. m = [k \in 0 .. Cells - 1 |-> IF k \notin D THEN mem[k] ELSE C(k)]
    BY <1>1, <2>2 DEF Cut, Val
  <2>4. \A k \in D : C(k) \in Content
    <3> TAKE k \in D
    <3>1. After(Head(pend), k) \in Content /\ mem[k] \in Content
      BY <1>1, <2>1, AfterInContent, HeadRequest
    <3> QED
      BY <3>1, Cells1
  <2> HIDE DEF C, D
  <2>5. \A k \in 0 .. Cells - 1 : m[k] \in Content /\ (k \notin D => m[k] = mem[k])
    BY <1>1, <2>3, <2>4
  <2> QED
    BY <2>1, <2>3, <2>5 DEF D
<1> QED
  BY <1>2, <1>3

\* What the flash knows of the status stays known where the head of the queue does
\* not touch it.
LEMMA HalfStored ==
  ASSUME IInv, NEW m \in {mem} \cup Halves, ~OnStatus
  PROVE  kept \subseteq Codes(m[StatusAt]) /\ kept \subseteq Stored
<1>1. m[StatusAt] = mem[StatusAt]
  BY HalfDone, StatusPlace DEF OnStatus, StatusAt, Val
<1>2. kept \subseteq Stored
  BY DEF IInv, KeptOK
<1> QED
  BY <1>1, <1>2, StoredIs

\* A request that fails.
LEMMA FlashFailOK ==
  ASSUME IInv, FlashFail, kept' = (IF OnStatus THEN {} ELSE kept),
         UNCHANGED <<dtcVars, turn, envVars, last>>
  PROVE  IInv'
<1>1. pend # <<>> /\ pend' = Tail(pend) /\ mem' \in {mem} \cup Halves
      /\ UNCHANGED <<rb, ctrl, wr, cur, temp, err>>
  BY DEF FlashFail
<1>2. /\ mem' \in [0 .. Cells - 1 -> Content]
      /\ \A k \in 0 .. Cells - 1 : k \notin DOMAIN Val => mem'[k] = mem[k]
  BY <1>1, HalfDone
<1>3. KeptOK
  BY DEF IInv
<1>4. KeptOK'
  <2>1. CASE OnStatus
    BY <1>3, <2>1, KeptLess DEF dtcVars
  <2>2. CASE ~OnStatus
    <3> DEFINE v == Val
    <3>1. StatusAt \notin DOMAIN v
      BY <1>1, <2>2 DEF OnStatus, StatusAt, Val
    <3>2. pend' = <<>> \/ pend' = <<Write(v)>>
      BY <1>1, HeadRequest
    <3> HIDE DEF v
    <3>3. ~OnStatus'
      BY <3>1, <3>2, QueueParts DEF OnStatus, StatusAt
    <3>4. kept \subseteq Codes(mem'[StatusAt])
      BY <1>1, <2>2, HalfStored
    <3>5. Stored' = Codes(mem'[StatusAt])
      BY DEF Stored, Status, Codes, StatusAt
    <3> QED
      BY <1>3, <2>2, <3>3, <3>4, <3>5, KeptLess DEF dtcVars
  <2> QED
    BY <2>1, <2>2
<1> QED
  BY <1>1, <1>2, <1>4, RequestEnds

\* After a start the writer rests and nothing was given yet.
LEMMA AtStart ==
  /\ WrAtStart \in [sts : {"idle", "start", "proceed", "chk"}, cnt : Nat, quotient : Nat,
                    remainder : Nat, page : Nat]
  /\ WrAtStart.sts = "idle" /\ TempAtStart \in [0 .. TempCells - 1 -> Content]
  /\ ErrAtStart \in [Items -> {"none", "process", "success", "otr"}]
  /\ \A i \in Items : ErrAtStart[i] = "none"
  /\ Every(Zero) \in [Dtcs -> Content] /\ WrWait \in Nat /\ WrWait <= WrWait
  /\ [i \in Items |-> <<>>] \in [Items -> Seq(Content)]
<1>1. WrAtStart \in [sts : {"idle", "start", "proceed", "chk"}, cnt : Nat, quotient : Nat,
                    remainder : Nat, page : Nat] /\ WrAtStart.sts = "idle"
  BY Sizes DEF WrAtStart
<1>2. TempAtStart \in [0 .. TempCells - 1 -> Content]
  BY Cells1 DEF TempAtStart
<1>3. /\ ErrAtStart \in [Items -> {"none", "process", "success", "otr"}]
      /\ \A i \in Items : ErrAtStart[i] = "none"
  BY DEF ErrAtStart
<1>4. Every(Zero) \in [Dtcs -> Content]
  BY Cells1 DEF Every
<1>5. [i \in Items |-> <<>>] \in [Items -> Seq(Content)]
  OBVIOUS
<1>6. WrWait \in Nat /\ WrWait <= WrWait
  BY Sizes
<1> QED
  BY <1>1, <1>2, <1>3, <1>4, <1>5, <1>6

\* A loss of the supply.
LEMMA PowerCutOK ==
  ASSUME IInv, PowerCut
  PROVE  IInv'
<1>1. /\ mem' \in {mem} \cup Halves /\ kept' = (IF OnStatus THEN {} ELSE kept)
      /\ rb' = <<>> /\ ctrl' = "idle" /\ wr' = WrAtStart /\ cur' = FirstItem
      /\ temp' = TempAtStart /\ err' = ErrAtStart /\ pend' = <<>>
      /\ snap' = Every(Zero) /\ wait' = WrWait /\ started' = FALSE /\ turn' = "ee"
      /\ last' = [i \in Items |-> <<>>]
  BY DEF PowerCut, EeRestart, DtcRestart
<1>2. mem' \in [0 .. Cells - 1 -> Content] /\ FirstItem \in Items
  BY <1>1, HalfDone, GeometryAssumption
<1>3. \A i \in Items : last'[i] = <<>>
  BY <1>1
<1>4. Types'
  BY <1>1, <1>2, <1>3, AtStart DEF Types
<1>5. Phase'
  BY <1>1, AtStart DEF Phase, Resting
<1>6. Requests' /\ ~OnStatus'
  BY <1>1 DEF Requests, OnStatus
<1>7. kept' \subseteq Stored'
  <2>1. Stored' = Codes(mem'[StatusAt])
    BY DEF Stored, Status, Codes, StatusAt
  <2> QED
    BY <1>1, <2>1, HalfStored
<1>8. KeptOK'
  <2>1. kept' \subseteq Active
    BY <1>1 DEF IInv, KeptOK
  <2>2. last'["status"] = <<>>
    BY <1>3, StatusPlace
  <2> QED
    BY <1>1, <1>6, <1>7, <2>1, <2>2 DEF KeptOK
<1>9. SuccessIsStored'
  BY <1>1, AtStart DEF SuccessIsStored
<1> QED
  BY <1>4, <1>5, <1>6, <1>8, <1>9 DEF IInv

\* The first start.
LEMMA InitOK ==
  ASSUME Init
  PROVE  IInv
<1>1. /\ rb = <<>> /\ ctrl = "idle" /\ wr = WrAtStart /\ cur = FirstItem
      /\ temp = TempAtStart /\ err = ErrAtStart /\ pend = <<>>
      /\ snap = Every(Zero) /\ wait = WrWait /\ started = FALSE /\ turn = "ee"
      /\ last = [i \in Items |-> <<>>] /\ kept \in Earlier
      /\ mem = [k \in 0 .. Cells - 1 |->
                 IF k = ItemAddr["status"] /\ kept # {} THEN StatusCell(kept) ELSE Erased]
  BY DEF Init, EeInit, DtcInit
<1>2. kept \subseteq Active
  BY <1>1, DtcAssumption
<1>3. StatusCell(kept) \in Content
  BY <1>2, Cells1 DEF Statuses
<1>4. mem \in [0 .. Cells - 1 -> Content] /\ FirstItem \in Items
  BY <1>1, <1>3, Cells1, GeometryAssumption
<1>5. \A i \in Items : last[i] = <<>>
  BY <1>1
<1>6. Types
  BY <1>1, <1>4, <1>5, AtStart DEF Types
<1>7. Phase
  BY <1>1, AtStart DEF Phase, Resting
<1>8. Requests /\ ~OnStatus
  BY <1>1 DEF Requests, OnStatus
<1>9. kept \subseteq Stored
  <2>1. kept # {} => mem[StatusAt] = StatusCell(kept)
    BY <1>1, StatusPlace DEF StatusAt
  <2> QED
    BY <2>1, Cells1, StoredIs DEF Codes
<1>10. KeptOK
  <2>1. last["status"] = <<>>
    BY <1>5, StatusPlace
  <2> QED
    BY <1>1, <1>2, <1>8, <1>9, <2>1 DEF KeptOK
<1>11. SuccessIsStored
  BY <1>1, AtStart DEF SuccessIsStored
<1> QED
  BY <1>6, <1>7, <1>8, <1>10, <1>11 DEF IInv

-----------------------------------------------------------------------------
(* The writer: every call uses up one of those left before the next store.   *)
\* What is known of kept depends on the flash, its queue and the status.
LEMMA KeptSame ==
  ASSUME KeptOK, UNCHANGED <<mem, pend, kept, sts, started, last>>
  PROVE  KeptOK'
<1>1. Stored' = Stored /\ OnStatus' = OnStatus /\ Val' = Val /\ StatusAt' = StatusAt
  BY DEF Stored, Status, OnStatus, Val, StatusAt
<1>2. Codes(Val[StatusAt])' = Codes(Val[StatusAt])
  BY <1>1 DEF Codes
<1> QED
  BY <1>1, <1>2 DEF KeptOK, Statuses

\* Only a success, a new frame or the flash can make a success untrue.
LEMMA StoredSame ==
  ASSUME SuccessIsStored, UNCHANGED <<mem, last>>, err' \in [Items -> {"none", "process", "success", "otr"}],
         \A i \in Items : err'[i] = "success" => err[i] = "success"
  PROVE  SuccessIsStored'
<1>1. \A i \in Items : At(i)' = At(i)
  BY DEF At
<1> QED
  BY <1>1 DEF SuccessIsStored

\* A step of the writer that neither queues nor reads back.
LEMMA WriterStep ==
  ASSUME IInv, EeTask, UNCHANGED <<mem, pend, kept>>,
         ctrl' \in {"idle", "wr"}, cur' \in Items,
         wr' \in [sts : WrSts, cnt : Nat, quotient : Nat, remainder : Nat, page : Nat],
         temp' \in [0 .. TempCells - 1 -> Content], err' \in [Items -> ErrSts],
         \A i \in Items : err'[i] = "success" => err[i] = "success",
         pend = <<>> \/ (ctrl' = "wr" /\ wr'.sts # "idle" /\ cur' = cur), Phase'
  PROVE  IInv'
<1>1. UNCHANGED <<snap, wait, started, last, sts>> /\ turn' = "dtc"
  BY DEF EeTask, dtcVars
<1>2. Types'
  BY <1>1 DEF IInv, Types, WrSts, ErrSts
<1>3. Requests'
  <2>1. CASE pend = <<>>
    BY <2>1 DEF Requests
  <2>2. CASE pend # <<>>
    <3>1. Val' = Val /\ Area(cur)' = Area(cur) /\ pend' = pend /\ ctrl' = "wr" /\ wr'.sts # "idle"
      BY <2>2 DEF Val, Area
    <3> QED
      BY <2>2, <3>1 DEF IInv, Requests
  <2> QED
    BY <2>1, <2>2
<1>4. KeptOK'
  BY <1>1, KeptSame DEF IInv
<1>5. SuccessIsStored'
  BY <1>1, StoredSame DEF IInv, ErrSts
<1> QED
  BY <1>2, <1>3, <1>4, <1>5 DEF IInv

\* A call of the EEPROM task is one of those left.
LEMMA RoomLess ==
  ASSUME IInv, EeTask, NEW n \in Int, Room(n)
  PROVE  n - 1 <= wait' /\ wait' \in Nat /\ turn' = "dtc" /\ wait' + 0 = wait'
<1>1. turn = "ee" /\ turn' = "dtc" /\ wait' = wait /\ wait \in Nat
  BY DEF EeTask, dtcVars, IInv, Types
<1> QED
  BY <1>1 DEF Room, CallsLeft

\* The calls that an item takes, in numbers.
LEMMA CallsAre ==
  ASSUME NEW i \in Items
  PROVE  CallsFor(i) = FullPages(i) + 3 * WrCntNum + 3 /\ FullPages(i) \in Nat \ {0}
         /\ WrCntNum \in Nat \ {0}
  BY PagesOf, Sizes DEF CallsFor

\* eeprom_app_process with nothing to write.
LEMMA IdleOK ==
  ASSUME IInv, EeTask, ctrl = "idle", Len(rb) <= 1, UNCHANGED eeVars
  PROVE  IInv'
<1>1. UNCHANGED <<rb, ctrl, wr, cur, temp, err, mem, pend>>
  BY DEF eeVars
<1>2. kept' = kept
  BY <1>1 DEF EeTask
<1>3. pend = <<>>
  BY DEF IInv, Requests
<1>4. Resting
  <2>1. ASSUME NEW i \in Items, Given(i)
        PROVE  FALSE
    <3>1. rb = <<Header(i)>> \o last[i] /\ last[i] \in Seq(Content) /\ Len(last[i]) = ItemLen[i]
      BY <2>1 DEF Given, IInv, Types
    <3>2. Len(rb) = 1 + Len(last[i])
      BY <3>1, FrameParts
    <3>3. Len(last[i]) \in Nat \ {0}
      BY <3>1, Places
    <3> QED
      BY <3>2, <3>3
  <2> QED
    BY <2>1 DEF IInv, Phase, Taken, Writing, Written, Checking, Loaded
<1>5. Phase'
  BY <1>1, <1>4 DEF Phase, Resting
<1> QED
  BY <1>1, <1>2, <1>3, <1>5, WriterStep DEF IInv, Types, WrSts, ErrSts

\* The header is taken: its item is the one given last.
LEMMA TakeItemOK ==
  ASSUME IInv, EeTask, TakeItem
  PROVE  IInv'
<1>1. /\ ctrl = "idle" /\ Len(rb) > 1 /\ cur' = Head(rb).hdr /\ rb' = Tail(rb) /\ ctrl' = "wr"
      /\ UNCHANGED <<wr, temp, err, mem, pend>>
  BY DEF TakeItem
<1>2. kept' = kept /\ last' = last
  BY <1>1 DEF EeTask
<1>3. pend = <<>>
  BY <1>1 DEF IInv, Requests
<1>4. rb # <<>>
  <2>1. Len(<<>>) = 0
    OBVIOUS
  <2> QED
    BY <1>1, <2>1
<1>5. PICK i \in Items : Given(i)
  BY <1>1, <1>4 DEF IInv, Phase, Resting, Taken, Writing, Written, Checking, Loaded
<1>6. last[i] # <<>> /\ rb = <<Header(i)>> \o last[i] /\ last[i] \in Seq(Content)
      /\ wr.sts = "idle" /\ wr.cnt = WrCntNum /\ err[i] = "process" /\ Room(CallsFor(i))
  BY <1>5 DEF Given, IInv, Types
<1>7. cur' = i /\ rb' = last[i]
  <2>1. Header(i).hdr = i
    BY DEF Header
  <2> QED
    BY <1>1, <1>6, <2>1, FrameParts
<1>8. Room(CallsFor(cur) - 1)'
  <2>1. CallsFor(i) \in Int
    BY CallsAre
  <2>2. CallsFor(i) - 1 <= wait' /\ wait' \in Nat /\ turn' = "dtc" /\ wait' + 0 = wait'
    BY <1>6, <2>1, RoomLess
  <2>3. CallsFor(cur)' = CallsFor(i)
    BY <1>7 DEF CallsFor, FullPages
  <2> QED
    BY <2>2, <2>3 DEF Room, CallsLeft
<1>9. Phase'
  BY <1>1, <1>2, <1>6, <1>7, <1>8 DEF Phase, Taken
<1> QED
  BY <1>1, <1>2, <1>3, <1>7, <1>9, WriterStep DEF IInv, Types, WrSts, ErrSts


\* The data are taken: temp holds the item, and the writer's pages begin.
LEMMA WriteIdleOK ==
  ASSUME IInv, EeTask, WriteIdle
  PROVE  IInv'
<1>1. /\ ctrl = "wr" /\ wr.sts = "idle" /\ temp' = Into(temp, rb, ItemLen[cur])
      /\ rb' = Drop(rb, ItemLen[cur]) /\ UNCHANGED <<ctrl, cur, err, mem, pend>>
  BY DEF WriteIdle
<1>2. kept' = kept /\ last' = last
  BY <1>1 DEF EeTask
<1>3. pend = <<>>
  BY <1>1 DEF IInv, Requests
<1>4. Taken
  BY <1>1 DEF IInv, Phase, Resting, Given, Writing, Written, Checking
<1>5. /\ cur \in Items /\ wr.cnt = WrCntNum /\ last[cur] # <<>> /\ rb = last[cur]
      /\ last[cur] \in Seq(Content) /\ Len(last[cur]) = ItemLen[cur]
      /\ err[cur] = "process" /\ Room(CallsFor(cur) - 1)
  BY <1>4 DEF Taken, IInv, Types
<1> DEFINE l == ItemLen[cur]
           q == l \div PageCells
           r == l % PageCells
           s == last[cur]
<1>6. l \in Nat \ {0} /\ q \in Nat /\ r \in Nat
  BY <1>5, Places, PagesOf
<1>7. wr' = [wr EXCEPT !.sts = "start", !.page = 0, !.quotient = q, !.remainder = r]
  BY DEF WriteIdle
<1> HIDE DEF q, r
<1>8. wr \in [sts : WrSts, cnt : Nat, quotient : Nat, remainder : Nat, page : Nat] /\ "start" \in WrSts
  BY DEF IInv, Types, WrSts
<1>9. /\ wr' \in [sts : WrSts, cnt : Nat, quotient : Nat, remainder : Nat, page : Nat]
      /\ wr'.sts = "start" /\ wr'.cnt = WrCntNum /\ wr'.quotient = q /\ wr'.remainder = r
      /\ wr'.page = 0
  BY <1>5, <1>6, <1>7, <1>8
<1>10. rb' = <<>>
  BY <1>1, <1>5, DropAll
<1>11. /\ temp' \in [0 .. TempCells - 1 -> Content]
       /\ \A k \in 0 .. l - 1 : temp'[k] = s[k + 1]
  <2>1. Least(Len(rb), l) = l
    BY <1>5, <1>6 DEF Least
  <2>2. temp \in [0 .. TempCells - 1 -> Content]
    BY DEF IInv, Types
  <2>3. temp' = [k \in 0 .. TempCells - 1 |-> IF k < l THEN s[k + 1] ELSE temp[k]]
    BY <1>1, <1>5, <2>1, <2>2 DEF Into
  <2>4. l <= TempCells /\ TempCells \in Nat
    BY <1>5, ItemInArea, Sizes
  <2>5. s \in Seq(Content) /\ Len(s) = l
    BY <1>5
  <2> HIDE DEF s, l
  <2>6. \A k \in 0 .. TempCells - 1 : k < l => s[k + 1] \in Content
    BY <1>6, <2>5
  <2>7. temp' \in [0 .. TempCells - 1 -> Content]
    BY <2>2, <2>3, <2>6
  <2>8. \A k \in 0 .. l - 1 : temp'[k] = s[k + 1]
    BY <1>6, <2>3, <2>4
  <2> QED
    BY <2>7, <2>8
<1>12. Loaded'
  BY <1>1, <1>2, <1>5, <1>9, <1>10, <1>11 DEF Loaded, q, r
<1>13. Writing'
  <2> DEFINE f == FullPages(cur)
  <2>1. CallsFor(cur) = f + 3 * WrCntNum + 3 /\ f \in Nat \ {0} /\ WrCntNum \in Nat \ {0}
    BY <1>5, CallsAre
  <2>2. f' = f
    BY <1>1 DEF FullPages
  <2> HIDE DEF f
  <2>3. CallsFor(cur) - 1 \in Int
    BY <2>1
  <2>4. CallsFor(cur) - 1 - 1 <= wait' /\ wait' \in Nat /\ turn' = "dtc" /\ wait' + 0 = wait'
    BY <1>5, <2>3, RoomLess
  <2>5. wr'.page <= f /\ f + 1 - wr'.page + 3 * WrCntNum <= wait'
    BY <1>9, <2>1, <2>4
  <2>6. f + 1 - wr'.page + 3 * WrCntNum <= wait' + 0
    BY <2>4, <2>5
  <2> QED
    BY <1>9, <1>12, <2>2, <2>4, <2>5, <2>6 DEF Writing, Room, CallsLeft, f
<1>14. Phase'
  BY <1>13 DEF Phase
<1> QED
  BY <1>1, <1>2, <1>3, <1>5, <1>9, <1>11, <1>14, WriterStep DEF IInv, Types, WrSts, ErrSts

\* The pages are written; the check is next.
LEMMA WriteProceedOK ==
  ASSUME IInv, EeTask, WriteProceed
  PROVE  IInv'
<1>1. /\ ctrl = "wr" /\ wr.sts = "proceed" /\ wr' = [wr EXCEPT !.sts = "chk"]
      /\ err' = [err EXCEPT ![cur] = "none"] /\ UNCHANGED <<rb, ctrl, cur, temp, mem, pend>>
  BY DEF WriteProceed
<1>2. kept' = kept /\ last' = last
  BY <1>1 DEF EeTask
<1>3. Written
  BY <1>1 DEF IInv, Phase, Resting, Given, Taken, Writing, Checking
<1>4. wr \in [sts : WrSts, cnt : Nat, quotient : Nat, remainder : Nat, page : Nat] /\ "chk" \in WrSts
  BY DEF IInv, Types, WrSts
<1>5. /\ wr' \in [sts : WrSts, cnt : Nat, quotient : Nat, remainder : Nat, page : Nat]
      /\ wr'.sts = "chk" /\ wr'.cnt = wr.cnt /\ wr'.quotient = wr.quotient
      /\ wr'.remainder = wr.remainder /\ wr'.page = wr.page
  BY <1>1, <1>4
<1>6. cur \in Items /\ err \in [Items -> ErrSts] /\ "none" \in ErrSts
  BY DEF IInv, Types, ErrSts
<1>7. err' \in [Items -> ErrSts] /\ err'[cur] = "none"
      /\ \A i \in Items : err'[i] = "success" => err[i] = "success"
  BY <1>1, <1>6
<1>8. Loaded'
  BY <1>1, <1>2, <1>3, <1>5, <1>7 DEF Written, Loaded
<1>9. Checking'
  <2>1. Room(3 * wr.cnt) /\ wr.cnt \in Nat /\ wr.cnt \in 1 .. WrCntNum
    BY <1>3, <1>4 DEF Written
  <2> DEFINE n == 3 * wr.cnt
  <2>2. n \in Int /\ Room(n)
    BY <2>1
  <2> HIDE DEF n
  <2>3. n - 1 <= wait' /\ wait' \in Nat /\ turn' = "dtc" /\ wait' + 0 = wait'
    BY <2>2, RoomLess
  <2>4. 3 * wr'.cnt - 1 <= wait' + 0
    BY <1>5, <2>3 DEF n
  <2>5. FullPages(cur)' = FullPages(cur)
    BY <1>1 DEF FullPages
  <2>6. Room(3 * wr.cnt - 1)'
    BY <2>3, <2>4 DEF Room, CallsLeft
  <2>7. wr'.page <= FullPages(cur)' + WrCntNum + 1 - wr'.cnt
    BY <1>3, <1>5, <2>5 DEF Written
  <2>8. AtEnd'
    BY <1>3, <1>5, <2>5 DEF Written, AtEnd
  <2> QED
    BY <1>5, <1>8, <2>1, <2>6, <2>7, <2>8 DEF Checking
<1>10. Phase'
  BY <1>9 DEF Phase
<1>11. temp' \in [0 .. TempCells - 1 -> Content]
  BY <1>1 DEF IInv, Types
<1> QED
  BY <1>1, <1>2, <1>5, <1>6, <1>7, <1>10, <1>11, WriterStep


\* A page is queued: the flash is told no less than it knows.
LEMMA QueuesOK ==
  ASSUME IInv, EeTask, Loaded, NEW n \in Nat, n <= PageCells, PageNow(n),
         wr.page + 1 <= FullPages(cur) + WrCntNum,
         UNCHANGED <<rb, ctrl, cur, temp, err, mem>>,
         wr' \in [sts : WrSts, cnt : Nat, quotient : Nat, remainder : Nat, page : Nat],
         wr'.sts # "idle", Phase'
  PROVE  IInv'
<1> DEFINE x == wr.page * PageCells
           v == Merged(ItemAddr[cur] + x, n, x)
<1>1. pend = <<>> /\ pend' = <<Erase(v), Write(v)>>
  BY DEF PageNow, DrvWrite, Erase, Write
<1>2. Types /\ KeptOK /\ cur \in Items /\ ctrl = "wr"
  BY DEF IInv, Types, Loaded
<1>3. /\ DOMAIN v \subseteq Area(cur) /\ v \in [DOMAIN v -> Content]
      /\ StatusAt \in DOMAIN v => kept \subseteq Codes(v[StatusAt])
  BY <1>1, <1>2, PageQueued
<1> HIDE DEF v
<1>4. UNCHANGED <<snap, wait, started, last, sts>> /\ turn' = "dtc"
  BY DEF EeTask, dtcVars
<1>5. kept' = kept
  BY <1>2 DEF EeTask
<1>6. Types'
  BY <1>2, <1>4 DEF Types, WrSts
<1>7. pend' # <<>> /\ Len(pend') = 2 /\ Head(pend').val = v
  BY <1>1, QueueParts
<1>8. Val' = v
  BY <1>7 DEF Val
<1>9. Requests'
  <2>1. Area(cur)' = Area(cur) /\ ctrl' = "wr"
    BY <1>2 DEF Area
  <2>2. pend' = <<Erase(Val'), Write(Val')>>
    BY <1>1, <1>8
  <2>3. DOMAIN Val' \subseteq Area(cur)' /\ Val' \in [DOMAIN Val' -> Content]
    BY <1>3, <1>8, <2>1
  <2> QED
    BY <2>1, <2>2, <2>3 DEF Requests
<1>10. KeptOK'
  <2>1. kept \subseteq Stored
    BY <1>1, <1>2 DEF KeptOK, OnStatus
  <2>2. Stored' = Stored
    BY DEF Stored, Status
  <2>3. OnStatus' => StatusAt \in DOMAIN v
    BY <1>7 DEF OnStatus, StatusAt
  <2> QED
    BY <1>2, <1>3, <1>4, <1>5, <1>7, <1>8, <2>1, <2>2, <2>3, KeptLess
<1>11. SuccessIsStored'
  <2>1. err' \in [Items -> ErrSts]
    BY <1>2 DEF Types, ErrSts
  <2> QED
    BY <1>4, <2>1, StoredSame DEF IInv, ErrSts
<1> QED
  BY <1>6, <1>9, <1>10, <1>11 DEF IInv

\* The steps that send a page go on with the same item.
LEMMA LoadedGoesOn ==
  ASSUME Loaded, UNCHANGED <<rb, ctrl, cur, temp, err, last>>,
         wr'.quotient = wr.quotient, wr'.remainder = wr.remainder
  PROVE  Loaded' /\ FullPages(cur)' = FullPages(cur)
  BY DEF Loaded, FullPages

\* Of the calls for the remaining pages and the retries, those for the retries are left.
LEMMA Left ==
  ASSUME NEW f \in Nat, NEW p \in Nat, NEW c \in Nat, NEW w \in Nat, p <= f, f + 1 - p + c - 1 <= w
  PROVE  c <= w + 0
  OBVIOUS

\* A check that failed has used up the calls of one retry.
LEMMA LeftToRetry ==
  ASSUME NEW c \in Nat, NEW w \in Nat, 3 * c - 1 - 1 <= w
  PROVE  1 + 3 * (c - 1) <= w + 0
  OBVIOUS

\* The item is given up, or its next page is sent.
LEMMA WriteStartOK ==
  ASSUME IInv, EeTask, WriteStart
  PROVE  IInv'
<1>1. ctrl = "wr" /\ wr.sts = "start" /\ UNCHANGED <<rb, cur, temp, err, mem>>
  BY DEF WriteStart
<1>2. Writing
  BY <1>1 DEF IInv, Phase, Resting, Given, Taken, Written, Checking
<1> DEFINE W == [sts : WrSts, cnt : Nat, quotient : Nat, remainder : Nat, page : Nat]
           f == FullPages(cur)
<1>3. /\ wr \in W /\ cur \in Items /\ temp \in [0 .. TempCells - 1 -> Content]
      /\ err \in [Items -> ErrSts] /\ {"start", "idle", "proceed"} \subseteq WrSts
  BY DEF IInv, Types, WrSts, ErrSts
<1>4. f \in Nat /\ f >= 1 /\ WrCntNum \in Nat /\ WrCntNum >= 1 /\ PageCells \in Nat /\ PageCells >= 1
  BY <1>3, PagesOf, Sizes
<1>5. /\ wr.quotient \in Nat /\ wr.quotient <= f
      /\ f = 1 \/ f = wr.quotient
      /\ wr.remainder \in Nat /\ wr.remainder <= PageCells
  <2> DEFINE q == ItemLen[cur] \div PageCells
             r == ItemLen[cur] % PageCells
  <2>1. q \in Nat /\ q <= f /\ r \in 0 .. PageCells - 1
    BY <1>3, PagesOf
  <2>2. f = 1 \/ f = q
    BY <1>3, PagesOf
  <2>3. wr.quotient = q /\ wr.remainder = r
    BY <1>2 DEF Writing, Loaded
  <2> HIDE DEF q, r
  <2> QED
    BY <1>4, <2>1, <2>2, <2>3
<1>6. wr.cnt \in Nat /\ wr.page \in Nat /\ Loaded
  BY <1>2, <1>3 DEF Writing
<1>7. /\ wr.cnt = WrCntNum => wr.page <= f /\ Room(f + 1 - wr.page + 3 * WrCntNum)
      /\ wr.cnt # WrCntNum => /\ wr.cnt < WrCntNum /\ wr.page <= f + WrCntNum - wr.cnt
                              /\ wr.page >= 1 /\ (wr.remainder = 0 \/ wr.page >= f)
                              /\ pend = <<>> /\ Room(1 + 3 * wr.cnt)
  BY <1>2, <1>4, <1>6 DEF Writing, AtEnd
<1>8. /\ wait' \in Nat /\ turn' = "dtc" /\ wait' + 0 = wait'
      /\ wr.cnt = WrCntNum => f + 1 - wr.page + 3 * WrCntNum - 1 <= wait'
      /\ wr.cnt # WrCntNum => 1 + 3 * wr.cnt - 1 <= wait'
  <2> DEFINE n == f + 1 - wr.page + 3 * WrCntNum
             m == 1 + 3 * wr.cnt
  <2>1. n \in Int /\ m \in Int
    BY <1>4, <1>6
  <2>2. (wr.cnt = WrCntNum => Room(n)) /\ (wr.cnt # WrCntNum => Room(m))
    BY <1>7
  <2> HIDE DEF n, m, f
  <2>3. Room(n) => n - 1 <= wait' /\ wait' \in Nat /\ turn' = "dtc" /\ wait' + 0 = wait'
    BY <2>1, RoomLess
  <2>4. Room(m) => m - 1 <= wait' /\ wait' \in Nat /\ turn' = "dtc" /\ wait' + 0 = wait'
    BY <2>1, RoomLess
  <2>5. wait' \in Nat /\ turn' = "dtc" /\ wait' + 0 = wait'
        /\ (wr.cnt = WrCntNum => n - 1 <= wait') /\ (wr.cnt # WrCntNum => m - 1 <= wait')
    BY <2>2, <2>3, <2>4
  <2>6. (wr.cnt = WrCntNum => f + 1 - wr.page + 3 * WrCntNum - 1 <= wait')
    BY <1>4, <1>6, <2>5 DEF n
  <2>7. (wr.cnt # WrCntNum => 1 + 3 * wr.cnt - 1 <= wait')
    BY <1>4, <1>6, <2>5 DEF m
  <2> QED
    BY <2>5, <2>6, <2>7
<1> HIDE DEF W
<1>9. last' = last
  BY DEF EeTask
<1>10. CASE wr.cnt = 0 /\ ctrl' = "idle" /\ wr' = [wr EXCEPT !.sts = "idle"] /\ UNCHANGED pend
  <2>1. pend = <<>>
    BY <1>4, <1>7, <1>10
  <2>2. wr' \in W /\ wr'.sts = "idle"
    BY <1>3, <1>10 DEF W
  <2>3. rb' = <<>> /\ err[cur] # "success"
    BY <1>1, <1>6 DEF Loaded
  <2>4. Phase'
    BY <1>10, <2>2, <2>3 DEF Phase, Resting
  <2>5. kept' = kept
    <3>1. cur = "status" => err'["status"] # "success"
      BY <1>1, <2>3
    <3> QED
      BY <3>1 DEF EeTask
  <2> QED
    BY <1>1, <1>3, <1>10, <2>1, <2>2, <2>4, <2>5, WriterStep DEF W
<1>11. CASE wr.cnt > 0 /\ wr.page = 0 /\ PageNow(PageCells) /\ wr' = [wr EXCEPT !.page = 1] /\ UNCHANGED ctrl
  <2>1. wr' \in W /\ wr'.sts = "start" /\ wr'.page = 1 /\ wr'.cnt = wr.cnt
        /\ wr'.quotient = wr.quotient /\ wr'.remainder = wr.remainder
    BY <1>1, <1>3, <1>11 DEF W
  <2>2. wr.cnt = WrCntNum
    BY <1>7, <1>11
  <2>3. Loaded' /\ FullPages(cur)' = f
    BY <1>1, <1>6, <1>9, <1>11, <2>1, LoadedGoesOn
  <2> HIDE DEF f
  <2>4. wr'.page <= f /\ f + 1 - wr'.page + 3 * WrCntNum <= wait' + 0
    BY <1>4, <1>8, <1>11, <2>1, <2>2
  <2>5. Writing'
    BY <1>8, <2>1, <2>2, <2>3, <2>4 DEF Writing, Room, CallsLeft
  <2>6. Phase'
    BY <2>5 DEF Phase
  <2>7. wr.page + 1 <= f + WrCntNum
    BY <1>4, <1>11
  <2> QED
    BY <1>1, <1>4, <1>6, <1>11, <2>1, <2>6, <2>7, QueuesOK DEF f, W
<1>12. CASE /\ wr.cnt > 0 /\ wr.page > 0 /\ wr.page < wr.quotient /\ PageNow(PageCells)
            /\ wr' = [wr EXCEPT !.page = @ + 1, !.sts = IF wr.remainder = 0 THEN "proceed" ELSE @]
            /\ UNCHANGED ctrl
  <2> DEFINE s == IF wr.remainder = 0 THEN "proceed" ELSE wr.sts
  <2>1. wr' \in W /\ wr'.sts = s /\ wr'.page = wr.page + 1 /\ wr'.cnt = wr.cnt
        /\ wr'.quotient = wr.quotient /\ wr'.remainder = wr.remainder /\ s # "idle"
    <3>1. wr' = [wr EXCEPT !.page = wr.page + 1, !.sts = s]
      BY <1>12
    <3>2. s \in WrSts /\ s # "idle"
      BY <1>1, <1>3
    <3> HIDE DEF s
    <3>3. wr.page + 1 \in Nat
      BY <1>6
    <3> QED
      BY <1>3, <3>1, <3>2, <3>3 DEF W
  <2>2. Loaded' /\ FullPages(cur)' = f
    BY <1>1, <1>6, <1>9, <1>12, <2>1, LoadedGoesOn
  <2> HIDE DEF f
  <2>3. wr.page + 1 <= f /\ wr.page + 1 <= f + WrCntNum
    BY <1>4, <1>5, <1>6, <1>12
  <2>4. ASSUME wr.remainder = 0 PROVE Phase'
    <3>1. s = "proceed"
      BY <2>4
    <3>2. wr'.cnt \in 1 .. WrCntNum /\ wr'.page >= 1
      BY <1>4, <1>6, <1>7, <1>12, <2>1
    <3>3. wr'.page <= f + WrCntNum + 1 - wr'.cnt
      BY <1>4, <1>6, <2>1, <2>3, <3>2
    <3>4. 3 * wr'.cnt <= wait' + 0
      <4>1. CASE wr.cnt = WrCntNum
        BY <1>4, <1>6, <1>8, <2>1, <2>3, <4>1
      <4>2. CASE wr.cnt # WrCntNum
        BY <1>4, <1>6, <1>8, <2>1, <4>2
      <4> QED
        BY <4>1, <4>2
    <3>5. Written'
      BY <1>8, <2>1, <2>2, <2>4, <3>1, <3>2, <3>3, <3>4 DEF Written, AtEnd, Room, CallsLeft
    <3> QED
      BY <3>5 DEF Phase
  <2>5. ASSUME wr.remainder # 0 PROVE Phase'
    <3>1. s = "start"
      BY <1>1, <2>5
    <3>2. wr.cnt = WrCntNum
      BY <1>4, <1>5, <1>6, <1>7, <1>12, <2>3, <2>5
    <3>3. wr'.page <= f /\ f + 1 - wr'.page + 3 * WrCntNum <= wait' + 0
      BY <1>4, <1>6, <1>8, <2>1, <2>3, <3>2
    <3>4. Writing'
      BY <1>8, <2>1, <2>2, <3>1, <3>2, <3>3 DEF Writing, Room, CallsLeft
    <3> QED
      BY <3>4 DEF Phase
  <2>6. Phase'
    BY <2>4, <2>5
  <2> QED
    BY <1>1, <1>4, <1>6, <1>12, <2>1, <2>3, <2>6, QueuesOK DEF f, W
<1>13. CASE /\ wr.cnt > 0 /\ wr.page > 0 /\ wr.page >= wr.quotient /\ PageNow(wr.remainder)
            /\ wr' = [wr EXCEPT !.page = @ + 1, !.sts = "proceed"]
            /\ UNCHANGED ctrl
  <2>1. wr' \in W /\ wr'.sts = "proceed" /\ wr'.page = wr.page + 1 /\ wr'.cnt = wr.cnt
        /\ wr'.quotient = wr.quotient /\ wr'.remainder = wr.remainder
    <3>1. wr.page + 1 \in Nat
      BY <1>6
    <3> QED
      BY <1>3, <1>13, <3>1 DEF W
  <2>2. Loaded' /\ FullPages(cur)' = f
    BY <1>1, <1>6, <1>9, <1>13, <2>1, LoadedGoesOn
  <2> HIDE DEF f
  <2>3. wr'.cnt \in 1 .. WrCntNum /\ wr'.page >= 1
    BY <1>4, <1>6, <1>7, <1>13, <2>1
  <2>4. wr'.page >= f
    BY <1>4, <1>5, <1>6, <1>13, <2>1
  <2>5. wr'.page <= f + WrCntNum + 1 - wr'.cnt /\ wr.page + 1 <= f + WrCntNum
        /\ 3 * wr'.cnt <= wait' + 0
    <3>1. CASE wr.cnt = WrCntNum
      <4>1. wr.page <= f /\ f + 1 - wr.page + 3 * WrCntNum - 1 <= wait'
        BY <1>7, <1>8, <3>1
      <4>2. wr'.page <= f + 1 /\ wr.page + 1 <= f + WrCntNum
        <5>1. wr'.page = wr.page + 1
          BY <2>1
        <5> QED
          BY <1>4, <1>6, <4>1, <5>1
      <4>3. 3 * WrCntNum <= wait' + 0
        <5> DEFINE c == 3 * WrCntNum
                   p == wr.page
        <5>1. c \in Nat /\ f \in Nat /\ p \in Nat /\ wait' \in Nat
          BY <1>4, <1>6, <1>8
        <5>2. p <= f /\ f + 1 - p + c - 1 <= wait'
          BY <4>1
        <5> HIDE DEF c, p
        <5>3. c <= wait' + 0
          BY <5>1, <5>2, Left
        <5> QED
          BY <5>3 DEF c
      <4>4. wr'.cnt = WrCntNum
        BY <2>1, <3>1
      <4>5. f + WrCntNum + 1 - WrCntNum = f + 1
        BY <1>4
      <4> QED
        BY <4>2, <4>3, <4>4, <4>5
    <3>2. CASE wr.cnt # WrCntNum
      BY <1>4, <1>6, <1>7, <1>8, <1>13, <2>1, <3>2
    <3> QED
      BY <3>1, <3>2
  <2>6. Written'
    BY <1>8, <2>1, <2>2, <2>3, <2>4, <2>5 DEF Written, AtEnd, Room, CallsLeft
  <2>7. Phase'
    BY <2>6 DEF Phase
  <2> QED
    BY <1>1, <1>5, <1>6, <1>13, <2>1, <2>5, <2>7, QueuesOK DEF f, W
<1> QED
  BY <1>10, <1>11, <1>12, <1>13 DEF WriteStart


\* The bytes read back are those that were given.
LEMMA ReadBackIsLast ==
  ASSUME IInv, Loaded, ReadsBack
  PROVE  At(cur) = last[cur] /\ (cur = "status" => Status = temp[0] /\ temp[0] = last["status"][1])
<1>1. /\ cur \in Items /\ last[cur] # <<>> /\ last[cur] \in Seq(Content)
      /\ Len(last[cur]) = ItemLen[cur]
      /\ \A k \in 0 .. ItemLen[cur] - 1 : temp[k] = last[cur][k + 1]
  BY DEF Loaded, IInv, Types
<1>2. \A k \in 0 .. ItemLen[cur] - 1 : mem[ItemAddr[cur] + k] = temp[k]
  BY DEF ReadsBack
<1>3. ItemLen[cur] \in Nat \ {0} /\ ItemAddr[cur] \in Nat
  BY <1>1, Places
<1> DEFINE l == ItemLen[cur]
           a == ItemAddr[cur]
           s == last[cur]
<1>4. At(cur) = [k \in 1 .. l |-> mem[a + k - 1]]
  BY DEF At
<1> HIDE DEF l, a, s
<1>5. l \in Nat \ {0} /\ a \in Nat /\ s \in Seq(Content) /\ Len(s) = l
  BY <1>1, <1>3 DEF l, a, s
<1>6. \A k \in 1 .. l : mem[a + k - 1] = s[k]
  <2> TAKE k \in 1 .. l
  <2>1. k - 1 \in 0 .. l - 1 /\ a + (k - 1) = a + k - 1 /\ (k - 1) + 1 = k
    BY <1>5
  <2>2. mem[a + (k - 1)] = temp[k - 1]
    BY <1>2, <2>1 DEF l, a
  <2>3. temp[k - 1] = s[(k - 1) + 1]
    BY <1>1, <2>1 DEF l, s
  <2> QED
    BY <2>1, <2>2, <2>3
<1>7. s = [k \in 1 .. l |-> s[k]]
  BY <1>5
<1>8. At(cur) = s
  BY <1>4, <1>6, <1>7
<1>9. 0 \in 0 .. l - 1 /\ a + 0 = a
  BY <1>5
<1>10. mem[a] = temp[0] /\ temp[0] = s[1]
  BY <1>1, <1>2, <1>9 DEF l, a, s
<1> QED
  BY <1>8, <1>10 DEF s, a, Status

\* What is read back is reported, or tried again.
LEMMA WriteChkOK ==
  ASSUME IInv, EeTask, WriteChk
  PROVE  IInv'
<1>1. ctrl = "wr" /\ wr.sts = "chk" /\ pend = <<>> /\ UNCHANGED <<rb, cur, temp, mem, pend>>
  BY DEF WriteChk
<1>2. Checking
  BY <1>1 DEF IInv, Phase, Resting, Given, Taken, Writing, Written
<1> DEFINE W == [sts : WrSts, cnt : Nat, quotient : Nat, remainder : Nat, page : Nat]
<1>3. /\ wr \in W /\ cur \in Items /\ temp \in [0 .. TempCells - 1 -> Content]
      /\ err \in [Items -> ErrSts] /\ {"start", "idle"} \subseteq WrSts
      /\ {"success", "otr"} \subseteq ErrSts
  BY DEF IInv, Types, WrSts, ErrSts
<1>4. Loaded /\ wr.cnt \in 1 .. WrCntNum /\ AtEnd /\ Room(3 * wr.cnt - 1)
      /\ wr.page <= FullPages(cur) + WrCntNum + 1 - wr.cnt
  BY <1>2 DEF Checking
<1>5. UNCHANGED <<snap, wait, started, last, sts>> /\ turn' = "dtc"
  BY DEF EeTask, dtcVars
<1>6. CASE /\ ReadsBack
           /\ ctrl' = "idle" /\ wr' = [wr EXCEPT !.sts = "idle"]
           /\ err' = [err EXCEPT ![cur] = "success"]
  <2>1. wr' \in W /\ wr'.sts = "idle"
    BY <1>3, <1>6
  <2>2. err' \in [Items -> ErrSts] /\ err'[cur] = "success"
        /\ \A i \in Items : i # cur => err'[i] = err[i]
    BY <1>3, <1>6
  <2>3. Types'
    BY <1>1, <1>3, <1>5, <1>6, <2>1, <2>2 DEF IInv, Types, WrSts, ErrSts
  <2>4. Phase'
    <3>1. rb' = <<>>
      BY <1>1, <1>4 DEF Loaded
    <3> QED
      BY <1>6, <2>1, <3>1 DEF Phase, Resting
  <2>5. Requests' /\ ~OnStatus' /\ ~OnStatus
    BY <1>1 DEF Requests, OnStatus
  <2>6. At(cur) = last[cur] /\ (cur = "status" => Status = temp[0] /\ temp[0] = last["status"][1])
    BY <1>4, <1>6, ReadBackIsLast
  <2>7. SuccessIsStored'
    <3>1. \A i \in Items : At(i)' = At(i)
      BY <1>1 DEF At
    <3> QED
      BY <1>5, <2>2, <2>6, <3>1 DEF IInv, SuccessIsStored
  <2>8. kept \subseteq Stored /\ Stored' = Stored
    BY <1>1, <2>5 DEF IInv, KeptOK, Stored, Status
  <2>9. KeptOK'
    <3>1. CASE cur = "status"
      <4>1. kept' = kept \cup Lasting(temp[0].codes)
        BY <1>1, <1>6, <2>2, <3>1 DEF EeTask
      <4>2. last["status"] # <<>> /\ temp[0] = last["status"][1] /\ temp[0] \in Statuses
            /\ kept \subseteq temp[0].codes /\ kept \subseteq Active
            /\ (started => \A d \in kept : sts[d] \cap {"pending", "confirmed"} # {})
        BY <1>4, <2>6, <3>1 DEF Loaded, IInv, KeptOK
      <4>3. Stored = temp[0].codes /\ temp[0].codes \subseteq Active
        BY <2>6, <3>1, <4>2, Cells1 DEF Stored, Statuses
      <4>4. Lasting(temp[0].codes) \subseteq temp[0].codes
            /\ \A d \in Lasting(temp[0].codes) : sts[d] \cap {"pending", "confirmed"} # {}
        BY DEF Lasting
      <4>5. kept' \subseteq temp[0].codes /\ kept' \subseteq Active
            /\ (started => \A d \in kept' : sts[d] \cap {"pending", "confirmed"} # {})
        BY <4>1, <4>2, <4>3, <4>4
      <4>6. kept' \subseteq Stored'
        BY <2>8, <4>3, <4>5
      <4>7. last'["status"][1] = temp[0] /\ started' = started /\ sts' = sts
        BY <1>5, <4>2
      <4> QED
        BY <2>5, <4>2, <4>5, <4>6, <4>7 DEF KeptOK, Statuses
    <3>2. CASE cur # "status"
      <4>1. kept' = kept
        BY <3>2 DEF EeTask
      <4> QED
        BY <1>1, <1>5, <4>1, KeptSame DEF IInv
    <3> QED
      BY <3>1, <3>2
  <2> QED
    BY <2>3, <2>4, <2>5, <2>7, <2>9 DEF IInv
<1>7. CASE /\ ~ReadsBack
           /\ wr' = [wr EXCEPT !.sts = "start", !.cnt = @ - 1]
           /\ err' = [err EXCEPT ![cur] = "otr"]
           /\ UNCHANGED ctrl
  <2> DEFINE c == wr.cnt
             f == FullPages(cur)
  <2>1. c \in Nat /\ c >= 1 /\ c <= WrCntNum /\ WrCntNum \in Nat /\ wr.page \in Nat
        /\ f \in Nat /\ wr.page <= f + WrCntNum + 1 - c
    BY <1>3, <1>4, Sizes, PagesOf
  <2>2. c - 1 \in Nat
    BY <2>1
  <2>3. wr' \in W /\ wr'.sts = "start" /\ wr'.cnt = c - 1 /\ wr'.page = wr.page
        /\ wr'.quotient = wr.quotient /\ wr'.remainder = wr.remainder
    BY <1>3, <1>7, <2>2
  <2>4. err' \in [Items -> ErrSts] /\ err'[cur] = "otr"
        /\ \A i \in Items : err'[i] = "success" => err[i] = "success"
    BY <1>3, <1>7
  <2>5. kept' = kept
    BY <1>1, <1>7 DEF EeTask
  <2>6. Loaded' /\ f' = f /\ AtEnd'
    BY <1>1, <1>4, <1>5, <1>7, <2>3, <2>4 DEF Loaded, FullPages, AtEnd
  <2>7. Room(1 + 3 * wr.cnt)'
    <3> DEFINE n == 3 * c - 1
    <3>1. n \in Int /\ Room(n)
      BY <1>4, <2>1
    <3> HIDE DEF n
    <3>2. n - 1 <= wait' /\ wait' \in Nat /\ turn' = "dtc" /\ wait' + 0 = wait'
      BY <3>1, RoomLess
    <3> HIDE DEF c
    <3>3. 3 * c - 1 - 1 <= wait' /\ c \in Nat /\ wait' \in Nat
      BY <2>1, <3>2 DEF n
    <3>4. 1 + 3 * (c - 1) <= wait' + 0
      BY <3>3, LeftToRetry
    <3> QED
      BY <2>3, <3>2, <3>4 DEF Room, CallsLeft
  <2> HIDE DEF c, f
  <2>8. c - 1 < WrCntNum /\ wr.page <= f + WrCntNum - (c - 1)
    BY <2>1
  <2>9. Writing'
    BY <1>1, <2>3, <2>6, <2>7, <2>8 DEF Writing, f
  <2>10. Phase'
    BY <2>9 DEF Phase
  <2> QED
    BY <1>1, <1>3, <1>7, <2>3, <2>4, <2>5, <2>10, WriterStep
<1> QED
  BY <1>6, <1>7 DEF WriteChk

\* A call of the EEPROM task.
LEMMA EeTaskOK ==
  ASSUME IInv, EeTask
  PROVE  IInv'
<1>1. EeProcess
  BY DEF EeTask
<1> QED
  BY <1>1, TakeItemOK, WriteIdleOK, WriteStartOK, WriteProceedOK, WriteChkOK, IdleOK DEF EeProcess

-----------------------------------------------------------------------------
(* The trouble codes.                                                        *)
\* What neither the writer nor the flash sees leaves the invariant alone.
LEMMA DtcUserOK ==
  ASSUME IInv, DtcUser
  PROVE  IInv'
<1>1. UNCHANGED <<rb, ctrl, wr, cur, temp, err, mem, pend, sts, wait, started, turn, last, kept>>
  BY DEF DtcUser, eeVars
<1>2. snap' \in [Dtcs -> Content]
  <2> DEFINE D == {d \in Dtcs : appear[d] = "first" /\ "failed" \in sts[d]}
  <2>1. snap' = [d \in Dtcs |-> IF d \in D THEN SnapCell("taken") ELSE snap[d]]
    BY DEF DtcUser
  <2> HIDE DEF D
  <2>2. snap \in [Dtcs -> Content]
    BY DEF IInv, Types
  <2> QED
    BY <2>1, <2>2, Cells1
<1>3. Types'
  BY <1>1, <1>2 DEF IInv, Types
<1>4. Phase'
  BY <1>1, PhaseSame DEF IInv, CallsLeft
<1>5. Requests'
  BY <1>1 DEF IInv, Requests, Val, Area
<1>6. KeptOK'
  BY <1>1, KeptSame DEF IInv
<1>7. SuccessIsStored'
  BY <1>1, StoredSame DEF IInv, Types
<1> QED
  BY <1>3, <1>4, <1>5, <1>6, <1>7 DEF IInv

\* Handling a code does not take a lasting fault away, unless it is cleared.
LEMMA HandledKeeps ==
  ASSUME NEW s, NEW clr, NEW d \in Dtcs, d \notin clr, s[d] \cap {"pending", "confirmed"} # {}
  PROVE  Handled(s, clr)[d].s \cap {"pending", "confirmed"} # {}
<1> DEFINE a == IF Forgotten(d, clr) THEN "no" ELSE appear[d]
           r == IF Evaluated(d) THEN Fault(s[d], a, occ[d], d \in seen')
                ELSE [s |-> s[d], a |-> a, o |-> occ[d]]
<1>1. Handled(s, clr)[d] = [s |-> IF d \in clr THEN {} ELSE r.s,
                            a |-> IF Undone(d, clr) THEN "no" ELSE r.a,
                            o |-> IF d \in clr THEN FALSE ELSE r.o]
  BY DEF Handled
<1> HIDE DEF a
<1>2. r.s \in {s[d], s[d] \ {"failed"}, s[d] \cup {"failed"}, s[d] \cup {"failed", "pending"}}
  BY DEF Fault
<1> HIDE DEF r
<1>3. Handled(s, clr)[d].s = r.s
  BY <1>1
<1> QED
  BY <1>2, <1>3

\* What the flash must know, the status in RAM knows after a call.
LEMMA KnownAfterCall ==
  ASSUME IInv, NEW clr, DtcProcess(clr), NEW d \in kept'
  PROVE  d \in Active /\ d \in kept /\ d \notin clr /\ sts'[d] \cap {"pending", "confirmed"} # {}
<1>1. d \in kept /\ d \notin clr /\ kept \subseteq Active /\ d \in Dtcs
  BY DtcAssumption DEF DtcProcess, IInv, KeptOK
<1>2. PICK s \in ReadStatus : sts' = [e \in Dtcs |-> Handled(s, clr)[e].s]
  BY DEF DtcProcess
<1>3. s[d] \cap {"pending", "confirmed"} # {}
  <2>1. CASE started
    BY <1>1, <1>2, <2>1 DEF ReadStatus, IInv, KeptOK
  <2>2. CASE ~started
    <3>1. kept \subseteq Stored
      BY <2>2 DEF DtcProcess, IInv, KeptOK, OnStatus
    <3>2. Status # JunkCell
      <4>1. JunkCell.tag # "status"
        BY DEF JunkCell, SnapCell
      <4> QED
        BY <1>1, <3>1, <4>1 DEF Stored
    <3>3. s = [e \in Dtcs |-> IF e \in Stored THEN {"confirmed"} ELSE {}]
      BY <1>2, <2>2, <3>2 DEF ReadStatus
    <3> QED
      BY <1>1, <3>1, <3>3
  <2> QED
    BY <2>1, <2>2
<1>4. sts'[d] = Handled(s, clr)[d].s
  BY <1>1, <1>2
<1> QED
  BY <1>1, <1>3, <1>4, HandledKeeps

\* The snapshots after a call, read or kept.
LEMMA SnapAfterCall ==
  ASSUME IInv, NEW clr, DtcProcess(clr)
  PROVE  snap' \in [Dtcs -> Content]
<1>1. snap' = [d \in Dtcs |-> IF d \in clr THEN SnapCell("clear") ELSE ReadSnap(d)]
  BY DEF DtcProcess
<1>2. \A d \in Dtcs : ReadSnap(d) \in Content
  <2> TAKE d \in Dtcs
  <2>1. CASE started
    BY <2>1 DEF ReadSnap, IInv, Types
  <2>2. CASE ~started
    <3>1. d \in 0 .. ItemLen["snapshot"] - 1
      BY DtcAssumption
    <3>2. ItemAddr["snapshot"] + d \in 0 .. Cells - 1
      BY <3>1, StatusPlace, ItemInArea
    <3> QED
      BY <2>2, <3>2 DEF ReadSnap, IInv, Types
  <2> QED
    BY <2>1, <2>2
<1> QED
  BY <1>1, <1>2, Cells1

\* The pause is over only when the writer rests.
LEMMA OverIsResting ==
  ASSUME IInv, turn = "dtc", wait = 0
  PROVE  Resting
<1>1. CallsLeft = 0
  BY DEF CallsLeft
<1>2. cur \in Items /\ wr.cnt \in Nat /\ wr.page \in Nat
  BY DEF IInv, Types
<1>3. \A i \in Items : ~Given(i)
  <2> SUFFICES ASSUME NEW i \in Items, Given(i)
               PROVE  FALSE
    OBVIOUS
  <2>1. CallsFor(i) <= 0
    BY <1>1 DEF Given, Room
  <2> DEFINE f == FullPages(i)
  <2>2. CallsFor(i) = f + 3 * WrCntNum + 3 /\ f \in Nat /\ WrCntNum \in Nat
    BY CallsAre
  <2> HIDE DEF f
  <2> QED
    BY <2>1, <2>2
<1>4. ~Taken
  <2> SUFFICES ASSUME Taken
               PROVE  FALSE
    OBVIOUS
  <2>1. CallsFor(cur) - 1 <= 0
    BY <1>1 DEF Taken, Room
  <2> DEFINE f == FullPages(cur)
  <2>2. CallsFor(cur) = f + 3 * WrCntNum + 3 /\ f \in Nat /\ WrCntNum \in Nat
    BY <1>2, CallsAre
  <2> HIDE DEF f
  <2> QED
    BY <2>1, <2>2
<1>5. ~Writing
  <2> SUFFICES ASSUME Writing
               PROVE  FALSE
    OBVIOUS
  <2> DEFINE f == FullPages(cur)
             p == wr.page
             c == wr.cnt
  <2>1. f \in Nat /\ p \in Nat /\ c \in Nat /\ WrCntNum \in Nat /\ WrCntNum # 0
    BY <1>2, CallsAre
  <2>2. (p <= f /\ f + 1 - p + 3 * WrCntNum <= 0) \/ 1 + 3 * c <= 0
    BY <1>1 DEF Writing, Room
  <2> HIDE DEF f, p, c
  <2>3. ~(1 + 3 * c <= 0)
    BY <2>1
  <2>4. ~(p <= f /\ f + 1 - p + 3 * WrCntNum <= 0)
    BY <2>1
  <2> QED
    BY <2>2, <2>3, <2>4
<1>6. ~Written
  BY <1>1, <1>2 DEF Written, Room
<1>7. ~Checking
  BY <1>1, <1>2 DEF Checking, Room
<1> QED
  BY <1>3, <1>4, <1>5, <1>6, <1>7 DEF IInv, Phase


\* A store either does nothing or gives a whole frame.
Gives(i, data) ==
  /\ err' = [err EXCEPT ![i] = "process"] /\ rb' = <<Header(i)>> \o data
  /\ wr' = [wr EXCEPT !.cnt = WrCntNum] /\ last' = [last EXCEPT ![i] = data]
  /\ wait' = WrWait - 1

\* Where the writer rests, a store that is ready finds room.
LEMMA StoreGives ==
  ASSUME IInv, Resting, NEW i \in Items, NEW data \in Seq(Content), Len(data) = ItemLen[i],
         NEW f, StoreItem(i, data, f)
  PROVE  (UNCHANGED <<rb, wr, err, last>> /\ wait' = 0) \/ Gives(i, data)
<1>1. CASE ~Ready(i)
  BY <1>1 DEF StoreItem
<1>2. CASE Ready(i)
  <2>1. err[i] \notin {"process", "busy", "otr"}
    BY <1>2 DEF Ready
  <2>2. rb = <<>> /\ Remain(rb) >= ItemLen[i]
    <3>1. rb = <<>> /\ Len(<<>>) = 0
      BY DEF Resting
    <3> DEFINE l == ItemLen[i]
    <3>2. l \in Nat /\ 1 + l <= BufCells /\ BufCells \in Nat
      BY Places, Sizes
    <3> HIDE DEF l
    <3>3. BufCells - 0 >= l
      BY <3>2
    <3> QED
      BY <3>1, <3>3 DEF Remain, l
  <2>3. WriteBuf(i, data) /\ last' = (IF err'[i] = "ovf" THEN last ELSE [last EXCEPT ![i] = data])
        /\ wait' = WrWait - 1
    BY <1>2 DEF StoreItem
  <2>4. ~(Remain(rb) < ItemLen[i])
    <3> DEFINE l == ItemLen[i]
               r == Remain(rb)
    <3>1. l \in Nat /\ r \in Int /\ r >= l
      BY <2>2, Places, Sizes DEF Remain
    <3> HIDE DEF l, r
    <3> QED
      BY <3>1 DEF l, r
  <2>5. err' = [err EXCEPT ![i] = "process"] /\ rb' = Put(Put(rb, <<Header(i)>>), data)
        /\ wr' = [wr EXCEPT !.cnt = WrCntNum]
    BY <2>1, <2>3, <2>4 DEF WriteBuf
  <2>6. err'[i] # "ovf"
    BY <2>5 DEF IInv, Types
  <2>7. rb' = <<Header(i)>> \o data
    BY <2>2, <2>5, PutWhole
  <2> QED
    BY <2>3, <2>5, <2>6, <2>7 DEF Gives
<1> QED
  BY <1>1, <1>2

\* What is given for the status: the codes recorded in RAM.
LEMMA StatusNowIs ==
  /\ StatusNow \in Seq(Content) /\ Len(StatusNow) = ItemLen["status"]
  /\ StatusNow[1] = StatusCell({d \in Active : sts'[d] # {}}) /\ StatusNow[1] \in Statuses
<1> DEFINE c == StatusCell({d \in Active : sts'[d] # {}})
<1>1. c \in Statuses
  BY DEF Statuses
<1>2. StatusNow = <<c>>
  BY DEF StatusNow
<1> HIDE DEF c
<1>3. c \in Content
  BY <1>1, Cells1
<1>4. ItemLen["status"] = 1
  BY DtcAssumption
<1> QED
  BY <1>1, <1>2, <1>3, <1>4 DEF c

\* What is given for the snapshots: one for each code.
LEMMA SnapNowIs ==
  ASSUME snap' \in [Dtcs -> Content]
  PROVE  SnapNow \in Seq(Content) /\ Len(SnapNow) = ItemLen["snapshot"]
<1> DEFINE l == ItemLen["snapshot"]
<1>1. l \in Nat
  BY StatusPlace, Places
<1>2. Dtcs = 0 .. l - 1
  BY DtcAssumption
<1>3. SnapNow = [k \in 1 .. l |-> snap'[k - 1]]
  BY DEF SnapNow
<1> HIDE DEF l
<1>4. \A k \in 1 .. l : snap'[k - 1] \in Content
  BY <1>1, <1>2
<1> QED
  BY <1>1, <1>3, <1>4 DEF l

\* What a call of can_dtc_process does to the writer.
LEMMA StoreOutcome ==
  ASSUME IInv, NEW clr, DtcProcess(clr)
  PROVE  \/ UNCHANGED <<rb, wr, err, last>> /\ wait > 0 /\ wait' = wait - 1
         \/ UNCHANGED <<rb, wr, err, last>> /\ wait = 0 /\ wait' = 0 /\ Resting
         \/ /\ wait = 0 /\ Resting
            /\ \E i \in Items : \E data \in Seq(Content) :
                 /\ Len(data) = ItemLen[i] /\ Gives(i, data)
                 /\ i = "status" => data = StatusNow
<1> DEFINE f == IF clr = {} THEN wrFlg ELSE {"status", "none", "snapshot", "local"}
<1>1. Store(f) /\ turn = "dtc"
  BY DEF DtcProcess
<1> HIDE DEF f
<1>2. wait = 0 => Resting
  BY <1>1, OverIsResting
<1>3. CASE wait > 0 /\ wait' = wait - 1 /\ UNCHANGED <<rb, wr, err, last>>
  BY <1>3
<1>4. CASE wait = 0 /\ StoreItem("status", StatusNow, f)
  <2>1. (UNCHANGED <<rb, wr, err, last>> /\ wait' = 0) \/ Gives("status", StatusNow)
    BY <1>2, <1>4, StatusPlace, StatusNowIs, StoreGives
  <2> QED
    BY <1>2, <1>4, <2>1, StatusPlace, StatusNowIs
<1>5. CASE wait = 0 /\ StoreItem("snapshot", SnapNow, f)
  <2>1. SnapNow \in Seq(Content) /\ Len(SnapNow) = ItemLen["snapshot"]
    BY SnapAfterCall, SnapNowIs
  <2>2. (UNCHANGED <<rb, wr, err, last>> /\ wait' = 0) \/ Gives("snapshot", SnapNow)
    BY <1>2, <1>5, <2>1, StatusPlace, StoreGives
  <2> QED
    BY <1>2, <1>5, <2>1, <2>2, StatusPlace
<1>6. CASE wait = 0 /\ UNCHANGED <<wait, rb, wr, err, last>>
  BY <1>2, <1>6
<1> QED
  BY <1>1, <1>3, <1>4, <1>5, <1>6 DEF Store

\* A call of can_dtc_process.
LEMMA DtcProcessOK ==
  ASSUME IInv, NEW clr, DtcProcess(clr)
  PROVE  IInv'
<1>1. /\ turn = "dtc" /\ turn' = "ee" /\ started' = TRUE /\ kept' = kept \ clr
      /\ UNCHANGED <<ctrl, cur, temp, mem, pend>>
  BY DEF DtcProcess
<1>2. snap' \in [Dtcs -> Content]
  BY SnapAfterCall
<1>3. /\ kept' \subseteq Active /\ kept' \subseteq kept
      /\ \A d \in kept' : sts'[d] \cap {"pending", "confirmed"} # {}
  BY KnownAfterCall
<1>4. KeptOK /\ Phase /\ Requests /\ SuccessIsStored
  BY DEF IInv
<1>5. Stored' = Stored /\ OnStatus' = OnStatus /\ Val' = Val /\ StatusAt' = StatusAt
  BY <1>1 DEF Stored, Status, OnStatus, Val, StatusAt
<1>6. /\ kept' \subseteq Stored' \/ (OnStatus' /\ Len(pend') = 1)
      /\ OnStatus' => /\ kept' \subseteq Codes(Val[StatusAt])'
                      /\ Len(pend') = 1 => kept' = {} \/ mem'[StatusAt] = Erased
  <2>1. Codes(Val[StatusAt])' = Codes(Val[StatusAt])
    BY <1>5 DEF Codes
  <2> QED
    BY <1>1, <1>3, <1>4, <1>5, <2>1 DEF KeptOK
<1>7. \A i \in Items : At(i)' = At(i)
  BY <1>1 DEF At
<1>8. ASSUME UNCHANGED <<rb, wr, err, last>>, wait' \in Nat, wait' <= WrWait, Phase'
      PROVE  IInv'
  <2>1. Types'
    BY <1>1, <1>2, <1>8 DEF IInv, Types
  <2>2. Requests'
    BY <1>1, <1>4, <1>8 DEF Requests, Val, Area
  <2>3. KeptOK'
    BY <1>1, <1>3, <1>4, <1>6, <1>8 DEF KeptOK, Statuses
  <2>4. SuccessIsStored'
    BY <1>4, <1>7, <1>8 DEF SuccessIsStored
  <2> QED
    BY <1>8, <2>1, <2>2, <2>3, <2>4 DEF IInv
<1>9. wait \in Nat /\ wait <= WrWait /\ WrWait \in Nat
  BY Sizes DEF IInv, Types
<1>10. CASE UNCHANGED <<rb, wr, err, last>> /\ wait > 0 /\ wait' = wait - 1
  <2>1. CallsLeft' = CallsLeft
    BY <1>1, <1>9, <1>10 DEF CallsLeft
  <2>2. Phase'
    BY <1>1, <1>4, <1>10, <2>1, PhaseSame
  <2>3. wait' \in Nat /\ wait' <= WrWait
    BY <1>9, <1>10
  <2> QED
    BY <1>8, <1>10, <2>2, <2>3
<1>11. CASE UNCHANGED <<rb, wr, err, last>> /\ wait = 0 /\ wait' = 0 /\ Resting
  <2>1. Phase'
    BY <1>1, <1>11 DEF Phase, Resting
  <2>2. wait' \in Nat /\ wait' <= WrWait
    BY <1>9, <1>11
  <2> QED
    BY <1>8, <1>11, <2>1, <2>2
<1>12. CASE /\ wait = 0 /\ Resting
            /\ \E i \in Items : \E data \in Seq(Content) :
                 /\ Len(data) = ItemLen[i] /\ Gives(i, data)
                 /\ i = "status" => data = StatusNow
  <2>1. PICK i \in Items : \E data \in Seq(Content) :
           /\ Len(data) = ItemLen[i] /\ Gives(i, data)
           /\ i = "status" => data = StatusNow
    BY <1>12
  <2>2. PICK data \in Seq(Content) :
           /\ Len(data) = ItemLen[i] /\ Gives(i, data)
           /\ i = "status" => data = StatusNow
    BY <2>1
  <2>3. /\ err' = [err EXCEPT ![i] = "process"] /\ rb' = <<Header(i)>> \o data
        /\ wr' = [wr EXCEPT !.cnt = WrCntNum] /\ last' = [last EXCEPT ![i] = data]
        /\ wait' = WrWait - 1
    BY <2>2 DEF Gives
  <2>4. pend = <<>> /\ ctrl = "idle" /\ wr.sts = "idle"
    BY <1>4, <1>12 DEF Resting, Requests
  <2>5. CallsFor(i) <= WrWait /\ CallsFor(i) \in Nat /\ CallsFor(i) >= 1
    <3> DEFINE f == FullPages(i)
    <3>1. CallsFor(i) = f + 3 * WrCntNum + 3 /\ f \in Nat /\ WrCntNum \in Nat
      BY CallsAre
    <3> HIDE DEF f
    <3> QED
      BY <3>1, Places
  <2>6. wait' \in Nat /\ wait' <= WrWait /\ CallsLeft' = WrWait
    BY <1>1, <1>9, <2>3, <2>5 DEF CallsLeft
  <2>7. /\ wr' \in [sts : WrSts, cnt : Nat, quotient : Nat, remainder : Nat, page : Nat]
        /\ wr'.sts = "idle" /\ wr'.cnt = WrCntNum
    <3>1. wr \in [sts : WrSts, cnt : Nat, quotient : Nat, remainder : Nat, page : Nat]
      BY DEF IInv, Types, WrSts
    <3>2. WrCntNum \in Nat
      BY Sizes
    <3> QED
      BY <2>3, <2>4, <3>1, <3>2
  <2>8. /\ err' \in [Items -> ErrSts] /\ err'[i] = "process"
        /\ \A j \in Items : j # i => err'[j] = err[j]
    <3>1. err \in [Items -> ErrSts] /\ "process" \in ErrSts
      BY DEF IInv, Types, ErrSts
    <3> QED
      BY <2>3, <3>1
  <2>9. /\ last' \in [Items -> Seq(Content)] /\ last'[i] = data
        /\ \A j \in Items : j # i => last'[j] = last[j]
    <3>1. last \in [Items -> Seq(Content)]
      BY DEF IInv, Types
    <3> QED
      BY <2>3, <3>1
  <2>10. Types'
    <3>1. \A j \in Items : last'[j] = <<>> \/ Len(last'[j]) = ItemLen[j]
      BY <2>2, <2>9 DEF IInv, Types
    <3> QED
      BY <1>1, <1>2, <2>6, <2>7, <2>8, <2>9, <3>1 DEF IInv, Types, WrSts, ErrSts
  <2>11. Phase'
    <3>1. data # <<>>
      <4>1. Len(<<>>) = 0
        OBVIOUS
      <4> QED
        BY <2>2, <4>1, Places
    <3>2. Room(CallsFor(i))'
      <4>1. CallsFor(i)' = CallsFor(i)
        BY DEF CallsFor, FullPages
      <4> QED
        BY <2>5, <2>6, <4>1 DEF Room
    <3>3. Given(i)'
      BY <1>1, <2>3, <2>4, <2>7, <2>8, <2>9, <3>1, <3>2 DEF Given, Header
    <3> QED
      BY <3>3 DEF Phase
  <2>12. Requests' /\ ~OnStatus'
    BY <1>1, <2>4 DEF Requests, OnStatus
  <2>13. KeptOK'
    <3>1. kept' \subseteq Stored'
      BY <1>6, <2>12
    <3>2. last'["status"] # <<>> =>
            last'["status"][1] \in Statuses /\ kept' \subseteq last'["status"][1].codes
      <4>1. CASE i = "status"
        <5>1. last'["status"][1] = StatusCell({d \in Active : sts'[d] # {}})
              /\ last'["status"][1] \in Statuses
          BY <2>2, <2>9, <4>1, StatusNowIs
        <5>2. last'["status"][1].codes = {d \in Active : sts'[d] # {}}
          BY <5>1, Cells1
        <5> QED
          BY <1>3, <5>1, <5>2
      <4>2. CASE i # "status"
        BY <1>3, <1>4, <2>9, <4>2, StatusPlace DEF KeptOK
      <4> QED
        BY <4>1, <4>2
    <3> QED
      BY <1>3, <2>12, <3>1, <3>2 DEF KeptOK, Statuses
  <2>14. SuccessIsStored'
    BY <1>4, <1>7, <2>8, <2>9 DEF SuccessIsStored
  <2> QED
    BY <2>10, <2>11, <2>12, <2>13, <2>14 DEF IInv
<1> QED
  BY <1>10, <1>11, <1>12, StoreOutcome


\* Every step of the whole.
LEMMA NextOK ==
  ASSUME IInv, [Next]_vars
  PROVE  IInv'
<1>1. CASE Dtc
  BY <1>1, DtcProcessOK DEF Dtc
<1>2. CASE DtcUser
  BY <1>2, DtcUserOK
<1>3. CASE EeTask
  BY <1>3, EeTaskOK
<1>4. CASE FlashTask
  BY <1>4, FlashDoneOK, FlashFailOK DEF FlashTask
<1>5. CASE PowerCut
  BY <1>5, PowerCutOK
<1>6. CASE UNCHANGED vars
  <2>1. UNCHANGED <<rb, ctrl, wr, cur, temp, err, mem, pend, sts, snap, wait, started, turn, last, kept>>
    BY <1>6 DEF vars, eeVars, dtcVars
  <2>2. Types'
    BY <2>1 DEF IInv, Types
  <2>3. Phase'
    BY <2>1, PhaseSame DEF IInv, CallsLeft
  <2>4. Requests'
    BY <2>1 DEF IInv, Requests, Val, Area
  <2>5. KeptOK'
    BY <2>1, KeptSame DEF IInv
  <2>6. SuccessIsStored'
    BY <2>1, StoredSame DEF IInv, Types
  <2> QED
    BY <2>2, <2>3, <2>4, <2>5, <2>6 DEF IInv
<1> QED
  BY <1>1, <1>2, <1>3, <1>4, <1>5, <1>6 DEF Next

\* The invariant holds throughout.
LEMMA Always == Spec => []IInv
<1>1. Init => IInv
  BY InitOK
<1>2. IInv /\ [Next]_vars => IInv'
  BY NextOK
<1> QED
  BY <1>1, <1>2, PTL DEF Spec
-----------------------------------------------------------------------------
\* Writes, retries and the whole page of a short item stay in the item's own area.
THEOREM WritesStayInArea == Spec => []StaysInArea
<1>1. IInv => StaysInArea
  <2> SUFFICES ASSUME IInv, NEW n \in DOMAIN pend
               PROVE  DOMAIN pend[n].val \subseteq Area(cur)
    BY DEF StaysInArea, Area
  <2> DEFINE v == Val
  <2>1. pend # <<>>
    OBVIOUS
  <2>2. DOMAIN v \subseteq Area(cur) /\ (pend = <<Write(v)>> \/ pend = <<Erase(v), Write(v)>>)
    BY <2>1 DEF IInv, Requests
  <2>3. Write(v).val = v /\ Erase(v).val = v
    BY QueueParts
  <2> HIDE DEF v
  <2>4. pend[n].val = v
    <3>1. CASE pend = <<Write(v)>>
      BY <2>3, <3>1
    <3>2. CASE pend = <<Erase(v), Write(v)>>
      BY <2>3, <3>2
    <3> QED
      BY <2>2, <3>1, <3>2
  <2> QED
    BY <2>2, <2>4
<1> QED
  BY <1>1, Always, PTL

\* The pause between two stores leaves room for every frame and its header.
THEOREM FramesAlwaysWhole == Spec => []FramesWhole
<1>1. IInv => FramesWhole
  <2> SUFFICES ASSUME IInv
               PROVE  FramesWhole
    OBVIOUS
  <2>1. \A i \in Items : err[i] # "ovf"
    BY DEF IInv, Types
  <2>2. ASSUME rb # <<>>, ~(ctrl = "wr" /\ wr.sts = "idle")
        PROVE  \E i \in Items : Head(rb) = Header(i) /\ Len(rb) = 1 + ItemLen[i]
    <3>1. PICK i \in Items : Given(i)
      BY <2>2 DEF IInv, Phase, Resting, Taken, Writing, Written, Checking, Loaded
    <3>2. rb = <<Header(i)>> \o last[i] /\ last[i] \in Seq(Content) /\ Len(last[i]) = ItemLen[i]
      BY <3>1 DEF Given, IInv, Types
    <3>3. Head(rb) = Header(i) /\ Len(rb) = 1 + Len(last[i])
      BY <3>2, FrameParts
    <3> QED
      BY <3>2, <3>3
  <2> QED
    BY <2>1, <2>2 DEF FramesWhole
<1> QED
  BY <1>1, Always, PTL

\* What is reported as written is in the flash as it was given.
THEOREM SuccessAlwaysStored == Spec => []SuccessIsStored
<1>1. IInv => SuccessIsStored
  BY DEF IInv
<1> QED
  BY <1>1, Always, PTL

\* A lasting fault, once stored, is not forgotten.
THEOREM AlwaysRemembered == Spec => []Remembered
<1>1. IInv => Remembered
  <2> SUFFICES ASSUME IInv
               PROVE  Remembered
    OBVIOUS
  <2>1. OnStatus \/ Len(pend) = 2 \/ kept \subseteq Stored
    BY DEF IInv, KeptOK
  <2>2. started => kept = Lasting(kept)
    BY DEF IInv, KeptOK, Lasting
  <2> QED
    BY <2>1, <2>2 DEF Remembered
<1> QED
  BY <1>1, Always, PTL
=============================================================================
