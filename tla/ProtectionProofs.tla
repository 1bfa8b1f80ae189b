--------------------------- MODULE ProtectionProofs ---------------------------
(***************************************************************************)
(* The heater's lockout for every value of the calibration: once the count *)
(* of overheatings or of dry burns is used up, the heater stays off.       *)
(*                                                                         *)
(* HeaterLocked speaks of one step; what makes it hold is that the counts  *)
(* never fall and that a used-up count comes with a fault that nothing     *)
(* takes back: Barred.  An overheating is counted in the pass that raises  *)
(* the fault, and the recovery looks at the count after it, which for the  *)
(* outlet includes a trip of the inlet in the same pass.                   *)
(***************************************************************************)
EXTENDS Protection, TLAPS

TempRecords ==
  [reading : {"ok", "warm", "hot", "open", "short"}, hot : Int, cool : Int, over : BOOLEAN,
   off : Int, broken : BOOLEAN]
DryRecords ==
  [reading : {"small", "mid", "steep"}, steep : Int, small : Int, result : BOOLEAN,
   fault : BOOLEAN, count : Nat]

\* What of the state has to be well formed for the rest.
Shape ==
  /\ lock \in Nat
  /\ temp \in [Sensors -> TempRecords]
  /\ dry \in DryRecords
\* A used-up count comes with its fault.
Barred ==
  /\ lock >= TempLimit => temp["in"].over \/ temp["out"].over
  /\ dry.count >= DryLimit => dry.fault
Off == LockedOut => ~heating
IInv == Shape /\ Barred /\ Off

\* The calibrated delays are numbers, and counting modulo one stays among them.
LEMMA Numbers == Cfm \in Nat \ {0} /\ Rec \in Nat /\ \A x \in Int : (x + 1) % Cfm \in Int
<1>1. Cfm \in Nat \ {0} /\ Rec \in Nat
  BY ProtectionAssumption DEF ProtectionAssumption
<1>2. \A x \in Int : (x + 1) % Cfm \in Int
  BY <1>1
<1> QED
  BY <1>1, <1>2

\* What the counters and flags are reset to.
LEMMA Constants == 0 \in Int /\ FALSE \in BOOLEAN
  OBVIOUS

\* Checking whether a sensor is broken leaves its reading, its count and its overheating alone.
LEMMA CheckedKeeps ==
  ASSUME NEW t \in TempRecords
  PROVE  /\ Checked(t) \in TempRecords
         /\ Checked(t).over = t.over /\ Checked(t).hot = t.hot
         /\ Checked(t).reading = t.reading /\ Checked(t).cool = t.cool
<1>1. CASE t.reading \notin Broken
  <2>1. Checked(t) = [t EXCEPT !.off = 0, !.broken = FALSE]
    BY <1>1 DEF Checked
  <2>2. PICK n \in Int, b \in BOOLEAN : Checked(t) = [t EXCEPT !.off = n, !.broken = b]
    BY <2>1, Constants, Zenon
  <2> QED
    BY <2>2 DEF TempRecords
<1>2. CASE t.reading \in Broken
  <2>1. (t.off + 1) % Cfm \in Int /\ (t.broken \/ t.off + 1 = Cfm) \in BOOLEAN
    BY Numbers DEF TempRecords
  <2>2. PICK n \in Int, b \in BOOLEAN : Checked(t) = [t EXCEPT !.off = n, !.broken = b]
    BY <1>2, <2>1 DEF Checked
  <2> QED
    BY <2>2 DEF TempRecords
<1> QED
  BY <1>1, <1>2

\* An overheating that may not recover stays, and a confirmed one that trips is one.
LEMMA OverheatKeeps ==
  ASSUME NEW t \in TempRecords, NEW trips \in BOOLEAN, NEW mayRecover \in BOOLEAN
  PROVE  /\ Overheat(t, trips, mayRecover) \in TempRecords
         /\ t.over /\ ~mayRecover => Overheat(t, trips, mayRecover).over
         /\ trips /\ Confirms(t) => Overheat(t, trips, mayRecover).over
<1> DEFINE o == Overheat(t, trips, mayRecover)
<1>1. CASE t.reading = "hot"
  <2>1. (t.hot + 1) % Cfm \in Int /\ (t.over \/ (trips /\ Confirms(t))) \in BOOLEAN
    BY Numbers DEF TempRecords
  <2>2. PICK n \in Int, b \in BOOLEAN :
          o = [t EXCEPT !.hot = n, !.over = b] /\ b = (t.over \/ (trips /\ Confirms(t)))
    BY <1>1, <2>1 DEF Overheat
  <2> QED
    BY <2>2 DEF TempRecords
<1>2. CASE t.reading # "hot" /\ t.over /\ t.reading \in Cool
  <2>1. CASE t.cool + 1 >= Rec /\ mayRecover
    <3>1. o = [t EXCEPT !.cool = 0, !.over = FALSE]
      BY <1>2, <2>1 DEF Overheat
    <3>2. PICK n \in Int, b \in BOOLEAN : o = [t EXCEPT !.cool = n, !.over = b]
      BY <3>1, Constants, Zenon
    <3> QED
      BY <1>2, <2>1, <3>2 DEF Confirms, TempRecords
  <2>2. CASE ~(t.cool + 1 >= Rec /\ mayRecover)
    <3>1. Min2(t.cool + 1, Rec) \in Int
      BY Numbers DEF Min2, TempRecords
    <3>2. PICK n \in Int : o = [t EXCEPT !.cool = n]
      BY <1>2, <2>2, <3>1 DEF Overheat
    <3> QED
      BY <1>2, <3>2 DEF Confirms, TempRecords
  <2> QED
    BY <2>1, <2>2
<1>3. CASE t.reading # "hot" /\ ~(t.over /\ t.reading \in Cool)
  <2>1. o = [t EXCEPT !.hot = 0, !.cool = 0]
    BY <1>3 DEF Overheat
  <2>2. PICK n \in Int, m \in Int : o = [t EXCEPT !.hot = n, !.cool = m]
    BY <2>1, Constants, Zenon
  <2> QED
    BY <1>3, <2>2 DEF Confirms, TempRecords
<1> QED
  BY <1>1, <1>2, <1>3

\* OutAndIn only times; TempOffsetDetect's fault comes with the count and stays at its limit.
LEMMA OutAndInKeeps ==
  ASSUME dry \in DryRecords
  PROVE  OutAndIn \in DryRecords /\ OutAndIn.count = dry.count /\ OutAndIn.fault = dry.fault
<1> DEFINE steep == IF dry.reading = "steep" THEN Min2(dry.steep + 1, Cfm) ELSE 0
           calm  == dry.reading = "small" /\ dry.result
           over  == calm /\ dry.small + 1 >= Cfm
           small == IF calm /\ ~over THEN dry.small + 1 ELSE 0
           result == (dry.result \/ (dry.reading = "steep" /\ dry.steep + 1 >= Cfm)) /\ ~over
<1>1. steep \in Int /\ small \in Int /\ result \in BOOLEAN
  BY Numbers DEF Min2, DryRecords
<1>2. OutAndIn = [dry EXCEPT !.steep = steep, !.small = small, !.result = result]
  BY DEF OutAndIn
<1>3. PICK n \in Int, m \in Int, b \in BOOLEAN :
        OutAndIn = [dry EXCEPT !.steep = n, !.small = m, !.result = b]
  <2> HIDE DEF steep, small, result
  <2> QED
    BY <1>1, <1>2, Zenon
<1> QED
  BY <1>3 DEF DryRecords

\* At its limit the count comes with the fault, and the fault stays.
LEMMA DryKeeps ==
  ASSUME dry \in DryRecords, dry.count >= DryLimit => dry.fault
  PROVE  /\ TempOffsetDetect \in DryRecords /\ TempOffsetDetect.count >= dry.count
         /\ TempOffsetDetect.count >= DryLimit => TempOffsetDetect.fault
<1> DEFINE d == OutAndIn
           e == TempOffsetDetect
<1>1. d \in DryRecords /\ d.count = dry.count /\ d.fault = dry.fault
  BY OutAndInKeeps
<1>2. DryLimit \in Nat
  BY ProtectionAssumption DEF ProtectionAssumption
<1> HIDE DEF d
<1>3. CASE d.result /\ cmd'.ptc /\ ~d.fault
  <2>1. e = [d EXCEPT !.count = d.count + 1, !.fault = TRUE]
    BY <1>3 DEF d, TempOffsetDetect
  <2>2. PICK n \in Nat, b \in BOOLEAN :
          e = [d EXCEPT !.count = n, !.fault = b] /\ n = d.count + 1 /\ b = TRUE
    <3>1. d.count + 1 \in Nat /\ TRUE \in BOOLEAN
      BY <1>1 DEF DryRecords
    <3> QED
      BY <2>1, <3>1, Zenon
  <2>3. PICK m \in Nat, c \in BOOLEAN : e = [d EXCEPT !.count = m, !.fault = c] /\ m = n /\ c = b
    BY <2>2, Zenon
  <2>4. e \in DryRecords /\ e.count = m /\ e.fault = c
    <3>1. e = [d EXCEPT !.count = m, !.fault = c]
      BY <2>3
    <3> QED
      BY <1>1, <3>1 DEF DryRecords
  <2> QED
    <3>1. e.count = dry.count + 1 /\ e.fault
      BY <1>1, <2>2, <2>3, <2>4
    <3>2. dry.count \in Nat
      BY DEF DryRecords
    <3> QED
      BY <2>4, <3>1, <3>2
<1>4. CASE ~d.result /\ d.count < DryLimit
  <2>1. e = [d EXCEPT !.fault = FALSE]
    BY <1>4 DEF d, TempOffsetDetect
  <2>2. PICK b \in BOOLEAN : e = [d EXCEPT !.fault = b]
    BY <2>1, Constants, Zenon
  <2> QED
    BY <1>1, <1>2, <1>4, <2>2 DEF DryRecords
<1>5. CASE e = d
  BY <1>1, <1>2, <1>5 DEF DryRecords
<1>6. (d.result /\ cmd'.ptc /\ ~d.fault) \/ (~d.result /\ d.count < DryLimit) \/ e = d
  BY DEF d, TempOffsetDetect
<1> QED
  BY <1>3, <1>4, <1>5, <1>6

\* A reading taken replaces readings only: what the pass made of the faults is kept.
LEMMA PassKeeps ==
  ASSUME Shape, frame \in [run : BOOLEAN, ptc : BOOLEAN, clear : BOOLEAN], Task_1ms_cycle
  PROVE  /\ \A s \in Sensors : /\ Temperatures(s) \in TempRecords
                               /\ temp'[s].over = Temperatures(s).over
         /\ temp' \in [Sensors -> TempRecords]
<1>1. cmd'.ptc \in BOOLEAN
  BY DEF Task_1ms_cycle, RecDataAnalyze
<1>2. ASSUME NEW s \in Sensors PROVE Temperatures(s) \in TempRecords
  <2>1. temp[s] \in TempRecords /\ Checked(temp[s]) \in TempRecords
    BY CheckedKeeps DEF Shape
  <2>2. \A n : (n < TempLimit) \in BOOLEAN
    OBVIOUS
  <2> QED
    BY <1>1, <2>1, <2>2, OverheatKeeps DEF Temperatures, Err_event_temple
<1>3. CASE ~Due
  <2>1. temp' = [s \in Sensors |-> Temperatures(s)]
    BY <1>3 DEF Task_1ms_cycle, NoReading
  <2> QED
    BY <1>2, <2>1
<1>4. CASE Due
  <2>1. PICK r \in [Sensors -> {"ok", "warm", "hot", "open", "short"}] :
          temp' = [s \in Sensors |-> [Temperatures(s) EXCEPT !.reading = r[s]]]
    BY <1>4 DEF Task_1ms_cycle, getDebugInfoData_100ms, Readings
  <2>2. ASSUME NEW s \in Sensors
        PROVE  temp'[s] \in TempRecords /\ temp'[s].over = Temperatures(s).over
    <3>1. PICK t \in TempRecords, w \in {"ok", "warm", "hot", "open", "short"} :
            t = Temperatures(s) /\ temp'[s] = [t EXCEPT !.reading = w]
      BY <1>2, <2>1
    <3> QED
      BY <3>1 DEF TempRecords
  <2> QED
    BY <1>2, <2>1, <2>2
<1> QED
  BY <1>2, <1>3, <1>4

\* The frame is taken along for the type of the command.
Inv == IInv /\ frame \in [run : BOOLEAN, ptc : BOOLEAN, clear : BOOLEAN]

\* The counts never fall, and a used-up count keeps its fault.
LEMMA PassPreserves ==
  ASSUME Inv, Task_1ms_cycle
  PROVE  Inv' /\ lock' >= lock /\ dry'.count >= dry.count
<1> USE DEF Inv, IInv
<1>1. cmd'.ptc \in BOOLEAN
  BY DEF Task_1ms_cycle, RecDataAnalyze
<1>2. Trip("in") \in {0, 1} /\ Trip("out") \in {0, 1} /\ lock' = lock + Trip("in") + Trip("out")
  BY DEF Task_1ms_cycle, LockCount, Trip
<1>3. lock \in Nat /\ TempLimit \in Nat
  BY ProtectionAssumption DEF Shape, ProtectionAssumption
<1>4. lock' \in Nat /\ lock' >= lock
  BY <1>2, <1>3
<1>5. dry' \in DryRecords /\ dry'.count >= dry.count /\ (dry'.count >= DryLimit => dry'.fault)
  <2> DEFINE d == TempOffsetDetect
  <2>1. d \in DryRecords /\ d.count >= dry.count /\ (d.count >= DryLimit => d.fault)
    BY DryKeeps DEF Shape, Barred
  <2>2. CASE ~Due
    BY <2>1, <2>2 DEF Task_1ms_cycle, NoReading
  <2>3. CASE Due
    <3>1. PICK g \in {"small", "mid", "steep"} : dry' = [d EXCEPT !.reading = g]
      BY <2>3 DEF Task_1ms_cycle, getDebugInfoData_100ms, Reads
    <3> HIDE DEF d
    <3>2. dry' \in DryRecords /\ dry'.count = d.count /\ dry'.fault = d.fault
      BY <2>1, <3>1 DEF DryRecords
    <3> QED
      BY <2>1, <3>2
  <2> QED
    BY <2>2, <2>3
<1>6. lock' >= TempLimit => temp'["in"].over \/ temp'["out"].over
  <2> SUFFICES ASSUME lock' >= TempLimit
               PROVE  temp'["in"].over \/ temp'["out"].over
    OBVIOUS
  <2> DEFINE Heated(s) == Checked(temp[s])
  <2>1. ASSUME NEW s \in {"in", "out"}
        PROVE  /\ Heated(s) \in TempRecords /\ Heated(s).over = temp[s].over
               /\ Confirms(Heated(s)) <=> Confirms(temp[s])
    BY CheckedKeeps DEF Shape, Sensors, Confirms
  <2>2. temp'["in"].over = Overheat(Heated("in"), cmd'.ptc, lock < TempLimit).over
    BY PassKeeps DEF Sensors, Temperatures, Err_event_temple
  <2>3. temp'["out"].over = Overheat(Heated("out"), cmd'.ptc, lock + Trip("in") < TempLimit).over
    BY PassKeeps DEF Sensors, Temperatures, Err_event_temple
  <2>4. (lock < TempLimit) \in BOOLEAN /\ (lock + Trip("in") < TempLimit) \in BOOLEAN
    OBVIOUS
  <2> HIDE DEF Heated
  <2>5. /\ temp["in"].over /\ ~(lock < TempLimit) => temp'["in"].over
        /\ cmd'.ptc /\ Confirms(temp["in"]) => temp'["in"].over
    BY <1>1, <2>1, <2>2, <2>4, OverheatKeeps
  <2>6. /\ temp["out"].over /\ ~(lock + Trip("in") < TempLimit) => temp'["out"].over
        /\ cmd'.ptc /\ Confirms(temp["out"]) => temp'["out"].over
    BY <1>1, <2>1, <2>3, <2>4, OverheatKeeps
  <2>7. CASE lock >= TempLimit
    BY <1>2, <1>3, <2>5, <2>6, <2>7 DEF Barred
  <2>8. CASE Trip("in") = 1
    BY <2>5, <2>8 DEF Trip
  <2>9. CASE Trip("out") = 1
    BY <2>6, <2>9 DEF Trip
  <2> QED
    BY <1>2, <1>3, <2>7, <2>8, <2>9
<1>7. LockedOut' => ~heating'
  BY <1>5, <1>6 DEF LockedOut, Task_1ms_cycle, wptc_pwm_gradient_control
<1> QED
  BY <1>4, <1>5, <1>6, <1>7, PassKeeps DEF Shape, Barred, Off, Task_1ms_cycle

\* At the start nothing is counted and the heater is off.
LEMMA InitInv == Init => Inv
<1> SUFFICES ASSUME Init PROVE Inv
  OBVIOUS
<1>1. TempLimit \in Nat \ {0} /\ DryLimit \in Nat \ {0}
  BY ProtectionAssumption DEF ProtectionAssumption
<1>2. Shape
  BY DEF Init, Shape, TempRecords, DryRecords
<1>3. Barred
  BY <1>1 DEF Init, Barred
<1> QED
  BY <1>2, <1>3 DEF Inv, IInv, Off, Init

\* A pass preserves it, and a frame touches nothing of it.
LEMMA NextInv == Inv /\ [Next]_vars => Inv'
<1> SUFFICES ASSUME Inv, [Next]_vars PROVE Inv'
  OBVIOUS
<1>1. CASE Task_1ms_cycle
  BY <1>1, PassPreserves
<1>2. CASE Frame
  BY <1>2 DEF Inv, IInv, Shape, Barred, Off, LockedOut, Frame
<1>3. CASE UNCHANGED vars
  BY <1>3 DEF Inv, IInv, Shape, Barred, Off, LockedOut, vars
<1> QED
  BY <1>1, <1>2, <1>3 DEF Next

\* The counts do not fall, so that a heater locked out before a step is so after it, and off.
LEMMA StepLocked == Inv /\ [Next]_vars => [LockedOut => ~heating']_vars
<1> SUFFICES ASSUME Inv, Next, LockedOut PROVE ~heating'
  OBVIOUS
<1>1. Inv'
  BY NextInv
<1>2. LockedOut'
  <2>1. CASE Task_1ms_cycle
    <3>1. lock' >= lock /\ dry'.count >= dry.count
      BY <2>1, PassPreserves
    <3>2. lock \in Nat /\ lock' \in Nat /\ dry.count \in Nat /\ dry'.count \in Nat
      BY <1>1 DEF Inv, IInv, Shape, DryRecords
    <3>3. TempLimit \in Nat /\ DryLimit \in Nat
      BY ProtectionAssumption DEF ProtectionAssumption
    <3> QED
      BY <3>1, <3>2, <3>3 DEF LockedOut
  <2>2. CASE Frame
    BY <2>2 DEF LockedOut, Frame
  <2> QED
    BY <2>1, <2>2 DEF Next
<1> QED
  BY <1>1, <1>2 DEF Inv, IInv, Off

\* The heater stays off for good once its overheatings or dry burns are used up, whatever the
\* limits, delays and period, the frames and the readings.
THEOREM HeaterStaysLocked == Spec => HeaterLocked
<1>1. Init => Inv
  BY InitInv
<1>2. Inv /\ [Next]_vars => Inv'
  BY NextInv
<1>3. Inv /\ [Next]_vars => [LockedOut => ~heating']_vars
  BY StepLocked
<1> QED
  BY <1>1, <1>2, <1>3, PTL DEF Spec, HeaterLocked

(***************************************************************************)
(* The heater stops in time, for every value of the calibration.           *)
(*                                                                         *)
(* burnt counts the passes that a hazard has been heated through, and each *)
(* hazard has a counter of the code that must not fall behind: Behind.  A  *)
(* pass that brings the counter to its limit confirms the fault and leaves *)
(* the heater off.  The counters of one kind start anew when the hazard is *)
(* gone, so does burnt; but they go on where the heater is off.            *)
(***************************************************************************)
BusRecords ==
  [reading : {"low", "sag", "ok", "swell", "high"}, over : Int, overBack : Int, under : Int,
   underBack : Int, ov : BOOLEAN, uv : BOOLEAN]

\* The counters stay below their limits.
Counting ==
  /\ can \in [count : Nat, lost : BOOLEAN] /\ can.count <= Tout
  /\ bus \in BusRecords /\ bus.under \in 0 .. VCfm - 1 /\ bus.over \in 0 .. VCfm - 1
  /\ \A s \in Sensors : temp[s].hot \in 0 .. Cfm - 1 /\ temp[s].off \in 0 .. Cfm - 1
  /\ \A s \in {"out", "pcb"} : temp[s].reading \notin Broken
  /\ dry.steep \in Nat
\* The vehicle has asked for heat only if it has been heard.
HeatAsked == frame.ptc => rx \/ can.count >= 1
\* No hazard has been heated through for longer than the code has counted.
Behind ==
  /\ burnt \in [HeaterHazards -> Nat]
  /\ burnt["in"] <= temp["in"].hot
  /\ burnt["out"] <= temp["out"].hot
  /\ burnt["broken"] <= temp["in"].off
  /\ burnt["steep"] <= dry.steep /\ burnt["steep"] < Cfm
  /\ burnt["low"] <= bus.under
  /\ burnt["silent"] = 0 \/ burnt["silent"] < can.count
HInv == Inv /\ Counting /\ HeatAsked /\ Behind

\* Every delay is at least one pass.
LEMMA Delays == {Cfm, VCfm, Tout, ICfm, PCfm} \subseteq Nat \ {0}
  BY ProtectionAssumption DEF ProtectionAssumption

\* A counter modulo its limit goes on by one, or has reached the limit.
LEMMA Modulo ==
  ASSUME NEW n \in Nat \ {0}, NEW x \in 0 .. n - 1
  PROVE  (x + 1) % n \in 0 .. n - 1 /\ (x + 1 # n => (x + 1) % n = x + 1)
  OBVIOUS

\* A broken sensor is counted, or reported.
LEMMA CheckedCounts ==
  ASSUME NEW t \in TempRecords, t.off \in 0 .. Cfm - 1
  PROVE  /\ Checked(t).off \in 0 .. Cfm - 1
         /\ t.reading \in Broken /\ ~Checked(t).broken => Checked(t).off = t.off + 1
<1>0. Cfm \in Nat \ {0}
  BY Delays
<1>1. CASE t.reading \notin Broken
  <2>1. Checked(t) = [t EXCEPT !.off = 0, !.broken = FALSE]
    BY <1>1 DEF Checked
  <2>2. PICK n \in Int, b \in BOOLEAN : Checked(t) = [t EXCEPT !.off = n, !.broken = b] /\ n = 0
    BY <2>1, Constants, Zenon
  <2> QED
    BY <1>0, <1>1, <2>2 DEF TempRecords
<1>2. CASE t.reading \in Broken
  <2>1. (t.off + 1) % Cfm \in Int /\ (t.broken \/ t.off + 1 = Cfm) \in BOOLEAN
    BY Numbers DEF TempRecords
  <2>2. PICK n \in Int, b \in BOOLEAN :
          /\ Checked(t) = [t EXCEPT !.off = n, !.broken = b]
          /\ n = (t.off + 1) % Cfm /\ b = (t.broken \/ t.off + 1 = Cfm)
    BY <1>2, <2>1 DEF Checked
  <2>3. Checked(t).off = n /\ Checked(t).broken = b
    BY <2>2 DEF TempRecords
  <2> QED
    BY <1>0, <2>2, <2>3, Modulo
<1> QED
  BY <1>1, <1>2

\* An overheating that trips is counted, or a fault; a broken sensor is let alone.
LEMMA OverheatCounts ==
  ASSUME NEW t \in TempRecords, NEW trips \in BOOLEAN, NEW mayRecover \in BOOLEAN,
         t.hot \in 0 .. Cfm - 1
  PROVE  LET o == Overheat(t, trips, mayRecover) IN
         /\ o.hot \in 0 .. Cfm - 1 /\ o.off = t.off /\ o.broken = t.broken
         /\ t.reading = "hot" /\ trips /\ ~o.over => o.hot = t.hot + 1 /\ ~t.over
         /\ o.reading = t.reading
<1> DEFINE o == Overheat(t, trips, mayRecover)
<1>0. Cfm \in Nat \ {0}
  BY Delays
<1>1. CASE t.reading = "hot"
  <2>1. (t.hot + 1) % Cfm \in Int /\ (t.over \/ (trips /\ Confirms(t))) \in BOOLEAN
    BY Numbers DEF TempRecords
  <2>2. PICK n \in Int, b \in BOOLEAN :
          /\ o = [t EXCEPT !.hot = n, !.over = b]
          /\ n = (t.hot + 1) % Cfm /\ b = (t.over \/ (trips /\ Confirms(t)))
    BY <1>1, <2>1 DEF Overheat
  <2>3. /\ o.hot = n /\ o.over = b /\ o.off = t.off /\ o.broken = t.broken
        /\ o.reading = t.reading
    BY <2>2 DEF TempRecords
  <2>4. n \in 0 .. Cfm - 1 /\ (t.hot + 1 # Cfm => n = t.hot + 1)
    BY <1>0, <2>2, Modulo
  <2>5. trips /\ ~b => t.hot + 1 # Cfm /\ ~t.over
    BY <1>1, <2>2 DEF Confirms
  <2> HIDE DEF o
  <2> QED
    BY <2>3, <2>4, <2>5 DEF o
<1>2. CASE t.reading # "hot" /\ t.over /\ t.reading \in Cool
  <2>1. CASE t.cool + 1 >= Rec /\ mayRecover
    <3>1. o = [t EXCEPT !.cool = 0, !.over = FALSE]
      BY <1>2, <2>1 DEF Overheat
    <3>2. PICK n \in Int, b \in BOOLEAN : o = [t EXCEPT !.cool = n, !.over = b]
      BY <3>1, Constants, Zenon
    <3> QED
      BY <1>2, <3>2 DEF TempRecords
  <2>2. CASE ~(t.cool + 1 >= Rec /\ mayRecover)
    <3>1. Min2(t.cool + 1, Rec) \in Int
      BY Numbers DEF Min2, TempRecords
    <3>2. PICK n \in Int : o = [t EXCEPT !.cool = n]
      BY <1>2, <2>2, <3>1 DEF Overheat
    <3> QED
      BY <1>2, <3>2 DEF TempRecords
  <2> QED
    BY <2>1, <2>2
<1>3. CASE t.reading # "hot" /\ ~(t.over /\ t.reading \in Cool)
  <2>1. o = [t EXCEPT !.hot = 0, !.cool = 0]
    BY <1>3 DEF Overheat
  <2>2. PICK n \in Int, m \in Int : o = [t EXCEPT !.hot = n, !.cool = m] /\ n = 0
    BY <2>1, Constants, Zenon
  <2> QED
    BY <1>0, <1>3, <2>2 DEF TempRecords
<1> QED
  BY <1>1, <1>2, <1>3

\* A pass changes of the temperatures what the code counts, and the readings it takes.
LEMMA PassTakes ==
  ASSUME Inv, Counting, Task_1ms_cycle, NEW s \in Sensors
  PROVE  LET t == Temperatures(s) IN
         /\ temp'[s].hot = t.hot /\ temp'[s].off = t.off /\ temp'[s].over = t.over
         /\ temp'[s].broken = t.broken
         /\ s # "in" => temp'[s].reading = t.reading \/ temp'[s].reading \notin Broken
<1> DEFINE t == Temperatures(s)
<1>0. t \in TempRecords
  BY PassKeeps DEF Inv, IInv
<1>1. CASE ~Due
  <2>1. temp'[s] = t
    BY <1>1 DEF Task_1ms_cycle, NoReading
  <2> QED
    BY <2>1
<1>2. CASE Due
  <2>1. PICK r \in Readings : temp'[s] = [t EXCEPT !.reading = r[s]]
    BY <1>2 DEF Task_1ms_cycle, getDebugInfoData_100ms
  <2>2. r[s] \in {"ok", "warm", "hot", "open", "short"} /\ (s # "in" => r[s] \notin Broken)
    BY DEF Readings, Reads, Sensors, Broken
  <2>3. PICK u \in TempRecords, w \in {"ok", "warm", "hot", "open", "short"} :
          u = Temperatures(s) /\ w = r[s] /\ temp'[s] = [u EXCEPT !.reading = w]
    BY <1>0, <2>1, <2>2
  <2>4. /\ temp'[s].hot = u.hot /\ temp'[s].off = u.off /\ temp'[s].over = u.over
        /\ temp'[s].broken = u.broken /\ temp'[s].reading = w
    BY <2>3 DEF TempRecords
  <2> QED
    BY <2>2, <2>3, <2>4
<1> QED
  BY <1>1, <1>2

\* The counters of the temperatures keep to their limits; while the heater is left on they go
\* on through a hazard.
LEMMA TemperaturesCount ==
  ASSUME Inv, Counting, Task_1ms_cycle
  PROVE  /\ \A s \in Sensors : temp'[s].hot \in 0 .. Cfm - 1 /\ temp'[s].off \in 0 .. Cfm - 1
         /\ \A s \in {"out", "pcb"} : temp'[s].reading \notin Broken
         /\ \A s \in {"in", "out"} :
              temp[s].reading = "hot" /\ heating' => temp'[s].hot = temp[s].hot + 1
         /\ temp["in"].reading \in Broken /\ heating' => temp'["in"].off = temp["in"].off + 1
         /\ temp["pcb"].reading = "hot" /\ ~temp'["pcb"].over
            => temp'["pcb"].hot = temp["pcb"].hot + 1 /\ ~temp["pcb"].over
<1>1. cmd'.ptc \in BOOLEAN
  BY DEF Inv, Task_1ms_cycle, RecDataAnalyze
<1>2. /\ \A n : (n < TempLimit) \in BOOLEAN
      /\ \A s \in Sensors : temp[s] \in TempRecords
      /\ \A s \in Sensors : temp[s].hot \in 0 .. Cfm - 1 /\ temp[s].off \in 0 .. Cfm - 1
  BY DEF Inv, IInv, Shape, Counting
<1>3. ASSUME NEW s \in {"in", "out"}
      PROVE  /\ temp'[s].hot \in 0 .. Cfm - 1 /\ temp'[s].off \in 0 .. Cfm - 1
             /\ Temperatures(s).reading = temp[s].reading
             /\ temp[s].reading = "hot" /\ cmd'.ptc /\ ~temp'[s].over
                => temp'[s].hot = temp[s].hot + 1
             /\ temp[s].reading \in Broken /\ ~temp'[s].broken => temp'[s].off = temp[s].off + 1
  <2> DEFINE c == Checked(temp[s])
  <2>1. /\ c \in TempRecords /\ c.over = temp[s].over /\ c.hot = temp[s].hot
        /\ c.reading = temp[s].reading
    BY <1>2, CheckedKeeps DEF Sensors
  <2>2. /\ c.off \in 0 .. Cfm - 1
        /\ temp[s].reading \in Broken /\ ~c.broken => c.off = temp[s].off + 1
    BY <1>2, CheckedCounts DEF Sensors
  <2>3. PICK may \in BOOLEAN : Temperatures(s) = Overheat(c, cmd'.ptc, may)
    BY <1>2 DEF Temperatures, Err_event_temple
  <2> HIDE DEF c
  <2>4. LET o == Temperatures(s) IN
        /\ o.hot \in 0 .. Cfm - 1 /\ o.off = c.off /\ o.broken = c.broken
        /\ c.reading = "hot" /\ cmd'.ptc /\ ~o.over => o.hot = c.hot + 1
        /\ o.reading = c.reading
    BY <1>1, <1>2, <2>1, <2>3, OverheatCounts DEF Sensors
  <2> QED
    BY <2>1, <2>2, <2>4, PassTakes DEF Sensors
<1>4. /\ temp'["pcb"].hot \in 0 .. Cfm - 1 /\ temp'["pcb"].off \in 0 .. Cfm - 1
      /\ Temperatures("pcb").reading = temp["pcb"].reading
      /\ temp["pcb"].reading = "hot" /\ ~temp'["pcb"].over
         => temp'["pcb"].hot = temp["pcb"].hot + 1 /\ ~temp["pcb"].over
  <2>1. Temperatures("pcb") = Overheat(temp["pcb"], TRUE, TRUE)
    BY DEF Temperatures, Err_event_temple
  <2>2. LET o == Temperatures("pcb") IN
        /\ o.hot \in 0 .. Cfm - 1 /\ o.off = temp["pcb"].off /\ o.reading = temp["pcb"].reading
        /\ temp["pcb"].reading = "hot" /\ ~o.over
           => o.hot = temp["pcb"].hot + 1 /\ ~temp["pcb"].over
    BY <1>2, <2>1, OverheatCounts DEF Sensors
  <2> QED
    BY <1>2, <2>2, PassTakes DEF Sensors
<1>5. \A s \in {"out", "pcb"} : temp'[s].reading \notin Broken
  BY <1>3, <1>4, PassTakes DEF Sensors, Counting
<1>6. heating' => cmd'.ptc /\ \A s \in {"in", "out"} : ~temp'[s].over /\ ~temp'[s].broken
  BY DEF Task_1ms_cycle, wptc_pwm_gradient_control
<1> QED
  BY <1>3, <1>4, <1>5, <1>6 DEF Sensors

\* A low supply, and a high one, is counted or reported.
LEMMA BusCounts ==
  ASSUME bus \in BusRecords, bus.under \in 0 .. VCfm - 1, bus.over \in 0 .. VCfm - 1
  PROVE  LET e == Err_event_vol IN
         /\ e \in BusRecords /\ e.under \in 0 .. VCfm - 1 /\ e.over \in 0 .. VCfm - 1
         /\ bus.reading = "low" /\ (cmd'.run \/ cmd'.ptc) /\ ~e.uv
            => e.under = bus.under + 1 /\ ~bus.uv
         /\ bus.reading = "high" /\ ~e.ov => e.over = bus.over + 1 /\ ~bus.ov
<1> DEFINE start == cmd'.run \/ cmd'.ptc
           b == IF bus.reading = "high"
                THEN [bus EXCEPT !.over = (@ + 1) % VCfm, !.ov = @ \/ bus.over + 1 = VCfm]
                ELSE IF bus.reading # "swell" /\ bus.ov
                THEN [bus EXCEPT !.overBack = (@ + 1) % VRec, !.ov = bus.overBack + 1 # VRec]
                ELSE [bus EXCEPT !.over = 0, !.overBack = 0]
           e == Err_event_vol
<1>0. VCfm \in Nat \ {0} /\ VRec \in Nat \ {0}
  BY ProtectionAssumption DEF ProtectionAssumption
<1>1. \A x \in Int : (x + 1) % VCfm \in Int /\ (x + 1) % VRec \in Int
  BY <1>0
<1>2. /\ b \in BusRecords /\ b.under = bus.under /\ b.uv = bus.uv /\ b.over \in 0 .. VCfm - 1
      /\ bus.reading = "high" /\ ~b.ov => b.over = bus.over + 1 /\ ~bus.ov
  <2>1. CASE bus.reading = "high"
    <3>1. (bus.over + 1) % VCfm \in Int /\ (bus.ov \/ bus.over + 1 = VCfm) \in BOOLEAN
      BY <1>1 DEF BusRecords
    <3>2. PICK n \in Int, c \in BOOLEAN :
            /\ b = [bus EXCEPT !.over = n, !.ov = c]
            /\ n = (bus.over + 1) % VCfm /\ c = (bus.ov \/ bus.over + 1 = VCfm)
      BY <2>1, <3>1
    <3>3. b \in BusRecords /\ b.under = bus.under /\ b.uv = bus.uv /\ b.over = n /\ b.ov = c
      BY <3>2 DEF BusRecords
    <3>4. n \in 0 .. VCfm - 1 /\ (bus.over + 1 # VCfm => n = bus.over + 1)
      BY <1>0, <3>2, Modulo
    <3> HIDE DEF b
    <3> QED
      BY <3>2, <3>3, <3>4
  <2>2. CASE bus.reading # "high" /\ bus.reading # "swell" /\ bus.ov
    <3>1. (bus.overBack + 1) % VRec \in Int /\ (bus.overBack + 1 # VRec) \in BOOLEAN
      BY <1>1 DEF BusRecords
    <3>2. PICK n \in Int, c \in BOOLEAN : b = [bus EXCEPT !.overBack = n, !.ov = c]
      BY <2>2, <3>1
    <3> QED
      BY <2>2, <3>2 DEF BusRecords
  <2>3. CASE bus.reading # "high" /\ ~(bus.reading # "swell" /\ bus.ov)
    <3>1. b = [bus EXCEPT !.over = 0, !.overBack = 0]
      BY <2>3
    <3>2. PICK n \in Int, m \in Int : b = [bus EXCEPT !.over = n, !.overBack = m] /\ n = 0
      BY <3>1, Constants, Zenon
    <3> HIDE DEF b
    <3>3. b \in BusRecords /\ b.under = bus.under /\ b.uv = bus.uv /\ b.over = 0
      BY <3>2 DEF BusRecords
    <3> QED
      BY <1>0, <2>3, <3>3
  <2> QED
    BY <2>1, <2>2, <2>3
<1>3. e = IF bus.reading = "low" /\ start
          THEN [b EXCEPT !.under = (@ + 1) % VCfm, !.uv = @ \/ bus.under + 1 = VCfm]
          ELSE IF bus.reading \notin {"low", "sag"} /\ bus.uv
          THEN [b EXCEPT !.underBack = (@ + 1) % VRec, !.uv = bus.underBack + 1 # VRec]
          ELSE [b EXCEPT !.under = 0, !.underBack = 0]
  BY DEF Err_event_vol
<1> HIDE DEF b, e
<1>4. CASE bus.reading = "low" /\ start
  <2>1. (b.under + 1) % VCfm \in Int /\ (b.uv \/ bus.under + 1 = VCfm) \in BOOLEAN
    BY <1>1, <1>2 DEF BusRecords
  <2>2. PICK n \in Int, c \in BOOLEAN :
          /\ e = [b EXCEPT !.under = n, !.uv = c]
          /\ n = (b.under + 1) % VCfm /\ c = (b.uv \/ bus.under + 1 = VCfm)
    BY <1>3, <1>4, <2>1
  <2>3. e \in BusRecords /\ e.under = n /\ e.uv = c /\ e.over = b.over /\ e.ov = b.ov
    BY <1>2, <2>2 DEF BusRecords
  <2>4. n \in 0 .. VCfm - 1 /\ (bus.under + 1 # VCfm => n = bus.under + 1)
    BY <1>0, <1>2, <2>2, Modulo
  <2> QED
    BY <1>2, <2>2, <2>3, <2>4 DEF e
<1>5. CASE ~(bus.reading = "low" /\ start) /\ bus.reading \notin {"low", "sag"} /\ bus.uv
  <2>1. (b.underBack + 1) % VRec \in Int /\ (bus.underBack + 1 # VRec) \in BOOLEAN
    BY <1>1, <1>2 DEF BusRecords
  <2>2. PICK n \in Int, c \in BOOLEAN : e = [b EXCEPT !.underBack = n, !.uv = c]
    BY <1>3, <1>5, <2>1
  <2>3. e \in BusRecords /\ e.under = bus.under /\ e.over = b.over /\ e.ov = b.ov
    BY <1>2, <2>2 DEF BusRecords
  <2> QED
    BY <1>2, <1>5, <2>3 DEF e
<1>6. CASE ~(bus.reading = "low" /\ start) /\ ~(bus.reading \notin {"low", "sag"} /\ bus.uv)
  <2>1. e = [b EXCEPT !.under = 0, !.underBack = 0]
    BY <1>3, <1>6
  <2>2. PICK n \in Int, m \in Int : e = [b EXCEPT !.under = n, !.underBack = m] /\ n = 0
    BY <2>1, Constants, Zenon
  <2>3. e \in BusRecords /\ e.under = 0 /\ e.over = b.over /\ e.ov = b.ov
    BY <1>2, <2>2 DEF BusRecords
  <2> QED
    BY <1>0, <1>2, <1>6, <2>3 DEF e
<1> QED
  BY <1>4, <1>5, <1>6

\* A steep outlet is counted until it is a fault, which comes in the pass that commands heat.
LEMMA SteepCounts ==
  ASSUME dry \in DryRecords, dry.steep \in Nat
  PROVE  LET d == TempOffsetDetect IN
         /\ d \in DryRecords /\ d.steep \in Nat
         /\ dry.reading = "steep" /\ cmd'.ptc /\ ~d.fault
            => d.steep = dry.steep + 1 /\ dry.steep + 1 < Cfm
<1> DEFINE steep == IF dry.reading = "steep" THEN Min2(dry.steep + 1, Cfm) ELSE 0
           calm  == dry.reading = "small" /\ dry.result
           over  == calm /\ dry.small + 1 >= Cfm
           small == IF calm /\ ~over THEN dry.small + 1 ELSE 0
           result == (dry.result \/ (dry.reading = "steep" /\ dry.steep + 1 >= Cfm)) /\ ~over
           o == OutAndIn
           d == TempOffsetDetect
<1>0. Cfm \in Nat \ {0} /\ DryLimit \in Nat
  BY ProtectionAssumption DEF ProtectionAssumption
<1>1. steep \in Nat /\ small \in Int /\ result \in BOOLEAN
  BY <1>0 DEF Min2, DryRecords
<1>2. o = [dry EXCEPT !.steep = steep, !.small = small, !.result = result]
  BY DEF OutAndIn
<1>3. PICK n \in Nat, m \in Int, b \in BOOLEAN :
        /\ o = [dry EXCEPT !.steep = n, !.small = m, !.result = b]
        /\ n = steep /\ b = result
  <2> HIDE DEF steep, small, result, o
  <2> QED
    BY <1>1, <1>2, Zenon
<1>4. o \in DryRecords /\ o.steep = n /\ o.result = b
  <2> HIDE DEF steep, small, result, o
  <2>1. o = [dry EXCEPT !.steep = n, !.small = m, !.result = b]
    BY <1>3
  <2>2. o \in DryRecords
    BY OutAndInKeeps DEF o
  <2>3. o.steep = n /\ o.result = b
    BY <2>1 DEF DryRecords
  <2> QED
    BY <2>2, <2>3
<1>5. o.steep \in Nat /\ (dry.reading = "steep" /\ ~o.result
                          => o.steep = dry.steep + 1 /\ dry.steep + 1 < Cfm)
  <2>1. dry.reading = "steep" => steep = Min2(dry.steep + 1, Cfm) /\ ~over
    OBVIOUS
  <2>2. dry.reading = "steep" /\ dry.steep + 1 >= Cfm => result
    BY <2>1
  <2> HIDE DEF steep, result, over, small, o
  <2>3. dry.reading = "steep" /\ dry.steep + 1 >= Cfm => o.result
    BY <1>3, <1>4, <2>2
  <2>4. o.steep = steep /\ o.steep \in Nat
    BY <1>3, <1>4
  <2> QED
    BY <1>0, <2>1, <2>3, <2>4 DEF Min2
<1> HIDE DEF steep, calm, over, small, result, o, d
<1>6. CASE o.result /\ cmd'.ptc /\ ~o.fault
  <2>1. d = [o EXCEPT !.count = o.count + 1, !.fault = TRUE]
    BY <1>6 DEF o, d, TempOffsetDetect
  <2>2. PICK k \in Nat, c \in BOOLEAN : d = [o EXCEPT !.count = k, !.fault = c] /\ c = TRUE
    <3>1. o.count + 1 \in Nat /\ TRUE \in BOOLEAN
      BY <1>4 DEF DryRecords
    <3> QED
      BY <2>1, <3>1, Zenon
  <2>3. d \in DryRecords /\ d.steep = o.steep /\ d.fault = c
    BY <1>4, <2>2 DEF DryRecords
  <2> QED
    BY <1>5, <2>2, <2>3 DEF d
<1>7. CASE ~o.result /\ o.count < DryLimit
  <2>1. d = [o EXCEPT !.fault = FALSE]
    BY <1>7 DEF o, d, TempOffsetDetect
  <2>2. PICK c \in BOOLEAN : d = [o EXCEPT !.fault = c]
    BY <2>1, Constants, Zenon
  <2>3. d \in DryRecords /\ d.steep = o.steep
    BY <1>4, <2>2 DEF DryRecords
  <2> QED
    BY <1>5, <1>7, <2>3 DEF d
<1>8. CASE d = o /\ (o.result /\ cmd'.ptc => o.fault)
  BY <1>4, <1>5, <1>8 DEF d
<1>9. \/ o.result /\ cmd'.ptc /\ ~o.fault
      \/ ~o.result /\ o.count < DryLimit
      \/ d = o /\ (o.result /\ cmd'.ptc => o.fault)
  BY DEF o, d, TempOffsetDetect
<1> QED
  BY <1>6, <1>7, <1>8, <1>9

\* Silence is counted, or reported, and no count is left at nothing.
LEMMA SilenceCounts ==
  ASSUME can \in [count : Nat, lost : BOOLEAN], can.count <= Tout, Can_Communication_OvTime_Detect
  PROVE  /\ can' \in [count : Nat, lost : BOOLEAN] /\ can'.count \in 1 .. Tout
         /\ ~rx /\ ~can'.lost => can'.count = can.count + 1 /\ ~can.lost
<1>0. Tout \in Nat \ {0}
  BY Delays
<1>1. PICK h \in [count : Nat, lost : BOOLEAN] : h = Heard /\ h.count <= Tout /\ (~rx => h = can)
  <2>1. CASE rx
    <3>1. Heard = [count |-> 0, lost |-> FALSE]
      BY <2>1 DEF Heard
    <3>2. PICK n \in Int, b \in BOOLEAN : Heard = [count |-> n, lost |-> b] /\ n = 0
      BY <3>1, Constants, Zenon
    <3>3. Heard \in [count : Nat, lost : BOOLEAN] /\ Heard.count = 0
      BY <3>2
    <3> QED
      BY <1>0, <2>1, <3>3
  <2>2. CASE ~rx
    BY <2>2 DEF Heard
  <2> QED
    BY <2>1, <2>2
<1>2. CASE h.count >= Tout
  <2>1. can' = [h EXCEPT !.lost = TRUE]
    BY <1>1, <1>2 DEF Can_Communication_OvTime_Detect
  <2>2. PICK b \in BOOLEAN : can' = [h EXCEPT !.lost = b] /\ b = TRUE
    <3>1. TRUE \in BOOLEAN
      OBVIOUS
    <3> QED
      BY <2>1, <3>1, Zenon
  <2>3. can' \in [count : Nat, lost : BOOLEAN] /\ can'.count = h.count /\ can'.lost = b
    BY <1>1, <2>2
  <2> QED
    BY <1>0, <1>1, <1>2, <2>2, <2>3
<1>3. CASE ~(h.count >= Tout)
  <2>1. PICK n \in Nat : can' = [h EXCEPT !.count = n] /\ n = h.count + 1
    BY <1>1, <1>3 DEF Can_Communication_OvTime_Detect
  <2> QED
    BY <1>0, <1>1, <1>3, <2>1
<1> QED
  BY <1>2, <1>3

\* A pass takes its readings of outlet and supply over what it has counted.
LEMMA PassCounts ==
  ASSUME Inv, Counting, Task_1ms_cycle
  PROVE  /\ dry'.steep = TempOffsetDetect.steep /\ dry'.fault = TempOffsetDetect.fault
         /\ bus' \in BusRecords
         /\ bus'.under = Err_event_vol.under /\ bus'.uv = Err_event_vol.uv
         /\ bus'.over = Err_event_vol.over /\ bus'.ov = Err_event_vol.ov
<1>1. TempOffsetDetect \in DryRecords
  BY SteepCounts DEF Inv, IInv, Shape, Counting
<1>2. Err_event_vol \in BusRecords
  BY BusCounts DEF Counting
<1>3. CASE ~Due
  <2>1. dry' = TempOffsetDetect /\ bus' = Err_event_vol
    BY <1>3 DEF Task_1ms_cycle, NoReading
  <2> QED
    BY <1>2, <2>1
<1>4. CASE Due
  <2>1. PICK g \in {"small", "mid", "steep"}, d \in DryRecords :
          d = TempOffsetDetect /\ dry' = [d EXCEPT !.reading = g]
    BY <1>1, <1>4 DEF Task_1ms_cycle, getDebugInfoData_100ms, Reads
  <2>2. PICK v \in {"low", "sag", "ok", "swell", "high"}, e \in BusRecords :
          e = Err_event_vol /\ bus' = [e EXCEPT !.reading = v]
    BY <1>2, <1>4 DEF Task_1ms_cycle, getDebugInfoData_100ms, Reads
  <2>3. dry'.steep = d.steep /\ dry'.fault = d.fault
    BY <2>1 DEF DryRecords
  <2>4. /\ bus' \in BusRecords /\ bus'.under = e.under /\ bus'.uv = e.uv
        /\ bus'.over = e.over /\ bus'.ov = e.ov
    BY <2>2 DEF BusRecords
  <2> QED
    BY <2>1, <2>2, <2>3, <2>4
<1> QED
  BY <1>3, <1>4

\* A hazard's history starts anew, or grows by one pass with the heater left on.
LEMMA HistoryGrows ==
  ASSUME Behind, History, NEW h \in HeaterHazards
  PROVE  /\ burnt' \in [HeaterHazards -> Nat]
         /\ burnt'[h] <= burnt[h] + 1
         /\ burnt'[h] # 0 => heating' /\ Present(h)
<1>1. \A k \in HeaterHazards : Bound(k) \in Nat
  BY Delays DEF Bound, HeaterHazards, Sensors
<1>2. burnt' = [k \in HeaterHazards |-> IF heating' /\ Present(k) THEN Longer(burnt[k], k, 0) ELSE 0]
  BY DEF History
<1>3. ASSUME NEW k \in HeaterHazards
      PROVE  Longer(burnt[k], k, 0) \in Nat /\ Longer(burnt[k], k, 0) <= burnt[k] + 1
  <2>1. burnt[k] \in Nat /\ Bound(k) \in Nat
    BY <1>1 DEF Behind
  <2> QED
    BY <2>1 DEF Longer, Min2
<1>4. burnt' \in [HeaterHazards -> Nat]
  BY <1>2, <1>3
<1>5. burnt[h] \in Nat
  BY DEF Behind
<1> QED
  BY <1>2, <1>3, <1>4, <1>5

\* What each hazard is.
LEMMA Hazards ==
  /\ Present("in") <=> temp["in"].reading = "hot"
  /\ Present("out") <=> temp["out"].reading = "hot"
  /\ Present("broken") <=> \E s \in Sensors : temp[s].reading \in Broken
  /\ Present("steep") <=> dry.reading = "steep"
  /\ Present("low") <=> bus.reading = "low"
  /\ Present("silent") <=> ~rx
  BY DEF Present, Sensors

\* A pass keeps every history behind its counter: while the heater is left on the counter goes
\* on as well.
LEMMA PassBehind ==
  ASSUME HInv, Task_1ms_cycle
  PROVE  HInv'
<1> USE DEF HInv
<1>1. Inv'
  BY PassPreserves
<1>2. /\ heating' => cmd'.ptc /\ ~can'.lost /\ ~dry'.fault /\ ~bus'.uv
      /\ cmd'.ptc = frame.ptc /\ ~rx' /\ frame' = frame
  BY DEF Inv, Task_1ms_cycle, RecDataAnalyze, wptc_pwm_gradient_control
<1>3. /\ can' \in [count : Nat, lost : BOOLEAN] /\ can'.count \in 1 .. Tout
      /\ ~rx /\ heating' => can'.count = can.count + 1
  BY <1>2, SilenceCounts DEF Counting, Task_1ms_cycle
<1>4. /\ bus' \in BusRecords /\ bus'.under \in 0 .. VCfm - 1 /\ bus'.over \in 0 .. VCfm - 1
      /\ bus.reading = "low" /\ heating' => bus'.under = bus.under + 1
  BY <1>2, BusCounts, PassCounts DEF Counting
<1>5. /\ dry'.steep \in Nat
      /\ dry.reading = "steep" /\ heating' => dry'.steep = dry.steep + 1 /\ dry.steep + 1 < Cfm
  BY <1>2, SteepCounts, PassCounts DEF Inv, IInv, Shape, Counting
<1>6. Counting'
  BY <1>3, <1>4, <1>5, TemperaturesCount, Delays DEF Counting
<1>7. HeatAsked'
  BY <1>3 DEF HeatAsked
<1>8. /\ burnt' \in [HeaterHazards -> Nat]
      /\ \A h \in HeaterHazards : /\ burnt'[h] <= burnt[h] + 1
                                  /\ burnt'[h] # 0 => heating' /\ Present(h)
  BY HistoryGrows DEF Task_1ms_cycle, HeaterHazards
<1>9. burnt \in [HeaterHazards -> Nat]
  BY DEF Behind
<1>10. ASSUME NEW s \in {"in", "out"} PROVE burnt'[s] <= temp'[s].hot
  <2>1. burnt[s] <= temp[s].hot /\ burnt[s] \in Nat /\ burnt'[s] \in Nat
    BY <1>8, <1>9 DEF Behind, HeaterHazards
  <2>2. temp[s].hot \in Nat /\ temp'[s].hot \in Nat
    BY <1>6, Delays DEF Counting, Sensors
  <2>3. burnt'[s] # 0 => temp'[s].hot = temp[s].hot + 1
    BY <1>8, TemperaturesCount, Hazards DEF HeaterHazards
  <2> QED
    BY <1>8, <2>1, <2>2, <2>3 DEF HeaterHazards
<1>11. burnt'["broken"] <= temp'["in"].off
  <2>1. burnt["broken"] <= temp["in"].off /\ burnt["broken"] \in Nat /\ burnt'["broken"] \in Nat
    BY <1>8, <1>9 DEF Behind, HeaterHazards
  <2>2. temp["in"].off \in Nat /\ temp'["in"].off \in Nat
    BY <1>6, Delays DEF Counting, Sensors
  <2>3. burnt'["broken"] # 0 => temp["in"].reading \in Broken
    BY <1>8, Hazards DEF HeaterHazards, Counting, Sensors
  <2>4. burnt'["broken"] # 0 => temp'["in"].off = temp["in"].off + 1
    BY <1>8, <2>3, TemperaturesCount DEF HeaterHazards
  <2> QED
    BY <1>8, <2>1, <2>2, <2>4 DEF HeaterHazards
<1>12. burnt'["steep"] <= dry'.steep /\ burnt'["steep"] < Cfm
  <2>1. burnt["steep"] <= dry.steep /\ burnt["steep"] \in Nat /\ burnt'["steep"] \in Nat
    BY <1>8, <1>9 DEF Behind, HeaterHazards
  <2>2. dry.steep \in Nat /\ Cfm \in Nat \ {0}
    BY Delays DEF Counting
  <2>3. burnt'["steep"] # 0 => dry'.steep = dry.steep + 1 /\ dry.steep + 1 < Cfm
    BY <1>5, <1>8, Hazards DEF HeaterHazards
  <2>4. burnt'["steep"] <= burnt["steep"] + 1
    BY <1>8 DEF HeaterHazards
  <2> QED
    BY <1>5, <2>1, <2>2, <2>3, <2>4
<1>13. burnt'["low"] <= bus'.under
  <2>1. burnt["low"] <= bus.under /\ burnt["low"] \in Nat /\ burnt'["low"] \in Nat
    BY <1>8, <1>9 DEF Behind, HeaterHazards
  <2>2. bus.under \in Nat /\ bus'.under \in Nat
    BY <1>4, Delays DEF Counting
  <2>3. burnt'["low"] # 0 => bus'.under = bus.under + 1
    BY <1>4, <1>8, Hazards DEF HeaterHazards
  <2> QED
    BY <1>8, <2>1, <2>2, <2>3 DEF HeaterHazards
<1>14. burnt'["silent"] = 0 \/ burnt'["silent"] < can'.count
  <2>1. /\ burnt["silent"] = 0 \/ burnt["silent"] < can.count
        /\ burnt["silent"] \in Nat /\ burnt'["silent"] \in Nat
    BY <1>8, <1>9 DEF Behind, HeaterHazards
  <2>2. can.count \in Nat
    BY DEF Counting
  <2>3. burnt'["silent"] # 0 => can'.count = can.count + 1 /\ can.count >= 1
    BY <1>2, <1>3, <1>8, Hazards DEF HeaterHazards, HeatAsked
  <2> QED
    BY <1>8, <2>1, <2>2, <2>3 DEF HeaterHazards
<1> QED
  BY <1>1, <1>6, <1>7, <1>8, <1>10, <1>11, <1>12, <1>13, <1>14 DEF Behind

\* At the start nothing is counted.
LEMMA InitHeater == Init => HInv
<1> SUFFICES ASSUME Init PROVE HInv
  OBVIOUS
<1>1. Inv
  BY InitInv
<1>2. Counting
  BY Delays DEF Init, Counting, BusRecords, Sensors, Broken
<1>3. HeatAsked
  BY DEF Init, HeatAsked
<1>4. Behind
  BY Delays DEF Init, Behind, HeaterHazards, Sensors
<1> QED
  BY <1>1, <1>2, <1>3, <1>4 DEF HInv

\* The heater stays on through an overheated or broken sensor, an outlet too far from the
\* inlet, a low supply or a silent vehicle no longer than the calibrated time, for every
\* calibration, period and kind of disturbance, and whatever the frames.
THEOREM HeaterStopsInTime == Spec => []HeaterStops
<1>1. Init => HInv
  BY InitHeater
<1>2. HInv /\ [Next]_vars => HInv'
  <2> SUFFICES ASSUME HInv, [Next]_vars PROVE HInv'
    OBVIOUS
  <2>1. CASE Task_1ms_cycle
    BY <2>1, PassBehind
  <2>2. Inv'
    BY NextInv DEF HInv
  <2>3. CASE Frame
    BY <2>2, <2>3 DEF HInv, Counting, HeatAsked, Behind, Frame
  <2>4. CASE UNCHANGED vars
    BY <2>2, <2>4 DEF HInv, Counting, HeatAsked, Behind, vars
  <2> QED
    BY <2>1, <2>3, <2>4 DEF Next
<1>3. HInv => HeaterStops
  <2> SUFFICES ASSUME HInv, NEW h \in HeaterHazards PROVE burnt[h] < Bound(h)
    BY DEF HeaterStops
  <2>1. /\ h \in {"in", "out", "broken", "steep"} => Bound(h) = Cfm
        /\ h = "low" => Bound(h) = VCfm
        /\ h = "silent" => Bound(h) = Tout
    BY DEF Bound, Sensors
  <2>2. burnt[h] \in Nat
    BY DEF HInv, Behind
  <2> QED
    BY <2>1, <2>2, Delays DEF HInv, Counting, Behind, HeaterHazards, Sensors
<1> QED
  BY <1>1, <1>2, <1>3, PTL DEF Spec

(***************************************************************************)
(* The drive is stopped in time, for every value of the calibration, if    *)
(* the vehicle clears faults only while it commands no run and has         *)
(* attempts left (with ClearsAnyTime the property does not hold).          *)
(*                                                                         *)
(* A hazard is first counted, then a fault that waits for the next sending *)
(* of the fault word: spun may exceed the count by the passes since the    *)
(* last sending, slow.  Only over-power is counted with the sendings.      *)
(***************************************************************************)
PhaseRecords == [high : BOOLEAN, count : Nat, fault : BOOLEAN]
PowerRecords ==
  [zone : 0 .. 2, over : Nat, restart : Int, count : Int, lockTime : Int, quiet : Int,
   locked : BOOLEAN, fault : BOOLEAN]

\* What else of the state has to be well formed.
DriveShape ==
  /\ phase \in PhaseRecords /\ phase.count <= ICfm + 1
  /\ power \in PowerRecords
  /\ slow \in 0 .. Period /\ sent \in BOOLEAN
\* An over-power fault has been sent, a lock comes with it, and the vehicle does not clear
\* under a lock.
Told ==
  /\ power.fault => sent
  /\ power.locked => power.fault
  /\ frame.clear => ~frame.run /\ ~power.locked
\* The vehicle has asked for the drive only if it has been heard.
RunAsked == frame.run => rx \/ can.count >= 1
\* The passes of silence after the one that took the last frame.
Silence == IF can.count = 0 THEN 0 ELSE can.count - 1
\* n passes of a hazard have been counted, or have passed since the last sending.
Waited(n, fault, limit, count) == n <= IF fault THEN limit - 1 + slow ELSE count
Following ==
  /\ spun \in [DriveHazards -> Nat]
  /\ Waited(spun["pcb"], temp["pcb"].over, Cfm, temp["pcb"].hot)
  /\ Waited(spun["low"], bus.uv, VCfm, bus.under)
  /\ Waited(spun["high"], bus.ov, VCfm, bus.over)
  /\ Waited(spun["silent"], can.lost, Tout, Silence)
  /\ Waited(spun["current"], phase.fault, ICfm + 2, phase.count)
  /\ spun["power"] <= power.over /\ spun["power"] < PCfm
DInv == HInv /\ DriveShape /\ Told /\ RunAsked /\ Following

\* The values of the truth constants.
LEMMA Truths == TRUE \in BOOLEAN /\ FALSE \in BOOLEAN
  OBVIOUS

\* Excess current is counted, or a fault that stays.
LEMMA PhaseCounts ==
  ASSUME phase \in PhaseRecords, phase.count <= ICfm + 1, frame.clear \in BOOLEAN
  PROVE  LET c == COM_CurrRMSDetect IN
         /\ c \in PhaseRecords /\ c.count <= ICfm + 1
         /\ running /\ phase.high /\ ~frame.clear /\ ~c.fault
            => c.count = phase.count + 1 /\ ~phase.fault
<1> DEFINE c == COM_CurrRMSDetect
<1>0. ICfm \in Nat \ {0} /\ 0 \in Nat
  BY Delays
<1>1. PICK f \in BOOLEAN :
        /\ f = (phase.fault /\ ~frame.clear)
        /\ [phase EXCEPT !.fault = @ /\ ~frame.clear] = [phase EXCEPT !.fault = f]
  BY DEF PhaseRecords
<1>2. PICK p \in PhaseRecords :
        /\ p = [phase EXCEPT !.fault = @ /\ ~frame.clear]
        /\ p.high = phase.high /\ p.count = phase.count /\ p.fault = f
  BY <1>1 DEF PhaseRecords
<1>3. c = IF ~running \/ ~phase.high THEN [p EXCEPT !.count = 0]
          ELSE IF phase.count > ICfm THEN [p EXCEPT !.count = 0, !.fault = TRUE]
          ELSE [p EXCEPT !.count = @ + 1]
  BY <1>2 DEF COM_CurrRMSDetect
<1> HIDE DEF c
<1>4. CASE ~running \/ ~phase.high
  <2>1. c = [p EXCEPT !.count = 0]
    BY <1>3, <1>4
  <2>2. PICK n \in Nat : c = [p EXCEPT !.count = n] /\ n = 0
    BY <1>0, <2>1, Zenon
  <2>3. c \in PhaseRecords /\ c.count = 0
    BY <2>2 DEF PhaseRecords
  <2> QED
    BY <1>0, <1>4, <2>3 DEF c
<1>5. CASE running /\ phase.high /\ phase.count > ICfm
  <2>1. c = [p EXCEPT !.count = 0, !.fault = TRUE]
    BY <1>3, <1>5
  <2>2. PICK n \in Nat, b \in BOOLEAN : c = [p EXCEPT !.count = n, !.fault = b] /\ n = 0 /\ b = TRUE
    BY <1>0, <2>1, Truths, Zenon
  <2>3. c \in PhaseRecords /\ c.count = 0 /\ c.fault = b
    BY <2>2 DEF PhaseRecords
  <2> QED
    BY <1>0, <2>2, <2>3 DEF c
<1>6. CASE running /\ phase.high /\ ~(phase.count > ICfm)
  <2>1. p.count + 1 \in Nat /\ phase.count + 1 <= ICfm + 1
    BY <1>0, <1>2, <1>6 DEF PhaseRecords
  <2>2. PICK n \in Nat : c = [p EXCEPT !.count = n] /\ n = p.count + 1
    BY <1>3, <1>6, <2>1
  <2>3. c \in PhaseRecords /\ c.count = phase.count + 1 /\ c.fault = f
    BY <1>2, <2>2 DEF PhaseRecords
  <2> QED
    BY <1>1, <2>1, <2>3 DEF c
<1> QED
  BY <1>3, <1>4, <1>5, <1>6

\* Standing, no excess is counted, and a lock keeps its fault.
LEMMA StoppedKeeps ==
  ASSUME NEW p \in PowerRecords
  PROVE  LET q == PowerStopped(p) IN
         /\ q \in PowerRecords /\ q.zone = p.zone
         /\ q.fault => p.fault
         /\ q.locked => p.locked /\ (p.fault => q.fault)
<1> DEFINE due == Waits(p) /\ p.restart + 1 >= RstrtDelay
           unlocks == p.locked /\ p.lockTime + 1 >= RstDelay
           fault == p.fault /\ ~due
           restart == IF Waits(p) /\ ~due THEN p.restart + 1 ELSE 0
           count == IF unlocks THEN 0 ELSE IF due THEN p.count + 1 ELSE p.count
           locked == p.locked /\ ~unlocks
           lockTime == IF unlocks THEN 0 ELSE IF p.locked THEN p.lockTime + 1 ELSE p.lockTime
           q == PowerStopped(p)
<1>1. /\ fault \in BOOLEAN /\ locked \in BOOLEAN
      /\ restart \in Int /\ count \in Int /\ lockTime \in Int
  BY DEF PowerRecords
<1>2. q = [p EXCEPT !.over = 0, !.quiet = 0, !.fault = fault, !.restart = restart,
                    !.count = count, !.locked = locked, !.lockTime = lockTime]
  BY DEF PowerStopped
<1>3. locked => ~due
  BY DEF Waits
<1>4. 0 \in Nat /\ 0 \in Int
  OBVIOUS
<1>5. PICK z \in Nat, y \in Int, f \in BOOLEAN, r \in Int, k \in Int, l \in BOOLEAN, t \in Int :
        /\ q = [p EXCEPT !.over = z, !.quiet = y, !.fault = f, !.restart = r,
                         !.count = k, !.locked = l, !.lockTime = t]
        /\ f = fault /\ l = locked
  <2> HIDE DEF fault, restart, count, locked, lockTime, q
  <2> QED
    BY <1>1, <1>2, <1>4, Zenon
<1>6. q \in PowerRecords /\ q.zone = p.zone /\ q.fault = f /\ q.locked = l
  <2> HIDE DEF fault, restart, count, locked, lockTime, q
  <2>1. q = [p EXCEPT !.over = z, !.quiet = y, !.fault = f, !.restart = r,
                      !.count = k, !.locked = l, !.lockTime = t]
    BY <1>5
  <2> QED
    BY <2>1 DEF PowerRecords
<1> HIDE DEF q
<1> QED
  BY <1>3, <1>5, <1>6 DEF q

\* Above the limit, power is counted or a fault, and a lock comes with the fault.
LEMMA AboveCounts ==
  ASSUME NEW p \in PowerRecords
  PROVE  LET q == PowerAbove(p) IN
         /\ q \in PowerRecords /\ q.zone = p.zone
         /\ q.locked => q.fault
         /\ ~q.fault => q.over = p.over + 1 /\ p.over + 1 < PCfm
<1> DEFINE confirmed == p.over + 1 >= PCfm
           over == Min2(p.over + 1, PCfm)
           fault == p.fault \/ confirmed
           locked == confirmed /\ p.count >= PLimit
           count == IF locked THEN 0 ELSE p.count
           q == PowerAbove(p)
<1>0. PCfm \in Nat \ {0} /\ 0 \in Int /\ p.over \in Nat
  BY Delays DEF PowerRecords
<1>1. over \in Nat /\ fault \in BOOLEAN /\ locked \in BOOLEAN /\ count \in Int
  BY <1>0 DEF Min2, PowerRecords
<1>2. q = [p EXCEPT !.over = over, !.quiet = 0, !.fault = fault, !.locked = locked,
                    !.count = count]
  BY DEF PowerAbove
<1>3. PICK z \in Nat, y \in Int, f \in BOOLEAN, l \in BOOLEAN, k \in Int :
        /\ q = [p EXCEPT !.over = z, !.quiet = y, !.fault = f, !.locked = l, !.count = k]
        /\ z = over /\ f = fault /\ l = locked
  <2> HIDE DEF over, fault, locked, count, q
  <2> QED
    BY <1>0, <1>1, <1>2, Zenon
<1>4. q \in PowerRecords /\ q.zone = p.zone /\ q.over = z /\ q.fault = f /\ q.locked = l
  <2> HIDE DEF over, fault, locked, count, q
  <2>1. q = [p EXCEPT !.over = z, !.quiet = y, !.fault = f, !.locked = l, !.count = k]
    BY <1>3
  <2> QED
    BY <2>1 DEF PowerRecords
<1>5. locked => fault
  OBVIOUS
<1>6. ~fault => over = p.over + 1 /\ p.over + 1 < PCfm
  BY <1>0 DEF Min2
<1> HIDE DEF over, fault, locked, q
<1> QED
  BY <1>3, <1>4, <1>5, <1>6 DEF q

\* Below the limit the fault goes, and no lock comes.
LEMMA BelowKeeps ==
  ASSUME NEW p \in PowerRecords
  PROVE  LET q == PowerBelow(p) IN
         q \in PowerRecords /\ q.zone = p.zone /\ q.locked = p.locked
<1> DEFINE calm == p.quiet + 1 >= RstDelay
           quiet == IF calm THEN 0 ELSE p.quiet + 1
           count == IF calm THEN 0 ELSE p.count
           q == PowerBelow(p)
<1>1. quiet \in Int /\ count \in Int /\ 0 \in Int /\ 0 \in Nat
  BY DEF PowerRecords
<1>2. q = [p EXCEPT !.over = 0, !.quiet = quiet, !.count = count, !.fault = FALSE, !.lockTime = 0]
  BY DEF PowerBelow
<1> HIDE DEF quiet, count, q
<1>3. PICK z \in Nat, y \in Int, k \in Int, f \in BOOLEAN, t \in Int :
        q = [p EXCEPT !.over = z, !.quiet = y, !.count = k, !.fault = f, !.lockTime = t]
  BY <1>1, <1>2, Truths, Zenon
<1> QED
  BY <1>3 DEF PowerRecords, q

\* A reading of the power: what is above the limit is counted or a fault, a lock has its
\* fault, and comes only to a drive that runs.
LEMMA PowerCounts ==
  ASSUME NEW p \in PowerRecords, NEW run \in BOOLEAN,
         p.locked => p.fault /\ ~run
  PROVE  LET q == COM_PowerOverFault_Detect(p, run) IN
         /\ q \in PowerRecords
         /\ q.locked => q.fault
         /\ ~run /\ q.locked => p.locked
         /\ run /\ q.zone = 2 /\ ~q.fault => q.over = p.over + 1 /\ p.over + 1 < PCfm
<1> DEFINE q == COM_PowerOverFault_Detect(p, run)
<1>1. CASE ~run
  <2>1. q = PowerStopped(p)
    BY <1>1 DEF COM_PowerOverFault_Detect
  <2>2. /\ q \in PowerRecords
        /\ q.locked => p.locked /\ (p.fault => q.fault)
    BY <2>1, StoppedKeeps
  <2> HIDE DEF q
  <2> QED
    BY <1>1, <2>2 DEF q
<1>2. CASE run /\ p.zone = 2
  <2>1. q = PowerAbove(p)
    BY <1>2 DEF COM_PowerOverFault_Detect
  <2>2. /\ q \in PowerRecords /\ (q.locked => q.fault)
        /\ ~q.fault => q.over = p.over + 1 /\ p.over + 1 < PCfm
    BY <2>1, AboveCounts
  <2> HIDE DEF q
  <2> QED
    BY <1>2, <2>2 DEF q
<1>3. CASE run /\ p.zone = 1
  <2>1. q = [p EXCEPT !.over = 0, !.quiet = 0]
    BY <1>3 DEF COM_PowerOverFault_Detect
  <2>2. 0 \in Nat /\ 0 \in Int
    OBVIOUS
  <2> HIDE DEF q
  <2>3. PICK z \in Nat, y \in Int : q = [p EXCEPT !.over = z, !.quiet = y]
    BY <2>1, <2>2, Zenon
  <2>4. q \in PowerRecords /\ q.zone = p.zone /\ q.locked = p.locked
    BY <2>3 DEF PowerRecords
  <2>5. ~q.locked /\ q.zone # 2
    BY <1>3, <2>4
  <2> QED
    BY <2>4, <2>5 DEF q
<1>4. CASE run /\ p.zone = 0
  <2>1. q = PowerBelow(p)
    BY <1>4 DEF COM_PowerOverFault_Detect
  <2>2. q \in PowerRecords /\ q.zone = p.zone /\ q.locked = p.locked
    BY <2>1, BelowKeeps
  <2> HIDE DEF q
  <2>3. ~q.locked /\ q.zone # 2
    BY <1>4, <2>2
  <2> QED
    BY <2>2, <2>3 DEF q
<1>5. p.zone \in {0, 1, 2}
  BY DEF PowerRecords
<1> QED
  BY <1>1, <1>2, <1>3, <1>4, <1>5

\* What a reading finds of phase current and power, and what of them was sent: a pass without
\* a reading only counts.
LEMMA DriveTakes ==
  ASSUME DInv, ~ClearsAnyTime, Task_1ms_cycle
  PROVE  /\ DriveShape'
         /\ Told'
         /\ running /\ phase.high /\ cmd'.run /\ ~phase'.fault
            => phase'.count = phase.count + 1 /\ ~phase.fault
         /\ Due => sent' = MotorFaults
         /\ ~Due => slow' = slow + 1 /\ power'.over = power.over
         /\ Due /\ running' /\ power'.zone = 2 /\ ~sent'
            => power'.over = power.over + 1 /\ power.over + 1 < PCfm
         /\ power'.over \in Nat
<1> USE DEF DInv, DriveShape, Told
<1>1. /\ cmd'.run = frame.run /\ cmd'.run \in BOOLEAN /\ frame.clear \in BOOLEAN
      /\ frame' = frame
  BY DEF HInv, Inv, Task_1ms_cycle, RecDataAnalyze
<1>2. /\ COM_CurrRMSDetect \in PhaseRecords /\ COM_CurrRMSDetect.count <= ICfm + 1
      /\ running /\ phase.high /\ ~frame.clear /\ ~COM_CurrRMSDetect.fault
         => COM_CurrRMSDetect.count = phase.count + 1 /\ ~phase.fault
  BY <1>1, PhaseCounts
<1>3. PICK f \in BOOLEAN :
        f = (power.fault /\ ~frame.clear) /\ Cleared = [power EXCEPT !.fault = f]
  BY DEF Cleared, PowerRecords
<1>4. /\ Cleared \in PowerRecords /\ Cleared.fault = f
      /\ Cleared.over = power.over /\ Cleared.locked = power.locked
  <2>1. Cleared = [power EXCEPT !.fault = f]
    BY <1>3
  <2> QED
    BY <2>1 DEF PowerRecords
<1>5. Period \in Nat \ {0} /\ PCfm \in Nat
  BY ProtectionAssumption DEF ProtectionAssumption
<1>6. CASE ~Due
  <2>1. /\ phase' = COM_CurrRMSDetect /\ power' = Cleared
        /\ slow' = slow + 1 /\ running' = running /\ sent' = sent
    BY <1>6 DEF Task_1ms_cycle, NoReading
  <2>2. slow' \in 0 .. Period
    BY <1>5, <1>6, <2>1 DEF Due
  <2>3. DriveShape'
    BY <1>2, <1>4, <2>1, <2>2
  <2>4. Told'
    BY <1>1, <1>3, <1>4, <2>1
  <2> QED
    BY <1>1, <1>2, <1>4, <1>6, <2>1, <2>3, <2>4 DEF PowerRecords
<1>7. CASE Due
  <2>1. PICK r \in IF cmd'.run /\ ~sent THEN BOOLEAN ELSE {FALSE},
             z \in Reads("power", 0, 0 .. 2), c \in Reads("current", FALSE, BOOLEAN) :
          /\ running' = r
          /\ power' = COM_PowerOverFault_Detect([Cleared EXCEPT !.zone = IF r THEN z ELSE 0], r)
          /\ phase' = [COM_CurrRMSDetect EXCEPT !.high = r /\ c]
    BY <1>7 DEF Task_1ms_cycle, getDebugInfoData_100ms
  <2>2. slow' = 0 /\ sent' = MotorFaults
    BY <1>7 DEF Task_1ms_cycle, getDebugInfoData_100ms
  <2>3. r \in BOOLEAN /\ (r => cmd'.run /\ ~sent) /\ z \in 0 .. 2
    <3>1. z \in 0 .. 2
      <4>1. 0 \in 0 .. 2
        OBVIOUS
      <4>2. z \in IF family = "power" THEN 0 .. 2 ELSE {0}
        BY DEF Reads
      <4> QED
        BY <4>1, <4>2, Zenon
    <3>2. CASE cmd'.run /\ ~sent
      BY <3>1, <3>2
    <3>3. CASE ~(cmd'.run /\ ~sent)
      <4>1. r = FALSE
        BY <3>3
      <4> QED
        BY <3>1, <4>1, Truths, Zenon
    <3> QED
      BY <3>2, <3>3
  <2>4. PICK h \in BOOLEAN, k \in PhaseRecords :
          k = COM_CurrRMSDetect /\ phase' = [k EXCEPT !.high = h]
    <3>1. (r /\ c) \in BOOLEAN
      OBVIOUS
    <3> QED
      BY <1>2, <2>1, <3>1
  <2>5. phase' \in PhaseRecords /\ phase'.count = k.count /\ phase'.fault = k.fault
    BY <2>4 DEF PhaseRecords
  <2>6. PICK y \in 0 .. 2 : y = (IF r THEN z ELSE 0)
    BY <2>3
  <2>7. PICK p \in PowerRecords :
          /\ p = [Cleared EXCEPT !.zone = IF r THEN z ELSE 0]
          /\ p.fault = Cleared.fault /\ p.over = Cleared.over /\ p.locked = Cleared.locked
    <3>1. [Cleared EXCEPT !.zone = IF r THEN z ELSE 0] = [Cleared EXCEPT !.zone = y]
      BY <2>6
    <3>2. LET p == [Cleared EXCEPT !.zone = y] IN
          /\ p \in PowerRecords
          /\ p.fault = Cleared.fault /\ p.over = Cleared.over /\ p.locked = Cleared.locked
      BY <1>4 DEF PowerRecords
    <3> QED
      BY <3>1, <3>2
  <2>8. power' = COM_PowerOverFault_Detect(p, r)
    BY <2>1, <2>7
  <2>9. p.locked => p.fault /\ ~r
    BY <1>3, <1>4, <2>3, <2>7
  <2>10. /\ power' \in PowerRecords /\ (power'.locked => power'.fault)
         /\ ~r /\ power'.locked => p.locked
         /\ r /\ power'.zone = 2 /\ ~power'.fault
            => power'.over = p.over + 1 /\ p.over + 1 < PCfm
    BY <2>3, <2>8, <2>9, PowerCounts
  <2>11. sent' \in BOOLEAN /\ (phase'.fault \/ power'.fault => sent')
    BY <2>2 DEF MotorFaults
  <2>12. DriveShape'
    BY <1>2, <1>5, <2>2, <2>4, <2>5, <2>10, <2>11, <2>1, <2>3
  <2>13. Told'
    BY <1>1, <1>4, <2>3, <2>7, <2>10, <2>11
  <2> QED
    BY <1>1, <1>2, <1>4, <1>7, <2>1, <2>2, <2>4, <2>5, <2>7, <2>10, <2>11, <2>12, <2>13
       DEF PowerRecords
<1> QED
  BY <1>6, <1>7

\* A hazard's history starts anew, or grows by one pass that lets the drive run; that of power
\* waits for the readings.
LEMMA DriveGrows ==
  ASSUME Following, History, NEW h \in DriveHazards
  PROVE  /\ spun' \in [DriveHazards -> Nat]
         /\ spun'[h] <= spun[h] + 1
         /\ spun'[h] # 0 => cmd'.run /\ ~sent'
         /\ h # "power" /\ spun'[h] # 0 => Present(h)
         /\ h = "power" /\ ~Due => spun'[h] <= spun[h]
         /\ h = "power" /\ Due /\ spun'[h] # 0 => running' /\ power'.zone = 2
<1>0. Period \in Nat
  BY ProtectionAssumption DEF ProtectionAssumption
<1>1. \A k \in DriveHazards : Bound(k) \in Nat /\ spun[k] \in Nat
  BY Delays DEF Bound, DriveHazards, Sensors, Following
<1>2. ASSUME NEW k \in DriveHazards, NEW slack \in {0, Period}
      PROVE  Longer(spun[k], k, slack) \in Nat /\ Longer(spun[k], k, slack) <= spun[k] + 1
  BY <1>0, <1>1 DEF Longer, Min2
<1>3. spun' = [k \in DriveHazards |->
                 IF ~cmd'.run \/ sent' THEN 0
                 ELSE IF k = "power"
                 THEN IF ~Due THEN spun[k]
                      ELSE IF running' /\ power'.zone = 2 THEN Longer(spun[k], k, 0) ELSE 0
                 ELSE IF Present(k) THEN Longer(spun[k], k, Period) ELSE 0]
  BY DEF History
<1> QED
  BY <1>1, <1>2, <1>3

\* What each of the drive's hazards is.
LEMMA DriveHazardsAre ==
  /\ Present("pcb") <=> temp["pcb"].reading = "hot"
  /\ Present("low") <=> bus.reading = "low"
  /\ Present("high") <=> bus.reading = "high"
  /\ Present("silent") <=> ~rx
  /\ Present("current") <=> running /\ phase.high
  BY DEF Present, Sensors

\* What has waited waits one pass more: it is counted, or its fault waits for the sending.
LEMMA Delayed ==
  ASSUME NEW limit \in Nat \ {0}, NEW count \in Nat, NEW next \in Nat,
         NEW was \in Nat, NEW now \in Nat, NEW s \in Nat, NEW t \in Nat,
         NEW fault \in BOOLEAN, NEW faultNow \in BOOLEAN,
         count <= limit - 1, now <= was + 1,
         was <= IF fault THEN limit - 1 + s ELSE count,
         now # 0 => IF faultNow THEN t = s + 1 ELSE ~fault /\ next = count + 1
  PROVE  now <= IF faultNow THEN limit - 1 + t ELSE next
  OBVIOUS

\* A pass keeps every history behind what is counted, or behind the passes since the sending.
LEMMA PassFollows ==
  ASSUME DInv, ~ClearsAnyTime, Task_1ms_cycle
  PROVE  DInv'
<1> USE DEF DInv
<1>1. HInv'
  BY PassBehind
<1>2. /\ DriveShape' /\ Told'
      /\ Due => sent' = MotorFaults
      /\ ~Due => slow' = slow + 1
  BY DriveTakes
<1>3. /\ cmd'.run = frame.run /\ cmd'.run \in BOOLEAN /\ ~rx' /\ frame' = frame
  BY DEF HInv, Inv, Task_1ms_cycle, RecDataAnalyze
<1>4. /\ can' \in [count : Nat, lost : BOOLEAN] /\ can'.count \in 1 .. Tout
      /\ ~rx /\ ~can'.lost => can'.count = can.count + 1 /\ ~can.lost
  BY SilenceCounts DEF HInv, Counting, Task_1ms_cycle
<1>5. RunAsked'
  BY <1>4 DEF RunAsked
<1>6. /\ spun' \in [DriveHazards -> Nat]
      /\ \A h \in DriveHazards : /\ spun'[h] <= spun[h] + 1
                                 /\ spun[h] \in Nat /\ spun'[h] \in Nat
                                 /\ spun'[h] # 0 => cmd'.run /\ ~sent'
                                 /\ h # "power" /\ spun'[h] # 0 => Present(h)
  BY DriveGrows DEF Task_1ms_cycle, DriveHazards, Following
<1>7. slow \in Nat /\ slow' \in Nat
  BY <1>2, ProtectionAssumption DEF DriveShape, ProtectionAssumption
<1>8. ASSUME NEW h \in DriveHazards, spun'[h] # 0
      PROVE  /\ can'.lost \/ temp'["pcb"].over \/ bus'.ov \/ bus'.uv \/ phase'.fault \/ power'.fault
                => slow' = slow + 1
             /\ frame.run
  BY <1>2, <1>3, <1>6, <1>8 DEF MotorFaults
<1>9. Waited(spun["pcb"], temp["pcb"].over, Cfm, temp["pcb"].hot)'
  <2>1. /\ temp["pcb"].hot \in 0 .. Cfm - 1 /\ temp'["pcb"].hot \in 0 .. Cfm - 1
        /\ temp["pcb"].over \in BOOLEAN /\ temp'["pcb"].over \in BOOLEAN
    BY <1>1 DEF HInv, Inv, IInv, Shape, Counting, TempRecords, Sensors
  <2>2. spun'["pcb"] # 0 /\ ~temp'["pcb"].over
        => temp'["pcb"].hot = temp["pcb"].hot + 1 /\ ~temp["pcb"].over
    BY <1>6, DriveHazardsAre, TemperaturesCount DEF HInv, DriveHazards
  <2>3. Waited(spun["pcb"], temp["pcb"].over, Cfm, temp["pcb"].hot)
    BY DEF Following
  <2>4. Cfm \in Nat \ {0} /\ "pcb" \in DriveHazards
    BY Delays DEF DriveHazards
  <2> QED
    BY <1>6, <1>7, <1>8, <2>1, <2>2, <2>3, <2>4, Delayed DEF Waited
<1>10. Waited(spun["low"], bus.uv, VCfm, bus.under)'
  <2>1. /\ bus.under \in 0 .. VCfm - 1 /\ bus'.under \in Nat
        /\ bus.uv \in BOOLEAN /\ bus'.uv \in BOOLEAN
    BY <1>1, Delays DEF HInv, Counting, BusRecords
  <2>2. spun'["low"] # 0 /\ ~bus'.uv => bus'.under = bus.under + 1 /\ ~bus.uv
    BY <1>3, <1>6, <1>8, DriveHazardsAre, BusCounts, PassCounts DEF HInv, Counting, DriveHazards
  <2>3. Waited(spun["low"], bus.uv, VCfm, bus.under)
    BY DEF Following
  <2>4. VCfm \in Nat \ {0} /\ "low" \in DriveHazards
    BY Delays DEF DriveHazards
  <2> QED
    BY <1>6, <1>7, <1>8, <2>1, <2>2, <2>3, <2>4, Delayed DEF Waited
<1>11. Waited(spun["high"], bus.ov, VCfm, bus.over)'
  <2>1. /\ bus.over \in 0 .. VCfm - 1 /\ bus'.over \in Nat
        /\ bus.ov \in BOOLEAN /\ bus'.ov \in BOOLEAN
    BY <1>1, Delays DEF HInv, Counting, BusRecords
  <2>2. spun'["high"] # 0 /\ ~bus'.ov => bus'.over = bus.over + 1 /\ ~bus.ov
    BY <1>6, DriveHazardsAre, BusCounts, PassCounts DEF HInv, Counting, DriveHazards
  <2>3. Waited(spun["high"], bus.ov, VCfm, bus.over)
    BY DEF Following
  <2>4. VCfm \in Nat \ {0} /\ "high" \in DriveHazards
    BY Delays DEF DriveHazards
  <2> QED
    BY <1>6, <1>7, <1>8, <2>1, <2>2, <2>3, <2>4, Delayed DEF Waited
<1>12. Waited(spun["silent"], can.lost, Tout, Silence)'
  <2>1. /\ Silence \in 0 .. Tout - 1 /\ Silence' \in Nat
        /\ can.lost \in BOOLEAN /\ can'.lost \in BOOLEAN
    BY <1>1, <1>4, Delays DEF HInv, Counting, Silence
  <2>2. spun'["silent"] # 0 /\ ~can'.lost => Silence' = Silence + 1 /\ ~can.lost
    BY <1>4, <1>6, <1>8, DriveHazardsAre DEF HInv, Counting, Silence, RunAsked, DriveHazards
  <2>3. Waited(spun["silent"], can.lost, Tout, Silence)
    BY DEF Following
  <2>4. Tout \in Nat \ {0} /\ "silent" \in DriveHazards
    BY Delays DEF DriveHazards
  <2> QED
    BY <1>6, <1>7, <1>8, <2>1, <2>2, <2>3, <2>4, Delayed DEF Waited
<1>13. Waited(spun["current"], phase.fault, (ICfm + 2), phase.count)'
  <2>1. /\ phase.count \in 0 .. (ICfm + 2) - 1 /\ phase'.count \in Nat
        /\ phase.fault \in BOOLEAN /\ phase'.fault \in BOOLEAN
    BY <1>2, Delays DEF DriveShape, PhaseRecords
  <2>2. spun'["current"] # 0 /\ ~phase'.fault => phase'.count = phase.count + 1 /\ ~phase.fault
    BY <1>6, DriveHazardsAre, DriveTakes DEF DriveHazards
  <2>3. Waited(spun["current"], phase.fault, (ICfm + 2), phase.count)
    BY DEF Following
  <2>4. (ICfm + 2) \in Nat \ {0} /\ "current" \in DriveHazards
    BY Delays DEF DriveHazards
  <2> QED
    BY <1>6, <1>7, <1>8, <2>1, <2>2, <2>3, <2>4, Delayed DEF Waited
<1>14. spun'["power"] <= power'.over /\ spun'["power"] < PCfm
  <2>1. /\ power.over \in Nat /\ power'.over \in Nat /\ PCfm \in Nat \ {0}
        /\ spun["power"] <= power.over /\ spun["power"] < PCfm
    BY DriveTakes, Delays DEF Following, DriveShape, PowerRecords
  <2>2. /\ ~Due => spun'["power"] <= spun["power"]
        /\ Due /\ spun'["power"] # 0 => running' /\ power'.zone = 2
    BY DriveGrows DEF Task_1ms_cycle, DriveHazards
  <2>3. /\ ~Due => power'.over = power.over
        /\ Due /\ spun'["power"] # 0 => power'.over = power.over + 1 /\ power.over + 1 < PCfm
    BY <1>6, <2>2, DriveTakes DEF DriveHazards
  <2> QED
    BY <1>6, <2>1, <2>2, <2>3 DEF DriveHazards
<1>15. Following'
  BY <1>6, <1>9, <1>10, <1>11, <1>12, <1>13, <1>14 DEF Following
<1> QED
  BY <1>1, <1>2, <1>5, <1>15

\* At the start nothing is counted and nothing runs.
LEMMA InitDrive == Init => DInv
<1> SUFFICES ASSUME Init PROVE DInv
  OBVIOUS
<1>1. HInv
  BY InitHeater
<1>2. Period \in Nat /\ PCfm \in Nat \ {0}
  BY ProtectionAssumption DEF ProtectionAssumption
<1>3. DriveShape
  <2>1. phase \in PhaseRecords /\ phase.count <= ICfm + 1
    BY Delays DEF Init, PhaseRecords
  <2>2. power \in PowerRecords
    <3>1. 0 \in 0 .. 2 /\ 0 \in Nat /\ 0 \in Int /\ FALSE \in BOOLEAN
      OBVIOUS
    <3>2. power = [zone |-> 0, over |-> 0, restart |-> 0, count |-> 0, lockTime |-> 0,
                   quiet |-> 0, locked |-> FALSE, fault |-> FALSE]
      BY DEF Init
    <3>3. PICK z \in 0 .. 2, o \in Nat, i \in Int, j \in Int, k \in Int, l \in Int,
               b \in BOOLEAN, f \in BOOLEAN :
            power = [zone |-> z, over |-> o, restart |-> i, count |-> j, lockTime |-> k,
                     quiet |-> l, locked |-> b, fault |-> f]
      BY <3>1, <3>2, Zenon
    <3> QED
      BY <3>3 DEF PowerRecords
  <2>3. slow \in 0 .. Period /\ sent \in BOOLEAN
    <3>1. slow = 0 /\ sent = FALSE
      BY DEF Init
    <3>2. 0 \in 0 .. Period
      BY <1>2
    <3> QED
      BY <3>1, <3>2, Truths, Zenon
  <2> QED
    BY <2>1, <2>2, <2>3 DEF DriveShape
<1>4. Told /\ RunAsked
  BY DEF Init, Told, RunAsked
<1>5. spun \in [DriveHazards -> Nat] /\ \A h \in DriveHazards : spun[h] = 0
  BY DEF Init
<1>6. /\ temp["pcb"].hot = 0 /\ ~temp["pcb"].over
      /\ bus.under = 0 /\ bus.over = 0 /\ ~bus.uv /\ ~bus.ov
      /\ Silence = 0 /\ ~can.lost /\ phase.count = 0 /\ ~phase.fault /\ power.over = 0
  BY DEF Init, Silence, Sensors
<1>7. Following
  BY <1>2, <1>5, <1>6 DEF Following, Waited, DriveHazards
<1> QED
  BY <1>1, <1>3, <1>4, <1>7 DEF DInv

\* The drive is let run through an overheated board, a bad supply, a silent vehicle, an excess
\* of current or of power no longer than confirmation and one period of sending take, for every
\* calibration, period and kind of disturbance, if the vehicle clears faults only while it
\* commands no run and has attempts left.
THEOREM DriveStopsInTime == ASSUME ~ClearsAnyTime PROVE Spec => []DriveStops
<1>1. Init => DInv
  BY InitDrive
<1>2. DInv /\ [Next]_vars => DInv'
  <2> SUFFICES ASSUME DInv, [Next]_vars PROVE DInv'
    OBVIOUS
  <2>1. CASE Task_1ms_cycle
    BY <2>1, PassFollows
  <2>2. CASE Frame
    <3>1. HInv'
      BY <2>2, NextInv DEF DInv, HInv, Counting, HeatAsked, Behind, Frame, Next
    <3>2. frame'.clear => ~frame'.run /\ ~power.locked
      BY <2>2 DEF Frame, Attempts
    <3>3. DriveShape' /\ Told' /\ RunAsked'
      BY <2>2, <3>2 DEF DInv, DriveShape, Told, RunAsked, Frame
    <3>4. Following'
      BY <2>2 DEF DInv, Following, Waited, Silence, Frame
    <3> QED
      BY <3>1, <3>3, <3>4 DEF DInv
  <2>3. CASE UNCHANGED vars
    <3>1. HInv'
      BY <2>3, NextInv DEF DInv, HInv, Counting, HeatAsked, Behind, vars
    <3>2. DriveShape' /\ Told' /\ RunAsked' /\ Following'
      BY <2>3 DEF DInv, DriveShape, Told, RunAsked, Following, Waited, Silence, vars
    <3> QED
      BY <3>1, <3>2 DEF DInv
  <2> QED
    BY <2>1, <2>2, <2>3 DEF Next
<1>3. DInv => DriveStops
  <2> SUFFICES ASSUME DInv, NEW h \in DriveHazards
               PROVE  spun[h] < Bound(h) + (IF h = "power" THEN 0 ELSE Period)
    BY DEF DriveStops
  <2>1. /\ Period \in Nat \ {0} /\ slow \in 0 .. Period /\ spun[h] \in Nat
        /\ {Cfm, VCfm, Tout, ICfm, PCfm} \subseteq Nat \ {0}
    BY ProtectionAssumption, Delays DEF ProtectionAssumption, DInv, DriveShape, Following
  <2>2. CASE h = "pcb"
    <3>1. Bound(h) = Cfm
      BY <2>2 DEF Bound, Sensors
    <3> QED
      BY <2>1, <2>2, <3>1 DEF DInv, HInv, Counting, Following, Waited, Sensors
  <2>3. CASE h \in {"low", "high"}
    <3>1. Bound(h) = VCfm
      BY <2>3 DEF Bound, Sensors
    <3> QED
      BY <2>1, <2>3, <3>1 DEF DInv, HInv, Counting, Following, Waited
  <2>4. CASE h = "silent"
    <3>1. Bound(h) = Tout
      BY <2>4 DEF Bound, Sensors
    <3> QED
      BY <2>1, <2>4, <3>1 DEF DInv, HInv, Counting, Following, Waited, Silence
  <2>5. CASE h = "current"
    <3>1. Bound(h) = ICfm + 2
      BY <2>5 DEF Bound, Sensors
    <3> QED
      BY <2>1, <2>5, <3>1 DEF DInv, DriveShape, PhaseRecords, Following, Waited
  <2>6. CASE h = "power"
    <3>1. Bound(h) = PCfm
      BY <2>6 DEF Bound, Sensors
    <3> QED
      BY <2>1, <2>6, <3>1 DEF DInv, Following
  <2> QED
    BY <2>2, <2>3, <2>4, <2>5, <2>6 DEF DriveHazards
<1> QED
  BY <1>1, <1>2, <1>3, PTL DEF Spec
===============================================================================
