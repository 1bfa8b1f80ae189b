----------------------------- MODULE IpcMailbox -----------------------------
(***************************************************************************)
(* The mailbox from the CM0+ to the CM4: M0_M4_MID/src/m0_m4_ipc.c with    *)
(* the setters of m0_var.c that write it, the consumer in m4_rte.c and     *)
(* FOC_Loop_Check of main_cm4.c.  The message is the sender's one live     *)
(* structure: the pipe hands over its address, the receiver checks and     *)
(* copies it word by word in its interrupt while the other core may write. *)
(* The pipe is the driver vendored with the code (cy_ipc_pipe.c), of which *)
(* a send, a notification and a release are modelled.                      *)
(***************************************************************************)
EXTENDS Integers, Sequences

CONSTANTS Speeds,        \* speeds that a command asks for; 0 with enable 0 is the stop
          FaultWords,    \* values of fault_status_flag_motor.Word
          Mask,          \* the release bits that the pipe writes into the first word
          FaultEvery,    \* passes of the 1 ms task between two Motor_Fault_All_Set
          MaxChanges     \* bound: changes of the command and of the fault word

ASSUME MailboxAssumption ==
  /\ Speeds \subseteq Nat \ {0} /\ FaultWords \subseteq Nat /\ 0 \in FaultWords
  /\ Mask \in Nat /\ FaultEvery \in Nat \ {0} /\ MaxChanges \in Nat

VARIABLES
  want,      \* the command the last 0x20A frame holds: enable, speed, clear bit
  word,      \* debug_info.fault_status_flag_motor.Word
  changes,   \* changes of want and word so far
  passes,    \* the counter of Execute_Funtion_500ms
  todo,      \* stores and calls the running setters of the main loop have still to make
  out,       \* m0_set_data
  busy,      \* the M0's pipe endpoint waits for the release
  notify,    \* the channel is locked and its notification pending or served
  release,   \* the release interrupt of the M0 is pending
  isr,       \* the CM4's pipe interrupt: step, sum so far
  in,        \* m4_get_data
  rte,       \* the CM4's 100 ms task: step and the word it has loaded
  cmd,       \* motor_enable_command and motorspeedreferenceq10
  clear,     \* motor_err_Clear
  m0Fault    \* p_m0FaultStatus of the drive

m0Vars == <<want, word, changes, passes, todo, out>>
pipeVars == <<busy, notify, release>>
m4Vars == <<isr, in, rte, cmd, clear, m0Fault>>
vars == <<m0Vars, pipeVars, m4Vars>>

Commands == [en : {1}, spd : Speeds] \cup [en : {0}, spd : {0}]

\* What both structures hold; a flag is the top bit of its word.
NoData == [mask |-> 0, en |-> 0, spd |-> 0, ctlFlag |-> 0, clr |-> 0, clrFlag |-> 0,
           fault |-> 0, sum |-> 0]
Flag == 1024

Words == <<"client", "control", "err_clr", "Word">>
Value(d, w) ==
  CASE w = "client"  -> d.mask
    [] w = "control" -> d.en + 2 * d.spd + Flag * d.ctlFlag
    [] w = "err_clr" -> d.clr + Flag * d.clrFlag
    [] w = "Word"    -> d.fault

\* IPC_Checksum_Count; the complement is left out, it is one to one.
Checksum(d) == d.mask + Value(d, "control") + Value(d, "err_clr") + Value(d, "Word")

Init ==
  /\ want = [en |-> 0, spd |-> 0, clr |-> 0] /\ word = 0 /\ changes = 0
  /\ passes = 0 /\ todo = <<>> /\ out = NoData
  /\ busy = FALSE /\ notify = FALSE /\ release = FALSE
  /\ isr = [at |-> "idle", i |-> 0, acc |-> 0]
  /\ in = NoData
  /\ rte = [at |-> "err_clr", en |-> 0, spd |-> 0, clr |-> 0]
  /\ cmd = [en |-> 0, spd |-> 0] /\ clear = 0 /\ m0Fault = 0
-----------------------------------------------------------------------------
(* The CM0+.                                                                 *)
Frame ==
  /\ changes < MaxChanges /\ changes' = changes + 1
  /\ \E c \in Commands, k \in {0, 1} :
       want' = [en |-> c.en, spd |-> c.spd, clr |-> k] /\ want' # want
  /\ UNCHANGED <<word, passes, todo, out, pipeVars, m4Vars>>

FaultChange ==
  /\ changes < MaxChanges /\ changes' = changes + 1
  /\ word' \in FaultWords \ {word}
  /\ UNCHANGED <<want, passes, todo, out, pipeVars, m4Vars>>

\* A setter stores its fields one by one, then Ipc_Pipe_Set sums up and sends.
Store(f, v) == [call |-> f, arg |-> v]
Ipc_Pipe_Set == <<Store("sum", 0), Store("send", 0)>>
Motor_Err_Clear_Set == <<Store("clrFlag", 1), Store("clr", 1)>> \o Ipc_Pipe_Set
Motor_Control_Set ==
  <<Store("ctlFlag", 1), Store("spd", want.spd), Store("en", want.en)>> \o Ipc_Pipe_Set
Motor_Fault_All_Set == <<Store("fault", word)>> \o Ipc_Pipe_Set

\* One pass of Task_1ms_cycle: the last frame is carried out again whether it is
\* new or not; each FaultEvery-th pass sends the fault word, too.
RecDataAnalyze == (IF want.clr = 1 THEN Motor_Err_Clear_Set ELSE <<>>) \o Motor_Control_Set
Task_1ms_cycle ==
  /\ todo = <<>>
  /\ IF passes = FaultEvery
       THEN passes' = 0 /\ todo' = RecDataAnalyze \o Motor_Fault_All_Set
       ELSE passes' = passes + 1 /\ todo' = RecDataAnalyze
  /\ UNCHANGED <<want, word, changes, out, pipeVars, m4Vars>>

\* Cy_IPC_Pipe_SendMessage: refused while the last message is not released; the
\* release bits go into the structure after it was summed up.
Send ==
  IF busy THEN UNCHANGED <<out, pipeVars>>
  ELSE /\ out' = [out EXCEPT !.mask = Mask]
       /\ busy' = TRUE /\ notify' = TRUE /\ UNCHANGED release

M0Step ==
  /\ todo # <<>> /\ todo' = Tail(todo)
  /\ CASE Head(todo).call = "send" -> Send
       [] Head(todo).call = "sum" ->
            out' = [out EXCEPT !.sum = Checksum(out)] /\ UNCHANGED pipeVars
       [] OTHER ->
            /\ out' = [out EXCEPT ![Head(todo).call] = Head(todo).arg]
            /\ UNCHANGED pipeVars
  /\ UNCHANGED <<want, word, changes, passes, m4Vars>>

\* ExecCallback on the release interrupt: nobody looks at the `released' that
\* ReleaseCallback sets, only busy matters.
ReleaseIsr ==
  /\ release /\ release' = FALSE /\ busy' = FALSE
  /\ UNCHANGED <<m0Vars, notify, m4Vars>>
-----------------------------------------------------------------------------
(* The pipe interrupt of the CM4, over the sender's live structure.          *)
IsrEnter ==
  /\ notify /\ isr.at = "idle"
  /\ isr' = [at |-> "sum", i |-> 1, acc |-> 0]
  /\ UNCHANGED <<m0Vars, pipeVars, in, rte, cmd, clear, m0Fault>>

IsrSum ==
  /\ isr.at = "sum" /\ isr.i <= Len(Words)
  /\ isr' = [isr EXCEPT !.i = @ + 1, !.acc = @ + Value(out, Words[isr.i])]
  /\ UNCHANGED <<m0Vars, pipeVars, in, rte, cmd, clear, m0Fault>>

\* Mutant: a message with a wrong checksum is left without being released.
IsrCompareKeeps ==
  /\ isr.at = "sum" /\ isr.i > Len(Words) /\ isr.acc = out.sum
  /\ isr' = [isr EXCEPT !.at = "copy", !.i = 2] /\ in' = [in EXCEPT !.mask = out.mask]
  /\ UNCHANGED <<m0Vars, pipeVars, rte, cmd, clear, m0Fault>>

IsrCompare ==
  /\ isr.at = "sum" /\ isr.i > Len(Words)
  /\ IF isr.acc = out.sum
       THEN isr' = [isr EXCEPT !.at = "copy", !.i = 2] /\ in' = [in EXCEPT !.mask = out.mask]
       ELSE isr' = [at |-> "end", i |-> 0, acc |-> 0] /\ UNCHANGED in
  /\ UNCHANGED <<m0Vars, pipeVars, rte, cmd, clear, m0Fault>>

\* memcpy, one word a step; the first word, which stays as it is, went with the
\* comparison, and the last, the checksum, is not used any more.
Copied(w) ==
  CASE w = "control" -> [in EXCEPT !.en = out.en, !.spd = out.spd, !.ctlFlag = out.ctlFlag]
    [] w = "err_clr" -> [in EXCEPT !.clr = out.clr, !.clrFlag = out.clrFlag]
    [] w = "Word"    -> [in EXCEPT !.fault = out.fault]
IsrCopy ==
  /\ isr.at = "copy" /\ in' = Copied(Words[isr.i])
  /\ isr' = IF isr.i = Len(Words) THEN [at |-> "end", i |-> 1, acc |-> 0]
                                  ELSE [isr EXCEPT !.i = @ + 1]
  /\ UNCHANGED <<m0Vars, pipeVars, rte, cmd, clear, m0Fault>>

\* ExecCallback always releases the channel (Cy_IPC_Drv_LockRelease), whether the
\* message was taken or not.
IsrRelease ==
  /\ isr.at = "end" /\ isr' = [at |-> "idle", i |-> 0, acc |-> 0]
  /\ notify' = FALSE /\ release' = TRUE
  /\ UNCHANGED <<m0Vars, busy, in, rte, cmd, clear, m0Fault>>

M4Isr == IsrEnter \/ IsrSum \/ IsrCompare \/ IsrCopy \/ IsrRelease
-----------------------------------------------------------------------------
(* The CM4's main loop, held up while its interrupt runs: the end of the     *)
(* 100 ms task, then FOC_Loop_Check.  The flag shares its word with the      *)
(* data: clearing it writes back the data that was loaded.                   *)
Main == isr.at = "idle" /\ UNCHANGED <<m0Vars, pipeVars, isr>>

RteClear ==
  /\ Main /\ rte.at = "err_clr"
  /\ IF in.clrFlag = 1 THEN rte' = [rte EXCEPT !.at = "clrStore", !.clr = in.clr]
                       ELSE rte' = [rte EXCEPT !.at = "control"]
  /\ UNCHANGED <<in, cmd, clear, m0Fault>>
RteClearStore ==
  /\ Main /\ rte.at = "clrStore" /\ rte' = [rte EXCEPT !.at = "clrRead"]
  /\ in' = [in EXCEPT !.clrFlag = 0, !.clr = rte.clr]
  /\ UNCHANGED <<cmd, clear, m0Fault>>
RteClearRead ==
  /\ Main /\ rte.at = "clrRead" /\ rte' = [rte EXCEPT !.at = "control"]
  /\ clear' = in.clr
  /\ UNCHANGED <<in, cmd, m0Fault>>

RteControl ==
  /\ Main /\ rte.at = "control"
  /\ IF in.ctlFlag = 1
       THEN rte' = [rte EXCEPT !.at = "ctlStore", !.en = in.en, !.spd = in.spd]
       ELSE rte' = [rte EXCEPT !.at = "foc"]
  /\ UNCHANGED <<in, cmd, clear, m0Fault>>
RteControlStore ==
  /\ Main /\ rte.at = "ctlStore" /\ rte' = [rte EXCEPT !.at = "enRead"]
  /\ in' = [in EXCEPT !.ctlFlag = 0, !.en = rte.en, !.spd = rte.spd]
  /\ UNCHANGED <<cmd, clear, m0Fault>>
RteEnable ==
  /\ Main /\ rte.at = "enRead" /\ rte' = [rte EXCEPT !.at = "spdRead"]
  /\ cmd' = [cmd EXCEPT !.en = in.en]
  /\ UNCHANGED <<in, clear, m0Fault>>
RteSpeed ==
  /\ Main /\ rte.at = "spdRead" /\ rte' = [rte EXCEPT !.at = "foc"]
  /\ cmd' = [cmd EXCEPT !.spd = in.spd]
  /\ UNCHANGED <<in, clear, m0Fault>>

\* Mutant: FOC_Loop_Check takes the word together with a clear request only.
FocCheckOnClear ==
  /\ Main /\ rte.at = "foc" /\ rte' = [at |-> "err_clr", en |-> 0, spd |-> 0, clr |-> 0]
  /\ m0Fault' = IF clear = 1 THEN in.fault ELSE m0Fault
  /\ clear' = 0
  /\ UNCHANGED <<in, cmd>>

\* FOC_Loop_Check; the clear request goes to Ifx_MS_FocSolutionF16_clearFault.
FocCheck ==
  /\ Main /\ rte.at = "foc" /\ rte' = [at |-> "err_clr", en |-> 0, spd |-> 0, clr |-> 0]
  /\ m0Fault' = in.fault /\ clear' = 0
  /\ UNCHANGED <<in, cmd>>

M4Main == RteClear \/ RteClearStore \/ RteClearRead \/ RteControl \/ RteControlStore
            \/ RteEnable \/ RteSpeed \/ FocCheck
-----------------------------------------------------------------------------
Next == Frame \/ FaultChange \/ Task_1ms_cycle \/ M0Step \/ ReleaseIsr \/ M4Isr \/ M4Main

\* Both cores run on: their loops recur and pending interrupts are taken.  The CM4's
\* interrupt takes microseconds and comes once or twice in a millisecond, so that the
\* main loop gets its turns between: strong fairness.
Fairness == /\ WF_vars(Task_1ms_cycle \/ M0Step) /\ WF_vars(ReleaseIsr)
            /\ WF_vars(M4Isr) /\ SF_vars(M4Main)
Spec == Init /\ [][Next]_vars /\ Fairness
-----------------------------------------------------------------------------
\* A command that lasts is carried out as it was given in the end: messages dropped by
\* a busy pipe, the first one with its wrong checksum, torn copies and a flag cleared
\* over a newer command delay it but cost nothing.
CommandArrives ==
  \A c \in Commands :
    <>[](want.en = c.en /\ want.spd = c.spd) => <>[](cmd = c)

\* A fault word that lasts stops the drive or lets it go in the end.
FaultArrives == \A f \in FaultWords : <>[](word = f) => <>[](m0Fault = f)

\* What the CM4 keeps is one published state, so it still has the checksum that was
\* accepted: the comment says that the data is updated for the next transmission when the
\* notified core already got it.
CopyIsPublished ==
  [][isr.at = "copy" /\ isr'.at = "end" => Checksum(in') = isr.acc]_vars
=============================================================================
