# Verification of the e-compressor firmware

TLA+ modules, TLC runs and TLAPS proofs about the firmware of this repository: a
dual-core Infineon CYT2B6 controller of an electric compressor with a PTC
heater. The Cortex-M0+ runs a boot loader and an application (CAN, diagnostics,
trouble codes, non-volatile memory, heater); the Cortex-M4 runs the
field-oriented control of the motor. Paths below are relative to `src/`.

How to repeat the checks: `tlc -workers 2 -config <cfg> <module>` for a run,
`tlapm <Module>Proofs.tla` for the proofs. `PROJECT.json` lists the runs, the
source lines of every definition (`map`), a mutation of the code that breaks each
property (`mutants`), the hazards and the findings.

## 1. Inventory

### 1.1 Execution contexts

* **M0+ application** (`M0_BSW/SOURCE/ld_task/src/m0_task.c`): a cooperative main
  loop over a task table (1, 2, 10 and 100 ms periods, and the flash task every
  pass), a 1 ms timer interrupt (`task_isr`: time base, transport tick, bus-off
  recovery), the CAN interrupt of the same priority, and the flash-completion
  interrupt of a lower one.
* **M0+ boot loader** (`M0_BOOT/SOURCE/ld_task/src/m0_boot_task.c`): the same
  scheduler; diagnostics and the update sequence run in every pass.
* **M4** (`Example/CM4_FOC`, `M4_BSW`): a fast-loop interrupt (10 kHz) and a
  speed-loop interrupt (2 kHz) of one priority, the IPM fault pin, the IPC
  interrupt, and an idle loop that asks for fault clearing.

### 1.2 Components

| component | state it keeps | operations | what is hard | what makes it correct |
|---|---|---|---|---|
| Flash request engine `ld_flash/src/m0_flash_async.c` | request queue, append-only data buffer, row buffer, chunk in flight | queue erase/write, process, wait, read, completion interrupt | completion, timeout and callers interleave; the macro hangs, fails, answers late; power loss | segments stay apart; what is programmed is what was asked, in order, once; calls return |
| Bus-off recovery `CanUds/User/can_busoff.c` | status, periods, attempts, report flags | 1 ms tick, CAN interrupt callbacks | bus-off against a pending confirmation; long runs of bus-offs | back-off kept; no bus-off lost; the channel recovers |
| Transport protocol `CanUds/CanTp/cantp.c` | two receive contexts, one transmit context, timers | frame handlers, tick, transmit | lost/late/duplicate frames, timeouts, two channels sharing a transmitter | whole messages only; flow control obeyed; everything comes to rest |
| Motor drive `MS/src/Ifx_MS_FocSolutionF16.c`, `Example/CM4_FOC/main_cm4.c` | state, sub-state, module states, start-up session, fault latches | two loop interrupts, fault pin, M0 word, idle loop | commands and faults at every step of a slow switching sequence | PWM only while measured; faults stop and stay; fresh starts; no waiting for ever |
| Boot loader `M0_BOOT/.../bootloader.c`, `can_dcm.c`, `uds_user.c` | update step, image regions, three non-volatile words, session, security, timers | services 10 11 27 31 34 36 37 3E, main process, timers, start-up | power loss, repeats, abandoned sequences, hand-over across a reset | installed = sent; what starts is whole; pending answers are completed; the ECU comes back |
| EEPROM emulation `Eeprom/*`, `RingBuf/ringbuf.c` | ring buffer, page writer, item errors, work flash | buffered write, 10 ms process, sector read-erase-write | power loss inside a sector rewrite; retries; shared counters | writes stay in their area; success means stored |
| Trouble codes `CanUds/CanDtc/can_dtc.c`, `dtc_user.c` | status, appearance, snapshots, store flags and pause | 10 ms evaluation, 100 ms snapshot, services 14/85 | evaluation against clearing, storing, restarts | a stored code survives; every change due is stored |
| Application diagnostics `CanDcm/can_dcm.c`, `uds_user.c`, `bootloader.c` | session, security, a request context and a busy flag per address, reset delay, one write slot, hand-over state | services 10 11 27 28 2E 3E 85, main loop, 10 ms process | results that later passes fetch; S3 and a reset against services at work | requests are answered; a granted reset happens, an ungranted never; what was acknowledged is stored |
| Inter-core mailbox `M0_M4_MID/src/m0_m4_ipc.c`, `m0_var.c`, `m4_rte.c` | a structure for each direction, checksum, pipe's busy and release | setters, send, receive interrupt, consumers | two cores on one live structure; dropped messages | what lasts is carried out |
| Command and fault logic `ld_app/src/user_funtion.c` | command, fault words, a counter per fault and way back, attempts, locks | the 1 ms cycle, readings every 100 ms | eleven interacting counters under a command that is applied again for ever | heater and drive stop in time; locks hold; all else ends |
| Schedulers and timers `m0_task.c`, `m4_task.c`, `SoftTimer/soft_timer.c` | task states, ticks | loop pass, tick | wrap-around, drift, starvation | every task runs within its period plus a bound |
| CAN driver and messages `can_driver.c`, `canif.c`, `can_user.c` | transmit buffers, one repeat slot | transmit, receive | full buffers | order and loss |
| Heater duty, RTE, load profiler, control arithmetic, gate driver, XCP, generated wrappers, set-up code, vendored code | - | - | mostly data or third-party | see "Not modelled" |

### 1.3 How they interact

* Diagnostics: CAN interrupt -> `cantp` (interrupt level) -> request buffer -> DCM
  in the main loop -> services -> `cantp_transmit` in the main loop.
* Trouble codes -> ring buffer -> page writer -> EEPROM driver -> flash request
  engine -> flash macro. Every driver call waits until the engine's queue is
  empty, and a work-flash read pumps it.
* Application -> boot loader: three words of emulated EEPROM and a reset.
* Vehicle frame 0x20A -> command and fault logic (1 ms) -> heater switch; -> M4: run
  command, speed and fault word through the IPC structures -> motor drive.

## 2. Modules

`FlashStore`, `FlashAsync`, `CanBusoff`, `FocDrive`, `CanTp`, `BootLoader`,
`EepromCtrl`, `DtcStore`, `IpcMailbox`, `AppDcm` and `Protection` model the code; `MC<Module>` gives constants their
values for TLC where a cfg cannot (`CanBusoff`, `FocDrive` and `IpcMailbox` need none and
are checked as they are); `<Module>Proofs` holds the theorems.

### FlashMacro, FlashStore, FlashAsync (`m0_flash_async.c`, `m0_flash.c`)

`FlashMacro` holds the flash as an array of words and what an erase or program
does to it. `FlashStore` is the abstract promise: a FIFO of requests, carried out
chunk by chunk, each at most once, with the data of the submission; one is given
up only when the macro fails on it; a reset forgets the queue and hurts one row or
sector at most. `FlashAsync` is the code: `q` is `s_task_queue`, `buf` with
`dataStart`/`dataAlloc` the data buffer, `rowBuf` the staging row, `complete` and
`inflight` the flags shared with the interrupt, `age` the chunk timer, `call` the
blocking call of the main loop. `StoreSpec` is the refinement, by the mapping
`Pending`. The macro may fail, hang, or answer late (`Faults`, `Late`).

### CanBusoff (`can_busoff.c`, `m0_canfd_cfg.c`)

`sts`, `flag`, `recoverFlg`, the two period counters and the two attempt counters
are the code's; each status is an action, `Tick` the 1 ms call,
`CanfdInterruptHandler` the callbacks. `since` and `tries` are history.

### FocDrive (`Ifx_MS_FocSolutionF16.c`, `main_cm4.c`, `MHA`, `MAS`)

`SpeedLoop` is the whole speed-loop interrupt: start-up session, then the state
function of the current state, with the ADC, pattern generator and modulator
switched by `LocalEnable` one step a call; `FastLoop` moves the modules and
commands a voltage. At least one fast loop runs between two speed loops. The two
enable flags of the code are always equal and are one variable. The uninitialised
`bridgeDrvStatus` is a nondeterministic choice (`garbage`). Arithmetic is left out:
speed is a short ramp, the voltage `zero` or `drive`.

### CanTp (`cantp.c`, and 205-336 of `can_dcm.c`)

Receive contexts `rx["phys"]`, `rx["func"]`, the multi-frame state `mf`, the transmit
context `tx`, the server's buffers `dcm`; one action per kind of frame, one for the
tick, and the server's taking and answering. A message is a sequence of pairs
(message, chunk). The tester is legal: no request while its last physical one is held
or served, nor while a flow control for an older one is still due; it asks to wait
only before the first block (`LateWait`), does not restart within the tick of an
error (`HastyRestart`), and functional requests get no answer (`FuncAnswered`). The
server receives without blocks (`N_PCI_BS` is 0), but its flow control carries the block
size left in the transmit context by the tester's last one (`cantp.c:1226`): the tester of
the model keeps to it, pauses after the block, and ends by giving up, since the server
never sends another. In this build transmissions are not confirmed and frames have 8 bytes; what only other
settings reach is left out.

### BootLoader (`M0_BOOT`: `bootloader.c`, `can_dcm.c`, `uds_user.c`, `m0_boot_task.c`, `m0_boot_flash.c`)

`bl` is the update step with its download state, `dcm` session, security and the
service in progress, `tmr` the timers, `mem` the images row by row, `nv` the three
non-volatile words, `work` the flash operations a blocking call still has to make,
one row each, between which `PowerCut` may come (the supply or the watchdog). A time
unit is about a second: no time passes while work is pending, because the watchdog
(1 s) is not fed inside a flash operation. Left out: DID counters, the flash
driver's bytes, seed and key values, the level-1 security, the pre-condition routine,
services without effect on the update, functional addressing, and the erase failure
branch, which no caller can reach.

### EepromCtrl, DtcStore (`Eeprom/*`, `ringbuf.c`; `can_dtc.c`, `dtc_user.c`)

`EepromCtrl` is a module of actions without a specification of its own: `rb` the
ring buffer in cells, `ctrl`/`wr`/`cur`/`temp` the writer, `err` the item errors,
`mem` the work flash, `pend` the driver's erase and write that the flash engine
has not done yet. `WriteStart` writes one page a call, the short last page whatever
the quotient, as the code does. `DtcStore` EXTENDS it: `DtcProcess` is one call of
`can_dtc_process` (read at the first, evaluate and clear in the order of the codes,
store one item), `DtcUser` the snapshots, `EeTask` one call of `eeprom_app_process`;
the two 10 ms tasks take turns. `FlashDone`/`FlashFail` carry out a request in
between; `PowerCut` clears the RAM and leaves the request under way undefined.
`kept` is history: the codes the flash must know.

### IpcMailbox (`m0_m4_ipc.c`, `cy_ipc_pipe.c`, `m0_var.c`, `m4_rte.c`, `main_cm4.c`)

`out` is the CM0+'s live structure `m0_set_data`, written one word a step by the
setters (`M0Step` carries out the list `Task_1ms_cycle` leaves); `busy`, `notify` and
`release` are the vendored pipe driver (`cy_ipc_pipe.c`, `cy_ipc_drv.c`); `isr` the CM4's interrupt, which sums, compares and
copies the live structure word by word; `in` its copy `m4_get_data`; `rte` the place
of the CM4's main loop, whose flag clearing writes back the data it loaded with the
flag. A checksum is a sum of small numbers, so that a torn message may have a right
one, as in the code. The other direction carries measured values without control.

### AppDcm (`can_dcm.c`, `can_dcm_cfg.c`, `uds_user.c`, `bootloader.c`, `can_user.c`)

The application's server: `Ask` lets the tester send a request on either address,
`Pass` is one pass of the main loop (`dcm_main_function` for both contexts,
`uds_user_process`, the hand-over of `bootloader.c`), `Period10` the 10 ms task with
the S3 timer, the reset delay and the write, `Can_Transmit` and `FlashDone` what goes
on outside. `owed`, `want` and the like are history: what the tester was promised.
S3, pending and reset delays are constants in the order of the code's.

### Protection (`user_funtion.c`, `m0_task.c`)

`Task_1ms_cycle` is the whole cycle of the CM0+'s 1 ms task, `Frame` the CAN interrupt
that stores a frame. `frame`/`rx` are the frame and its flag, `cmd` is `control_cmd`,
`can`, `temp`, `lock`, `dry`, `bus`, `phase`, `power` the counters and bits of one
group of faults each, `slow` is `count_500`, `heating` and `sent` what heater and CM4
are told. Readings are classes ("warm" lies within the hysteresis); counters that the
code lets run on while nothing looks at them are cut at their bound. In a behaviour
one kind of reading is disturbed (`family`), because the groups share nothing but the
command, the count of trips and the words their faults end in. `burnt` and `spun` are
history: how long a hazard has been met with the actuator left on.

## 3. Runs

All bounds are constants of the cfg files. The passing runs:

| run | shows | bounds, and why they are enough | size |
|---|---|---|---|
| `flash_engine` | `SegmentsOK`, `SourceIntact`, refinement of `FlashStore`, `CallReturns`, `QueueDrains`, with failures, hangs and power loss | two rows and two sectors, queue of 2, buffer of 3 words: full queue, full buffer, rewinding, row crossing and the caller pumping all occur | 1-4 min |
| `busoff` | `StoppedWhileWaiting`, `RestartBacksOff`, `BusOffHandled`, `Recovers` | two fast attempts, periods 3 and 5: both counters expire and are left over; bus-offs without bound | seconds |
| `foc` | six properties, two of them liveness | alignment of 1, calibration of 2, a speed ramp of 2 that crosses the transition: every state change of the code | < 1 min |
| `cantp_req` | `RequestIntact`, `AcceptedServed`, `Settles` | requests of up to 3 frames, with and without a block size left over from a response, sequence numbers modulo 2, timers of 2 ticks: every receive state meets every frame and timeout | 2 min |
| `cantp_res` | `ResponseIntact`, `FlowControlled` | responses of up to 3 frames under block sizes, waits and overflow | < 1 min |
| `bootloader` | `InstalledIsSent`, `StartsWhole` | a file per core of two rows, two security attempts, one supply failure anywhere | 1-2 min |
| `boot_live` | `PendingAnswered`, `ComesBack` | one file, one supply failure | 1-2 min |
| `nvm` | `StaysInArea`, `FramesWhole`, `SuccessIsStored`, `Remembered`, `StatusStored` | three codes, pages of 2 cells in sectors of 6, one retry, two events, one flash failure, one supply failure; the pause between stores a little longer than an item and its retry take, as in the code (50 calls against some 20) | 3 min |
| `ipc` | `CommandArrives`, `FaultArrives` | two commands, two fault words, every word a step of its own: every interleaving of one message with the next | 2 min |
| `appdcm` | `RequestsAnswered`, `HandedOver`, `ResetAnswered`, `WritesStored`, `DtcSettingReturns` | one request under way per address, delay + reset + lag below S3, as in the code (30 and 20 against 500 ticks of 10 ms): S3 runs out before, during and after each service | 1 min |
| `protection` | `HeaterStops`, `DriveStops`, `HeaterLocked`, `Resumes` | two passes between readings, confirmation and recovery of 1 to 4 passes, two trips, dry burns and attempts: each count reaches its limit, is reset on the way and starts again after it; the bounds of `HeaterStops` and `DriveStops` are the least that hold | 2 min |

One violation run, a disagreement of code and comment recorded as a finding:
`flash_late`. `m0_flash_async.c:417` says that a late response must not complete a
later chunk; it does, when the next chunk was refused by a busy macro.

Further cfg files are demonstrations outside the list; each violates what it names:

| cfg | shows |
|---|---|
| `MCFlashAsync_source` | a late response lets the row buffer be restaged while the SROM may read it |
| `MCFlashAsync_read` | a read may return erased words for a region that holds data (mixed byte and word counts, `m0_flash_async.c:315`) |
| `MCFocDrive_disable` | a command withdrawn during the switching on leaves the pattern generator on |
| `MCCanTp_func` | an answered functional request breaks into a response being sent |
| `MCCanTp_block` | a response in blocks after a functional frame is abandoned |
| `MCCanTp_wait` | a wait after the first block lets a CF out of turn |
| `MCCanTp_fc` | after a response in blocks the server's own flow control stops a request half way, although `cantp_cfg.h:28` says of its block size "0:No longer send FC" |
| `MCCanTp_restart` | a restart within the tick of a sequence error joins two messages |
| `MCBootLoader_mix` | leaving a download for another file's mixes the two |
| `MCFocDrive_restart` | a command renewed while the modules are being switched off reaches run without PWM, although `Ifx_MS_FocSolutionF16.c:1818` has all modules enabled in standBy |
| `MCBootLoader_start` | the result of the dependency check (`M0_BOOT/.../bootloader.c:737`) does not decide about the start: its write is commented out |
| `MCDtcStore_clear` | clearing one code resets the appearance of all (`can_dtc.c:28`, `:583`) |
| `MCIpcMailbox_torn` | the CM4's copy may mix two commands although its checksum was right; it does not last |
| `MCAppDcm_early` | in the first 100 ms a second write replaces the first after its positive answer |
| `MCAppDcm_reset` | a write acknowledged while a granted reset waits may be lost |
| `MCAppDcm_silent` | one refused 28 01 silences the ECU beyond its session, until a reset |
| `MCProtection_lock` | a clear while the drive is locked after over-power lets it run without supervision of its power |
| `MCProtection_clear` | an over-current confirmed and cleared between two sendings of the fault word never reaches the drive |
| `MCDtcStore_boot` | a fault present at the first evaluation is no occurrence |
| `MCDtcStore_retry` | an item whose check failed stays in error until the next start |

### Fairness

* Timer ticks, tasks and interrupts recur: weak fairness of `Tick`, `Pump`, `Loop`,
  `Take`, `Answer`, `Dtc`, `EeTask`, `SpeedLoop`, `FastLoop`. The schedulers run
  every ready task in turn and no task blocks for ever except in flash calls,
  which are modelled.
* The flash macro finishes, fails or hangs: weak fairness of its actions together
  (`flash_engine`), of the operations (`BootLoader`, `DtcStore`).
* `FrameSent` is strongly fair in `CanBusoff`: periodic transmission goes on, and a
  healthy bus confirms frames although bus-offs interrupt it.
* `IpcMailbox`: weak fairness of both cores and the pipe, and strong fairness of
  `M4Main`: the CM4's interrupt takes microseconds once or twice a millisecond, so
  that the main loop gets its turns between.
* `AppDcm`: weak fairness of `Pass`, `Period10`, `Can_Transmit`, `FlashDone`: the loop,
  the tick, the bus and the flash engine (`flash_engine` shows that it ends) recur.
* `Protection`: weak fairness of `Task_1ms_cycle`. Its properties in time count passes
  and need none.
* No fairness on faults, supply failures, commands and the tester. `Settles` and
  `ComesBack` are conditional on the tester's silence, `Recovers`, `Starts`, `StopEnds`,
  `CommandArrives`, `FaultArrives` and `Resumes` on a lasting condition.

## 4. Proofs

| theorem | statement | argument |
|---|---|---|
| `FlashAsyncProofs!TypeCorrect`, `!SegmentsStayApart` | `Spec => []TypeOK`, `[]SegmentsOK` | `IInv` adds the shape of the call and of the macro's operation and that only the head has been begun. The types need the segments: a chunk's source lies in the buffer because its segment does. Lemmas: an append goes to the end, a release advances the start, an empty queue rewinds |
| `FlashAsyncProofs!SourceStaysIntact`, `!EngineIsStore` | `~Late` implies `Spec => SourceIntact`, `Spec => StoreSpec` | `OpInv`: what the macro works on is the chunk of the head that is in flight, read from the head's segment or from the staged row. With it each step is mapped: the end of an operation is `Apply` or `Fail` (the words done of `Pending` count a completed chunk at once, so that the bookkeeping that follows is a stutter), queueing is `Submit`, popping `Retire` or `Drop`, a power loss `Crash`; all else stutters. The segments keep the data of the other requests apart while one is appended or released. With `Late` an operation may belong to a task long gone: `MCFlashAsync_source` shows `SourceIntact` violated |
| `CanTpProofs!RequestsIntact`, `!ServesAccepted` | `~FuncAnswered` implies `Spec => AcceptedServed`, and with `~HastyRestart` also `Spec => []RequestIntact` | each handler is first described by the few things it can do to a context (`Turn`, `Confirmed`, `Heeded`, `Sent`, `Driven`), whatever the timers. `Asking` then says that one message at a time is on the physical channel - received, held, served or answered (`OneAtATime`), that a reception is no further than the tester's sending (`Requesting`), and that the buffer holds the chunks counted so far (`Copied`); `Rested` that a tick leaves nothing to be sent at once. `OneAtATime` and `Requesting` need no `~HastyRestart`, so neither does `AcceptedServed` |
| `CanTpProofs!ResponsesIntact`, `!ResponsesWhole` | `~FuncAnswered` implies `Spec => []ResponseWhole`, and with `MaxRes <= SnMod + 1` also `Spec => []ResponseIntact` | `Responding` ties the transmit index, the number and the count of a response under way; `Collected` says that the tester has no more frames than were sent, and those from the start if it has missed none. If a response is short, the number alone tells that the next frame is in order, because at most one round is outstanding (`ModOne`). If not, a tester that has missed one may take a wrong frame, but never comes to the number announced |
| `CanTpProofs!FlowIsControlled` | `~FuncAnswered` and `~LateWait` imply `Spec => FlowControlled` | `Flowing`: in every state from which a frame can go out the grant covers the block counter, or the rest of the response if the block size is zero, also while a flow control frame is held for the next tick |
| `CanBusoffProofs!StoppedOnlyWaiting`, `!RestartsBackOff` | `[]StoppedWhileWaiting`, `RestartBacksOff` | `Counting` ties each counter to the time since the stop, `Attempts` the attempts left to those made |
| `BootLoaderProofs!InstalledHolds`, `!StartsWholeHolds`, `!SafeWritesHolds` | `~MixFiles` implies `Spec => []InstalledIsSent`, `[]StartsWhole`, `SafeWrites` | in three layers. The contexts a pass works on are typed (`CtxT`). Each service, the DCM and the step machine have one of few outcomes for a download (`Passed`): it is left, it rests, a block is stored, it is begun, ended or installed, or the staging area is emptied; so the many cases are gone through once. `IInv` relates the staging area to the transfer: it holds blocks of the tester's file in their rows and nothing else (`PreOK`); while a download loads, all rows up to the counter, the last of them perhaps queued (`DownOK`); at its end the whole file (`IntegOK`); and what is queued after the integrity routine is the tail of an installation of it, whose rows already done are in place (`CheckOK`). The other image is whole or blank, unless a supply failure tore one (`ImagesOK`). With `MixFiles` it is false: `MCBootLoader_mix` |
| `FocDriveProofs!TypeCorrect`, `!PwmIsMeasured`, `!FaultsStopDrive`, `!FaultsOutlasted`, `!StartsAreFresh` | the type invariant and four of the run's properties | `LocalEnable` enables the generator only after the ADC and disables the ADC only after the generator; `OverdueStopped` says that a fault seen by a speed loop has left the driving states |
| `ProtectionProofs!HeaterStaysLocked` | `Spec => HeaterLocked` | the property is about one step and does not hold of a step from any state: what makes it hold is `Barred`, a used-up count comes with a fault. The counts never fall, a trip raises the fault it counts, and a recovery looks at the count after the trip, which for the outlet includes one of the inlet in the same pass |
| `ProtectionProofs!HeaterStopsInTime` | `Spec => []HeaterStops` | `Behind`: the history of each hazard, `burnt`, is bounded by the counter of the code that confirms it, so a pass that would reach the limit raises the fault and leaves the heater off. The counters need not start anew with the history: they go on where the heater is off. Two hazards lean on something else: a silent vehicle on `HeatAsked` (heat is commanded only once a frame has been taken, which counts one pass), a broken sensor on the outlet and the board having none |
| `ProtectionProofs!DriveStopsInTime` | `~ClearsAnyTime` implies `Spec => []DriveStops` | `Following`: until the fault is confirmed the history, `spun`, is bounded by the counter as before; from then on by the limit and the passes since the fault word was last sent, at most a period. Over-power is counted with the sendings, so its bound has no period; there `Told` is needed: its fault has been sent, a lock comes with its fault, and no frame clears it under the lock. Without `~ClearsAnyTime` the property is false, as the two demonstrations show |
| `AppDcmProofs!HandOversWhole` | `Spec => HandedOver` | a pass is cut into its parts (`Mains`, `Starts`, `Answers11`, `Counts`), each described by the few things it can do. `Hand`: a pass that takes the hand-over up stores it before it is over, and nothing but the boot loader takes the flags back |
| `AppDcmProofs!ResetsAnswered` | `Lag * (Dly + 2) < S3` and `1 < Dly + After` imply `Spec => ResetAnswered` | `Going`: a hand-over keeps the context until its reset, because the delay left and the S3 time elapsed never exceed the one at its start. `Timely`: in each unit that the delay of service 11 counts, S3 counts at most `Lag`; `Asks`: so the context still holds the request when its answer is due, and only then is its result one that lets the reset come |
| `DtcStoreProofs!WritesStayInArea`, `!FramesAlwaysWhole`, `!SuccessAlwaysStored`, `!AlwaysRemembered` | `Spec => []StaysInArea`, `[]FramesWhole`, `[]SuccessIsStored`, `[]Remembered` | one invariant for the four: `Phase` follows an item from the call that gives it to the check, with what the ring buffer and the write buffer hold of it, how far its pages have come, and how many calls of the EEPROM task are left before the next item may be given (`Room`): when the pause is over the writer rests and the ring buffer is empty, so no frame is refused or cut. A retry sends one page more, so the pages stay in the area, and the sectors around them do because areas are whole sectors (`SectorsIn`). What the flash works on belongs to the item being written, which is not reported as stored (`ElsewhereStored`). `KeptOK`: the codes the flash must know are in the status cell, or, while it is erased, in the image queued for it, and in the status last given; otherwise a later store could drop them |

They hold for all values of the constants under the modules' named assumptions
(`GeometryAssumption`, `FitAssumption`, `ContentAssumption`, `DtcAssumption`, `ConfigAssumption`, `TpAssumption`, `BootAssumption`, `DcmAssumption`, `DriveAssumption`, `ProtectionAssumption`): positive sizes, rows
and sectors that divide the flash, natural periods.

`FitAssumption` and the last part of `DtcAssumption` are what the configuration of the
EEPROM items must satisfy, and does: items are placed in whole sectors (of 128 bytes); the
status, 15 bytes in two sectors, takes one page of 32 bytes and three more for its retries,
the snapshots, 360 bytes in five sectors, eleven and three; both fit the write buffer of 1024
bytes and, with a header, the ring buffer of 512; and the snapshots with all retries
take at most 23 calls of the EEPROM task where 50 lie between two stores. A larger item, more
retries or a shorter pause that breaks one of these is no longer covered.

The hypotheses of the `CanTp` theorems are about the tester and the responses, and TLC
shows three of them needed: `RequestIntact` fails with a hasty restart
(`MCCanTp_restart`), `FlowControlled` with a late wait (`MCCanTp_wait`), `ResponseIntact`
with an answered functional request (`MCCanTp_func`). `ResponseIntact` is about what the
tester has so far, and fails for responses of more than `SnMod + 1` frames: a tester that
loses a whole round of consecutive frames takes the one after it for the next. With
sixteen numbers those are responses of 18 frames and more (the buffer of 256 bytes holds
37), for which `ResponseWhole` is what the code promises: a response with all its frames
is whole. Without `~FuncAnswered` no run violates `AcceptedServed`; it
is proved only with it, because `OneAtATime` is then false.

Those of `ResetsAnswered` are about delays. The code has 5 s for S3, 100 ms (300 ms in
another build) for the delay and 50 ms more for the reset: the passes of the main loop would
have to fall behind by 420 ms (160 ms) for each 10 ms that they count before S3 gives the
context up in the meantime. Both are needed: TLC finds `ResetAnswered` violated for
`S3 = 8`, `Dly = Lag = 3`, `GoReset = Per10 = 1`, where S3 runs out first, and for `Dly = 1`,
`After = 0`, where the reset comes in the pass that answers.

Every invariant and action property of the runs, and the refinement, is stated by a theorem.
Only model-checked: all liveness (fairness and ENABLED are beyond the prover), for `CanTp`
that is `Settles`, for `AppDcm` `RequestsAnswered`, `WritesStored` and `DtcSettingReturns`,
for `DtcStore` `StatusStored`; and everything of `IpcMailbox`, whose properties are all of
this kind.

Four hazards and half of a fifth have no property of a run and say why in `PROJECT.json`:
the clearing of one trouble code (`can_dtc.c:583`) and a refused 28 01 (`uds_user.c:410`),
which the code gets wrong as the demonstrations show; a fault clear that later messages carry again (`m0_var.c:171`; `FaultOutlasted` only bounds what it
can do), a clear by the vehicle during a run or a lock (`user_funtion.c:1598`; excluded from
`DriveStops`, shown by two demonstrations), and a request that the tester sends while its
last is held (`can_dcm.c:212`; the tester of `CanTp` does not).

## 5. Plan

Done, in the order of importance: the flash engine with its abstract store; bus-off
recovery; the motor drive; the transport protocol; the boot loader; EEPROM emulation
and trouble codes; the inter-core mailbox; the application's services; the command and
fault logic. Still to do:

1. An abstract store for `EepromCtrl` and `DtcStore`, and its refinement.
2. A finer grain of `cantp_transmit` against the tick, and the choice of a transmit
   buffer in `Can_Transmit`.
3. `TaskSched`: the task status machine with a wrapping tick.

New runs take the place of existing ones, whose cfg files stay as demonstrations.

## 6. Not modelled, and why

* Motor control arithmetic and the generated wrappers: fixed-point signal processing
  whose properties are about real-valued dynamics.
* Heater duty, speed and power set points, and the faults that follow from the heater's
  own current: arithmetic over measured values, and counters built like those modelled.
* Task status machine and software timers: the models take the tasks' turns from the
  tables, as actions that recur. Drift and the wrap of the tick are not modelled.
* RTE and load profiler: signal routing and time measurement.
* Gate driver: not initialised in this build.
* XCP: a third-party slave that reads memory for a calibration tool.
* Hardware set-up: register writes before the schedulers start.
* The synchronous erase/write of the EEPROM driver and its large-sector branch: no
  item of this build uses them.
* Of the trouble codes: occurrence and ageing counters (no operation cycle ever
  ends), the local snapshot (never stored, `g_dtc_nvm_store` has no writer) and the
  service 19 read-outs.
* Vendored drivers (but for the pipe driver in `IpcMailbox`), simulations, analyses and tools.
