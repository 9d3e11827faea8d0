# Specifications of the duksan gateway

The repository is a Linux 2.6 tree for an embedded board together with the
program the board runs: `src/duksan_Lin/APP`, a *DDC* (direct digital
controller) that samples analogue and digital points, drives outputs, exchanges
point values with the other nodes of a Net32 network, and reports them to a
monitoring station ("3iS", called *elba* in the code), to BACnet and to other
field protocols. Everything outside `src/duksan_Lin` is the kernel, boot loader
and vendored libraries. These modules are about the gateway; paths below are
relative to `src/duksan_Lin`.

## 1. Inventory

One process, `APP/Src/main.c`, starts a dozen threads over a shared table of
points. There is one mutex for the table (`pointTable_mutex`), one for each
message queue, and otherwise plain variables which threads poll.

| component | state | operations | talks to |
|---|---|---|---|
| Message queues, `queue_handler.c` | `front`, `rear`, ring of `MAX_QUEUE_SIZE` for net32, elba, uclient | `putq`, `getq`, `*_push_queue`, `*_pop_queue` | every thread below |
| Point handler, `point_handler.c` | `g_pPtbl` (definitions, `f_val`, `f_preval`), `g_fExPtbl` (values of all nodes), `pointTable_mutex` | `pSet`, `pGet`, `pReq`, `pDef`, `pnt_local_pset`, `pnt_local_adc`, `pnt_local_subio` | called by all others; pushes to the queues |
| Net32 manager, `net32_mgr.c` | device, `g_nNet32_flag`, node status | loop: send one message, then receive one; REPORT, COMMAND, REQUIRE | point handler, queues, net32 driver |
| Station link, `elba_mgr.c` | socket, the rest of a frame (`bPrevBuf`, `nIndexPrev`), time request | connect, `elba_recv_message` cuts the stream into frames, `elba_parsing`, `elba_send_message` in batches of eight | point handler, elba queue |
| Command socket, `cmd_handler.c` | one unix socket, one thread | `pset`, `preq`, `pdef`, `pinfo`, `cal`, debug | point handler, point manager |
| Point manager, `point_mgr.c` | `g_pCal`, `g_nCalReady`, `g_nCalStatus`, `g_nCalGrp` | scanning, output, calibration, factory reset, communication watchdog | ADC driver, point handler |
| SUBIO boards, `subio_mgr.c` | `g_nSubioAliveChk`, UART | polling loop over four boards | point handler |
| Start-up, `main.c` | saved table, mode flags | `point_table_init`, thread start, `bootup_data`, reboot timers | everything |
| Point observer, `point_observer.c`, and `point_file_init` of `main.c` | `point00.dat`, `point01.dat`, ... (one file of values per node), access flag `g_nFileAccess` | creates, compares and rewrites the files (a thread `config.dat` may switch on); start-up reads them or makes new ones | point handler |
| APG, dbsvr, userver, uclient, modbus, demo, log managers | a socket or a file each | requests and commands, periodic reports | `pSet`, `pGet`, `pReq` |
| GHP interface, `APP/Iface/IFACE_GHP` (a process of its own for a controller of gas heat pumps; `IFACE_CNUE` is an earlier copy) | settings of the indoor units in a point table, its shadow `prePtbl`, a message queue; three bytes per unit for its schedule; `Dong_Data`, the last values of the group switches | `hong_while`: polls, reports, comparison, texts, start-up; `Check_Schedule`; `Dong_OnOff`; stop mode; a server for schedule files | the controller's line, users at the points, `SchedGHP.dat` |
| PowerStation, `IFACE/PowerStation/plc_app` (another process) | records of points with `val`, `PrevVal`, `Unsol`, `WrFlag`, `WrVal`; `link_status`; one socket per station | the PLC thread reads blocks and writes commands in turns, a thread per station sends unsolicited values and takes commands, a command server sets points | the PLC, DNP stations |
| Other plug-ins, `APP/Iface/*` (BACNET, DNP, HANTEC, PLC, XGT, ...) | a field bus each | polling loops | `pSet`, `pGet` |
| Drivers, `DRIVER/*` (ADC, NET32, ...) | buffers, interrupt state | read, write, ioctl | managers above |
| Command line clients, client library, `COMMAND`, `LIBRARY` | none | one message to the command socket | command socket |
| Other programs, `IFACE`, `UTIL` | own processes | XGT, Net32 over IP, web server and tools | client library, files |

What is hard, and what makes each component correct:

- **Queues.** `putq` and `getq` move an index before they touch the slot, so
  they are only right under the mutex of their callers; full and empty differ
  by one slot. Correct: an atomic FIFO that refuses a message when full.
- **Point handler.** Own values exist twice (`f_val`, `g_fExPtbl`). The mutex
  covers the two assignments, but not the comparison before them, nor the
  hysteresis test and the pushes after them. Correct: the copies agree,
  outputs and reports respect the limits, the network and the station end up
  with what the table holds.
- **Net32 manager and station link.** They answer with a value read earlier and
  add further writes of their own. Correct: an answer never hides a newer value.
- **Calibration.** Two threads meet over three unlocked variables. Correct: a
  pass is not disturbed, a JPT is not left half calibrated, a command returns.
- **SUBIO.** Bytes that arrive are credited to the board polled at that moment.
  Correct: values go to the right points; a dead board's inputs become zero, a
  live one's do not.
- **Value files.** Crashes between truncating and writing, files that end too
  early, an access flag that leaks. Correct: a restart never brings back a value
  that was not there, and what was saved completely comes back.
- **Station stream.** Frames arrive in pieces and connections end inside them.
  Correct: each frame that arrives whole is handled once, in order.
- **GHP settings.** A setting is in table, shadow and unit; users, remote
  controls and reports change them without a lock, and texts get lost. Correct:
  what a unit reports is not sent back to it as a command, a user's wish is lost
  only in ways one can name, and in the end all three agree.
- **GHP schedules and groups.** Schedule, users, groups and stop mode write the
  same switches, each with its own memory of the last pass. Correct: an interval
  starts with the unit on, once; a unit does not run for ever outside its
  schedule; stop mode wins; a group command reaches its units.
- **PowerStation.** One field tells which stations know a value, one flag that a
  command waits; three kinds of threads write both without a lock. Correct: every
  station gets the last value, every command is written; the PLC thread keeps to
  its own descriptor.
- **Start-up, other files, drivers.** Values read without the mutex while
  threads start, calibration and definition files truncated before they are
  written, batches lost with a connection, a driver variable shared by callers:
  listed under `hazards` in `PROJECT.json` and planned below.

## 2. Modules

| module | models | abstract / composed with |
|---|---|---|
| `BoundedFifo` | what a queue promises: `Push`, `Refuse`, `Pop` on a sequence | |
| `PointQueue` | `putq`, `getq` statement by statement, under the push/pop mutex | implements `BoundedFifo` |
| `PointTable` | point handler, net32 handler and loop, station requests, commands and sending, all sharing the table | its queues are the FIFOs `PointQueue` implements |
| `Calibration` | `cmd_calibration` and `pnt_calibration` | |
| `Subio` | `subio_main` and the boards on its line | |
| `ElbaLink` | `elba_main`, `elba_open`, `elba_close`, `elba_recv_message`: the connection and its frames | the commands in the frames are `PointTable`'s |
| `DurableRow` | what the value files promise: a row of values in memory, a row that was saved, restarts | |
| `PointFile` | `point_file_init` and `file_check` with its access flag, statement by statement, with crashes | implements `DurableRow`; the observer's write to the table is `PointTable`'s `Observe` |
| `GhpControl` | `hong_while` with `Write_Point`, `Chk_User_Control`, `Do_User_Control`, `Get_Ghp_Unit`, `Send_Polling`, `Startup_SDDC`; controller and units as its environment | |
| `GhpSchedule` | `Check_Schedule` and what it calls; the schedule server | |
| `GhpGroup` | `Dong_OnOff` and `AC_Dong_OnOff`: group switches of building, floors and sections | |
| `GhpRooms` | the pass of `hong_while` over stop mode, groups and schedules | composes `GhpGroup` and `GhpSchedule` |
| `PlcPoint` | one point of the PowerStation program between PLC thread, station threads and command server | |
| `PlcSockets` | the descriptors of those threads and of the two servers that accept connections | `MCPower` runs both |
| `MC*` | constants for TLC, and the runs that put two modules or modes side by side | |
| `*Proofs` | theorems, each in a module that extends its component | |

### PointQueue
One action per statement of `putq` and `getq` that reads or writes the ring;
`lock` is the mutex of `net32_push_queue` and its siblings, which all have the
same shape. A slot is a pointer-sized message, kept as a model value. `putq`
tentatively advances `rear` and takes the step back when the queue is full. The refinement mapping reads the abstract sequence out of the
ring: a message appears when it is written into its slot and leaves when `front`
moves past it. Bound: `MAX_QUEUE_SIZE` is 3 (4096 in the code, `INCLUDE/define.h`), which is the
smallest ring that can be empty, partly filled and full, and wraps. Three
threads and two messages give every order of push and pop around each of those.

### PointTable
`pc[t]` is the statement a thread is about to execute, `call[t]` the
`point_info` it carries and on whose behalf. Steps between two accesses to
shared state are joined; steps inside the critical section are two, since the
copies disagree between them.

| action | code |
|---|---|
| `PSetMultiOther`, `PSetMultiOwn`, `MultiVal`, `PSetForward`, `LocalPset` | `pSet` in multi-DDC and net32 mode |
| `PsetSame` .. `PsetUnlock` | `pnt_local_pset` |
| `Sample`, `AdcLock`, `AdcUnlock` | `pnt_local_adc`, `pnt_local_subio` |
| `IsHyst`, `SetPreval` | `pnt_is_hyst` |
| `NetPush`, `ElbaPush`, `UclientPush` | the pushes at the end of each path, in the order of the statements of each caller (`AfterNetPush`, `AfterElbaPush`) |
| `PReq` | `pReq` |
| `ElbaRequest`, `ElbaCommand`, `CommandEx`, `ElbaSend` | `elba_parsing`, `elba_send_message` |
| `Net32Send` .. `Net32Require` | `net32_send_message`, `net32_data_handler` |
| `Observe` | `file_check`: a value that differs from the file's is filed, and an own `f_val` set to it |

`Touches` says which points each thread is asked about, so that a configuration
chooses between exclusive and shared points. A queue of capacity 0 is a queue
nobody pops and that has long been full: that is the user client queue, whose
thread `main.c` does not start, and it is how a run leaves out a queue it is not
about. `Net32Send` and `ElbaSend` take messages out of their queue before they
send them, and neither the driver's answer nor the connection's is looked at:
what was taken may be gone, the station's up to eight at a time. `netView` and `stationView` are what the receivers know after everything
sent has arrived; `lost` and `untold` record drops.

The node starts from a saved table as `point_table_init` does: a new file is all
zeros, an old one holds what it holds, and neither is clamped. So values outside
a point's limits may be in both copies and in the file until something is written.
`f_preval` starts as the saved value, or as 0 where there is no `PointDefine.dat`;
then a first value near 0 is not reported, and the point is one of those in
`lost` and `untold` from the start until a message gets out. The limits and the
hysteresis are constants: `cmd_pdef`, which writes new ones below values that are
in use, is not modelled. After it the table is in a state the model has at its
start, with values outside the limits and a file that holds them.

`pnt_is_hyst` reads
`f_preval` twice (for equality and for the difference); the model reads it once.
Threads that race on one point could see two values there, but the outcome is
one of the two the model has for some order of them. Values are
integers where the code has floats: only their order and differences matter.

### Calibration
`cmd` and `pnt` are the positions of the two threads; `status`, `grp` and
`ready` the three globals. Of `g_pCal` only the two raw values of the JPTs are
kept, as where they came from (`saved`, `cleared`, `measured`), since they are
what two passes must fill consistently. A pass is one begin and one end action;
between them anything the other thread does is interleaved, which is what
`PassUndisturbed` looks at. The `sleep(1)` of the command thread is a step, not
a duration: that a scan takes less than a second is an assumption of the code.
`Save` truncates the file, `SaveDone` completes it; a restart in between finds a
short file, which `calibration_init` refuses: the program ends at every start
until somebody removes the file.
`cal setvalue` is arithmetic on floats and is left out.

### Subio
A turn is `Turn` (count, and set to zero when the count runs out), `Send`, and
one of `NoReply`, `Reply`, `SpoiledReplies`. `line` holds the answers under way.
An answer that was late is read in the turn of another board. An answer that was
disturbed or cut short, and two answers read together, are not taken, but still
reset the counter (`SpoiledReplies`): the code resets it before it looks at them. `Fails` and `Recovers`
are the boards' own. A group of type NONE counts and is skipped. Zero is what
`subio_value_zero` hands to `pnt_local_subio`, which clamps it to `f_min` and
passes it on to `PointTable`'s path. Requests of outputs (`DO`, `VO`) take a
turn like any other; their encoding is left out. Three history variables carry
what the properties speak of: `silent` counts the turns in a row in which a
board of inputs really said nothing, `source` is the board a group's values came
from, and `late` is set when an answer was read in a turn that is not its own.

### ElbaLink
`pc` is where the loop of `elba_main` stands: trying to connect, sending,
receiving, or about to close. The station's frames are requests, commands and
the time; a byte of a frame is a pair of frame and position, so that a buffer
tells where its bytes come from, and `ByteAt` gives the few values the loop looks
at. `wire` is what arrives and has not been read: `Recv` takes any number of
bytes of it, up to the size of a read, and `scan` is the loop that cuts them: a
turn of it handles one frame (`ScanFrame`), the last one may keep a piece
(`ScanPiece`). The lengths and positions are the code's; `payload` is one byte for a point
number or a value, since only a misplaced cut looks at it. Where a read
ends within the first six bytes of a frame the code looks at a byte an earlier
read left in the buffer; the two lengths it may choose lead to the same end, but
the time request it may set is a choice of the model (`NoteTime`). `Lost` is the
end of a connection, with or without what was still under way. `stale` is set
when a connection ended with a rest in `bPrevBuf`, and `arrived` are the frames of
which the last byte has been read. The sending of values is in
`PointTable`; that nobody looks at the result of `send` is why it has no second
outcome here.

### PointFile
One of the files, and the two pieces of code that use it one after the other:
start-up (`Boot...`, `point_file_init`) and, after it, the observer (`Check...`
to `ReadDone`, `file_check` with `fileStatusCheck`, `getFileAccess` and
`releaseFileAccess`). Only one of them runs at a time, so their interleavings
are those with the table, which `Change` changes at any moment, and with `Crash`,
the end of the process between any two statements. Of a buffered write nothing,
a first part, or (a crash after `fclose`) all has arrived. A rewritten value
that is still in the buffer is as one not yet rewritten. Power failures, after
which even closed files may be lost, are not modelled: the code has no `fsync`.
A stream that is closed twice is undefined behaviour: the model goes on or stops
the program. Reading after writing on one stream without `fseek` between them is
undefined in C and works in the library the board uses; the model has it work.
`failed` is set when an existing file cannot be opened or a file cannot be
created; after that some properties promise nothing, because the code takes
every failure of `fopen` for a missing file. The refinement mapping to
`DurableRow` takes the values in memory, and for what is saved the file while
it is complete.

### GhpControl
`table`, `pre` and `real` are the point table, `prePtbl` and the units. `st` is
the stage of `hong_while` and `at` what it does in it. A report is written
setting by setting, each as two steps around the comparison that decides it
(`WriteAllowed`, `WriteBlocked`, `Racing` for a user who writes in between);
`Chk_User_Control` looks at one pair of setting and unit per step, sets the
shadow and then queues the message with a second read of the table. Texts carry
up to `BatchSize` messages and are obeyed, rejected or lost (`SendObeyed`,
`SendRejected`, `SendLost`): checksums, retries and the bytes in between end in
one of the three. So do the texts of the startup, which arrive or are lost as one
(`Startup`, `StartupLost`): `Startup_SDDC` repeats a text once, and `hong_while`
does not look at how it went. Units answer late, with an error or not at all; the controller
may restart, and then rejects texts until its startup request was answered.
Values on the line differ from those in the table where the code converts them
(`ToLine`, `FromLine`). `by` and `wish` are histories: who wrote a value, and
what a user may still expect.

### GhpSchedule
One step reads the file, one step looks at a unit. A schedule keeps its modes,
intervals by group and day, and limit; the strings of the file are left out, its
three kinds of failure (missing, short, wrong checksum) are not. `seen`,
`touch`, `count` and `minute` are `group`, `chkTouch`, `minCount` and `preMinute` of
`g_UnitData`;
`minCount` is an `unsigned char` and wraps at `Wrap`. The server writes the file
in two steps and sets the clock; a stop in between leaves a short file. When the
file cannot be opened for writing the old one stays and the clock is set all the
same (`UploadFails`). What the server receives before that, and a schedule of the
wrong length or checksum, changes nothing but its buffer and is no step.
`since`, `over`, `past`, `known` and `torn` are histories.

### GhpGroup and GhpRooms
`point` are the switches users write, `copy` is `Dong_Data`. They are looked at
in the order of `Dong_OnOff`: `LookChanged` reads a switch that differs from its
copy, `PassOn` writes the value to the next of the switches below (`Writes`) or
of the units of the section (`Members`), one point at a time, and `LookEnds` sets
the copy to the value that was read. Users and the other programs write in
between. A section whose number lies beyond `PNO_ALL_DEFINE_END` is not reached from the
building directly. `AC_Dong_OnOff` is the same function for a building in which
one floor is passed on to the next as well: `Joined` are the floors for which it
does so, none for `Dong_OnOff`. `GhpRooms` is the pass that calls stop mode
(`StopMode`, then `Halt` unit by unit), groups and schedules one after the other,
with the further passes of stop mode and groups
while texts are being sent; `due` is what a group switch still promises a unit. A
command given while the same switch, or one above it, is just being passed on
promises nothing: the copy is set to the value read before it.

### PlcPoint
The record of one point, of a digital input, an output or a setpoint (analog
inputs are read as setpoints are, and never told). The PLC thread goes through
its four turns; `ReadOthers` is a turn without this point, or one that fails.
After a connect that failed too often `PLC_point_define` clears the record field
by field (`DefineUnsol` .. `DefineFlag`), while stations and the command server go
on with it. `Unsol` is one byte (`Stamp`): it holds the low byte of a descriptor.
An operate request with a control code the program does not know sets the flag
over the value of the one before (`RecvOperate`).
`Compare`, `Keep`, `Clear`, `Show` and `Flag` are single statements, since the
station threads and the command server read and write between them. `dnp` is the
station thread that holds `dnpObserver_mutex`; `Copy`, `Look`, `Mark` are the
three statements in which it sends a value and stores who knows it. Several
setpoints share a message whose count stays 1: `MarkBehind` is the point that was
not the first. `missed`, `cleared` and `fate` are histories: they name the steps
that keep a value from a station or a command from the PLC, so that `NewsKept`
and `CommandKept` say that there are no others.

### PlcSockets
`sock_fd = socket(...) < 0` stores 0, the result of the comparison. The PLC
thread therefore connects, reads and closes descriptor 0, which is the terminal
at first, then (closed once) what `socket` returns next, unless a server socket, a
station or a connection of the command server gets it in between. `table` is the
process's table of descriptors, `fd` the descriptor each station thread works on,
`server` the listening socket of each server and `stage` how far it has got with it:
`socket`, `bind` and `listen` may fail (`OpenFails`, `ListenFails`), after which
the DNP server ends and the command server begins anew. `reads` are the
connections of the command server, which last for one command each. When
`select` finds one of its descriptors closed it opens a second socket and leaves
the first as it is (`SelectFails`): where the PLC thread has closed only a
connection, the first one still listens on the port, and no `bind` ever succeeds
again. The model has this; no property is about it. `MaxCalls` bounds the sockets
the command server opens or accepts.

## 3. Runs

| run | shows | bounds |
|---|---|---|
| `queue_and_link` | two scenarios. The ring is a FIFO, holds only what was pushed, and its indices stay inside the critical section. The link: frames are handled whole, once and in order, however the stream is cut; time frames are answered; the rest of a frame stays short | 3 slots, 3 threads, 2 messages; 2 frames on a connection, with one payload, connections without end |
| `table_net32` | net32 mode: the copies agree, no value outside the limits is added to what the start found, the other nodes end up within twice the hysteresis of the table | output commanded and required by the network, input sampled; both start outside their limits, with `f_preval` or without; values 1, 2, 5; queue of 2 |
| `table_station` | net32 mode and multi-DDC mode with a station: it has every output and remote value exactly, inputs within twice the hysteresis, and the copies agree | 3 points of two nodes; in each mode one thread for each point and the observer next to those on the outputs; the input starts away from `f_preval` in multi-DDC mode; values 0 and 5; elba queue of 1 |
| `calibration_screen` | passes, pairs and returning commands when the operator repeats the JPT command as told | groups 0, 2, 3, of which 2 and 3 are inputs |
| `calibration_stuck` | violation: any other command between the JPT passes hangs both threads | same |
| `subio` | values go to the right points, all-silent is zeroed; while answers are in time, inputs are zeroed when, and only when, their own board is silent | 3 groups of types ADI, ADI, NONE; two answers on the line |
| `elba_reconnect` | violation: a connection that ends inside a frame spoils the next one | 2 frames |
| `file_durable` | no strange value after a restart; unless an open failed, complete files stay, what was saved comes back, and the file catches up with the table | 2 points, 3 values |
| `ghp_control` | reports never come back as commands; wishes are lost only in the ways named; everything settles | 2 units, 3 values, queue of 2, texts of one message, 4 outside events |
| `ghp_schedule` | intervals start with the unit on and are kept; runs outside end at the limit; no half-written schedule is used; modes settle | 1 unit, 2 groups, 2 days of 2 hours of 3 minutes, `minCount` modulo 4, 2 events besides the clock |
| `ghp_rooms` | stop mode wins; a group command reaches its units | 2 units, each in a section on a floor of its own, the second floor beyond the building's points and joined to the first; 3 events, or 2 where time goes on |
| `power` | two scenarios. A point: values reach stations and commands the PLC but for the named faults. Descriptors: only 0 is shared, leaks are counted, the PLC is reached again | 2 stations, each on its descriptor and, for an input, on 0; 2 values, 3 events; 2 connections of stations, 3 sockets of the command server, 7 descriptors |

Why the bounds are enough. In `table_net32` limits are 0 .. 3 and the hysteresis
is 2, so 5 is clamped (to a value other than any in the set), 1 and 2, or 2 and 3,
differ by less than the hysteresis, 1 and 3 by exactly the hysteresis. The output
starts at 5 and the input at -1, on either side of the limits, and a value 1 is
close to an `f_preval` of 0. In `table_station` limits are 0 .. 4: what is
written is 0 or, clamped, 4, which differ by twice the hysteresis, the distance
a missing report would show; the input starts at 4 with an `f_preval` of 0, so
that a first sample 0 is not reported. A queue of two
holds a report and an answer that overtakes it; it and a queue of one are full
after the first messages, so the drop happens at once; a longer one only
postpones it. Two points (one output, one input) meet every path of the table,
and points do not influence each other except through the queues and the mutex,
where one other point suffices. In the passing runs each point has one thread:
that copies agree and limits hold when any number of threads share a point is
proved (section 4). Group 0 of the calibration is the starting value of
`g_nCalGrp`; of two input groups one can be left half done while the other is
calibrated. Two SUBIO boards that answer are the fewest that can be confused; a
third group of type NONE is counted and skipped. The branches of output boards
are not in that run but in the proofs, which hold for any types. Of two frames
the first is the one that is spoilt or kept in part and the second shows whether
the cuts are right again; reads of every size up to the whole stream occur. The
payload is a zero, which a misplaced cut takes for a kind, or a '{', which it
takes for a start. Two points are the fewest of which a file can hold a part.

A unit with remote control and users, and a second one in the same text and the
same report, meet every race of `GhpControl`; three values tell a wish, an older
report and the value before apart. In `GhpSchedule` intervals lie inside an hour,
across the hour and at the end of the day, and `minCount` can wrap; days and units do not influence each other. In `GhpRooms` the unit
of the second floor is reached by the switches of its section, of its own floor
and, as that one is `Joined`, of the first, but not by the building's own write,
which covers the first two points only; a command to the building gets to it
through the first floor, but promises it nothing. Time
and the commands to the groups are two scenarios (`time`), since together they
exceed a run; stop mode, users and restarts are in both. `power` has one retry
where the code has three: each further one repeats the same step. A station
that comes back gets the descriptor it had, but with an input both may be on 0
in turn: two stations that take each other's number, and the number that `Unsol`
reads as everybody. Seven descriptors are the console's three, two for the servers
and two more, so that the table may be full; three sockets of the command server are
one to listen and two connections, or servers that begin anew. The theorems of section 4 have none of these bounds.

"Twice the hysteresis" in `NetworkFollows` is exact. A report moves the network
and `f_preval` to the same value, but the answer to a REQUIRE and to a COMMAND
with an equal value tell the network a value up to one hysteresis away from
`f_preval` and leave `f_preval` alone; the table may then move one hysteresis to
the other side without a report. It fails for once the hysteresis.

`SilentIsZeroed` and `ZeroedWhenSilent` promise something as long as no answer was
`late`. With late answers the first is false: an answer of board 1 read in every
turn of board 2 resets the counter of board 2, whose inputs then keep their last
values for ever. What is left is `AllSilentIsZeroed`. Nothing in the repository
promises more, so this is a limit of the design and no finding.

`NetworkFollows` and `StationFollows` are stated for points only one thread
touches (`Sole`), between calls (`Quiet`), and unless the last message was
dropped, by a queue, the driver or a connection (`lost`, `untold`). Each restriction is needed. Without
`Sole`, `net32_data_handler` refutes the first: it reads the value of an answer
under the mutex and pushes it afterwards, a `pSet` that changes and reports the
value in between is overtaken, the last report is the older value, `f_preval` is
the newer one, and no later scan repairs it. A queue that drops leaves the
receiver behind until the value moves again. `Sole` admits the observer next to
the one thread.

### Fairness
`Calibration` and `Subio` assume weak fairness of the threads of the process:
each loop sleeps with `nanosleep` or polls a device with a timeout, so it comes
round whatever the others do. Nothing is assumed of operators, boards, the
network or restarts: nobody need type a command, a board may stay dead.
`PointFile` assumes weak fairness of the observer: it sleeps 30 ms between files
and holds the mutex for an assignment at a time. Nothing is assumed of crashes,
starts or changes of the table; `FileFollows` therefore says that the file
catches up with a value that stays, in a program that keeps running, unless an
open failed. `GhpControl` and `GhpRooms` assume weak fairness of the thread of
`hong_while`, which polls with a timeout and waits for nobody, and of a controller
that repeats its startup request (`AskAgain`): without that, one ignored request
is enough for every text to be rejected for ever. `GhpSchedule` also assumes that
the server finishes a file it has begun. Nothing is assumed of users, units or
the clock. `PlcSockets` assumes weak fairness of the PLC thread (its waits are
`sleep` and a receive timeout), that a block read from something other than the
PLC fails in the end, and strong fairness of a connect that is possible again and
again: the PLC answers. The table, the queue, the station link and `PlcPoint`
have no liveness properties and no fairness.
Deadlock is checked in every run but `power`, where the bounded events and
connections let the system stop.

## 4. Theorems

All are proved for any values of the constants that satisfy the assumption named
in the module. No other fact is assumed.

- `PointQueueProofs`, about the ring: `TypeCorrect`, `QueueInvariant`, `OnlyPushed`,
  `Refinement`. `QueueInv` says that only the owner of the mutex is between two
  statements, that the ring is well-formed but for the owner's half-made step,
  and what that step has left. From it every step is a FIFO step or a stutter.
  About the station's link: `LinkInvariant`, `LinkInOrder`, `LinkRestIsShort`,
  `LinkTimeAnswered`, for any payloads, any number of frames on a connection and
  any cuts. `LinkInv` is about the `Stream`, what is held and what is still on the
  wire, put together: each of its bytes is followed by the next one of its frame
  and the last one by the start of the next frame (`Ordered`), it begins with the
  frame after those handled, and while the station is connected it ends with the
  last one sent (`Reaches`). A read leaves the stream as it is; a turn of the loop
  finds at its head what it takes for a frame (`ScanHead`) and cuts it off
  (`SuffixOrdered`). That a rest is short and the time is answered holds on a
  `stale` connection too, where nothing is known of the bytes; so these two are in
  a part of `LinkInv` of their own (`LinkShape`), and `TimeSeen` shows that
  whatever is handled as a time frame was cut by that frame's own type byte.
- `PointTableProofs`: `TypeCorrect`, `TableInvariant`, `Agreement`, `Limits`, `LimitsStay`, and
  `FollowInvariant`, `NetworkTold`, `StationTells`, `SoleAgreement`.
  `Limits` assumes nothing of the values the node starts with: in net32 mode every
  value in the table, the file and the reports is within its point's limits or is
  the one the start found there, and in the table such a value stands only as
  long as the file has it too. `LimitsStay` is what follows for the steps
  (`LimitsKept`): a value within the limits, in the table or the file, is never
  replaced by one that is not, whatever the start left elsewhere. No run asks
  `LimitsKept` separately. After a `cmd_pdef` that narrows the limits the table is
  as at such a start, and both hold from there on if no call was in progress.
  `TableInv` adds to the two properties what they need to be inductive: which
  label implies the mutex (`LockInv`), that a call about an own point carries a
  clamped value from `LocalPset` or `Sample` to its push (`CallInv`), and which
  of the two copies the owner of the mutex has written (`AgreeInv`). `Agreement`
  is proved for net32 mode, and for multi-DDC mode with no station attached; the
  station's second write is what the third disjunct excludes. `SoleAgreement`
  shows that it is harmless when nobody else deals with the point.
  `FollowInv` says of every point that one thread alone deals with what that
  thread still owes. Between calls the point is `Settled`: unless the last
  message was lost, what the network will hold after everything queued has arrived
  is within the hysteresis of `f_preval`, and so is the value (hence twice in
  `NetworkFollows`; a point that starts with another `f_preval` is `lost` until then); the station will hold the value itself, or for a sampled
  input one as near to `f_preval`. In a call, `Claim` says so for each label: which values have
  been written, and which of the pushes that make up for them are still ahead. A
  step of another thread does not touch the point (`Kept`), and a message that
  leaves a queue changes what has arrived but not what will. The observer is the
  one other thread `Sole` admits: the two copies are equal where it looks, so the
  value it files is the one it finds.
- `CalibrationProofs`: `CalibrationInvariant`, `CommandWaits`, `Undisturbed`
  hold for any operator; `Pairs` for one who follows the screen
  (`ASSUME FollowsScreen`). `PairInv` consists of the handshake (which thread
  may have what in `status`), what the order and the group have in common, and
  that only the group between its passes is out of step.
- `SubioProofs`: `TypeCorrect`, `SubioInvariant`, `Home` for any line;
  `Silence` as long as no answer was late: until then the counter of a board is
  bounded by the turns in which it was really silent.
- `PointFileProofs`: `TypeCorrect`, `FileInvariant`, `NoStrangeValue`,
  `SavedStays`, `Refinement`, for any number of points. `FileInv` adds to the
  types that every value in the file is zero or one its own point had, and where
  each statement of the loop over the points stands: how many values have been
  read or written at the position of the stream (`LoopInv`). From it every step
  that leaves `failed` alone is a step of `DurableRow` or a stutter.

- `GhpControlProofs`: `TypeCorrect`, `NeverEchoed`, `WishesReach`. `GhpInv` is the types, what
  the position of the thread says about its counters, and `NoEcho` itself, which
  holds because a report writes table and shadow under the same condition and the
  scan reads `by` along with the value. `WishesReach` adds `RaceInv`: a report that
  has passed the test of `Write_Point` is about to overwrite nothing a user still
  may get. The rest is about the queue: the last message for a setting
  (`Coming`) stays what it was when others are appended, sent or lost.
- `GhpScheduleProofs`: `TypeCorrect`, and one strengthening for each property:
  `PastInv` (what `chkTouch` remembers of the last look) for `Starts` and `Kept`,
  `FileInv` (who may have left a short file) for `WholeData`, `RunInv` (the looks
  counted against the minutes run) for `LimitedRuns`.
- `PlcPointProofs`: `PointInvariant`, `TypeCorrect`, `NewsReach`, `CommandsKept`, and
  about the descriptors `SocketInvariant`, `DescriptorsKept`, `LeaksKnown`.
  `PlcInv` adds to the types where each kind of point can be (`KindInv`), that
  `PrevVal` is the value but for two statements and the command server
  (`PrevInv`), that connections have descriptors of their own (`SockInv`), that a
  value is known, due, missed or about to be flagged (`NewsInv`), and that a taken
  command is being written (`FateInv`). `SocketInv` adds to `OwnDescriptors` that
  a thread not yet started has no descriptor, that what a
  server has opened is still there, and no other server's, when it binds, unless it is
  on 0 (`ServerInv`), and that the next socket the PLC
  thread will lose (`Asking`) is counted before it is lost: what is on 0 when it
  asks was put there by something `zero` counts. `LowestFree` is what it rests on:
  `socket` and `accept` return 0 exactly if 0 is free.

The type invariants of these modules are conjuncts of the inductive invariants,
proved and not run by themselves; so is `OnlyPushed`, which `QueueInv` implies.

With these every invariant, action property and refinement of the passing runs is
proved. Only model-checked are the liveness properties `CommandReturns`,
`SilentIsZeroed`, `AllSilentIsZeroed`, `FileFollows`, `TableSettles`,
`ModesSettle`, `StopReaches`, `GroupReaches` and `PlcReached`, which are out of the
prover's reach.

Three assumptions deserve a look. `TableAssumption` has the threads of the
observer, the point manager and the SUBIO boards apart from those that call
`pSet`: `main.c` starts each with a loop of its own, and none of these loops
issues the others' calls. `SocketAssumption` (in `MCPower`) gives the
process more descriptors than the console takes, and keeps the stations' names
apart from those of the other things a descriptor may stand for. `ASSUME FollowsScreen` is an operator who
does what the screen says; `calibration_stuck` shows one who does not.

## 5. Not modelled

`PROJECT.json` lists every component with the reason. In short: APG, dbsvr,
modbus, demo and the plug-ins other than GHP change the table through `pSet` only, as the
`Setters` of `PointTable` do; user server, user client and watchdog are not
started by `main.c`; `iface_handler.c` is inside `#if 0`; CRC, message printing and unit conversion are arithmetic and
formatting; the kernel, boot loader, web server and BACnet stack are other
people's programs.

Of the parts that are modelled the following is left out: of GHP, the limits of
temperatures (`Set_Temperature`), runtime counters (`Get_RunUnit`), the outdoor
units, `Chk_All_Haksa`, the dormitory's groups (`Kisuksa_Grp_Chk`) and the UART
byte by byte, the switch of the fan (`GHP_ONOFF_FAN`), and the error codes item by item (a unit
answers as a whole or not at all); of PowerStation, the bytes of DNP and of the PLC's protocol; of the scanning, the conversions over floats, the factory reset
and the communication watchdog; of the calibration, `cal setvalue`.

## 6. Findings

1. `calibration_stuck`. After the first pass of a JPT the point thread waits for
   `CAL_JPT` alone; any other calibration command leaves a status nobody resets,
   and the command thread, which waits for it, no longer serves anybody.
2. `elba_reconnect`. `elba_close` clears `bPrevBuf` but not `nIndexPrev`. After a
   connection that ended inside a frame, zeros are put before the first bytes of
   the next one and the loop cuts its frames at the wrong places: frames are
   lost, or something is handled that the station never sent, until the cuts
   meet the frames again.

Limits the models show, of which no document promises otherwise or no run asks
separately:

- In multi-DDC mode `elba_parsing` calls `pSet` and then writes `g_fExPtbl` again:
  with another `pSet` between the two the copies differ.
- A file that ends too early is to be made anew, says the comment in
  `point_file_init` (`main.c`, 1090); the `break` leaves only the inner loop, and
  the program starts with part of the row. `DurableSpec` holds all the same, as it
  allows a start with part of a row.
- When the second `fopen` of `file_check` fails after `getFileAccess`, the access
  flag is never released, and the file is not written until the program restarts.
- In net32 mode, what the files hold is taken over without a look at the limits,
  in the table, the file and the first answers to the network; it goes when the
  point is written for the first time.
- When `net32_data_handler` answers a REQUIRE with a value read before a `pSet` of
  another thread, the older value may be the last one the network hears.
- Where the PLC thread closed a connection of the command server on descriptor 0,
  the command server begins anew beside its old socket, cannot bind, and serves
  nobody any more until the program restarts (`SelectFails`, `ListenFails`).
- The faults named in `missed`, `fate`, `wish` and `torn` of the GHP and
  PowerStation modules, each at its line under `hazards` in `PROJECT.json`.

No property catches these: those nearest to them leave them out by name, or allow
them. The hazards say in their notes what is covered all the same, and list no
property where nothing is.

## 7. Plan

Order of what is still to come, by what it protects:

1. `Net32Network`: several `PointTable` nodes with the driver's buffer between
   them; abstract specification: every node's copy of a point is a value its
   owner had, and the newest once the network is quiet.
2. The descriptor that `elba_open` closes on failure and `elba_close` closes
   again, by when another thread may have been given its number; APG's framing,
   which has the shape of `ElbaLink`'s.
3. `Boot`: thread start, `bootup_data`, `pDef` with partial writes and new limits,
   reboot timers.
4. `AdcDriver`, the communication watchdog, the log manager.

Theorems: for each new module its type invariant and its safety invariants; the
refinement of a single point by `PointTable` (an abstract value that writers set
and receivers follow), of which `FollowInv` has the mapping; `PlcPoint` composed
with `PlcSockets`, where two stations on one descriptor meet the histories of
the point.
