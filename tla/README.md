# Specifications of the 11parts engine

The repository is the C++ engine of a family of embedded controllers: the
process `Cnoda`, the supervisor `necron` and a few small programs.  `Cnoda` is a
set of threads in one process that talk over an in-process message bus, keep
their settings in redundant files, update the firmware and serve a Node.js
program (Jnoda) and a web interface over sockets.

This directory holds TLA+ models of the parts of it that are hard to test,
TLC configurations that check them, and proofs checked by TLAPS.

    tlc -config MC_Collector.cfg MC_ThreadCollector     # a run
    tlapm ThreadCollectorProofs.tla                     # the proofs of a module

`PROJECT.json` lists the components, the runs, for every property a mutation of
the code that breaks it, the lines each definition models, the disagreements
found, the hazards the properties are aimed at, and the theorems.

## 1. Inventory

| component | state | operations | what is hard |
|---|---|---|---|
| settings storage (`settings_adm.cxx`, `loop/safe_storage.cxx`) | four copies of every setting, each a data and a checksum file; the mutex `SettingSave` | `SaveSetting`, `LoadSetting`, lazy and 4x4 `Sync`, `InitGset` | crashes between any two file operations, write errors, retries, threads that do not take the mutex |
| message bus (`fifo.cxx`, `memadmin.cxx`) | one byte-limited queue per object name | unicast, multicast, two ways to receive, construction and destruction of the objects | full queues, oversize messages, restarted objects |
| thread collector (`engine.cxx`, `thread*.cxx`) | the table of threads and actions, a handle and two flags per thread, timers | `RunAll`, run / restart / skip on a message, start timeout | main thread against collector, stop handshake, threads that end by themselves |
| firmware update (`update/update.cxx`, `loop/update_admin.cxx`) | images on the sticks and in the firmware directory, the fit and the root partition | search, check, finalise, flash, upload, reboot | power failure, kill or failed write at every step, an upload beside a search, an image found again at every boot |
| factory reset, `necron` (`loop/factory_reset.cxx`, `minisw/necron/`) | press counter, stump file, necron's loop and its two children, copies of the immortal settings in memory | request, roll-back with the immortal settings kept, restart of Node | three processes that look at one file, power failure or reset during the roll-back, an unsigned counter |
| watchdog (`loop/watchdog_admin.cxx`, `minisw/watchdog_stub.cxx`) | a tick counter per supervised thread, a pipe, the stub's counter of the time since Cnoda last wrote | register, tick, exit, beat, keepalive | threads that stop, messages that run together in the pipe, broken drives, a reboot that hangs |
| service supervisor (`minisw/service/svc.cxx`) | the child's pid, what was asked last, four flags shared by two threads | start, stop, restart, exit, respawn, kill | the two threads and the pipes, commands in quick succession, a child that ends while it is being killed |
| safe logger (`logger/safe_logger.cxx`, `logger/algo_sqlite.*`) | two SQLite databases, a queue of requests for the second | save, clean, replicate, choose the newer at a start | a database that fails at any statement, crashes, a full queue |
| web UI path (`loop/websrv_adapter.cxx`, `node_req.cxx`, `ipc_socket.cxx`) | number of UI clients, cache of messages | forward, cache, flush, dispatch of requests | overtaking, overflow of the cache (not modelled) |
| MQTT and Modbus loops (`loop/mq_collector.cxx`, `loop/mbus_loop.cxx`) | configuration, exchangers | configure, publish, relay | in the libraries (not modelled) |
| guard loop, reporters (`loop/guard_loop.cxx`, `loop/reporter_admin.cxx`) | mounted storages, tables of reports | mount, check, report | (not modelled) |
| accounts (`auth.cxx`, `secure_access.cxx`) | ten groups, one account each in practice | change, check, store | limits of the tables (not modelled) |
| peripherals, small programs, text logging, libraries | little or none | I/O | (not modelled) |

Inside `Cnoda` the components meet in three places: everything that is sent
between threads goes through the bus; the collector decides which thread runs;
and several threads call the settings storage directly.  The processes meet over
signals, files and pipes: `necron` runs node, from which Cnoda is started (Jnoda is not in this repository);
Cnoda writes its beats into the pipe of `watchdog_stub`, which alone keeps the
hardware watchdog quiet; Cnoda puts a stump file down and necron rolls the device
back to its factory state, killing Cnoda; loggers are processes of their own.

## 2. Modules

| module | models | role |
|---|---|---|
| `SettingRegister` | - | what the settings storage promises: a register with spare values |
| `SettingsAdm` | `settings_adm.cxx` | one setting, its eight files, the threads that use it, crashes and write errors |
| `MC_SettingsAdm` | - | instances |
| `SettingsAdmProofs` | - | theorems on `SettingsAdm` |
| `Mailboxes` | - | what the bus promises |
| `FifoBus` | `fifo.cxx`, `memadmin.cxx` | the queues and the objects that send and receive |
| `MC_FifoBus` | - | instance |
| `FifoBusProofs` | - | theorems on `FifoBus`, the refinement of `Mailboxes` among them |
| `ThreadCollector` | `engine.cxx`, `thread.cxx`, `thread_basic.cxx` | the collector, the main thread in `RunAll`, and the threads |
| `MC_ThreadCollector` | - | instance |
| `ThreadCollectorProofs` | - | theorems on `ThreadCollector` |
| `UpdateEngine` | `update/update.cxx`, `loop/update_admin.cxx`, `minisw/imcheck.cxx` | partitions, firmware directory, sticks, the thread that searches and flashes, imcheck, boots and failures |
| `MC_UpdateEngine` | - | instances |
| `UpdateEngineProofs` | - | theorems on `UpdateEngine` |
| `Watchdog` | `loop/watchdog_admin.cxx`, `minisw/watchdog_stub.cxx`, `periphery/watchdog.cxx` | the three watchdogs behind each other |
| `MC_Watchdog`, `WatchdogProofs` | - | instance, theorems |
| `NecronConfig`, `Necron` | `loop/factory_reset.cxx`, `minisw/necron/necron.cxx` | the return to the factory settings and the processes it ends |
| `Supervision` | the same | `Watchdog` and `Necron` composed: they share Cnoda and the power |
| `MC_Supervision`, `SupervisionProofs` | - | instance; the theorems on `Necron`, and those of both parts carried over to the whole |
| `Service` | `minisw/service/svc.cxx` | the main thread, the worker, the child |
| `MC_Service`, `ServiceProofs` | - | instance, theorems |
| `SqliteLog` | `logger/algo_sqlite.*`, `logger/safe_logger.cxx` | both databases, the queue, restarts and faults |
| `MC_SqliteLog`, `SqliteLogProofs` | - | instance, theorems |

Definitions whose comment starts with "Deviation" are plausible mistakes in the
definition that follows them.  No behaviour uses them; `PROJECT.json` names, for
every property of a passing run, one that TLC finds to violate it.

### SettingsAdm

A file holds a value, nothing (`Empty`), other bytes (`Torn`) or does not exist
(`Absent`); a `.crc` file holding `v` stands for the checksum of `v`, so distinct
contents are assumed to have distinct and nonzero checksums.  `fs` is what the
threads see, `disk` what the medium holds; `sync()` makes the second the first,
`PowerFailure` lets every file that differs be old, new or torn, `Kill` keeps
`fs`.  A thread is in a function (`phase`), at a step of `CheckJSONInStorage`
(`step`), with the file operations it still has to do in `todo`: `Remove` is
one step, `CopyFile` and a write are two (open truncates, fill), so that others
can run, and a crash can strike, between them.  A target that another thread
unlinks between the two is written to an orphan; one that another thread wrote
meanwhile may keep a tail.  Five kinds of errors (`Faults`) may strike, `MaxFault` times
in all: in `SaveSetting` a data file that cannot be opened, a data write that falls
short, a `.crc` that cannot be written; and a `CopyFile` that cannot create its target or
open its source, or falls short, of a data file or of a `.crc` (`CopyFails`).  A write is
given up after `MaxTries` more tries, and the save goes on.

`SyncGsetSettings` visits the settings that have a data file in `sys`; with one
setting modelled that is a guard.  `equalFiles` of two missing files compares
memory that nothing has filled: the model lets the outcome be equal, different,
or an endless loop (`phase = "hung"`).  `LoadSetting` runs a lazy Sync when the
first check fails (`loading` tells the Sync where to return to).

### FifoBus

All methods of `FifoEngineT` hold one mutex from their first to their last use of
the queues, so each is one step.  A message is its length and its identity.  The
list of a queue keeps the element handed out last at its front, as
`fragfifo::GetLastBuf` does: this is why its counter is one less than its length
and why the refinement maps the tail of the list to the mailbox.

### ThreadCollector

`Run` is split where it can be interleaved: `TERMState = ACTIVE` (`Mark`), then
`StartPthread`'s test of the handle (`Look`, `RunAllLooks`), then `pthread_create`
(`Create`, `RunAllCreates`), which may fail and leaves the handle undefined
(`PthreadCreate`; `failed` remembers for whom).  `Stop` is the request, the wait and
`StopPthread`.  `leaving` counts threads that have left their `Loop` and not yet
set `TERMState`.  The timers are reduced to flags that say an interval is over.
`SelfStopping` names threads whose `Loop` may return without a request, as
`Watchdog_admin::Loop` (`while(skey)`), `Update_admin::Loop` and the default
`Loop` do.

### UpdateEngine

The device has a factory image, which nothing changes, and a user image in two
partitions: `fit` (kernel, passport) and `root`.  The boot loader is not in the
repository; the code relies on it to start the user image when its fit is whole
and the factory image otherwise (`BootImage`).  So an update is prepared in the
user image, by putting a file into the firmware directory and erasing the fit,
and is flashed by the factory image, root first.

The passport of an image is abstracted to what is compared: its version, whether
it is for this hardware, whether it is compressed (which decides the name of the
file), and the checksums of its parts, distinct for distinct images.  `fw` is the
firmware directory as the programs see it, `medium` what a power failure leaves.
Partitions are written by `dd` to a block device and read back for the checksum.

`pc` follows `Update_admin`: `chain` is the test at the head of `RunUpdateChain`,
`root`, `fit`, `drop`, `settle` the flashing; `scan`, `restore`, `copy`, `erase`,
`umount` the search.  `turn` says which of the calls of `CheckAndUpdate` in `Loop`
(the first, the one inside `FindAndPrepareUpdate`, the last) is running.  `web`
follows imcheck, a process of its own that survives a kill of `Cnoda`; `parent`
says whether somebody still waits for it.  `Kill` is a kill and restart of
`Cnoda`: `cnoda_run` exists by then, so `first_run` is false and `Loop` does
nothing by itself any more.  A reboot ordered by the user is one of the outcomes
of `PowerFails`, the one where everything had been written.

### Watchdog

Time is counted in turns of the stub (100 ms).  A turn of `Watchdog_admin::Loop`
(`AdminTurn`) is the check of the drives, the beat, the messages and the ticks;
between two of them the stub takes at most `Lag` turns (`late`), and the hardware
resets the device after `HwTurns` turns without keepalive.  `Punctual` says that a
thread that is not hung has its message in the queue before its ticks are up:
threads send `srvmWDT` every turn of their own loops, which are much shorter than
`MaxTick` seconds.  `WatchdogAssumption` asks that `TimeoutWDT` is longer than the
interval of the beats; the code takes both from the configuration and compares
them nowhere (60 s and 5 s by default).

The pipe keeps messages, the stub reads *all* of them as one string up to the
first zero byte.  `write(fifo_fd,"cnoda",6)` writes that byte and
`write(fifo_fd,"-cnoda",6)` does not: so a removal with something behind it names
another object and has no effect, and one behind a beat is not seen
(`StubRemoves`).  `heard` is a history variable: the stub has read a message
since `Loop` began.  `GoesQuiet`, `AdminHangs`, `DriveBreaks` and a deliberate stop
(`AdminEnds`) share the bound `MaxTroubles`.  The device is one with a pipe: where
`/run/wdt` does not exist there is no stub to feed, and `Watchdog_admin` calls
`keepalive` itself (`watchdog_admin.cxx:85`), which is not modelled.

### Necron and Supervision

`Necron` has three actors of necron beside Cnoda: its loop (`main`), the child that
restarts the loggers, runs node, looks at the stump and ends (`child`), and
`factoryLoop` (`roll`).  An immortal setting in the drive (`sys`) is whole, being
written (`open`), torn or missing; its copy in memory (`tmp`) is what `CopyFile`
made of it.  The copies are made before Cnoda is killed, so one that is `open` may
be copied torn.  A copy that fails, or a script that cannot be written (`ScriptFails`), ends
the roll-back before anything is killed.  The script that formats the drives is one step (`Wipe`): it is
generated text, and nothing of it is looked at.  A device `Boot`s with an empty
memory: the stump is in `/run`.

`Supervision` composes the two by conjoining actions: steps of one side leave the
other's variables alone, and `CnodaStarts`, `CnodaDies`, the exit of
`Watchdog_admin`, `killall -9 Cnoda` (`Kill`), a hardware reset and a power failure
are steps of both.

### Service

`pc` is where the main thread is (`halt...` waits in `StopWorker`, `run` in
`StartWorker`), `wpc` the worker.  Time passes by turns of the worker: `stime`
stands still while the killer is armed.  Processes are `up`, `asked` (a signal
that can be ignored has come), `zombie` or `free`; numbers are reused.  `lpID` is read
on the first pass before anything has been assigned to it: the model lets it be
either (`unset`).  Commands and signals come at any time (`Type`, `Signal`), and a command
overwrites one that has not been taken from the single slot `command`.  So a start or a
restart may put a new child in the place of one that has been asked to end and has not:
the killer is then still armed, and strikes the new one.  `overtaken` is a history
variable, the children that were started so.  A fork that fails ends svc (`ForkFails`).

### SqliteLog

A row is a message, ordered by the time `m` in it; the code takes the newest
`m` of each database to say which is newer.  Every request for the main database is queued first
(`replic`) and played back on the reserve by the timer, by the destructor or when
the queue is full (then the request itself is not queued).  A statement works, or
fails and closes the handle, or finds the database busy 50 times and leaves it open
(`Fails`).  `Damage` makes a file unreadable, `Crash` loses the queue.  `tick`
destroys and constructs the object again when a handle is closed.  `saved` and
`removed` are history: the rows the main database took, and those `Clean` wanted to
go; `luck` remembers the faults since the last start, and the three cases in which
the code gives rows up after one fault or none: a queue that overflows, a reserve that is
busy in a replay, a `DELETE` that fails in the main database.  What can go wrong inside
the constructor, a statement of `check_db` whose failure makes it remove a good file, or
a `GetMinMax` that fails and reads as an empty table, is a `Damage` to that file before it.

## 3. Runs

| run | question | bounds | result |
|---|---|---|---|
| `settings_register` | is the storage a register under one crash and one short write? `RegisterSpec`, `Converges`, `ExrsvIntact`, `NeverReset`, `TypeOK` | one thread that saves, loads and synchronises; 2 values, 3 saves, 1 crash, 1 short write, 1 retry | holds |
| `settings_errors` | does a load ever return a mixture, whatever fails? `LoadsWhole` | one thread that saves, loads and synchronises; 2 values, 2 saves, 5 errors (open, short write, `.crc`, copy of a data file), 1 retry, no crash | holds |
| `settings_savers` | is an acknowledged save kept when savers compete and opens fail? `AckedHolds`, `SaveGetsMutex` | 2 threads, 3 saves, 2 failing opens | holds |
| `settings_fresh` | does a load find content while the copies are first made? `LoadSucceeds` | 1 save, 1 crash, 1 `.crc` not written | holds |
| `bus` | are the queues the mailboxes? `MailboxesSpec`, `Accounting`, `Empties`, `TypeOK` | 2 objects, 3 names, 3 sizes, capacity 5, 4 sends, 1 destruction | holds |
| `collector` | does every started thread stay up, alone in its loop, and does a guarded one start or necron restart? `OneLoop`, `StaysUp`, `GuaranteedStart`, `TypeOK` | 4 threads, one of which may end by itself, 4 entries of the three types, 3 messages, 1 thread whose `pthread_create` fails | holds |
| `update` | is a fit ever beside another root, is the user image given up for nothing, does the update end? `RootMatchesFit`, `Replaceable`, `Settles`, `UploadInstalled`, `TypeOK` | 2 images, the newer one compressed, on a stick or not; 2 requests, 2 troubles of 6 kinds, each at most once | holds |
| `update_no_space` | is the image copied before the fit is erased when there is no room? `CopiedBeforeErase` | 2 images, 1 request | violated |
| `watchdog` | is a healthy device kept alive, and does every trouble end in an exit or a reset? `KeptAlive`, `SilentEnds`, `DeadResets`, `BrokenResets`, `TypeOK` | 2 threads, 2 ticks, a beat every other turn, timeout 3, hardware 2, 2 troubles, 3 messages in the pipe | holds |
| `supervision` | does nothing run while the drives are formatted, are the immortal settings kept, is the stump acted upon, does a dead Cnoda come back or the device reset? `AppsDown`, `ImmortalKept`, `RollsBack`, `Recovers`, `TypeOK` | 1 thread, the shortest intervals, 1 trouble, 1 immortal setting, counter of 2 values; any number of power failures and starts | holds |
| `service` | one user of the pipes, whom does the killer strike, is what was asked last obeyed? `OneUser`, `KillsOnlyHung`, `Obeys`, `TypeOK` | 3 pids, 3 commands or signals at any time, stop time 2, with and without logging | holds |
| `log` | are stored rows kept, copied and reachable again? `FaultTolerant`, `Recovers`, `Syncs`, `TypeOK` | 4 rows, 2 kept, queue of 3, 2 faults | holds |

Why these bounds.  Settings: a copy can differ from its neighbours in two
generations at most, so three saves of two values let every copy hold a value of
its own and one save more make the oldest go.  In `settings_errors` one retry and five
errors let a save give up both its data files (four short writes) and one copy fail
after that.  A second crash, and any error beside a crash but one short write that is
retried, is left out on purpose in `settings_register`: with them the register is *not*
kept (end of section 4), since a crash between the removal of a `.crc` file and its copy
leaves data that no longer is checked.  Bus: capacity 5 with sizes 1 to 3 makes queues that refuse one message
and take another, `Limit` 2 makes one size too long for the copying reader.
Collector: three messages start a thread, restart it and restart it
again; they are also the fewest that start a thread which then ends by itself, run it
with its stale handle, and make `Stop` wait for it for ever.
Its starters are apart (`FourEntriesApart`).
Update: two images of different kinds and versions are what is needed for one file to hide the other and for an old image to stand beside
a new one; two requests let an upload meet a search or another upload; two
troubles let a failure strike the recovery from another.  Watchdog: two troubles
let a thread hang while a drive is broken, and two threads let one send while the
other is silent; the pipe holds a beat, a removal and a beat, the longest string
that differs from a shorter one.  Supervision: the composition is as small as the
assumptions allow, since each side has a larger run, or the proof, of its own; its
question is the order of the processes.  Service: three commands are every order in which one
command overtakes the effect of another and a third meets what they left (a stop, the
start that overtakes it, and the next stop or exit); three pids let a child outlive two
successors.  With four of each the safety properties hold too (2.2 million states), and
the liveness is out of reach.  Log: a queue of three overflows in the fourth request, which is a
row or a `DELETE`; two faults let one strike the recovery from the other.

Deadlock is checked in `settings_register`, `watchdog`, `supervision`
and `log`.  It is off in runs where the calls are bounded and nothing else repeats,
and the system legitimately ends idle: `settings_errors`, `settings_savers`,
`settings_fresh`, `bus`, the two `update` runs (an updated device rests) and `service`
(svc exits); and in `collector`, where the collector does wait for ever for a thread
that has no pthread.

### Fairness

* Settings: weak fairness of every thread's next step (threads are scheduled,
  disks answer), and strong fairness of the requests for a Sync, since
  `Safe_storage` issues one again and again from its timer; `InitGset` is called
  by the constructor at every start.  `SaveGetsMutex` needs only the weak one:
  saves are finite in number, and `mutex_lock` gives the mutex to a waiter.
* Bus: weak fairness of the readings; every thread polls its queues once per
  turn of its loop.  Senders get none.
* Collector: weak fairness of `RunAll`, of the collector's loop, of the end of a
  `Loop` that has been asked to terminate (every loop of the repository looks at
  `TERMReq` once per turn), and of the clock.  Messages get none.
* Update: weak fairness of `Update_admin` and of imcheck (threads and processes are
  scheduled, `dd` and `md5sum` end, the web server connects and `jnoda_ready` is
  set), and of a reboot that has been ordered.  Requests and troubles get none.
  Without fairness nothing would be promised: the loop polls.

* Watchdog: weak fairness of `Watchdog_admin`, of the stub, of the hardware, and of
  the messages of a thread that is not quiet.  A drive need not mend, nobody need
  start Cnoda.
* Supervision: weak fairness of stub or hardware, and of necron's three processes
  taken together: less than the scheduler gives, so one may starve another, and
  nothing is asked of Cnoda.
* Service: weak fairness of the two threads.  A child need not end; SIGKILL is what
  makes it.
* Log: weak fairness of the running statement, the timer, the restart by `tick` and
  the constructor: the server polls.  Messages, stops and faults get none.

`Settles` and `UploadInstalled` name the cases in which the code stops trying
(`GivesUp`): after a kill, since `first_run` is then false; after a failed copy,
which nobody repeats; after both tries of a boot have failed.

### Disagreements found

Shown by a run:

* `update.cxx:217` promises that the image is copied before the fit is erased.
  Without room for it the fit is erased without a copy: the device reboots into
  the factory image with nothing to flash.

Seen while modelling, in the models but without a run of their own:

* `engine.h:104-106` promises that necron restarts when a thread was not started in
  time.  If some other thread ended by itself and is then started and restarted by
  messages, `Stop` waits for a thread that does not exist, and the timeouts are not
  looked at again; the run `collector` meets this, and `GuaranteedStart` excuses it by
  name (`Stuck`).  Nor is the promise kept when `pthread_create` fails for the thread: the
  timeout was switched off before `Run`, which looks at no result, and the thread counts
  as active.  Without these two excuses TLC finds `GuaranteedStart` violated.
* `engine.h:77-102`: nothing keeps a table from having one thread under `ONCE_ALWAYS` and
  under a message.  `StartPthread` tests the handle and creates without a lock, and TLC
  finds two pthreads in the Loop of such a thread.  After a `pthread_create` that failed a
  thread started once is skipped for ever, and the next restart waits for ever in `Stop`.
* `settings_adm.cxx:465-508`: no caller looks at what `CopyFile` returns, and `equalFiles`
  compares data files only.  After a power failure a failing copy can leave `sys` equal to
  `rsv` with a wrong `.crc`, so that every load is an error until the next start; a `sys`
  whose data file could not be made is never visited again by `SyncGsetSettings`, which
  lists `sys`.
* `settings_adm.cxx:718-721`: the log says `ex` is restored from `rsv`, the code
  copies `exrsv`, which holds the factory content for ever.
* `update.h:96` promises that the image is removed from the stick after an update
  (`upad_source_remove`, on by default).  Nothing uses the option.
* `necron.cxx:317` says that the procedure runs if all immortal settings are saved
  ("если все вечные конфиги сохранены, то запускаем процедуру"); one that Cnoda is
  writing while it is copied may be saved torn.  `ImmortalKept` excepts it.
* A roll-back that is cancelled (`necron.cxx:386`), that cannot write its script (333, without
  a word) or that is not configured leaves the stump, whose removal (398) is commented out.
  When node ends, necron exits and restarts nothing; if Cnoda runs it keeps the watchdog quiet.
* `factory_reset.cxx:103-105`: the result of writing the stump is not looked at, and
  `trigResetDeviceToFactory` is set anyway: the key does nothing more until Cnoda
  starts again.
* `watchdog_admin.cxx:157`, `watchdog_stub.cxx:134`: `-cnoda` is written without
  its zero byte and read with what is before or behind it; the removal is lost in
  either case and a deliberate stop then resets the device.
* `svc.cxx`: a stop followed by a start before the old child has ended leaves the old
  child to itself and the killer armed, and `SIGKILL` goes to the new child, which is then
  started again (the exception in `KillsOnlyHung`).
* `svc.cxx:643,676`: `lpID` is read before it is assigned, and a stop, restart or exit on the
  first pass may be lost.  A restart or an exit in the pass after a child was reaped still
  sees its pid and kills nobody: the restart never comes up, and svc does not end.  A
  signal is looked at on every pass and is not lost.
* `svc.cxx`: a restart of a dead child leaves `stat` at `NONE`, so that this child is not
  started again when it ends; a second equal command is dropped (658); after an exit with
  logging the worker, and the killer with it, is stopped before the child is gone.
  `StopWorker` closes the same descriptors twice (after a reap and in `Exe`), and
  `forward_handler` has no pid to forward to.
* `algo_sqlite.h:166`: the comment says that a reserve that fails is to be removed
  and backed up in full; when it was only busy, its batch is dropped and the
  constructor, which compares the newest rows, finds the databases identical
  (`algo_sqlite.cxx:187`).  A request that finds the queue full is not queued (150).

## 4. Proofs

| theorem | statement | assumptions |
|---|---|---|
| `TypeCorrect` | `Spec => []TypeOK` of `SettingsAdm` | `SettingsAssumption` |
| `ExrsvSurvives`, `NoFactoryReset` | `[]ExrsvIntact`, `[]NeverReset` | and `Commissioned` |
| `AckedSurvives` | `Spec => []AckedHolds` | and `OnlySavers`: commissioned, with its checksums, no crash, threads that only save, and either opens that fail, or at most `2 * MaxTries + 1` writes that fall short |
| `SaversRefineRegister` | `Spec => RegisterSpec` | and `Creatable`: `OnlySavers` without failing opens |
| `LoadsStayWhole` | `Spec => []LoadsWhole` | and `Alone`: commissioned, with its checksums, no crash, one thread, no failing copy of a `.crc`; any calls, any other errors |
| `BusTypeCorrect` | `Spec => []TypeOK` of `FifoBus` | `BusAssumption` |
| `BusIsMailboxes` | `Spec => MailboxesSpec` | `BusAssumption` |
| `CountersStayTrue` | `Spec => []Accounting` | `BusAssumption` |
| `CollectorTypeCorrect` | `Spec => []TypeOK` of `ThreadCollector` | `CollectorAssumption` |
| `OneLoopEach` | `Spec => []OneLoop` | and `StartersApart` |
| `Typing` | `Spec => []TypeOK` of `UpdateEngine` | `UpdateAssumption` |
| `RootAlwaysMatchesFit` | `Spec => []RootMatchesFit` | and `RequestsIn \subseteq {"user"}` |
| `AlwaysReplaceable` | `Spec => []Replaceable` | and `RequestsIn \subseteq {"user"}`, `FindUpdates`, `~Forced` |
| `WatchdogTypeCorrect`, `HealthyKeptAlive` | `Spec => []TypeOK`, `[]KeptAlive` of `Watchdog` | `WatchdogAssumption` |
| `NecronTypeCorrect`, `ProgramsStayDown`, `RollBackKeeps` | `Spec => []TypeOK`, `[]AppsDown`, `ImmortalKept` of `Necron` | `NecronAssumption` |
| `DeviceTypeCorrect`, `DeviceAppsDown`, `DeviceImmortalKept`, `DeviceKeptAlive` | the same four properties of `Supervision` | both assumptions |
| `ServiceTypeCorrect`, `PipesHaveOneUser`, `KillerRestrained` | `Spec => []TypeOK`, `[]OneUser`, `KillsOnlyHung` of `Service` | `ServiceAssumption` |
| `LogTypeCorrect`, `NoRowLost` | `Spec => []TypeOK`, `[]FaultTolerant` of `SqliteLog` | `SqliteLogAssumption` |

*Settings.*  `ExrsvIntact` says that the fourth copy holds the factory content.
It is not inductive: a thread may already have an operation in `todo` that
targets that copy, or may be in a phase that could queue one.  The invariant
adds that no operation in any `todo` targets it, that a Sync reaches its verdict
on the fourth copy only with content it has just read from there, and that the
4x4 check cannot have found all four bad.  It holds for any number of threads,
crashes and write errors: everything else about the copies may break.

`AckedHolds` compares the acknowledged value with the copies only while nobody saves, so
the induction has to say what a save looks like inside.  `SaversInv` does: while
the mutex is free, `ex` or `sys` passes its check with the acknowledged value and the other
one with that value or not at all (`Kept`); only the owner of the mutex has a file open or an
operation to do (`Excluded`, `Opens`); and of its save, the data of `sys` comes before that of
`ex` (`SavesSys`, `SavesEx`), with the checksums of the old value standing until both
are written (`SavesCrcs`, `OldCrcs`), so that a save that fails on the way leaves a copy that the
check refuses beside one that it accepts.  `Writes` ties the number of the try to the faults
so far, and `Spent` adds those that `sys` has cost when it was given up: a save that
gives up both data files takes `2 * (MaxTries + 1)` short writes.  With that many TLC shows a
counterexample, so the bound is the exact one.  Nor may the two kinds of faults be mixed:
TLC shows a short write of `ex` whose retry finds that the file cannot be opened, after which
the save fails and no copy has the acknowledged value.

`SaversRefineRegister` carries that to the register.  `Reserves` says that savers never
touch `rsv` and `exrsv`, `Synced` that only a file being written differs between
what is seen and what is on the medium.  Then the value of the register is
determined (`ReadsAccepted`: it is the content of some copy that passes, and of `sys` if
that one does), and every step maps: taking the mutex to `Begin`, writing a file to
`Overwrite`, returning to `Return`, everything else to a stutter or to `Inspect`.

`LoadsWhole` is about what passes a check.  A copy without `.crc` passes every check,
and an empty `.crc`, which reads as 0, lets an empty data file pass.  `WholeInv` says that
no check ever meets either: a `.crc` is missing only from copies that the Sync under way has given up
(`GivenUp`) or is about to copy over (`SoundOps`, `Present`), it is empty only under the hand
that fills it (`Handles`), and what a check reads of it is what was written (`SeesCrc`).
The data files may hold anything, whether a save gave them up or a copy of `CopyFile` was cut
short.  Each part of `Alone` is needed: with two threads TLC shows a load that returns
the empty data file which the lazy Sync of the other thread has just opened, its `.crc` still
missing; and when a `.crc` is not copied either, after a save that was given up, a torn
copy of the data counts as unchecked and is returned; crashes are below.

*Bus.*  `BusInv` is `TypeOK`, `Counted` (a queue has one element more than it
counts), `Waiting` (behind the front there are messages only) and `Served` (what
was handed out last is at the front, or was refused).  Each action maps to the
action of `Mailboxes` with the tail of the list as the mailbox and what the
capacity leaves as its room.  `CountersStayTrue` relates a counter to a sum over a
sequence.  The sum is a recursive function of the position (`Weighed` says that it is what
the counter holds), and what induction over data would give is
had from the well-order of the naturals: of the positions at which the sums of
two sequences that agree so far differ, there would be a least one.

*Collector.*  `OneLoop` rests on who may start a thread: `MainAt` and
`CollectorAt` say what the two starters are doing, `Handled` that a pthread in
its loop has a handle, `Pending` that what a starter saw of the handle is still so when it
creates, `Stopped` that after the wait of `Stop` no pthread is left.  `Pending` and
`Stopped` need that nobody else starts the same thread: `StartPthread` tests and creates
without a lock.  That is `StartersApart`, a hypothesis on the table, which whoever fills
it has to keep: with a thread in it that both `RunAll` and a message start TLC finds two
pthreads.  `CollectorTypeCorrect` needs no hypothesis.

*Update.*  `Typing` needs that the newest of a nonempty set of images is one of
them (`NewestIsOne`: the one with the fewest newer ones, by the well-founded order
of the naturals) and that an image is at hand whenever one is flashed or restored
(`Named`).  `RootMatchesFit` is not inductive: it says nothing about the factory
image that is about to overwrite root, nor about the file between the two writes.
`FlashesAlone` says that only the factory image flashes, before any reboot, with
no imcheck about; `FitFollowsRoot` that when fit is written, root and the file
hold the image at hand; `Finished` that a factory image beside a good fit has
nothing left to flash.  The proof needs that updates are asked for in the user
image only: an upload in the factory image could exchange the file between root
and fit.

`Replaceable` says nothing of what keeps the image available until the fit is erased.
`HasSource` names the source of an update that has been prepared, a file or an image
on the stick that no blank passport can take away any more; `TornRaw` that a torn
uncompressed file hides nothing, for the image it was to be is still on the stick;
`Sought` what a search knows of the sticks; `HandedOver` that the factory image hands
over without a torn uncompressed file and that the user image goes down only when its
fit is erased.  It needs `FindUpdates` and `~Forced`: otherwise a copy that fails can
tear the file of an accepted upload for an image that no search will offer again.

*Watchdog.*  `KeptAlive` needs a bound on the stub's counter, and the counter is
compared with `TimeoutWDT` only: `Behind` says that, the pipe being empty, it is at
most `beat * Lag + late`, the turns the stub can have taken since the last message.
`OnlyBeats` says that no removal is in the pipe of a `Loop` that was heard, and
`HeardUp` that a process that is down was not heard.  The arithmetic of the products is
a lemma of its own (`TurnProducts`).

*Necron.*  `AppsDown` follows from an order between the three processes (`Order`):
a stump keeps the child from starting node (`NoStart`), stays while the roll-back
runs (`StumpStays`), and node and Cnoda stay down from the step that killed them
(`NodeKilled`, `CnodaKilled`); `CnodaUnderNode` says that only a Cnoda over which the
stump was put down outlives its node.  `ImmortalKept` needs what each phase has
already copied (`Copies`): nothing before `save`, every setting outside `todo` in it,
all before the drives are formatted, and after that the copies not yet written back.

*Supervision.*  Every step of the composition is a step of each part or leaves its
variables alone (`WatchdogStep`, `NecronStep`), so its behaviours are behaviours of
both specifications and their theorems carry over (`WatchdogSpec`, `NecronSpec`).

*Service.*  `Handshake` is what the two flags of `StopWorker` and `StartWorker` mean:
outside the hand-over the worker has been told what the main thread is doing, it is
free to run only in `StartWorker`, and a halt is answered only by a worker that has
left the pipes.  `KillerRestrained` adds whom the killer is armed for (`Aimed`): the child it
knows has been asked to end, or is gone, or was put by a command in the place of such a
one (`overtaken`).  Nothing is assumed of when commands come.

*Safe logger.*  The reserve is always behind: what it will be is what the queue
makes of it (`Play`, again a recursive function, with lemmas on its prefixes and on one
more request, proved by the least counterexample).  `IInv` says in which order rows are
in the databases and the queue (`Order`), and, as long as at most one fault has struck
since the start (`Fine`), that every row to be kept is where the step under way needs it:
announced in the queue before the main database takes it, in a prefix already
replayed or a rest still asked for, again in the whole of one database when the other
is copied from it.  `NoRowLost` covers one fault at any statement, but for the three cases
that `FaultTolerant` excuses (`luck`): an overflow of the queue, which no fault need
precede, a reserve that is busy in a replay, and a `DELETE` that fails in the main
database only.

What stays with TLC.  Liveness (`Converges`, `SaveGetsMutex`, `Empties`,
`StaysUp`, `GuaranteedStart`, `Settles`, `UploadInstalled`, `SilentEnds`,
`DeadResets`, `BrokenResets`, `RollsBack`, `Recovers`, `Obeys`, `Syncs`): fairness
and `ENABLED` are beyond the prover.  Of the safety properties only `LoadSucceeds` has no
theorem.  `RegisterSpec` and `LoadsWhole` are proved without crashes, for savers and for one thread
respectively; that the first also holds with loads and Syncs mixed in and one crash or power failure is what
`settings_register` checks, within its bounds.  Those bounds are limits of the code
and not of the model's size.  TLC finds that

* `LoadsWhole` breaks when a crash comes together with a data write that is given up, or with a
  second data file that could not be opened: the lazy Sync then drops `sys` and its `.crc`, and a
  crash while it copies leaves a torn `sys` without `.crc`, which a load before `InitGset`
  returns; it breaks without a crash when copies of `.crc` files fail too;
* `RegisterSpec` and `Converges` break when a copy fails beside a crash: loads fail until
  the next start; without a crash the register stands one kind of failing copy, not both;
* `AckedHolds` breaks when the process is killed in the middle of a save, when opens fail and
  writes fall short in one run, and after `2 * (MaxTries + 1)` short writes;
* `LoadSucceeds` breaks with a second save whose open or `.crc` fails: `equalFiles` compares the
  data files only, finds `sys` equal to `rsv`, whose checksum is an old one, and the load ends with an
  error although `ex` is whole.

## 5. What is not modelled

* Signed settings, `RemoveFromSetting4x4` and the archive roll-out of
  `Safe_storage`; more than one setting (they share only the mutex).
* A write error that `ofstream` reports after the last retry (`throw 2`).
* The text of messages, JSON, logging, wire protocols, ciphers and checksums.
* Restart of the whole process with the bus and the collector in it: both keep
  nothing, a restart is their initial state.
* Of the update: the image run by an updater (`UPDATER_MARKER`), imcheck's modes
  `noremove` and `update`, the passport and finger files, the backup of the settings
  and the stump that tells the UI, an update asked for in the factory image, and
  nand, for which `DO_Update_FIT_ROOTx2_RWx1` writes nothing and reports success.
* Of necron: Xorg, electron and the web configuration, signals to it, the script
  for NAND, what deploys the default settings.  Of the watchdogs: stub mode, in which
  the hardware is kept alive whatever happens; other programs that register; the end
  of the stub.  Of svc: the logger it may start beside
  the child; and that it may be Cnoda it supervises, and start it again between the two
  `killall` of Cnoda and of svc.  Of the logger: the
  check of the format of a message, which drops all rows when the format changes, and
  the two algorithms that append to text files.
* The other components of section 1.  The web path, the reporters, the MQTT and
  Modbus loops and the accounts are tables and conversions of JSON texts around
  libraries; their few pieces of state (the cache of UI messages, the flag of the
  Modbus configuration, the limit of the table of groups) are named in section 1.  The guard loop acts by shell commands that are not in the repository.

How much of the code this is.  About two fifths of the repository's lines are vendored
headers and libraries (rapidjson, cppzmq, mustache, FTP, SSDP, hashes) and much of
the rest is text: parsers, formatters, tables of requests, generated shell scripts,
device access.  The models stand for what has control and state worth checking: the
lines `PROJECT.json` maps are a small share of the whole, and a larger share could only
be had by transcribing conversions whose properties are their own definitions.

## 6. Plan

All parts that keep state across failures are modelled.  What could follow:

1. The cache of UI messages with its limit and delayed flush, and an abstract ordered
   channel it does *not* implement.
2. `CheckColumns` in `SqliteLog`.
3. Theorems: the register under one power failure, with the hypotheses on write errors
   that the list at the end of section 4 shows to be needed; `LoadSucceeds`.
