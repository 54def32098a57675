# A formal model of backup_d

backup_d copies the files of network file systems ("bricks") to local disks, by
modification time, and remembers in a MySQL database how far it has come. This
directory models the parts of it in which order, concurrency and failure decide
whether a backup is right: TLA+ modules, TLC configurations that check them on
small instances, and proofs that TLAPS checks for every instance. The Linux
build is modelled throughout; paths are relative to `src/`.

## 1. Inventory

| component | source | state | operations | hard part |
|---|---|---|---|---|
| message queue | `backup/msg_queue.cpp`, `backup/backup.cpp:46-76` | list of messages, semaphore, mutex | post, wait, front, pop | semaphore moved outside the mutex; two-call fetch |
| thread pool | `backup/thread_pool.cpp`, `backup/sys_thread.cpp` | task queue, thread vector, flags and task pointer of each thread | initialize, add_task, process, shut_down, ThreadProc | flags without locks; assignment only inside process() |
| pool's test programs | `backup/main_thread.cpp`, `main_msg.cpp` | none of its own | start, process, wait until done | a completion check over changing flags |
| stop register | `task_control` in `backup/backup_task.cpp` | registered bricks, a semaphore each | reg, unreg, set_sem, set_all, wait_sem | signals to a brick that is not registered (yet) |
| backup task | `proc` in `backup/backup_task.cpp` | its place between reg and unreg | run once by a pool thread | messages, registration and stop in the right order |
| service front end | `backup/backup.cpp`, `backup/backup_master.cpp` | the configuration, the pool | start, start by brick, stop by brick, stop | callers on several threads |
| backup worker | `backup/backup_worker.cpp` | window begin and end, first-run flag, counters | window loop, filter, callbacks, save | crash between copy and save; failed saves |
| directory scan | `backup/file_frame.cpp` | list of folders | one pass | filter called twice; errors skipped |
| target disk | `backup/disk_container.cpp` | current disk, space used | init, copy, create_dir | full, exchanged and half-written disks |
| configuration | `backup/config.cpp` | list of tasks | load from the database | tables that change during the load |
| database access | `backup/db_exec.cpp`, `db_access/mysqlplus.cpp` | handles, query objects, answers, statement buffer | execute, store, free, read a column | ownership of answers; the buffer after an error |
| daemon, client | `backup_ui/deamon.cpp`, `backup_ui/main.cpp`, `backup_ui/backupclient.cpp` | two FIFOs, the status table | commands, status, SIGTERM | concatenated commands, signal handler |
| graphical program | `backup_ui/backup_main.cpp`, `brick_group.cpp` | a button per brick | start, stop, the messages | a click beside a message |
| administration | `backupadmin/` | database rows, the lists of a page | add and delete hosts, indexes, bricks, positions; choose a folder | sequences without transactions |
| database schema | `sql/backup.sql` | the tables | | what the keys do not forbid |
| release program | `format_src/main.cpp` | two target folders | three passes | each pass reads what the last one wrote |
| system information | `syslayer/sysinfod.cpp` | disk ids, mounts | init_disk_info, get_diskid | tables that age; an insertion without a lock |
| replaced hardware layer | `syslayer_ori/sysinfod.cpp` | disk pool, event counter | scan, monitor, flush, get_diskid | scans between events; mounts that fail |
| helpers | `systools/`, `include/vector.h` | none of their own | command line, configuration file, itoa, vector_c | limits of blocks and tables |

Left aside: glog and pthreads-win32 (vendored), `sql_wrapper/` (a second copy of
the database wrapper), `backup_ui_w/` (a stub), `bk_console/` (does not compile),
the fragments in `test/`, build files.

How they interact. A caller (the main loop of the graphical program, or the main
and control threads of the daemon) calls the front end, which queues tasks and
hands them to pool threads inside `process()`. A pool thread runs `proc`: it
registers its brick in the stop register, posts a message, and runs the window
loop of a worker, which scans the brick, copies to the target disk, and writes
the begin time of the window to the database. The loop and the scan ask the stop
register at fixed places. A dispatcher thread reads the messages and shows them.
The components of the service share memory only through the queue, the register,
the pool and the tables of sysinfod. The administration programs meet the service
only in the database, the client meets the daemon only in two FIFOs.

What makes each correct: the queue is a FIFO channel that loses no message and no
wake-up; the pool runs every task once; a brick has at most one worker, a stop
reaches it, and the shown status is true; the saved begin time never passes a file
that was not handed to copy; copy writes to a disk of its brick that has room, logs
there what it wrote there, and counts what it lost; a command to the daemon is
obeyed once; administrators leave no brick half made but by a failure; the load
reads each brick once; each helper means what its caller takes it to mean.

`PROJECT.json` lists the hazards line by line with the properties that cover them.

## 2. Modules

| module | models | built on |
|---|---|---|
| `MsgChannel` | abstract specification: a FIFO channel | |
| `MsgQueue` | the queue and its reader, step by step; implements `MsgChannel` | `MsgChannel` |
| `ThreadPool` | pool and pool threads under callers that do anything | |
| `PoolDriver` | the test programs `main_thread.cpp` and `main_msg.cpp` as the pool's caller | `ThreadPool` |
| `TaskControl` | the stop register (operations only) | |
| `BrickLife` | abstract specification: the life of a brick, as `backup.h` promises it | |
| `BackupService` | front end, pool, register and tasks; implements `BrickLife` | `ThreadPool`, `TaskControl`, `BrickLife` |
| `Daemon` | the daemon's threads, SIGTERM, FIFOs, clients, on the life of a brick | |
| `UserInterface` | window or status table, between workers and messages | `BrickLife` |
| `BackupWorker` | one brick over time: windows, files, database row, crashes | |
| `FileFrame` | the directory walk (operations only) | |
| `BackupPass` | one window of one brick, walk, callbacks and copy on disks with folders | `FileFrame` |
| `FormatSource` | the release program | `FileFrame` |
| `DiskContainer` | target disks of several workers, their statements, file log, mount table | |
| `SysInfo` | the tables of disks and mounts, and get_diskid | |
| `HardwareLayer` | the layer that it replaced | |
| `BrickTables` | the tables of the schema, their keys, one statement | |
| `BrickAdmin` | the administration programs, several at once | `BrickTables` |
| `BrowseFolder` | the dialog for folders | |
| `SqlQuery` | handles and query objects, as the load uses them (operations only) | |
| `ConfigLoad` | the load of the configuration beside administrators | `BrickAdmin`, `SqlQuery` |
| `SqlObjects` | a query object with all it offers; vector_c | |
| `SqlVar` | the variable that holds a column; itoa | |
| `DbConfig` | the file that names the database | |
| `ArgParser` | the command line of the client | |
| `MsgQueueProofs`, `ThreadPoolProofs`, `PoolDriverProofs`, `BackupServiceProofs`, `BackupWorkerProofs`, `DiskContainerProofs` | proofs | the module each is named after |
| `ProgramsProofs` | proofs, a section for each | `BackupPass`, `BrickAdmin`, `ConfigLoad`, `SqlObjects`, `BrowseFolder`, `HardwareLayer`, `Daemon` |
| `SupportProofs` | proofs, a section for each | `UserInterface`, `DbConfig`, `SqlVar`, `SysInfo`, `ArgParser`, `FormatSource` |
| `MC...` | constants for TLC; `MCPrograms` also composes | |

`BackupService` composes pool, register and tasks step by step. `BrickLife` is what
`BackupService` is shown to implement, and `UserInterface` extends it, so that a
window can be checked without the pool. `Daemon` uses the same promise in a
shorter form of its own (bricks a worker is inside, those that were told), without
the messages, which are in `UserInterface`. `BackupPass` and `DiskContainer` are
two views of copy: the first has folders and a walk, the second the statements, the
lengths and several workers. `BackupWorker` calls a file backed up when it was
handed to copy; what copy then does with it is `BackupPass`.

Correspondence with the code.

* **MsgQueue.** `m_queue`, `m_htask`, `m_mutex` are the members of `msg_queue`.
  `push_back` is two steps (`PushBack`, `SetTask`) because its `sem_post` comes
  after the insertion; `wait_msg` is two (`SemWait`, `SemRepost`) because neither
  is under the mutex; `pop_front` keeps the mutex through `set_empty`, of which
  each round is a step. `ReturnTooSmall` and `LengthFits` are the two ways
  through `backup_getmsg`, `CopyOut` is what happens at the reader afterwards.
  `posted` and `delivered` are history.
* **ThreadPool.** Each thread object has its flags, task pointer and lock, and a
  control point `tpc`; each caller has a control point `cpc` and the locals of
  the method it is in. A step is an access to a flag, a pointer, the lock or the
  queue. `crashed` becomes true where the code has undefined behaviour: a null
  slot or pointer, a freed thread, a join of a handle that is not joinable; a
  second join may also pass unnoticed, so the model takes both outcomes. What a
  race inside a `std::` container does to the container is left out: an access to
  it is one step.
* **BackupService** adds to the pool's steps, for every caller, the method it is
  in (`mpc`) and, for every thread, its place in `proc` (`wpc`). The copy and
  the files are abstracted: what remains are the places where the worker asks
  for the stop signal, posts or registers. `Filter` and `FilterAgain` are the
  two calls that `search_by_folder` makes for one entry. `status` is the last
  start or stop message of a brick. `stopMissed` is history. The refinement
  mapping `LifePhase` reads the phase of a brick off the place of its worker, and
  `told` off the semaphores of the register.
* **Daemon.** `mpc` is the main thread, `hpc` the handler that interrupts it, `cpc`
  the control thread, `vpc` the view thread. A FIFO is the system's: open blocks
  until there is another end, the text is lost with the last end. `pipe` and
  `r_buf` hold whose commands are there, in order; a command of two characters
  that stands alone is too short (`LongEnough`). `CtrStops` is both cases of the
  switch that end in `backup_stop`, because the first has no break. When two
  threads are inside the service at once, `tangled` ends the model:
  `AssignsToDormant` shows what follows.
* **UserInterface.** `Configure` posts the CONFIG messages, `Dispose` is what the
  reader does with the head of the messages, `Click` a button of the window,
  `ClientStarts` a command that reached the daemon. The counters that are shown are
  left out.
* **BackupWorker** adds time. A file is its modification time; a pass is a set
  of files still to come to, taken in any order. `Copy` includes copies that
  fail with an error that is only counted. The members `m_lastbackup_time`,
  `m_end_time` and `bfirstrun` are the worker's; `dbBegin` is the row;
  `last_filter_time` is the process's copy of it, which is read when the process
  starts and never again. `PassEnds` saves the row or fails to. `CrashRestart` may
  come anywhere. `skipped` is history: files whose folder a pass could not open.
* **FileFrame, BackupPass.** `col` is the list of folders, `entries` what readdir
  has not returned yet of the open one. `CreateDir` makes a folder on the disk that
  is there then; `OpenErr` is what happens to its files on the next disk.
  `m_target_space_used` is what the worker adds up. `held` is what is on the disks:
  `part` is a copy that was not finished, or any other file of another length, `alike`
  a file of the same length and another content, which the code takes for the file
  (`SameFileThere`). `PassInit` begins with whatever earlier windows, versions and
  bricks can have left; `CopyShort` is the copy that ends early and is not noticed,
  `RowOfOther` another brick's row for the path. `doubtful` is history: the files
  these things have happened to.
* **FormatSource.** `pass` is which of the three walks runs; a file is a sequence of
  kinds of lines, of which only the conditional compilation matters. `failures` is what
  a pass could not read or make, with all that lies below it; `fate` is what has become
  of the program: a flush that fails throws past every handler (`FlushThrows`).
* **DiskContainer** has a container and a control point `pc` for every brick. A
  step is one statement, one look at a disk, one change of a file. `BRICK_DISK` and
  `DISK_FILE` are the tables, as functions of their primary keys: that a disk has
  one brick and a path one disk *in all bricks* is what the schema says.
  `m_sql` is whether a failed query is still in the statement buffer; while it is,
  `Executes` lets nothing succeed. `m_path_Partition` is sysinfod's answer for each
  directory, built when the process starts and never again: the threads that would
  renew it are inside a comment of `init_disk_info`. The operator may exchange a
  disk at any time; `exchanged` is history. A source is only the length that is
  read of it, a new one each time. A disk is filled in blocks of `Block`, by files and
  by folders, as statfs counts it; the worker adds up lengths. `unseen` is history: how
  much of its disk a worker took since it last asked statfs and did not count. A copy
  may end short without an error, because the streams throw for badbit only. A brick may
  have no position (`m_pos`): `init` then succeeds with whatever its directory leads to
  (`NoPositions`), which may be the bare directory (`Target`).
* **SysInfo.** The lines of `fdisk -l` and `mount -l` are derived from the devices
  and read by a fold over them (`ReadDevice`, of each of its lines `ReadLine`). `LookUp` inserts a
  device it does not find, as `operator[]` does; what another worker reads then may
  be anything (`torn`).
* **HardwareLayer.** A slot stands for an address and a device name. `Scan` is
  `init_disk_info` in its order, `Monitor` the loop of `udevadm_monitor` with
  `++event_count` as a read and a write, `Flush` the loop that compares the count
  with the last one; `Look`, `Umount`, `MountLocal` are get_diskid.
* **BrickTables, BrickAdmin.** A table is a set of rows; `Accepted` are the keys and
  foreign keys. A handler is a control point between its statements. `listed` is
  what the page shows, which may be old. `leftover` is the text that a failed check
  leaves in `m_sql`. `raced`, `failed` and `kept` are history.
* **SqlQuery, ConfigLoad.** `odb` is the handle a query object has grabbed, `res` the
  answer it holds, `results` those it stored. The load is its loop, statement by
  statement, with the administrators' steps between.
* **SqlObjects, SqlVar, DbConfig, ArgParser, BrowseFolder.** One action for each
  method, and for each way through it. A state `"undefined"` is where the code has
  undefined behaviour; the properties say when it may be reached. Words, lines and
  paths are sequences of pieces.

Definitions under "Seeded fault" are slips of single lines of the code; each
shows that a property notices it. They are not used by the specifications.

## 3. Runs

| run | instance | shows |
|---|---|---|
| `msg_queue` | 2 posters, 4 messages of 3 lengths | the reader's pointer is never null; no wake-up is lost; the queue implements the channel; every post is delivered |
| `pool_driver` | `initialize(1, 2)`, 3 tasks, failing `pthread_create` | no task is shared or lost; the test program's completion check is right; it finishes but for the stillborn thread and the second join |
| `service` | 2 bricks, 1 caller, 1 call after the start | one worker per brick; a signalled worker ends; a stop returns, unless it missed a task, and leaves nothing at work; the service implements the life of a brick |
| `worker` | 2 files, clock 1..5, interval 2, first space 1, 1 crash or stop | nothing older than the saved time is forgotten; every window but a worker's first keeps the interval; a file left alone is backed up in the end |
| `disks` | 2 bricks of 1 and of 0 or 2 positions, 2 disks of 2 blocks, 1 path, 1 folder | a worker overestimates the free space by folders and rounding only; with positions it writes to its own disks; it logs where a file of that path is; a copy ends |
| `daemon` | 1 brick, 2 clients with any commands, 1 free descriptor | no command is obeyed twice; one that comes alone is obeyed; a stop ends the daemon |
| `programs` | twelve parts, below | seventeen properties, below |
| `stop_hangs` | 1 brick, 1 further call | **violated**: a stop that comes before `reg` waits for ever |
| `queue_stalls` | 1 brick, 2 further calls | **violated**: a queued task and an idle thread wait for ever |
| `two_assigners` | 2 bricks, the daemon's 2 callers | **violated**: a task is overwritten by a second `process()` |
| `skipped_files` | as `disks` | **violated**: a file is left out because another brick logged its path |
| `daemon_help` | 2 bricks, 1 client | **violated**: the command that stops one brick stops the service |

The five violated properties are what a comment or help text of the repository says
and the code does not do; `PROJECT.json` quotes the lines under `findings`.

`programs` checks the programs around the service and the libraries below it. They
have no state in common but what the modules share by extension, so one variable,
`part`, says which of them runs, and the others keep a first value:

| part | module | instance | properties |
|---|---|---|---|
| `interface` | `UserInterface` | 2 bricks, window or daemon, 2 requests | `ScreenTrue` |
| `pass` | `BackupPass` | 2 files, one in a subfolder, 2 disks of 2 files, 1 walk over anything left of one file, 2 failed calls, 1 exchange | `LostIsCounted`, `CleanWalkIsComplete` |
| `admin` | `BrickAdmin` | 2 programs, 1 host, 2 indexes, 2 bricks, 1 position, 2 buttons, 1 fault | `IndexSharedOnlyByRace`, `HalfBrickExplained` |
| `load` | `ConfigLoad` | any tables, 1 administrator with 2 buttons, 1 failed query | `LoadedOrMissed`, `PositionGivenOnce` |
| `format` | `FormatSource` | 2 source files, one of up to 3 lines or of nested blocks, a subfolder, 1 failure, an earlier run or none | `ReleaseIsTheSource`, `FormatEnds` |
| `line` | `ArgParser` | up to 3 of 10 words | `LineUnderstood` |
| `file` | `DbConfig` | every line of up to 3 pieces, many of 4, files of up to 3 lines | `ConfigReadRight` |
| `var` | `SqlVar` | numbers of each number of digits, 3 assignments | `VariableReadsBack` |
| `info` | `SysInfo` | 2 disks and a device that is none, 2 workers, 1 change | `AnswerWasTrue` |
| `hardware` | `HardwareLayer` | 2 slots, 1 of them in an enclosure, 2 plugs, 1 call, 1 fault | `RightDisk`, `PoolCatchesUp` |
| `sql` | `SqlObjects` | 3 statements, answers of no or one row | `AnswersOwnedOnce` |
| `browse` | `BrowseFolder` | 5 folders, 2 dialogs, 1 folder removed | `FolderChosenWasShown` |

The `admin` part starts with at most one particular brick and no positions, the
`load` part with any content that the keys allow. Beside the load one program
administrates, whose statements do not fail. In `line`, the table has more options
than the client's, so that every kind of argument occurs. In `var`, an int has 12
bits and an unsigned long 24, instead of 32 and 64, and the block of an int has room
for the ints in the same way.

Why the bounds are enough. Two posters and four messages let the list become
empty, hold two, and be refilled during a drain; messages of different length
make the retry happen. The pool's hazards take one caller and two threads, one from
each of `initialize`'s two loops; what holds with several callers is proved
(section 4). Two bricks with one call after the start give a repeated start of a
running brick and a stop at every place of `proc`; a third task lets a second
worker of a brick follow the first. For the worker one unit of time is the shortest
window (an hour in the code); `FirstSpace = 1` and `Space = 2` stand for a day and ten
hours, and `Interval = 2` is longer than the first: first windows, capped windows,
short windows and several in a row all occur before the clock stops, and the first
window comes nearer to the present than the interval. For the disks two blocks, one of
them used by others, make a disk full after one file or one folder; the other disk is
more than half full, and `init` refuses it; the path is the same in both bricks, is
copied again and again, and each disk can be moved to either brick. A file takes half a
block, so rounding is there. At most one brick has its disk exchanged under the
process: the properties say nothing of that brick, and its place in the run is what it
can do to the other one. In
the daemon two clients give two commands in one read, a client that lingers, and one
that comes while the other is obeyed; one descriptor is what the view thread leaks
to starve the control thread. In the walk a second walk finds what a first one left
half done, and a folder that was made on the disk before. Two administrators and
two buttons give each pair of handlers between each other's statements, and each
handler after another of the same program; the database may hold a brick when they
start, so no button is needed to set them up. The named bounds are the constants `Max...`; the sets `Msg`,
`Tasks` bound the objects that are created.

Deadlock checking is off: a service that nobody calls, a stopped clock, a program
that is done and a hung join are states in which the modelled part may rest.

Fairness. A thread that is inside an operation goes on (`WF` of each thread's own
steps): they are operating-system threads. Nobody is obliged to call the service,
to post, to start a client or to press a button. In `BackupService` a copy and a
scan are taken to end. In `DiskContainer` a worker inside `init` or `copy` goes on.
In `BackupWorker` time passes, a stopped brick is started again, and a disk with
room is put in at last (`SF` of `Copy`); without the last the program does not
promise anything. In `Daemon` the threads of the daemon and a client that has
started go on, and a worker that was told to stop ends, which `service` shows
(`StopSignalObeyed`). In `programs` the release program runs, and the scan, the
monitor and the flush thread of the hardware layer do.

The type invariants are not among the properties of the runs: each module's is proved
(section 4), those of `BrickLife`, `TaskControl` and `BrickTables` inside those of the
modules that use them. `HardwareLayer` and `PoolDriver` have none of their own; `LayerInv`
and the invariant of the pool say there what is needed of the variables.

## 4. Proofs

All theorems hold for every value of the constants under the modules' `ASSUME`s.
Most of these say only that ids, null pointers, spaces and bounds are what they are.
The others, and what in the code they stand for:

* `NoLoopAssumption` (`FileFrame`): no link leads the walk back into a folder it is
  below. With one, the walk would not end.
* `PathAssumption`, `DueAssumption`, `NamesAssumption`: a disk has finitely many paths,
  a window finitely many files, the tables finitely many bricks and positions.
* `RowsAssumption` (`SqlObjects`), and the paths of `FolderTreeAssumption`
  (`BrowseFolder`): rows and paths are sequences.
* `JbodsAssumption` (`HardwareLayer`): an enclosure that is configured is configured as
  it is wired. Otherwise the positions of its disks mean nothing.
* `ContentsAssumption` (`FormatSource`): the sources compile: each block has one end, and
  at most one else. How the end is tagged is not assumed. `KindsAssumption`: the filters
  go by the name, which is of one kind.
* `OptionsAssumption`, `LinesAssumption` (`ArgParser`): no option of the table has the code
  that the parser gives to plain words; words are sequences of characters. `FilesAssumption`,
  `TextAssumption`, `DevicesAssumption`: so are lines, texts and listings.
* `WidthAssumption` (`SqlVar`): an unsigned long is wider than an int, and the block of an
  int holds the digits of every int, but not those of the unsigned long that a negative
  int becomes. That is so of twelve bytes, 32 and 64 bits.
* `MaxThreads > 0`, a hypothesis of `CompletionCheckIsRight` only: a pool without
  threads has as many active as dormant ones from the beginning.
* `OneCaller`, a hypothesis of four theorems: one thread at a time calls the pool. The
  graphical program and the test programs are such; the daemon is not, and run
  `two_assigners` shows what becomes of the same statements there.

**`MsgQueueProofs`.** The inductive invariant adds to the types: who is inside an
operation owns the mutex (`MutexInv`); the semaphore is up only over a queue that is
not empty, but while it is drained (`SemaphoreInv`); what the reader knows about the
head stays true, since nobody else pops (`ReaderInv`). From it follow
`GetmsgNeverNull`, `NoLostWakeup`, that the second call of `backup_getmsg` finds the
message that the first one measured (`RetryFindsSameMessage`) and, step by step,
`ImplementsChannel`: `push_back` maps to `Send`, `CopyOut` to `Receive`, every other
step to a stutter. `GetmsgNeverNull` alone is not inductive: that `front()` finds a
message depends on the semaphore.

**`ThreadPoolProofs`.** `TaskPointerNotNull` needs that a thread's lock is held by the
caller that sets its task or by the thread around its task (`LockInv`), that "not
paused" implies a task (`PausedInv`), and that a caller that is about to resume a
thread has set one (`AssignInv`). `TaskHeldOnce` needs beside this where a task is
between the queue and its thread, in the hand of the caller that took it: a task is in
one place of all these. It is proved for any number of callers at once. That a second
caller may overwrite the task of a thread is no contradiction: that task is lost, and
not held twice.

`NoTaskLost` is false with two callers. With one it needs `SoleInv`: the vector of
threads has a null pointer only where `initialize` has not come to (`VectorInv`); what
`process()` has noted as dormant still waits when its turn comes, because the caller
alone could have set it going (`DormantInv`); a thread that waits has no task, or one
that has run (`IdleInv`); and a caller does not read a task again that it has handed
over (`NextTaskInv`).

**`PoolDriverProofs`, `BackupServiceProofs`** show first that every step of the program
is one of the pool's, so that what is proved of the pool holds of them.

* `AllDoneAtBreak`: the flags are read one thread after the other, while threads end
  their tasks. A scan that counts as many dormant threads as were made (`CountInv`) has
  found each of them (`ScanInv`); those it found go on waiting, because only `main` could
  set them going, and a thread that waits has no task that has not run; none was deleted
  before (`RunningInv`). So all tasks have been run when the loop ends (`DoneInv`).
* `OneWorkerPerBrick` needs `WorkerInv`: the register holds exactly the bricks at which a
  thread is at work, one thread each. That is what `reg` and `unreg` at the two ends of
  `proc` keep, over every return of it.
* `ImplementsLife` is step by step: `reg`, the messages and `unreg` map to the steps of
  `BrickLife` for their brick, a stop of all bricks to one step for all of them, the rest
  to stutters. `PhaseInv` says that a brick's phase is the one its only worker is in, and
  idle without a worker; that there is only one is `WorkerInv`.
* `StoppedMeansQuiet` needs `MasterInv`: where in the pool a caller is at each place of
  the service, and that the pool is empty when `shut_down` has returned.

**`BackupWorkerProofs`.** `NoGap` needs that what lies behind the current window is
covered, or the stop signal is up and the file that was left behind is still ahead of
the pass (`WindowInv`). A folder that cannot be opened is its one exception: its files,
also one that an earlier pass had left behind for want of a disk, are passed by the
saved time. `IntervalRespected` needs to know which window is a worker's first
(`FirstInv`): that one ends a day before the present whatever the interval, and is the
property's exception; every later one is proved to keep the interval, of any length.

**`DiskContainerProofs`.** `OnlyRoundingUncounted` compares a count with the sum of what
the files on a disk occupy. What is needed of a sum over a set (one more, one less,
one that grows) is proved from the sum's own definition, with the principle that a set
of numbers that is not empty has a least one. `DiskInv` says of every place in `copy` how
far count and disk are apart (`SpaceInv`), that the disk is the worker's own in the tables
from `init` on, if its brick has a position (`OwnerInv`), which `WritesToOwnDisk` needs, and that the file is there
when its row is about to be inserted (`FileInv`), which `LoggedWhereItIs` needs.

**`ProgramsProofs`**, by section:

* *The pass.* `LostIsCounted` is about a whole walk. The invariant (`PassInv`) says that
  there are a set `S` of folders that were searched and a set `L` of lost files, no more
  than were counted, such that whatever lies in a folder of `S` is still to come, or is
  on a disk, in `L` or doubtful, or is a folder that is listed, searched or could not be
  opened (`WalkInv`). `LogInv` says that a row, or a file of the right length, that is
  not true belongs to a doubtful file. At the end nothing is to come; a file of which no folder above was unread
  has its folder in `S`, since otherwise the folders above it that are not in `S` would
  have one whose parent is, by `NoLoopAssumption`. `CleanInv` adds, for a walk without
  failures, that every listed folder was made on the disk and that the count of the
  space is not below what is used.
* *The administration.* `IndexSharedOnlyByRace` is not inductive: between the check of a
  place and its insertion another program may take it. `PlaceInv` says that whoever is
  adding at a place that is taken was raced. `HalfInv` says which program has a brick
  half done; it is stronger than `HalfBrickExplained`, because it names the control
  points at which it may. That a deletion was refused, in `kept`, is recorded for as long
  as the row stands. Beside them stand the keys of the schema, which each accepted
  statement keeps.
* *The load* beside administrators. `ConfigInv` contains the invariant of the
  administration, and says where the answers of the one query object are (`ObjectInv`),
  that the answer of the outer loop stays the one it was while others are stored behind
  it (`RowsInv`), that tasks and missed bricks are the rows that were passed (`TaskInv`),
  and that a position that was read is still its brick's or was moved
  (`PositionsInv`), without which `PositionGivenOnce` is not inductive.
* *The query object.* Answers are numbered as they are sent, so that a new one is nobody's;
  `AnswersOwnedOnce` is kept until a deletion overlaps in `vector_c`.
* *The dialog.* Every folder that the dialog lists, and the one it is in, was shown.
* *The old system layer.* `RightDisk` depends on the scan that made the pool. `LayerInv`
  says of every place in the scan what has been read of the hardware and is true while
  it has not changed since the scan began (`ScanInv`), and of every call that the entry it
  is at has the position that was asked for, while nobody empties the pool (`AskInv`).
* *The daemon.* `ObeyedOnce`: the commands in the FIFO are of clients that have written
  and were not obeyed, since a client writes once and a read takes all (`PipeInv`).
  Beside it stand the types of each part of the daemon, which the other parts leave alone.

**`SupportProofs`**, by section:

* *The window and the daemon's table.* `ScreenTrue` is about what is shown when no
  message is left. The invariant (`ScreenInv`) is about any number of them under way:
  the last message of a brick says what the brick is (`LatestInv`), a brick's messages
  come after the one that puts it on the screen (`OrderInv`), and none of a worker comes
  while the bricks are being configured (`LoadInv`, `ConfiguredInv`).
* *Folds.* What the other parts do to a text is a fold over its pieces. The community
  modules define a fold by a function on sets of positions, of which `FoldExists` shows,
  by induction on their number, that there is one; over the first `i` positions its
  results go from one to the next by the step of the fold (`NumberSteps`, `ReadSteps`,
  `WindowsSteps`, `LinuxSteps`). The induction
  is over sets of numbers (`AllNumbers`: a set that has 0 and with each number the next
  has them all), which follows from the least number. So no rule with an operator for
  a parameter is needed.
* *The configuration file.* `FileInv`: of each name the login has what the last of the
  lines read so far that sets it gives, or the default. For one line, `LineTaken` shows
  that the searches of `string` (`find`, `find_first_not_of`, `rfind`) and the cuts
  between them take the name and the value that a reader finds, for every line.
* *The query variable.* `VarInv` follows `itoa` through both of its loops: the digits
  that are divided off are those of the value from the back, the exchanges turn them
  around (`Turned`), and `DigitsGrow` bounds their number, so that a block is left only
  by what `VariableReadsBack` names. `AtoiReads` and its neighbours show that the number
  is read back from the text.
* *The tables of the disks.* What the fold over the listing leaves is the identifier of
  each disk (`ReadSoFar`), also with devices between that are no disks; `InfoInv` says
  that both tables are what was `seen` at their making, until workers tear them.
* *The command line.* `ArgInv` relates the words up to the present one with the records
  made of them: each was taken for one thing, plain words in order, and inside a word of
  short options every character before was an option of the table. That records were
  handed on from words, none lost and none exchanged, is a relation (`Handed`) that one
  record more, one word more and the words at the end keep.
* *The release.* Each pass over a file is a fold whose result was handed on from the
  lines it had to leave (`WindowsKeeps`, `LinuxKeeps`). `BothPasses` shows that both
  together leave what the preprocessor leaves, if the file compiles and its blocks are
  `Tagged`: then a block for Windows ends at the first line that says so (`WindowsEnd`).
  `FormatInv` is about the walks, like `PassInv` above: there is a set `S` of folders
  searched, such that every entry of one of them has arrived in the target, failed or is
  still to come; and what has failed is closed (`Closed`): with a folder, all that is in
  it. The root is made before the walk, and no pass removes what another has written,
  except in a file that failed.

Every invariant named here holds also in TLC, on the instance of its component's run.

Only model-checked:

* Liveness (`EveryPostIsDelivered`, `DriverFinishes`, `StopSignalObeyed`,
  `StopReturnsUnlessMissed`, `EventuallyBackedUp`, `CopyEnds`, `LoneCommandObeyed`,
  `StopEndsDaemon`, `FormatEnds`, `PoolCatchesUp`): outside the prover.
* The violated properties of section 3, of which TLC gives the counterexample.

## 5. Observed and not listed as runs

Of the service:

* A thread that reads `m_brunning` before `begin()` has set it ends at once and is
  counted as dormant for ever (`backup/sys_thread.cpp:52`); every shut-down joins
  each thread twice (`thread_pool.cpp:57`); a stop of a brick just after its start
  is lost (`backup_task.cpp:169`). `DriverFinishes` and `StopReturnsUnlessMissed`
  name these as exceptions.
* A brick that is restarted in the same process moves its saved time back
  (`backup_master.cpp:57`), which `NoGap` tolerates, because it only repeats work.
* With an interval longer than a day the first window ends a day before the present
  all the same (`backup_worker.cpp:62`), against `sql/backup.sql:24`; `IntervalRespected`
  names it, and the run has such an interval.
* The free space is counted in lengths, while the disk fills in blocks, and folders are
  not counted (`disk_container.cpp:201`): a disk may be full in truth while the worker
  goes on with it. Copies to it end short; `os << is.rdbuf()` with exceptions for badbit
  only does not tell (line 180), and they are logged.
* A brick without positions, which the page makes (`BrickMaster.cpp:213`), finds `init`
  successful without a disk (`disk_container.cpp:38`): its files go to whatever its
  directory leads to, another brick's disk or the machine's own, and no row logs them.
* A folder that cannot be opened makes a gap (`file_frame.cpp:145`). A link to a
  folder above itself would be walked for ever; the model has no such link. After
  FRAME_STOP the list of folders keeps what was not searched (`file_frame.cpp:336`).
* A disk that is exchanged in the middle of a pass loses files: the folders that
  were made on the old one are missing, every file in them fails to open, is
  counted, and the begin time passes it. `CleanWalkIsComplete` is for walks without
  an exchange. Under the table of sysinfod, a disk exchanged under the process keeps
  the id of the one that is gone: `LoggedWhereItIs` and `WritesToOwnDisk` fail
  without their exception for `exchanged`.
* A file longer than what an accepted disk has free keeps `copy` asking for disks
  for ever (`disk_container.cpp:101`), which `CopyEnds` excludes by the lengths.
* A path that is logged is never copied again, also after it was modified or when the
  row is another brick's; nor is a file whose old version has its length on the disk
  (`disk_container.cpp:144`, 149). `LostIsCounted` and `CleanWalkIsComplete` leave these
  files out, and those whose copy was cut short without an exception. A row of
  the file log need not stay true: after a failed query a logged file may be copied
  again, and a failed write removes it (`disk_container.cpp:188`). A flush that
  fails throws past the handlers (line 193).
* The answers that `db_exec` stores are never freed before the object is
  (`db_exec.cpp:38`, 58).
* The call of `init_src`, which would see that a brick is mounted, is in a comment
  (`backup_worker.cpp:32`): a pass over a mount point with nothing mounted finds no
  files, and its begin time goes on.
* `int` is the type through which a begin time beyond 2^31 is read
  (`config.cpp:51`).

Of the programs and libraries:

* The daemon ignores the command that the client sends for `--stopbackup`, which has
  two characters where the daemon asks for three (`deamon.cpp:156`); the command to
  stop one brick does that instead (`daemon_help`).
* Two commands that are read at once are one command with a wrong brick id; one that
  is written between the read and the close is lost. `LoneCommandObeyed` is for a
  command that comes alone.
* The button that stops everything is connected but never placed in the window
  (`backup_main.cpp:44`).
* Two administrators can put two bricks at one index of a host: the schema has no
  key against it (`sql/backup.sql:29-37`), and the check and the insert are apart
  (`BrickMaster.cpp:202`). `IndexSharedOnlyByRace` says that it takes this race.
* The begin time of a brick is compared as text (`BrickMaster.cpp:193`).
* Closing the dialog for folders without OK puts the folder that is shown into the
  entry (`BrickMaster.cpp:268-282`); a folder that has gone ends the program with an
  exception nobody catches.
* The table of the client's options has no end that the parser would recognize
  (`backupclient.cpp:40-47`, and so in `backup_ui/main.cpp:22`,
  `backupadmin/main.cpp:24`): an unknown or abbreviated option is searched for behind
  it.
* `get_dbconfig` takes a byte from before the text for a value of blanks, and has no
  way to say "no password" (`systools.cpp:139`).
* `itoa` of a negative int writes twenty digits into twelve characters
  (`mysqlplus.cpp:396`). A NULL column is a null pointer to `strlen` unless
  `allow_null(0)` was called. `grabdb` sets its error when the connection succeeds
  (`mysqlplus.cpp:116`). The constructor of a query with a statement leaves the
  answer with the handle, which then refuses the next statement.
* A worker that asks for a device without an identifier inserts into a map that the
  others read (`syslayer/sysinfod.cpp:233`).
* In the replaced layer, `backup_stop` ends the monitor and the flush thread for good
  (`backup_master.cpp:72`): after the first stop the pool is never renewed. A
  `pthread_create` that fails has the same effect (`sysinfod.cpp:426`, 432).
* There, too, changes before the monitor listens are not heard of, a disk
  in an enclosure that is not configured counts from another number, and a mount
  whose line in `/etc/mtab` fails stays below the next one.
* `format_src` writes for ever when a line fills its buffer (`main.cpp:41`), and ends
  with an exception nobody catches when a flush fails (`main.cpp:70`). A block for Windows
  whose `#endif` does not say so takes the rest of its file along (`main.cpp:42-59`), and
  an `#else`, or the bare `#endif` of a block for Linux, stays without its `#ifdef`:
  `ReleaseIsTheSource` is for sources whose blocks are tagged.
* Deleting a brick that has positions takes one of its two rows and is refused the other
  (`db_config.cpp:87`); `HalfBrickExplained` names it.

## 6. Not modelled, and the plan

Not modelled, and why:

* `bk_console/` does not compile; `backup_ui_w/` is a stub; `sql_wrapper/` is a second
  copy of what `SqlQuery`, `SqlObjects` and `SqlVar` model.
* The layout of windows, the counters they show and the checks of typed text: pure
  input and output.
* The splitting of the lines that system commands print: `SysInfo` and
  `HardwareLayer` begin with the fields. The widths and formats of times.
* Races inside a `std::` container: what they do to it is not defined.
* The Windows build; glog and pthreads-win32; build files.

What remains, in this order:

1. An abstract specification of the file log (which brick's file is on which disk),
   with `DiskContainer` as its implementation up to the exceptions of section 5, step
   by step as `ImplementsLife` and `ImplementsChannel` are.
2. `BackupPass` as an implementation of what `BackupWorker` takes a pass to be, so that
   what is proved of the windows and of one pass becomes one statement.
3. A property for the begin time that is compared as text, with the digits of a number
   as `SqlVar` has them.
