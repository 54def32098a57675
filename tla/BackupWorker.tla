---------------------------- MODULE BackupWorker ----------------------------
(***************************************************************************)
(* The backup of one brick in time: the window loop of backup_worker       *)
(* (src/backup/backup_worker.cpp), the pass of file_frame over the files   *)
(* (src/backup/file_frame.cpp), BACKUP_TIME_BEGIN in the database, and     *)
(* the task that config.cpp loads from it when the process starts.         *)
(*                                                                         *)
(* A pass hands to copy every file whose modification time lies in         *)
(* [m_lastbackup_time, m_end_time).  After a pass the database gets the    *)
(* BEGIN of the window, the next window begins at its end.  A crash or a   *)
(* stop loses the worker's variables; what was copied stays.               *)
(*                                                                         *)
(* Time is a whole number of units.  One brick has one worker at a time    *)
(* (OneWorkerPerBrick of BackupService).  The clock does not run back and  *)
(* a file gets its modification time when it is written.                   *)
(***************************************************************************)
EXTENDS Integers

CONSTANTS
    Files,              \* the paths in the brick
    Origins,            \* values of BACKUP_TIME_BEGIN the administrator may set
    FirstSpace,         \* FIRSTBACKUPSPACEBEFCURR
    Space,              \* BACKUPSPACE
    MinSpace,           \* MINBACKUPSPACE
    Interval,           \* BACKUP_TIME_INTERVAL
    StartTime,          \* the clock when the history begins
    MaxTime,            \* bound on the clock
    MaxRestarts         \* bound on crashes and stops

ASSUME SpacesAssumption ==
    /\ FirstSpace \in Nat
    /\ Space \in Nat
    /\ MinSpace \in Nat \ {0}
    /\ Interval \in Nat
ASSUME ClockAssumption == StartTime \in Nat /\ MaxTime \in Nat
ASSUME OriginsAssumption ==
    Origins \subseteq Nat /\ \A o \in Origins : o <= StartTime
ASSUME BoundsAssumption == MaxRestarts \in Nat

Absent == -1            \* "modification time" of a path with no file

VARIABLES
    (* the brick and the clock *)
    now,
    mtime,              \* modification time of each file
    (* lasting: the database row, and what has been handed to copy *)
    dbBegin,            \* BRICK_MASTER.BACKUP_TIME_BEGIN
    backedUp,           \* files that copy accepted as they are now
    (* the process: the brick's entry in m_pref.m_task *)
    last_filter_time,
    (* the worker *)
    pc,
    m_lastbackup_time,
    m_end_time,
    bfirstrun,
    stop,               \* the brick's stop semaphore is up
    left,               \* files the pass has still to come to
    (* history *)
    origin,             \* the first BACKUP_TIME_BEGIN
    skipped,            \* files a pass left out with their folder, likewise
    restarts            \* crashes and stops so far

envVars == <<now, mtime>>
lastingVars == <<dbBegin, backedUp, last_filter_time, origin, skipped>>
windowVars == <<m_lastbackup_time, m_end_time, bfirstrun>>
vars == <<envVars, lastingVars, pc, windowVars, stop, left, restarts>>

Present == {f \in Files : mtime[f] # Absent}

Init ==
    /\ now = StartTime
    /\ mtime \in [Files -> {Absent} \cup 0..StartTime]
    /\ dbBegin \in Origins
    /\ backedUp = {}
    /\ skipped = {}
    /\ last_filter_time = dbBegin
    /\ pc = "idle"
    /\ m_lastbackup_time = 0
    /\ m_end_time = 0
    /\ bfirstrun = TRUE
    /\ stop = FALSE
    /\ left = {}
    /\ origin = dbBegin
    /\ restarts = 0

-----------------------------------------------------------------------------
(* Seeded faults.                                                          *)

SavesWindowEnd == m_end_time
Latest(a, b) == IF a < b THEN b ELSE a
StaysAtBegin == m_lastbackup_time
NeverTooShort(end) == FALSE

-----------------------------------------------------------------------------

Earliest(a, b) == IF a < b THEN a ELSE b

NextEnd == Earliest(m_lastbackup_time + Space, now - Interval)

(* m_end_time of the next window, for the first round and for later ones.  *)
WindowEnd(first) ==
    IF first /\ m_lastbackup_time <= now - FirstSpace
      THEN now - FirstSpace
      ELSE NextEnd

TooShort(end) == end - m_lastbackup_time < MinSpace

(* _filter, for a file.                                                    *)
InWindow(m) == m_lastbackup_time <= m /\ m < m_end_time

(* What update_backup_time is given, and where the next window begins.     *)
SavedTime == m_lastbackup_time
NextBegin == m_end_time

-----------------------------------------------------------------------------
(* The environment: time passes, files are written.                        *)

Tick ==
    /\ now < MaxTime
    /\ now' = now + 1
    /\ UNCHANGED <<mtime, lastingVars, pc, windowVars, stop, left, restarts>>

Write(f) ==
    /\ mtime' = [mtime EXCEPT ![f] = now]
    /\ backedUp' = backedUp \ {f}
    /\ skipped' = skipped \ {f}
    /\ UNCHANGED <<now, dbBegin, last_filter_time, origin, pc, windowVars, stop,
                   left, restarts>>

-----------------------------------------------------------------------------
(* The worker                                                              *)

(* proc makes a worker from a copy of the brick's task, and reg gives it a *)
(* fresh semaphore.                                                        *)
Start ==
    /\ pc = "idle"
    /\ m_lastbackup_time' = last_filter_time
    /\ m_end_time' = 0
    /\ bfirstrun' = TRUE
    /\ stop' = FALSE
    /\ pc' = "loop"
    /\ UNCHANGED <<envVars, lastingVars, left, restarts>>

(* One round of the loop up to the pass: the window is long enough, or the *)
(* worker waits.                                                           *)
Round ==
    /\ pc = "loop"
    /\ m_end_time' = WindowEnd(bfirstrun)
    /\ bfirstrun' = FALSE
    /\ IF TooShort(WindowEnd(bfirstrun))
         THEN pc' = "sleep" /\ UNCHANGED left
         ELSE pc' = "pass" /\ left' = Present
    /\ UNCHANGED <<envVars, lastingVars, m_lastbackup_time, stop, restarts>>

SleepEnds ==
    /\ pc = "sleep"
    /\ pc' = IF stop THEN "idle" ELSE "loop"
    /\ UNCHANGED <<envVars, lastingVars, windowVars, stop, left, restarts>>

(* The filter sees the stop signal before it looks at the file.            *)
PassStops ==
    /\ pc = "pass"
    /\ left # {}
    /\ stop
    /\ pc' = "idle"
    /\ UNCHANGED <<envVars, lastingVars, windowVars, stop, left, restarts>>

FilterOut(f) ==
    /\ pc = "pass"
    /\ f \in left
    /\ ~stop
    /\ ~InWindow(mtime[f])
    /\ left' = left \ {f}
    /\ UNCHANGED <<envVars, lastingVars, pc, windowVars, stop, restarts>>

(* copy takes the file; its errors, but the next one, are only counted.    *)
Copy(f) ==
    /\ pc = "pass"
    /\ f \in left
    /\ ~stop
    /\ InWindow(mtime[f])
    /\ left' = left \ {f}
    /\ backedUp' = backedUp \cup {f}
    /\ UNCHANGED <<envVars, dbBegin, last_filter_time, origin, skipped, pc,
                   windowVars, stop, restarts>>

(* copy finds no disk with room for the file, and signals its own brick to *)
(* stop; the pass does not end here.                                       *)
CopyDiskFull(f) ==
    /\ pc = "pass"
    /\ f \in left
    /\ ~stop
    /\ InWindow(mtime[f])
    /\ left' = left \ {f}
    /\ stop' = TRUE
    /\ UNCHANGED <<envVars, lastingVars, pc, windowVars, restarts>>

(* A folder that cannot be opened is logged and left out.                  *)
OpendirFails ==
    /\ pc = "pass"
    /\ \E folder \in SUBSET left \ {{}} :
         /\ left' = left \ folder
         /\ skipped' = skipped \cup folder
    /\ UNCHANGED <<envVars, dbBegin, backedUp, last_filter_time, origin, pc,
                   windowVars, stop, restarts>>

(* The pass is over: update_backup_time, whose error is ignored, and the   *)
(* next window.                                                            *)
PassEnds ==
    /\ pc = "pass"
    /\ left = {}
    /\ dbBegin' \in {SavedTime, dbBegin}
    /\ m_lastbackup_time' = NextBegin
    /\ pc' = "loop"
    /\ UNCHANGED <<envVars, backedUp, last_filter_time, origin, skipped,
                   m_end_time, bfirstrun, stop, left, restarts>>

(* backup_stopbybrick or backup_stop.                                      *)
SetSem ==
    /\ pc # "idle"
    /\ ~stop
    /\ restarts < MaxRestarts
    /\ restarts' = restarts + 1
    /\ stop' = TRUE
    /\ UNCHANGED <<envVars, lastingVars, pc, windowVars, left>>

(* The process dies anywhere and is started again: login_db reads the row. *)
CrashRestart ==
    /\ restarts < MaxRestarts
    /\ restarts' = restarts + 1
    /\ last_filter_time' = dbBegin
    /\ pc' = "idle"
    /\ left' = {}
    /\ UNCHANGED <<envVars, dbBegin, backedUp, origin, skipped, windowVars, stop>>

-----------------------------------------------------------------------------

Worker ==
    \/ Round
    \/ SleepEnds
    \/ PassStops
    \/ \E f \in Files : FilterOut(f) \/ Copy(f) \/ CopyDiskFull(f)
    \/ OpendirFails
    \/ PassEnds

Next ==
    \/ Tick
    \/ \E f \in Files : Write(f)
    \/ Start
    \/ Worker
    \/ SetSem
    \/ CrashRestart

Spec == Init /\ [][Next]_vars

(* Time passes, the worker's thread is scheduled, somebody starts a        *)
(* stopped brick again, and a disk with room is put in at last.            *)
Fairness ==
    /\ WF_vars(Tick)
    /\ WF_vars(Start)
    /\ WF_vars(Worker)
    /\ \A f \in Files : SF_vars(Copy(f))

FairSpec == Spec /\ Fairness

-----------------------------------------------------------------------------

(* Every variable stays in its type. *)
TypeOK ==
    /\ now \in Nat
    /\ mtime \in [Files -> Nat \cup {Absent}]
    /\ dbBegin \in Nat
    /\ backedUp \subseteq Files
    /\ skipped \subseteq Files
    /\ last_filter_time \in Nat
    /\ pc \in {"idle", "loop", "sleep", "pass"}
    /\ m_lastbackup_time \in Nat
    /\ m_end_time \in Int
    /\ bfirstrun \in BOOLEAN
    /\ stop \in BOOLEAN
    /\ left \subseteq Files
    /\ origin \in Nat
    /\ restarts \in 0..MaxRestarts

(* Every file last written at or after the origin and before time t has    *)
(* been handed to copy in the state it is in, or was, in that state, in a  *)
(* folder that a pass could not open.                                      *)
Covered(t) ==
    \A f \in Files :
        origin <= mtime[f] /\ mtime[f] < t => f \in backedUp \cup skipped

(* Nothing is forgotten: wherever the database row says that the next      *)
(* start begins, everything older has been backed up, but what lay in a    *)
(* folder that could not be opened, whatever crashes, stops, full disks,   *)
(* failed updates of the row and writes to the files came in between.      *)
NoGap == Covered(dbBegin) /\ Covered(last_filter_time)

(* The first window of a worker: it begins where the task loaded it.       *)
FirstWindow == m_lastbackup_time = last_filter_time

(* A window ends at least the configured interval before the present, so   *)
(* that files that may still be written are left alone - but for the first *)
(* window of a worker, which ends FIRSTBACKUPSPACEBEFCURR before the       *)
(* present even where the interval is longer: there backup_worker.cpp:62   *)
(* does not do what sql/backup.sql:24 says of BACKUP_TIME_INTERVAL.        *)
IntervalRespected ==
    pc = "pass" =>
        \/ m_end_time <= now - Interval
        \/ FirstWindow /\ m_end_time <= now - FirstSpace

(* A file that is not written any more is backed up in the end, once the   *)
(* clock is past it by the interval and the shortest window, unless its    *)
(* folder cannot be opened.                                                *)
EventuallyBackedUp ==
    \A f \in Files : \A m \in 0..(MaxTime - Interval - MinSpace) :
        mtime[f] = m /\ origin <= m ~>
            mtime[f] # m \/ f \in backedUp \cup skipped

=============================================================================
