------------------------- MODULE BackupWorkerProofs -------------------------
(***************************************************************************)
(* Proofs about the window loop, for any set of files, any spaces and any  *)
(* number of crashes, stops, full disks and failed updates of the row.     *)
(*                                                                         *)
(* The argument: a pass that reaches its end without having been stopped   *)
(* has handed over every file of its window, so the next window may begin  *)
(* where it ended.  A pass that could not place a file has raised the stop *)
(* signal, and it stays raised until the worker is gone: the worker may    *)
(* open one more window, but the file it left behind keeps that pass from  *)
(* coming to its end, so the row never moves past the file.                *)
(***************************************************************************)
EXTENDS BackupWorker, TLAPS

(* Nothing refers to the future, and a window has a positive length.       *)
TimeInv ==
    /\ origin <= now
    /\ dbBegin <= now
    /\ last_filter_time <= now
    /\ pc \in {"loop", "sleep", "pass"} => m_lastbackup_time <= now
    /\ pc = "pass" => m_lastbackup_time < m_end_time /\ m_end_time <= now

(* File f is as copy took it, or as a pass left it out with its folder.    *)
Taken(f) == f \in backedUp \cup skipped

(* What is behind the worker is covered, or the worker will not get far.   *)
WindowInv ==
    /\ pc \in {"loop", "sleep"} => Covered(m_lastbackup_time) \/ stop
    /\ pc = "pass" =>
         \A f \in Files :
             origin <= mtime[f] /\ mtime[f] < m_end_time /\ ~Taken(f) =>
                 /\ f \in left \/ stop
                 /\ mtime[f] < m_lastbackup_time => f \in left /\ stop

IInv == TypeOK /\ TimeInv /\ NoGap /\ WindowInv

-----------------------------------------------------------------------------

(* The types and the times hold at the start. *)
LEMMA TypeInit == Init => TypeOK /\ TimeInv
  <1> SUFFICES ASSUME Init PROVE TypeOK /\ TimeInv
    OBVIOUS
  <1> USE ClockAssumption, OriginsAssumption, BoundsAssumption
  <1>1. mtime \in [Files -> Nat \cup {Absent}]
    <2>1. {Absent} \cup 0..StartTime \subseteq Nat \cup {Absent}
      OBVIOUS
    <2> QED
      BY <2>1 DEF Init
  <1>2. stop \in BOOLEAN /\ bfirstrun \in BOOLEAN
    BY DEF Init
  <1>3. /\ dbBegin \in Nat /\ last_filter_time \in Nat /\ origin \in Nat /\ now \in Nat
        /\ dbBegin <= now /\ last_filter_time <= now /\ origin <= now
    BY DEF Init
  <1>4. backedUp \subseteq Files /\ skipped \subseteq Files /\ left \subseteq Files
    BY DEF Init
  <1>5. pc = "idle" /\ m_lastbackup_time \in Nat /\ m_end_time \in Int
        /\ restarts \in 0..MaxRestarts
    BY DEF Init
  <1> QED
    BY <1>1, <1>2, <1>3, <1>4, <1>5 DEF TypeOK, TimeInv

(* Every step keeps the types and the times. *)
LEMMA TypeStep == TypeOK /\ TimeInv /\ [Next]_vars => TypeOK' /\ TimeInv'
  <1> SUFFICES ASSUME TypeOK, TimeInv, [Next]_vars PROVE TypeOK' /\ TimeInv'
    OBVIOUS
  <1> USE SpacesAssumption, BoundsAssumption
          DEF TypeOK, TimeInv, Absent, envVars, lastingVars, windowVars
  <1>1. CASE Tick
    BY <1>1 DEF Tick
  <1>2. ASSUME NEW f \in Files, Write(f) PROVE TypeOK' /\ TimeInv'
    BY <1>2 DEF Write
  <1>3. CASE Start
    <2>1. stop' \in BOOLEAN /\ bfirstrun' \in BOOLEAN
      BY <1>3 DEF Start
    <2>2. /\ m_lastbackup_time' = last_filter_time /\ m_end_time' = 0 /\ pc' = "loop"
          /\ UNCHANGED <<envVars, lastingVars, left, restarts>>
      BY <1>3 DEF Start
    <2> QED
      BY <2>1, <2>2
  <1>4. CASE Round
    <2>1. /\ WindowEnd(bfirstrun) \in Int
          /\ WindowEnd(bfirstrun) <= now
      BY <1>4 DEF WindowEnd, NextEnd, Earliest
    <2>2. m_end_time' = WindowEnd(bfirstrun)
      BY <1>4 DEF Round
    <2>3. pc' = "pass" => m_lastbackup_time < m_end_time'
      BY <1>4, <2>1, <2>2 DEF Round, TooShort
    <2>4. left' \subseteq Files /\ pc' \in {"sleep", "pass"} /\ bfirstrun' = FALSE
      BY <1>4 DEF Round, Present
    <2>5. UNCHANGED <<envVars, lastingVars, m_lastbackup_time, stop, restarts>>
      BY <1>4 DEF Round
    <2> QED
      BY <1>4, <2>1, <2>2, <2>3, <2>4, <2>5 DEF Round
  <1>5. CASE SleepEnds
    BY <1>5 DEF SleepEnds
  <1>6. CASE PassStops
    BY <1>6 DEF PassStops
  <1>7. ASSUME NEW f \in Files, FilterOut(f) PROVE TypeOK' /\ TimeInv'
    BY <1>7 DEF FilterOut
  <1>8. ASSUME NEW f \in Files, Copy(f) PROVE TypeOK' /\ TimeInv'
    BY <1>8 DEF Copy
  <1>9. ASSUME NEW f \in Files, CopyDiskFull(f) PROVE TypeOK' /\ TimeInv'
    BY <1>9 DEF CopyDiskFull
  <1>10. CASE OpendirFails
    BY <1>10 DEF OpendirFails
  <1>11. CASE PassEnds
    BY <1>11 DEF PassEnds, SavedTime, NextBegin
  <1>12. CASE SetSem
    BY <1>12 DEF SetSem
  <1>13. CASE CrashRestart
    BY <1>13 DEF CrashRestart
  <1>14. CASE UNCHANGED vars
    BY <1>14 DEF vars
  <1> QED
    BY <1>1, <1>2, <1>3, <1>4, <1>5, <1>6, <1>7, <1>8, <1>9, <1>10, <1>11, <1>12, <1>13,
       <1>14
       DEF Next, Worker

-----------------------------------------------------------------------------

(* Nothing is older than the first BACKUP_TIME_BEGIN that has to be saved. *)
LEMMA GapInit == Init => NoGap /\ WindowInv
  <1> SUFFICES ASSUME Init PROVE NoGap /\ WindowInv
    OBVIOUS
  <1>1. dbBegin \in Nat /\ mtime \in [Files -> Nat \cup {Absent}]
    BY TypeInit DEF TypeOK
  <1>2. ~\E f \in Files : origin <= mtime[f] /\ mtime[f] < dbBegin
    BY <1>1 DEF Init, Absent
  <1>3. NoGap
    BY <1>2 DEF Init, NoGap, Covered
  <1>4. WindowInv
    BY DEF Init, WindowInv
  <1> QED
    BY <1>3, <1>4

(* A step that is not a write covers no file less, and a write gives a file *)
(* a time that lies behind no window. *)
LEMMA GapStep ==
    ASSUME IInv, [Next]_vars
    PROVE  NoGap' /\ WindowInv'
  <1> USE DEF IInv, TypeOK, TimeInv, NoGap, Covered, Taken, WindowInv,
              envVars, lastingVars, windowVars
  <1>1. CASE Tick
    BY <1>1 DEF Tick
  <1>2. ASSUME NEW f \in Files, Write(f) PROVE NoGap' /\ WindowInv'
    <2>1. /\ mtime'[f] = now
          /\ \A g \in Files \ {f} : mtime'[g] = mtime[g]
          /\ backedUp' = backedUp \ {f} /\ skipped' = skipped \ {f}
          /\ UNCHANGED <<now, dbBegin, last_filter_time, origin, pc, windowVars, stop,
                         left, restarts>>
      BY <1>2 DEF Write
    <2>2. NoGap'
      BY <2>1
    <2>3. WindowInv'
      BY <2>1
    <2> QED
      BY <2>2, <2>3
  <1>3. CASE Start
    BY <1>3 DEF Start
  <1>4. CASE Round
    <2>1. UNCHANGED <<envVars, lastingVars, m_lastbackup_time, stop>> /\ pc = "loop"
      BY <1>4 DEF Round
    <2>2. pc' = "sleep" \/ (pc' = "pass" /\ left' = Present)
      <3>1. CASE TooShort(WindowEnd(bfirstrun))
        BY <1>4, <3>1 DEF Round
      <3>2. CASE ~TooShort(WindowEnd(bfirstrun))
        BY <1>4, <3>2 DEF Round
      <3> QED
        BY <3>1, <3>2
    <2>3. \A f \in Files : origin <= mtime[f] => f \in Present
      BY DEF Present, Absent
    <2>4. NoGap'
      BY <2>1
    <2>5. CASE pc' = "sleep"
      BY <2>1, <2>4, <2>5
    <2>6. CASE pc' = "pass" /\ left' = Present
      BY <2>1, <2>3, <2>4, <2>6
    <2> QED
      BY <2>2, <2>5, <2>6
  <1>5. CASE SleepEnds
    BY <1>5 DEF SleepEnds
  <1>6. CASE PassStops
    BY <1>6 DEF PassStops
  <1>7. ASSUME NEW f \in Files, FilterOut(f) PROVE NoGap' /\ WindowInv'
    <2>1. /\ pc = "pass" /\ f \in left /\ stop = FALSE /\ left' = left \ {f}
          /\ UNCHANGED <<envVars, lastingVars, pc, windowVars, stop>>
      BY <1>7 DEF FilterOut
    <2>2. ~(m_lastbackup_time <= mtime[f] /\ mtime[f] < m_end_time)
      BY <1>7 DEF FilterOut, InWindow
    <2>3. ~(origin <= mtime[f] /\ mtime[f] < m_end_time /\ ~Taken(f))
      BY <2>1, <2>2 DEF Absent
    <2>4. NoGap'
      BY <2>1
    <2>5. WindowInv'
      BY <2>1, <2>3
    <2> QED
      BY <2>4, <2>5
  <1>8. ASSUME NEW f \in Files, Copy(f) PROVE NoGap' /\ WindowInv'
    BY <1>8 DEF Copy
  <1>9. ASSUME NEW f \in Files, CopyDiskFull(f) PROVE NoGap' /\ WindowInv'
    BY <1>9 DEF CopyDiskFull, InWindow
  <1>10. CASE OpendirFails
    BY <1>10 DEF OpendirFails
  <1>11. CASE PassEnds
    <2>1. /\ left = {} /\ pc = "pass" /\ pc' = "loop"
          /\ dbBegin' \in {m_lastbackup_time, dbBegin}
          /\ m_lastbackup_time' = m_end_time
          /\ UNCHANGED <<envVars, backedUp, skipped, last_filter_time, origin, stop>>
      BY <1>11 DEF PassEnds, SavedTime, NextBegin
    <2>2. Covered(m_lastbackup_time)
      <3> SUFFICES ASSUME NEW f \in Files, origin <= mtime[f], mtime[f] < m_lastbackup_time,
                          ~Taken(f)
                   PROVE  FALSE
        OBVIOUS
      <3>1. m_lastbackup_time < m_end_time
        BY <2>1
      <3>2. mtime[f] \in Int
        BY DEF Absent
      <3>3. mtime[f] < m_end_time
        BY <3>1, <3>2
      <3>4. f \in left
        BY <2>1, <3>3
      <3> QED
        BY <2>1, <3>4
    <2>3. Covered(m_end_time) \/ stop
      BY <2>1
    <2>4. NoGap'
      BY <2>1, <2>2
    <2>5. WindowInv'
      BY <2>1, <2>3
    <2> QED
      BY <2>4, <2>5
  <1>12. CASE SetSem
    BY <1>12 DEF SetSem
  <1>13. CASE CrashRestart
    BY <1>13 DEF CrashRestart
  <1>14. CASE UNCHANGED vars
    BY <1>14 DEF vars
  <1> QED
    BY <1>1, <1>2, <1>3, <1>4, <1>5, <1>6, <1>7, <1>8, <1>9, <1>10, <1>11, <1>12, <1>13,
       <1>14
       DEF Next, Worker

-----------------------------------------------------------------------------

(* Every variable of the worker stays in its type. *)
THEOREM TypeCorrect == Spec => []TypeOK
  BY TypeInit, TypeStep, PTL DEF Spec

(* Nothing is forgotten but what lay in a folder that could not be opened. *)
THEOREM NothingForgotten == Spec => []NoGap
  <1>1. Init => IInv
    BY TypeInit, GapInit DEF IInv
  <1>2. IInv /\ [Next]_vars => IInv'
    BY TypeStep, GapStep DEF IInv
  <1>3. IInv => NoGap
    BY DEF IInv
  <1> QED
    BY <1>1, <1>2, <1>3, PTL DEF Spec

(* A worker's first round is its first window, and no later round is "first". *)
FirstInv ==
    /\ pc = "loop" /\ bfirstrun => FirstWindow
    /\ pc \in {"sleep", "pass"} => ~bfirstrun

(* Each step keeps what bfirstrun says. *)
LEMMA FirstStep == TypeOK /\ FirstInv /\ [Next]_vars => FirstInv'
  <1> SUFFICES ASSUME TypeOK, FirstInv, [Next]_vars PROVE FirstInv'
    OBVIOUS
  <1> USE DEF FirstInv, FirstWindow, envVars, lastingVars, windowVars
  <1>1. CASE Start
    BY <1>1 DEF Start
  <1>2. CASE Round
    BY <1>2 DEF Round
  <1>3. CASE SleepEnds
    BY <1>3 DEF SleepEnds
  <1>4. CASE PassEnds
    BY <1>4 DEF PassEnds
  <1>5. CASE PassStops \/ CrashRestart
    BY <1>5 DEF PassStops, CrashRestart
  <1>6. CASE \/ \E f \in Files : Write(f) \/ FilterOut(f) \/ Copy(f) \/ CopyDiskFull(f)
             \/ Tick \/ OpendirFails \/ SetSem \/ UNCHANGED vars
    BY <1>6 DEF Write, FilterOut, Copy, CopyDiskFull, Tick, OpendirFails, SetSem, vars
  <1> QED
    BY <1>1, <1>2, <1>3, <1>4, <1>5, <1>6 DEF Next, Worker

(* A window keeps the configured distance from the present, but for a      *)
(* worker's first, which keeps at least FIRSTBACKUPSPACEBEFCURR: for every *)
(* interval, longer or shorter than that. *)
THEOREM WindowKeepsInterval == Spec => []IntervalRespected
  <1>1. Init => IntervalRespected /\ FirstInv
    BY DEF Init, IntervalRespected, FirstInv
  <1>2. TypeOK /\ FirstInv /\ IntervalRespected /\ [Next]_vars => IntervalRespected'
    <2> SUFFICES ASSUME TypeOK, FirstInv, IntervalRespected, [Next]_vars, pc' = "pass"
                 PROVE  \/ m_end_time' <= now' - Interval
                        \/ FirstWindow' /\ m_end_time' <= now' - FirstSpace
      BY DEF IntervalRespected
    <2> USE SpacesAssumption
            DEF TypeOK, IntervalRespected, FirstWindow, envVars, lastingVars, windowVars
    <2>1. CASE Tick
      BY <2>1 DEF Tick
    <2>2. CASE Round
      <3>1. /\ m_end_time' = WindowEnd(bfirstrun) /\ pc = "loop"
            /\ UNCHANGED <<now, m_lastbackup_time, last_filter_time>>
        BY <2>2 DEF Round
      <3>2. \/ WindowEnd(bfirstrun) <= now - Interval
            \/ bfirstrun /\ WindowEnd(bfirstrun) <= now - FirstSpace
        BY DEF WindowEnd, NextEnd, Earliest
      <3> QED
        BY <3>1, <3>2 DEF FirstInv
    <2>3. CASE pc = "pass" /\ UNCHANGED <<now, m_end_time, m_lastbackup_time, last_filter_time>>
      BY <2>3
    <2>4. CASE \/ \E f \in Files : Write(f) \/ FilterOut(f) \/ Copy(f) \/ CopyDiskFull(f)
               \/ OpendirFails \/ SetSem \/ UNCHANGED vars
      BY <2>3, <2>4 DEF Write, FilterOut, Copy, CopyDiskFull, OpendirFails, SetSem, vars
    <2>5. CASE Start \/ SleepEnds \/ PassStops \/ PassEnds \/ CrashRestart
      BY <2>5 DEF Start, SleepEnds, PassStops, PassEnds, CrashRestart
    <2> QED
      BY <2>1, <2>2, <2>4, <2>5 DEF Next, Worker
  <1> QED
    BY <1>1, <1>2, FirstStep, TypeCorrect, PTL DEF Spec

=============================================================================
