------------------------------- MODULE Daemon -------------------------------
(***************************************************************************)
(* The daemon and its clients (src/backup_ui): the main thread             *)
(* (main.cpp), the threads that setdeamon starts before the service is     *)
(* initialized (deamon.cpp: client_ctr obeys commands, client_view prints  *)
(* the status table; the third, dispose_msg, is in UserInterface), the     *)
(* handler of SIGTERM, and backupclient with its commands.                 *)
(*                                                                         *)
(* Client and daemon talk through two FIFOs.  Neither end of the control   *)
(* FIFO marks where a command ends, and both open it and close it for      *)
(* every command.  The FIFO is the system's: opening blocks until there is *)
(* another end, reading without a writer returns nothing, writing without  *)
(* a reader kills, and the text is lost with the last end.                 *)
(*                                                                         *)
(* Of the service the daemon sees the tasks it asked for and the bricks a  *)
(* worker is inside (BrickLife, which BackupService implements, without    *)
(* the messages: those are in UserInterface).  Two threads of the daemon   *)
(* inside the service at once are more than the service can bear           *)
(* (BackupService.AssignsToDormant): the model ends there, and nothing is  *)
(* claimed of what follows.                                                *)
(***************************************************************************)
EXTENDS Naturals, Sequences

CONSTANTS
    Bricks,
    MaxClients,         \* bound on the runs of backupclient with a command
    MaxFds              \* descriptors left to the process for the two FIFOs

ASSUME DaemonBounds == MaxClients \in Nat /\ MaxFds \in Nat

Clients == 1..MaxClients        \* in the order in which they start

Commands ==
    [op : {"start", "stop"}, brick : Bricks] \cup [op : {"exit"}]

NoCommand == [op |-> "none"]

VARIABLES
    (* main and the handler that interrupts it *)
    mpc,
    hpc,
    running,            \* _running
    loaded,             \* bricks in m_pref.m_task
    (* the service *)
    asked,              \* bricks with tasks that no worker has taken up
    working,            \* bricks that a worker is inside
    told,               \* those whose worker was told to stop
    pool,               \* its threads: "none" yet, "alive", or "ended"
    tangled,            \* two threads were inside the service at once
    (* the control thread *)
    cpc,
    r_buf,              \* whose commands it read, in order
    (* the control FIFO and its clients *)
    pipe,               \* whose commands are in it
    client,             \* control point of each client
    cmd,                \* the command of each client
    (* client_view and the viewers *)
    vpc,
    viewer,             \* a client lists the table, or waits for it
    leaked,             \* descriptors client_view has not closed
    (* history *)
    obeyed              \* clients whose command was obeyed

mainVars == <<mpc, hpc, running, loaded>>
svcVars == <<asked, working, told, pool, tangled>>
ctrVars == <<cpc, r_buf, obeyed>>
fifoVars == <<pipe, client, cmd>>
viewVars == <<vpc, viewer, leaked>>
daemonVars == <<mainVars, svcVars, ctrVars, fifoVars, viewVars>>

(* setdeamon has started the threads, nothing is configured.               *)
DaemonInit ==
    /\ mpc = "load"
    /\ hpc = "none"
    /\ running = TRUE
    /\ loaded = {}
    /\ asked = {}
    /\ working = {}
    /\ told = {}
    /\ pool = "none"
    /\ tangled = FALSE
    /\ cpc = "open"
    /\ r_buf = << >>
    /\ pipe = << >>
    /\ client = [c \in Clients |-> "new"]
    /\ cmd = [c \in Clients |-> NoCommand]
    /\ vpc = "open"
    /\ viewer = FALSE
    /\ leaked = 0
    /\ obeyed = {}

-----------------------------------------------------------------------------

Alive == mpc \notin {"exited", "killed"} /\ ~tangled

(* Who is inside the service.                                              *)
MainInside == mpc \in {"start", "destroy"}
HandlerInside == hpc = "joining"
CtrInside == cpc \in {"start", "joining"}

(* The ends of the control FIFO; a process waiting in open has one.        *)
Reader == cpc \notin {"open", "done"}
Writers == {c \in Clients : client[c] \in {"open", "written"}}

MainGoto(here, there) ==
    /\ ~HandlerInside
    /\ mpc = here
    /\ mpc' = there

CtrGoto(here, there) == cpc = here /\ cpc' = there

ClientGoto(c, here, there) ==
    /\ client[c] = here
    /\ client' = [client EXCEPT ![c] = there]

(* A text that one command stands in alone.                                *)
Alone(text) == Len(text) = 1

(* strctl.size() > 2: "9:" is not, unless another command follows it.      *)
LongEnough(text) == text # << >> /\ (~Alone(text) \/ cmd[text[1]].op # "exit")

-----------------------------------------------------------------------------
(* Seeded faults.                                                          *)

KeepsBuffer(text) == IF text = << >> THEN r_buf ELSE text
OnlyLong(text) == text # << >> /\ ~Alone(text)
KeepsRunning == running

-----------------------------------------------------------------------------
(* What the r_buf that was cleared holds after a read of the text.         *)
ReadInto(text) == text

(* The commands that the switch on the first character sees.               *)
Seen(text) == LongEnough(text)

(* open finds a free descriptor.                                           *)
FdFree == leaked < MaxFds

(* Every thread of the pool has been joined.                               *)
Joined == working = {}

(* What follows backup_stop in the handler and in client_ctr.              *)
RunningAfterStop == FALSE

-----------------------------------------------------------------------------
(* The service: tasks and workers                                          *)

(* How many tasks of a brick wait is left open.                            *)
TaskEnters(b) ==
    /\ pool = "alive"
    /\ b \in asked \ working
    /\ working' = working \cup {b}
    /\ asked' \in {asked, asked \ {b}}
    /\ UNCHANGED <<mainVars, told, pool, tangled, ctrVars, fifoVars, viewVars>>

(* reg refuses a second worker; the task is over.                          *)
TaskRefused(b) ==
    /\ pool = "alive"
    /\ b \in asked \cap working
    /\ asked' = asked \ {b}
    /\ UNCHANGED <<mainVars, working, told, pool, tangled, ctrVars, fifoVars,
                   viewVars>>

(* A worker ends: it was told to stop, or finds its disks full.            *)
WorkerLeaves(b) ==
    /\ b \in working
    /\ working' = working \ {b}
    /\ told' = told \ {b}
    /\ UNCHANGED <<mainVars, asked, pool, tangled, ctrVars, fifoVars, viewVars>>

(* backup_stop up to the joins, and when they are done: the workers are    *)
(* gone, what is left in the queue is deleted.                             *)
StopBegins(overlap) ==
    /\ told' = working
    /\ tangled' = (tangled \/ overlap)
    /\ UNCHANGED <<asked, working, pool>>

StopReturns ==
    /\ Joined
    /\ asked' = {}
    /\ pool' = IF pool = "alive" THEN "ended" ELSE pool
    /\ UNCHANGED <<working, told, tangled>>

-----------------------------------------------------------------------------
(* main()                                                                  *)

(* backup_init: login_db puts a brick into the table and posts CONFIG.     *)
LoadBrick(b) ==
    /\ MainGoto("load", "load")
    /\ b \notin loaded
    /\ loaded' = loaded \cup {b}
    /\ UNCHANGED <<hpc, running, svcVars, ctrVars, fifoVars, viewVars>>

(* backup_init is over, well or with an error that ends main().            *)
Loaded ==
    /\ MainGoto("load", "start")
    /\ tangled' = (tangled \/ CtrInside)
    /\ UNCHANGED <<hpc, running, loaded, asked, working, told, pool, ctrVars,
                   fifoVars, viewVars>>

BackupInitFails ==
    /\ MainGoto("load", "destroy")
    /\ tangled' = (tangled \/ CtrInside)
    /\ UNCHANGED <<hpc, running, loaded, asked, working, told, pool, ctrVars,
                   fifoVars, viewVars>>

(* backup_start: the threads, one task for each brick.                     *)
Start ==
    /\ MainGoto("start", "loop")
    /\ pool' = "alive"
    /\ asked' = asked \cup loaded
    /\ UNCHANGED <<hpc, running, loaded, working, told, tangled, ctrVars,
                   fifoVars, viewVars>>

(* main() returns, and exit destroys the pool, which joins its threads     *)
(* without a signal to the workers.                                        *)
LoopEnds ==
    /\ ~running
    /\ MainGoto("loop", "destroy")
    /\ tangled' = (tangled \/ CtrInside)
    /\ UNCHANGED <<hpc, running, loaded, asked, working, told, pool, ctrVars,
                   fifoVars, viewVars>>

Exit ==
    /\ MainGoto("destroy", "exited")
    /\ StopReturns
    /\ UNCHANGED <<hpc, running, loaded, ctrVars, fifoVars, viewVars>>

(* sigterm_handler, on the main thread.                                    *)
SigTerm ==
    /\ hpc = "none"
    /\ hpc' = "joining"
    /\ StopBegins(CtrInside \/ MainInside)
    /\ UNCHANGED <<mpc, running, loaded, ctrVars, fifoVars, viewVars>>

SigTermReturns ==
    /\ hpc = "joining"
    /\ hpc' = "done"
    /\ StopReturns
    /\ running' = RunningAfterStop
    /\ UNCHANGED <<mpc, loaded, ctrVars, fifoVars, viewVars>>

Main ==
    \/ \E b \in Bricks : LoadBrick(b)
    \/ Loaded
    \/ BackupInitFails
    \/ Start
    \/ LoopEnds
    \/ Exit
    \/ SigTermReturns

-----------------------------------------------------------------------------
(* client_ctr                                                              *)

(* open, which blocks unless a client has the FIFO open.  It fails without *)
(* a free descriptor; that and the read that fails then are tried again.   *)
CtrOpen ==
    /\ running
    /\ FdFree
    /\ CtrGoto("open", IF Writers = {} THEN "opening" ELSE "read")
    /\ UNCHANGED <<mainVars, svcVars, r_buf, obeyed, fifoVars, viewVars>>

(* The read, of all there is, or of nothing when no client has the FIFO    *)
(* open, and the switch on the first character.                            *)
CtrReads(there) ==
    /\ pipe # << >> \/ Writers = {}
    /\ CtrGoto("read", there)
    /\ r_buf' = ReadInto(pipe)
    /\ pipe' = << >>
    /\ UNCHANGED <<mainVars, working, told, pool, client, cmd, viewVars>>

CtrIgnores ==
    /\ CtrReads("close")
    /\ ~Seen(r_buf')
    /\ UNCHANGED <<asked, tangled, obeyed>>

(* '0': the rest of the text is a brick's id, or unknown to start_by_brick *)
(* when it is more than one command.                                       *)
CtrStartsBrick ==
    /\ CtrReads("start")
    /\ Seen(r_buf')
    /\ cmd[r_buf'[1]].op = "start"
    /\ asked' = IF Alone(r_buf')
                  THEN asked \cup ({cmd[r_buf'[1]].brick} \cap loaded)
                  ELSE asked
    /\ tangled' = (tangled \/ mpc = "load" \/ MainInside \/ HandlerInside)
    /\ obeyed' = obeyed \cup {r_buf'[1]}

CtrStarted ==
    /\ CtrGoto("start", "close")
    /\ UNCHANGED <<mainVars, svcVars, r_buf, obeyed, fifoVars, viewVars>>

(* '1' and '9': a case without break falls into the next, so that the stop *)
(* of a brick is followed by the stop of the service.                      *)
CtrStops ==
    /\ pipe # << >> \/ Writers = {}
    /\ CtrGoto("read", "joining")
    /\ r_buf' = ReadInto(pipe)
    /\ pipe' = << >>
    /\ Seen(r_buf')
    /\ cmd[r_buf'[1]].op \in {"stop", "exit"}
    /\ StopBegins(MainInside \/ HandlerInside)
    /\ obeyed' = obeyed \cup {r_buf'[1]}
    /\ UNCHANGED <<mainVars, client, cmd, viewVars>>

CtrStopReturns ==
    /\ CtrGoto("joining", "close")
    /\ StopReturns
    /\ running' = RunningAfterStop
    /\ UNCHANGED <<mpc, hpc, loaded, r_buf, obeyed, fifoVars, viewVars>>

(* close: text that was written since the read is lost with the last end.  *)
CtrClose ==
    /\ CtrGoto("close", IF running THEN "open" ELSE "done")
    /\ pipe' = IF Writers = {} THEN << >> ELSE pipe
    /\ UNCHANGED <<mainVars, svcVars, r_buf, obeyed, client, cmd, viewVars>>

Ctr ==
    \/ CtrOpen
    \/ CtrIgnores
    \/ CtrStartsBrick
    \/ CtrStarted
    \/ CtrStops
    \/ CtrStopReturns
    \/ CtrClose

-----------------------------------------------------------------------------
(* backupclient --start, --stop, --stopbackup                              *)

ClientComes(c) ==
    /\ ClientGoto(c, "new", "wants")
    /\ \A d \in Clients : d < c => client[d] # "new"
    /\ \E m \in Commands : cmd' = [cmd EXCEPT ![c] = m]
    /\ UNCHANGED <<mainVars, svcVars, ctrVars, pipe, viewVars>>

(* open returns when the daemon has the FIFO open, or waits in its open,   *)
(* which returns with this.                                                *)
ClientOpens(c) ==
    /\ Reader
    /\ ClientGoto(c, "wants", "open")
    /\ cpc' = IF cpc = "opening" THEN "read" ELSE cpc
    /\ UNCHANGED <<mainVars, svcVars, r_buf, obeyed, pipe, cmd, viewVars>>

ClientWrites(c) ==
    /\ Reader
    /\ ClientGoto(c, "open", "written")
    /\ pipe' = Append(pipe, c)
    /\ UNCHANGED <<mainVars, svcVars, ctrVars, cmd, viewVars>>

(* The client exits, is interrupted, or is killed by its write.            *)
ClientEnds(c) ==
    /\ \/ ClientGoto(c, "written", "gone")
       \/ ClientGoto(c, "open", "gone")
       \/ ClientGoto(c, "wants", "gone")
    /\ pipe' = IF Reader \/ Writers \ {c} # {} THEN pipe ELSE << >>
    /\ UNCHANGED <<mainVars, svcVars, ctrVars, cmd, viewVars>>

-----------------------------------------------------------------------------
(* client_view and backupclient --list                                     *)

(* list_backup_status opens the FIFO and reads.  Only its user ends it:    *)
(* the descriptors that client_view never closes let it wait for more.     *)
ListComes ==
    /\ ~viewer
    /\ viewer' = TRUE
    /\ UNCHANGED <<mainVars, svcVars, ctrVars, fifoVars, vpc, leaked>>

ListEnds ==
    /\ viewer
    /\ viewer' = FALSE
    /\ UNCHANGED <<mainVars, svcVars, ctrVars, fifoVars, vpc, leaked>>

(* open for writing returns when there is a client that reads.             *)
ViewOpen ==
    /\ running
    /\ vpc = "open"
    /\ FdFree
    /\ viewer
    /\ vpc' = "write"
    /\ leaked' = leaked + 1
    /\ UNCHANGED <<mainVars, svcVars, ctrVars, fifoVars, viewer>>

(* The table is written; or the reader is gone, and SIGPIPE ends the       *)
(* daemon.                                                                 *)
ViewWrite ==
    /\ vpc = "write"
    /\ vpc' = "open"
    /\ mpc' = IF viewer THEN mpc ELSE "killed"
    /\ UNCHANGED <<hpc, running, loaded, svcVars, ctrVars, fifoVars, viewer, leaked>>

-----------------------------------------------------------------------------

Client(c) == ClientOpens(c) \/ ClientWrites(c)

Service(b) == TaskEnters(b) \/ TaskRefused(b) \/ WorkerLeaves(b)

(* The model ends with the daemon.                                         *)
DaemonNext ==
    /\ Alive
    /\ \/ \E b \in Bricks : Service(b)
       \/ Main
       \/ SigTerm
       \/ Ctr
       \/ \E c \in Clients : ClientComes(c) \/ Client(c) \/ ClientEnds(c)
       \/ ListComes \/ ListEnds
       \/ ViewOpen
       \/ ViewWrite

DaemonSpec == DaemonInit /\ [][DaemonNext]_daemonVars

(* The daemon's threads and a client that has started are scheduled; a     *)
(* worker that was told to stop does.                                      *)
DaemonFairness ==
    /\ WF_daemonVars(Alive /\ Main)
    /\ WF_daemonVars(Alive /\ Ctr)
    /\ \A c \in Clients : WF_daemonVars(Alive /\ Client(c))
    /\ \A b \in Bricks : WF_daemonVars(Alive /\ b \in told /\ WorkerLeaves(b))

FairDaemonSpec == DaemonSpec /\ DaemonFairness

-----------------------------------------------------------------------------

(* Every variable stays in its type. *)
DaemonTypeOK ==
    /\ mpc \in {"load", "start", "loop", "destroy", "exited", "killed"}
    /\ hpc \in {"none", "joining", "done"}
    /\ running \in BOOLEAN
    /\ loaded \subseteq Bricks
    /\ asked \subseteq Bricks
    /\ working \subseteq Bricks
    /\ told \subseteq Bricks
    /\ pool \in {"none", "alive", "ended"}
    /\ tangled \in BOOLEAN
    /\ cpc \in {"open", "opening", "read", "start", "joining", "close", "done"}
    /\ r_buf \in Seq(Clients)
    /\ pipe \in Seq(Clients)
    /\ client \in [Clients -> {"new", "wants", "open", "written", "gone"}]
    /\ cmd \in [Clients -> Commands \cup {NoCommand}]
    /\ vpc \in {"open", "write"}
    /\ viewer \in BOOLEAN
    /\ leaked \in 0..MaxFds
    /\ obeyed \subseteq Clients

(* No command is obeyed twice: a client that still holds the FIFO open     *)
(* after its command was obeyed lets the daemon open it again and read     *)
(* nothing, and the old text must not be taken for a new command.          *)
ObeyedOnce ==
    [][CtrStartsBrick \/ CtrStops => r_buf'[1] \notin obeyed]_daemonVars

(* A command to start or stop a brick is obeyed when its client is the     *)
(* only one and the daemon is waiting for one, unless the user interrupts  *)
(* the client, the daemon ends, or its descriptors run out.                *)
LoneCommandObeyed ==
    \A c \in Clients :
        /\ client[c] = "wants"
        /\ cmd[c].op # "exit"
        /\ cpc \in {"open", "opening"}
        /\ \A d \in Clients \ {c} : client[d] = "gone"
      ~> \/ c \in obeyed
         \/ client[c] = "gone"
         \/ ~running \/ ~Alive
         \/ leaked = MaxFds

(* Once the service was told to stop, by SIGTERM or by a client, the       *)
(* daemon ends, unless a worker enters that nobody told, or two threads    *)
(* are inside the service.                                                 *)
StopEndsDaemon ==
    HandlerInside \/ cpc = "joining"
      ~> \/ ~Alive
         \/ ~(working \subseteq told)

(* The service is stopped by the command that the client's help names for  *)
(* it, and not by another.                                                 *)
OnlyExitStops == cpc = "joining" => cmd[r_buf[1]].op = "exit"

=============================================================================
