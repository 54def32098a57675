--------------------------- MODULE UserInterface ----------------------------
(***************************************************************************)
(* What the user sees of the bricks and does to them: the window of the    *)
(* graphical program (src/backup_ui/backup_main.cpp, brick_group.cpp) or   *)
(* the daemon's status table (deamon.cpp dispose_msg, backup_status.cpp),  *)
(* between the service's promise for each brick (BrickLife) and the        *)
(* messages, which arrive in posting order (MsgChannel).                   *)
(*                                                                         *)
(* The thread that reads the messages is started before the service is     *)
(* configured, and runs beside the main loop in both programs.             *)
(***************************************************************************)
EXTENDS BrickLife, Naturals, Sequences

CONSTANTS MaxCalls      \* bound on what the user asks for

ASSUME MaxCallsAssumption == MaxCalls \in Nat

VARIABLES
    program,            \* "window" or "daemon"
    ipc,                \* control point of its main thread
    configured,         \* bricks in m_pref.m_task
    m_init,             \* CONFIG_COMPLETE was received
    waiting,            \* tasks of each brick that no worker has taken up
    m_stat,             \* the brick's line: "none" yet, "START" or "STOP"
    messages,           \* posted and not received
    calls               \* what the user has asked for so far

screenVars == <<m_init, m_stat>>
interfaceVars == <<lifeVars, program, ipc, configured, waiting, screenVars, messages,
                   calls>>

InterfaceInit ==
    /\ LifeInit
    /\ program \in {"window", "daemon"}
    /\ ipc = "load"
    /\ configured = {}
    /\ m_init = FALSE
    /\ waiting = [b \in Bricks |-> 0]
    /\ m_stat = [b \in Bricks |-> "none"]
    /\ messages = << >>
    /\ calls = 0

(* One more task for each of these bricks.                                 *)
QueueTasks(B) ==
    waiting' = [b \in Bricks |-> IF b \in B THEN waiting[b] + 1 ELSE waiting[b]]

Listed(b) == m_stat[b] # "none"

Message(kind, b) == [kind |-> kind, brick |-> b]
Post(m) == messages' = Append(messages, m)

InterfaceGoto(here, there) == ipc = here /\ ipc' = there

-----------------------------------------------------------------------------
(* Seeded fault: the case of BACKUP_BRICK_STOP is left out.                *)

StopUnknown(m) == IF m.kind = "BACKUP_BRICK" THEN "START" ELSE m_stat[m.brick]

-----------------------------------------------------------------------------
(* The status that a worker's message gives the brick.                     *)
StatusAfter(m) == IF m.kind = "BACKUP_BRICK" THEN "START" ELSE "STOP"

(* login_db, once a brick is in its table.                                 *)
PostConfig(b) == Post(Message("CONFIG", b))

-----------------------------------------------------------------------------
(* The main thread: backup_init, backup_start, the main loop.              *)

Configure(b) ==
    /\ InterfaceGoto("load", "load")
    /\ b \notin configured
    /\ configured' = configured \cup {b}
    /\ PostConfig(b)
    /\ UNCHANGED <<lifeVars, program, waiting, screenVars, calls>>

ConfigureEnds ==
    /\ InterfaceGoto("load", "wait")
    /\ Post(Message("CONFIG_COMPLETE", "none"))
    /\ UNCHANGED <<lifeVars, program, configured, waiting, screenVars, calls>>

(* CONFIG_COMPLETE is posted also when init fails, which ends the program. *)
ConfigureFails ==
    /\ InterfaceGoto("load", "exited")
    /\ Post(Message("CONFIG_COMPLETE", "none"))
    /\ UNCHANGED <<lifeVars, program, configured, waiting, screenVars, calls>>

(* The window waits for CONFIG_COMPLETE, the daemon does not.              *)
StartAll ==
    /\ program = "daemon" \/ m_init
    /\ InterfaceGoto("wait", "loop")
    /\ QueueTasks(configured)
    /\ UNCHANGED <<lifeVars, program, configured, screenVars, messages, calls>>

(* on_button_clicked of a brick: the label tells what a click does.        *)
Click(b) ==
    /\ program = "window"
    /\ ipc = "loop"
    /\ Listed(b)
    /\ calls < MaxCalls
    /\ calls' = calls + 1
    /\ CASE m_stat[b] = "START" -> Tell({b}) /\ UNCHANGED waiting
         [] m_stat[b] = "STOP"  -> QueueTasks({b}) /\ UNCHANGED lifeVars
    /\ UNCHANGED <<program, ipc, configured, screenVars, messages>>

(* A client's command to start a brick, at any time (the daemon's control  *)
(* thread runs from the beginning).                                        *)
ClientStarts(b) ==
    /\ program = "daemon"
    /\ ipc # "exited"
    /\ calls < MaxCalls
    /\ calls' = calls + 1
    /\ QueueTasks({b} \cap configured)
    /\ UNCHANGED <<lifeVars, program, ipc, configured, screenVars, messages>>

(* The window is closed, the daemon is stopped: backup_stop, and the end.  *)
StopService ==
    /\ InterfaceGoto("loop", "stop")
    /\ Tell(Bricks)
    /\ UNCHANGED <<program, configured, waiting, screenVars, messages, calls>>

ServiceStopped ==
    /\ \A b \in Bricks : ~Inside(b)
    /\ InterfaceGoto("stop", "exited")
    /\ waiting' = [b \in Bricks |-> 0]
    /\ UNCHANGED <<lifeVars, program, configured, screenVars, messages, calls>>

-----------------------------------------------------------------------------
(* The service, from backup_start on: a task's worker enters, or reg       *)
(* refuses it because the brick's worker is inside.                        *)

TaskTaken(b) ==
    /\ ipc \in {"loop", "stop"}
    /\ waiting[b] > 0
    /\ waiting' = [waiting EXCEPT ![b] = @ - 1]
    /\ \/ Enter(b)
       \/ Inside(b) /\ UNCHANGED lifeVars
    /\ UNCHANGED <<program, ipc, configured, screenVars, messages, calls>>

(* proc posts what it announces.                                           *)
WorkerStep(b) ==
    /\ \/ ShowStart(b) /\ Post(Message("BACKUP_BRICK", b))
       \/ ShowStop(b) /\ Post(Message("BACKUP_BRICK_STOP", b))
       \/ (GiveUp(b) \/ Leave(b)) /\ UNCHANGED messages
    /\ UNCHANGED <<program, ipc, configured, waiting, screenVars, calls>>

-----------------------------------------------------------------------------
(* dispose_msg                                                             *)

Received(kinds) ==
    /\ ipc # "exited"
    /\ messages # << >>
    /\ Head(messages).kind \in kinds
    /\ messages' = Tail(messages)
    /\ UNCHANGED <<lifeVars, program, ipc, configured, waiting, calls>>

(* What a new line says: a click will start the brick.                     *)
NewLine == "STOP"

(* add_backup, CTR_ADD.                                                    *)
ConfigReceived ==
    /\ Received({"CONFIG"})
    /\ m_stat' = [m_stat EXCEPT ![Head(messages).brick] = NewLine]
    /\ UNCHANGED m_init

ConfigCompleteReceived ==
    /\ Received({"CONFIG_COMPLETE"})
    /\ m_init' = TRUE
    /\ UNCHANGED m_stat

(* change_stat needs the brick's widget; the table makes its own line.     *)
WorkerMessageReceived ==
    /\ Received({"BACKUP_BRICK", "BACKUP_BRICK_STOP"})
    /\ m_stat' = IF program = "daemon" \/ Listed(Head(messages).brick)
                   THEN [m_stat EXCEPT ![Head(messages).brick] =
                             StatusAfter(Head(messages))]
                   ELSE m_stat
    /\ UNCHANGED m_init

Dispose == ConfigReceived \/ ConfigCompleteReceived \/ WorkerMessageReceived

-----------------------------------------------------------------------------

InterfaceNext ==
    \/ \E b \in Bricks : Configure(b)
    \/ ConfigureEnds
    \/ ConfigureFails
    \/ StartAll
    \/ \E b \in Bricks : Click(b) \/ ClientStarts(b)
    \/ StopService
    \/ ServiceStopped
    \/ \E b \in Bricks : TaskTaken(b) \/ WorkerStep(b)
    \/ Dispose

InterfaceSpec == InterfaceInit /\ [][InterfaceNext]_interfaceVars

-----------------------------------------------------------------------------

(* Every variable stays in its type. *)
InterfaceTypeOK ==
    /\ LifeTypeOK
    /\ program \in {"window", "daemon"}
    /\ ipc \in {"load", "wait", "loop", "stop", "exited"}
    /\ configured \subseteq Bricks
    /\ m_init \in BOOLEAN
    /\ waiting \in [Bricks -> Nat]
    /\ m_stat \in [Bricks -> {"none", "START", "STOP"}]
    /\ messages \in Seq([kind : {"CONFIG", "CONFIG_COMPLETE", "BACKUP_BRICK",
                                 "BACKUP_BRICK_STOP"},
                         brick : Bricks \cup {"none"}])
    /\ calls \in 0..MaxCalls

(* The message of a worker always finds the brick listed: no CONFIG comes  *)
(* after it, which would show a running brick as stopped, and the window   *)
(* never drops it for want of a widget.                                    *)
WorkersAreListed ==
    \A i \in 1..Len(messages) :
        messages[i].kind \in {"BACKUP_BRICK", "BACKUP_BRICK_STOP"} =>
            \/ Listed(messages[i].brick)
            \/ \E j \in 1..(i - 1) :
                  messages[j] = Message("CONFIG", messages[i].brick)

(* Once the messages are read, a brick's button or line says "started"     *)
(* exactly while its worker has announced its start and not its stop,      *)
(* although clicks, commands and workers go on while messages are under    *)
(* way, and a brick's next worker may follow the last at once; and until   *)
(* then, no message of a worker comes too early to be shown.               *)
ScreenTrue ==
    /\ messages = << >> =>
           \A b \in Bricks : m_stat[b] = "START" <=> phase[b] = "shown"
    /\ WorkersAreListed

=============================================================================
