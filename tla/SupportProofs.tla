----------------------------- MODULE SupportProofs -----------------------------
(***************************************************************************)
(* Theorems about what supports the service, for every value of the        *)
(* constants: the window and the table of the daemon (UserInterface), and  *)
(* the parts that read and write text: the configuration file (DbConfig),  *)
(* the texts that query variables are formatted into and read from         *)
(* (SqlVar), the listing of the devices (SysInfo), the command line        *)
(* (ArgParser) and the sources that the release program goes over          *)
(* (FormatSource).                                                         *)
(*                                                                         *)
(* What these parts do to a text is a fold over its pieces.  The community *)
(* modules define a fold through a function on the sets of positions; the  *)
(* section on folds shows that such a function exists and turns a fold     *)
(* into a sequence of results, one for each position, over which the       *)
(* sections behind it go by induction.                                     *)
(***************************************************************************)
EXTENDS UserInterface, DbConfig, SqlVar, SysInfo, ArgParser, FormatSource,
        FiniteSetTheorems, SequenceTheorems, WellFoundedInduction, TLAPS

-----------------------------------------------------------------------------
(* The window and the table of the daemon show the truth (UserInterface),  *)
(* for any number of bricks and requests, with any number of messages      *)
(* under way.                                                              *)

MessageKinds == {"CONFIG", "CONFIG_COMPLETE", "BACKUP_BRICK", "BACKUP_BRICK_STOP"}
MessageSet == [kind : MessageKinds, brick : Bricks \cup {"none"}]

(* The i-th message under way is a worker's, of brick b.                   *)
WorkerSays(i, b) ==
    /\ messages[i].kind \in {"BACKUP_BRICK", "BACKUP_BRICK_STOP"}
    /\ messages[i].brick = b

(* The i-th message under way puts brick b on the screen.                  *)
ListsBrick(i, b) == messages[i] = Message("CONFIG", b)

Under == 1..Len(messages)

(* No worker before the service is started.                                *)
LoadInv ==
    ipc \in {"load", "wait"} =>
        /\ \A b \in Bricks : phase[b] = "idle"
        /\ \A i \in Under : messages[i].kind \in {"CONFIG", "CONFIG_COMPLETE"}

(* Bricks that have tasks, workers, messages or a line are configured, and *)
(* a configured brick has a line or will get it.                           *)
ConfiguredInv ==
    /\ \A b \in Bricks :
          waiting[b] > 0 \/ Inside(b) \/ Listed(b) => b \in configured
    /\ \A i \in Under : messages[i].kind # "CONFIG_COMPLETE" =>
                            messages[i].brick \in configured
    /\ \A b \in configured : Listed(b) \/ \E i \in Under : ListsBrick(i, b)

(* A brick's CONFIG is before all that its workers say.                    *)
OrderInv ==
    \A b \in Bricks : \A i, j \in Under :
        WorkerSays(i, b) /\ ListsBrick(j, b) => j < i

(* The last that a brick's workers have said, which may be under way, or   *)
(* on the screen, or may not have been said yet, is the brick's phase.     *)
LatestInv ==
    \A b \in Bricks :
        /\ \A i \in Under :
              WorkerSays(i, b) /\ (\A j \in Under : WorkerSays(j, b) => j <= i) =>
                  (messages[i].kind = "BACKUP_BRICK" <=> phase[b] = "shown")
        /\ (\A i \in Under : ~WorkerSays(i, b)) =>
              /\ m_stat[b] = "START" <=> phase[b] = "shown"
              /\ (\E i \in Under : ListsBrick(i, b)) => phase[b] # "shown"

ScreenInv ==
    InterfaceTypeOK /\ LoadInv /\ ConfiguredInv /\ WorkersAreListed /\ OrderInv /\ LatestInv
-----------------------------------------------------------------------------

(* A posted message comes last.                                            *)
LEMMA Posted ==
    ASSUME InterfaceTypeOK, NEW m \in MessageSet, Post(m)
    PROVE  /\ messages' \in Seq(MessageSet)
           /\ Len(messages) \in Nat
           /\ Len(messages') = Len(messages) + 1
           /\ \A i \in Under : messages'[i] = messages[i]
           /\ messages'[Len(messages')] = m
  <1>1. messages \in Seq(MessageSet)
    BY DEF InterfaceTypeOK, MessageSet, MessageKinds
  <1> QED
    BY <1>1, AppendProperties DEF Post, Under

(* A received message was the first; the others move up.                   *)
LEMMA Fetched ==
    ASSUME InterfaceTypeOK, NEW kinds, Received(kinds)
    PROVE  /\ Head(messages) = messages[1]
           /\ Head(messages) \in MessageSet
           /\ Head(messages).kind \in kinds
           /\ messages' \in Seq(MessageSet)
           /\ Len(messages) \in Nat \ {0}
           /\ Len(messages') = Len(messages) - 1
           /\ \A i \in 1..Len(messages') : messages'[i] = messages[i + 1]
  <1>1. messages \in Seq(MessageSet) /\ messages # << >>
    BY DEF InterfaceTypeOK, MessageSet, MessageKinds, Received
  <1>2. /\ Head(messages) \in MessageSet
        /\ messages' \in Seq(MessageSet)
        /\ Len(messages') = Len(messages) - 1
        /\ \A i \in 1..Len(messages') : messages'[i] = messages[i + 1]
    BY <1>1, HeadTailProperties DEF Received
  <1>3. Len(messages) \in Nat \ {0}
    BY <1>1, EmptySeq
  <1> QED
    BY <1>1, <1>2, <1>3 DEF Received

(* Nothing is under way at the start, and every brick is idle.             *)
LEMMA ScreenStarts == InterfaceInit => ScreenInv
  <1> SUFFICES ASSUME InterfaceInit PROVE ScreenInv
    OBVIOUS
  <1>1. messages = << >> /\ Len(messages) = 0 /\ Under = {}
    BY DEF InterfaceInit, Under
  <1>2. InterfaceTypeOK
    <2>1. messages \in Seq([kind : {"CONFIG", "CONFIG_COMPLETE", "BACKUP_BRICK",
                                   "BACKUP_BRICK_STOP"}, brick : Bricks \cup {"none"}])
      BY <1>1
    <2>2. LifeTypeOK /\ m_init \in BOOLEAN
      BY DEF InterfaceInit, LifeInit, LifeTypeOK, Phases
    <2>3. calls \in 0..MaxCalls
      BY MaxCallsAssumption DEF InterfaceInit
    <2> QED
      BY <2>1, <2>2, <2>3 DEF InterfaceTypeOK, InterfaceInit
  <1>3. \A b \in Bricks : phase[b] = "idle" /\ waiting[b] = 0 /\ m_stat[b] = "none"
    BY DEF InterfaceInit, LifeInit
  <1>4. configured = {}
    BY DEF InterfaceInit
  <1> QED
    BY <1>1, <1>2, <1>3, <1>4
    DEF ScreenInv, LoadInv, ConfiguredInv, WorkersAreListed, OrderInv, LatestInv, Inside, Listed

-----------------------------------------------------------------------------

(* The types are kept by every step.                                       *)
LEMMA InterfaceTypeStep ==
    ASSUME InterfaceTypeOK, [InterfaceNext]_interfaceVars
    PROVE  InterfaceTypeOK'
  <1>0. MaxCalls \in Nat
    BY MaxCallsAssumption
  <1>T. ASSUME LifeTypeOK', program' \in {"window", "daemon"},
               ipc' \in {"load", "wait", "loop", "stop", "exited"},
               configured' \subseteq Bricks, m_init' \in BOOLEAN,
               waiting' \in [Bricks -> Nat], m_stat' \in [Bricks -> {"none", "START", "STOP"}],
               messages' \in Seq(MessageSet), calls' \in 0..MaxCalls
        PROVE  InterfaceTypeOK'
    BY <1>T DEF InterfaceTypeOK, MessageSet, MessageKinds
  <1>M. messages \in Seq(MessageSet)
    BY DEF InterfaceTypeOK, MessageSet, MessageKinds
  <1>U. \A B : QueueTasks(B) => waiting' \in [Bricks -> Nat]
    BY DEF QueueTasks, InterfaceTypeOK
  <1>K. \A b \in Bricks : /\ Message("CONFIG", b) \in MessageSet
                         /\ Message("BACKUP_BRICK", b) \in MessageSet
                         /\ Message("BACKUP_BRICK_STOP", b) \in MessageSet
    BY DEF Message, MessageSet, MessageKinds
  <1>1. ASSUME NEW b \in Bricks, Configure(b) PROVE InterfaceTypeOK'
    BY <1>1, <1>T, <1>K, Posted
    DEF Configure, PostConfig, InterfaceGoto, lifeVars, screenVars, InterfaceTypeOK, LifeTypeOK
  <1>2. CASE ConfigureEnds \/ ConfigureFails
    <2>1. Message("CONFIG_COMPLETE", "none") \in MessageSet
      BY DEF Message, MessageSet, MessageKinds
    <2> QED
      BY <1>2, <1>T, <2>1, Posted
      DEF ConfigureEnds, ConfigureFails, InterfaceGoto, lifeVars, screenVars, InterfaceTypeOK,
          LifeTypeOK
  <1>3. CASE StartAll
    BY <1>3, <1>M, <1>U, <1>T
    DEF StartAll, InterfaceGoto, lifeVars, screenVars, InterfaceTypeOK, LifeTypeOK
  <1>4. ASSUME NEW b \in Bricks, Click(b) PROVE InterfaceTypeOK'
    <2>1. m_stat[b] \in {"START", "STOP"}
      BY <1>4 DEF Click, Listed, InterfaceTypeOK
    <2>2. calls' \in 0..MaxCalls
      BY <1>4, <1>0 DEF Click, InterfaceTypeOK
    <2>3. LifeTypeOK' /\ waiting' \in [Bricks -> Nat]
      BY <1>4, <2>1, <1>U DEF Click, Tell, lifeVars, InterfaceTypeOK, LifeTypeOK
    <2> QED
      BY <1>4, <2>2, <2>3, <1>T, <1>M DEF Click, screenVars, InterfaceTypeOK
  <1>5. ASSUME NEW b \in Bricks, ClientStarts(b) PROVE InterfaceTypeOK'
    BY <1>5, <1>0, <1>M, <1>U, <1>T
    DEF ClientStarts, lifeVars, screenVars, InterfaceTypeOK, LifeTypeOK
  <1>6. CASE StopService \/ ServiceStopped
    BY <1>6, <1>M, <1>T
    DEF StopService, ServiceStopped, Tell, InterfaceGoto, lifeVars, screenVars, InterfaceTypeOK,
        LifeTypeOK
  <1>7. ASSUME NEW b \in Bricks, TaskTaken(b) PROVE InterfaceTypeOK'
    <2>1. waiting' \in [Bricks -> Nat]
      BY <1>7 DEF TaskTaken, InterfaceTypeOK
    <2>2. LifeTypeOK'
      BY <1>7 DEF TaskTaken, Enter, Become, lifeVars, InterfaceTypeOK, LifeTypeOK, Phases
    <2> QED
      BY <1>7, <2>1, <2>2, <1>M, <1>T DEF TaskTaken, screenVars, InterfaceTypeOK
  <1>8. ASSUME NEW b \in Bricks, WorkerStep(b) PROVE InterfaceTypeOK'
    <2>1. messages' \in Seq(MessageSet)
      BY <1>8, <1>M, <1>K, Posted DEF WorkerStep
    <2>2. LifeTypeOK'
      BY <1>8
      DEF WorkerStep, ShowStart, ShowStop, GiveUp, Leave, Become,
          InterfaceTypeOK, LifeTypeOK, Phases
    <2> QED
      BY <1>8, <2>1, <2>2, <1>T DEF WorkerStep, screenVars, InterfaceTypeOK
  <1>9. CASE Dispose
    <2>1. \A kinds : Received(kinds) => messages' \in Seq(MessageSet)
      BY Fetched
    <2>2. m_stat' \in [Bricks -> {"none", "START", "STOP"}] /\ m_init' \in BOOLEAN
      BY <1>9
      DEF Dispose, ConfigReceived, ConfigCompleteReceived, WorkerMessageReceived, StatusAfter,
          NewLine, InterfaceTypeOK
    <2> QED
      BY <1>9, <2>1, <2>2, <1>T
      DEF Dispose, ConfigReceived, ConfigCompleteReceived, WorkerMessageReceived, Received,
          lifeVars, InterfaceTypeOK, LifeTypeOK
  <1>10. CASE UNCHANGED interfaceVars
    BY <1>10, <1>M, <1>T DEF interfaceVars, lifeVars, screenVars, InterfaceTypeOK, LifeTypeOK
  <1> QED
    BY <1>1, <1>2, <1>3, <1>4, <1>5, <1>6, <1>7, <1>8, <1>9, <1>10 DEF InterfaceNext

-----------------------------------------------------------------------------

(* A step without messages that shows and configures nothing.              *)
LEMMA SilentStep ==
    ASSUME ScreenInv, InterfaceTypeOK', UNCHANGED <<messages, m_stat, configured>>,
           \A b \in Bricks : phase'[b] = "shown" <=> phase[b] = "shown",
           \A b \in Bricks : waiting'[b] > 0 \/ phase'[b] # "idle" => b \in configured,
           ipc' \in {"load", "wait"} =>
               ipc \in {"load", "wait"} /\ \A b \in Bricks : phase'[b] = "idle"
    PROVE  ScreenInv'
  <1>1. LoadInv'
    BY DEF ScreenInv, LoadInv, Under
  <1>2. ConfiguredInv'
    BY DEF ScreenInv, ConfiguredInv, Inside, Listed, Under, ListsBrick
  <1>3. WorkersAreListed' /\ OrderInv'
    BY DEF ScreenInv, WorkersAreListed, OrderInv, Listed, Under, WorkerSays, ListsBrick
  <1>4. LatestInv'
    BY DEF ScreenInv, LatestInv, Under, WorkerSays, ListsBrick
  <1> QED
    BY <1>1, <1>2, <1>3, <1>4 DEF ScreenInv

(* A posted CONFIG is of a brick that no worker has spoken of.             *)
LEMMA ConfigPosted ==
    ASSUME ScreenInv, InterfaceTypeOK', NEW b \in Bricks, Configure(b)
    PROVE  ScreenInv'
  <1>0. /\ ipc = "load" /\ ipc' = "load" /\ configured' = configured \cup {b}
        /\ Post(Message("CONFIG", b))
        /\ UNCHANGED <<phase, waiting, m_stat>>
    BY DEF Configure, InterfaceGoto, PostConfig, lifeVars, screenVars
  <1>1. PICK m \in MessageSet : m = Message("CONFIG", b)
    BY DEF Message, MessageSet, MessageKinds
  <1>2. m.kind = "CONFIG" /\ m.brick = b
    BY <1>1 DEF Message
  <1>3. PICK n \in Nat : n = Len(messages)
    BY <1>0, <1>1, Posted DEF ScreenInv
  <1>4. Len(messages') = n + 1
    BY <1>0, <1>1, <1>3, Posted DEF ScreenInv
  <1>5. (\A i \in 1..n : messages'[i] = messages[i]) /\ messages'[n + 1] = m
    BY <1>0, <1>1, <1>3, Posted DEF ScreenInv, Under
  <1>6. LoadInv'
    BY <1>0, <1>2, <1>3, <1>4, <1>5 DEF ScreenInv, LoadInv, Under
  <1>7. ConfiguredInv'
    <2>1. \A c \in Bricks : waiting'[c] > 0 \/ Inside(c)' \/ Listed(c)' => c \in configured'
      BY <1>0 DEF ScreenInv, ConfiguredInv, Inside, Listed
    <2>2. \A i \in Under' : messages'[i].kind # "CONFIG_COMPLETE" =>
                                 messages'[i].brick \in configured'
      BY <1>0, <1>2, <1>3, <1>4, <1>5 DEF ScreenInv, ConfiguredInv, Under
    <2>3. ASSUME NEW c \in configured' PROVE Listed(c)' \/ \E i \in Under' : ListsBrick(i, c)'
      <3>1. CASE c = b
        BY <1>1, <1>3, <1>4, <1>5, <3>1 DEF Under, ListsBrick
      <3>2. CASE c \in configured
        BY <1>0, <1>3, <1>4, <1>5, <3>2 DEF ScreenInv, ConfiguredInv, Listed, Under, ListsBrick
      <3> QED
        BY <1>0, <2>3, <3>1, <3>2
    <2> QED
      BY <2>1, <2>2, <2>3 DEF ConfiguredInv
  <1>8. \A i \in 1..(n + 1) : messages'[i].kind \notin {"BACKUP_BRICK", "BACKUP_BRICK_STOP"}
    BY <1>0, <1>2, <1>3, <1>5 DEF ScreenInv, LoadInv, Under
  <1>9. WorkersAreListed' /\ OrderInv'
    BY <1>4, <1>8 DEF WorkersAreListed, OrderInv, Under, WorkerSays
  <1>10. LatestInv'
    <2>1. \A c \in Bricks : phase[c] # "shown" /\ m_stat[c] # "START"
      <3>1. \A c \in Bricks, i \in Under : ~WorkerSays(i, c)
        BY <1>0 DEF ScreenInv, LoadInv, WorkerSays
      <3> QED
        BY <1>0, <3>1 DEF ScreenInv, LatestInv, LoadInv
    <2> QED
      BY <1>0, <1>4, <1>8, <2>1 DEF LatestInv, Under, WorkerSays
  <1> QED
    BY <1>6, <1>7, <1>9, <1>10 DEF ScreenInv

(* CONFIG_COMPLETE says nothing of a brick.                                *)
LEMMA CompletePosted ==
    ASSUME ScreenInv, InterfaceTypeOK', ConfigureEnds \/ ConfigureFails
    PROVE  ScreenInv'
  <1>0. /\ ipc = "load" /\ Post(Message("CONFIG_COMPLETE", "none"))
        /\ UNCHANGED <<phase, waiting, m_stat, configured>>
    BY DEF ConfigureEnds, ConfigureFails, InterfaceGoto, lifeVars, screenVars
  <1>1. PICK m \in MessageSet : m = Message("CONFIG_COMPLETE", "none")
    BY DEF Message, MessageSet, MessageKinds
  <1>2. m.kind = "CONFIG_COMPLETE"
    BY <1>1 DEF Message
  <1>3. PICK n \in Nat : n = Len(messages)
    BY <1>0, <1>1, Posted DEF ScreenInv
  <1>4. Len(messages') = n + 1
    BY <1>0, <1>1, <1>3, Posted DEF ScreenInv
  <1>5. (\A i \in 1..n : messages'[i] = messages[i]) /\ messages'[n + 1] = m
    BY <1>0, <1>1, <1>3, Posted DEF ScreenInv, Under
  <1>6. LoadInv'
    BY <1>0, <1>2, <1>3, <1>4, <1>5 DEF ScreenInv, LoadInv, Under
  <1>7. ConfiguredInv'
    <2>1. \A c \in Bricks : waiting'[c] > 0 \/ Inside(c)' \/ Listed(c)' => c \in configured'
      BY <1>0 DEF ScreenInv, ConfiguredInv, Inside, Listed
    <2>2. \A i \in Under' : messages'[i].kind # "CONFIG_COMPLETE" =>
                                 messages'[i].brick \in configured'
      BY <1>0, <1>2, <1>3, <1>4, <1>5 DEF ScreenInv, ConfiguredInv, Under
    <2>3. ASSUME NEW c \in configured' PROVE Listed(c)' \/ \E i \in Under' : ListsBrick(i, c)'
      BY <1>0, <1>3, <1>4, <1>5 DEF ScreenInv, ConfiguredInv, Listed, Under, ListsBrick
    <2> QED
      BY <2>1, <2>2, <2>3 DEF ConfiguredInv
  <1>8. \A i \in 1..(n + 1) : messages'[i].kind \notin {"BACKUP_BRICK", "BACKUP_BRICK_STOP"}
    BY <1>0, <1>2, <1>3, <1>5 DEF ScreenInv, LoadInv, Under
  <1>9. WorkersAreListed' /\ OrderInv'
    BY <1>4, <1>8 DEF WorkersAreListed, OrderInv, Under, WorkerSays
  <1>10. LatestInv'
    <2>1. \A c \in Bricks : phase[c] # "shown" /\ m_stat[c] # "START"
      <3>1. \A c \in Bricks, i \in Under : ~WorkerSays(i, c)
        BY <1>0 DEF ScreenInv, LoadInv, WorkerSays
      <3> QED
        BY <1>0, <3>1 DEF ScreenInv, LatestInv, LoadInv
    <2> QED
      BY <1>0, <1>4, <1>8, <2>1 DEF LatestInv, Under, WorkerSays
  <1> QED
    BY <1>6, <1>7, <1>9, <1>10 DEF ScreenInv

(* A worker posts where its brick's phase changes.                         *)
LEMMA WorkerPosted ==
    ASSUME ScreenInv, InterfaceTypeOK', NEW b \in Bricks, WorkerStep(b),
           ShowStart(b) \/ ShowStop(b), NEW m \in MessageSet, Post(m),
           m.kind \in {"BACKUP_BRICK", "BACKUP_BRICK_STOP"}, m.brick = b,
           m.kind = "BACKUP_BRICK" <=> phase'[b] = "shown"
    PROVE  ScreenInv'
  <1>0. /\ UNCHANGED <<ipc, waiting, m_stat, configured>>
        /\ \A c \in Bricks \ {b} : phase'[c] = phase[c]
        /\ phase[b] # "idle" /\ phase'[b] # "idle"
    BY DEF WorkerStep, screenVars, ShowStart, ShowStop, Become, ScreenInv, InterfaceTypeOK,
           LifeTypeOK
  <1>3. PICK n \in Nat : n = Len(messages)
    BY Posted DEF ScreenInv
  <1>4. Len(messages') = n + 1
    BY <1>3, Posted DEF ScreenInv
  <1>5. (\A i \in 1..n : messages'[i] = messages[i]) /\ messages'[n + 1] = m
    BY <1>3, Posted DEF ScreenInv, Under
  <1>6. b \in configured /\ ipc \notin {"load", "wait"}
    BY <1>0 DEF ScreenInv, ConfiguredInv, Inside, LoadInv
  <1>7. LoadInv'
    BY <1>0, <1>6 DEF LoadInv
  <1>8. ConfiguredInv'
    <2>1. \A c \in Bricks : waiting'[c] > 0 \/ Inside(c)' \/ Listed(c)' => c \in configured'
      BY <1>0, <1>6 DEF ScreenInv, ConfiguredInv, Inside, Listed
    <2>2. \A i \in Under' : messages'[i].kind # "CONFIG_COMPLETE" =>
                                 messages'[i].brick \in configured'
      BY <1>0, <1>3, <1>4, <1>5, <1>6 DEF ScreenInv, ConfiguredInv, Under
    <2>3. ASSUME NEW c \in configured' PROVE Listed(c)' \/ \E i \in Under' : ListsBrick(i, c)'
      BY <1>0, <1>3, <1>4, <1>5 DEF ScreenInv, ConfiguredInv, Listed, Under, ListsBrick
    <2> QED
      BY <2>1, <2>2, <2>3 DEF ConfiguredInv
  <1>9. WorkersAreListed'
    <2>1. ASSUME NEW i \in 1..(n + 1), NEW c, messages'[i].brick = c,
                 messages'[i].kind \in {"BACKUP_BRICK", "BACKUP_BRICK_STOP"}
          PROVE  \/ m_stat'[c] # "none"
                 \/ \E j \in 1..(i - 1) : messages'[j] = Message("CONFIG", c)
      <3>1. CASE i = n + 1
        BY <1>0, <1>3, <1>5, <1>6, <2>1, <3>1
        DEF ScreenInv, ConfiguredInv, Listed, Under, ListsBrick
      <3>2. CASE i \in 1..n
        <4>1. \/ m_stat[c] # "none"
              \/ \E j \in 1..(i - 1) : messages[j] = Message("CONFIG", c)
          BY <1>3, <1>5, <2>1, <3>2 DEF ScreenInv, WorkersAreListed, Listed
        <4> QED
          BY <1>0, <1>5, <3>2, <4>1
      <3> QED
        BY <3>1, <3>2
    <2> QED
      BY <1>4, <2>1 DEF WorkersAreListed, Listed
  <1>10. OrderInv'
    <2> SUFFICES ASSUME NEW c \in Bricks, NEW i \in 1..(n + 1), NEW j \in 1..(n + 1),
                        WorkerSays(i, c)', ListsBrick(j, c)'
                 PROVE  j < i
      BY <1>4 DEF OrderInv, Under
    <2>1. j \in 1..n
      BY <1>5 DEF ListsBrick, Message
    <2>2. CASE i \in 1..n
      BY <1>3, <1>5, <2>1, <2>2 DEF ScreenInv, OrderInv, Under, WorkerSays, ListsBrick
    <2> QED
      BY <2>1, <2>2
  <1>11. LatestInv'
    <2>1. ASSUME NEW c \in Bricks, NEW i \in 1..(n + 1), WorkerSays(i, c)',
                 \A j \in 1..(n + 1) : WorkerSays(j, c)' => j <= i
          PROVE  messages'[i].kind = "BACKUP_BRICK" <=> phase'[c] = "shown"
      <3>1. CASE c = b
        BY <1>5, <2>1, <3>1 DEF WorkerSays
      <3>2. CASE c # b
        <4>1. i \in 1..n
          BY <1>5, <2>1, <3>2 DEF WorkerSays
        <4>2. WorkerSays(i, c) /\ \A j \in 1..n : WorkerSays(j, c) => j <= i
          BY <1>5, <2>1, <4>1 DEF WorkerSays
        <4> QED
          BY <1>0, <1>3, <1>5, <3>2, <4>1, <4>2 DEF ScreenInv, LatestInv, Under
      <3> QED
        BY <3>1, <3>2
    <2>2. ASSUME NEW c \in Bricks, \A i \in 1..(n + 1) : ~WorkerSays(i, c)'
          PROVE  /\ m_stat'[c] = "START" <=> phase'[c] = "shown"
                 /\ (\E i \in 1..(n + 1) : ListsBrick(i, c)') => phase'[c] # "shown"
      <3>1. c # b
        BY <1>5, <2>2 DEF WorkerSays
      <3>2. \A i \in 1..n : ~WorkerSays(i, c)
        BY <1>5, <2>2 DEF WorkerSays
      <3>3. \A i \in 1..(n + 1) : ListsBrick(i, c)' => i \in 1..n /\ ListsBrick(i, c)
        BY <1>5 DEF ListsBrick, Message
      <3> QED
        BY <1>0, <1>3, <3>1, <3>2, <3>3 DEF ScreenInv, LatestInv, Under
    <2> QED
      BY <1>4, <2>1, <2>2 DEF LatestInv, Under
  <1> QED
    BY <1>7, <1>8, <1>9, <1>10, <1>11 DEF ScreenInv

-----------------------------------------------------------------------------

(* What all receptions share: the first message is gone.                   *)
LEMMA AfterFetch ==
    ASSUME ScreenInv, NEW kinds, Received(kinds), InterfaceTypeOK'
    PROVE  /\ UNCHANGED <<ipc, phase, waiting, configured>>
           /\ LoadInv'
           /\ OrderInv'
           /\ \A i \in Under' : messages'[i].kind # "CONFIG_COMPLETE" =>
                                    messages'[i].brick \in configured'
           /\ \A b \in Bricks :
                 /\ \A i \in Under' :
                      WorkerSays(i, b)' /\ (\A j \in Under' : WorkerSays(j, b)' => j <= i) =>
                          (messages'[i].kind = "BACKUP_BRICK" <=> phase'[b] = "shown")
                 /\ (\A i \in Under' : ~WorkerSays(i, b)') /\ WorkerSays(1, b) =>
                        (messages[1].kind = "BACKUP_BRICK" <=> phase'[b] = "shown")
                 /\ (\A i \in Under' : ~WorkerSays(i, b)') /\ ~WorkerSays(1, b) =>
                        \A i \in Under : ~WorkerSays(i, b)
  <1>0. UNCHANGED <<ipc, phase, waiting, configured>>
    BY DEF Received, lifeVars
  <1>1. PICK n \in Nat : Len(messages) = n + 1
    <2>1. Len(messages) \in Nat \ {0}
      BY Fetched DEF ScreenInv
    <2>2. Len(messages) - 1 \in Nat /\ Len(messages) = (Len(messages) - 1) + 1
      BY <2>1
    <2> QED
      BY <2>2
  <1>2. Len(messages') = n
    BY <1>1, Fetched DEF ScreenInv
  <1>3. \A i \in 1..n : messages'[i] = messages[i + 1]
    BY <1>2, Fetched DEF ScreenInv
  <1>4. LoadInv'
    BY <1>0, <1>1, <1>2, <1>3 DEF ScreenInv, LoadInv, Under
  <1>5. OrderInv'
    <2> SUFFICES ASSUME NEW b \in Bricks, NEW i \in 1..n, NEW j \in 1..n,
                        WorkerSays(i, b)', ListsBrick(j, b)'
                 PROVE  j < i
      BY <1>2 DEF OrderInv, Under
    <2>1. WorkerSays(i + 1, b) /\ ListsBrick(j + 1, b)
      BY <1>3 DEF WorkerSays, ListsBrick
    <2> QED
      BY <1>1, <2>1 DEF ScreenInv, OrderInv, Under
  <1>6. \A i \in Under' : messages'[i].kind # "CONFIG_COMPLETE" =>
                               messages'[i].brick \in configured'
    BY <1>0, <1>1, <1>2, <1>3 DEF ScreenInv, ConfiguredInv, Under
  <1>7. ASSUME NEW b \in Bricks
        PROVE  /\ \A i \in Under' :
                     WorkerSays(i, b)' /\ (\A j \in Under' : WorkerSays(j, b)' => j <= i) =>
                         (messages'[i].kind = "BACKUP_BRICK" <=> phase'[b] = "shown")
               /\ (\A i \in Under' : ~WorkerSays(i, b)') /\ WorkerSays(1, b) =>
                      (messages[1].kind = "BACKUP_BRICK" <=> phase'[b] = "shown")
               /\ (\A i \in Under' : ~WorkerSays(i, b)') /\ ~WorkerSays(1, b) =>
                      \A i \in Under : ~WorkerSays(i, b)
    <2>0. \A i \in 1..n : WorkerSays(i, b)' <=> WorkerSays(i + 1, b)
      BY <1>3 DEF WorkerSays
    <2>1. \A i \in Under : i = 1 \/ (i - 1 \in 1..n /\ i = (i - 1) + 1)
      BY <1>1 DEF Under
    <2>2. ASSUME NEW i \in 1..n, WorkerSays(i, b)',
                 \A j \in 1..n : WorkerSays(j, b)' => j <= i
          PROVE  messages'[i].kind = "BACKUP_BRICK" <=> phase'[b] = "shown"
      <3>1. i + 1 \in Under /\ WorkerSays(i + 1, b)
        BY <1>1, <2>0, <2>2 DEF Under
      <3>2. ASSUME NEW j \in Under, WorkerSays(j, b) PROVE j <= i + 1
        <4>1. CASE j = 1
          BY <2>2, <4>1
        <4>2. CASE j # 1
          <5>1. j - 1 \in 1..n /\ j = (j - 1) + 1
            BY <2>1, <4>2
          <5>2. WorkerSays(j - 1, b)'
            BY <2>0, <3>2, <5>1
          <5>3. j - 1 <= i
            BY <2>2, <5>1, <5>2
          <5> QED
            BY <2>2, <5>1, <5>3
        <4> QED
          BY <4>1, <4>2
      <3> QED
        BY <1>0, <1>3, <3>1, <3>2 DEF ScreenInv, LatestInv
    <2>3. ASSUME \A i \in 1..n : ~WorkerSays(i, b)', WorkerSays(1, b)
          PROVE  messages[1].kind = "BACKUP_BRICK" <=> phase'[b] = "shown"
      <3>1. \A j \in Under : WorkerSays(j, b) => j <= 1
        BY <2>0, <2>1, <2>3
      <3>2. 1 \in Under
        BY <1>1 DEF Under
      <3> QED
        BY <1>0, <2>3, <3>1, <3>2 DEF ScreenInv, LatestInv
    <2>4. ASSUME \A i \in 1..n : ~WorkerSays(i, b)', ~WorkerSays(1, b)
          PROVE  \A i \in Under : ~WorkerSays(i, b)
      BY <2>0, <2>1, <2>4
    <2> QED
      BY <1>2, <2>2, <2>3, <2>4 DEF Under
  <1> QED
    BY <1>0, <1>4, <1>5, <1>6, <1>7

(* Whatever a reception shows, it puts no other brick on the screen.       *)
LEMMA StillListed ==
    ASSUME ScreenInv, NEW kinds, Received(kinds), InterfaceTypeOK',
           \A b \in Bricks : m_stat[b] # "none" => m_stat'[b] # "none",
           \A b \in Bricks : ListsBrick(1, b) => m_stat'[b] # "none",
           \A b \in Bricks : m_stat'[b] # "none" => b \in configured
    PROVE  ConfiguredInv' /\ WorkersAreListed'
  <1>0. UNCHANGED <<ipc, phase, waiting, configured>>
    BY DEF Received, lifeVars
  <1>1. /\ Len(messages) \in Nat /\ Len(messages') = Len(messages) - 1
        /\ \A i \in 1..Len(messages') : messages'[i] = messages[i + 1]
    BY Fetched DEF ScreenInv
  <1>2. \A i \in Under : i = 1 \/ (i - 1 \in 1..Len(messages') /\ i = (i - 1) + 1)
    BY <1>1 DEF Under
  <1>3. \A b : \A i \in Under : ListsBrick(i, b) => i = 1 \/ ListsBrick(i - 1, b)'
    BY <1>1, <1>2 DEF ListsBrick
  <1>4. ConfiguredInv'
    <2>1. \A i \in Under' : messages'[i].kind # "CONFIG_COMPLETE" =>
                                 messages'[i].brick \in configured'
      BY AfterFetch
    <2>2. ASSUME NEW c \in configured
          PROVE  m_stat'[c] # "none" \/ \E i \in Under' : ListsBrick(i, c)'
      <3>1. c \in Bricks /\ (m_stat[c] # "none" \/ \E i \in Under : ListsBrick(i, c))
        BY DEF ScreenInv, ConfiguredInv, Listed, InterfaceTypeOK
      <3> QED
        BY <1>2, <1>3, <3>1 DEF Under
    <2> QED
      BY <1>0, <2>1, <2>2 DEF ConfiguredInv, ScreenInv, Inside, Listed
  <1>5. ASSUME NEW i \in 1..Len(messages'), NEW c, messages'[i].brick = c,
               messages'[i].kind \in {"BACKUP_BRICK", "BACKUP_BRICK_STOP"}
        PROVE  \/ m_stat'[c] # "none"
               \/ \E j \in 1..(i - 1) : messages'[j] = Message("CONFIG", c)
    <2>1. c \in configured /\ configured \subseteq Bricks
      <3>1. messages'[i].kind # "CONFIG_COMPLETE"
        BY <1>5
      <3> QED
        BY <1>0, <1>5, <3>1, AfterFetch DEF Under, ScreenInv, InterfaceTypeOK
    <2>2. i + 1 \in 1..Len(messages) /\ messages[i + 1] = messages'[i]
      BY <1>1, <1>5
    <2>3. \/ m_stat[c] # "none"
          \/ \E j \in 1..i : messages[j] = Message("CONFIG", c)
      BY <1>5, <2>2 DEF ScreenInv, WorkersAreListed, Listed
    <2>4. ASSUME NEW j \in 1..i, messages[j] = Message("CONFIG", c), j # 1
          PROVE  j - 1 \in 1..(i - 1) /\ messages'[j - 1] = Message("CONFIG", c)
      BY <1>1, <1>5, <2>4
    <2> QED
      BY <2>1, <2>3, <2>4 DEF ListsBrick
  <1> QED
    BY <1>4, <1>5 DEF WorkersAreListed, Listed

(* A CONFIG is received before anything is said of its brick.              *)
LEMMA ConfigRead ==
    ASSUME ScreenInv, InterfaceTypeOK', ConfigReceived
    PROVE  ScreenInv'
  <1>0. Received({"CONFIG"})
    BY DEF ConfigReceived
  <1>1. PICK m \in MessageSet : m = messages[1]
    BY <1>0, Fetched DEF ScreenInv
  <1>2. m.kind = "CONFIG" /\ Head(messages) = m /\ 1 \in Under
    BY <1>0, <1>1, Fetched DEF ScreenInv, Under
  <1>3. m.brick \in configured /\ configured \subseteq Bricks
    BY <1>1, <1>2 DEF ScreenInv, ConfiguredInv, InterfaceTypeOK
  <1>4. PICK b \in Bricks : b = m.brick
    BY <1>3
  <1>5. m_stat' = [m_stat EXCEPT ![b] = "STOP"]
    BY <1>2, <1>4 DEF ConfigReceived, NewLine
  <1>6. \A c \in Bricks : ListsBrick(1, c) <=> c = b
    BY <1>1, <1>2, <1>4 DEF ListsBrick, Message, MessageSet
  <1>7. /\ \A c \in Bricks : m_stat'[c] = IF c = b THEN "STOP" ELSE m_stat[c]
        /\ \A c \in Bricks : m_stat'[c] # "none" => c \in configured
    BY <1>3, <1>4, <1>5 DEF ScreenInv, InterfaceTypeOK, ConfiguredInv, Listed
  <1>8. ConfiguredInv' /\ WorkersAreListed'
    BY <1>0, <1>6, <1>7, StillListed
  <1>9. LatestInv'
    <2>1. \A c \in Bricks : ~WorkerSays(1, c)
      BY <1>1, <1>2 DEF WorkerSays
    <2>2. \A c \in Bricks : (\E i \in Under' : ListsBrick(i, c)') =>
                                \E i \in Under : ListsBrick(i, c)
      <3>1. /\ Len(messages) \in Nat /\ Len(messages') = Len(messages) - 1
            /\ \A i \in 1..Len(messages') : messages'[i] = messages[i + 1]
        BY <1>0, Fetched DEF ScreenInv
      <3>2. \A i \in Under', c \in Bricks : ListsBrick(i, c)'
                => i + 1 \in Under /\ ListsBrick(i + 1, c)
        BY <3>1 DEF Under, ListsBrick
      <3> QED
        BY <3>2
    <2>3. ASSUME NEW c \in Bricks, \A i \in Under' : ~WorkerSays(i, c)'
          PROVE  /\ m_stat'[c] = "START" <=> phase'[c] = "shown"
                 /\ (\E i \in Under' : ListsBrick(i, c)') => phase'[c] # "shown"
      <3>1. \A i \in Under : ~WorkerSays(i, c)
        BY <1>0, <2>1, <2>3, AfterFetch
      <3>2. /\ m_stat[c] = "START" <=> phase[c] = "shown"
            /\ (\E i \in Under : ListsBrick(i, c)) => phase[c] # "shown"
        BY <3>1 DEF ScreenInv, LatestInv
      <3>3. phase' = phase
        BY <1>0, AfterFetch
      <3> QED
        BY <1>2, <1>6, <1>7, <2>2, <3>2, <3>3
    <2> QED
      BY <1>0, <2>3, AfterFetch DEF LatestInv
  <1> QED
    BY <1>0, <1>8, <1>9, AfterFetch DEF ScreenInv

(* CONFIG_COMPLETE changes no line.                                        *)
LEMMA CompleteRead ==
    ASSUME ScreenInv, InterfaceTypeOK', ConfigCompleteReceived
    PROVE  ScreenInv'
  <1>0. Received({"CONFIG_COMPLETE"}) /\ m_stat' = m_stat
    BY DEF ConfigCompleteReceived
  <1>1. messages[1].kind = "CONFIG_COMPLETE"
    BY <1>0, Fetched DEF ScreenInv
  <1>2. \A c \in Bricks : ~ListsBrick(1, c) /\ ~WorkerSays(1, c)
    BY <1>1 DEF ListsBrick, WorkerSays, Message
  <1>3. \A c \in Bricks : m_stat'[c] # "none" => c \in configured
    BY <1>0 DEF ScreenInv, ConfiguredInv, Listed
  <1>4. ConfiguredInv' /\ WorkersAreListed'
    BY <1>0, <1>2, <1>3, StillListed
  <1>5. LatestInv'
    <2>1. /\ Len(messages) \in Nat /\ Len(messages') = Len(messages) - 1
          /\ \A i \in 1..Len(messages') : messages'[i] = messages[i + 1]
      BY <1>0, Fetched DEF ScreenInv
    <2>2. \A i \in Under', c \in Bricks : ListsBrick(i, c)'
              => i + 1 \in Under /\ ListsBrick(i + 1, c)
      BY <2>1 DEF Under, ListsBrick
    <2>3. ASSUME NEW c \in Bricks, \A i \in Under' : ~WorkerSays(i, c)'
          PROVE  /\ m_stat'[c] = "START" <=> phase'[c] = "shown"
                 /\ (\E i \in Under' : ListsBrick(i, c)') => phase'[c] # "shown"
      <3>1. \A i \in Under : ~WorkerSays(i, c)
        BY <1>0, <1>2, <2>3, AfterFetch
      <3>2. /\ m_stat[c] = "START" <=> phase[c] = "shown"
            /\ (\E i \in Under : ListsBrick(i, c)) => phase[c] # "shown"
        BY <3>1 DEF ScreenInv, LatestInv
      <3>3. phase' = phase
        BY <1>0, AfterFetch
      <3> QED
        BY <1>0, <2>2, <3>2, <3>3
    <2> QED
      BY <1>0, <2>3, AfterFetch DEF LatestInv
  <1> QED
    BY <1>0, <1>4, <1>5, AfterFetch DEF ScreenInv

(* A worker's message finds its brick listed, and its line says then what  *)
(* the message says.                                                       *)
LEMMA WorkerRead ==
    ASSUME ScreenInv, InterfaceTypeOK', WorkerMessageReceived
    PROVE  ScreenInv'
  <1>0. Received({"BACKUP_BRICK", "BACKUP_BRICK_STOP"})
    BY DEF WorkerMessageReceived
  <1>1. PICK m \in MessageSet : m = messages[1]
    BY <1>0, Fetched DEF ScreenInv
  <1>2. /\ m.kind \in {"BACKUP_BRICK", "BACKUP_BRICK_STOP"}
        /\ Head(messages) = m /\ 1 \in Under
    BY <1>0, <1>1, Fetched DEF ScreenInv, Under
  <1>3. m.brick \in configured /\ configured \subseteq Bricks
    BY <1>1, <1>2 DEF ScreenInv, ConfiguredInv, InterfaceTypeOK
  <1>4. PICK b \in Bricks : b = m.brick
    BY <1>3
  <1>5. Listed(b)
    BY <1>1, <1>2, <1>4 DEF ScreenInv, WorkersAreListed, Under
  <1>6. m_stat' = [m_stat EXCEPT ![b] = StatusAfter(m)]
    BY <1>2, <1>4, <1>5 DEF WorkerMessageReceived
  <1>7. /\ \A c \in Bricks : m_stat'[c] = IF c = b THEN StatusAfter(m) ELSE m_stat[c]
        /\ StatusAfter(m) \in {"START", "STOP"}
        /\ StatusAfter(m) = "START" <=> m.kind = "BACKUP_BRICK"
    BY <1>4, <1>6 DEF ScreenInv, InterfaceTypeOK, StatusAfter
  <1>8. /\ \A c \in Bricks : WorkerSays(1, c) <=> c = b
        /\ \A c \in Bricks : ~ListsBrick(1, c)
    BY <1>1, <1>2, <1>4 DEF WorkerSays, ListsBrick, Message
  <1>9. ConfiguredInv' /\ WorkersAreListed'
    <2>1. \A c \in Bricks : m_stat'[c] # "none" => c \in configured
      BY <1>3, <1>4, <1>7 DEF ScreenInv, ConfiguredInv, Listed
    <2> QED
      BY <1>0, <1>7, <1>8, <2>1, StillListed
  <1>10. LatestInv'
    <2>1. /\ Len(messages) \in Nat /\ Len(messages') = Len(messages) - 1
          /\ \A i \in 1..Len(messages') : messages'[i] = messages[i + 1]
      BY <1>0, Fetched DEF ScreenInv
    <2>2. \A i \in Under', c \in Bricks : ListsBrick(i, c)'
              => i + 1 \in Under /\ ListsBrick(i + 1, c)
      BY <2>1 DEF Under, ListsBrick
    <2>3. \A i \in Under : ~ListsBrick(i, b)
      <3>1. WorkerSays(1, b)
        BY <1>8
      <3>2. \A i \in Under : ListsBrick(i, b) => i < 1
        BY <1>2, <3>1 DEF ScreenInv, OrderInv
      <3> QED
        BY <2>1, <3>2 DEF Under
    <2>4. phase' = phase
      BY <1>0, AfterFetch
    <2>5. ASSUME NEW c \in Bricks, \A i \in Under' : ~WorkerSays(i, c)'
          PROVE  /\ m_stat'[c] = "START" <=> phase'[c] = "shown"
                 /\ (\E i \in Under' : ListsBrick(i, c)') => phase'[c] # "shown"
      <3>1. CASE c = b
        <4>1. m.kind = "BACKUP_BRICK" <=> phase'[b] = "shown"
          BY <1>0, <1>1, <1>8, <2>5, <3>1, AfterFetch
        <4> QED
          BY <1>7, <2>2, <2>3, <3>1, <4>1
      <3>2. CASE c # b
        <4>1. \A i \in Under : ~WorkerSays(i, c)
          BY <1>0, <1>8, <2>5, <3>2, AfterFetch
        <4>2. /\ m_stat[c] = "START" <=> phase[c] = "shown"
              /\ (\E i \in Under : ListsBrick(i, c)) => phase[c] # "shown"
          BY <4>1 DEF ScreenInv, LatestInv
        <4> QED
          BY <1>7, <2>2, <2>4, <3>2, <4>2
      <3> QED
        BY <3>1, <3>2
    <2> QED
      BY <1>0, <2>5, AfterFetch DEF LatestInv
  <1> QED
    BY <1>0, <1>9, <1>10, AfterFetch DEF ScreenInv

-----------------------------------------------------------------------------

(* Every step keeps the invariant.                                         *)
LEMMA ScreenStep == ScreenInv /\ [InterfaceNext]_interfaceVars => ScreenInv'
  <1> SUFFICES ASSUME ScreenInv, [InterfaceNext]_interfaceVars PROVE ScreenInv'
    OBVIOUS
  <1>0. InterfaceTypeOK /\ InterfaceTypeOK'
    BY InterfaceTypeStep DEF ScreenInv
  <1>1. /\ phase \in [Bricks -> Phases] /\ waiting \in [Bricks -> Nat]
        /\ m_stat \in [Bricks -> {"none", "START", "STOP"}]
        /\ configured \subseteq Bricks
    BY <1>0 DEF InterfaceTypeOK, LifeTypeOK
  <1>2. /\ \A b \in Bricks :
               waiting[b] > 0 \/ phase[b] # "idle" \/ m_stat[b] # "none" => b \in configured
        /\ ipc \in {"load", "wait"} => \A b \in Bricks : phase[b] = "idle"
    BY DEF ScreenInv, ConfiguredInv, LoadInv, Inside, Listed
  <1>3. \A B : QueueTasks(B) =>
            \A b \in Bricks : waiting'[b] > 0 => waiting[b] > 0 \/ b \in B
    BY <1>1 DEF QueueTasks
  <1>4. ASSUME NEW b \in Bricks, Configure(b) PROVE ScreenInv'
    BY <1>0, <1>4, ConfigPosted
  <1>5. CASE ConfigureEnds \/ ConfigureFails
    BY <1>0, <1>5, CompletePosted
  <1>6. CASE StartAll
    BY <1>0, <1>2, <1>3, <1>6, SilentStep DEF StartAll, InterfaceGoto, lifeVars, screenVars
  <1>7. ASSUME NEW b \in Bricks, Click(b) PROVE ScreenInv'
    <2>1. b \in configured /\ m_stat[b] \in {"START", "STOP"}
      BY <1>1, <1>2, <1>7 DEF Click, Listed
    <2>2. UNCHANGED phase /\ \A c \in Bricks : waiting'[c] > 0 => waiting[c] > 0 \/ c = b
      <3>1. CASE m_stat[b] = "START"
        BY <1>7, <3>1 DEF Click, Tell, lifeVars
      <3>2. CASE m_stat[b] = "STOP"
        <4>1. UNCHANGED phase /\ QueueTasks({b})
          BY <1>7, <3>2 DEF Click, lifeVars
        <4> QED
          BY <1>3, <4>1
      <3> QED
        BY <2>1, <3>1, <3>2
    <2>3. UNCHANGED <<messages, m_stat, configured, ipc>>
      BY <1>7 DEF Click, screenVars
    <2> QED
      BY <1>0, <1>2, <2>1, <2>2, <2>3, SilentStep
  <1>8. ASSUME NEW b \in Bricks, ClientStarts(b) PROVE ScreenInv'
    BY <1>0, <1>2, <1>3, <1>8, SilentStep DEF ClientStarts, lifeVars, screenVars
  <1>9. CASE StopService \/ ServiceStopped
    <2>1. UNCHANGED <<messages, m_stat, configured, phase>> /\ ipc' \notin {"load", "wait"}
      BY <1>9 DEF StopService, ServiceStopped, Tell, InterfaceGoto, lifeVars, screenVars
    <2>2. \A b \in Bricks : waiting'[b] > 0 => waiting[b] > 0
      BY <1>9 DEF StopService, ServiceStopped
    <2> QED
      BY <1>0, <1>2, <2>1, <2>2, SilentStep
  <1>10. ASSUME NEW b \in Bricks, TaskTaken(b) PROVE ScreenInv'
    <2>1. UNCHANGED <<messages, m_stat, configured, ipc>> /\ ipc \notin {"load", "wait"}
      BY <1>10 DEF TaskTaken, screenVars
    <2>2. b \in configured /\ \A c \in Bricks : waiting'[c] > 0 => waiting[c] > 0
      BY <1>1, <1>2, <1>10 DEF TaskTaken
    <2>3. \A c \in Bricks : /\ phase'[c] = "shown" <=> phase[c] = "shown"
                            /\ phase'[c] # "idle" => phase[c] # "idle" \/ c = b
      BY <1>1, <1>10 DEF TaskTaken, Enter, Become, lifeVars
    <2> QED
      BY <1>0, <1>2, <2>1, <2>2, <2>3, SilentStep
  <1>11. ASSUME NEW b \in Bricks, WorkerStep(b) PROVE ScreenInv'
    <2>1. CASE ShowStart(b) /\ Post(Message("BACKUP_BRICK", b))
      <3>1. PICK m \in MessageSet : m = Message("BACKUP_BRICK", b)
        BY DEF Message, MessageSet, MessageKinds
      <3>2. m.kind = "BACKUP_BRICK" /\ m.brick = b /\ phase'[b] = "shown"
        BY <1>1, <2>1, <3>1 DEF Message, ShowStart, Become
      <3> QED
        BY <1>0, <1>11, <2>1, <3>1, <3>2, WorkerPosted
    <2>2. CASE ShowStop(b) /\ Post(Message("BACKUP_BRICK_STOP", b))
      <3>1. PICK m \in MessageSet : m = Message("BACKUP_BRICK_STOP", b)
        BY DEF Message, MessageSet, MessageKinds
      <3>2. m.kind = "BACKUP_BRICK_STOP" /\ m.brick = b /\ phase'[b] # "shown"
        BY <1>1, <2>2, <3>1 DEF Message, ShowStop, Become
      <3> QED
        BY <1>0, <1>11, <2>2, <3>1, <3>2, WorkerPosted
    <2>3. CASE (GiveUp(b) \/ Leave(b)) /\ UNCHANGED messages
      <3>1. \A c \in Bricks : /\ phase'[c] = "shown" <=> phase[c] = "shown"
                              /\ phase'[c] # "idle" => phase[c] # "idle"
        BY <1>1, <2>3 DEF GiveUp, Leave, Become
      <3>2. UNCHANGED <<m_stat, configured, ipc, waiting>> /\ phase[b] # "idle"
        BY <1>11, <2>3 DEF WorkerStep, screenVars, GiveUp, Leave, Become
      <3> QED
        BY <1>0, <1>2, <2>3, <3>1, <3>2, SilentStep
    <2> QED
      BY <1>11, <2>1, <2>2, <2>3 DEF WorkerStep
  <1>12. CASE Dispose
    BY <1>0, <1>12, ConfigRead, CompleteRead, WorkerRead DEF Dispose
  <1>13. CASE UNCHANGED interfaceVars
    BY <1>0, <1>2, <1>13, SilentStep DEF interfaceVars, lifeVars, screenVars
  <1> QED
    BY <1>4, <1>5, <1>6, <1>7, <1>8, <1>9, <1>10, <1>11, <1>12, <1>13 DEF InterfaceNext

(* Once the messages are read, a brick's button or line says "started"     *)
(* exactly while its worker has announced its start and not its stop; no   *)
(* message of a worker comes too early to be shown (dispose_msg of         *)
(* backup_main.cpp and deamon.cpp, proc and login_db of the service).      *)
THEOREM ScreenIsTrue == InterfaceSpec => []ScreenTrue
  <1>1. ScreenInv => ScreenTrue
    <2> SUFFICES ASSUME ScreenInv, messages = << >>, NEW b \in Bricks
                 PROVE  m_stat[b] = "START" <=> phase[b] = "shown"
      BY DEF ScreenTrue, ScreenInv
    <2>1. Len(messages) = 0
      OBVIOUS
    <2>2. \A i \in Under : FALSE
      BY <2>1 DEF Under
    <2> QED
      BY <2>2 DEF ScreenInv, LatestInv
  <1> QED
    BY <1>1, ScreenStarts, ScreenStep, PTL DEF InterfaceSpec

(* The variables of the two programs and the life of each brick stay in    *)
(* their types (backup_ui/main.cpp, backup_ui/deamon.cpp).                 *)
THEOREM InterfaceTypeCorrect == InterfaceSpec => []InterfaceTypeOK
  <1>1. ScreenInv => InterfaceTypeOK
    BY DEF ScreenInv
  <1> QED
    BY <1>1, ScreenStarts, ScreenStep, PTL DEF InterfaceSpec

-----------------------------------------------------------------------------
(* Numbers and folds.                                                      *)

(* Every set of numbers that is not empty has a least element. *)
LEMMA LeastNumber ==
    ASSUME NEW T, T \subseteq Nat, T # {}
    PROVE  \E n \in T : \A m \in T : n <= m
  <1>1. PICK R : R = OpToRel(<, Nat)
    OBVIOUS
  <1>2. IsWellFoundedOn(R, Nat)
    BY <1>1, NatLessThanWellFounded
  <1>3. PICK n \in T : \A m \in T : ~(<<m, n>> \in R)
    BY <1>2, WFMin
  <1>4. R = {ss \in Nat \X Nat : ss[1] < ss[2]}
    BY <1>1 DEF OpToRel
  <1>5. \A m \in T : ~(m < n)
    BY <1>3, <1>4
  <1> QED
    BY <1>5

(* Least and greatest numbers, as the community modules choose them.       *)
LEMMA MinIs ==
    ASSUME NEW T, T \subseteq Nat, T # {}
    PROVE  Min(T) \in T /\ \A m \in T : Min(T) <= m
  <1>1. \E n \in T : \A m \in T : n =< m
    BY LeastNumber
  <1> QED
    BY <1>1 DEF Min

(* The greatest of numbers up to n.                                        *)
LEMMA MaxIs ==
    ASSUME NEW n \in Nat, NEW T, T \subseteq 0..n, T # {}
    PROVE  Max(T) \in T /\ \A m \in T : m <= Max(T)
  <1>1. PICK U : U = {n - m : m \in T}
    OBVIOUS
  <1>2. U \subseteq Nat /\ U # {}
    <2>1. \A m \in T : m \in 0..n /\ n - m \in Nat
      OBVIOUS
    <2>2. PICK t \in T : TRUE
      OBVIOUS
    <2> QED
      BY <1>1, <2>1, <2>2
  <1>3. PICK u \in U : \A m \in U : u <= m
    BY <1>2, LeastNumber
  <1>4. PICK t \in T : u = n - t
    BY <1>1, <1>3
  <1>5. \A m \in T : n - t <= n - m
    BY <1>1, <1>3, <1>4
  <1>6. \A m \in T : t >= m
    BY <1>5
  <1> QED
    BY <1>6 DEF Max

-----------------------------------------------------------------------------
(* What is defined by recursion.                                           *)

(* A set of numbers with 0, and with each number the next, has them all.   *)
LEMMA AllNumbers ==
    ASSUME NEW T, 0 \in T, \A n \in Nat : n \in T => n + 1 \in T
    PROVE  Nat \subseteq T
  <1> SUFFICES ASSUME Nat \ T # {} PROVE FALSE
    OBVIOUS
  <1>1. PICK n \in Nat \ T : \A m \in Nat \ T : n <= m
    <2>1. Nat \ T \subseteq Nat
      OBVIOUS
    <2> QED
      BY <2>1, LeastNumber
  <1>2. n # 0 /\ n \in Nat
    BY <1>1
  <1>3. n - 1 \in Nat /\ ~(n <= n - 1) /\ (n - 1) + 1 = n
    BY <1>2
  <1>4. n - 1 \in T
    BY <1>1, <1>3
  <1> QED
    BY <1>1, <1>3, <1>4

(* The first numbers without the last of them.                             *)
LEMMA LastOfFirst ==
    ASSUME NEW i \in Nat, i > 0
    PROVE  1..i # {} /\ Max(1..i) = i /\ (1..i) \ {Max(1..i)} = 1..(i - 1)
  <1>1. 1..i \subseteq 0..i /\ i \in 1..i
    OBVIOUS
  <1>2. Max(1..i) \in 1..i /\ i <= Max(1..i)
    BY <1>1, MaxIs
  <1>3. Max(1..i) = i
    BY <1>2
  <1>4. \A j \in 1..i : j # i => j \in 1..(i - 1)
    OBVIOUS
  <1>5. \A j \in 1..(i - 1) : j \in 1..i /\ j # i
    OBVIOUS
  <1> QED
    BY <1>1, <1>3, <1>4, <1>5

(* The functions over sets of positions that define a fold from the left:  *)
(* the last position of the set is taken out, the others are folded first. *)
FoldsTo(g, m, base, step) ==
    \A s \in SUBSET (1..m) :
        g[s] = IF s = {} THEN base ELSE step[<<g[s \ {Max(s)}], Max(s)>>]

(* There is such a function, by induction on the number of positions.      *)
LEMMA FoldExists ==
    ASSUME NEW n \in Nat, NEW V, NEW base \in V, NEW step \in [V \X (1..n) -> V]
    PROVE  \E g \in [SUBSET (1..n) -> V] : FoldsTo(g, n, base, step)
  <1> DEFINE Has(m) == \E g \in [SUBSET (1..m) -> V] : FoldsTo(g, m, base, step)
             T == {m \in Nat : m <= n => Has(m)}
  <1>1. Has(0)
    <2>1. 1..0 = {} /\ SUBSET (1..0) = {{}}
      OBVIOUS
    <2>2. PICK g : g = [s \in SUBSET (1..0) |-> base]
      OBVIOUS
    <2>3. g \in [SUBSET (1..0) -> V]
      BY <2>2
    <2>4. FoldsTo(g, 0, base, step)
      BY <2>1, <2>2 DEF FoldsTo
    <2> QED
      BY <2>3, <2>4
  <1>2. ASSUME NEW m \in Nat, Has(m), m + 1 <= n PROVE Has(m + 1)
    <2>1. PICK g \in [SUBSET (1..m) -> V] : FoldsTo(g, m, base, step)
      BY <1>2
    <2>2. PICK k : k = m + 1
      OBVIOUS
    <2>3. k \in Nat /\ k \in 1..n /\ k \in 1..k /\ k \notin 1..m
      BY <1>2, <2>2
    <2>4. \A s \in SUBSET (1..k) : s \ {k} \in SUBSET (1..m) /\ (k \notin s => s \in SUBSET (1..m))
      <3>1. \A j \in 1..k : j = k \/ j \in 1..m
        BY <2>2
      <3> QED
        BY <3>1
    <2>5. \A s \in SUBSET (1..m) : s \in SUBSET (1..k) /\ k \notin s
      <3>1. \A j \in 1..m : j \in 1..k
        BY <2>2
      <3> QED
        BY <2>3, <3>1
    <2>6. PICK h : h = [s \in SUBSET (1..k) |->
                          IF k \in s THEN step[<<g[s \ {k}], k>>] ELSE g[s]]
      OBVIOUS
    <2>7. ASSUME NEW s \in SUBSET (1..k) PROVE h[s] \in V
      <3>1. CASE k \in s
        <4>1. g[s \ {k}] \in V
          BY <2>1, <2>4
        <4>2. <<g[s \ {k}], k>> \in V \X (1..n)
          BY <2>3, <4>1
        <4> QED
          BY <2>6, <3>1, <4>2
      <3>2. CASE k \notin s
        BY <2>1, <2>4, <2>6, <3>2
      <3> QED
        BY <3>1, <3>2
    <2>8. h \in [SUBSET (1..k) -> V]
      BY <2>6, <2>7
    <2>9. ASSUME NEW s \in SUBSET (1..k), s # {}
          PROVE  h[s] = step[<<h[s \ {Max(s)}], Max(s)>>]
      <3>0. Max(s) \in s /\ \A j \in s : j <= Max(s)
        <4>1. s \subseteq 0..k
          OBVIOUS
        <4> QED
          BY <2>3, <2>9, <4>1, MaxIs
      <3>1. CASE k \in s
        <4>1. Max(s) = k
          <5>1. Max(s) \in 1..k /\ k <= Max(s)
            BY <3>0, <3>1
          <5> QED
            BY <2>3, <5>1
        <4>2. h[s \ {k}] = g[s \ {k}]
          BY <2>4, <2>5, <2>6
        <4> QED
          BY <2>6, <3>1, <4>1, <4>2
      <3>2. CASE k \notin s
        <4>1. s \in SUBSET (1..m) /\ s \ {Max(s)} \in SUBSET (1..m)
          BY <2>4, <3>2
        <4>2. h[s] = g[s] /\ h[s \ {Max(s)}] = g[s \ {Max(s)}]
          BY <2>5, <2>6, <4>1
        <4>3. g[s] = step[<<g[s \ {Max(s)}], Max(s)>>]
          BY <2>1, <2>9, <4>1 DEF FoldsTo
        <4> QED
          BY <4>2, <4>3
      <3> QED
        BY <3>1, <3>2
    <2>10. h[{}] = base
      <3>1. {} \in SUBSET (1..m) /\ {} \in SUBSET (1..k)
        OBVIOUS
      <3>2. h[{}] = g[{}]
        BY <2>6, <3>1
      <3> QED
        BY <2>1, <3>1, <3>2 DEF FoldsTo
    <2>11. FoldsTo(h, k, base, step)
      BY <2>9, <2>10 DEF FoldsTo
    <2> QED
      BY <2>2, <2>8, <2>11
  <1>3. 0 \in T
    BY <1>1
  <1>4. ASSUME NEW m \in Nat, m \in T PROVE m + 1 \in T
    <2> HIDE DEF Has
    <2>1. m <= n => Has(m)
      BY <1>4
    <2>2. m + 1 \in Nat /\ (m + 1 <= n => m <= n)
      OBVIOUS
    <2>3. m + 1 <= n => Has(m + 1)
      BY <1>2, <2>1, <2>2
    <2> QED
      BY <2>2, <2>3
  <1>5. Nat \subseteq T
    <2> HIDE DEF T
    <2> QED
      BY <1>3, <1>4, AllNumbers
  <1>6. n \in T
    BY <1>5
  <1>7. Has(n)
    <2> HIDE DEF Has
    <2> QED
      BY <1>6
  <1> QED
    BY <1>7

(* A sequence of one element.                                              *)
LEMMA OfOne == ASSUME NEW S, NEW n \in S PROVE <<n>> \in Seq(S)
  OBVIOUS

-----------------------------------------------------------------------------
(* The configuration file (DbConfig).                                      *)

(* What the searches in a text return.                                     *)
LEMMA FirstOfIs ==
    ASSUME NEW s \in Seq(STRING), NEW piece, NEW npos \in Nat
    PROVE  LET k == FirstOf(s, piece, npos)
           IN  /\ k = npos \/ (k \in DOMAIN s /\ s[k] = piece)
               /\ k <= npos
               /\ \A j \in DOMAIN s : s[j] = piece => k <= j
  <1>1. PICK T : T = {k \in DOMAIN s : s[k] = piece} \cup {npos}
    OBVIOUS
  <1>2. T \subseteq Nat /\ T # {}
    BY <1>1
  <1>3. Min(T) \in T /\ \A m \in T : Min(T) <= m
    BY <1>2, MinIs
  <1> QED
    BY <1>1, <1>3 DEF FirstOf

(* The same of a piece that is not the one given.                          *)
LEMMA FirstNotOfIs ==
    ASSUME NEW s \in Seq(STRING), NEW piece, NEW npos \in Nat
    PROVE  LET k == FirstNotOf(s, piece, npos)
           IN  /\ k = npos \/ (k \in DOMAIN s /\ s[k] # piece)
               /\ k <= npos
               /\ \A j \in DOMAIN s : s[j] # piece => k <= j
  <1>1. PICK T : T = {k \in DOMAIN s : s[k] # piece} \cup {npos}
    OBVIOUS
  <1>2. T \subseteq Nat /\ T # {}
    BY <1>1
  <1>3. Min(T) \in T /\ \A m \in T : Min(T) <= m
    BY <1>2, MinIs
  <1> QED
    BY <1>1, <1>3 DEF FirstNotOf

(* The last piece that is not the one given.                               *)
LEMMA LastNotOfIs ==
    ASSUME NEW s \in Seq(STRING), NEW piece, s # << >>
    PROVE  LET k == LastNotOf(s, piece, 1)
           IN  /\ k \in DOMAIN s
               /\ (\E j \in DOMAIN s : s[j] # piece) => s[k] # piece
               /\ \A j \in DOMAIN s : s[j] # piece => j <= k
  <1>1. PICK T : T = {k \in DOMAIN s : s[k] # piece} \cup {1}
    OBVIOUS
  <1>2. Len(s) \in Nat /\ Len(s) > 0 /\ DOMAIN s = 1..Len(s)
    OBVIOUS
  <1>3. T \subseteq 0..Len(s) /\ T # {}
    BY <1>1, <1>2
  <1>4. Max(T) \in T /\ \A m \in T : m <= Max(T)
    BY <1>2, <1>3, MaxIs
  <1>5. ASSUME NEW j \in DOMAIN s, s[j] # piece PROVE s[Max(T)] # piece
    <2>1. j \in T /\ j <= Max(T)
      BY <1>1, <1>4, <1>5
    <2>2. CASE Max(T) = 1
      <3>1. j = 1
        BY <1>2, <2>1, <2>2
      <3> QED
        BY <1>5, <2>2, <3>1
    <2>3. CASE Max(T) # 1
      BY <1>1, <1>4, <2>3
    <2> QED
      BY <2>2, <2>3
  <1> QED
    BY <1>1, <1>2, <1>4, <1>5 DEF LastNotOf

(* A part of a text is a text.                                             *)
LEMMA PartOf ==
    ASSUME NEW s \in Seq(STRING), NEW m \in Nat \ {0}, NEW n \in Nat, n <= Len(s), m <= n + 1
    PROVE  /\ SubSeq(s, m, n) \in Seq(STRING)
           /\ Len(SubSeq(s, m, n)) = n - m + 1
           /\ \A j \in 1..(n - m + 1) : SubSeq(s, m, n)[j] = s[m + j - 1]
  <1>1. \A i \in m..n : i \in 1..Len(s) /\ s[i] \in STRING
    OBVIOUS
  <1>2. SubSeq(s, m, n) \in Seq(STRING)
    BY <1>1
  <1>3. Len(SubSeq(s, m, n)) = n - m + 1
    OBVIOUS
  <1> QED
    BY <1>2, <1>3

(* What a text is that is trimmed.                                         *)
LEMMA TrimmedIs ==
    ASSUME NEW s \in Seq(STRING), \E j \in DOMAIN s : s[j] # "blank"
    PROVE  \E f, l \in Nat :
              /\ 1 <= f /\ f <= l /\ l <= Len(s)
              /\ Trimmed(s) = SubSeq(s, f, l)
              /\ s[f] # "blank" /\ s[l] # "blank"
              /\ \A j \in DOMAIN s : j \notin f..l => s[j] = "blank"
  <1>1. PICK j \in DOMAIN s : s[j] # "blank"
    OBVIOUS
  <1>2. s # << >> /\ Len(s) \in Nat /\ DOMAIN s = 1..Len(s)
    <2>1. Len(s) \in Nat /\ DOMAIN s = 1..Len(s) /\ j \in 1..Len(s)
      OBVIOUS
    <2>2. Len(s) # 0
      BY <2>1
    <2> QED
      BY <2>1, <2>2
  <1>3. PICK f : f = FirstNotOf(s, "blank", Len(s))
    OBVIOUS
  <1>4. PICK l : l = LastNotOf(s, "blank", 1)
    OBVIOUS
  <1>5. /\ f = Len(s) \/ (f \in DOMAIN s /\ s[f] # "blank")
        /\ f <= Len(s)
        /\ \A i \in DOMAIN s : s[i] # "blank" => f <= i
    BY <1>2, <1>3, FirstNotOfIs
  <1>6. /\ l \in DOMAIN s
        /\ (\E i \in DOMAIN s : s[i] # "blank") => s[l] # "blank"
        /\ \A i \in DOMAIN s : s[i] # "blank" => i <= l
    BY <1>2, <1>4, LastNotOfIs
  <1>7. f \in DOMAIN s /\ s[f] # "blank" /\ l \in f..Len(s) /\ s[l] # "blank"
    <2>1. s[l] # "blank" /\ f <= l
      BY <1>1, <1>5, <1>6
    <2>2. l \in 1..Len(s) /\ f \in Int
      BY <1>2, <1>5, <1>6
    <2>0. f <= l /\ l <= Len(s) /\ f \in Int /\ l \in Int /\ Len(s) \in Int
      BY <1>2, <2>1, <2>2
    <2>3. f = Len(s) => f = l
      BY <2>0
    <2>4. f \in 1..Len(s) /\ s[f] # "blank"
      BY <1>2, <1>5, <2>1, <2>2, <2>3
    <2> QED
      BY <1>2, <2>1, <2>2, <2>4
  <1>8. "blank" # s[j] /\ s[j] \in ToSet(s)
    BY <1>1 DEF ToSet
  <1>9. Trimmed(s) = SubSeq(s, f, l)
    BY <1>3, <1>4, <1>8 DEF Trimmed
  <1>10. \A i \in DOMAIN s : i \notin f..l => s[i] = "blank"
    <2>1. \A i \in DOMAIN s : s[i] # "blank" => f <= i /\ i <= l
      BY <1>5, <1>6
    <2>2. f \in Nat /\ l \in Nat /\ DOMAIN s \subseteq Nat
      BY <1>2, <1>7
    <2> QED
      BY <2>1, <2>2
  <1>11. f \in Nat /\ l \in Nat /\ 1 <= f /\ f <= l /\ l <= Len(s)
    BY <1>2, <1>7
  <1> QED
    BY <1>7, <1>9, <1>10, <1>11

(* A text of blanks is trimmed to its first.                               *)
LEMMA TrimmedBlank ==
    ASSUME NEW s \in Seq(STRING), \A j \in DOMAIN s : s[j] = "blank"
    PROVE  Trimmed(s) = <<PieceBefore>>
  <1>1. ToSet(s) \subseteq {"blank"}
    BY DEF ToSet
  <1> QED
    BY <1>1 DEF Trimmed

(* The two parts of a line: up to a comment, without leading blanks.       *)
LEMMA ContentIs ==
    ASSUME NEW line \in Seq(STRING)
    PROVE  \E h, b \in Nat :
              /\ 1 <= b /\ b <= h /\ h <= Len(line) + 1
              /\ h = Len(line) + 1 \/ line[h] = "#"
              /\ \A j \in 1..(h - 1) : line[j] # "#"
              /\ \A j \in 1..(b - 1) : line[j] = "blank"
              /\ b < h => line[b] # "blank"
              /\ LineContent(line) \in Seq(STRING)
              /\ Len(LineContent(line)) = h - b
              /\ \A j \in 1..(h - b) : LineContent(line)[j] = line[b + j - 1]
  <1>1. Len(line) \in Nat /\ DOMAIN line = 1..Len(line) /\ Len(line) + 1 \in Nat
    OBVIOUS
  <1>2. PICK h : h = FirstOf(line, "#", Len(line) + 1)
    OBVIOUS
  <1>3. PICK b : b = FirstNotOf(line, "blank", Len(line) + 1)
    OBVIOUS
  <1>4. /\ h = Len(line) + 1 \/ (h \in DOMAIN line /\ line[h] = "#")
        /\ h <= Len(line) + 1
        /\ \A j \in DOMAIN line : line[j] = "#" => h <= j
    BY <1>1, <1>2, FirstOfIs
  <1>5. /\ b = Len(line) + 1 \/ (b \in DOMAIN line /\ line[b] # "blank")
        /\ b <= Len(line) + 1
        /\ \A j \in DOMAIN line : line[j] # "blank" => b <= j
    BY <1>1, <1>3, FirstNotOfIs
  <1>6. h \in 1..(Len(line) + 1) /\ b \in 1..(Len(line) + 1)
    BY <1>1, <1>4, <1>5
  <1>7. b <= h
    <2>1. CASE h = Len(line) + 1
      BY <1>5, <2>1
    <2>2. CASE h \in DOMAIN line /\ line[h] = "#"
      <3>1. line[h] # "blank"
        BY <2>2
      <3> QED
        BY <1>5, <2>2, <3>1
    <2> QED
      BY <1>4, <2>1, <2>2
  <1>8. b \in 1..h
    BY <1>1, <1>6, <1>7
  <1>9. \A j \in 1..(h - 1) : line[j] # "#"
    <2>1. \A j \in 1..(h - 1) : j \in DOMAIN line /\ ~(h <= j)
      BY <1>1, <1>6
    <2> QED
      BY <1>4, <2>1
  <1>10. \A j \in 1..(b - 1) : line[j] = "blank"
    <2>1. \A j \in 1..(b - 1) : j \in DOMAIN line /\ ~(b <= j)
      BY <1>1, <1>6
    <2> QED
      BY <1>5, <2>1
  <1>11. b < h => line[b] # "blank"
    <2>1. b < h => b # Len(line) + 1
      BY <1>1, <1>6
    <2> QED
      BY <1>5, <2>1
  <1>12. PICK n : n = h - 1
    OBVIOUS
  <1>13. n \in Nat /\ n <= Len(line) /\ b <= n + 1 /\ b \in Nat \ {0} /\ n - b + 1 = h - b
    BY <1>1, <1>6, <1>8, <1>12
  <1>14. /\ SubSeq(line, b, n) \in Seq(STRING)
         /\ Len(SubSeq(line, b, n)) = n - b + 1
         /\ \A j \in 1..(n - b + 1) : SubSeq(line, b, n)[j] = line[b + j - 1]
    BY <1>13, PartOf
  <1>15. LineContent(line) = SubSeq(line, b, n)
    BY <1>2, <1>3, <1>12 DEF LineContent
  <1>16. /\ LineContent(line) \in Seq(STRING)
         /\ Len(LineContent(line)) = h - b
         /\ \A j \in 1..(h - b) : LineContent(line)[j] = line[b + j - 1]
    BY <1>13, <1>14, <1>15
  <1>17. h = Len(line) + 1 \/ line[h] = "#"
    BY <1>4
  <1>18. h \in Nat /\ b \in Nat /\ 1 <= b /\ b <= h /\ h <= Len(line) + 1
    BY <1>1, <1>6, <1>8
  <1> QED
    BY <1>9, <1>10, <1>11, <1>16, <1>17, <1>18

(* Where a content divides into a name and a value.                        *)
LEMMA DividesAt ==
    ASSUME NEW c \in Seq(STRING), NEW e \in Nat, 1 <= e, e <= Len(c), c[e] = "=",
           \A j \in 1..(e - 1) : c[j] # "="
    PROVE  /\ EqualsAt(c) = e
           /\ NamePart(c) \in Seq(STRING) /\ Len(NamePart(c)) = e - 1
           /\ \A j \in 1..(e - 1) : NamePart(c)[j] = c[j]
           /\ ConfigPart(c) \in Seq(STRING) /\ Len(ConfigPart(c)) = Len(c) - e
           /\ \A j \in 1..(Len(c) - e) : ConfigPart(c)[j] = c[e + j]
  <1>1. Len(c) \in Nat /\ DOMAIN c = 1..Len(c) /\ e \in 1..Len(c)
    OBVIOUS
  <1>2. "=" \in ToSet(c)
    BY DEF ToSet
  <1>3. PICK k : k = FirstOf(c, "=", Len(c))
    OBVIOUS
  <1>4. /\ k = Len(c) \/ (k \in DOMAIN c /\ c[k] = "=")
        /\ k <= Len(c)
        /\ \A j \in DOMAIN c : c[j] = "=" => k <= j
    BY <1>1, <1>3, FirstOfIs
  <1>5. k = e
    <2>1. k <= e /\ k \in Int /\ e \in Int
      BY <1>1, <1>4
    <2>2. k \in 1..(e - 1) => c[k] # "="
      OBVIOUS
    <2>3. k < e => k \in DOMAIN c /\ c[k] = "="
      BY <1>1, <1>4
    <2>4. k < e => k \in 1..(e - 1)
      BY <1>1, <2>1, <2>3
    <2> QED
      BY <2>1, <2>2, <2>3, <2>4
  <1>6. EqualsAt(c) = e
    BY <1>2, <1>3, <1>5 DEF EqualsAt
  <1>7. PICK n : n = e - 1
    OBVIOUS
  <1>8. n \in Nat /\ n <= Len(c) /\ 1 <= n + 1 /\ 1 \in Nat \ {0} /\ n - 1 + 1 = e - 1
    BY <1>1, <1>7
  <1>9. /\ SubSeq(c, 1, n) \in Seq(STRING)
        /\ Len(SubSeq(c, 1, n)) = n - 1 + 1
        /\ \A j \in 1..(n - 1 + 1) : SubSeq(c, 1, n)[j] = c[1 + j - 1]
    BY <1>8, PartOf
  <1>10. \A j \in 1..(e - 1) : 1 + j - 1 = j
    OBVIOUS
  <1>11. NamePart(c) = SubSeq(c, 1, n)
    BY <1>6, <1>7 DEF NamePart
  <1>12. PICK m : m = e + 1
    OBVIOUS
  <1>13. /\ m \in Nat \ {0} /\ Len(c) <= Len(c) /\ m <= Len(c) + 1 /\ Len(c) \in Nat
         /\ Len(c) - m + 1 = Len(c) - e
    BY <1>1, <1>12
  <1>14. /\ SubSeq(c, m, Len(c)) \in Seq(STRING)
         /\ Len(SubSeq(c, m, Len(c))) = Len(c) - m + 1
         /\ \A j \in 1..(Len(c) - m + 1) : SubSeq(c, m, Len(c))[j] = c[m + j - 1]
    BY <1>13, PartOf
  <1>15. \A j \in 1..(Len(c) - e) : m + j - 1 = e + j
    BY <1>1, <1>12
  <1>16. ConfigPart(c) = SubSeq(c, m, Len(c))
    BY <1>6, <1>12 DEF ConfigPart
  <1>17. /\ NamePart(c) \in Seq(STRING) /\ Len(NamePart(c)) = e - 1
         /\ \A j \in 1..(e - 1) : NamePart(c)[j] = c[j]
    BY <1>8, <1>9, <1>10, <1>11
  <1>18. /\ ConfigPart(c) \in Seq(STRING) /\ Len(ConfigPart(c)) = Len(c) - e
         /\ \A j \in 1..(Len(c) - e) : ConfigPart(c)[j] = c[e + j]
    BY <1>13, <1>14, <1>15, <1>16
  <1> QED
    BY <1>6, <1>17, <1>18

(* A setting has a first "=".                                              *)
LEMMA SettingDivides ==
    ASSUME NEW c \in Seq(STRING), EqualsAt(c) > 0
    PROVE  \E e \in Nat : 1 <= e /\ e <= Len(c) /\ c[e] = "=" /\ \A j \in 1..(e - 1) : c[j] # "="
  <1>1. Len(c) \in Nat /\ DOMAIN c = 1..Len(c)
    OBVIOUS
  <1>2. "=" \in ToSet(c)
    BY DEF EqualsAt
  <1>3. PICK i \in DOMAIN c : c[i] = "="
    BY <1>2 DEF ToSet
  <1>4. PICK T : T = {k \in DOMAIN c : c[k] = "="}
    OBVIOUS
  <1>5. T \subseteq Nat /\ T # {}
    BY <1>1, <1>3, <1>4
  <1>6. PICK e \in T : \A j \in T : e <= j
    BY <1>5, LeastNumber
  <1>7. e \in DOMAIN c /\ c[e] = "="
    BY <1>4, <1>6
  <1>8. \A j \in 1..(e - 1) : j \in DOMAIN c /\ ~(e <= j)
    BY <1>1, <1>7
  <1>9. e \in Nat /\ 1 <= e /\ e <= Len(c)
    BY <1>1, <1>7
  <1> QED
    BY <1>4, <1>6, <1>7, <1>8, <1>9

(* What TakeLine takes of a line that names n is what a reader takes.      *)
LEMMA LineTaken ==
    ASSUME NEW line \in Seq(STRING), NEW n \in LoginNames, IsSetting(line),
           Trimmed(NamePart(LineContent(line))) = <<n>>
    PROVE  LET v == Trimmed(ConfigPart(LineContent(line)))
           IN  Sets(line, n, v) \/ (SetsBlank(line, n) /\ v = <<PieceBefore>>)
  <1>1. Len(line) \in Nat /\ DOMAIN line = 1..Len(line)
    OBVIOUS
  <1>2. n # "blank" /\ n # "=" /\ n # "#" /\ n # PieceBefore
    BY DEF LoginNames, PieceBefore
  <1>3. PICK h, b \in Nat :
              /\ 1 <= b /\ b <= h /\ h <= Len(line) + 1
              /\ h = Len(line) + 1 \/ line[h] = "#"
              /\ \A j \in 1..(h - 1) : line[j] # "#"
              /\ \A j \in 1..(b - 1) : line[j] = "blank"
              /\ b < h => line[b] # "blank"
              /\ LineContent(line) \in Seq(STRING)
              /\ Len(LineContent(line)) = h - b
              /\ \A j \in 1..(h - b) : LineContent(line)[j] = line[b + j - 1]
    BY ContentIs
  <1>4. PICK c : c = LineContent(line)
    OBVIOUS
  <1>5. /\ c \in Seq(STRING) /\ Len(c) = h - b /\ DOMAIN c = 1..(h - b)
        /\ \A j \in 1..(h - b) : c[j] = line[b + j - 1]
    BY <1>3, <1>4
  <1>6. EqualsAt(c) > 0 /\ NamePart(c) # << >> /\ ConfigPart(c) # << >>
    BY <1>4 DEF IsSetting
  <1>7. PICK e \in Nat : 1 <= e /\ e <= Len(c) /\ c[e] = "=" /\ \A j \in 1..(e - 1) : c[j] # "="
    BY <1>5, <1>6, SettingDivides
  <1>8. /\ EqualsAt(c) = e
        /\ NamePart(c) \in Seq(STRING) /\ Len(NamePart(c)) = e - 1
        /\ \A j \in 1..(e - 1) : NamePart(c)[j] = c[j]
        /\ ConfigPart(c) \in Seq(STRING) /\ Len(ConfigPart(c)) = Len(c) - e
        /\ \A j \in 1..(Len(c) - e) : ConfigPart(c)[j] = c[e + j]
    BY <1>5, <1>7, DividesAt
  <1>9. PICK np : np = NamePart(c)
    OBVIOUS
  <1>10. PICK cp : cp = ConfigPart(c)
    OBVIOUS
  <1>11. e \in 1..(h - b) /\ h \in Nat /\ b \in Nat \ {0} /\ b <= h /\ h <= Len(line) + 1
    BY <1>1, <1>3, <1>5, <1>7
  <1>12. PICK q : q = b + e - 1
    OBVIOUS
  <1>13. q \in 1..(h - 1) /\ q \in DOMAIN line /\ line[q] = "="
    BY <1>1, <1>5, <1>7, <1>11, <1>12
  <1>14. /\ np \in Seq(STRING) /\ Len(np) = e - 1 /\ DOMAIN np = 1..(e - 1)
         /\ \A j \in 1..(e - 1) : np[j] = line[b + j - 1]
    <2>1. \A j \in 1..(e - 1) : j \in 1..(h - b)
      BY <1>11
    <2>2. np \in Seq(STRING) /\ Len(np) = e - 1 /\ \A j \in 1..(e - 1) : np[j] = c[j]
      BY <1>8, <1>9
    <2>3. DOMAIN np = 1..(e - 1)
      BY <2>2
    <2>4. \A j \in 1..(e - 1) : np[j] = line[b + j - 1]
      BY <1>5, <2>1, <2>2
    <2> QED
      BY <2>2, <2>3, <2>4
  <1>15. /\ cp \in Seq(STRING) /\ Len(cp) = h - b - e /\ DOMAIN cp = 1..(h - b - e)
         /\ \A j \in 1..(h - b - e) : cp[j] = line[q + j]
    <2>1. \A j \in 1..(h - b - e) : e + j \in 1..(h - b) /\ b + (e + j) - 1 = q + j
      BY <1>11, <1>12
    <2>2. cp \in Seq(STRING) /\ Len(cp) = h - b - e /\ \A j \in 1..(h - b - e) : cp[j] = c[e + j]
      BY <1>5, <1>8, <1>10
    <2>3. DOMAIN cp = 1..(h - b - e)
      BY <2>2
    <2>4. ASSUME NEW j \in 1..(h - b - e) PROVE cp[j] = line[q + j]
      <3>1. e + j \in 1..(h - b) /\ b + (e + j) - 1 = q + j
        BY <2>1
      <3>2. cp[j] = c[e + j] /\ c[e + j] = line[b + (e + j) - 1]
        BY <1>5, <2>2, <3>1
      <3> QED
        BY <3>1, <3>2
    <2> QED
      BY <2>2, <2>3, <2>4
  <1>16. h - b - e \in Nat \ {0} /\ h \in (q + 2)..(Len(line) + 1)
    <2>1. cp # << >>
      BY <1>6, <1>10
    <2>2. h - b - e # 0
      BY <1>15, <2>1
    <2>3. h - b - e \in Int /\ h - b - e >= 0
      BY <1>11
    <2> QED
      BY <1>1, <1>11, <1>12, <2>2, <2>3
  (* The name is one piece, with blanks around it.                         *)
  <1>17. \E i \in DOMAIN np : np[i] # "blank"
    <2> SUFFICES ASSUME \A i \in DOMAIN np : np[i] = "blank" PROVE FALSE
      OBVIOUS
    <2>1. Trimmed(np) = <<PieceBefore>>
      BY <1>14, TrimmedBlank
    <2>2. <<n>> = <<PieceBefore>>
      BY <1>4, <1>9, <2>1
    <2> QED
      BY <1>2, <2>2
  <1>18. PICK f1, l1 \in Nat :
              /\ 1 <= f1 /\ f1 <= l1 /\ l1 <= Len(np)
              /\ Trimmed(np) = SubSeq(np, f1, l1)
              /\ np[f1] # "blank" /\ np[l1] # "blank"
              /\ \A j \in DOMAIN np : j \notin f1..l1 => np[j] = "blank"
    BY <1>14, <1>17, TrimmedIs
  <1>19. l1 = f1 /\ np[f1] = n
    <2>1. SubSeq(np, f1, l1) = <<n>>
      BY <1>4, <1>9, <1>18
    <2>2. f1 \in Nat \ {0} /\ l1 \in Nat /\ f1 <= l1 + 1 /\ l1 <= Len(np) /\ f1 <= l1
      BY <1>11, <1>14, <1>18
    <2>3. /\ Len(SubSeq(np, f1, l1)) = l1 - f1 + 1
          /\ \A j \in 1..(l1 - f1 + 1) : SubSeq(np, f1, l1)[j] = np[f1 + j - 1]
      BY <1>14, <2>2, PartOf
    <2>4. l1 - f1 + 1 = 1
      BY <2>1, <2>3
    <2>5. SubSeq(np, f1, l1)[1] = np[f1 + 1 - 1] /\ f1 + 1 - 1 = f1
      BY <2>2, <2>3, <2>4
    <2>6. <<n>>[1] = n
      OBVIOUS
    <2> QED
      BY <2>1, <2>2, <2>4, <2>5, <2>6
  <1>20. PICK k : k = b + f1 - 1
    OBVIOUS
  <1>21. k \in 1..(q - 1) /\ line[k] = n
    BY <1>11, <1>12, <1>14, <1>18, <1>19, <1>20
  <1>22. \A j \in 1..(q - 1) : j # k => line[j] = "blank"
    <2> SUFFICES ASSUME NEW j \in 1..(q - 1), j # k PROVE line[j] = "blank"
      OBVIOUS
    <2>1. CASE j < b
      BY <1>3, <1>11, <2>1
    <2>2. CASE ~(j < b)
      <3>1. PICK i : i = j - b + 1
        OBVIOUS
      <3>2. i \in 1..(e - 1) /\ i # f1 /\ b + i - 1 = j
        BY <1>11, <1>12, <1>14, <1>18, <1>20, <2>2, <3>1
      <3>3. i \notin f1..l1
        BY <1>14, <1>18, <1>19, <3>2
      <3>4. np[i] = "blank"
        BY <1>14, <1>18, <3>2, <3>3
      <3> QED
        BY <1>14, <3>2, <3>4
    <2> QED
      BY <2>1, <2>2
  <1>23. Trimmed(ConfigPart(LineContent(line))) = Trimmed(cp)
    BY <1>4, <1>10
  (* Nothing but blanks are given.                                         *)
  <1>24. CASE \A i \in DOMAIN cp : cp[i] = "blank"
    <2>1. Trimmed(cp) = <<PieceBefore>>
      BY <1>15, <1>24, TrimmedBlank
    <2>2. \A j \in (1..(h - 1)) \ ({k, q} \cup (1..0)) : line[j] = "blank"
      <3> SUFFICES ASSUME NEW j \in 1..(h - 1), j # k, j # q PROVE line[j] = "blank"
        OBVIOUS
      <3>1. CASE j < q
        BY <1>11, <1>12, <1>22, <3>1
      <3>2. CASE ~(j < q)
        <4>1. PICK i : i = j - q
          OBVIOUS
        <4>2. i \in 1..(h - b - e) /\ q + i = j
          BY <1>11, <1>12, <3>2, <4>1
        <4> QED
          BY <1>15, <1>24, <4>2
      <3> QED
        BY <3>1, <3>2
    <2>3. \A j \in 1..0 : line[j] # "#"
      OBVIOUS
    <2>4. Reads(line, n, q, 1, 0, h)
      BY <1>3, <1>13, <1>21, <2>2, <2>3 DEF Reads
    <2>5. SetsBlank(line, n)
      BY <1>13, <1>16, <2>4 DEF SetsBlank
    <2> QED
      BY <1>23, <2>1, <2>5
  (* Or a value, with blanks around it.                                    *)
  <1>25. CASE \E i \in DOMAIN cp : cp[i] # "blank"
    <2>1. PICK f2, l2 \in Nat :
              /\ 1 <= f2 /\ f2 <= l2 /\ l2 <= Len(cp)
              /\ Trimmed(cp) = SubSeq(cp, f2, l2)
              /\ cp[f2] # "blank" /\ cp[l2] # "blank"
              /\ \A j \in DOMAIN cp : j \notin f2..l2 => cp[j] = "blank"
      BY <1>15, <1>25, TrimmedIs
    <2>2. PICK f : f = q + f2
      OBVIOUS
    <2>3. PICK l : l = q + l2
      OBVIOUS
    <2>4. f2 \in 1..(h - b - e) /\ l2 \in 1..(h - b - e) /\ f2 <= l2 /\ q + (h - b - e) = h - 1
      BY <1>11, <1>12, <1>15, <1>16, <2>1
    <2>5. /\ f \in (q + 1)..Len(line) /\ l \in f..Len(line) /\ h \in (l + 1)..(Len(line) + 1)
          /\ q \in Nat /\ f >= q + 1 /\ l <= h - 1
      BY <1>1, <1>11, <1>12, <1>13, <2>2, <2>3, <2>4
    <2>6. line[f] # "blank" /\ line[l] # "blank"
      BY <1>15, <2>1, <2>2, <2>3, <2>4
    <2>7. \A j \in (1..(h - 1)) \ ({k, q} \cup (f..l)) : line[j] = "blank"
      <3> SUFFICES ASSUME NEW j \in 1..(h - 1), j # k, j # q, j \notin f..l PROVE line[j] = "blank"
        OBVIOUS
      <3>1. CASE j < q
        BY <1>11, <1>12, <1>22, <3>1
      <3>2. CASE ~(j < q)
        <4>1. PICK i : i = j - q
          OBVIOUS
        <4>2. i \in 1..(h - b - e) /\ q + i = j
          BY <1>11, <1>12, <3>2, <4>1
        <4>3. i \notin f2..l2
          BY <2>2, <2>3, <2>4, <2>5, <4>2
        <4>4. cp[i] = "blank"
          BY <1>15, <2>1, <4>2, <4>3
        <4> QED
          BY <1>15, <4>2, <4>4
      <3> QED
        BY <3>1, <3>2
    <2>8. \A j \in f..l : line[j] # "#"
      <3>1. \A j \in f..l : j \in 1..(h - 1)
        BY <1>11, <1>13, <2>5
      <3> QED
        BY <1>3, <3>1
    <2>9. Reads(line, n, q, f, l, h)
      BY <1>3, <1>13, <1>21, <2>7, <2>8 DEF Reads
    <2>10. SubSeq(cp, f2, l2) = SubSeq(line, f, l)
      <3>1. f2 \in Nat \ {0} /\ l2 \in Nat /\ f2 <= l2 + 1 /\ l2 <= Len(cp)
        BY <1>15, <1>16, <2>4
      <3>2. f \in Nat \ {0} /\ l \in Nat /\ f <= l + 1 /\ l <= Len(line) /\ l - f + 1 = l2 - f2 + 1
        BY <1>1, <2>2, <2>3, <2>4, <2>5
      <3>3. /\ SubSeq(cp, f2, l2) \in Seq(STRING)
            /\ Len(SubSeq(cp, f2, l2)) = l2 - f2 + 1
            /\ \A j \in 1..(l2 - f2 + 1) : SubSeq(cp, f2, l2)[j] = cp[f2 + j - 1]
        BY <1>15, <3>1, PartOf
      <3>4. /\ SubSeq(line, f, l) \in Seq(STRING)
            /\ Len(SubSeq(line, f, l)) = l - f + 1
            /\ \A j \in 1..(l - f + 1) : SubSeq(line, f, l)[j] = line[f + j - 1]
        BY <3>2, PartOf
      <3>5. \A j \in 1..(l2 - f2 + 1) :
                f2 + j - 1 \in 1..(h - b - e) /\ q + (f2 + j - 1) = f + j - 1
        BY <2>2, <2>4, <2>5
      <3>6. \A j \in 1..(l2 - f2 + 1) : SubSeq(cp, f2, l2)[j] = SubSeq(line, f, l)[j]
        BY <1>15, <3>2, <3>3, <3>4, <3>5
      <3> QED
        BY <3>2, <3>3, <3>4, <3>6, SeqEqual
    <2>11. Sets(line, n, SubSeq(line, f, l))
      BY <1>13, <2>5, <2>6, <2>9 DEF Sets
    <2> QED
      BY <1>23, <2>1, <2>10, <2>11
  <1> QED
    BY <1>24, <1>25

(* What a reader takes to name n is taken by TakeLine for n.               *)
LEMMA ReadIsTaken ==
    ASSUME NEW line \in Seq(STRING), NEW n \in LoginNames,
           NEW q \in Nat, NEW h \in Nat, NEW f \in Nat, NEW l \in Nat,
           1 <= q, q + 1 < h, h <= Len(line) + 1, q < f \/ l < f, Reads(line, n, q, f, l, h)
    PROVE  IsSetting(line) /\ Trimmed(NamePart(LineContent(line))) = <<n>>
  <1>1. Len(line) \in Nat /\ DOMAIN line = 1..Len(line)
    OBVIOUS
  <1>2. n # "blank" /\ n # "=" /\ n # "#"
    BY DEF LoginNames
  <1>3. PICK k \in Nat :
          /\ 1 <= k /\ k < q /\ line[k] = n /\ line[q] = "="
          /\ \A j \in (1..(h - 1)) \ ({k, q} \cup (f..l)) : line[j] = "blank"
    BY DEF Reads
  <1>4. h = Len(line) + 1 \/ line[h] = "#"
    BY DEF Reads
  <1>5. \A j \in f..l : line[j] # "#"
    BY DEF Reads
  <1>6. q \in Nat /\ k \in Nat /\ h \in Nat /\ 1 <= k /\ k < q /\ q + 1 < h /\ h <= Len(line) + 1
    BY <1>1, <1>3
  <1>7. \A j \in 1..(h - 1) : line[j] # "#"
    BY <1>2, <1>3, <1>5
  <1>8. \A j \in 1..(q - 1) : j # k => line[j] = "blank"
    <2>1. \A j \in 1..(q - 1) : j \in 1..(h - 1) /\ j # q /\ j \notin f..l
      BY <1>6
    <2> QED
      BY <1>3, <2>1
  <1>9. PICK hh, b \in Nat :
              /\ 1 <= b /\ b <= hh /\ hh <= Len(line) + 1
              /\ hh = Len(line) + 1 \/ line[hh] = "#"
              /\ \A j \in 1..(hh - 1) : line[j] # "#"
              /\ \A j \in 1..(b - 1) : line[j] = "blank"
              /\ b < hh => line[b] # "blank"
              /\ LineContent(line) \in Seq(STRING)
              /\ Len(LineContent(line)) = hh - b
              /\ \A j \in 1..(hh - b) : LineContent(line)[j] = line[b + j - 1]
    BY ContentIs
  <1>10. hh = h
    <2>0. hh \in Nat /\ b \in Nat /\ hh <= Len(line) + 1 /\ 1 <= hh
      BY <1>1, <1>9
    <2>1. ~(hh < h)
      <3> SUFFICES ASSUME hh < h PROVE FALSE
        OBVIOUS
      <3>1. hh \in 1..(h - 1) /\ hh # Len(line) + 1
        BY <1>1, <1>6, <2>0
      <3> QED
        BY <1>7, <1>9, <3>1
    <2>2. ~(h < hh)
      <3> SUFFICES ASSUME h < hh PROVE FALSE
        OBVIOUS
      <3>1. h \in 1..(hh - 1) /\ h # Len(line) + 1
        BY <1>1, <1>6, <2>0
      <3> QED
        BY <1>4, <1>9, <3>1
    <2> QED
      BY <1>6, <2>0, <2>1, <2>2
  <1>11. b = k
    <2>0. b \in Nat /\ 1 <= b /\ b <= h
      BY <1>9, <1>10
    <2>1. ~(k < b)
      <3> SUFFICES ASSUME k < b PROVE FALSE
        OBVIOUS
      <3>1. k \in 1..(b - 1)
        BY <1>6, <2>0
      <3> QED
        BY <1>2, <1>3, <1>9, <3>1
    <2>2. ~(b < k)
      <3> SUFFICES ASSUME b < k PROVE FALSE
        OBVIOUS
      <3>1. b \in 1..(q - 1) /\ b # k /\ b < hh
        BY <1>6, <1>10, <2>0
      <3> QED
        BY <1>8, <1>9, <3>1
    <2> QED
      BY <1>6, <2>0, <2>1, <2>2
  <1>12. PICK c : c = LineContent(line)
    OBVIOUS
  <1>13. /\ c \in Seq(STRING) /\ Len(c) = h - k /\ DOMAIN c = 1..(h - k)
         /\ \A j \in 1..(h - k) : c[j] = line[k + j - 1]
    BY <1>9, <1>10, <1>11, <1>12
  <1>14. PICK e : e = q - k + 1
    OBVIOUS
  <1>15. e \in 1..(h - k) /\ k + e - 1 = q /\ 2 <= e /\ e < h - k
    BY <1>6, <1>14
  <1>16. e \in DOMAIN c /\ c[e] = "="
    BY <1>3, <1>13, <1>15
  <1>17. c[1] = n
    <2>1. 1 \in 1..(h - k) /\ k + 1 - 1 = k
      BY <1>6
    <2> QED
      BY <1>3, <1>13, <2>1
  <1>18. \A j \in 2..(e - 1) : c[j] = "blank"
    <2>1. \A j \in 2..(e - 1) : j \in 1..(h - k) /\ k + j - 1 \in 1..(q - 1) /\ k + j - 1 # k
      BY <1>6, <1>15
    <2> QED
      BY <1>8, <1>13, <2>1
  <1>19. \A j \in 1..(e - 1) : c[j] # "="
    <2>1. \A j \in 1..(e - 1) : j = 1 \/ j \in 2..(e - 1)
      BY <1>15
    <2> QED
      BY <1>2, <1>17, <1>18, <2>1
  <1>20. /\ EqualsAt(c) = e
         /\ NamePart(c) \in Seq(STRING) /\ Len(NamePart(c)) = e - 1
         /\ \A j \in 1..(e - 1) : NamePart(c)[j] = c[j]
         /\ ConfigPart(c) \in Seq(STRING) /\ Len(ConfigPart(c)) = Len(c) - e
    <2>1. e \in Nat /\ 1 <= e /\ e <= Len(c) /\ c[e] = "="
      BY <1>6, <1>13, <1>14, <1>15, <1>16
    <2> QED
      BY <1>13, <1>19, <2>1, DividesAt
  <1>21. PICK np : np = NamePart(c)
    OBVIOUS
  <1>22. /\ np \in Seq(STRING) /\ Len(np) = e - 1 /\ DOMAIN np = 1..(e - 1)
         /\ np[1] = n /\ \A j \in 2..(e - 1) : np[j] = "blank"
    <2>1. 1 \in 1..(e - 1) /\ \A j \in 2..(e - 1) : j \in 1..(e - 1)
      BY <1>15
    <2>2. np \in Seq(STRING) /\ Len(np) = e - 1 /\ \A j \in 1..(e - 1) : np[j] = c[j]
      BY <1>20, <1>21
    <2>3. DOMAIN np = 1..(e - 1)
      BY <2>2
    <2> QED
      BY <1>17, <1>18, <2>1, <2>2, <2>3
  <1>23. 1 \in DOMAIN np /\ np[1] # "blank"
    BY <1>2, <1>15, <1>22
  <1>24. PICK f1, l1 \in Nat :
              /\ 1 <= f1 /\ f1 <= l1 /\ l1 <= Len(np)
              /\ Trimmed(np) = SubSeq(np, f1, l1)
              /\ np[f1] # "blank" /\ np[l1] # "blank"
              /\ \A j \in DOMAIN np : j \notin f1..l1 => np[j] = "blank"
    BY <1>22, <1>23, TrimmedIs
  <1>25. f1 = 1 /\ l1 = 1
    <2>1. f1 \in 1..(e - 1) /\ l1 \in 1..(e - 1)
      BY <1>15, <1>22, <1>24
    <2>2. f1 \notin 2..(e - 1) /\ l1 \notin 2..(e - 1)
      BY <1>22, <1>24
    <2> QED
      BY <1>15, <2>1, <2>2
  <1>26. Trimmed(np) = <<n>>
    <2>0. 1 \in Nat \ {0} /\ 1 \in Nat /\ 1 <= 1 + 1 /\ 1 <= Len(np)
      BY <1>15, <1>22
    <2>1. /\ SubSeq(np, 1, 1) \in Seq(STRING)
          /\ Len(SubSeq(np, 1, 1)) = 1 - 1 + 1
          /\ \A j \in 1..(1 - 1 + 1) : SubSeq(np, 1, 1)[j] = np[1 + j - 1]
      BY <1>22, <2>0, PartOf
    <2>2. 1 \in 1..(1 - 1 + 1) /\ 1 + 1 - 1 = 1 /\ 1 - 1 + 1 = 1
      OBVIOUS
    <2>3. SubSeq(np, 1, 1)[1] = n /\ Len(SubSeq(np, 1, 1)) = 1
      BY <1>22, <2>1, <2>2
    <2>7. n \in STRING
      <3>1. k \in DOMAIN line
        BY <1>1, <1>6
      <3> QED
        BY <1>3, <3>1
    <2>8. <<n>> \in Seq(STRING)
      BY <2>7, OfOne
    <2>9. Len(<<n>>) = 1 /\ <<n>>[1] = n
      OBVIOUS
    <2>4. <<n>> \in Seq(STRING) /\ Len(<<n>>) = 1 /\ <<n>>[1] = n
      BY <2>8, <2>9
    <2>5. \A j \in 1..1 : SubSeq(np, 1, 1)[j] = <<n>>[j]
      BY <2>3, <2>4
    <2>6. SubSeq(np, 1, 1) = <<n>>
      BY <2>1, <2>3, <2>4, <2>5, SeqEqual
    <2> QED
      BY <1>24, <1>25, <2>6
  <1>27. EqualsAt(c) > 0
    BY <1>15, <1>20
  <1>28. NamePart(c) # << >>
    <2>1. Len(NamePart(c)) # 0
      BY <1>15, <1>20
    <2> QED
      BY <2>1
  <1>29. ConfigPart(c) # << >>
    <2>1. Len(ConfigPart(c)) # 0
      BY <1>13, <1>15, <1>20
    <2> QED
      BY <2>1
  <1> QED
    BY <1>12, <1>21, <1>26, <1>27, <1>28, <1>29 DEF IsSetting

-----------------------------------------------------------------------------
(* get_dbconfig, line after line.                                          *)

(* The line says something of n.                                           *)
Mentioned(line, n) ==
    \/ SetsBlank(line, n)
    \/ \E f, l \in 1..Len(line) : Sets(line, n, SubSeq(line, f, l))

(* Exactly those lines are taken for n.                                    *)
LEMMA MentionedIsTaken ==
    ASSUME NEW line \in Seq(STRING), NEW n \in LoginNames
    PROVE  Mentioned(line, n) <=>
              IsSetting(line) /\ Trimmed(NamePart(LineContent(line))) = <<n>>
  <1>0. Len(line) \in Nat /\ DOMAIN line = 1..Len(line)
    OBVIOUS
  <1>1. ASSUME IsSetting(line), Trimmed(NamePart(LineContent(line))) = <<n>>
        PROVE  Mentioned(line, n)
    <2>1. PICK v : v = Trimmed(ConfigPart(LineContent(line)))
      OBVIOUS
    <2>2. CASE SetsBlank(line, n)
      BY <2>2 DEF Mentioned
    <2>3. CASE Sets(line, n, v)
      <3>1. PICK q \in DOMAIN line : \E f \in (q + 1)..Len(line) : \E l \in f..Len(line) :
                \E h \in (l + 1)..(Len(line) + 1) :
                    /\ Reads(line, n, q, f, l, h)
                    /\ line[f] # "blank" /\ line[l] # "blank"
                    /\ v = SubSeq(line, f, l)
        BY <2>3 DEF Sets
      <3>2. PICK f \in (q + 1)..Len(line) : \E l \in f..Len(line) : v = SubSeq(line, f, l)
        BY <3>1
      <3>3. PICK l \in f..Len(line) : v = SubSeq(line, f, l)
        BY <3>2
      <3>4. q \in 1..Len(line)
        BY <1>0
      <3>5. f \in 1..Len(line) /\ l \in 1..Len(line)
        BY <1>0, <3>4
      <3>6. Sets(line, n, SubSeq(line, f, l))
        BY <2>3, <3>3
      <3> QED
        BY <3>5, <3>6 DEF Mentioned
    <2> QED
      BY <1>1, <2>1, <2>2, <2>3, LineTaken
  <1>2. ASSUME SetsBlank(line, n)
        PROVE  IsSetting(line) /\ Trimmed(NamePart(LineContent(line))) = <<n>>
    <2>1. PICK q \in DOMAIN line : \E h \in (q + 2)..(Len(line) + 1) : Reads(line, n, q, 1, 0, h)
      BY <1>2 DEF SetsBlank
    <2>2. q \in 1..Len(line) /\ q \in Nat /\ 1 <= q
      BY <1>0
    <2>3. PICK h \in (q + 2)..(Len(line) + 1) : Reads(line, n, q, 1, 0, h)
      BY <2>1
    <2>4. h \in Nat /\ q + 1 < h /\ h <= Len(line) + 1
      BY <1>0, <2>2
    <2>5. 1 \in Nat /\ 0 \in Nat /\ (q < 1 \/ 0 < 1)
      OBVIOUS
    <2> QED
      BY <2>2, <2>3, <2>4, <2>5, ReadIsTaken
  <1>3. ASSUME NEW v, Sets(line, n, v)
        PROVE  IsSetting(line) /\ Trimmed(NamePart(LineContent(line))) = <<n>>
    <2>1. PICK q \in DOMAIN line : \E f \in (q + 1)..Len(line) : \E l \in f..Len(line) :
              \E h \in (l + 1)..(Len(line) + 1) : Reads(line, n, q, f, l, h)
      BY <1>3 DEF Sets
    <2>2. q \in 1..Len(line) /\ q \in Nat /\ 1 <= q
      BY <1>0
    <2>3. PICK f \in (q + 1)..Len(line) : \E l \in f..Len(line) :
              \E h \in (l + 1)..(Len(line) + 1) : Reads(line, n, q, f, l, h)
      BY <2>1
    <2>4. f \in Nat /\ q + 1 <= f
      BY <1>0, <2>2
    <2>5. PICK l \in f..Len(line) :
              \E h \in (l + 1)..(Len(line) + 1) : Reads(line, n, q, f, l, h)
      BY <2>3
    <2>6. l \in Nat /\ f <= l
      BY <1>0, <2>4
    <2>7. PICK h \in (l + 1)..(Len(line) + 1) : Reads(line, n, q, f, l, h)
      BY <2>5
    <2>8. h \in Nat /\ l + 1 <= h /\ h <= Len(line) + 1
      BY <1>0, <2>6
    <2>9. q + 1 < h /\ (q < f \/ l < f)
      BY <2>2, <2>4, <2>6, <2>8
    <2> QED
      BY <2>2, <2>4, <2>6, <2>7, <2>8, <2>9, ReadIsTaken
  <1> QED
    BY <1>1, <1>2, <1>3 DEF Mentioned

(* The lines that have been read and say something of n.                   *)
MentionsSoFar(n) == {i \in 1..(line_no - 1) : Mentioned(config_file[i], n)}

(* What is known of n is what the last of them says.                       *)
LoginInv ==
    \A n \in LoginNames :
        IF MentionsSoFar(n) = {}
          THEN login[n] = Defaults[n]
          ELSE LET line == config_file[Max(MentionsSoFar(n))]
               IN  \/ Sets(line, n, login[n])
                   \/ SetsBlank(line, n) /\ login[n] = <<PieceBefore>>

FileInv == ConfigTypeOK /\ LoginInv

(* The lines of a file are sequences of pieces.                            *)
LEMMA FileTypes ==
    ASSUME FileInv
    PROVE  /\ config_file \in Seq(Seq(STRING)) /\ Len(config_file) \in Nat
           /\ DOMAIN config_file = 1..Len(config_file)
           /\ line_no \in Nat /\ 1 <= line_no /\ line_no <= Len(config_file) + 1
           /\ ReadsLine => LineRead \in Seq(STRING)
  <1>1. config_file \in Seq(Seq(STRING))
    BY FilesAssumption DEF FileInv, ConfigTypeOK
  <1>2. Len(config_file) \in Nat /\ DOMAIN config_file = 1..Len(config_file)
    BY <1>1
  <1>3. line_no \in 1..(Len(config_file) + 1)
    BY DEF FileInv, ConfigTypeOK
  <1>4. line_no \in Nat /\ 1 <= line_no /\ line_no <= Len(config_file) + 1
    BY <1>2, <1>3
  <1>5. ReadsLine => LineRead \in Seq(STRING)
    BY <1>1, <1>2, <1>4 DEF ReadsLine, LineRead
  <1> QED
    BY <1>1, <1>2, <1>4, <1>5

(* The line that is read is one more, if it says something of n.           *)
LEMMA OneLineMore ==
    ASSUME FileInv, ReadsLine, line_no' = line_no + 1, config_file' = config_file,
           NEW n \in LoginNames
    PROVE  /\ Mentioned(LineRead, n) => Max(MentionsSoFar(n)') = line_no
                                        /\ MentionsSoFar(n)' # {}
           /\ ~Mentioned(LineRead, n) => MentionsSoFar(n)' = MentionsSoFar(n)
  <1>1. line_no \in Nat /\ 1 <= line_no
    BY FileTypes
  <1>2. MentionsSoFar(n)' = {i \in 1..line_no : Mentioned(config_file[i], n)}
    <2>1. (line_no + 1) - 1 = line_no
      BY <1>1
    <2> QED
      BY <2>1 DEF MentionsSoFar
  <1>3. PICK T : T = {i \in 1..line_no : Mentioned(config_file[i], n)}
    OBVIOUS
  <1>4. ASSUME Mentioned(LineRead, n) PROVE Max(T) = line_no /\ T # {}
    <2>1. line_no \in T
      BY <1>1, <1>3, <1>4 DEF LineRead
    <2>2. T \subseteq 0..line_no /\ T # {}
      BY <1>1, <1>3, <2>1
    <2>3. Max(T) \in T /\ line_no <= Max(T)
      BY <1>1, <2>1, <2>2, MaxIs
    <2>4. Max(T) \in 1..line_no
      BY <1>3, <2>3
    <2> QED
      BY <1>1, <2>2, <2>3, <2>4
  <1>5. ASSUME ~Mentioned(LineRead, n) PROVE T = MentionsSoFar(n)
    <2>1. \A i \in 1..line_no : i \in 1..(line_no - 1) \/ i = line_no
      BY <1>1
    <2>2. \A i \in 1..(line_no - 1) : i \in 1..line_no
      BY <1>1
    <2>3. line_no \notin T
      BY <1>3, <1>5 DEF LineRead
    <2> QED
      BY <1>3, <2>1, <2>2, <2>3 DEF MentionsSoFar
  <1> QED
    BY <1>2, <1>3, <1>4, <1>5

(* Every line that is read keeps the invariant.                            *)
LEMMA FileLineStep == ASSUME FileInv, ConfigNext PROVE FileInv'
  <1>0. /\ config_file \in Seq(Seq(STRING)) /\ Len(config_file) \in Nat
        /\ line_no \in Nat /\ 1 <= line_no /\ line_no <= Len(config_file) + 1
        /\ ReadsLine => LineRead \in Seq(STRING)
    BY FileTypes
  <1>1. ReadsLine /\ line_no' = line_no + 1 /\ config_file' = config_file
    BY DEF ConfigNext, SkipLine, TakeLine
  <1>2. ConfigTypeOK'
    <2>1. line_no' \in 1..(Len(config_file') + 1)
      BY <1>0, <1>1 DEF ReadsLine
    <2>2. DOMAIN login' = LoginNames
      <3>1. CASE SkipLine
        BY <3>1 DEF SkipLine, FileInv, ConfigTypeOK
      <3>2. CASE TakeLine
        BY <3>2 DEF TakeLine
      <3> QED
        BY <3>1, <3>2 DEF ConfigNext
    <2>3. config_file' \in ConfigFiles
      BY <1>1 DEF FileInv, ConfigTypeOK
    <2> QED
      BY <2>1, <2>2, <2>3 DEF ConfigTypeOK
  <1>3. ASSUME NEW n \in LoginNames
        PROVE  IF MentionsSoFar(n)' = {}
                 THEN login'[n] = Defaults[n]
                 ELSE LET line == config_file[Max(MentionsSoFar(n)')]
                      IN  \/ Sets(line, n, login'[n])
                          \/ SetsBlank(line, n) /\ login'[n] = <<PieceBefore>>
    <2>1. Mentioned(LineRead, n) <=>
              IsSetting(LineRead) /\ Trimmed(NamePart(LineContent(LineRead))) = <<n>>
      BY <1>0, <1>1, MentionedIsTaken
    <2>2. CASE Mentioned(LineRead, n)
      <3>1. TakeLine
        BY <2>1, <2>2 DEF ConfigNext, SkipLine
      <3>2. login'[n] = Trimmed(ConfigPart(LineContent(LineRead)))
        BY <2>1, <2>2, <3>1 DEF TakeLine
      <3>3. \/ Sets(LineRead, n, login'[n])
            \/ SetsBlank(LineRead, n) /\ login'[n] = <<PieceBefore>>
        BY <1>0, <1>1, <2>1, <2>2, <3>2, LineTaken
      <3>4. Max(MentionsSoFar(n)') = line_no /\ MentionsSoFar(n)' # {}
        BY <1>1, <2>2, OneLineMore
      <3>5. config_file[Max(MentionsSoFar(n)')] = LineRead
        BY <3>4 DEF LineRead
      <3> QED
        BY <3>3, <3>4, <3>5
    <2>3. CASE ~Mentioned(LineRead, n)
      <3>1. MentionsSoFar(n)' = MentionsSoFar(n)
        BY <1>1, <2>3, OneLineMore
      <3>2. login'[n] = login[n]
        <4>1. CASE SkipLine
          BY <4>1 DEF SkipLine
        <4>2. CASE TakeLine
          BY <2>1, <2>3, <4>2 DEF TakeLine
        <4> QED
          BY <4>1, <4>2 DEF ConfigNext
      <3> QED
        BY <3>1, <3>2 DEF FileInv, LoginInv
    <2> QED
      BY <2>2, <2>3
  <1>4. LoginInv'
    BY <1>1, <1>3 DEF LoginInv
  <1> QED
    BY <1>2, <1>4 DEF FileInv

(* Nothing is read at first, and the login has its defaults.               *)
LEMMA FileStarts == ConfigInit => FileInv
  <1> SUFFICES ASSUME ConfigInit PROVE FileInv
    OBVIOUS
  <1>1. config_file \in ConfigFiles /\ line_no = 1 /\ login = Defaults
    BY DEF ConfigInit
  <1>2. Len(config_file) \in Nat
    BY <1>1, FilesAssumption
  <1>3. DOMAIN login = LoginNames
    BY <1>1 DEF Defaults, LoginNames
  <1>4. \A n \in LoginNames : MentionsSoFar(n) = {}
    BY <1>1 DEF MentionsSoFar
  <1> QED
    BY <1>1, <1>2, <1>3, <1>4 DEF FileInv, ConfigTypeOK, LoginInv

(* The inductive invariant of the file with the name of the database.      *)
THEOREM FileInvariant == ConfigSpec => []FileInv
  <1>1. ConfigInit => FileInv
    BY FileStarts
  <1>2. FileInv /\ [ConfigNext]_loginVars => FileInv'
    <2> SUFFICES ASSUME FileInv, [ConfigNext]_loginVars PROVE FileInv'
      OBVIOUS
    <2>1. CASE ConfigNext
      BY <2>1, FileLineStep
    <2>2. CASE UNCHANGED loginVars
      BY <2>2 DEF loginVars, FileInv, ConfigTypeOK, LoginInv, MentionsSoFar
    <2> QED
      BY <2>1, <2>2
  <1> QED
    BY <1>1, <1>2, PTL DEF ConfigSpec

(* What the programs log in with is what the file says: of each name, the  *)
(* last line that sets it, or the default (get_dbconfig).                  *)
THEOREM ConfigIsReadRight == ConfigSpec => []ConfigReadRight
  <1>1. FileInv => ConfigReadRight
    <2> SUFFICES ASSUME FileInv, ~ReadsLine, NEW n \in LoginNames
                 PROVE  IF Mentions(n) = {}
                          THEN login[n] = Defaults[n]
                          ELSE LET line == config_file[Max(Mentions(n))]
                               IN  \/ Sets(line, n, login[n])
                                   \/ SetsBlank(line, n) /\ login[n] = <<PieceBefore>>
      BY DEF ConfigReadRight
    <2>1. /\ DOMAIN config_file = 1..Len(config_file) /\ Len(config_file) \in Nat
          /\ line_no \in Nat /\ 1 <= line_no /\ line_no <= Len(config_file) + 1
      BY FileTypes
    <2>2. line_no - 1 = Len(config_file)
      BY <2>1 DEF ReadsLine
    <2>3. Mentions(n) = MentionsSoFar(n)
      BY <2>1, <2>2 DEF Mentions, MentionsSoFar, Mentioned
    <2> QED
      BY <2>3 DEF FileInv, LoginInv
  <1> QED
    BY <1>1, FileInvariant, PTL

(* The names read are always the three, and the file is not written.       *)
THEOREM ConfigTypeCorrect == ConfigSpec => []ConfigTypeOK
  <1>1. FileInv => ConfigTypeOK
    BY DEF FileInv
  <1> QED
    BY <1>1, FileInvariant, PTL

-----------------------------------------------------------------------------
(* The texts of query variables (SqlVar).                                  *)

(* A variable that holds a column (SqlVar): decimal digits.                *)

Digits == Seq(0..9)

(* g gives the digits of the numbers up to n.                              *)
GivesDigits(g, n) ==
    \A m \in 0..n : g[m] = IF m < 10 THEN <<m>> ELSE Append(g[m \div 10], m % 10)

(* The last digit of a number, and the number without it.                  *)
LEMMA LastDigit ==
    ASSUME NEW n \in Nat
    PROVE  /\ n \div 10 \in Nat /\ n \div 10 <= n /\ n % 10 \in 0..9
           /\ n = (10 * (n \div 10)) + (n % 10)
           /\ n >= 10 => n \div 10 < n /\ n \div 10 > 0
           /\ n < 10 => n \in 0..9 /\ n \div 10 = 0 /\ n % 10 = n
  OBVIOUS

(* Two such functions agree where both give digits.                        *)
LEMMA DigitsUnique ==
    ASSUME NEW n \in Nat, NEW k \in Nat, NEW g, NEW h, GivesDigits(g, n), GivesDigits(h, k),
           NEW m \in Nat, m <= n, m <= k
    PROVE  g[m] = h[m]
  <1> SUFFICES ASSUME {i \in 0..m : g[i] # h[i]} # {} PROVE FALSE
    OBVIOUS
  <1>1. PICK T : T = {i \in 0..m : g[i] # h[i]}
    OBVIOUS
  <1>2. T \subseteq Nat /\ T # {}
    BY <1>1
  <1>3. PICK i \in T : \A j \in T : i <= j
    BY <1>2, LeastNumber
  <1>4. i \in Nat /\ i <= m /\ g[i] # h[i] /\ i \in 0..n /\ i \in 0..k
    BY <1>1, <1>3
  <1>5. i >= 10
    <2>1. i < 10 => g[i] = <<i>> /\ h[i] = <<i>>
      BY <1>4 DEF GivesDigits
    <2> QED
      BY <1>4, <2>1
  <1>6. i \div 10 \in Nat /\ i \div 10 < i
    BY <1>4, <1>5, LastDigit
  <1>7. g[i \div 10] = h[i \div 10]
    <2>1. i \div 10 \in 0..m /\ ~(i <= i \div 10)
      BY <1>4, <1>6
    <2> QED
      BY <1>1, <1>3, <2>1
  <1>8. g[i] = Append(g[i \div 10], i % 10) /\ h[i] = Append(h[i \div 10], i % 10)
    <2>1. ~(i < 10)
      BY <1>4, <1>5
    <2> QED
      BY <1>4, <2>1 DEF GivesDigits
  <1> QED
    BY <1>4, <1>7, <1>8

(* For any n there is one.                                                 *)
LEMMA DigitsUpTo ==
    ASSUME NEW n \in Nat
    PROVE  \E g \in [0..n -> Digits] : GivesDigits(g, n)
  <1> DEFINE T == {m \in Nat : \E g \in [0..m -> Digits] : GivesDigits(g, m)}
  <1>1. 0 \in T
    <2>1. PICK g : g = [m \in 0..0 |-> <<m>>]
      OBVIOUS
    <2>2. g[0] = <<0>> /\ <<0>> \in Digits
      <3>1. 0 \in 0..9
        OBVIOUS
      <3>2. <<0>> \in Seq(0..9)
        BY <3>1, OfOne
      <3>3. 0 \in 0..0
        OBVIOUS
      <3> QED
        BY <2>1, <3>2, <3>3 DEF Digits
    <2>3. \A m \in 0..0 : m = 0 /\ m < 10
      OBVIOUS
    <2>4. g \in [0..0 -> Digits] /\ GivesDigits(g, 0)
      BY <2>1, <2>2, <2>3 DEF GivesDigits
    <2> QED
      BY <2>4
  <1>2. ASSUME NEW m \in Nat, m \in T PROVE m + 1 \in T
    <2>1. PICK g \in [0..m -> Digits] : GivesDigits(g, m)
      BY <1>2
    <2>2. PICK k : k = m + 1
      OBVIOUS
    <2>3. k \in Nat /\ k > 0 /\ k \notin 0..m /\ \A i \in 0..k : i = k \/ i \in 0..m
      BY <2>2
    <2>4. \A i \in 0..m : i \in 0..k
      BY <2>2
    <2>5. k \div 10 \in 0..m
      <3>1. k \div 10 \in Nat /\ k \div 10 < k
        <4>1. k >= 10 => k \div 10 < k
          BY <2>3, LastDigit
        <4>2. k < 10 => k \div 10 = 0
          BY <2>3, LastDigit
        <4>3. k \div 10 \in Nat
          BY <2>3, LastDigit
        <4> QED
          BY <2>3, <4>1, <4>2, <4>3
      <3> QED
        BY <2>2, <3>1
    <2>6. PICK d : d = IF k < 10 THEN <<k>> ELSE Append(g[k \div 10], k % 10)
      OBVIOUS
    <2>7. d \in Digits
      <3>1. CASE k < 10
        <4>1. k \in 0..9
          BY <2>3, <3>1
        <4> QED
          BY <2>6, <3>1, <4>1, OfOne DEF Digits
      <3>2. CASE ~(k < 10)
        <4>1. g[k \div 10] \in Seq(0..9)
          BY <2>5 DEF Digits
        <4>2. k % 10 \in 0..9
          BY <2>3, LastDigit
        <4>3. Append(g[k \div 10], k % 10) \in Seq(0..9)
          BY <4>1, <4>2
        <4> QED
          BY <2>6, <3>2, <4>3 DEF Digits
      <3> QED
        BY <3>1, <3>2
    <2>8. PICK h : h = [i \in 0..k |-> IF i = k THEN d ELSE g[i]]
      OBVIOUS
    <2>9. h \in [0..k -> Digits]
      BY <2>3, <2>7, <2>8
    <2>10. \A i \in 0..m : h[i] = g[i]
      BY <2>3, <2>4, <2>8
    <2>11. h[k] = d
      <3>1. k \in 0..k
        BY <2>3
      <3> QED
        BY <2>8, <3>1
    <2>12. ASSUME NEW i \in 0..k
           PROVE  h[i] = IF i < 10 THEN <<i>> ELSE Append(h[i \div 10], i % 10)
      <3>1. CASE i = k
        BY <2>5, <2>6, <2>10, <2>11, <3>1
      <3>2. CASE i # k
        <4>1. i \in 0..m /\ i \in Nat /\ i <= m
          BY <2>3, <3>2
        <4>2. i \div 10 \in Nat /\ i \div 10 <= i
          BY <4>1, LastDigit
        <4>3. i \div 10 \in 0..m
          BY <4>1, <4>2
        <4>4. g[i] = IF i < 10 THEN <<i>> ELSE Append(g[i \div 10], i % 10)
          BY <2>1, <4>1 DEF GivesDigits
        <4> QED
          BY <2>10, <4>1, <4>3, <4>4
      <3> QED
        BY <3>1, <3>2
    <2>13. GivesDigits(h, k)
      BY <2>12 DEF GivesDigits
    <2> QED
      BY <2>2, <2>3, <2>9, <2>13
  <1>3. Nat \subseteq T
    <2> HIDE DEF T
    <2> QED
      BY <1>1, <1>2, AllNumbers
  <1> QED
    BY <1>3

(* So DecimalOf is what its definition says.                               *)
LEMMA DecimalIs ==
    ASSUME NEW n \in Nat
    PROVE  /\ DecimalOf[n] \in Digits
           /\ DecimalOf[n] = IF n < 10 THEN <<n>> ELSE Append(DecimalOf[n \div 10], n % 10)
  <1>1. PICK G : G = [k \in Nat |-> CHOOSE g \in [0..k -> Digits] : GivesDigits(g, k)]
    OBVIOUS
  <1>2. \A k \in Nat : G[k] \in [0..k -> Digits] /\ GivesDigits(G[k], k)
    BY <1>1, DigitsUpTo
  <1>3. PICK f : f = [k \in Nat |-> G[k][k]]
    OBVIOUS
  <1>4. ASSUME NEW k \in Nat
        PROVE  /\ f[k] = IF k < 10 THEN <<k>> ELSE Append(f[k \div 10], k % 10)
               /\ f[k] \in Digits
    <2>1. k \div 10 \in Nat /\ k \div 10 <= k
      BY LastDigit
    <2>2. G[k][k \div 10] = G[k \div 10][k \div 10]
      <3>1. GivesDigits(G[k], k) /\ GivesDigits(G[k \div 10], k \div 10)
        BY <1>2, <2>1
      <3> QED
        BY <2>1, <3>1, DigitsUnique
    <2>3. k \in 0..k
      OBVIOUS
    <2>4. G[k][k] = IF k < 10 THEN <<k>> ELSE Append(G[k][k \div 10], k % 10)
      BY <1>2, <2>3 DEF GivesDigits
    <2>5. f[k] = G[k][k] /\ f[k \div 10] = G[k \div 10][k \div 10]
      BY <1>3, <2>1
    <2>6. G[k][k] \in Digits
      BY <1>2, <2>3
    <2> QED
      BY <2>2, <2>4, <2>5, <2>6
  <1>5. f = [k \in Nat |-> IF k < 10 THEN <<k>> ELSE Append(f[k \div 10], k % 10)]
    BY <1>3, <1>4
  <1>6. DecimalOf = [k \in Nat |-> IF k < 10 THEN <<k>> ELSE Append(DecimalOf[k \div 10], k % 10)]
    BY <1>5 DEF DecimalOf
  <1>7. GivesDigits(DecimalOf, n)
    <2>1. \A m \in 0..n : m \in Nat
      OBVIOUS
    <2> QED
      BY <1>6, <2>1 DEF GivesDigits
  <1>8. GivesDigits(G[n], n) /\ n <= n /\ G[n] \in [0..n -> Digits] /\ n \in 0..n
    BY <1>2
  <1>9. DecimalOf[n] = G[n][n]
    BY <1>7, <1>8, DigitsUnique
  <1>10. G[n][n] \in Digits
    BY <1>8
  <1> QED
    BY <1>6, <1>9, <1>10

(* The digits are at least one, and a greater number has not fewer.        *)
LEMMA DigitsGrow ==
    ASSUME NEW n \in Nat, NEW m \in Nat, m <= n
    PROVE  /\ Len(DecimalOf[m]) \in Nat /\ Len(DecimalOf[m]) >= 1
           /\ Len(DecimalOf[m]) <= Len(DecimalOf[n])
  <1>0. ASSUME NEW k \in Nat
        PROVE  /\ Len(DecimalOf[k]) \in Nat /\ Len(DecimalOf[k]) >= 1
               /\ k < 10 => Len(DecimalOf[k]) = 1
               /\ k >= 10 => Len(DecimalOf[k]) = Len(DecimalOf[k \div 10]) + 1
    <2>1. DecimalOf[k] \in Seq(0..9)
      BY DecimalIs DEF Digits
    <2>2. k < 10 => Len(DecimalOf[k]) = 1
      <3>1. k < 10 => DecimalOf[k] = <<k>>
        BY DecimalIs
      <3>2. Len(<<k>>) = 1
        OBVIOUS
      <3> QED
        BY <3>1, <3>2
    <2>3. k >= 10 => /\ Len(DecimalOf[k]) = Len(DecimalOf[k \div 10]) + 1
                     /\ Len(DecimalOf[k \div 10]) \in Nat
      <3>1. k >= 10 => DecimalOf[k] = Append(DecimalOf[k \div 10], k % 10)
        <4>1. k >= 10 => ~(k < 10)
          OBVIOUS
        <4> QED
          BY <4>1, DecimalIs
      <3>2. k \div 10 \in Nat /\ k % 10 \in 0..9
        BY LastDigit
      <3>3. DecimalOf[k \div 10] \in Seq(0..9)
        BY <3>2, DecimalIs DEF Digits
      <3> QED
        BY <3>1, <3>2, <3>3
    <2>4. Len(DecimalOf[k]) \in Nat
      BY <2>1
    <2>5. PICK a, b : a = Len(DecimalOf[k]) /\ b = Len(DecimalOf[k \div 10])
      OBVIOUS
    <2>6. (k < 10 => a = 1) /\ (k >= 10 => a = b + 1 /\ b \in Nat)
      BY <2>2, <2>3, <2>5
    <2>7. a >= 1
      BY <2>6
    <2> QED
      BY <2>2, <2>3, <2>4, <2>5, <2>7
  <1> DEFINE T == {k \in Nat : \E j \in 0..k : ~(Len(DecimalOf[j]) <= Len(DecimalOf[k]))}
  <1>1. ASSUME T # {} PROVE FALSE
    <2>1. T \subseteq Nat
      OBVIOUS
    <2>2. PICK k \in T : \A i \in T : k <= i
      <3> HIDE DEF T
      <3> QED
        BY <1>1, <2>1, LeastNumber
    <2>3. PICK j \in 0..k : ~(Len(DecimalOf[j]) <= Len(DecimalOf[k]))
      BY <2>2
    <2>4. k \in Nat /\ j \in Nat /\ j <= k
      BY <2>2, <2>3
    <2>5. j >= 10
      <3>1. j < 10 => Len(DecimalOf[j]) = 1
        BY <1>0, <2>4
      <3>2. Len(DecimalOf[k]) \in Nat /\ Len(DecimalOf[k]) >= 1
        BY <1>0, <2>4
      <3>3. PICK a, b : a = Len(DecimalOf[j]) /\ b = Len(DecimalOf[k])
        OBVIOUS
      <3>4. ~(a <= b) /\ b >= 1 /\ b \in Nat
        BY <2>3, <3>2, <3>3
      <3>5. a # 1
        BY <3>4
      <3> QED
        BY <2>4, <3>1, <3>3, <3>5
    <2>6. k >= 10
      BY <2>4, <2>5
    <2>7. j \div 10 \in 0..(k \div 10) /\ k \div 10 \in Nat /\ k \div 10 < k
      BY <2>4, <2>6
    <2>8. ~(k <= k \div 10)
      BY <2>4, <2>7
    <2>9. k \div 10 \notin T
      BY <2>2, <2>8
    <2>10. Len(DecimalOf[j \div 10]) <= Len(DecimalOf[k \div 10])
      BY <2>7, <2>9
    <2>11. /\ Len(DecimalOf[j]) = Len(DecimalOf[j \div 10]) + 1
           /\ Len(DecimalOf[k]) = Len(DecimalOf[k \div 10]) + 1
      BY <1>0, <2>4, <2>5, <2>6
    <2>12. Len(DecimalOf[j \div 10]) \in Nat /\ Len(DecimalOf[k \div 10]) \in Nat
      <3>1. j \div 10 \in Nat
        BY <2>4, LastDigit
      <3> QED
        BY <1>0, <2>7, <3>1
    <2> QED
      BY <2>3, <2>10, <2>11, <2>12
  <1>2. n \notin T /\ m \in 0..n
    BY <1>1
  <1> QED
    BY <1>0, <1>2

(* The number that atoi reads from digits.                                 *)
Number(t) == FoldLeft(LAMBDA sum, c : 10 * sum + c, 0, t)

NumberAt(g, t, s) == IF s = {} THEN 0 ELSE 10 * g[s \ {Max(s)}] + t[Max(s)]

TheNumbers(t) == CHOOSE g : g = [s \in SUBSET DOMAIN t |-> NumberAt(g, t, s)]

(* The number is the fold that such a function defines.                    *)
LEMMA NumberIsFold == ASSUME NEW t PROVE Number(t) = TheNumbers(t)[DOMAIN t]
  BY Zenon DEF Number, FoldLeft, MapThenFoldSet, TheNumbers, NumberAt

(* It is summed up digit after digit.                                      *)
LEMMA NumberSteps ==
    ASSUME NEW t \in Digits
    PROVE  \E r : /\ r[0] = 0 /\ Number(t) = r[Len(t)]
                  /\ \A i \in 1..Len(t) : r[i] = (10 * r[i - 1]) + t[i]
  <1>0. t \in Seq(0..9) /\ Len(t) \in Nat /\ DOMAIN t = 1..Len(t)
    BY DEF Digits
  <1>1. PICK n : n = Len(t)
    OBVIOUS
  <1>2. n \in Nat /\ DOMAIN t = 1..n /\ \A i \in 1..n : t[i] \in 0..9
    BY <1>0, <1>1
  <1>3. PICK step : step = [x \in Nat \X (1..n) |-> (10 * x[1]) + t[x[2]]]
    OBVIOUS
  <1>4. step \in [Nat \X (1..n) -> Nat]
    <2>1. ASSUME NEW x \in Nat \X (1..n) PROVE (10 * x[1]) + t[x[2]] \in Nat
      <3>1. x[1] \in Nat /\ x[2] \in 1..n
        OBVIOUS
      <3>2. t[x[2]] \in Nat
        BY <1>2, <3>1
      <3> QED
        BY <3>1, <3>2
    <2> QED
      BY <1>3, <2>1
  <1>5. PICK g \in [SUBSET (1..n) -> Nat] : FoldsTo(g, n, 0, step)
    <2>1. 0 \in Nat
      OBVIOUS
    <2> QED
      BY <1>2, <1>4, <2>1, FoldExists
  <1>6. ASSUME NEW s \in SUBSET (1..n) PROVE g[s] = NumberAt(g, t, s)
    <2>1. CASE s = {}
      BY <1>5, <2>1 DEF FoldsTo, NumberAt
    <2>2. CASE s # {}
      <3>1. Max(s) \in s
        <4>1. s \subseteq 0..n
          OBVIOUS
        <4> QED
          BY <1>2, <2>2, <4>1, MaxIs
      <3>2. s \ {Max(s)} \in SUBSET (1..n) /\ Max(s) \in 1..n
        BY <3>1
      <3>3. <<g[s \ {Max(s)}], Max(s)>> \in Nat \X (1..n)
        BY <1>5, <3>2
      <3>4. step[<<g[s \ {Max(s)}], Max(s)>>] = (10 * g[s \ {Max(s)}]) + t[Max(s)]
        BY <1>3, <3>3
      <3> QED
        BY <1>5, <2>2, <3>4 DEF FoldsTo, NumberAt
    <2> QED
      BY <2>1, <2>2
  <1>7. g = [s \in SUBSET DOMAIN t |-> NumberAt(g, t, s)]
    BY <1>2, <1>5, <1>6
  <1>8. TheNumbers(t) = [s \in SUBSET DOMAIN t |-> NumberAt(TheNumbers(t), t, s)]
    BY <1>7 DEF TheNumbers
  <1>9. PICK it : it = TheNumbers(t)
    OBVIOUS
  <1>10. \A s \in SUBSET (1..n) : it[s] = NumberAt(it, t, s)
    BY <1>2, <1>8, <1>9
  <1>11. PICK r : r = [i \in 0..n |-> it[1..i]]
    OBVIOUS
  <1>12. r[0] = 0
    <2>1. 1..0 = {} /\ {} \in SUBSET (1..n) /\ 0 \in 0..n
      BY <1>2
    <2> QED
      BY <1>10, <1>11, <2>1 DEF NumberAt
  <1>13. ASSUME NEW i \in 1..n PROVE r[i] = (10 * r[i - 1]) + t[i]
    <2>1. i \in Nat /\ i > 0 /\ i \in 0..n /\ i - 1 \in 0..n /\ 1..i \in SUBSET (1..n)
      BY <1>2
    <2>2. 1..i # {} /\ Max(1..i) = i /\ (1..i) \ {Max(1..i)} = 1..(i - 1)
      BY <2>1, LastOfFirst
    <2>3. it[1..i] = (10 * it[1..(i - 1)]) + t[i]
      BY <1>10, <2>1, <2>2 DEF NumberAt
    <2> QED
      BY <1>11, <2>1, <2>3
  <1>14. Number(t) = r[n]
    <2>1. n \in 0..n
      BY <1>2
    <2> QED
      BY <1>2, <1>9, <1>11, <2>1, NumberIsFold
  <1> QED
    BY <1>1, <1>12, <1>13, <1>14

(* What is summed up over the digits of n is n: by induction on n.         *)
LEMMA NumberOfDigits ==
    ASSUME NEW n \in Nat
    PROVE  Number(DecimalOf[n]) = n
  <1> DEFINE Sums(r, k) == /\ r[0] = 0
                           /\ \A i \in 1..Len(DecimalOf[k]) :
                                  r[i] = (10 * r[i - 1]) + DecimalOf[k][i]
             T == {k \in Nat : \E r : Sums(r, k) /\ r[Len(DecimalOf[k])] # k}
  <1>1. ASSUME T # {} PROVE FALSE
    <2>1. T \subseteq Nat
      OBVIOUS
    <2>2. PICK k \in T : \A i \in T : k <= i
      <3> HIDE DEF T
      <3> QED
        BY <1>1, <2>1, LeastNumber
    <2>3. PICK r : Sums(r, k) /\ r[Len(DecimalOf[k])] # k
      BY <2>2
    <2>4. k \in Nat
      BY <2>2
    <2>5. CASE k < 10
      <3>1. DecimalOf[k] = <<k>>
        BY <2>4, <2>5, DecimalIs
      <3>2. Len(<<k>>) = 1 /\ <<k>>[1] = k /\ 1 \in 1..1 /\ 1 - 1 = 0
        OBVIOUS
      <3>3. r[1] = (10 * r[0]) + k /\ r[0] = 0
        BY <2>3, <3>1, <3>2
      <3>4. r[1] = k
        BY <2>4, <3>3
      <3> QED
        BY <2>3, <3>1, <3>2, <3>4
    <2>6. CASE ~(k < 10)
      <3>1. PICK m, d : m = k \div 10 /\ d = k % 10
        OBVIOUS
      <3>2. m \in Nat /\ m < k /\ d \in 0..9 /\ k = (10 * m) + d
        <4>1. k >= 10
          BY <2>4, <2>6
        <4> QED
          BY <2>4, <3>1, <4>1, LastDigit
      <3>3. DecimalOf[k] = Append(DecimalOf[m], d) /\ DecimalOf[m] \in Seq(0..9)
        BY <2>4, <2>6, <3>1, <3>2, DecimalIs DEF Digits
      <3>4. PICK l : l = Len(DecimalOf[m])
        OBVIOUS
      <3>5. /\ l \in Nat /\ Len(DecimalOf[k]) = l + 1 /\ DecimalOf[k][l + 1] = d
            /\ \A i \in 1..l : DecimalOf[k][i] = DecimalOf[m][i]
        BY <3>2, <3>3, <3>4
      <3>6. \A i \in 1..l : i \in 1..(l + 1)
        BY <3>5
      <3>7. Sums(r, m)
        BY <2>3, <3>4, <3>5, <3>6
      <3>8. m \notin T
        <4>1. ~(k <= m)
          BY <2>4, <3>2
        <4> QED
          BY <2>2, <4>1
      <3>9. r[l] = m
        BY <3>2, <3>4, <3>7, <3>8
      <3>10. l + 1 \in 1..(l + 1) /\ (l + 1) - 1 = l
        BY <3>5
      <3>11. r[l + 1] = (10 * r[l]) + d
        BY <2>3, <3>5, <3>10
      <3> QED
        BY <2>3, <3>2, <3>5, <3>9, <3>11
    <2> QED
      BY <2>5, <2>6
  <1>2. DecimalOf[n] \in Digits
    BY DecimalIs
  <1>3. PICK r : /\ r[0] = 0 /\ Number(DecimalOf[n]) = r[Len(DecimalOf[n])]
                 /\ \A i \in 1..Len(DecimalOf[n]) : r[i] = (10 * r[i - 1]) + DecimalOf[n][i]
    BY <1>2, NumberSteps
  <1>4. n \notin T
    BY <1>1
  <1> QED
    BY <1>3, <1>4

Places == Seq(-1..Letter)

(* Blanks, then the digits of n, then the end or something else.           *)
NumberText(s, n, k) ==
    LET l == Len(DecimalOf[n])
    IN  /\ s \in Places
        /\ k + l <= Len(s)
        /\ \A j \in 1..k : s[j] = Blank
        /\ \A j \in 1..l : s[k + j] = DecimalOf[n][j]
        /\ Len(s) = k + l \/ s[k + l + 1] = Point

(* Texts of the same characters are the same.                              *)
LEMMA SameText ==
    ASSUME NEW t \in Places, NEW u \in Places, NEW n \in Nat, Len(t) = n, Len(u) = n,
           \A j \in 1..n : t[j] = u[j]
    PROVE  t = u
  <1>1. t = [j \in 1..n |-> t[j]] /\ u = [j \in 1..n |-> u[j]]
    BY DEF Places
  <1> QED
    BY <1>1

(* The part of a text from i to j.                                         *)
IsPart(t, s, i, j) == t = SubSeq(s, i, j)

(* It is a text, of j - i + 1 characters.                                  *)
LEMMA PartOfText ==
    ASSUME NEW s \in Places, NEW m \in Nat, Len(s) = m, NEW i \in Nat, NEW j \in Nat,
           1 <= i, i <= j + 1, j <= m, NEW t, IsPart(t, s, i, j)
    PROVE  /\ t \in Places /\ Len(t) = j - i + 1
           /\ \A h \in 1..(j - i + 1) : t[h] = s[i + h - 1]
  <1>0. PICK S : S = -1..Letter
    OBVIOUS
  <1>1. s \in Seq(S) /\ Places = Seq(S)
    BY <1>0 DEF Places
  <1>2. \A h \in i..j : h \in 1..Len(s)
    OBVIOUS
  <1>3. SubSeq(s, i, j) \in Seq(S)
    BY <1>1, <1>2
  <1>4. Len(SubSeq(s, i, j)) = j - i + 1
    BY <1>1
  <1>5. \A h \in 1..(j - i + 1) : SubSeq(s, i, j)[h] = s[i + h - 1]
    BY <1>1
  <1> QED
    BY <1>1, <1>3, <1>4, <1>5 DEF IsPart

(* Where the first of some places is known, so is their beginning.         *)
LEMMA BeginsAt ==
    ASSUME NEW T, T \subseteq Nat, NEW i \in T, \A j \in Nat : j < i => j \notin T
    PROVE  Min(T) = i
  <1>1. Min(T) \in T /\ Min(T) <= i
    BY MinIs
  <1>2. Min(T) \in Nat /\ i \in Nat /\ ~(Min(T) < i)
    BY <1>1
  <1> QED
    BY <1>1, <1>2

(* The digits of a number are a text.                                      *)
LEMMA DigitsAreText ==
    ASSUME NEW n \in Nat
    PROVE  /\ DecimalOf[n] \in Places
           /\ Len(DecimalOf[n]) \in Nat /\ Len(DecimalOf[n]) >= 1
           /\ \A j \in 1..Len(DecimalOf[n]) : DecimalOf[n][j] \in 0..9
  <1>1. PICK d : d = DecimalOf[n]
    OBVIOUS
  <1>2. d \in Seq(0..9)
    BY <1>1, DecimalIs DEF Digits
  <1>3. 0..9 \subseteq -1..Letter
    BY DEF Letter
  <1>4. d \in Seq(-1..Letter)
    BY <1>2, <1>3, SeqMonotonic
  <1>5. Len(d) \in Nat /\ \A j \in 1..Len(d) : d[j] \in 0..9
    BY <1>2
  <1>6. Len(d) >= 1
    <2>1. n <= n
      OBVIOUS
    <2> QED
      BY <1>1, <2>1, DigitsGrow
  <1> QED
    BY <1>1, <1>4, <1>5, <1>6 DEF Places

(* And so atoi reads the number.                                           *)
LEMMA AtoiReads ==
    ASSUME NEW n \in Nat, NEW s, NEW k \in Nat, NumberText(s, n, k)
    PROVE  Atoi(s) = n
  <1>1. PICK m, l : m = Len(s) /\ l = Len(DecimalOf[n])
    OBVIOUS
  <1>2. s \in Seq(-1..Letter) /\ m \in Nat /\ DOMAIN s = 1..m
    <2>1. s \in Seq(-1..Letter)
      BY DEF NumberText, Places
    <2> QED
      BY <1>1, <2>1
  <1>3. l \in Nat /\ l >= 1 /\ k + l <= m
    <2>1. n <= n
      OBVIOUS
    <2>2. Len(DecimalOf[n]) \in Nat /\ Len(DecimalOf[n]) >= 1
      BY <2>1, DigitsGrow
    <2> QED
      BY <1>1, <2>2 DEF NumberText
  <1>4. /\ \A j \in 1..k : s[j] = 10
        /\ \A j \in 1..l : s[k + j] = DecimalOf[n][j]
        /\ m = k + l \/ s[k + l + 1] = 11
    BY <1>1 DEF NumberText, Blank, Point
  <1>5. DecimalOf[n] \in Seq(0..9) /\ \A j \in 1..l : DecimalOf[n][j] \in 0..9
    <2>1. DecimalOf[n] \in Seq(0..9)
      BY DecimalIs DEF Digits
    <2> QED
      BY <1>1, <2>1
  <1>6. ASSUME NEW j \in 1..l PROVE s[k + j] \in 0..9 /\ s[k + j] # 10
    <2>1. s[k + j] = DecimalOf[n][j] /\ DecimalOf[n][j] \in 0..9
      BY <1>4, <1>5
    <2> QED
      BY <2>1
  <1>7. Leading(s, LAMBDA c : c = Blank) = k
    <2>1. PICK T : T = {j \in DOMAIN s : ~(s[j] = Blank)}
      OBVIOUS
    <2>2. T \subseteq Nat
      BY <1>2, <2>1
    <2>3. k + 1 \in T
      <3>1. 1 \in 1..l /\ k + 1 \in 1..m
        BY <1>2, <1>3
      <3>2. s[k + 1] # 10
        BY <1>6, <3>1
      <3> QED
        BY <1>2, <2>1, <3>1, <3>2 DEF Blank
    <2>4. \A j \in Nat : j < k + 1 => j \notin T
      <3>1. \A j \in Nat : j < k + 1 => j \in 1..k \/ j \notin 1..m
        OBVIOUS
      <3> QED
        BY <1>2, <1>4, <2>1, <3>1 DEF Blank
    <2>5. Min(T) = k + 1
      BY <2>2, <2>3, <2>4, BeginsAt
    <2>6. Leading(s, LAMBDA c : c = Blank) = IF T = {} THEN Len(s) ELSE Min(T) - 1
      BY <2>1 DEF Leading
    <2>7. (k + 1) - 1 = k
      OBVIOUS
    <2> QED
      BY <2>3, <2>5, <2>6, <2>7
  <1>8. PICK d : d = SubSeq(s, k + 1, Len(s))
    OBVIOUS
  <1>9. /\ d \in Places /\ Len(d) = m - k /\ DOMAIN d = 1..(m - k)
        /\ \A j \in 1..(m - k) : d[j] = s[k + j]
    <2>1. PICK i : i = k + 1
      OBVIOUS
    <2>2. i \in Nat /\ 1 <= i /\ i <= m + 1 /\ m <= m /\ m - i + 1 = m - k
      BY <1>2, <1>3, <2>1
    <2>3. s \in Places /\ m \in Nat /\ Len(s) = m /\ IsPart(d, s, i, m)
      BY <1>1, <1>2, <1>8, <2>1 DEF Places, IsPart
    <2>4. /\ d \in Places /\ Len(d) = m - i + 1
          /\ \A h \in 1..(m - i + 1) : d[h] = s[i + h - 1]
      BY <2>2, <2>3, PartOfText
    <2>5. \A h \in 1..(m - k) : i + h - 1 = k + h
      BY <1>2, <2>1
    <2>6. DOMAIN d = 1..(m - k)
      BY <2>2, <2>4 DEF Places
    <2> QED
      BY <2>2, <2>4, <2>5, <2>6
  <1>10. Leading(d, LAMBDA c : c \in 0..9) = l
    <2>1. PICK T : T = {j \in DOMAIN d : ~(d[j] \in 0..9)}
      OBVIOUS
    <2>2. Leading(d, LAMBDA c : c \in 0..9) = IF T = {} THEN Len(d) ELSE Min(T) - 1
      BY <2>1 DEF Leading
    <2>3. T \subseteq Nat
      BY <1>9, <2>1
    <2>4. \A j \in 1..l : j \notin T
      <3>1. \A j \in 1..l : j \in 1..(m - k)
        BY <1>2, <1>3
      <3> QED
        BY <1>6, <1>9, <2>1, <3>1
    <2>5. CASE m = k + l
      <3>1. Len(d) = l /\ DOMAIN d = 1..l
        <4>1. m - k = l
          BY <1>2, <1>3, <2>5
        <4> QED
          BY <1>9, <4>1
      <3>2. T = {}
        BY <2>1, <2>4, <3>1
      <3> QED
        BY <2>2, <3>1, <3>2
    <2>6. CASE m # k + l
      <3>1. l + 1 \in 1..(m - k) /\ k + (l + 1) = k + l + 1
        BY <1>2, <1>3, <2>6
      <3>2. d[l + 1] = 11
        BY <1>4, <1>9, <2>6, <3>1
      <3>3. l + 1 \in T
        BY <1>9, <2>1, <3>1, <3>2
      <3>4. \A j \in Nat : j < l + 1 => j \notin T
        <4>1. \A j \in Nat : j < l + 1 => j \in 1..l \/ j \notin 1..(m - k)
          BY <1>3
        <4> QED
          BY <1>9, <2>1, <2>4, <4>1
      <3>5. Min(T) = l + 1
        BY <2>3, <3>3, <3>4, BeginsAt
      <3>6. (l + 1) - 1 = l
        BY <1>3
      <3> QED
        BY <2>2, <3>3, <3>5, <3>6
    <2> QED
      BY <2>5, <2>6
  <1>11. PICK t : t = SubSeq(d, 1, l)
    OBVIOUS
  <1>12. t = DecimalOf[n]
    <2>1. PICK e : e = m - k
      OBVIOUS
    <2>2. /\ e \in Nat /\ 1 \in Nat /\ 1 <= 1 /\ 1 <= l + 1 /\ l <= e /\ l - 1 + 1 = l
          /\ d \in Places /\ Len(d) = e /\ l \in Nat
      BY <1>2, <1>3, <1>9, <2>1
    <2>3. /\ t \in Places /\ Len(t) = l - 1 + 1
          /\ \A h \in 1..(l - 1 + 1) : t[h] = d[1 + h - 1]
      <3>1. IsPart(t, d, 1, l)
        BY <1>11 DEF IsPart
      <3> QED
        BY <2>2, <3>1, PartOfText
    <2>4. \A h \in 1..l : 1 + h - 1 = h /\ h \in 1..(m - k)
      BY <1>2, <1>3
    <2>5. \A h \in 1..l : t[h] = DecimalOf[n][h]
      <3>1. \A h \in 1..l : t[h] = d[h]
        BY <2>2, <2>3, <2>4
      <3>2. \A h \in 1..l : d[h] = s[k + h]
        BY <1>9, <2>4
      <3> QED
        BY <1>4, <3>1, <3>2
    <2>6. DecimalOf[n] \in Places
      BY DigitsAreText
    <2>7. Len(t) = l /\ Len(DecimalOf[n]) = l
      BY <1>1, <2>2, <2>3
    <2> QED
      BY <1>3, <2>3, <2>5, <2>6, <2>7, SameText
  <1>13. Atoi(s) = Number(t)
    BY <1>7, <1>8, <1>10, <1>11 DEF Atoi, Number
  <1> QED
    BY <1>12, <1>13, NumberOfDigits

(* A text of a column is made of characters.                               *)
LEMMA CharactersOfText ==
    ASSUME NEW t \in Places, NEW n, Len(t) = n
    PROVE  /\ n \in Nat /\ DOMAIN t = 1..n
           /\ \A j \in 1..n : t[j] \in -1..12
  BY DEF Places, Letter

(* The digits of a number alone are read as the number.                    *)
LEMMA DigitsAreRead ==
    ASSUME NEW n \in Nat
    PROVE  Atoi(DecimalOf[n]) = n /\ DecimalOf[n] # Null
  <1>1. PICK l : l = Len(DecimalOf[n])
    OBVIOUS
  <1>2. DecimalOf[n] \in Places /\ l \in Nat /\ l >= 1 /\ DecimalOf[n][1] \in 0..9
    <2>1. 1 \in 1..l
      BY <1>1, DigitsAreText
    <2> QED
      BY <1>1, <2>1, DigitsAreText
  <1>3. /\ 0 + l <= l /\ l = 0 + l /\ \A j \in 1..l : 0 + j = j
        /\ \A j \in 1..0 : FALSE
    BY <1>2
  <1>4. NumberText(DecimalOf[n], n, 0)
    BY <1>1, <1>2, <1>3 DEF NumberText
  <1>5. 0 \in Nat /\ Null[1] = -1 /\ -1 \notin 0..9
    BY DEF Null
  <1>6. Atoi(DecimalOf[n]) = n
    BY <1>4, <1>5, AtoiReads
  <1> QED
    BY <1>2, <1>5, <1>6

(* A block of n times the same character.                                  *)
IsRepeat(t, c, n) == t = [j \in 1..n |-> c]

(* It is a text of n characters, of none if n is negative.                 *)
LEMMA Repeated ==
    ASSUME NEW c \in -1..Letter, NEW n \in Int, NEW m, m = (IF n > 0 THEN n ELSE 0),
           NEW t, IsRepeat(t, c, n)
    PROVE  t \in Places /\ m \in Nat /\ Len(t) = m /\ \A j \in 1..m : t[j] = c
  <1>1. m \in Nat /\ 1..n = 1..m
    OBVIOUS
  <1>2. t = [j \in 1..m |-> c]
    BY <1>1 DEF IsRepeat
  <1>3. t \in Seq(-1..Letter) /\ Len(t) = m /\ \A j \in 1..m : t[j] = c
    BY <1>1, <1>2
  <1> QED
    BY <1>1, <1>3 DEF Places

(* One text after another.                                                 *)
AreJoined(v, t, u) == v = t \o u

Joined(v, t, m, u, n) ==
    /\ v \in Places /\ m \in Nat /\ n \in Nat /\ Len(v) = m + n
    /\ \A j \in 1..m : v[j] = t[j]
    /\ \A j \in 1..n : v[m + j] = u[j]

(* Two texts one after the other are a text.                               *)
LEMMA TextAfterText ==
    ASSUME NEW t \in Places, NEW u \in Places, NEW m, NEW n, Len(t) = m, Len(u) = n,
           NEW v, AreJoined(v, t, u)
    PROVE  Joined(v, t, m, u, n)
  <1>1. PICK S : S = -1..Letter
    OBVIOUS
  <1>2. t \in Seq(S) /\ u \in Seq(S) /\ Places = Seq(S)
    BY <1>1 DEF Places
  <1>3. t \o u \in Seq(S)
    BY <1>2
  <1>4. Len(t \o u) = m + n /\ m \in Nat /\ n \in Nat
    BY <1>2
  <1>5. \A j \in 1..m : (t \o u)[j] = t[j]
    BY <1>2, <1>4
  <1>6. \A j \in 1..n : (t \o u)[m + j] = u[j]
    BY <1>2, <1>4
  <1> QED
    BY <1>2, <1>3, <1>4, <1>5, <1>6 DEF AreJoined, Joined

(* A double is written with blanks before it, and a point after it.        *)
LEMMA FormattedReads ==
    ASSUME NEW n \in Nat
    PROVE  /\ Formatted(n) \in Places
           /\ Formatted(n) # Null /\ Atoi(Formatted(n)) = n
  <1>0. DoubleWidth \in Nat /\ Decimals \in Nat
    BY TextAssumption
  <1>1. PICK d, l : d = DecimalOf[n] /\ l = Len(d)
    OBVIOUS
  <1>2. d \in Places /\ l \in Nat /\ l >= 1 /\ Len(d) = l
    BY <1>1, DigitsAreText
  <1>3. PICK a : a = [k \in 1..Decimals |-> 0]
    OBVIOUS
  <1>4. a \in Places /\ Len(a) = Decimals
    <2>1. 0 \in -1..Letter /\ Decimals \in Int /\ Decimals = (IF Decimals > 0 THEN Decimals ELSE 0)
      BY <1>0 DEF Letter
    <2>2. IsRepeat(a, 0, Decimals)
      BY <1>3 DEF IsRepeat
    <2> QED
      BY <2>1, <2>2, Repeated
  <1>5. PICK q : q = <<Point>>
    OBVIOUS
  <1>6. q \in Places /\ Len(q) = 1 /\ q[1] = Point
    <2>1. Point \in -1..Letter
      BY DEF Point, Letter
    <2> QED
      BY <1>5, <2>1 DEF Places
  <1>7. PICK u : u = d \o q
    OBVIOUS
  <1>8. /\ u \in Places /\ Len(u) = l + 1 /\ u[l + 1] = Point
        /\ \A j \in 1..l : u[j] = d[j]
    <2>1. 1 \in 1..1 /\ AreJoined(u, d, q)
      BY <1>7 DEF AreJoined
    <2>2. /\ u \in Places /\ Len(u) = l + 1
          /\ \A j \in 1..l : u[j] = d[j]
          /\ \A j \in 1..1 : u[l + j] = q[j]
      <3>1. Joined(u, d, l, q, 1)
        BY <1>2, <1>6, <2>1, TextAfterText
      <3> QED
        BY <3>1 DEF Joined
    <2> QED
      BY <1>6, <2>1, <2>2
  <1>9. PICK w : w = u \o a
    OBVIOUS
  <1>10. /\ w \in Places /\ Len(w) = (l + 1) + Decimals /\ w[l + 1] = Point
         /\ \A j \in 1..l : w[j] = d[j]
    <2>1. l + 1 \in 1..(l + 1) /\ \A j \in 1..l : j \in 1..(l + 1)
      BY <1>2
    <2>2. /\ w \in Places /\ Len(w) = (l + 1) + Decimals
          /\ \A j \in 1..(l + 1) : w[j] = u[j]
      <3>1. AreJoined(w, u, a)
        BY <1>9 DEF AreJoined
      <3>2. Joined(w, u, l + 1, a, Decimals)
        BY <1>4, <1>8, <3>1, TextAfterText
      <3> QED
        BY <3>2 DEF Joined
    <2> QED
      BY <1>8, <2>1, <2>2
  <1>11. PICK b, z : b = DoubleWidth - Len(w) /\ z = [k \in 1..b |-> Blank]
    OBVIOUS
  <1>12. PICK k : k = IF b > 0 THEN b ELSE 0
    OBVIOUS
  <1>13. z \in Places /\ k \in Nat /\ Len(z) = k /\ \A j \in 1..k : z[j] = Blank
    <2>1. Blank \in -1..Letter /\ b \in Int
      BY <1>0, <1>2, <1>10, <1>11 DEF Blank, Letter
    <2>2. IsRepeat(z, Blank, b)
      BY <1>11 DEF IsRepeat
    <2> QED
      BY <1>12, <2>1, <2>2, Repeated
  <1>14. PICK s : s = z \o w
    OBVIOUS
  <1>15. /\ s \in Places /\ Len(s) = k + ((l + 1) + Decimals)
         /\ \A j \in 1..k : s[j] = Blank
         /\ \A j \in 1..((l + 1) + Decimals) : s[k + j] = w[j]
    <2>1. AreJoined(s, z, w)
      BY <1>14 DEF AreJoined
    <2>2. PICK e : e = (l + 1) + Decimals
      OBVIOUS
    <2>3. z \in Places /\ w \in Places /\ Len(z) = k /\ Len(w) = e
      BY <1>10, <1>13, <2>2
    <2>4. /\ s \in Places /\ Len(s) = k + e
          /\ \A j \in 1..k : s[j] = z[j]
          /\ \A j \in 1..e : s[k + j] = w[j]
      <3>1. Joined(s, z, k, w, e)
        BY <2>1, <2>3, TextAfterText
      <3> QED
        BY <3>1 DEF Joined
    <2> QED
      BY <1>13, <2>2, <2>4
  <1>16. s[k + l + 1] = Point /\ \A j \in 1..l : s[k + j] = d[j]
    <2>1. l + 1 \in 1..((l + 1) + Decimals) /\ k + (l + 1) = k + l + 1
      BY <1>0, <1>2, <1>13
    <2>2. \A j \in 1..l : j \in 1..((l + 1) + Decimals)
      BY <1>0, <1>2
    <2> QED
      BY <1>10, <1>15, <2>1, <2>2
  <1>17. k + l <= Len(s) /\ Len(s) >= 2
    BY <1>0, <1>2, <1>13, <1>15
  <1>18. NumberText(s, n, k)
    BY <1>1, <1>15, <1>16, <1>17 DEF NumberText
  <1>19. Formatted(n) = s
    BY <1>1, <1>3, <1>5, <1>7, <1>9, <1>11, <1>14 DEF Formatted
  <1>20. Len(Null) = 1
    BY DEF Null
  <1>21. s # Null
    <2>1. ~(1 >= 2)
      OBVIOUS
    <2> QED
      BY <1>17, <1>20, <2>1
  <1>22. Atoi(s) = n
    BY <1>13, <1>18, AtoiReads
  <1> QED
    BY <1>15, <1>19, <1>21, <1>22

(* Half of the digits d are in v, from the last one on, and the number x   *)
(* has still the others.                                                   *)
HalfDone(v, x, d) ==
    LET m == Len(v)
        k == Len(x)
        l == Len(d)
    IN  /\ k + m = l
        /\ \A j \in 1..k : x[j] = d[j]
        /\ \A j \in 1..m : v[j] = d[l + 1 - j]

(* The digits are turned round, but for those from f to e.                 *)
Turned(v, d, f, e) ==
    LET l == Len(d)
    IN  /\ Len(v) = l
        /\ f \in Nat /\ e \in Nat /\ f >= 1 /\ f + e = l + 1
        /\ \A j \in 1..l : v[j] = IF j < f \/ j > e THEN d[j] ELSE d[l + 1 - j]

(* One character more.                                                     *)
IsAppended(w, v, c) == w = Append(v, c)

OneLonger(w, v, m, c) ==
    /\ m \in Nat /\ w \in Places /\ Len(w) = m + 1 /\ w[m + 1] = c
    /\ \A j \in 1..m : w[j] = v[j]

(* A text with one character more.                                         *)
LEMMA OneMore ==
    ASSUME NEW v \in Places, NEW m, Len(v) = m, NEW c \in -1..12,
           NEW w, IsAppended(w, v, c)
    PROVE  OneLonger(w, v, m, c)
  BY DEF Places, Letter, IsAppended, OneLonger

(* A digit is cut off and appended.                                        *)
LEMMA DivideMore ==
    ASSUME NEW v \in Places, NEW n \in Nat, n >= 10, NEW d \in Places,
           HalfDone(v, DecimalOf[n], d)
    PROVE  HalfDone(Append(v, n % 10), DecimalOf[n \div 10], d)
  <1>1. PICK x, y : x = DecimalOf[n] /\ y = DecimalOf[n \div 10]
    OBVIOUS
  <1>2. PICK i, c : i = n \div 10 /\ c = n % 10
    OBVIOUS
  <1>3. i \in Nat /\ c \in -1..12
    BY <1>2, LastDigit
  <1>4. PICK m, k, l, h : m = Len(v) /\ k = Len(x) /\ l = Len(d) /\ h = Len(y)
    OBVIOUS
  <1>5. m \in Nat /\ k \in Nat /\ l \in Nat /\ h \in Nat
    <2>1. k \in Nat /\ h \in Nat
      BY <1>1, <1>2, <1>3, <1>4, DigitsAreText
    <2> QED
      BY <1>4, <2>1, CharactersOfText
  <1>6. k = h + 1 /\ x[h + 1] = c /\ \A j \in 1..h : x[j] = y[j]
    <2>1. IsAppended(x, y, c)
      <3>1. ~(n < 10)
        OBVIOUS
      <3> QED
        BY <1>1, <1>2, <3>1, DecimalIs DEF IsAppended
    <2>2. y \in Places /\ Len(y) = h
      BY <1>1, <1>2, <1>3, <1>4, DigitsAreText
    <2>3. OneLonger(x, y, h, c)
      BY <1>3, <1>4, <2>1, <2>2, OneMore
    <2> QED
      BY <1>4, <2>3 DEF OneLonger
  <1>7. PICK w : w = Append(v, c)
    OBVIOUS
  <1>8. Len(w) = m + 1 /\ w[m + 1] = c /\ \A j \in 1..m : w[j] = v[j]
    <2>1. IsAppended(w, v, c)
      BY <1>7 DEF IsAppended
    <2>2. OneLonger(w, v, m, c)
      BY <1>3, <1>4, <2>1, OneMore
    <2> QED
      BY <2>2 DEF OneLonger
  <1>9. k + m = l /\ (\A j \in 1..k : x[j] = d[j]) /\ (\A j \in 1..m : v[j] = d[l + 1 - j])
    BY <1>1, <1>4 DEF HalfDone
  <1>10. h + (m + 1) = l
    BY <1>5, <1>6, <1>9
  <1>11. \A j \in 1..h : y[j] = d[j]
    <2>1. \A j \in 1..h : j \in 1..k
      BY <1>5, <1>6
    <2> QED
      BY <1>6, <1>9, <2>1
  <1>12. ASSUME NEW j \in 1..(m + 1) PROVE w[j] = d[l + 1 - j]
    <2>1. CASE j \in 1..m
      BY <1>8, <1>9, <2>1
    <2>2. CASE j = m + 1
      <3>1. l + 1 - j = h + 1 /\ h + 1 \in 1..k
        BY <1>5, <1>6, <1>10, <2>2
      <3> QED
        BY <1>6, <1>8, <1>9, <2>2, <3>1
    <2> QED
      BY <1>5, <2>1, <2>2
  <1> QED
    BY <1>1, <1>2, <1>4, <1>7, <1>8, <1>10, <1>11, <1>12 DEF HalfDone

(* The last digit is appended.                                             *)
LEMMA DivideLast ==
    ASSUME NEW v \in Places, NEW n \in Nat, n < 10, NEW d \in Places,
           HalfDone(v, DecimalOf[n], d)
    PROVE  /\ Turned(Append(v, n % 10), d, 1, Len(Append(v, n % 10)))
           /\ Len(Append(v, n % 10)) >= 1
  <1>1. DecimalOf[n] = <<n>> /\ n % 10 = n /\ n \in -1..12
    <2>1. n \in 0..9 /\ n % 10 = n
      BY LastDigit
    <2>2. DecimalOf[n] = <<n>>
      BY DecimalIs
    <2>3. n \in -1..12
      BY <2>1
    <2> QED
      BY <2>1, <2>2, <2>3
  <1>2. PICK m, l : m = Len(v) /\ l = Len(d)
    OBVIOUS
  <1>3. m \in Nat /\ l \in Nat
    BY <1>2, CharactersOfText
  <1>4. PICK w : w = Append(v, n)
    OBVIOUS
  <1>5. Len(w) = m + 1 /\ w[m + 1] = n /\ \A j \in 1..m : w[j] = v[j]
    <2>1. IsAppended(w, v, n)
      BY <1>4 DEF IsAppended
    <2>2. OneLonger(w, v, m, n)
      BY <1>1, <1>2, <2>1, OneMore
    <2> QED
      BY <2>2 DEF OneLonger
  <1>6. 1 + m = l /\ d[1] = n /\ \A j \in 1..m : v[j] = d[l + 1 - j]
    <2>1. PICK x : x = <<n>>
      OBVIOUS
    <2>2. Len(x) = 1 /\ x[1] = n /\ 1 \in 1..1
      BY <2>1
    <2>3. HalfDone(v, x, d)
      BY <1>1, <2>1
    <2>4. 1 + m = l /\ (\A j \in 1..1 : x[j] = d[j]) /\ (\A j \in 1..m : v[j] = d[l + 1 - j])
      BY <1>2, <2>2, <2>3 DEF HalfDone
    <2> QED
      BY <2>2, <2>4
  <1>7. ASSUME NEW j \in 1..l PROVE w[j] = d[l + 1 - j]
    <2>1. CASE j \in 1..m
      BY <1>5, <1>6, <2>1
    <2>2. CASE j = m + 1
      <3>1. l + 1 - j = 1
        BY <1>3, <1>6, <2>2
      <3> QED
        BY <1>5, <1>6, <2>2, <3>1
    <2> QED
      BY <1>3, <1>6, <2>1, <2>2
  <1>8. ASSUME NEW j \in 1..l
        PROVE  w[j] = IF j < 1 \/ j > m + 1 THEN d[j] ELSE d[l + 1 - j]
    <2>1. ~(j < 1) /\ ~(j > m + 1)
      BY <1>3, <1>6
    <2> QED
      BY <1>7, <2>1
  <1>9. Len(w) = l /\ 1 \in Nat /\ m + 1 \in Nat /\ 1 >= 1 /\ 1 + (m + 1) = l + 1 /\ m + 1 >= 1
    BY <1>3, <1>5, <1>6
  <1>10. Turned(w, d, 1, m + 1)
    BY <1>2, <1>8, <1>9 DEF Turned
  <1> QED
    BY <1>1, <1>4, <1>5, <1>9, <1>10

(* Two digits are exchanged.                                               *)
IsExchanged(w, v, f, e) == w = [v EXCEPT ![e] = v[f], ![f] = v[e]]

(* With each exchange two more digits are where they belong.               *)
LEMMA TurnMore ==
    ASSUME NEW v \in Places, NEW d, NEW f, NEW e, Turned(v, d, f, e), f <= e,
           NEW w, IsExchanged(w, v, f, e)
    PROVE  /\ Turned(w, d, f + 1, e - 1)
           /\ w \in Places /\ Len(w) = Len(v)
  <1>1. PICK l : l = Len(d)
    OBVIOUS
  <1>2. /\ Len(v) = l
        /\ f \in Nat /\ e \in Nat /\ f >= 1 /\ f + e = l + 1
        /\ \A j \in 1..l : v[j] = IF j < f \/ j > e THEN d[j] ELSE d[l + 1 - j]
    BY <1>1 DEF Turned
  <1>3. l \in Nat /\ DOMAIN v = 1..l /\ \A j \in 1..l : v[j] \in -1..12
    BY <1>2, CharactersOfText
  <1>4. f \in 1..l /\ e \in 1..l /\ l + 1 - f = e /\ l + 1 - e = f
    BY <1>2, <1>3
  <1>5. \A j \in 1..l : w[j] = IF j = f THEN v[e] ELSE IF j = e THEN v[f] ELSE v[j]
    BY <1>3, <1>4 DEF IsExchanged
  <1>6. w = [j \in 1..l |-> w[j]]
    BY <1>3 DEF IsExchanged
  <1>7. w \in Places /\ Len(w) = l
    <2>1. \A j \in 1..l : w[j] \in -1..12
      BY <1>3, <1>4, <1>5
    <2>2. w \in Seq(-1..12)
      <3>1. PICK u : u = w
        OBVIOUS
      <3>2. u = [j \in 1..l |-> u[j]] /\ \A j \in 1..l : u[j] \in -1..12
        BY <1>6, <2>1, <3>1
      <3>3. u \in [1..l -> -1..12] /\ l \in Nat
        BY <1>3, <3>2
      <3>4. u \in Seq(-1..12)
        BY <3>3
      <3> QED
        BY <3>1, <3>4
    <2> QED
      BY <1>3, <1>6, <2>2 DEF Places, Letter
  <1>8. ASSUME NEW j \in 1..l
        PROVE  w[j] = IF j < f + 1 \/ j > e - 1 THEN d[j] ELSE d[l + 1 - j]
    <2>1. CASE j = f
      <3>1. v[e] = d[l + 1 - e] /\ j < f + 1
        <4>1. ~(e < f) /\ ~(e > e)
          BY <1>2
        <4> QED
          BY <1>2, <1>4, <2>1, <4>1
      <3> QED
        BY <1>4, <1>5, <2>1, <3>1
    <2>2. CASE j # f /\ j = e
      <3>1. v[f] = d[l + 1 - f] /\ j > e - 1
        <4>1. ~(f < f) /\ ~(f > e)
          BY <1>2
        <4> QED
          BY <1>2, <1>4, <2>2, <4>1
      <3> QED
        BY <1>4, <1>5, <2>2, <3>1
    <2>3. CASE j # f /\ j # e
      <3>1. w[j] = v[j]
        BY <1>5, <2>3
      <3>2. (j < f + 1 \/ j > e - 1) <=> (j < f \/ j > e)
        BY <1>2, <2>3
      <3> QED
        BY <1>2, <3>1, <3>2
    <2> QED
      BY <2>1, <2>2, <2>3
  <1>9. f + 1 \in Nat /\ e - 1 \in Nat /\ f + 1 >= 1 /\ (f + 1) + (e - 1) = l + 1
    BY <1>2, <1>3
  <1>10. Turned(w, d, f + 1, e - 1)
    BY <1>1, <1>7, <1>8, <1>9 DEF Turned
  <1> QED
    BY <1>2, <1>7, <1>10

(* Where no two digits are left, all are in their places.                  *)
LEMMA TurnDone ==
    ASSUME NEW v \in Places, NEW d \in Places, NEW f, NEW e, Turned(v, d, f, e), ~(f < e)
    PROVE  v = d
  <1>1. PICK l : l = Len(d)
    OBVIOUS
  <1>2. /\ Len(v) = l
        /\ f \in Nat /\ e \in Nat /\ f >= 1 /\ f + e = l + 1
        /\ \A j \in 1..l : v[j] = IF j < f \/ j > e THEN d[j] ELSE d[l + 1 - j]
    BY <1>1 DEF Turned
  <1>3. l \in Nat
    BY <1>2, CharactersOfText
  <1>4. ASSUME NEW j \in 1..l PROVE v[j] = d[j]
    <2>1. CASE j < f \/ j > e
      BY <1>2, <2>1
    <2>2. CASE ~(j < f \/ j > e)
      <3>1. l + 1 - j = j
        BY <1>2, <1>3, <2>2
      <3> QED
        BY <1>2, <2>2, <3>1
    <2> QED
      BY <2>1, <2>2
  <1> QED
    BY <1>1, <1>2, <1>3, <1>4, SameText

(* The number that is left of an int when it becomes an unsigned long.     *)
Given(i) == i % (ULONG_MAX + 1)

(* An int that is not negative is left as it is and fits the block; one    *)
(* that is negative has more digits than the block.                        *)
LEMMA IntIsGiven ==
    ASSUME NEW i \in Ints
    PROVE  /\ i \in Int /\ Given(i) \in 0..ULONG_MAX
           /\ i >= 0 => Given(i) = i /\ Len(DecimalOf[i]) < IntRoom
           /\ i < 0 => Len(DecimalOf[Given(i)]) >= IntRoom
  <1>0. /\ INT_MAX \in Nat /\ ULONG_MAX \in Nat /\ INT_MAX < ULONG_MAX
        /\ i \in -(INT_MAX + 1)..INT_MAX /\ IntRoom \in Nat
    BY WidthAssumption
  <1>1. PICK b : b = ULONG_MAX + 1
    OBVIOUS
  <1>2. b \in Nat /\ b > 0 /\ i \in Int
    BY <1>0, <1>1
  <1>3. Given(i) = i % b
    BY <1>1 DEF Given
  <1>4. ASSUME i >= 0 PROVE Given(i) = i /\ Given(i) \in 0..ULONG_MAX /\ Len(DecimalOf[i]) < IntRoom
    <2>1. i \in 0..ULONG_MAX /\ i < b
      BY <1>0, <1>1, <1>4
    <2>2. i % b = i
      BY <1>2, <2>1
    <2>3. i \in Nat /\ INT_MAX + 1 \in Nat /\ i <= INT_MAX + 1
      BY <1>0, <2>1
    <2>4. PICK k, l : k = Len(DecimalOf[i]) /\ l = Len(DecimalOf[INT_MAX + 1])
      OBVIOUS
    <2>5. k \in Nat /\ k <= l
      BY <2>3, <2>4, DigitsGrow
    <2>6. l \in Nat
      BY <2>3, <2>4, DigitsAreText
    <2>7. l + 2 <= IntRoom
      BY <2>4, WidthAssumption
    <2>8. k < IntRoom
      BY <1>0, <2>5, <2>6, <2>7
    <2> QED
      BY <1>3, <2>1, <2>2, <2>4, <2>8
  <1>5. ASSUME i < 0 PROVE Given(i) \in 0..ULONG_MAX /\ Len(DecimalOf[Given(i)]) >= IntRoom
    <2>1. -b <= i /\ i < 0
      BY <1>0, <1>1, <1>5
    <2>2. i % b = b + i
      BY <1>2, <2>1
    <2>3. PICK n, h : n = b + i /\ h = ULONG_MAX - INT_MAX
      OBVIOUS
    <2>4. n \in Nat /\ n \in 0..ULONG_MAX /\ h \in Nat /\ h <= n
      BY <1>0, <1>1, <1>5, <2>3
    <2>5. PICK k, l : k = Len(DecimalOf[h]) /\ l = Len(DecimalOf[n])
      OBVIOUS
    <2>6. k \in Nat /\ k <= l
      BY <2>4, <2>5, DigitsGrow
    <2>7. l \in Nat
      BY <2>4, <2>5, DigitsAreText
    <2>8. IntRoom <= k
      BY <2>3, <2>5, WidthAssumption
    <2>9. l >= IntRoom
      BY <1>0, <2>6, <2>7, <2>8
    <2> QED
      BY <1>3, <2>2, <2>3, <2>4, <2>5, <2>9
  <1> QED
    BY <1>2, <1>4, <1>5

(* While itoa runs, the variable holds what it was given.                  *)
ItoaRuns == itoa # "returned" => last.kind = "int" /\ var # "none"

GivenDigits == DecimalOf[Given(last.number)]

(* The number that is to be divided still has the first digits, and the    *)
(* text has the last ones in the wrong order.                              *)
DigitsCutOff == itoa = "divide" => HalfDone(value, DecimalOf[val], GivenDigits)

(* All digits are there; the outer ones are in the right order.            *)
DigitsTurned == itoa = "turn" => Turned(value, GivenDigits, firstdig, p) /\ firstdig <= p

(* What was assigned is a number or a text.                                *)
GivenIs ==
    \/ last.kind = "int" /\ last.number \in Ints
    \/ last.kind = "double" /\ last.number \in Nat
    \/ last.kind = "text"

(* A variable holds what it was given, and is in its room unless           *)
(* it is undefined.                                                        *)
IntIsThere ==
    last.kind = "int" =>
        /\ itoa = "returned" /\ var # "none" => value = GivenDigits
        /\ var = "live" => Len(value) < IntRoom
        /\ var = "undefined" => last.number < 0

DoubleIsThere ==
    last.kind = "double" =>
        /\ var # "none" => value = Formatted(last.number)
        /\ var = "undefined" => Len(Formatted(last.number)) >= DoubleRoom

TextIsThere ==
    last.kind = "text" =>
        /\ var = "live" => value = last.text
        /\ var = "undefined" => last.text = Null

VarInv ==
    /\ VarTypeOK /\ ItoaRuns /\ DigitsCutOff /\ DigitsTurned /\ GivenIs
    /\ IntIsThere /\ DoubleIsThere /\ TextIsThere

(* What is assigned is of one kind.                                        *)
LEMMA KindsOf ==
    ASSUME NEW n, NEW s
    PROVE  /\ OfInt(n).kind = "int" /\ OfInt(n).number = n
           /\ OfDouble(n).kind = "double" /\ OfDouble(n).number = n
           /\ OfText(s).kind = "text" /\ OfText(s).text = s
  BY DEF OfInt, OfDouble, OfText

(* There is no text before something is assigned.                          *)
LEMMA VarStarts == ASSUME VarInit PROVE VarInv
  <1>1. Null \in Seq(-1..Letter)
    <2>1. -1 \in -1..Letter
      BY DEF Letter
    <2> QED
      BY <2>1 DEF Null
  <1>2. 0 \in 0..ULONG_MAX
    BY WidthAssumption
  <1>3. /\ var = "none" /\ value = Null /\ itoa = "returned" /\ val = 0
        /\ last.kind = "text" /\ last.text = Null
    BY KindsOf DEF VarInit
  <1> QED
    BY <1>1, <1>2, <1>3 DEF VarInv, VarTypeOK, ItoaRuns, DigitsCutOff, DigitsTurned, GivenIs,
       IntIsThere, DoubleIsThere, TextIsThere

(* What is assigned at once is there at once: a double, a text, or the     *)
(* variable itself; and so is nothing.                                     *)
LEMMA AssignedAtOnce ==
    ASSUME VarInv, itoa = "returned", itoa' = "returned", val' = val,
           value' \in Seq(-1..Letter),
           var' \in {"none", "live", "undefined"},
           last'.kind # "int", GivenIs', DoubleIsThere', TextIsThere'
    PROVE  VarInv'
  BY DEF VarInv, VarTypeOK, ItoaRuns, DigitsCutOff, DigitsTurned, IntIsThere

(* A block with nothing in it is made, and a variable is destroyed.        *)
LEMMA NothingThere ==
    ASSUME VarInv, ConstructEmpty \/ Destroy PROVE VarInv'
  <1>1. itoa = "returned"
    BY DEF VarInv, ItoaRuns, ConstructEmpty, Destroy
  <1>2. /\ itoa' = itoa /\ val' = val /\ value' = Null /\ last' = OfText(Null)
        /\ var' \in {"none", "live"}
    BY DEF ConstructEmpty, Destroy
  <1>3. last'.kind = "text" /\ last'.text = Null
    BY <1>2, KindsOf
  <1>4. Null \in Seq(-1..Letter)
    <2>1. -1 \in -1..Letter
      BY DEF Letter
    <2> QED
      BY <2>1 DEF Null
  <1>5. GivenIs' /\ DoubleIsThere' /\ TextIsThere'
    BY <1>2, <1>3 DEF GivenIs, DoubleIsThere, TextIsThere
  <1> QED
    BY <1>1, <1>2, <1>3, <1>4, <1>5, AssignedAtOnce

(* An int is assigned: nothing of it is in the text yet.                   *)
LEMMA AssignsInt ==
    ASSUME VarInv, NEW i \in Ints, AssignInt(i) PROVE VarInv'
  <1>1. /\ var' = "live" /\ value' = << >> /\ itoa' = "divide" /\ val' = Given(i)
        /\ last' = OfInt(i)
    BY DEF AssignInt, Assigning, Given
  <1>2. last'.kind = "int" /\ last'.number = i
    BY <1>1, KindsOf
  <1>3. Given(i) \in 0..ULONG_MAX
    BY IntIsGiven
  <1>4. VarTypeOK'
    BY <1>1, <1>3 DEF VarTypeOK
  <1>5. IntRoom > 0
    <2>1. PICK l : l = Len(DecimalOf[INT_MAX + 1])
      OBVIOUS
    <2>2. l \in Nat
      BY <2>1, DigitsAreText, WidthAssumption
    <2> QED
      BY <2>1, <2>2, WidthAssumption
  <1>6. HalfDone(<< >>, DecimalOf[Given(i)], DecimalOf[Given(i)])
    <2>1. PICK d, l : d = DecimalOf[Given(i)] /\ l = Len(d)
      OBVIOUS
    <2>2. l \in Nat
      BY <1>3, <2>1, DigitsAreText, WidthAssumption
    <2>3. Len(<< >>) = 0 /\ l + 0 = l /\ \A j \in 1..0 : FALSE
      BY <2>2
    <2> QED
      BY <2>1, <2>3 DEF HalfDone
  <1>7. DigitsCutOff'
    BY <1>1, <1>2, <1>6 DEF DigitsCutOff, GivenDigits
  <1>8. IntIsThere'
    <2>1. Len(<< >>) = 0
      OBVIOUS
    <2> QED
      BY <1>1, <1>5, <2>1 DEF IntIsThere
  <1> QED
    BY <1>1, <1>2, <1>4, <1>7, <1>8
       DEF VarInv, ItoaRuns, DigitsTurned, GivenIs, DoubleIsThere, TextIsThere

(* A double is assigned.                                                   *)
LEMMA AssignsDouble ==
    ASSUME VarInv, NEW n \in Doubles, AssignDouble(n) PROVE VarInv'
  <1>1. /\ value' = Formatted(n) /\ itoa = "returned" /\ itoa' = itoa /\ val' = val
        /\ var' = (IF Len(Formatted(n)) < DoubleRoom THEN "live" ELSE "undefined")
        /\ last' = OfDouble(n)
    BY DEF AssignDouble, Assigning
  <1>2. last'.kind = "double" /\ last'.number = n
    BY <1>1, KindsOf
  <1>3. n \in Nat
    BY TextAssumption
  <1>4. Formatted(n) \in Places
    BY <1>3, FormattedReads
  <1>5. Len(Formatted(n)) \in Nat /\ DoubleRoom \in Nat
    BY <1>4, CharactersOfText, TextAssumption
  <1>6. DoubleIsThere'
    <2>1. Len(Formatted(n)) < DoubleRoom \/ Len(Formatted(n)) >= DoubleRoom
      BY <1>5
    <2> QED
      BY <1>1, <1>2, <2>1 DEF DoubleIsThere
  <1>7. GivenIs' /\ TextIsThere'
    BY <1>2, <1>3 DEF GivenIs, TextIsThere
  <1> QED
    BY <1>1, <1>2, <1>4, <1>6, <1>7, AssignedAtOnce DEF Places

(* A text is assigned.                                                     *)
LEMMA AssignsText ==
    ASSUME VarInv, NEW s \in Texts \cup {Null}, AssignText(s) PROVE VarInv'
  <1>1. /\ value' = s /\ itoa = "returned" /\ itoa' = itoa /\ val' = val
        /\ var' = (IF s = Null THEN "undefined" ELSE "live")
        /\ last' = OfText(s)
    BY DEF AssignText, Assigning
  <1>2. last'.kind = "text" /\ last'.text = s
    BY <1>1, KindsOf
  <1>3. s \in Seq(-1..Letter)
    <2>1. CASE s \in Texts
      <3>1. s \in Seq(0..Letter)
        BY <2>1, TextAssumption
      <3>2. 0..Letter \subseteq -1..Letter
        BY DEF Letter
      <3> QED
        BY <3>1, <3>2, SeqMonotonic
    <2>2. CASE s = Null
      <3>1. -1 \in -1..Letter
        BY DEF Letter
      <3> QED
        BY <2>2, <3>1 DEF Null
    <2> QED
      BY <2>1, <2>2
  <1>4. GivenIs' /\ DoubleIsThere' /\ TextIsThere'
    BY <1>1, <1>2 DEF GivenIs, DoubleIsThere, TextIsThere
  <1>5. var' \in {"none", "live", "undefined"}
    BY <1>1
  <1> QED
    BY <1>1, <1>2, <1>3, <1>4, <1>5, AssignedAtOnce

(* A variable is assigned to itself.                                       *)
LEMMA AssignsItself ==
    ASSUME VarInv, AssignItself PROVE VarInv'
  <1>1. /\ value' = value /\ itoa = "returned" /\ itoa' = itoa /\ val' = val
        /\ var' = "undefined" /\ last' = OfText(Null)
    BY DEF AssignItself, Assigning
  <1>2. last'.kind = "text" /\ last'.text = Null
    BY <1>1, KindsOf
  <1>3. value' \in Seq(-1..Letter)
    BY <1>1 DEF VarInv, VarTypeOK
  <1>4. GivenIs' /\ DoubleIsThere' /\ TextIsThere'
    BY <1>1, <1>2 DEF GivenIs, DoubleIsThere, TextIsThere
  <1>5. var' \in {"none", "live", "undefined"}
    BY <1>1
  <1> QED
    BY <1>1, <1>2, <1>3, <1>4, <1>5, AssignedAtOnce

(* What itoa needs: a text, a number of the kind that is given.            *)
LEMMA ItoaHas ==
    ASSUME VarInv, itoa # "returned"
    PROVE  /\ last.kind = "int" /\ var \in {"live", "undefined"} /\ last.number \in Ints
           /\ value \in Places /\ val \in Nat /\ val \in 0..ULONG_MAX
           /\ GivenDigits \in Places
           /\ Len(value) \in Nat /\ Len(GivenDigits) \in Nat /\ IntRoom \in Nat
  <1>1. /\ last.kind = "int" /\ var \in {"live", "undefined"} /\ last.number \in Ints
        /\ value \in Places /\ val \in 0..ULONG_MAX
    BY DEF VarInv, VarTypeOK, ItoaRuns, GivenIs, Places
  <1>2. ULONG_MAX \in Nat /\ IntRoom \in Nat
    BY WidthAssumption
  <1>3. val \in Nat
    BY <1>1, <1>2
  <1>4. Given(last.number) \in Nat
    <2>1. Given(last.number) \in 0..ULONG_MAX
      BY <1>1, IntIsGiven
    <2> QED
      BY <1>2, <2>1
  <1>5. GivenDigits \in Places /\ Len(GivenDigits) \in Nat
    BY <1>4, DigitsAreText DEF GivenDigits
  <1>6. Len(value) \in Nat
    BY <1>1, CharactersOfText
  <1> QED
    BY <1>1, <1>2, <1>3, <1>5, <1>6

(* A number that is not negative stays in the block.                       *)
LEMMA InTheBlock ==
    ASSUME VarInv, itoa # "returned", NEW m \in Nat, m <= Len(GivenDigits), m >= IntRoom
    PROVE  last.number < 0
  <1>1. last.number \in Ints /\ Len(GivenDigits) \in Nat /\ IntRoom \in Nat
    BY ItoaHas
  <1>2. last.number \in Int
    BY <1>1, IntIsGiven
  <1>3. ASSUME last.number >= 0 PROVE FALSE
    <2>1. Len(GivenDigits) < IntRoom
      BY <1>1, <1>3, IntIsGiven DEF GivenDigits
    <2> QED
      BY <1>1, <2>1
  <1> QED
    BY <1>2, <1>3

(* A step of itoa that adds a digit.                                       *)
LEMMA Divides == ASSUME VarInv, Divide PROVE VarInv'
  <1>1. itoa = "divide" /\ last' = last
    BY DEF Divide
  <1>2. /\ last.kind = "int" /\ var \in {"live", "undefined"} /\ last.number \in Ints
        /\ value \in Places /\ val \in Nat /\ val \in 0..ULONG_MAX
        /\ GivenDigits \in Places
        /\ Len(value) \in Nat /\ Len(GivenDigits) \in Nat /\ IntRoom \in Nat
    BY <1>1, ItoaHas
  <1>3. HalfDone(value, DecimalOf[val], GivenDigits)
    BY <1>1 DEF VarInv, DigitsCutOff
  <1>4. GivenDigits' = GivenDigits
    BY <1>1 DEF GivenDigits
  <1>5. PICK w : w = Append(value, val % 10)
    OBVIOUS
  <1>6. PICK m : m = Len(value)
    OBVIOUS
  <1>7. w \in Places /\ Len(w) = m + 1 /\ m \in Nat
    <2>1. val % 10 \in 0..9
      BY <1>2, LastDigit
    <2>2. PICK c : c = val % 10
      OBVIOUS
    <2>3. c \in -1..12 /\ IsAppended(w, value, c)
      BY <1>5, <2>1, <2>2 DEF IsAppended
    <2>4. OneLonger(w, value, m, c)
      BY <1>2, <1>6, <2>3, OneMore
    <2> QED
      BY <2>4 DEF OneLonger
  <1>8. value' = w /\ val' = val \div 10
    BY <1>5 DEF Divide
  <1>9. m + 1 <= Len(GivenDigits)
    <2>1. PICK k : k = Len(DecimalOf[val])
      OBVIOUS
    <2>2. k \in Nat /\ k >= 1
      BY <1>2, <2>1, DigitsAreText
    <2>3. k + m = Len(GivenDigits)
      BY <1>3, <1>6, <2>1 DEF HalfDone
    <2> QED
      BY <1>2, <1>7, <2>2, <2>3
  <1>10. val' \in 0..ULONG_MAX
    <2>1. val \div 10 \in Nat /\ val \div 10 <= val /\ ULONG_MAX \in Nat
      BY <1>2, LastDigit, WidthAssumption
    <2> QED
      BY <1>2, <1>8, <2>1
  <1>11. var' = (IF m + 1 < IntRoom THEN var ELSE "undefined")
    BY <1>7, <1>8 DEF Divide
  <1>12. itoa' # "returned"
    BY <1>1 DEF Divide
  <1>13. IntIsThere'
    <2>1. var' = "live" => m + 1 < IntRoom
      BY <1>11
    <2>2. var' = "undefined" => last.number < 0
      <3>1. CASE m + 1 < IntRoom
        BY <1>2, <1>11, <3>1 DEF VarInv, IntIsThere
      <3>2. CASE ~(m + 1 < IntRoom)
        <4>1. m + 1 \in Nat /\ m + 1 >= IntRoom
          BY <1>2, <1>7, <3>2
        <4> QED
          BY <1>1, <1>9, <4>1, InTheBlock
      <3> QED
        BY <3>1, <3>2
    <2> QED
      BY <1>1, <1>7, <1>8, <1>12, <2>1, <2>2 DEF IntIsThere
  <1>14. var' \in {"live", "undefined"} /\ itoa' \in {"divide", "turn"}
    BY <1>1, <1>2, <1>11 DEF Divide
  <1>15. VarTypeOK'
    BY <1>7, <1>8, <1>10, <1>14 DEF VarTypeOK, Places
  <1>16. DigitsCutOff' /\ DigitsTurned'
    <2>1. CASE val >= 10
      <3>1. val' > 0
        BY <1>2, <1>8, <2>1, LastDigit
      <3>2. itoa' = "divide"
        BY <1>1, <3>1 DEF Divide
      <3>3. HalfDone(w, DecimalOf[val \div 10], GivenDigits)
        BY <1>2, <1>3, <1>5, <2>1, DivideMore
      <3> QED
        BY <1>4, <1>8, <3>2, <3>3 DEF DigitsCutOff, DigitsTurned
    <2>2. CASE val < 10
      <3>1. ~(val' > 0)
        <4>1. val \div 10 = 0
          BY <1>2, <2>2, LastDigit
        <4> QED
          BY <1>8, <4>1
      <3>2. itoa' = "turn" /\ p' = Len(value') /\ firstdig' = 1
        BY <1>1, <3>1 DEF Divide
      <3>3. Turned(w, GivenDigits, 1, Len(w)) /\ Len(w) >= 1
        BY <1>2, <1>3, <1>5, <2>2, DivideLast
      <3>4. 1 <= Len(w)
        BY <1>7, <3>3
      <3> QED
        BY <1>4, <1>8, <3>2, <3>3, <3>4 DEF DigitsCutOff, DigitsTurned
    <2> QED
      BY <1>2, <2>1, <2>2
  <1>17. ItoaRuns' /\ GivenIs' /\ DoubleIsThere' /\ TextIsThere'
    BY <1>1, <1>2, <1>14 DEF VarInv, ItoaRuns, GivenIs, DoubleIsThere, TextIsThere
  <1> QED
    BY <1>13, <1>15, <1>16, <1>17 DEF VarInv

(* A step of itoa that exchanges two.                                      *)
LEMMA Turns == ASSUME VarInv, Turn PROVE VarInv'
  <1>1. itoa = "turn" /\ last' = last /\ var' = var /\ val' = val
    BY DEF Turn
  <1>2. /\ last.kind = "int" /\ var \in {"live", "undefined"} /\ last.number \in Ints
        /\ value \in Places /\ val \in 0..ULONG_MAX
        /\ GivenDigits \in Places /\ Len(value) \in Nat
    BY <1>1, ItoaHas
  <1>3. Turned(value, GivenDigits, firstdig, p) /\ firstdig <= p
    BY <1>1 DEF VarInv, DigitsTurned
  <1>4. GivenDigits' = GivenDigits
    BY <1>1 DEF GivenDigits
  <1>5. PICK w : w = [value EXCEPT ![p] = value[firstdig], ![firstdig] = value[p]]
    OBVIOUS
  <1>6. /\ Turned(w, GivenDigits, firstdig + 1, p - 1)
        /\ w \in Places /\ Len(w) = Len(value)
    <2>1. IsExchanged(w, value, firstdig, p)
      BY <1>5 DEF IsExchanged
    <2> QED
      BY <1>2, <1>3, <2>1, TurnMore
  <1>7. value' = w /\ p' = p - 1 /\ firstdig' = firstdig + 1
    BY <1>5 DEF Turn
  <1>8. itoa' = (IF firstdig' < p' THEN "turn" ELSE "returned")
    BY DEF Turn, NotMet
  <1>9. DigitsTurned'
    <2>1. firstdig' \in Nat /\ p' \in Nat
      BY <1>6, <1>7 DEF Turned
    <2>2. firstdig' < p' => firstdig' <= p'
      BY <2>1
    <2> QED
      BY <1>4, <1>6, <1>7, <1>8, <2>2 DEF DigitsTurned
  <1>10. IntIsThere'
    <2>1. itoa' = "returned" => w = GivenDigits
      <3>1. ASSUME itoa' = "returned" PROVE ~(firstdig + 1 < p - 1)
        BY <1>7, <1>8, <3>1
      <3> QED
        BY <1>2, <1>6, <3>1, TurnDone
    <2> QED
      BY <1>1, <1>2, <1>4, <1>6, <1>7, <2>1 DEF VarInv, IntIsThere
  <1>11. VarTypeOK' /\ DigitsCutOff'
    BY <1>1, <1>2, <1>6, <1>7, <1>8 DEF VarTypeOK, Places, DigitsCutOff
  <1>12. ItoaRuns' /\ GivenIs' /\ DoubleIsThere' /\ TextIsThere'
    BY <1>1, <1>2 DEF VarInv, ItoaRuns, GivenIs, DoubleIsThere, TextIsThere
  <1> QED
    BY <1>9, <1>10, <1>11, <1>12 DEF VarInv

(* The digits of a number are cut off and turned round, whatever is        *)
(* assigned when.                                                          *)
THEOREM VarInvariant == VarSpec => []VarInv
  <1>1. VarInit => VarInv
    BY VarStarts
  <1>2. VarInv /\ [VarNext]_varVars => VarInv'
    <2> SUFFICES ASSUME VarInv, [VarNext]_varVars PROVE VarInv'
      OBVIOUS
    <2>1. CASE ConstructEmpty \/ Destroy
      BY <2>1, NothingThere
    <2>2. CASE \E i \in Ints : AssignInt(i)
      BY <2>2, AssignsInt
    <2>3. CASE \E n \in Doubles : AssignDouble(n)
      BY <2>3, AssignsDouble
    <2>4. CASE \E s \in Texts \cup {Null} : AssignText(s)
      BY <2>4, AssignsText
    <2>5. CASE AssignItself
      BY <2>5, AssignsItself
    <2>6. CASE Divide
      BY <2>6, Divides
    <2>7. CASE Turn
      BY <2>7, Turns
    <2>8. CASE UNCHANGED varVars
      BY <2>8 DEF varVars, VarInv, VarTypeOK, ItoaRuns, DigitsCutOff, DigitsTurned, GivenIs,
         IntIsThere, DoubleIsThere, TextIsThere, GivenDigits
    <2> QED
      BY <2>1, <2>2, <2>3, <2>4, <2>5, <2>6, <2>7, <2>8 DEF VarNext
  <1> QED
    BY <1>1, <1>2, PTL DEF VarSpec

(* A variable gives back the number or the text that it was last given,    *)
(* and stays in its room unless it is given what sql_var_c cannot hold.    *)
THEOREM VariableIsReadBack == VarSpec => []VariableReadsBack
  <1>1. VarInv => VariableReadsBack
    <2> SUFFICES ASSUME VarInv PROVE VariableReadsBack
      OBVIOUS
    <2>1. ASSUME var = "live", itoa = "returned", last.kind = "int"
          PROVE  value = DecimalOf[last.number] /\ AsInt = last.number
      <3>1. /\ value = GivenDigits /\ Len(value) < IntRoom /\ last.number \in Ints
        BY <2>1 DEF VarInv, IntIsThere, GivenIs
      <3>2. last.number \in Int /\ IntRoom \in Nat
        BY <3>1, IntIsGiven, WidthAssumption
      <3>3. Given(last.number) \in Nat
        <4>1. Given(last.number) \in 0..ULONG_MAX /\ ULONG_MAX \in Nat
          BY <3>1, IntIsGiven, WidthAssumption
        <4> QED
          BY <4>1
      <3>4. Len(value) \in Nat
        BY <3>1, <3>3, DigitsAreText DEF GivenDigits
      <3>5. last.number >= 0
        <4>1. ASSUME last.number < 0 PROVE FALSE
          <5>1. Len(value) >= IntRoom
            BY <3>1, <4>1, IntIsGiven DEF GivenDigits
          <5> QED
            BY <3>1, <3>2, <3>4, <5>1
        <4> QED
          BY <3>2, <4>1
      <3>6. Given(last.number) = last.number
        BY <3>1, <3>5, IntIsGiven
      <3>7. value = DecimalOf[last.number] /\ last.number \in Nat
        BY <3>1, <3>2, <3>5, <3>6 DEF GivenDigits
      <3> QED
        BY <3>7, DigitsAreRead DEF AsInt
    <2>2. ASSUME var = "live", last.kind = "double" PROVE AsInt = last.number
      <3>1. value = Formatted(last.number) /\ last.number \in Nat
        BY <2>2 DEF VarInv, DoubleIsThere, GivenIs
      <3> QED
        BY <3>1, FormattedReads DEF AsInt
    <2>3. ASSUME var = "live", last.kind = "text" PROVE value = last.text
      BY <2>3 DEF VarInv, TextIsThere
    <2>4. ASSUME var = "undefined"
          PROVE  \/ last.kind = "int" /\ last.number < 0
                 \/ last.kind = "double" /\ Len(Formatted(last.number)) >= DoubleRoom
                 \/ last.kind = "text" /\ last.text = Null
      BY <2>4 DEF VarInv, GivenIs, IntIsThere, DoubleIsThere, TextIsThere
    <2>5. last.kind \in {"int", "double", "text"}
      BY DEF VarInv, GivenIs
    <2> QED
      BY <2>1, <2>2, <2>3, <2>4, <2>5 DEF VariableReadsBack
  <1> QED
    BY <1>1, VarInvariant, PTL

(* Every variable of sql_var_c stays in its type.                          *)
THEOREM VarTypeCorrect == VarSpec => []VarTypeOK
  BY VarInvariant, PTL DEF VarInv

-----------------------------------------------------------------------------
(* The listing of the devices (SysInfo).                                   *)

(* The table of the disks.                                                 *)

Names == {Device(d) : d \in Devices \cup {"none"}}
TablesOfDisks == UNION {[T -> DiskIds \cup {NoId}] : T \in SUBSET Names}
Readings == [disk : Names, bfind_disk : BOOLEAN, table : TablesOfDisks]

Identified == identifier \in [Devices -> DiskIds \cup {NoId}]

(* A table that gives one disk an identifier.                              *)
Entered(table, disk, id) ==
    [part \in DOMAIN table \cup {disk} |-> IF part = disk THEN id ELSE table[part]]

(* What is read after a device, by the device that it is.                  *)
AfterDevice(r, q, d) ==
    LET disk == IF d \in Sd THEN Device(d) ELSE r.disk
        found == d \in Sd \/ r.bfind_disk
    IN  /\ q.disk = disk
        /\ q.bfind_disk = (found /\ identifier[d] = NoId)
        /\ q.table = IF found /\ identifier[d] # NoId
                       THEN Entered(r.table, disk, identifier[d]) ELSE r.table
        /\ q = [disk |-> q.disk, bfind_disk |-> q.bfind_disk, table |-> q.table]

(* Names are as they are made.                                             *)
LEMMA DevicesDiffer ==
    ASSUME NEW d, NEW e
    PROVE  Device(d) = Device(e) => d = e
  <1>1. Device(d).device = d /\ Device(e).device = e
    BY DEF Device
  <1> QED
    BY <1>1

(* The lines of a device are read one after the other.                     *)
LEMMA ReadDeviceDoes ==
    ASSUME NEW r \in Readings, NEW d \in Devices, Identified
    PROVE  AfterDevice(r, ReadDevice(r, d), d)
  <1>1. r = [disk |-> r.disk, bfind_disk |-> r.bfind_disk, table |-> r.table]
        /\ r.bfind_disk \in BOOLEAN
    BY DEF Readings
  <1>2. PICK h : h = ReadLine(r, Header(d))
    OBVIOUS
  <1>3. PICK l : l = IdLine(d)
    OBVIOUS
  <1>4. l.kind = "Disk_identifier" /\ l.id = identifier[d]
    BY <1>3 DEF IdLine
  <1>5. /\ h.disk = (IF d \in Sd THEN Device(d) ELSE r.disk)
        /\ h.bfind_disk = (d \in Sd \/ r.bfind_disk)
        /\ h.table = r.table
        /\ h = [disk |-> h.disk, bfind_disk |-> h.bfind_disk, table |-> h.table]
    <2>1. PICK e : e = Header(d)
      OBVIOUS
    <2>2. CASE d \in Sd
      <3>1. e.kind = "Disk_sd" /\ e.device = d
        BY <2>1, <2>2 DEF Header
      <3>2. h = [r EXCEPT !.disk = Device(d), !.bfind_disk = TRUE]
        BY <1>2, <2>1, <3>1 DEF ReadLine
      <3> QED
        BY <1>1, <2>2, <3>2
    <2>3. CASE d \notin Sd
      <3>1. e.kind = "Disk" /\ e.device = d
        BY <2>1, <2>3 DEF Header
      <3>2. h = [r EXCEPT !.disk = r.disk, !.bfind_disk = r.bfind_disk]
        BY <1>1, <1>2, <2>1, <3>1 DEF ReadLine
      <3> QED
        BY <1>1, <2>3, <3>2
    <2> QED
      BY <2>2, <2>3
  <1>6. PICK q : q = ReadDevice(r, d)
    OBVIOUS
  <1>7. CASE identifier[d] = NoId
    <2>1. q = h
      BY <1>2, <1>6, <1>7 DEF ReadDevice
    <2> QED
      BY <1>5, <1>6, <1>7, <2>1 DEF AfterDevice
  <1>8. CASE identifier[d] # NoId
    <2>1. q = ReadLine(h, l)
      BY <1>2, <1>3, <1>6, <1>8 DEF ReadDevice
    <2>2. CASE h.bfind_disk
      <3>1. q = [disk |-> h.disk, bfind_disk |-> FALSE,
                 table |-> Entered(h.table, h.disk, l.id)]
        BY <1>4, <2>1, <2>2 DEF ReadLine, Entered, FindAfterId
      <3>2. /\ q.disk = h.disk /\ q.bfind_disk = FALSE
            /\ q.table = Entered(r.table, h.disk, identifier[d])
            /\ q = [disk |-> q.disk, bfind_disk |-> q.bfind_disk, table |-> q.table]
        BY <1>4, <1>5, <3>1
      <3>3. CASE d \in Sd
        BY <1>5, <1>6, <1>8, <3>2, <3>3 DEF AfterDevice
      <3>4. CASE d \notin Sd
        <4>1. r.bfind_disk
          BY <1>5, <2>2, <3>4
        <4> QED
          BY <1>5, <1>6, <1>8, <3>2, <3>4, <4>1 DEF AfterDevice
      <3> QED
        BY <3>3, <3>4
    <2>3. CASE ~h.bfind_disk
      <3>1. q = [h EXCEPT !.disk = h.disk, !.bfind_disk = h.bfind_disk]
        BY <1>4, <1>5, <2>1, <2>3 DEF ReadLine
      <3>2. h.bfind_disk = FALSE
        BY <1>1, <1>5, <2>3
      <3> QED
        BY <1>5, <1>6, <1>8, <2>3, <3>1, <3>2 DEF AfterDevice
    <2> QED
      BY <2>2, <2>3
  <1> QED
    BY <1>7, <1>8

(* A table with one more entry is a table.                                 *)
LEMMA EntryMade ==
    ASSUME NEW S, NEW T \in SUBSET S, NEW I, NEW table \in [T -> I], NEW disk \in S, NEW id \in I
    PROVE  /\ Entered(table, disk, id) \in [T \cup {disk} -> I]
           /\ DOMAIN Entered(table, disk, id) = T \cup {disk}
           /\ \A part \in T : part # disk => Entered(table, disk, id)[part] = table[part]
           /\ Entered(table, disk, id)[disk] = id
  BY DEF Entered

(* Every reading is one.                                                   *)
LEMMA ReadingStays ==
    ASSUME NEW r \in Readings, NEW d \in Devices, Identified
    PROVE  ReadDevice(r, d) \in Readings
  <1>1. PICK q : q = ReadDevice(r, d)
    OBVIOUS
  <1>2. AfterDevice(r, q, d)
    BY <1>1, ReadDeviceDoes
  <1>3. r.disk \in Names /\ r.bfind_disk \in BOOLEAN /\ r.table \in TablesOfDisks
    BY DEF Readings
  <1>4. Device(d) \in Names /\ identifier[d] \in DiskIds \cup {NoId}
    BY DEF Names, Identified
  <1>5. q.disk \in Names /\ q.bfind_disk \in BOOLEAN
    BY <1>2, <1>3, <1>4 DEF AfterDevice
  <1>6. \A disk \in Names : Entered(r.table, disk, identifier[d]) \in TablesOfDisks
    <2> SUFFICES ASSUME NEW disk \in Names
                 PROVE  Entered(r.table, disk, identifier[d]) \in TablesOfDisks
      OBVIOUS
    <2>1. PICK T \in SUBSET Names : r.table \in [T -> DiskIds \cup {NoId}]
      BY <1>3 DEF TablesOfDisks
    <2>2. Entered(r.table, disk, identifier[d]) \in [T \cup {disk} -> DiskIds \cup {NoId}]
      BY <1>4, <2>1, EntryMade
    <2>3. T \cup {disk} \in SUBSET Names
      BY <2>1
    <2> QED
      BY <2>2, <2>3 DEF TablesOfDisks
  <1>7. q.table \in TablesOfDisks
    BY <1>2, <1>3, <1>4, <1>6 DEF AfterDevice
  <1>8. q = [disk |-> q.disk, bfind_disk |-> q.bfind_disk, table |-> q.table]
    BY <1>2 DEF AfterDevice
  <1> QED
    BY <1>1, <1>5, <1>7, <1>8 DEF Readings

(* A disk is in the table with its identifier.                             *)
Known(table, d) ==
    d \in Sd /\ identifier[d] # NoId =>
        Device(d) \in DOMAIN table /\ table[Device(d)] = identifier[d]

SdNames == {Device(d) : d \in Sd}

(* After the first i devices: an identifier that is still looked for       *)
(* belongs to a disk that has none.                                        *)
ReadSoFar(r, i) ==
    /\ r.bfind_disk => \E d \in Sd : r.disk = Device(d) /\ identifier[d] = NoId
    /\ DOMAIN r.table \subseteq SdNames
    /\ \A k \in 1..i : Known(r.table, Listing[k])

(* An entry for a disk leaves the other disks known.                       *)
LEMMA KnownStays ==
    ASSUME NEW table, NEW e, NEW id, NEW d, Known(table, d),
           identifier[e] = NoId \/ id = identifier[e]
    PROVE  Known(Entered(table, Device(e), id), d)
  <1> SUFFICES ASSUME d \in Sd, identifier[d] # NoId
               PROVE  /\ Device(d) \in DOMAIN Entered(table, Device(e), id)
                      /\ Entered(table, Device(e), id)[Device(d)] = identifier[d]
    BY DEF Known
  <1>1. Device(d) \in DOMAIN table /\ table[Device(d)] = identifier[d]
    BY DEF Known
  <1>2. CASE Device(d) = Device(e)
    <2>1. d = e
      BY <1>2, DevicesDiffer
    <2> QED
      BY <2>1 DEF Entered
  <1>3. CASE Device(d) # Device(e)
    BY <1>1, <1>3 DEF Entered
  <1> QED
    BY <1>2, <1>3

(* One device more is read.                                                *)
LEMMA ReadOneMore ==
    ASSUME NEW r \in Readings, NEW i \in Nat, i \in 1..Len(Listing), Identified,
           ReadSoFar(r, i - 1), NEW q, AfterDevice(r, q, Listing[i]),
           Listing[i] \in Devices
    PROVE  ReadSoFar(q, i)
  <1>1. PICK d : d = Listing[i]
    OBVIOUS
  <1>2. \A k \in 1..i : k = i \/ k \in 1..(i - 1)
    OBVIOUS
  <1>3. \A k \in 1..(i - 1) : Known(r.table, Listing[k])
    BY DEF ReadSoFar
  <1>4. DOMAIN r.table \subseteq SdNames
    BY DEF ReadSoFar
  <1>5. ASSUME NEW e \in Sd, q.table = Entered(r.table, Device(e), identifier[d]),
               ~q.bfind_disk, identifier[e] = NoId \/ identifier[d] = identifier[e],
               d \in Sd => e = d
        PROVE  ReadSoFar(q, i)
    <2>1. DOMAIN q.table \subseteq SdNames
      <3>1. DOMAIN Entered(r.table, Device(e), identifier[d]) = DOMAIN r.table \cup {Device(e)}
        BY DEF Entered
      <3>2. Device(e) \in SdNames
        BY DEF SdNames
      <3> QED
        BY <1>4, <1>5, <3>1, <3>2
    <2>2. \A k \in 1..(i - 1) : Known(q.table, Listing[k])
      BY <1>3, <1>5, KnownStays
    <2>3. Known(q.table, d)
      <3>1. CASE d \in Sd
        BY <1>5, <3>1 DEF Known, Entered
      <3>2. CASE d \notin Sd
        BY <3>2 DEF Known
      <3> QED
        BY <3>1, <3>2
    <2> QED
      BY <1>1, <1>2, <1>5, <2>1, <2>2, <2>3 DEF ReadSoFar
  <1>6. ASSUME q.table = r.table, ~(d \in Sd /\ identifier[d] # NoId),
               q.bfind_disk => \E e \in Sd : q.disk = Device(e) /\ identifier[e] = NoId
        PROVE  ReadSoFar(q, i)
    <2>1. Known(q.table, d)
      BY <1>6 DEF Known
    <2> QED
      BY <1>1, <1>2, <1>3, <1>4, <1>6, <2>1 DEF ReadSoFar
  <1>7. CASE d \in Sd /\ identifier[d] # NoId
    <2>1. ~q.bfind_disk /\ q.table = Entered(r.table, Device(d), identifier[d])
      BY <1>1, <1>7 DEF AfterDevice
    <2> QED
      BY <1>5, <1>7, <2>1
  <1>8. CASE d \in Sd /\ identifier[d] = NoId
    <2>1. q.table = r.table /\ q.disk = Device(d)
      BY <1>1, <1>8 DEF AfterDevice
    <2> QED
      BY <1>6, <1>8, <2>1
  <1>9. CASE d \notin Sd /\ r.bfind_disk /\ identifier[d] # NoId
    <2>1. PICK e \in Sd : r.disk = Device(e) /\ identifier[e] = NoId
      BY <1>9 DEF ReadSoFar
    <2>2. ~q.bfind_disk /\ q.table = Entered(r.table, Device(e), identifier[d])
      BY <1>1, <1>9, <2>1 DEF AfterDevice
    <2> QED
      BY <1>5, <1>9, <2>1, <2>2
  <1>10. CASE d \notin Sd /\ ~(r.bfind_disk /\ identifier[d] # NoId)
    <2>1. q.table = r.table /\ q.disk = r.disk /\ (q.bfind_disk => r.bfind_disk)
      BY <1>1, <1>10 DEF AfterDevice
    <2>2. r.bfind_disk => \E e \in Sd : r.disk = Device(e) /\ identifier[e] = NoId
      BY DEF ReadSoFar
    <2> QED
      BY <1>6, <1>10, <2>1, <2>2
  <1> QED
    BY <1>7, <1>8, <1>9, <1>10

(* The reading of all devices, as a function over sets of positions.       *)
ReadAt(g, s) == IF s = {} THEN NothingRead ELSE ReadDevice(g[s \ {Max(s)}], Listing[Max(s)])

TheReads == CHOOSE g : g = [s \in SUBSET DOMAIN Listing |-> ReadAt(g, s)]

(* What is read of the listing is such a fold.                             *)
LEMMA ReadIsFold == FoldLeft(ReadDevice, NothingRead, Listing) = TheReads[DOMAIN Listing]
  BY Zenon DEF FoldLeft, MapThenFoldSet, TheReads, ReadAt

(* The list of the devices.                                                *)
LEMMA ListingIs ==
    /\ Len(Listing) \in Nat /\ DOMAIN Listing = 1..Len(Listing)
    /\ \A k \in 1..Len(Listing) : Listing[k] \in Devices
    /\ \A d \in Sd : d \in Devices /\ \E k \in 1..Len(Listing) : Listing[k] = d
  <1>1. Listing \in Seq(STRING) /\ Sd \subseteq ToSet(Listing)
    BY DevicesAssumption
  <1>2. Len(Listing) \in Nat /\ DOMAIN Listing = 1..Len(Listing)
    BY <1>1
  <1>3. Devices = {Listing[k] : k \in 1..Len(Listing)}
    BY <1>2 DEF Devices, ToSet
  <1> QED
    BY <1>1, <1>2, <1>3 DEF Devices

(* It is read device after device.                                         *)
LEMMA ReadSteps ==
    ASSUME Identified
    PROVE  \E r : /\ r[0] = NothingRead
                  /\ FoldLeft(ReadDevice, NothingRead, Listing) = r[Len(Listing)]
                  /\ \A i \in 0..Len(Listing) : r[i] \in Readings
                  /\ \A i \in 1..Len(Listing) : r[i] = ReadDevice(r[i - 1], Listing[i])
  <1>1. PICK n : n = Len(Listing)
    OBVIOUS
  <1>2. n \in Nat /\ DOMAIN Listing = 1..n /\ \A i \in 1..n : Listing[i] \in Devices
    BY <1>1, ListingIs
  <1>3. PICK step : step = [x \in Readings \X (1..n) |-> ReadDevice(x[1], Listing[x[2]])]
    OBVIOUS
  <1>4. step \in [Readings \X (1..n) -> Readings]
    <2>1. ASSUME NEW x \in Readings \X (1..n) PROVE ReadDevice(x[1], Listing[x[2]]) \in Readings
      <3>1. x[1] \in Readings /\ x[2] \in 1..n
        OBVIOUS
      <3>2. Listing[x[2]] \in Devices
        BY <1>2, <3>1
      <3> QED
        BY <3>1, <3>2, ReadingStays
    <2> QED
      BY <1>3, <2>1
  <1>5. NothingRead \in Readings
    <2>1. Device("none") \in Names
      BY DEF Names
    <2>2. NoTable \in TablesOfDisks
      <3>1. NoTable \in [{} -> DiskIds \cup {NoId}] /\ {} \in SUBSET Names
        BY DEF NoTable
      <3> QED
        BY <3>1 DEF TablesOfDisks
    <2> QED
      BY <2>1, <2>2 DEF NothingRead, Readings
  <1>6. PICK g \in [SUBSET (1..n) -> Readings] : FoldsTo(g, n, NothingRead, step)
    BY <1>2, <1>4, <1>5, FoldExists
  <1>7. ASSUME NEW s \in SUBSET (1..n) PROVE g[s] = ReadAt(g, s)
    <2>1. CASE s = {}
      BY <1>6, <2>1 DEF FoldsTo, ReadAt
    <2>2. CASE s # {}
      <3>1. Max(s) \in s
        <4>1. s \subseteq 0..n
          OBVIOUS
        <4> QED
          BY <1>2, <2>2, <4>1, MaxIs
      <3>2. s \ {Max(s)} \in SUBSET (1..n) /\ Max(s) \in 1..n
        BY <3>1
      <3>3. <<g[s \ {Max(s)}], Max(s)>> \in Readings \X (1..n)
        BY <1>6, <3>2
      <3>4. step[<<g[s \ {Max(s)}], Max(s)>>] = ReadDevice(g[s \ {Max(s)}], Listing[Max(s)])
        BY <1>3, <3>3
      <3> QED
        BY <1>6, <2>2, <3>4 DEF FoldsTo, ReadAt
    <2> QED
      BY <2>1, <2>2
  <1>8. g = [s \in SUBSET DOMAIN Listing |-> ReadAt(g, s)]
    BY <1>2, <1>6, <1>7
  <1>9. TheReads = [s \in SUBSET DOMAIN Listing |-> ReadAt(TheReads, s)]
    BY <1>8 DEF TheReads
  <1>10. PICK it : it = TheReads
    OBVIOUS
  <1>11. \A s \in SUBSET (1..n) : it[s] = ReadAt(it, s)
    BY <1>2, <1>9, <1>10
  <1>12. PICK r : r = [i \in 0..n |-> it[1..i]]
    OBVIOUS
  <1>13. r[0] = NothingRead
    <2>1. 1..0 = {} /\ {} \in SUBSET (1..n) /\ 0 \in 0..n
      BY <1>2
    <2> QED
      BY <1>11, <1>12, <2>1 DEF ReadAt
  <1>14. ASSUME NEW i \in 1..n PROVE r[i] = ReadDevice(r[i - 1], Listing[i])
    <2>1. i \in Nat /\ i > 0 /\ i \in 0..n /\ i - 1 \in 0..n /\ 1..i \in SUBSET (1..n)
      BY <1>2
    <2>2. 1..i # {} /\ Max(1..i) = i /\ (1..i) \ {Max(1..i)} = 1..(i - 1)
      BY <2>1, LastOfFirst
    <2>3. it[1..i] = ReadDevice(it[1..(i - 1)], Listing[i])
      BY <1>11, <2>1, <2>2 DEF ReadAt
    <2> QED
      BY <1>12, <2>1, <2>3
  <1>15. FoldLeft(ReadDevice, NothingRead, Listing) = r[n]
    <2>1. n \in 0..n
      BY <1>2
    <2> QED
      BY <1>2, <1>10, <1>12, <2>1, ReadIsFold
  <1>16. \A i \in 0..n : r[i] \in Readings
    <2> DEFINE T == {i \in Nat : i <= n => r[i] \in Readings}
    <2>1. 0 \in T
      BY <1>5, <1>13
    <2>2. ASSUME NEW i \in Nat, i \in T PROVE i + 1 \in T
      <3>1. ASSUME i + 1 <= n PROVE r[i + 1] \in Readings
        <4>1. i <= n /\ i + 1 \in 1..n /\ (i + 1) - 1 = i
          BY <1>2, <3>1
        <4>2. r[i] \in Readings /\ Listing[i + 1] \in Devices
          BY <1>2, <2>2, <4>1
        <4>3. r[i + 1] = ReadDevice(r[i], Listing[i + 1])
          BY <1>14, <4>1
        <4> QED
          BY <4>2, <4>3, ReadingStays
      <3> QED
        BY <3>1
    <2>3. Nat \subseteq T
      <3> HIDE DEF T
      <3> QED
        BY <2>1, <2>2, AllNumbers
    <2>4. \A i \in 0..n : i \in Nat /\ i <= n
      BY <1>2
    <2> QED
      BY <2>3, <2>4
  <1> QED
    BY <1>1, <1>13, <1>14, <1>15, <1>16

(* When all are read, each disk that has an identifier is in the table     *)
(* with it, and nothing is in it but disks.                                *)
LEMMA TableIsRead ==
    ASSUME Identified, NEW table, table = FoldLeft(ReadDevice, NothingRead, Listing).table
    PROVE  /\ table \in TablesOfDisks
           /\ DOMAIN table \subseteq SdNames
           /\ \A d \in Sd : Known(table, d)
  <1>1. PICK r : /\ r[0] = NothingRead
                 /\ FoldLeft(ReadDevice, NothingRead, Listing) = r[Len(Listing)]
                 /\ \A i \in 0..Len(Listing) : r[i] \in Readings
                 /\ \A i \in 1..Len(Listing) : r[i] = ReadDevice(r[i - 1], Listing[i])
    BY ReadSteps
  <1>2. PICK n : n = Len(Listing)
    OBVIOUS
  <1>3. n \in Nat /\ \A i \in 1..n : Listing[i] \in Devices
    BY <1>2, ListingIs
  <1> DEFINE T == {i \in Nat : i <= n => ReadSoFar(r[i], i)}
  <1>4. 0 \in T
    <2>1. ~NothingRead.bfind_disk /\ DOMAIN NothingRead.table = {} /\ 1..0 = {}
      BY DEF NothingRead, NoTable
    <2> QED
      BY <1>1, <2>1 DEF ReadSoFar
  <1>5. ASSUME NEW i \in Nat, i \in T PROVE i + 1 \in T
    <2>1. ASSUME i + 1 <= n PROVE ReadSoFar(r[i + 1], i + 1)
      <3>1. PICK j : j = i + 1
        OBVIOUS
      <3>2. /\ i <= n /\ j \in Nat /\ j \in 1..n /\ j - 1 = i /\ i \in 0..n
        BY <1>3, <2>1, <3>1
      <3>3. r[i] \in Readings /\ Listing[j] \in Devices /\ ReadSoFar(r[i], j - 1)
        BY <1>1, <1>2, <1>3, <1>5, <3>2
      <3>4. r[j] = ReadDevice(r[i], Listing[j])
        BY <1>1, <1>2, <3>2
      <3>5. AfterDevice(r[i], r[j], Listing[j])
        BY <3>3, <3>4, ReadDeviceDoes
      <3> QED
        BY <1>2, <3>1, <3>2, <3>3, <3>5, ReadOneMore
    <2> QED
      BY <2>1
  <1>6. Nat \subseteq T
    <2> HIDE DEF T
    <2> QED
      BY <1>4, <1>5, AllNumbers
  <1>7. ReadSoFar(r[n], n) /\ r[n] \in Readings /\ table = r[n].table
    <2>1. n <= n /\ n \in 0..n
      BY <1>3
    <2> QED
      BY <1>1, <1>2, <1>3, <1>6, <2>1
  <1>8. table \in TablesOfDisks
    BY <1>7 DEF Readings
  <1> QED
    BY <1>2, <1>7, <1>8, ListingIs DEF ReadSoFar

-----------------------------------------------------------------------------
(* What the service knows of its disks.                                    *)

NotAnSd == \E k \in DOMAIN seen.mounts : ParentDevice(seen.mounts[k].partition) \notin SdNames

WorldIs == Identified /\ mounts \in Seq(MountLines) /\ Possible(identifier, mounts)

(* What the table says of a disk is of a disk that is called so.           *)
TableIs ==
    /\ m_disk_id = [part \in DOMAIN m_disk_id |-> m_disk_id[part]]
    /\ \A part \in DOMAIN m_disk_id :
          m_disk_id[part] \in DiskIds \cup {NoId} /\ (m_disk_id[part] # NoId => part \in SdNames)

(* Between the two commands, and after them, the disks are in the table as *)
(* they were.                                                              *)
ReadBefore == started = 1 /\ ~between => \A d \in Sd : Known(m_disk_id, d)

KnownAsSeen(d) ==
    seen.identifier[d] # NoId =>
        Device(d) \in DOMAIN m_disk_id /\ m_disk_id[Device(d)] = seen.identifier[d]

ReadThen ==
    started = 2 =>
        /\ ~between => \A d \in Sd : KnownAsSeen(d)
        /\ seen.mounts \in Seq(MountLines) /\ Possible(seen.identifier, seen.mounts)
        /\ \A part \in DOMAIN m_path_Partition :
              \E k \in DOMAIN seen.mounts :
                  /\ seen.mounts[k].partition = part
                  /\ seen.mounts[k].directory = m_path_Partition[part]

(* Nobody asks before both were read.                                      *)
AskedThen ==
    /\ started # 2 => /\ inserting = {} /\ ~torn
                      /\ \A c \in Callers : answer[c].id = NoId
    /\ started \in 0..2 /\ between \in BOOLEAN /\ torn \in BOOLEAN
    /\ inserting \subseteq Callers

(* Only a device with no entry is inserted.                                *)
Excused == ~between /\ (torn \/ inserting # {}) => NotAnSd

TrueAnswer(a) ==
    \E part \in SeenOn(a.directory) : part.number = 1 /\ a.id = seen.identifier[part.device]

AnswersTrue ==
    /\ answer \in [Callers -> [directory : Directories \cup {"none"},
                               id : DiskIds \cup {NoId}]]
    /\ ~between /\ ~torn => \A c \in Callers : answer[c].id # NoId => TrueAnswer(answer[c])

InfoInv == /\ WorldIs /\ TableIs /\ ReadBefore /\ ReadThen
           /\ AskedThen /\ Excused /\ AnswersTrue
           /\ DOMAIN m_path_Partition \subseteq Partitions

(* Nothing is known before the first command.                              *)
LEMMA InfoStarts == ASSUME InfoInit PROVE InfoInv
  <1>1. mounts \in Seq(MountLines)
    <2>1. PICK n \in 0..1 : mounts \in [1..n -> MountLines]
      BY DEF InfoInit
    <2> QED
      BY <2>1
  <1>2. WorldIs
    BY <1>1 DEF InfoInit, WorldIs, Identified
  <1>3. m_disk_id = NoTable /\ m_path_Partition = NoTable /\ started = 0 /\ inserting = {}
        /\ torn = FALSE /\ between = FALSE
        /\ answer = [c \in Callers |-> NoAnswerYet]
    BY DEF InfoInit
  <1>4. DOMAIN NoTable = {} /\ NoTable = [part \in DOMAIN NoTable |-> NoTable[part]]
    BY DEF NoTable
  <1>5. NoAnswerYet.id = NoId
        /\ NoAnswerYet \in [directory : Directories \cup {"none"}, id : DiskIds \cup {NoId}]
    BY DEF NoAnswerYet
  <1>6. \A c \in Callers : answer[c].id = NoId
    BY <1>3, <1>5
  <1>7. answer \in [Callers -> [directory : Directories \cup {"none"}, id : DiskIds \cup {NoId}]]
    BY <1>3, <1>5
  <1>8. TableIs /\ DOMAIN m_path_Partition \subseteq Partitions
    BY <1>3, <1>4 DEF TableIs
  <1>9. AskedThen /\ AnswersTrue
    <2>1. 0 \in 0..2 /\ FALSE \in BOOLEAN /\ {} \subseteq Callers
      OBVIOUS
    <2>2. AskedThen
      BY <1>3, <1>6, <2>1 DEF AskedThen
    <2>3. AnswersTrue
      BY <1>6, <1>7 DEF AnswersTrue
    <2> QED
      BY <2>2, <2>3
  <1> QED
    BY <1>2, <1>3, <1>8, <1>9 DEF InfoInv, ReadBefore, ReadThen, Excused

(* Nothing but the world changes.                                          *)
LEMMA WorldChanges ==
    ASSUME InfoInv, WorldIs', UNCHANGED <<tables, started, inserting, torn, answer, seen>>,
           between' \in BOOLEAN, between => between',
           started = 1 /\ ~between' => identifier' = identifier
    PROVE  InfoInv'
  <1>1. /\ m_disk_id' = m_disk_id /\ m_path_Partition' = m_path_Partition
        /\ started' = started /\ inserting' = inserting /\ torn' = torn
        /\ answer' = answer /\ seen' = seen
    BY DEF tables
  <1>2. TableIs' /\ DOMAIN m_path_Partition' \subseteq Partitions
    BY <1>1 DEF InfoInv, TableIs
  <1>3. ReadBefore'
    BY <1>1 DEF InfoInv, ReadBefore, Known
  <1>4. ReadThen'
    BY <1>1 DEF InfoInv, ReadThen, KnownAsSeen
  <1>5. AskedThen' /\ Excused'
    BY <1>1 DEF InfoInv, AskedThen, Excused, NotAnSd
  <1>6. AnswersTrue'
    BY <1>1 DEF InfoInv, AnswersTrue, TrueAnswer, SeenOn
  <1> QED
    BY <1>2, <1>3, <1>4, <1>5, <1>6 DEF InfoInv

(* A disk is exchanged.                                                    *)
LEMMA Exchanges ==
    ASSUME InfoInv, NEW d \in Devices, Exchange(d) PROVE InfoInv'
  <1>1. PICK i \in DiskIds : /\ identifier' = [identifier EXCEPT ![d] = i]
                             /\ Possible(identifier', mounts)
    BY DEF Exchange
  <1>2. mounts' = mounts /\ between' = (between \/ started = 1)
        /\ UNCHANGED <<tables, started, inserting, torn, answer, seen>>
    BY DEF Exchange
  <1>3. Identified'
    BY <1>1 DEF InfoInv, WorldIs, Identified
  <1>4. WorldIs'
    BY <1>1, <1>2, <1>3 DEF InfoInv, WorldIs
  <1>5. between' \in BOOLEAN /\ (between => between') /\ ~(started = 1 /\ ~between')
    BY <1>2 DEF InfoInv, AskedThen
  <1> QED
    BY <1>2, <1>4, <1>5, WorldChanges

(* A partition is mounted.                                                 *)
LEMMA MountsOne ==
    ASSUME InfoInv, NEW line \in MountLines, MountPartition(line) PROVE InfoInv'
  <1>1. /\ mounts' = Append(mounts, line) /\ Possible(identifier, mounts')
        /\ identifier' = identifier /\ between' = between
        /\ UNCHANGED <<tables, started, inserting, torn, answer, seen>>
    BY DEF MountPartition
  <1>2. mounts' \in Seq(MountLines)
    BY <1>1 DEF InfoInv, WorldIs
  <1>3. Identified'
    BY <1>1 DEF InfoInv, WorldIs, Identified
  <1>4. WorldIs'
    BY <1>1, <1>2, <1>3 DEF WorldIs
  <1>5. between' \in BOOLEAN
    BY <1>1 DEF InfoInv, AskedThen
  <1> QED
    BY <1>1, <1>4, <1>5, WorldChanges

(* The disks are read.                                                     *)
LEMMA DisksAreRead == ASSUME InfoInv, InitDiskId PROVE InfoInv'
  <1>1. /\ started = 0 /\ started' = 1 /\ diskWorld' = diskWorld
        /\ m_disk_id' = FoldLeft(ReadDevice, NothingRead, Listing).table
        /\ UNCHANGED <<m_path_Partition, inserting, torn, answer, seen, between>>
    BY DEF InitDiskId
  <1>2. identifier' = identifier /\ mounts' = mounts
    BY <1>1 DEF diskWorld
  <1>3. Identified
    BY DEF InfoInv, WorldIs
  <1>4. /\ m_disk_id' \in TablesOfDisks
        /\ DOMAIN m_disk_id' \subseteq SdNames
        /\ \A d \in Sd : Known(m_disk_id', d)
    BY <1>1, <1>3, TableIsRead
  <1>5. WorldIs'
    BY <1>2 DEF InfoInv, WorldIs, Identified
  <1>6. TableIs'
    <2>1. PICK T \in SUBSET Names : m_disk_id' \in [T -> DiskIds \cup {NoId}]
      BY <1>4 DEF TablesOfDisks
    <2>2. DOMAIN m_disk_id' = T /\ \A part \in T : m_disk_id'[part] \in DiskIds \cup {NoId}
      BY <2>1
    <2>3. m_disk_id' = [part \in DOMAIN m_disk_id' |-> m_disk_id'[part]]
      BY <2>1
    <2> QED
      BY <1>4, <2>2, <2>3 DEF TableIs
  <1>7. ReadBefore'
    BY <1>2, <1>4 DEF ReadBefore, Known
  <1>8. AskedThen' /\ AnswersTrue' /\ Excused' /\ ReadThen'
    <2>1. inserting = {} /\ ~torn /\ \A c \in Callers : answer[c].id = NoId
      BY <1>1 DEF InfoInv, AskedThen
    <2> QED
      BY <1>1, <2>1 DEF InfoInv, AskedThen, AnswersTrue, Excused, ReadThen
  <1> QED
    BY <1>1, <1>5, <1>6, <1>7, <1>8 DEF InfoInv

(* The mounts are read: of a partition the last line counts.               *)
LEMMA MountsAreRead == ASSUME InfoInv, InitPartitionPath PROVE InfoInv'
  <1>1. /\ started = 1 /\ started' = 2 /\ diskWorld' = diskWorld
        /\ seen' = [identifier |-> identifier, mounts |-> mounts]
        /\ UNCHANGED <<m_disk_id, inserting, torn, answer, between>>
    BY DEF InitPartitionPath
  <1>2. identifier' = identifier /\ mounts' = mounts
    BY <1>1 DEF diskWorld
  <1>3. seen'.identifier = identifier /\ seen'.mounts = mounts
    BY <1>1
  <1>4. WorldIs'
    BY <1>2 DEF InfoInv, WorldIs, Identified
  <1>5. mounts \in Seq(MountLines) /\ Possible(identifier, mounts)
    BY DEF InfoInv, WorldIs
  <1>6. PICK n : n = Len(mounts)
    OBVIOUS
  <1>7. n \in Nat /\ DOMAIN mounts = 1..n /\ \A k \in 1..n : mounts[k] \in MountLines
    BY <1>5, <1>6
  <1>8. /\ DOMAIN m_path_Partition' = {mounts[k].partition : k \in 1..n}
        /\ \A part \in DOMAIN m_path_Partition' :
              m_path_Partition'[part] =
                  mounts[SelectLastInSeq(mounts, LAMBDA line : line.partition = part)].directory
    BY <1>7 DEF InitPartitionPath
  <1>9. ASSUME NEW part \in DOMAIN m_path_Partition'
        PROVE  /\ part \in Partitions
               /\ \E k \in 1..n : /\ mounts[k].partition = part
                                  /\ mounts[k].directory = m_path_Partition'[part]
    <2>1. PICK j \in 1..n : mounts[j].partition = part
      BY <1>8
    <2>2. PICK I : I = {k \in 1..n : mounts[k].partition = part}
      OBVIOUS
    <2>3. I # {} /\ I \subseteq 0..n
      BY <2>1, <2>2
    <2>4. Max(I) \in I
      BY <1>7, <2>3, MaxIs
    <2>5. SelectLastInSeq(mounts, LAMBDA line : line.partition = part) = Max(I)
      BY <1>6, <2>2, <2>3 DEF SelectLastInSeq
    <2>6. m_path_Partition'[part] = mounts[Max(I)].directory
      BY <1>8, <2>5
    <2>7. part \in Partitions
      BY <1>7, <2>1 DEF MountLines
    <2> QED
      BY <2>2, <2>4, <2>6, <2>7
  <1>10. ReadThen'
    <2>1. ~between => \A d \in Sd : Known(m_disk_id, d)
      BY <1>1 DEF InfoInv, ReadBefore
    <2>2. ~between' => \A d \in Sd : KnownAsSeen(d)'
      BY <1>1, <1>3, <2>1 DEF Known, KnownAsSeen
    <2> QED
      BY <1>3, <1>5, <1>7, <1>9, <2>2 DEF ReadThen
  <1>11. AskedThen' /\ AnswersTrue' /\ Excused' /\ ReadBefore'
    <2>1. inserting = {} /\ ~torn /\ \A c \in Callers : answer[c].id = NoId
      BY <1>1 DEF InfoInv, AskedThen
    <2> QED
      BY <1>1, <2>1 DEF InfoInv, AskedThen, AnswersTrue, Excused, ReadBefore
  <1>12. TableIs'
    BY <1>1 DEF InfoInv, TableIs
  <1> QED
    BY <1>4, <1>9, <1>10, <1>11, <1>12 DEF InfoInv

(* The partition that is found on a directory was seen there.              *)
LEMMA FoundWasSeen ==
    ASSUME InfoInv, started = 2, NEW directory, Found(directory) # {}
    PROVE  /\ LastFound(directory) \in SeenOn(directory)
           /\ LastFound(directory) \in [device : Devices, number : Nat]
           /\ \E k \in DOMAIN seen.mounts : seen.mounts[k].partition = LastFound(directory)
  <1>1. KeyOrder \in Seq([device : Devices, number : Nat])
    BY DevicesAssumption DEF Devices
  <1>2. PICK n : n = Len(KeyOrder)
    OBVIOUS
  <1>3. n \in Nat /\ DOMAIN KeyOrder = 1..n
        /\ \A k \in 1..n : KeyOrder[k] \in [device : Devices, number : Nat]
    <2>1. PICK R : R = [device : Devices, number : Nat]
      OBVIOUS
    <2>2. KeyOrder \in Seq(R)
      BY <1>1, <2>1
    <2>3. n \in Nat /\ DOMAIN KeyOrder = 1..n /\ \A k \in 1..n : KeyOrder[k] \in R
      BY <1>2, <2>2
    <2> QED
      BY <2>1, <2>3
  <1>4. PICK F : F = Found(directory)
    OBVIOUS
  <1>5. F # {} /\ F \subseteq 0..n /\ F \subseteq 1..n
    BY <1>3, <1>4 DEF Found
  <1>6. Max(F) \in F
    BY <1>3, <1>5, MaxIs
  <1>7. PICK part : part = LastFound(directory)
    OBVIOUS
  <1>8. part = KeyOrder[Max(F)]
    BY <1>4, <1>7 DEF LastFound
  <1>9. part \in DOMAIN m_path_Partition /\ m_path_Partition[part] = directory
    BY <1>4, <1>6, <1>8 DEF Found
  <1>10. PICK k \in DOMAIN seen.mounts : /\ seen.mounts[k].partition = part
                                         /\ seen.mounts[k].directory = directory
    BY <1>9 DEF InfoInv, ReadThen
  <1>11. part \in SeenOn(directory)
    BY <1>10 DEF SeenOn
  <1>12. part \in [device : Devices, number : Nat]
    BY <1>3, <1>5, <1>6, <1>8
  <1> QED
    BY <1>7, <1>10, <1>11, <1>12

(* Where a parent is called like a device, the partition is its first one  *)
(* if its name ends with 1.                                                *)
LEMMA ParentIs ==
    ASSUME NEW part \in [device : Devices, number : Nat], NEW d, ParentDevice(part) = Device(d)
    PROVE  /\ part.device = d
           /\ EndsWith1(part) => part.number = 1
  <1>1. part = [device |-> part.device, number |-> part.number] /\ part.number \in Nat
    OBVIOUS
  <1>2. PICK q : q = ParentDevice(part)
    OBVIOUS
  <1>3. q.device = part.device /\ q.number = part.number \div 10
    BY <1>1, <1>2 DEF ParentDevice
  <1>4. q.device = d /\ q.number = 0
    BY <1>2 DEF Device
  <1>5. PICK n : n = part.number
    OBVIOUS
  <1>6. n \in Nat /\ n \div 10 = 0
    BY <1>1, <1>3, <1>4, <1>5
  <1>7. n % 10 = 1 => n = 1
    BY <1>6
  <1> QED
    BY <1>3, <1>4, <1>5, <1>7 DEF EndsWith1

(* A partition that was seen and has no entry is on no disk.               *)
LEMMA NoEntryNoDisk ==
    ASSUME InfoInv, started = 2, ~between, NEW part \in [device : Devices, number : Nat],
           ParentDevice(part) \notin DOMAIN m_disk_id,
           \E k \in DOMAIN seen.mounts : seen.mounts[k].partition = part
    PROVE  NotAnSd
  <1>1. PICK k \in DOMAIN seen.mounts : seen.mounts[k].partition = part
    OBVIOUS
  <1>2. CASE ParentDevice(part) \notin SdNames
    BY <1>1, <1>2 DEF NotAnSd
  <1>3. CASE ParentDevice(part) \in SdNames
    <2>1. PICK d \in Sd : ParentDevice(part) = Device(d)
      BY <1>3 DEF SdNames
    <2>2. part.device = d
      BY <2>1, ParentIs
    <2>3. seen.identifier[d] # NoId
      BY <1>1, <2>2 DEF InfoInv, ReadThen, Possible
    <2>4. Device(d) \in DOMAIN m_disk_id
      BY <2>3 DEF InfoInv, ReadThen, KnownAsSeen
    <2> QED
      BY <2>1, <2>4
  <1> QED
    BY <1>2, <1>3

(* A worker is told that there is no disk, or something that is true.      *)
LEMMA OneAnswer ==
    ASSUME InfoInv, NEW c \in Callers, NEW directory \in Directories, NEW i \in DiskIds \cup {NoId},
           Answered(c, directory, i), torn => torn', between' = between, seen' = seen,
           ~between /\ ~torn' /\ i # NoId =>
               \E part \in SeenOn(directory) : part.number = 1 /\ i = seen.identifier[part.device]
    PROVE  AnswersTrue'
  <1>1. PICK a : a = [directory |-> directory, id |-> i]
    OBVIOUS
  <1>2. a.directory = directory /\ a.id = i
        /\ a \in [directory : Directories \cup {"none"}, id : DiskIds \cup {NoId}]
    BY <1>1
  <1>3. answer' = [answer EXCEPT ![c] = a]
    BY <1>1 DEF Answered
  <1>4. answer \in [Callers -> [directory : Directories \cup {"none"}, id : DiskIds \cup {NoId}]]
    BY DEF InfoInv, AnswersTrue
  <1>5. answer' \in [Callers -> [directory : Directories \cup {"none"}, id : DiskIds \cup {NoId}]]
        /\ \A e \in Callers : answer'[e] = IF e = c THEN a ELSE answer[e]
    BY <1>2, <1>3, <1>4
  <1>6. ASSUME ~between', ~torn', NEW e \in Callers, answer'[e].id # NoId
        PROVE  TrueAnswer(answer[e])'
    <2>1. CASE e = c
      <3>1. answer'[e] = a
        BY <1>5, <2>1
      <3> QED
        BY <1>2, <1>6, <3>1 DEF TrueAnswer, SeenOn
    <2>2. CASE e # c
      <3>1. answer'[e] = answer[e]
        BY <1>5, <2>2
      <3>2. TrueAnswer(answer[e])
        BY <1>6, <3>1 DEF InfoInv, AnswersTrue
      <3> QED
        BY <3>1, <3>2 DEF TrueAnswer, SeenOn
    <2> QED
      BY <2>1, <2>2
  <1> QED
    BY <1>5, <1>6 DEF AnswersTrue

(* Nothing is found for a directory.                                       *)
LEMMA FindsNothing ==
    ASSUME InfoInv, NEW c \in Callers, NEW directory \in Directories, NotMounted(c, directory)
    PROVE  InfoInv'
  <1>1. /\ Answered(c, directory, NoId) /\ diskWorld' = diskWorld /\ tables' = tables
        /\ started = 2 /\ started' = started /\ inserting' = inserting /\ torn' = torn
        /\ seen' = seen /\ between' = between
    BY DEF NotMounted, Asks
  <1>2. /\ identifier' = identifier /\ mounts' = mounts /\ m_disk_id' = m_disk_id
        /\ m_path_Partition' = m_path_Partition
    BY <1>1 DEF diskWorld, tables
  <1>3. AnswersTrue'
    BY <1>1, OneAnswer
  <1>4. WorldIs' /\ TableIs' /\ ReadBefore' /\ ReadThen' /\ AskedThen' /\ Excused'
    BY <1>1, <1>2 DEF InfoInv, WorldIs, Identified, TableIs, ReadBefore, Known, ReadThen,
       KnownAsSeen, AskedThen, Excused, NotAnSd
  <1> QED
    BY <1>2, <1>3, <1>4 DEF InfoInv

(* A device is looked up, and inserted if it is not there.                 *)
LEMMA LooksUp ==
    ASSUME InfoInv, NEW c \in Callers, NEW directory \in Directories, LookUp(c, directory)
    PROVE  InfoInv'
  <1>1. PICK part, q : part = LastFound(directory) /\ q = ParentDevice(part)
    OBVIOUS
  <1>2. /\ started = 2 /\ started' = started /\ diskWorld' = diskWorld
        /\ m_path_Partition' = m_path_Partition /\ seen' = seen /\ between' = between
        /\ Found(directory) # {} /\ EndsWith1(part) /\ torn' = (torn \/ inserting # {})
    BY <1>1 DEF LookUp, Asks
  <1>3. identifier' = identifier /\ mounts' = mounts
    BY <1>2 DEF diskWorld
  <1>4. /\ part \in SeenOn(directory) /\ part \in [device : Devices, number : Nat]
        /\ \E k \in DOMAIN seen.mounts : seen.mounts[k].partition = part
    BY <1>1, <1>2, FoundWasSeen
  <1>5. \/ torn' /\ \E i \in DiskIds \cup {NoId} : Answered(c, directory, i)
        \/ q \in DOMAIN m_disk_id /\ Answered(c, directory, m_disk_id[q])
        \/ q \notin DOMAIN m_disk_id /\ Answered(c, directory, NoId)
    BY <1>1 DEF LookUp
  <1>6. IF q \in DOMAIN m_disk_id
          THEN m_disk_id' = m_disk_id /\ inserting' = inserting
          ELSE /\ inserting' = inserting \cup {c}
               /\ m_disk_id' = Entered(m_disk_id, q, NoId)
    BY <1>1 DEF LookUp, Entered
  <1>7. AnswersTrue'
    <2>1. CASE torn' /\ \E i \in DiskIds \cup {NoId} : Answered(c, directory, i)
      BY <1>2, <2>1, OneAnswer
    <2>2. CASE q \notin DOMAIN m_disk_id /\ Answered(c, directory, NoId)
      BY <1>2, <2>2, OneAnswer
    <2>3. CASE q \in DOMAIN m_disk_id /\ Answered(c, directory, m_disk_id[q])
      <3>1. PICK i : i = m_disk_id[q]
        OBVIOUS
      <3>2. i \in DiskIds \cup {NoId} /\ (i # NoId => q \in SdNames)
        BY <2>3, <3>1 DEF InfoInv, TableIs
      <3>3. ASSUME ~between, i # NoId
            PROVE  part.number = 1 /\ i = seen.identifier[part.device]
        <4>1. PICK d \in Sd : q = Device(d)
          BY <3>2, <3>3 DEF SdNames
        <4>2. part.device = d /\ part.number = 1
          BY <1>1, <1>2, <1>4, <4>1, ParentIs
        <4>3. PICK k \in DOMAIN seen.mounts : seen.mounts[k].partition = part
          BY <1>4
        <4>4. seen.identifier[d] # NoId
          BY <1>2, <4>2, <4>3 DEF InfoInv, ReadThen, Possible
        <4>5. m_disk_id[Device(d)] = seen.identifier[d]
          BY <1>2, <3>3, <4>4 DEF InfoInv, ReadThen, KnownAsSeen
        <4> QED
          BY <3>1, <4>1, <4>2, <4>5
      <3>4. Answered(c, directory, i)
        BY <2>3, <3>1
      <3>5. ~between /\ ~torn' /\ i # NoId =>
               \E x \in SeenOn(directory) : x.number = 1 /\ i = seen.identifier[x.device]
        BY <1>4, <3>3
      <3> QED
        BY <1>2, <3>2, <3>4, <3>5, OneAnswer
    <2> QED
      BY <1>5, <2>1, <2>2, <2>3
  <1>8. TableIs' /\ \A d : Device(d) \in DOMAIN m_disk_id =>
                             /\ Device(d) \in DOMAIN m_disk_id'
                             /\ m_disk_id'[Device(d)] = m_disk_id[Device(d)]
    <2>1. CASE q \in DOMAIN m_disk_id
      BY <1>6, <2>1 DEF InfoInv, TableIs
    <2>2. CASE q \notin DOMAIN m_disk_id
      <3>1. m_disk_id' = Entered(m_disk_id, q, NoId)
        BY <1>6, <2>2
      <3>2. /\ DOMAIN m_disk_id' = DOMAIN m_disk_id \cup {q}
            /\ m_disk_id' = [x \in DOMAIN m_disk_id' |-> m_disk_id'[x]]
            /\ \A x \in DOMAIN m_disk_id' : m_disk_id'[x] = IF x = q THEN NoId ELSE m_disk_id[x]
        BY <3>1 DEF Entered
      <3> QED
        BY <2>2, <3>2 DEF InfoInv, TableIs
    <2> QED
      BY <2>1, <2>2
  <1>9. ReadThen'
    <2>1. ASSUME ~between', NEW d \in Sd PROVE KnownAsSeen(d)'
      <3>1. KnownAsSeen(d)
        BY <1>2, <2>1 DEF InfoInv, ReadThen
      <3> QED
        BY <1>2, <1>8, <3>1 DEF KnownAsSeen
    <2> QED
      BY <1>2, <2>1 DEF InfoInv, ReadThen
  <1>10. Excused'
    <2>1. ASSUME ~between, torn' \/ inserting' # {} PROVE NotAnSd
      <3>1. CASE torn \/ inserting # {}
        BY <2>1, <3>1 DEF InfoInv, Excused
      <3>2. CASE ~(torn \/ inserting # {})
        <4>1. q \notin DOMAIN m_disk_id
          BY <1>2, <1>6, <2>1, <3>2
        <4> QED
          BY <1>1, <1>2, <1>4, <2>1, <4>1, NoEntryNoDisk
      <3> QED
        BY <3>1, <3>2
    <2> QED
      BY <1>2, <2>1 DEF Excused, NotAnSd
  <1>11. AskedThen'
    <2>1. inserting' \subseteq Callers
      BY <1>6 DEF InfoInv, AskedThen
    <2>2. torn' \in BOOLEAN
      BY <1>2 DEF InfoInv, AskedThen
    <2> QED
      BY <1>2, <2>1, <2>2 DEF InfoInv, AskedThen
  <1>12. WorldIs' /\ ReadBefore' /\ DOMAIN m_path_Partition' \subseteq Partitions
    BY <1>2, <1>3 DEF InfoInv, WorldIs, Identified, ReadBefore
  <1> QED
    BY <1>7, <1>8, <1>9, <1>10, <1>11, <1>12 DEF InfoInv

(* An insertion is over.                                                   *)
LEMMA InsertionEnds ==
    ASSUME InfoInv, NEW c \in Callers, Inserted(c) PROVE InfoInv'
  <1>1. /\ inserting' = inserting \ {c} /\ diskWorld' = diskWorld /\ tables' = tables
        /\ started' = started /\ torn' = torn /\ answer' = answer /\ seen' = seen
        /\ between' = between
    BY DEF Inserted
  <1>2. /\ identifier' = identifier /\ mounts' = mounts /\ m_disk_id' = m_disk_id
        /\ m_path_Partition' = m_path_Partition
    BY <1>1 DEF diskWorld, tables
  <1>3. inserting' # {} => inserting # {}
    BY <1>1
  <1>4. inserting' \subseteq Callers /\ (inserting = {} => inserting' = {})
    BY <1>1 DEF InfoInv, AskedThen
  <1>5. AskedThen'
    BY <1>1, <1>4 DEF InfoInv, AskedThen
  <1>6. Excused'
    BY <1>1, <1>3 DEF InfoInv, Excused, NotAnSd
  <1>7. WorldIs' /\ TableIs' /\ ReadBefore' /\ ReadThen' /\ AnswersTrue'
    BY <1>1, <1>2 DEF InfoInv, WorldIs, Identified, TableIs, ReadBefore, Known, ReadThen,
       KnownAsSeen, AnswersTrue, TrueAnswer, SeenOn
  <1> QED
    BY <1>2, <1>5, <1>6, <1>7 DEF InfoInv

(* The tables are as they were read, whoever asks while a disk is          *)
(* exchanged or mounted.                                                   *)
THEOREM InfoInvariant == InfoSpec => []InfoInv
  <1>1. InfoInit => InfoInv
    BY InfoStarts
  <1>2. InfoInv /\ [InfoNext]_infoVars => InfoInv'
    <2> SUFFICES ASSUME InfoInv, [InfoNext]_infoVars PROVE InfoInv'
      OBVIOUS
    <2>1. CASE \E d \in Devices : Exchange(d)
      BY <2>1, Exchanges
    <2>2. CASE \E line \in MountLines : MountPartition(line)
      BY <2>2, MountsOne
    <2>3. CASE InitDiskId
      BY <2>3, DisksAreRead
    <2>4. CASE InitPartitionPath
      BY <2>4, MountsAreRead
    <2>5. CASE \E c \in Callers, directory \in Directories : NotMounted(c, directory)
      BY <2>5, FindsNothing
    <2>6. CASE \E c \in Callers, directory \in Directories : LookUp(c, directory)
      BY <2>6, LooksUp
    <2>7. CASE \E c \in Callers : Inserted(c)
      BY <2>7, InsertionEnds
    <2>8. CASE UNCHANGED infoVars
      BY <2>8 DEF infoVars, diskWorld, tables, InfoInv, WorldIs, Identified, TableIs, ReadBefore,
         Known, ReadThen, KnownAsSeen, AskedThen, Excused, NotAnSd, AnswersTrue, TrueAnswer, SeenOn
    <2> QED
      BY <2>1, <2>2, <2>3, <2>4, <2>5, <2>6, <2>7, <2>8 DEF InfoNext
  <1> QED
    BY <1>1, <1>2, PTL DEF InfoSpec

(* A worker is told the disk that was on its directory when the mounts     *)
(* were read, unless a disk was exchanged between the two commands or the  *)
(* workers tore the table; and that takes a device without an entry.       *)
THEOREM DiskIdIsTrue == InfoSpec => []AnswerWasTrue
  <1>1. InfoInv => AnswerWasTrue
    BY DEF InfoInv, Excused, NotAnSd, SdNames, AnswersTrue, TrueAnswer, AnswerWasTrue
  <1> QED
    BY <1>1, InfoInvariant, PTL

(* Every variable of sysinfod stays in its type.                           *)
THEOREM InfoTypeCorrect == InfoSpec => []InfoTypeOK
  <1>1. InfoInv => InfoTypeOK
    BY DEF InfoInv, WorldIs, Identified, TableIs, AskedThen, AnswersTrue, InfoTypeOK
  <1> QED
    BY <1>1, InfoInvariant, PTL

-----------------------------------------------------------------------------
(* The command line (ArgParser).                                           *)

(* Values that are handed on: those at the places S of one sequence are    *)
(* those at the places P of another, all of them and in their order.       *)
HandedBy(f, V, S, P, a) ==
    /\ f \in [S -> P]
    /\ \A i \in P : \E k \in S : f[k] = i
    /\ \A j, k \in S : j < k => f[j] < f[k]
    /\ \A k \in S : V[k] = a[f[k]]

Handed(V, S, P, a) == \E f : HandedBy(f, V, S, P, a)

(* It only depends on the values at these places.                          *)
LEMMA HandSame ==
    ASSUME NEW V, NEW W, NEW S, NEW P, NEW a, Handed(V, S, P, a), \A k \in S : W[k] = V[k]
    PROVE  Handed(W, S, P, a)
  BY DEF Handed, HandedBy

(* One is handed on that comes after the others.                           *)
LEMMA HandOne ==
    ASSUME NEW V, NEW W, NEW S, NEW P, NEW a, S \subseteq Nat, P \subseteq Nat,
           NEW n \in Nat, NEW h \in Nat, \A k \in S : k < n, \A i \in P : i < h,
           Handed(V, S, P, a), \A k \in S : W[k] = V[k], W[n] = a[h]
    PROVE  Handed(W, S \cup {n}, P \cup {h}, a)
  <1>1. PICK f : HandedBy(f, V, S, P, a)
    BY DEF Handed
  <1>2. n \notin S
    BY SMT
  <1>3. PICK g : g = [k \in S \cup {n} |-> IF k = n THEN h ELSE f[k]]
    OBVIOUS
  <1>4. g[n] = h /\ \A k \in S : g[k] = f[k] /\ g[k] \in P
    BY <1>1, <1>2, <1>3 DEF HandedBy
  <1>5. g \in [S \cup {n} -> P \cup {h}]
    BY <1>3, <1>4
  <1>6. \A i \in P \cup {h} : \E k \in S \cup {n} : g[k] = i
    BY <1>1, <1>4 DEF HandedBy
  <1>7. ASSUME NEW j \in S \cup {n}, NEW k \in S \cup {n}, j < k PROVE g[j] < g[k]
    <2>1. CASE j \in S /\ k \in S
      BY <1>1, <1>4, <1>7, <2>1 DEF HandedBy
    <2>2. CASE j \in S /\ k = n
      BY <1>4, <2>2
    <2>3. CASE j = n
      <3>1. ~(n < n)
        OBVIOUS
      <3>2. k \in S
        BY <1>7, <2>3, <3>1
      <3>3. k \in Nat /\ k < n
        BY <3>2
      <3> QED
        BY <1>7, <2>3, <3>3
    <2> QED
      BY <2>1, <2>2, <2>3
  <1>8. \A k \in S \cup {n} : W[k] = a[g[k]]
    BY <1>1, <1>4 DEF HandedBy
  <1> QED
    BY <1>5, <1>6, <1>7, <1>8 DEF Handed, HandedBy

(* All are moved by m places.                                              *)
LEMMA HandMoved ==
    ASSUME NEW V, NEW W, NEW P, NEW a, NEW m \in Nat, NEW n \in Nat,
           Handed(V, 1..n, P, a), \A k \in 1..n : W[m + k] = V[k]
    PROVE  Handed(W, (m + 1)..(m + n), P, a)
  <1>1. PICK f : HandedBy(f, V, 1..n, P, a)
    BY DEF Handed
  <1>2. PICK g : g = [k \in (m + 1)..(m + n) |-> f[k - m]]
    OBVIOUS
  <1>3. \A k \in (m + 1)..(m + n) : k - m \in 1..n /\ m + (k - m) = k
    OBVIOUS
  <1>4. \A k \in 1..n : m + k \in (m + 1)..(m + n) /\ (m + k) - m = k
    OBVIOUS
  <1>5. g \in [(m + 1)..(m + n) -> P]
    BY <1>1, <1>2, <1>3 DEF HandedBy
  <1>6. \A i \in P : \E k \in (m + 1)..(m + n) : g[k] = i
    <2> SUFFICES ASSUME NEW i \in P PROVE \E k \in (m + 1)..(m + n) : g[k] = i
      OBVIOUS
    <2>1. PICK k \in 1..n : f[k] = i
      BY <1>1 DEF HandedBy
    <2>2. m + k \in (m + 1)..(m + n) /\ g[m + k] = f[k]
      BY <1>2, <1>4
    <2> QED
      BY <2>1, <2>2
  <1>7. ASSUME NEW j \in (m + 1)..(m + n), NEW k \in (m + 1)..(m + n), j < k PROVE g[j] < g[k]
    <2>1. j - m < k - m
      BY <1>7
    <2>2. f[j - m] < f[k - m]
      BY <1>1, <1>3, <2>1 DEF HandedBy
    <2> QED
      BY <1>2, <2>2
  <1>8. ASSUME NEW k \in (m + 1)..(m + n) PROVE W[k] = a[g[k]]
    <2>1. W[m + (k - m)] = V[k - m] /\ V[k - m] = a[f[k - m]]
      BY <1>1, <1>3 DEF HandedBy
    <2> QED
      BY <1>2, <1>3, <2>1
  <1> QED
    BY <1>5, <1>6, <1>7, <1>8 DEF Handed, HandedBy

(* What is left is handed on after the others.                             *)
LEMMA HandRest ==
    ASSUME NEW V, NEW W, NEW S, NEW P, NEW a, S \subseteq Nat, P \subseteq Nat,
           NEW m \in Nat, NEW r \in Nat, NEW h \in Nat,
           \A k \in S : k <= m, \A i \in P : i < h,
           Handed(V, S, P, a), \A k \in S : W[k] = V[k],
           \A j \in 1..r : W[m + j] = a[h + j - 1]
    PROVE  Handed(W, S \cup ((m + 1)..(m + r)), P \cup (h..(h + r - 1)), a)
  <1>1. PICK f : HandedBy(f, V, S, P, a)
    BY DEF Handed
  <1>2. PICK R, Q : R = (m + 1)..(m + r) /\ Q = h..(h + r - 1)
    OBVIOUS
  <1>3. \A k \in R : k \in Nat /\ m < k /\ k - m \in 1..r /\ m + (k - m) = k
                     /\ h + (k - m) - 1 \in Q
    BY <1>2
  <1>4. \A i \in Q : i \in Nat /\ m + (i - h) + 1 \in R /\ h + ((m + (i - h) + 1) - m) - 1 = i
    BY <1>2
  <1>5. \A k \in S : k \notin R
    BY <1>3
  <1>6. PICK g : g = [k \in S \cup R |-> IF k \in R THEN h + (k - m) - 1 ELSE f[k]]
    OBVIOUS
  <1>7. (\A k \in R : g[k] = h + (k - m) - 1) /\ \A k \in S : g[k] = f[k] /\ g[k] \in P
    BY <1>1, <1>5, <1>6 DEF HandedBy
  <1>8. g \in [S \cup R -> P \cup Q]
    BY <1>3, <1>6, <1>7
  <1>9. ASSUME NEW i \in P \cup Q PROVE \E k \in S \cup R : g[k] = i
    <2>1. CASE i \in P
      BY <1>1, <1>7, <2>1 DEF HandedBy
    <2>2. CASE i \in Q
      BY <1>4, <1>7, <2>2
    <2> QED
      BY <2>1, <2>2
  <1>10. ASSUME NEW j \in S \cup R, NEW k \in S \cup R, j < k PROVE g[j] < g[k]
    <2>1. CASE j \in S /\ k \in S
      BY <1>1, <1>7, <1>10, <2>1 DEF HandedBy
    <2>2. CASE j \in S /\ k \in R
      <3>1. g[j] \in Nat /\ g[j] < h
        BY <1>7, <2>2
      <3>2. h <= h + (k - m) - 1 /\ h + (k - m) - 1 \in Nat
        BY <1>3, <2>2
      <3> QED
        BY <1>7, <2>2, <3>1, <3>2
    <2>3. CASE j \in R /\ k \in R
      <3>1. j \in Nat /\ k \in Nat
        BY <1>3, <2>3
      <3>2. h + (j - m) - 1 < h + (k - m) - 1
        BY <1>10, <3>1
      <3> QED
        BY <1>7, <2>3, <3>2
    <2>4. CASE j \in R /\ k \in S
      <3>1. j \in Nat /\ k \in Nat /\ m < j /\ k <= m
        BY <1>3, <2>4
      <3> QED
        BY <1>10, <3>1
    <2> QED
      BY <2>1, <2>2, <2>3, <2>4
  <1>11. ASSUME NEW k \in S \cup R PROVE W[k] = a[g[k]]
    <2>1. CASE k \in S
      BY <1>1, <1>7, <2>1 DEF HandedBy
    <2>2. CASE k \in R
      <3>1. W[m + (k - m)] = a[h + (k - m) - 1]
        BY <1>3, <2>2
      <3> QED
        BY <1>3, <1>7, <2>2, <3>1
    <2> QED
      BY <2>1, <2>2
  <1>12. Handed(W, S \cup R, P \cup Q, a)
    BY <1>8, <1>9, <1>10, <1>11 DEF Handed, HandedBy
  <1> QED
    BY <1>2, <1>12

(* Nothing is handed on where there is nothing.                            *)
LEMMA HandNothing == ASSUME NEW V, NEW a PROVE Handed(V, {}, {}, a)
  <1>1. PICK f : f = [k \in {} |-> 0]
    OBVIOUS
  <1>2. f \in [{} -> {}]
    BY <1>1
  <1> QED
    BY <1>2 DEF Handed, HandedBy

-----------------------------------------------------------------------------
(* The command line.                                                       *)

Words == Seq(STRING)
Records == [code : STRING \cup {NoOption}, argument : Words]
Options == [code : STRING, name : Words, has_arg : {"no", "yes", "maybe"}]
Kinds == {"option", "argument", "plain", "end_of_options"}

(* Places in the line, and arguments of the records so far.                *)
PlainWords == {i \in DOMAIN argv : role[i] = {"plain"}}
OptionWords == {i \in DOMAIN argv : role[i] = {"option"}}
Arguments(d) == [k \in DOMAIN d |-> d[k].argument]
PlainIn(d) == {k \in DOMAIN d : d[k].code = NoOption}

(* A code is that of an option that a word names.                          *)
AsksFor(w, code) ==
    \E i \in DOMAIN options :
        /\ options[i].code = code
        /\ \/ w[2] = code
           \/ IsPrefix(SubSeq(w, 3, NameEnd(w) - 1), options[i].name)

LineType ==
    /\ argv \in CommandLines /\ in_order \in BOOLEAN
    /\ data \in Seq(Records) /\ non_options \in Seq(Words)
    /\ parser \in {"words", "end", "done", "undefined"}
    /\ parser = "words" => error = "none"

(* The parser is at a word, or in the middle of a word of short options.   *)
AtPlace ==
    /\ argind \in Nat /\ cind \in Nat
    /\ argind >= 1 /\ argind <= Len(argv) + 1
    /\ cind > 0 => /\ argind <= Len(argv)
                   /\ cind >= 2 /\ cind <= Len(argv[argind])

(* The words before it are taken for one thing each, the others for none;  *)
(* but the word that it is in for an option after its first character.     *)
RolesSoFar ==
    /\ role \in [DOMAIN argv -> SUBSET Kinds]
    /\ parser \in {"words", "end"} /\ error = "none" =>
         \A i \in DOMAIN argv :
             /\ i < argind => \E x \in Kinds : role[i] = {x}
             /\ i > argind => role[i] = {}
             /\ i = argind => role[i] = IF cind > 2 THEN {"option"} ELSE {}
    /\ parser \in {"end"} /\ error = "none" => cind = 0
    /\ parser = "done" /\ error = "none" => \A i \in DOMAIN argv : \E x \in Kinds : role[i] = {x}

(* The plain words are in the records or are kept for the end.             *)
PlainSoFar ==
    /\ parser \in {"words", "end"} /\ error = "none" =>
         IF in_order
           THEN non_options = << >> /\ Handed(Arguments(data), PlainIn(data), PlainWords, argv)
           ELSE PlainIn(data) = {} /\ Handed(non_options, 1..Len(non_options), PlainWords, argv)
    /\ parser = "done" /\ error = "none" =>
         Handed(Arguments(data), PlainIn(data), PlainWords, argv)

(* The first record is of the first word with an option.                   *)
FirstAsks(code) ==
    \E first \in OptionWords : /\ \A i \in OptionWords : first <= i
                               /\ AsksFor(argv[first], code)

FirstSoFar ==
    /\ parser \in {"words", "end"} /\ error = "none" /\ ~in_order =>
         IF data = << >> THEN OptionWords = {} ELSE FirstAsks(data[1].code)
    /\ parser = "done" /\ error = "none" /\ ~in_order /\ data # << >> =>
         data[1].code = NoOption \/ FirstAsks(data[1].code)
    /\ parser # "done" => does = "nothing"
    /\ error = "none" => does \in {"nothing", "show_help", "internal_error"} \/ FirstAsks(does)

ArgInv == LineType /\ AtPlace /\ RolesSoFar /\ PlainSoFar /\ FirstSoFar

(* The table of the options.                                               *)
LEMMA OptionsAre ==
    /\ options \in Seq(Options)
    /\ \A i \in DOMAIN options : options[i] \in Options /\ options[i].code \in STRING \ {NoOption}
    /\ Len(options) \in Nat /\ DOMAIN options = 1..Len(options)
  <1>1. options \in Seq(Options)
    BY OptionsAssumption DEF Options, Words
  <1>2. PICK O : O = Options
    OBVIOUS
  <1>3. options \in Seq(O)
    BY <1>1, <1>2
  <1>4. Len(options) \in Nat /\ DOMAIN options = 1..Len(options)
        /\ \A i \in DOMAIN options : options[i] \in O
    BY <1>3
  <1>5. \A i \in DOMAIN options : options[i].code # NoOption
    BY OptionsAssumption
  <1>6. \A o \in Options : o.code \in STRING
    BY DEF Options
  <1> QED
    BY <1>1, <1>2, <1>4, <1>5, <1>6

(* The words of the line.                                                  *)
LEMMA WordsAre ==
    ASSUME LineType
    PROVE  /\ argv \in Seq(Words) /\ Len(argv) \in Nat /\ DOMAIN argv = 1..Len(argv)
           /\ \A i \in DOMAIN argv : argv[i] \in Words
  <1>1. argv \in Seq(Words)
    BY LinesAssumption DEF LineType, Words
  <1>2. PICK W : W = Words
    OBVIOUS
  <1>3. argv \in Seq(W)
    BY <1>1, <1>2
  <1> QED
    BY <1>1, <1>2, <1>3

(* A word has characters.                                                  *)
LEMMA CharactersAre ==
    ASSUME NEW w \in Words
    PROVE  Len(w) \in Nat /\ DOMAIN w = 1..Len(w) /\ \A i \in 1..Len(w) : w[i] \in STRING
  BY DEF Words

(* A part of a word is a word.                                             *)
LEMMA PartOfWord ==
    ASSUME NEW w \in Words, NEW i \in Nat, i >= 1
    PROVE  SubSeq(w, i, Len(w)) \in Words
  <1>1. w \in Seq(STRING) /\ Len(w) \in Nat
    BY DEF Words
  <1>2. \A j \in i..Len(w) : w[j] \in STRING
    BY <1>1
  <1>3. SubSeq(w, i, Len(w)) \in Seq(STRING)
    BY <1>1, <1>2, SubSeqProperties
  <1> QED
    BY <1>3 DEF Words

(* Where nothing but the place changes, what is taken is what was taken.   *)
LEMMA ArgStarts == ASSUME ArgInit PROVE ArgInv
  <1>1. /\ argv \in CommandLines /\ in_order \in BOOLEAN /\ argind = 1 /\ cind = 0
        /\ data = << >> /\ non_options = << >> /\ error = "none" /\ parser = "words"
        /\ does = "nothing" /\ role = [i \in DOMAIN argv |-> {}]
    BY DEF ArgInit
  <1>2. LineType
    BY <1>1 DEF LineType
  <1>3. Len(argv) \in Nat /\ DOMAIN argv = 1..Len(argv)
    BY <1>2, WordsAre
  <1>4. AtPlace
    BY <1>1, <1>3 DEF AtPlace
  <1>5. \A i \in DOMAIN argv : role[i] = {} /\ ~(i < 1)
    BY <1>1, <1>3
  <1>6. RolesSoFar
    <2>1. role \in [DOMAIN argv -> SUBSET Kinds]
      BY <1>1
    <2> QED
      BY <1>1, <1>5, <2>1 DEF RolesSoFar
  <1>7. PlainWords = {} /\ OptionWords = {}
    BY <1>5 DEF PlainWords, OptionWords
  <1>8. PlainSoFar
    <2>1. Len(<< >>) = 0 /\ 1..0 = {} /\ DOMAIN << >> = {} /\ PlainIn(<< >>) = {}
      BY DEF PlainIn
    <2>2. Handed(Arguments(data), {}, {}, argv) /\ Handed(non_options, {}, {}, argv)
      BY HandNothing
    <2> QED
      BY <1>1, <1>7, <2>1, <2>2 DEF PlainSoFar
  <1>9. FirstSoFar
    BY <1>1, <1>7 DEF FirstSoFar
  <1> QED
    BY <1>2, <1>4, <1>6, <1>8, <1>9 DEF ArgInv

-----------------------------------------------------------------------------
(* The words from the one that the parser is at to the last one are taken  *)
(* for an option and its argument.                                         *)
OptionTaken(final) ==
    /\ final \in DOMAIN argv /\ (final = argind \/ final = argind + 1)
    /\ role' \in [DOMAIN argv -> SUBSET Kinds]
    /\ \A i \in DOMAIN argv : i # argind /\ i # final => role'[i] = role[i]
    /\ role'[argind] = {"option"}
    /\ final # argind => role'[final] = {"argument"}

(* The parser reads the words.                                             *)
Reading == ArgInv /\ parser = "words" /\ error = "none" /\ argind <= Len(argv)

(* What the words are taken for while it reads.                            *)
LEMMA RolesAre ==
    ASSUME Reading
    PROVE  /\ argind \in DOMAIN argv /\ argind \in Nat /\ cind \in Nat
           /\ Len(argv) \in Nat /\ DOMAIN argv = 1..Len(argv) /\ Word \in Words
           /\ role \in [DOMAIN argv -> SUBSET Kinds]
           /\ \A i \in DOMAIN argv :
                 /\ i < argind => \E x \in Kinds : role[i] = {x}
                 /\ i > argind => role[i] = {}
                 /\ i = argind => role[i] = IF cind > 2 THEN {"option"} ELSE {}
  <1>1. LineType /\ AtPlace /\ RolesSoFar
    BY DEF Reading, ArgInv
  <1>2. argind \in Nat /\ cind \in Nat /\ argind >= 1 /\ argind <= Len(argv)
    BY <1>1 DEF Reading, AtPlace
  <1>3. /\ argv \in Seq(Words) /\ Len(argv) \in Nat /\ DOMAIN argv = 1..Len(argv)
        /\ \A i \in DOMAIN argv : argv[i] \in Words
    BY <1>1, WordsAre
  <1>4. argind \in DOMAIN argv
    BY <1>2, <1>3
  <1>5. Word \in Words
    BY <1>3, <1>4 DEF Word
  <1>6. /\ role \in [DOMAIN argv -> SUBSET Kinds]
        /\ \A i \in DOMAIN argv :
                 /\ i < argind => \E x \in Kinds : role[i] = {x}
                 /\ i > argind => role[i] = {}
                 /\ i = argind => role[i] = IF cind > 2 THEN {"option"} ELSE {}
    BY <1>1 DEF RolesSoFar, Reading
  <1> QED
    BY <1>2, <1>3, <1>4, <1>5, <1>6

(* No plain word comes or goes, and the word that the parser is at has the *)
(* last option.                                                            *)
LEMMA OptionRoles ==
    ASSUME Reading, argv' = argv, NEW final, OptionTaken(final)
    PROVE  /\ PlainWords' = PlainWords
           /\ OptionWords' = OptionWords \cup {argind}
           /\ \A i \in OptionWords : i <= argind /\ i \in Nat
  <1>1. /\ argind \in DOMAIN argv /\ argind \in Nat /\ cind \in Nat
        /\ DOMAIN argv = 1..Len(argv) /\ Len(argv) \in Nat
    BY RolesAre
  <1>2. role[argind] = {} \/ role[argind] = {"option"}
    BY <1>1, RolesAre
  <1>3. /\ final \in DOMAIN argv /\ (final = argind \/ final = argind + 1)
        /\ \A i \in DOMAIN argv : i # argind /\ i # final => role'[i] = role[i]
        /\ role'[argind] = {"option"}
        /\ final # argind => role'[final] = {"argument"}
    BY DEF OptionTaken
  <1>4. final # argind => role[final] = {}
    <2>1. \A i \in DOMAIN argv : i > argind => role[i] = {}
      BY RolesAre
    <2>2. final # argind => final > argind
      BY <1>1, <1>3
    <2> QED
      BY <1>3, <2>1, <2>2
  <1>5. {"option"} # {"plain"} /\ {"argument"} # {"plain"} /\ {"argument"} # {"option"}
    OBVIOUS
  <1>6. \A i \in DOMAIN argv : role'[i] = {"plain"} <=> role[i] = {"plain"}
    <2> SUFFICES ASSUME NEW i \in DOMAIN argv PROVE role'[i] = {"plain"} <=> role[i] = {"plain"}
      OBVIOUS
    <2>1. CASE i = argind
      BY <1>2, <1>3, <1>5, <2>1
    <2>2. CASE i # argind /\ i = final
      BY <1>3, <1>4, <1>5, <2>2
    <2>3. CASE i # argind /\ i # final
      BY <1>3, <2>3
    <2> QED
      BY <2>1, <2>2, <2>3
  <1>7. \A i \in DOMAIN argv : role'[i] = {"option"} <=> role[i] = {"option"} \/ i = argind
    <2> SUFFICES ASSUME NEW i \in DOMAIN argv
                 PROVE  role'[i] = {"option"} <=> role[i] = {"option"} \/ i = argind
      OBVIOUS
    <2>1. CASE i = argind
      BY <1>3, <2>1
    <2>2. CASE i # argind /\ i = final
      BY <1>3, <1>4, <1>5, <2>2
    <2>3. CASE i # argind /\ i # final
      BY <1>3, <2>3
    <2> QED
      BY <2>1, <2>2, <2>3
  <1>8. PlainWords' = PlainWords
    BY <1>6 DEF PlainWords
  <1>9. OptionWords' = OptionWords \cup {argind}
    BY <1>1, <1>7 DEF OptionWords
  <1>10. \A i \in OptionWords : i <= argind /\ i \in Nat
    <2>1. \A i \in DOMAIN argv : i > argind => role[i] = {}
      BY RolesAre
    <2> QED
      BY <1>1, <2>1 DEF OptionWords
  <1> QED
    BY <1>8, <1>9, <1>10

(* The parser goes on behind the words that are taken.                     *)
LEMMA OnBehindThem ==
    ASSUME Reading, argv' = argv, NEW final, OptionTaken(final),
           argind' = final + 1, cind' = 0, error' = error, parser' = parser
    PROVE  AtPlace' /\ RolesSoFar'
  <1>1. /\ argind \in DOMAIN argv /\ argind \in Nat /\ cind \in Nat
        /\ DOMAIN argv = 1..Len(argv) /\ Len(argv) \in Nat
    BY RolesAre
  <1>2. /\ final \in DOMAIN argv /\ (final = argind \/ final = argind + 1)
        /\ role' \in [DOMAIN argv -> SUBSET Kinds]
        /\ \A i \in DOMAIN argv : i # argind /\ i # final => role'[i] = role[i]
        /\ role'[argind] = {"option"}
        /\ final # argind => role'[final] = {"argument"}
    BY DEF OptionTaken
  <1>3. parser' = "words"
    BY DEF Reading
  <1>4. AtPlace'
    BY <1>1, <1>2 DEF AtPlace
  <1>5. ASSUME NEW i \in DOMAIN argv
        PROVE  /\ i < argind' => \E x \in Kinds : role'[i] = {x}
               /\ i > argind' => role'[i] = {}
               /\ i = argind' => role'[i] = {}
    <2>1. CASE i < argind
      <3>1. \E x \in Kinds : role[i] = {x}
        BY <2>1, RolesAre
      <3>2. role'[i] = role[i] /\ i < argind'
        BY <1>1, <1>2, <2>1
      <3> QED
        BY <1>1, <1>2, <3>1, <3>2
    <2>2. CASE i = argind
      <3>1. i < argind'
        BY <1>1, <1>2, <2>2
      <3>2. "option" \in Kinds
        BY DEF Kinds
      <3> QED
        BY <1>1, <1>2, <2>2, <3>1, <3>2
    <2>3. CASE i > argind /\ i = final
      <3>1. i < argind'
        BY <1>1, <1>2, <2>3
      <3>2. "argument" \in Kinds
        BY DEF Kinds
      <3> QED
        BY <1>1, <1>2, <2>3, <3>1, <3>2
    <2>4. CASE i > argind /\ i # final
      <3>1. role[i] = {}
        BY <2>4, RolesAre
      <3>2. role'[i] = role[i] /\ ~(i < argind')
        BY <1>1, <1>2, <2>4
      <3> QED
        BY <3>1, <3>2
    <2> QED
      BY <1>1, <2>1, <2>2, <2>3, <2>4
  <1>6. RolesSoFar'
    BY <1>2, <1>3, <1>5 DEF RolesSoFar
  <1> QED
    BY <1>4, <1>6

(* Or at the next character of the word.                                   *)
LEMMA OnInTheWord ==
    ASSUME Reading, argv' = argv, OptionTaken(argind), cind >= 2, cind < Len(Word),
           argind' = argind, cind' = cind + 1, error' = error, parser' = parser
    PROVE  AtPlace' /\ RolesSoFar'
  <1>1. /\ argind \in DOMAIN argv /\ argind \in Nat /\ cind \in Nat /\ Word \in Words
        /\ DOMAIN argv = 1..Len(argv) /\ Len(argv) \in Nat
    BY RolesAre
  <1>2. /\ role' \in [DOMAIN argv -> SUBSET Kinds]
        /\ \A i \in DOMAIN argv : i # argind => role'[i] = role[i]
        /\ role'[argind] = {"option"}
    BY DEF OptionTaken
  <1>3. parser' = "words"
    BY DEF Reading
  <1>4. Len(Word) \in Nat /\ Word = argv[argind]
    BY <1>1, CharactersAre DEF Word
  <1>5. AtPlace'
    BY <1>1, <1>4 DEF AtPlace
  <1>6. ASSUME NEW i \in DOMAIN argv
        PROVE  /\ i < argind' => \E x \in Kinds : role'[i] = {x}
               /\ i > argind' => role'[i] = {}
               /\ i = argind' => role'[i] = {"option"}
    <2>1. CASE i = argind
      BY <1>1, <1>2, <2>1
    <2>2. CASE i # argind
      <3>1. role'[i] = role[i]
        BY <1>2, <2>2
      <3> QED
        BY <2>2, <3>1, RolesAre
    <2> QED
      BY <2>1, <2>2
  <1>7. cind' > 2
    BY <1>1
  <1>8. RolesSoFar'
    BY <1>2, <1>3, <1>6, <1>7 DEF RolesSoFar
  <1> QED
    BY <1>5, <1>8

-----------------------------------------------------------------------------
(* The records after one more, which is of an option.                      *)
RecordPushed(rec) ==
    /\ rec \in Records /\ rec.code # NoOption
    /\ data' = Append(data, rec)
    /\ UNCHANGED <<argv, in_order, non_options, error, parser, does>>

(* A sequence of records, and one more.                                    *)
LEMMA OneMoreRecord ==
    ASSUME NEW d \in Seq(Records), NEW rec \in Records, NEW e, e = Append(d, rec)
    PROVE  /\ e \in Seq(Records) /\ Len(d) \in Nat /\ DOMAIN d = 1..Len(d)
           /\ Len(e) = Len(d) + 1 /\ DOMAIN e = 1..(Len(d) + 1)
           /\ e[Len(d) + 1] = rec /\ \A k \in DOMAIN d : e[k] = d[k]
  <1>1. PICK R : R = Records
    OBVIOUS
  <1>2. d \in Seq(R) /\ rec \in R
    BY <1>1
  <1>3. e \in Seq(R) /\ Len(d) \in Nat /\ DOMAIN d = 1..Len(d)
        /\ Len(e) = Len(d) + 1 /\ DOMAIN e = 1..(Len(d) + 1)
        /\ e[Len(d) + 1] = rec /\ \A k \in 1..Len(d) : e[k] = d[k]
    BY <1>2
  <1> QED
    BY <1>1, <1>3

(* The record of an option is not that of a plain word.                    *)
LEMMA PlainRecordsStay ==
    ASSUME NEW d \in Seq(Records), NEW rec \in Records, rec.code # NoOption,
           NEW e, e = Append(d, rec)
    PROVE  PlainIn(e) = PlainIn(d) /\ \A k \in PlainIn(d) : Arguments(e)[k] = Arguments(d)[k]
  <1>1. /\ Len(d) \in Nat /\ DOMAIN d = 1..Len(d) /\ DOMAIN e = 1..(Len(d) + 1)
        /\ e[Len(d) + 1] = rec /\ \A k \in DOMAIN d : e[k] = d[k]
    BY OneMoreRecord
  <1>2. DOMAIN e = DOMAIN d \cup {Len(d) + 1}
    BY <1>1
  <1>3. PlainIn(e) = PlainIn(d)
    BY <1>1, <1>2 DEF PlainIn
  <1>4. \A k \in PlainIn(d) : k \in DOMAIN d /\ k \in DOMAIN e
    BY <1>2 DEF PlainIn
  <1> QED
    BY <1>1, <1>3, <1>4 DEF Arguments

(* What is known of the plain words stays.                                 *)
LEMMA PlainAfterOption ==
    ASSUME Reading, NEW rec, RecordPushed(rec), PlainWords' = PlainWords
    PROVE  LineType' /\ PlainSoFar'
  <1>1. LineType /\ PlainSoFar /\ parser = "words" /\ error = "none"
    BY DEF Reading, ArgInv
  <1>2. /\ rec \in Records /\ rec.code # NoOption /\ data' = Append(data, rec)
        /\ argv' = argv /\ in_order' = in_order /\ non_options' = non_options
        /\ error' = error /\ parser' = parser
    BY DEF RecordPushed
  <1>3. data \in Seq(Records)
    BY <1>1 DEF LineType
  <1>4. data' \in Seq(Records)
    BY <1>2, <1>3, OneMoreRecord
  <1>5. LineType'
    BY <1>1, <1>2, <1>4 DEF LineType
  <1>6. PlainIn(data') = PlainIn(data)
        /\ \A k \in PlainIn(data) : Arguments(data')[k] = Arguments(data)[k]
    BY <1>2, <1>3, PlainRecordsStay
  <1>7. CASE in_order
    <2>1. non_options = << >> /\ Handed(Arguments(data), PlainIn(data), PlainWords, argv)
      BY <1>1, <1>7 DEF PlainSoFar
    <2>2. Handed(Arguments(data'), PlainIn(data), PlainWords, argv)
      BY <1>6, <2>1, HandSame
    <2>3. Handed(Arguments(data'), PlainIn(data'), PlainWords', argv')
      BY <1>2, <1>6, <2>2
    <2>4. in_order' /\ non_options' = << >> /\ parser' = "words" /\ parser' # "done"
      BY <1>1, <1>2, <1>7, <2>1
    <2> QED
      BY <1>5, <2>3, <2>4 DEF PlainSoFar
  <1>8. CASE ~in_order
    <2>1. PlainIn(data) = {} /\ Handed(non_options, 1..Len(non_options), PlainWords, argv)
      BY <1>1, <1>8 DEF PlainSoFar
    <2>2. Handed(non_options', 1..Len(non_options'), PlainWords', argv')
      BY <1>2, <2>1
    <2>3. PlainIn(data') = {}
      BY <1>6, <2>1
    <2>4. ~in_order' /\ parser' = "words" /\ parser' # "done"
      BY <1>1, <1>2, <1>8
    <2> QED
      BY <1>5, <2>2, <2>3, <2>4 DEF PlainSoFar
  <1> QED
    BY <1>5, <1>7, <1>8

(* The first record is still of the first word with an option.             *)
LEMMA FirstAfterOption ==
    ASSUME Reading, NEW rec, RecordPushed(rec),
           ~in_order /\ data = << >> => AsksFor(Word, rec.code),
           OptionWords' = OptionWords \cup {argind},
           \A i \in OptionWords : i <= argind /\ i \in Nat
    PROVE  FirstSoFar'
  <1>1. LineType /\ FirstSoFar /\ parser = "words" /\ error = "none" /\ argind \in Nat
    BY DEF Reading, ArgInv, AtPlace
  <1>2. /\ rec \in Records /\ data' = Append(data, rec)
        /\ argv' = argv /\ in_order' = in_order /\ does' = does
        /\ error' = error /\ parser' = parser
    BY DEF RecordPushed
  <1>3. data \in Seq(Records)
    BY <1>1 DEF LineType
  <1>4. /\ Len(data) \in Nat /\ DOMAIN data = 1..Len(data) /\ Len(data') = Len(data) + 1
        /\ data'[Len(data) + 1] = rec /\ \A k \in DOMAIN data : data'[k] = data[k]
    BY <1>2, <1>3, OneMoreRecord
  <1>5. data' # << >>
    BY <1>4
  <1>6. ASSUME ~in_order PROVE FirstAsks(data[1].code)'
    <2>1. CASE data = << >>
      <3>1. OptionWords = {}
        BY <1>1, <1>6, <2>1 DEF FirstSoFar
      <3>2. OptionWords' = {argind} /\ argind <= argind
        BY <1>1, <3>1
      <3>3. data'[1] = rec
        BY <1>4, <2>1
      <3>4. AsksFor(argv'[argind], data'[1].code)
        BY <1>2, <1>6, <2>1, <3>3 DEF Word
      <3> QED
        BY <3>2, <3>4 DEF FirstAsks
    <2>2. CASE data # << >>
      <3>1. FirstAsks(data[1].code)
        BY <1>1, <1>6, <2>2 DEF FirstSoFar
      <3>2. PICK first \in OptionWords : /\ \A i \in OptionWords : first <= i
                                         /\ AsksFor(argv[first], data[1].code)
        BY <3>1 DEF FirstAsks
      <3>3. \A i \in OptionWords' : first <= i
        BY <3>2
      <3>4. Len(data) # 0
        BY <1>3, <2>2, EmptySeq
      <3>5. data'[1] = data[1]
        BY <1>4, <3>4
      <3>6. first \in OptionWords' /\ AsksFor(argv'[first], data'[1].code)
        BY <1>2, <3>2, <3>5
      <3> QED
        BY <3>3, <3>6 DEF FirstAsks
    <2> QED
      BY <2>1, <2>2
  <1>7. does = "nothing"
    BY <1>1 DEF FirstSoFar
  <1> QED
    BY <1>1, <1>2, <1>5, <1>6, <1>7 DEF FirstSoFar

(* All together.                                                           *)
LEMMA AfterOption ==
    ASSUME Reading, NEW rec, RecordPushed(rec),
           ~in_order /\ data = << >> => AsksFor(Word, rec.code),
           NEW final, OptionTaken(final), AtPlace', RolesSoFar'
    PROVE  ArgInv'
  <1>1. argv' = argv
    BY DEF RecordPushed
  <1>2. /\ PlainWords' = PlainWords /\ OptionWords' = OptionWords \cup {argind}
        /\ \A i \in OptionWords : i <= argind /\ i \in Nat
    BY <1>1, OptionRoles
  <1>3. LineType' /\ PlainSoFar'
    BY <1>2, PlainAfterOption
  <1>4. FirstSoFar'
    BY <1>2, FirstAfterOption
  <1> QED
    BY <1>3, <1>4 DEF ArgInv

-----------------------------------------------------------------------------
(* The options, each in its step.                                          *)

(* What Take and the step with the next word do to the roles.              *)
LEMMA TakenAlone == ASSUME Reading, Take(argind, "option") PROVE OptionTaken(argind)
  <1>1. argind \in DOMAIN argv /\ role \in [DOMAIN argv -> SUBSET Kinds] /\ cind \in Nat
    BY RolesAre
  <1>2. role[argind] = {} \/ role[argind] = {"option"}
    BY <1>1, RolesAre
  <1>3. role' = [role EXCEPT ![argind] = role[argind] \cup {"option"}]
    BY DEF Take
  <1>4. "option" \in Kinds
    BY DEF Kinds
  <1>5. role[argind] \cup {"option"} = {"option"}
    BY <1>2
  <1> QED
    BY <1>1, <1>3, <1>4, <1>5 DEF OptionTaken

(* A function of which two values change.                                  *)
LEMMA TwoOfThem ==
    ASSUME NEW D, NEW R, NEW f \in [D -> R], NEW a \in D, NEW b \in D, a # b,
           NEW x \in R, NEW y \in R, NEW g, g = [f EXCEPT ![a] = x, ![b] = y]
    PROVE  /\ g \in [D -> R] /\ g[a] = x /\ g[b] = y
           /\ \A i \in D : i # a /\ i # b => g[i] = f[i]
  OBVIOUS

(* An option and the next word.                                            *)
LEMMA TakenWithNext ==
    ASSUME Reading, HasNext,
           role' = [role EXCEPT ![argind] = @ \cup {"option"},
                                ![argind + 1] = @ \cup {"argument"}]
    PROVE  OptionTaken(argind + 1)
  <1>1. /\ argind \in DOMAIN argv /\ role \in [DOMAIN argv -> SUBSET Kinds] /\ cind \in Nat
        /\ argind \in Nat /\ Len(argv) \in Nat /\ DOMAIN argv = 1..Len(argv)
    BY RolesAre
  <1>2. role[argind] = {} \/ role[argind] = {"option"}
    BY <1>1, RolesAre
  <1>3. argind + 1 \in DOMAIN argv /\ argind + 1 > argind /\ argind + 1 # argind
    BY <1>1 DEF HasNext
  <1>4. role[argind + 1] = {}
    BY <1>3, RolesAre
  <1>5. role' = [role EXCEPT ![argind] = role[argind] \cup {"option"},
                             ![argind + 1] = role[argind + 1] \cup {"argument"}]
    BY <1>3
  <1>6. "option" \in Kinds /\ "argument" \in Kinds
    BY DEF Kinds
  <1>7. role[argind] \cup {"option"} = {"option"}
            /\ role[argind + 1] \cup {"argument"} = {"argument"}
    BY <1>2, <1>4
  <1>8. PICK n : n = argind + 1
    OBVIOUS
  <1>9. role' = [role EXCEPT ![argind] = {"option"}, ![n] = {"argument"}]
    BY <1>5, <1>7, <1>8
  <1>10. n \in DOMAIN argv /\ n # argind
    BY <1>3, <1>8
  <1>11. /\ role' \in [DOMAIN argv -> SUBSET Kinds]
         /\ \A i \in DOMAIN argv : i # argind /\ i # n => role'[i] = role[i]
         /\ role'[argind] = {"option"} /\ role'[n] = {"argument"}
    <2>1. {"option"} \in SUBSET Kinds /\ {"argument"} \in SUBSET Kinds
      BY <1>6
    <2>2. PICK D : D = DOMAIN argv
      OBVIOUS
    <2>3. PICK R : R = SUBSET Kinds
      OBVIOUS
    <2>4. PICK g : g = role'
      OBVIOUS
    <2>5. PICK f : f = role
      OBVIOUS
    <2>6. PICK a, x, y : a = argind /\ x = {"option"} /\ y = {"argument"}
      OBVIOUS
    <2>7. /\ f \in [D -> R] /\ a \in D /\ n \in D /\ a # n /\ x \in R /\ y \in R
          /\ g = [f EXCEPT ![a] = x, ![n] = y]
      BY <1>1, <1>9, <1>10, <2>1, <2>2, <2>3, <2>4, <2>5, <2>6
    <2>8. g \in [D -> R] /\ g[a] = x /\ g[n] = y /\ \A i \in D : i # a /\ i # n => g[i] = f[i]
      BY <2>7, TwoOfThem
    <2> QED
      BY <2>2, <2>3, <2>4, <2>5, <2>6, <2>8
  <1> QED
    BY <1>8, <1>10, <1>11 DEF OptionTaken

(* The record of an option.                                                *)
LEMMA RecordIs ==
    ASSUME NEW i \in DOMAIN options, NEW argument \in Words
    PROVE  /\ Record(options[i].code, argument) \in Records
           /\ Record(options[i].code, argument).code = options[i].code
           /\ options[i].code # NoOption
  BY OptionsAre DEF Record, Records

(* An option without the next word.                                        *)
LEMMA PushedAlone ==
    ASSUME Reading, NEW i \in DOMAIN options, NEW argument \in Words,
           PushAlone(options[i], argument),
           ~in_order /\ data = << >> => AsksFor(Word, options[i].code)
    PROVE  ArgInv'
  <1>1. PICK rec : rec = Record(options[i].code, argument)
    OBVIOUS
  <1>2. rec \in Records /\ rec.code = options[i].code /\ rec.code # NoOption
    BY <1>1, RecordIs
  <1>3. /\ data' = Append(data, rec) /\ argind' = argind + 1 /\ cind' = 0
        /\ argv' = argv /\ in_order' = in_order /\ non_options' = non_options
        /\ error' = error /\ parser' = parser /\ does' = does
        /\ Take(argind, "option")
    BY <1>1 DEF PushAlone, Push
  <1>4. RecordPushed(rec)
    BY <1>2, <1>3 DEF RecordPushed
  <1>5. OptionTaken(argind)
    BY <1>3, TakenAlone
  <1>6. AtPlace' /\ RolesSoFar'
    BY <1>3, <1>5, OnBehindThem
  <1> QED
    BY <1>2, <1>4, <1>5, <1>6, AfterOption

(* An option with the next word.                                           *)
LEMMA PushedWithNext ==
    ASSUME Reading, NEW i \in DOMAIN options, HasNext, PushWithNext(options[i]),
           ~in_order /\ data = << >> => AsksFor(Word, options[i].code)
    PROVE  ArgInv'
  <1>1. argind \in Nat /\ DOMAIN argv = 1..Len(argv) /\ Len(argv) \in Nat /\ argind \in DOMAIN argv
    BY RolesAre
  <1>2. argv[argind + 1] \in Words
    <2>1. LineType
      BY DEF Reading, ArgInv
    <2>2. argind + 1 \in DOMAIN argv
      BY <1>1 DEF HasNext
    <2> QED
      BY <2>1, <2>2, WordsAre
  <1>3. PICK rec : rec = Record(options[i].code, argv[argind + 1])
    OBVIOUS
  <1>4. rec \in Records /\ rec.code = options[i].code /\ rec.code # NoOption
    BY <1>2, <1>3, RecordIs
  <1>5. /\ data' = Append(data, rec) /\ argind' = argind + 2 /\ cind' = 0
        /\ argv' = argv /\ in_order' = in_order /\ non_options' = non_options
        /\ error' = error /\ parser' = parser /\ does' = does
    BY <1>3 DEF PushWithNext, Push, OptionAndArgument
  <1>6. RecordPushed(rec)
    BY <1>4, <1>5 DEF RecordPushed
  <1>7. OptionTaken(argind + 1)
    BY TakenWithNext DEF PushWithNext
  <1>8. argind' = (argind + 1) + 1
    BY <1>1, <1>5
  <1>9. AtPlace' /\ RolesSoFar'
    BY <1>5, <1>7, <1>8, OnBehindThem
  <1> QED
    BY <1>4, <1>6, <1>7, <1>9, AfterOption

(* An option in the middle of a word.                                      *)
LEMMA PushedInWord ==
    ASSUME Reading, NEW i \in DOMAIN options, cind >= 2, cind < Len(Word),
           Push(Record(options[i].code, NoArgument), argind, cind + 1), Take(argind, "option"),
           ~in_order /\ data = << >> => AsksFor(Word, options[i].code)
    PROVE  ArgInv'
  <1>1. NoArgument \in Words
    BY DEF NoArgument, Words
  <1>2. PICK rec : rec = Record(options[i].code, NoArgument)
    OBVIOUS
  <1>3. rec \in Records /\ rec.code = options[i].code /\ rec.code # NoOption
    BY <1>1, <1>2, RecordIs
  <1>4. /\ data' = Append(data, rec) /\ argind' = argind /\ cind' = cind + 1
        /\ argv' = argv /\ in_order' = in_order /\ non_options' = non_options
        /\ error' = error /\ parser' = parser /\ does' = does
    BY <1>2 DEF Push
  <1>5. RecordPushed(rec)
    BY <1>3, <1>4 DEF RecordPushed
  <1>6. OptionTaken(argind)
    BY TakenAlone
  <1>7. AtPlace' /\ RolesSoFar'
    BY <1>4, <1>6, OnInTheWord
  <1> QED
    BY <1>3, <1>5, <1>6, <1>7, AfterOption

(* An error ends the parser.                                               *)
LEMMA FailedLine ==
    ASSUME Reading, NEW kind, kind # "none", Fails(kind) PROVE ArgInv'
  <1>1. /\ error' = kind /\ parser' = "end"
        /\ argv' = argv /\ in_order' = in_order /\ argind' = argind /\ cind' = cind
        /\ data' = data /\ non_options' = non_options /\ does' = does /\ role' = role
    BY DEF Fails
  <1>2. error' # "none" /\ parser' # "words"
    BY <1>1
  <1>3. LineType /\ AtPlace /\ RolesSoFar /\ FirstSoFar /\ parser = "words"
    BY DEF Reading, ArgInv
  <1>4. LineType'
    BY <1>1, <1>2, <1>3 DEF LineType
  <1>5. AtPlace'
    BY <1>1, <1>3 DEF AtPlace
  <1>6. RolesSoFar'
    BY <1>1, <1>2, <1>3 DEF RolesSoFar
  <1>7. PlainSoFar'
    BY <1>2 DEF PlainSoFar
  <1>8. does = "nothing"
    BY <1>3 DEF FirstSoFar
  <1>9. FirstSoFar'
    BY <1>1, <1>2, <1>8 DEF FirstSoFar
  <1> QED
    BY <1>4, <1>5, <1>6, <1>7, <1>9 DEF ArgInv

(* A search behind the table: nothing is known of what comes then.         *)
LEMMA SearchedPast == ASSUME ArgInv, PastTheTable PROVE ArgInv'
  <1>1. /\ parser = "words" /\ parser' = "undefined"
        /\ argv' = argv /\ in_order' = in_order /\ argind' = argind /\ cind' = cind
        /\ data' = data /\ non_options' = non_options /\ does' = does /\ role' = role
        /\ error' = error
    BY DEF PastTheTable, AtWord, AtChar
  <1>2. LineType /\ AtPlace /\ RolesSoFar /\ FirstSoFar
    BY DEF ArgInv
  <1>3. LineType'
    BY <1>1, <1>2 DEF LineType
  <1>4. AtPlace'
    BY <1>1, <1>2 DEF AtPlace
  <1>5. RolesSoFar'
    BY <1>1, <1>2 DEF RolesSoFar
  <1>6. PlainSoFar'
    BY <1>1 DEF PlainSoFar
  <1>7. does = "nothing"
    BY <1>1, <1>2 DEF FirstSoFar
  <1>8. FirstSoFar'
    BY <1>1, <1>7 DEF FirstSoFar
  <1> QED
    BY <1>3, <1>4, <1>5, <1>6, <1>8 DEF ArgInv

-----------------------------------------------------------------------------
(* The name in a long option ends behind the dashes.                       *)
LEMMA NameEnds == ASSUME NEW w \in Words, Len(w) >= 2 PROVE NameEnd(w) \in 3..(Len(w) + 1)
  <1>1. Len(w) \in Nat
    BY CharactersAre
  <1>2. PICK T : T = {k \in 3..(Len(w) + 1) : k = Len(w) + 1 \/ w[k] = "="}
    OBVIOUS
  <1>3. T \subseteq Nat /\ Len(w) + 1 \in T
    BY <1>1, <1>2
  <1>4. PICK n \in T : \A m \in T : n <= m
    BY <1>3, LeastNumber
  <1>5. n \in 3..(Len(w) + 1) /\ (n = Len(w) + 1 \/ w[n] = "=")
    BY <1>2, <1>4
  <1>6. \A j \in 3..(n - 1) : w[j] # "="
    <2> SUFFICES ASSUME NEW j \in 3..(n - 1), w[j] = "=" PROVE FALSE
      OBVIOUS
    <2>1. j \in 3..(Len(w) + 1) /\ ~(n <= j)
      BY <1>1, <1>5
    <2>2. j \in T
      BY <1>2, <2>1
    <2> QED
      BY <1>4, <2>1, <2>2
  <1>7. \E k \in 3..(Len(w) + 1) : /\ k = Len(w) + 1 \/ w[k] = "="
                                   /\ \A j \in 3..(k - 1) : w[j] # "="
    BY <1>5, <1>6
  <1> QED
    BY <1>7 DEF NameEnd

(* The parser is at a word or in it, and an action of it is of a line that *)
(* it reads.                                                               *)
LEMMA AtWordReads == ASSUME ArgInv, AtWord PROVE Reading /\ cind = 0
  BY DEF ArgInv, LineType, AtWord, Reading

(* At a character the parser is inside a word of short options.            *)
LEMMA AtCharReads ==
    ASSUME ArgInv, AtChar
    PROVE  Reading /\ cind >= 2 /\ cind <= Len(Word) /\ cind \in Nat
  BY DEF ArgInv, LineType, AtPlace, AtChar, Reading, Word

(* The option that a long name stands for.                                 *)
LEMMA LongOptionIs ==
    ASSUME ArgInv, LongKnown
    PROVE  \E i \in DOMAIN options : LongOption = options[i] /\ AsksFor(Word, options[i].code)
  <1>1. Reading
    BY AtWordReads DEF LongKnown
  <1>2. PICK T : T = IF Exact # {} THEN Exact ELSE Matching
    OBVIOUS
  <1>3. T # {} /\ T \subseteq DOMAIN options
    BY <1>2 DEF LongKnown, Exact, Matching
  <1>4. Min(T) \in T
    <2>1. DOMAIN options \subseteq Nat
      BY OptionsAre
    <2> QED
      BY <1>3, <2>1, MinIs
  <1>5. PICK i \in DOMAIN options : i = Min(T) /\ i \in T
    BY <1>3, <1>4
  <1>6. LongOption = options[i]
    BY <1>2, <1>5 DEF LongOption
  <1>7. IsPrefix(LongName, options[i].name)
    <2>1. CASE Exact # {}
      <3>1. options[i].name = LongName
        BY <1>2, <1>5, <2>1 DEF Exact
      <3>2. options[i].name \in Words
        BY OptionsAre DEF Options
      <3>3. Len(LongName) \in Nat
        BY <3>1, <3>2, CharactersAre
      <3> QED
        BY <3>1, <3>3 DEF IsPrefix
    <2>2. CASE Exact = {}
      BY <1>2, <1>5, <2>2 DEF Matching
    <2> QED
      BY <2>1, <2>2
  <1>8. AsksFor(Word, options[i].code)
    BY <1>7 DEF AsksFor, LongName
  <1> QED
    BY <1>6, <1>8

(* Its value is a word.                                                    *)
LEMMA ValueIs == ASSUME Reading, IsLong PROVE Value \in Words
  <1>1. Word \in Words
    BY RolesAre
  <1>2. Len(Word) \in Nat /\ Len(Word) >= 2
    BY <1>1, CharactersAre DEF IsLong, IsOption
  <1>3. NameEnd(Word) \in 3..(Len(Word) + 1)
    BY <1>1, <1>2, NameEnds
  <1>4. NameEnd(Word) + 1 \in Nat /\ NameEnd(Word) + 1 >= 1
    BY <1>2, <1>3
  <1> QED
    BY <1>1, <1>4, PartOfWord DEF Value

(* parse_long_option.                                                      *)
LEMMA LongKeeps ==
    ASSUME ArgInv, LongUnknown \/ LongWithValue \/ LongWithoutValue PROVE ArgInv'
  <1>1. Reading
    BY AtWordReads DEF LongUnknown, LongWithValue, LongWithoutValue, LongKnown
  <1>2. NoArgument \in Words
    BY DEF NoArgument, Words
  <1>3. CASE LongUnknown
    BY <1>1, <1>3, FailedLine DEF LongUnknown
  <1>4. CASE LongWithValue
    <2>1. LongKnown /\ IsLong
      BY <1>4 DEF LongWithValue, LongKnown
    <2>2. PICK i \in DOMAIN options : LongOption = options[i] /\ AsksFor(Word, options[i].code)
      BY <2>1, LongOptionIs
    <2>3. Value \in Words
      BY <1>1, <2>1, ValueIs
    <2>4. \/ Fails("no argument allowed") \/ Fails("argument required")
          \/ PushAlone(options[i], Value)
      BY <1>4, <2>2 DEF LongWithValue
    <2>5. CASE PushAlone(options[i], Value)
      BY <1>1, <2>2, <2>3, <2>5, PushedAlone
    <2> QED
      BY <1>1, <2>4, <2>5, FailedLine
  <1>5. CASE LongWithoutValue
    <2>1. LongKnown
      BY <1>5 DEF LongWithoutValue
    <2>2. PICK i \in DOMAIN options : LongOption = options[i] /\ AsksFor(Word, options[i].code)
      BY <2>1, LongOptionIs
    <2>3. \/ Fails("argument required")
          \/ PushAlone(options[i], NoArgument)
          \/ HasNext /\ PushWithNext(options[i])
      BY <1>5, <2>2 DEF LongWithoutValue
    <2>4. CASE PushAlone(options[i], NoArgument)
      BY <1>1, <1>2, <2>2, <2>4, PushedAlone
    <2>5. CASE HasNext /\ PushWithNext(options[i])
      BY <1>1, <2>2, <2>5, PushedWithNext
    <2> QED
      BY <1>1, <2>3, <2>4, <2>5, FailedLine
  <1> QED
    BY <1>3, <1>4, <1>5

(* The option that a character stands for; it is of the second character   *)
(* while there is no record, unless plain words are among them.            *)
LEMMA ShortOptionIs ==
    ASSUME ArgInv, ShortKnown
    PROVE  \E i \in DOMAIN options :
              /\ ShortOption = options[i]
              /\ ~in_order /\ data = << >> => AsksFor(Word, options[i].code)
  <1>1. Reading /\ cind >= 2 /\ cind \in Nat
    BY AtCharReads DEF ShortKnown
  <1>2. ShortMatch # {} /\ ShortMatch \subseteq DOMAIN options /\ ShortMatch \subseteq Nat
    BY OptionsAre DEF ShortKnown, ShortMatch
  <1>3. PICK i \in DOMAIN options : i = Min(ShortMatch) /\ options[i].code = Word[cind]
    <2>1. Min(ShortMatch) \in ShortMatch
      BY <1>2, MinIs
    <2> QED
      BY <2>1 DEF ShortMatch
  <1>4. ShortOption = options[i]
    BY <1>3 DEF ShortOption
  <1>5. ASSUME ~in_order, data = << >> PROVE AsksFor(Word, options[i].code)
    <2>1. OptionWords = {}
      BY <1>1, <1>5 DEF ArgInv, FirstSoFar, Reading
    <2>2. argind \in DOMAIN argv /\ (cind > 2 => role[argind] = {"option"})
      BY <1>1, RolesAre
    <2>3. cind = 2
      BY <1>1, <2>1, <2>2 DEF OptionWords
    <2> QED
      BY <1>3, <2>3 DEF AsksFor
  <1> QED
    BY <1>4, <1>5

(* parse_short_option.                                                     *)
LEMMA ShortKeeps ==
    ASSUME ArgInv, ShortUnknown \/ ShortInWord \/ ShortAtEnd PROVE ArgInv'
  <1>1. Reading /\ cind >= 2 /\ cind <= Len(Word) /\ cind \in Nat
    BY AtCharReads DEF ShortUnknown, ShortInWord, ShortAtEnd, ShortKnown
  <1>2. NoArgument \in Words
    BY DEF NoArgument, Words
  <1>3. CASE ShortUnknown
    BY <1>1, <1>3, FailedLine DEF ShortUnknown
  <1>4. CASE ShortInWord
    <2>1. ShortKnown /\ cind # Len(Word)
      BY <1>4 DEF ShortInWord, LastChar
    <2>2. PICK i \in DOMAIN options :
              /\ ShortOption = options[i]
              /\ ~in_order /\ data = << >> => AsksFor(Word, options[i].code)
      BY <2>1, ShortOptionIs
    <2>3. Word \in Words /\ Len(Word) \in Nat
      BY <1>1, RolesAre, CharactersAre
    <2>4. SubSeq(Word, cind + 1, Len(Word)) \in Words
      <3>1. cind + 1 \in Nat /\ cind + 1 >= 1
        BY <1>1
      <3> QED
        BY <2>3, <3>1, PartOfWord
    <2>5. \/ /\ Push(Record(options[i].code, NoArgument), argind, cind + 1)
             /\ Take(argind, "option")
          \/ PushAlone(options[i], SubSeq(Word, cind + 1, Len(Word)))
      BY <1>4, <2>2 DEF ShortInWord
    <2>6. CASE /\ Push(Record(options[i].code, NoArgument), argind, cind + 1)
               /\ Take(argind, "option")
      <3>1. cind < Len(Word)
        BY <1>1, <2>1, <2>3
      <3> QED
        BY <1>1, <2>2, <2>6, <3>1, PushedInWord
    <2>7. CASE PushAlone(options[i], SubSeq(Word, cind + 1, Len(Word)))
      BY <1>1, <2>2, <2>4, <2>7, PushedAlone
    <2> QED
      BY <2>5, <2>6, <2>7
  <1>5. CASE ShortAtEnd
    <2>1. ShortKnown
      BY <1>5 DEF ShortAtEnd
    <2>2. PICK i \in DOMAIN options :
              /\ ShortOption = options[i]
              /\ ~in_order /\ data = << >> => AsksFor(Word, options[i].code)
      BY <2>1, ShortOptionIs
    <2>3. \/ Fails("argument required")
          \/ PushAlone(options[i], NoArgument)
          \/ HasNext /\ PushWithNext(options[i])
      BY <1>5, <2>2 DEF ShortAtEnd
    <2>4. CASE PushAlone(options[i], NoArgument)
      BY <1>1, <1>2, <2>2, <2>4, PushedAlone
    <2>5. CASE HasNext /\ PushWithNext(options[i])
      BY <1>1, <2>2, <2>5, PushedWithNext
    <2> QED
      BY <1>1, <2>3, <2>4, <2>5, FailedLine
  <1> QED
    BY <1>3, <1>4, <1>5

(* The first character of a word of short options.                         *)
LEMMA ShortBeginsKeeps == ASSUME ArgInv, ShortBegins PROVE ArgInv'
  <1>1. Reading /\ cind = 0
    BY AtWordReads DEF ShortBegins
  <1>2. /\ cind' = 2
        /\ argv' = argv /\ in_order' = in_order /\ argind' = argind /\ data' = data
        /\ non_options' = non_options /\ error' = error /\ parser' = parser
        /\ does' = does /\ role' = role
    BY DEF ShortBegins
  <1>3. LineType /\ AtPlace /\ RolesSoFar /\ PlainSoFar /\ FirstSoFar
    BY DEF ArgInv
  <1>4. Len(argv[argind]) >= 2
    BY DEF ShortBegins, IsShort, IsOption, Word
  <1>5. parser = "words" /\ error = "none" /\ argind <= Len(argv)
    BY <1>1 DEF Reading
  <1>6. LineType'
    BY <1>2, <1>3 DEF LineType
  <1>7. AtPlace'
    BY <1>2, <1>3, <1>4, <1>5 DEF AtPlace
  <1>8. RolesSoFar'
    <2>1. role' \in [DOMAIN argv' -> SUBSET Kinds]
      BY <1>2, <1>3 DEF RolesSoFar
    <2>2. ASSUME NEW i \in DOMAIN argv'
          PROVE  /\ i < argind' => \E x \in Kinds : role'[i] = {x}
                 /\ i > argind' => role'[i] = {}
                 /\ i = argind' => role'[i] = {}
      BY <1>1, <1>2, <2>2, RolesAre
    <2>3. parser' = "words" /\ ~(cind' > 2)
      BY <1>2, <1>5
    <2> QED
      BY <2>1, <2>2, <2>3 DEF RolesSoFar
  <1>9. PlainWords' = PlainWords /\ OptionWords' = OptionWords
    BY <1>2 DEF PlainWords, OptionWords
  <1>10. PlainSoFar'
    BY <1>2, <1>3, <1>9 DEF PlainSoFar
  <1>11. FirstSoFar'
    BY <1>2, <1>3, <1>9 DEF FirstSoFar, FirstAsks
  <1> QED
    BY <1>6, <1>7, <1>8, <1>10, <1>11 DEF ArgInv

-----------------------------------------------------------------------------
(* The words that are no options.                                          *)

(* The word that the parser is at is taken for something.                  *)
WordTaken(what) ==
    /\ what \in Kinds
    /\ role' \in [DOMAIN argv -> SUBSET Kinds]
    /\ \A i \in DOMAIN argv : i # argind => role'[i] = role[i]
    /\ role[argind] = {} /\ role'[argind] = {what}

(* A word that is read alone is taken for exactly one thing.               *)
LEMMA TakenForIt ==
    ASSUME Reading, cind = 0, NEW what \in Kinds, Take(argind, what) PROVE WordTaken(what)
  <1>1. argind \in DOMAIN argv /\ role \in [DOMAIN argv -> SUBSET Kinds]
    BY RolesAre
  <1>2. role[argind] = {}
    BY <1>1, RolesAre
  <1>3. role' = [role EXCEPT ![argind] = role[argind] \cup {what}]
    BY DEF Take
  <1>4. role[argind] \cup {what} = {what}
    BY <1>2
  <1> QED
    BY <1>1, <1>2, <1>3, <1>4 DEF WordTaken

(* The parser goes on at the next word, or stops before it.                *)
LEMMA OnBehindIt ==
    ASSUME Reading, NEW what, WordTaken(what), argv' = argv, argind' = argind + 1,
           cind' = 0, error' = error, parser' \in {"words", "end"}
    PROVE  AtPlace' /\ RolesSoFar'
  <1>1. /\ argind \in DOMAIN argv /\ argind \in Nat /\ argind >= 1 /\ argind <= Len(argv)
        /\ DOMAIN argv = 1..Len(argv) /\ Len(argv) \in Nat
    BY RolesAre
  <1>2. AtPlace'
    BY <1>1 DEF AtPlace
  <1>3. ASSUME NEW i \in DOMAIN argv
        PROVE  /\ i < argind' => \E x \in Kinds : role'[i] = {x}
               /\ i > argind' => role'[i] = {}
               /\ i = argind' => role'[i] = {}
    <2>1. CASE i < argind
      <3>1. \E x \in Kinds : role[i] = {x}
        BY <2>1, RolesAre
      <3>2. role'[i] = role[i] /\ i < argind'
        BY <1>1, <2>1 DEF WordTaken
      <3> QED
        BY <1>1, <3>1, <3>2
    <2>2. CASE i = argind
      <3>1. i < argind'
        BY <1>1, <2>2
      <3>2. \E x \in Kinds : role'[i] = {x}
        BY <2>2 DEF WordTaken
      <3> QED
        BY <1>1, <3>1, <3>2
    <2>3. CASE i > argind
      <3>1. role[i] = {}
        BY <2>3, RolesAre
      <3>2. role'[i] = role[i] /\ ~(i < argind')
        BY <1>1, <2>3 DEF WordTaken
      <3> QED
        BY <3>1, <3>2
    <2> QED
      BY <1>1, <2>1, <2>2, <2>3
  <1>4. role' \in [DOMAIN argv' -> SUBSET Kinds]
    BY DEF WordTaken
  <1>5. parser' # "done" /\ ~(cind' > 2)
    OBVIOUS
  <1>6. RolesSoFar'
    BY <1>3, <1>4, <1>5 DEF RolesSoFar
  <1> QED
    BY <1>2, <1>6

(* Which words are plain then, and which have options.                     *)
LEMMA WordsThen ==
    ASSUME Reading, NEW what, WordTaken(what), argv' = argv, what # "option"
    PROVE  /\ PlainWords' = IF what = "plain" THEN PlainWords \cup {argind} ELSE PlainWords
           /\ OptionWords' = OptionWords
           /\ PlainWords \subseteq Nat /\ \A i \in PlainWords : i < argind
  <1>1. /\ argind \in DOMAIN argv /\ argind \in Nat
        /\ DOMAIN argv = 1..Len(argv) /\ Len(argv) \in Nat
    BY RolesAre
  <1>2. /\ \A i \in DOMAIN argv : i # argind => role'[i] = role[i]
        /\ role[argind] = {} /\ role'[argind] = {what}
    BY DEF WordTaken
  <1>3. {what} # {"option"} /\ {} # {"option"} /\ {} # {"plain"}
        /\ ({what} = {"plain"} <=> what = "plain")
    OBVIOUS
  <1>4. \A i \in DOMAIN argv : role'[i] = {"option"} <=> role[i] = {"option"}
    BY <1>2, <1>3
  <1>5. OptionWords' = OptionWords
    BY <1>4 DEF OptionWords
  <1>6. \A i \in DOMAIN argv :
           role'[i] = {"plain"} <=> role[i] = {"plain"} \/ (i = argind /\ what = "plain")
    BY <1>2, <1>3
  <1>7. ASSUME what = "plain" PROVE PlainWords' = PlainWords \cup {argind}
    <2>1. PlainWords' = PlainWords \cup {argind}
      BY <1>1, <1>6, <1>7 DEF PlainWords
    <2> QED
      BY <2>1
  <1>8. ASSUME what # "plain" PROVE PlainWords' = PlainWords
    <2>1. PlainWords' = PlainWords
      BY <1>1, <1>6, <1>8 DEF PlainWords
    <2> QED
      BY <2>1
  <1>9. PlainWords \subseteq Nat /\ \A i \in PlainWords : i < argind
    <2>1. \A i \in DOMAIN argv : i > argind => role[i] = {}
      BY RolesAre
    <2> QED
      BY <1>1, <1>2, <1>3, <2>1 DEF PlainWords
  <1> QED
    BY <1>5, <1>7, <1>8, <1>9

(* A sequence of words, and one more.                                      *)
LEMMA OneMoreWord ==
    ASSUME NEW d \in Seq(Words), NEW w \in Words, NEW e, e = Append(d, w)
    PROVE  /\ e \in Seq(Words) /\ Len(d) \in Nat /\ Len(e) = Len(d) + 1
           /\ e[Len(d) + 1] = w /\ \A k \in 1..Len(d) : e[k] = d[k]
  <1>1. PICK W : W = Words
    OBVIOUS
  <1>2. d \in Seq(W) /\ w \in W
    BY <1>1
  <1>3. e \in Seq(W) /\ Len(d) \in Nat /\ Len(e) = Len(d) + 1
        /\ e[Len(d) + 1] = w /\ \A k \in 1..Len(d) : e[k] = d[k]
    BY <1>2
  <1> QED
    BY <1>1, <1>3

(* A plain word is kept for the end, or is a record at once.               *)
LEMMA NonOptionKeeps == ASSUME ArgInv, NonOption PROVE ArgInv'
  <1>1. Reading /\ cind = 0
    BY AtWordReads DEF NonOption
  <1>2. /\ argind' = argind + 1 /\ cind' = 0 /\ argv' = argv /\ in_order' = in_order
        /\ error' = error /\ parser' = parser /\ does' = does /\ Take(argind, "plain")
        /\ IF in_order THEN data' = Append(data, Record(NoOption, Word))
                            /\ non_options' = non_options
                       ELSE non_options' = Append(non_options, Word) /\ data' = data
    BY <1>1 DEF NonOption
  <1>3. LineType /\ AtPlace /\ PlainSoFar /\ FirstSoFar
        /\ parser = "words" /\ error = "none" /\ argind \in Nat
    BY <1>1 DEF ArgInv, Reading, AtPlace
  <1>4. WordTaken("plain")
    <2>1. "plain" \in Kinds
      BY DEF Kinds
    <2> QED
      BY <1>1, <1>2, <2>1, TakenForIt
  <1>5. AtPlace' /\ RolesSoFar'
    BY <1>1, <1>2, <1>3, <1>4, OnBehindIt
  <1>6. /\ PlainWords' = PlainWords \cup {argind} /\ OptionWords' = OptionWords
        /\ PlainWords \subseteq Nat /\ \A i \in PlainWords : i < argind
    BY <1>1, <1>2, <1>4, WordsThen
  <1>7. Word \in Words /\ Word = argv[argind]
    BY <1>1, RolesAre DEF Word
  <1>8. data \in Seq(Records) /\ non_options \in Seq(Words)
    BY <1>3 DEF LineType
  <1>9. CASE in_order
    <2>1. PICK rec : rec = Record(NoOption, Word)
      OBVIOUS
    <2>2. rec \in Records /\ rec.code = NoOption /\ rec.argument = Word
      BY <1>7, <2>1 DEF Record, Records, NoOption
    <2>3. data' = Append(data, rec) /\ non_options' = non_options /\ in_order'
      BY <1>2, <1>9, <2>1
    <2>4. PICK n : n = Len(data) + 1
      OBVIOUS
    <2>5. /\ data' \in Seq(Records) /\ n \in Nat /\ DOMAIN data = 1..(n - 1)
          /\ DOMAIN data' = DOMAIN data \cup {n}
          /\ data'[n] = rec /\ \A k \in DOMAIN data : data'[k] = data[k]
      <3>1. /\ data' \in Seq(Records) /\ Len(data) \in Nat /\ DOMAIN data = 1..Len(data)
            /\ DOMAIN data' = 1..(Len(data) + 1)
            /\ data'[Len(data) + 1] = rec /\ \A k \in DOMAIN data : data'[k] = data[k]
        BY <1>8, <2>2, <2>3, OneMoreRecord
      <3>2. n \in Nat /\ n - 1 = Len(data) /\ 1..n = 1..(n - 1) \cup {n}
        BY <2>4, <3>1
      <3> QED
        BY <2>4, <3>1, <3>2
    <2>6. PlainIn(data') = PlainIn(data) \cup {n}
      BY <2>2, <2>5 DEF PlainIn
    <2>7. PlainIn(data) \subseteq Nat /\ \A k \in PlainIn(data) : k < n
      BY <2>5 DEF PlainIn
    <2>8. \A k \in PlainIn(data) : Arguments(data')[k] = Arguments(data)[k]
      BY <2>5 DEF PlainIn, Arguments
    <2>9. Arguments(data')[n] = argv[argind]
      BY <1>7, <2>2, <2>5 DEF Arguments
    <2>10. Handed(Arguments(data), PlainIn(data), PlainWords, argv) /\ non_options = << >>
      BY <1>3, <1>9 DEF PlainSoFar
    <2>11. Handed(Arguments(data'), PlainIn(data) \cup {n}, PlainWords \cup {argind}, argv)
      BY <1>3, <1>6, <2>5, <2>7, <2>8, <2>9, <2>10, HandOne
    <2>12. Handed(Arguments(data'), PlainIn(data'), PlainWords', argv')
      BY <1>2, <1>6, <2>6, <2>11
    <2>13. non_options' = << >> /\ parser' = "words"
      BY <1>2, <1>3, <2>3, <2>10
    <2>14. PlainSoFar'
      BY <2>3, <2>12, <2>13 DEF PlainSoFar
    <2>15. LineType'
      BY <1>2, <1>3, <2>3, <2>5 DEF LineType
    <2>16. does' = "nothing"
      BY <1>2, <1>3 DEF FirstSoFar
    <2>17. FirstSoFar'
      BY <2>3, <2>13, <2>16 DEF FirstSoFar
    <2> QED
      BY <1>5, <2>14, <2>15, <2>17 DEF ArgInv
  <1>10. CASE ~in_order
    <2>1. non_options' = Append(non_options, Word) /\ data' = data /\ ~in_order'
          /\ parser' = "words"
      BY <1>2, <1>3, <1>10
    <2>2. PICK n : n = Len(non_options) + 1
      OBVIOUS
    <2>3. PICK S : S = 1..Len(non_options)
      OBVIOUS
    <2>4. /\ non_options' \in Seq(Words) /\ n \in Nat /\ S \subseteq Nat /\ \A k \in S : k < n
          /\ 1..Len(non_options') = S \cup {n}
          /\ non_options'[n] = argv[argind] /\ \A k \in S : non_options'[k] = non_options[k]
      <3>1. /\ non_options' \in Seq(Words) /\ Len(non_options) \in Nat
            /\ Len(non_options') = Len(non_options) + 1
            /\ non_options'[Len(non_options) + 1] = Word
            /\ \A k \in 1..Len(non_options) : non_options'[k] = non_options[k]
        BY <1>7, <1>8, <2>1, OneMoreWord
      <3>2. n \in Nat /\ n - 1 = Len(non_options) /\ 1..n = 1..(n - 1) \cup {n}
        BY <2>2, <3>1
      <3> QED
        BY <1>7, <2>2, <2>3, <3>1, <3>2
    <2>5. PlainIn(data) = {} /\ Handed(non_options, S, PlainWords, argv)
      BY <1>3, <1>10, <2>3 DEF PlainSoFar
    <2>6. Handed(non_options', S \cup {n}, PlainWords \cup {argind}, argv)
      BY <1>3, <1>6, <2>4, <2>5, HandOne
    <2>7. Handed(non_options', 1..Len(non_options'), PlainWords', argv')
      BY <1>2, <1>6, <2>4, <2>6
    <2>8. PlainIn(data') = {}
      BY <2>1, <2>5
    <2>9. PlainSoFar'
      BY <2>1, <2>7, <2>8 DEF PlainSoFar
    <2>10. LineType'
      BY <1>2, <1>3, <2>1, <2>4 DEF LineType
    <2>11. FirstSoFar'
      BY <1>2, <1>3, <1>6, <2>1 DEF FirstSoFar, FirstAsks
    <2> QED
      BY <1>5, <2>9, <2>10, <2>11 DEF ArgInv
  <1> QED
    BY <1>9, <1>10

(* The end of the options.                                                 *)
LEMMA DoubleDashKeeps == ASSUME ArgInv, DoubleDash PROVE ArgInv'
  <1>1. Reading /\ cind = 0
    BY AtWordReads DEF DoubleDash
  <1>2. /\ argind' = argind + 1 /\ cind' = 0 /\ argv' = argv /\ in_order' = in_order
        /\ error' = error /\ parser' = "end" /\ does' = does /\ Take(argind, "end_of_options")
        /\ data' = data /\ non_options' = non_options
    BY <1>1 DEF DoubleDash
  <1>3. LineType /\ PlainSoFar /\ FirstSoFar /\ parser = "words" /\ error = "none"
    BY <1>1 DEF ArgInv, Reading
  <1>4. WordTaken("end_of_options")
    <2>1. "end_of_options" \in Kinds
      BY DEF Kinds
    <2> QED
      BY <1>1, <1>2, <2>1, TakenForIt
  <1>5. AtPlace' /\ RolesSoFar'
    BY <1>1, <1>2, <1>4, OnBehindIt
  <1>6. PlainWords' = PlainWords /\ OptionWords' = OptionWords
    <2>1. "end_of_options" # "plain" /\ "end_of_options" # "option"
      OBVIOUS
    <2> QED
      BY <1>1, <1>2, <1>4, <2>1, WordsThen
  <1>7. LineType'
    BY <1>2, <1>3 DEF LineType
  <1>8. PlainSoFar'
    BY <1>2, <1>3, <1>6 DEF PlainSoFar
  <1>9. FirstSoFar'
    BY <1>2, <1>3, <1>6 DEF FirstSoFar, FirstAsks
  <1> QED
    BY <1>5, <1>7, <1>8, <1>9 DEF ArgInv

-----------------------------------------------------------------------------
(* The end of the parser.                                                  *)

(* The records of plain words.                                             *)
LEMMA PlainIs ==
    ASSUME NEW s \in Seq(Words), NEW e, e = Plain(s)
    PROVE  /\ e \in Seq(Records) /\ Len(s) \in Nat /\ Len(e) = Len(s)
           /\ \A k \in 1..Len(s) : e[k].code = NoOption /\ e[k].argument = s[k]
  <1>1. PICK W : W = Words
    OBVIOUS
  <1>2. s \in Seq(W)
    BY <1>1
  <1>3. Len(s) \in Nat /\ DOMAIN s = 1..Len(s) /\ \A k \in 1..Len(s) : s[k] \in Words
    BY <1>1, <1>2
  <1>4. \A k \in 1..Len(s) :
            /\ Record(NoOption, s[k]) \in Records
            /\ Record(NoOption, s[k]).code = NoOption
            /\ Record(NoOption, s[k]).argument = s[k]
    BY <1>3 DEF Record, Records
  <1>5. PICK R : R = Records
    OBVIOUS
  <1>6. e = [k \in 1..Len(s) |-> Record(NoOption, s[k])]
    BY <1>3 DEF Plain
  <1>7. \A k \in 1..Len(s) : Record(NoOption, s[k]) \in R
    BY <1>4, <1>5
  <1>8. e \in [1..Len(s) -> R]
    BY <1>6, <1>7
  <1>9. e \in Seq(R) /\ Len(e) = Len(s)
    BY <1>3, <1>8
  <1> QED
    BY <1>3, <1>4, <1>5, <1>6, <1>9

(* Records of three kinds in a row.                                        *)
LEMMA TwoInRow ==
    ASSUME NEW R, NEW d \in Seq(R), NEW a \in Seq(R), NEW e, e = d \o a
    PROVE  /\ e \in Seq(R) /\ Len(d) \in Nat /\ Len(a) \in Nat /\ Len(e) = Len(d) + Len(a)
           /\ DOMAIN d = 1..Len(d) /\ DOMAIN e = 1..Len(e)
           /\ \A k \in 1..Len(d) : e[k] = d[k]
           /\ \A k \in 1..Len(a) : e[Len(d) + k] = a[k]
  <1>1. e \in Seq(R) /\ Len(d) \in Nat /\ Len(a) \in Nat /\ Len(e) = Len(d) + Len(a)
        /\ DOMAIN d = 1..Len(d) /\ DOMAIN e = 1..Len(e)
    OBVIOUS
  <1>2. \A k \in 1..Len(d) : e[k] = d[k]
    OBVIOUS
  <1>3. \A k \in 1..Len(a) : e[Len(d) + k] = a[k]
    OBVIOUS
  <1> QED
    BY <1>1, <1>2, <1>3

(* Of three kinds.                                                         *)
LEMMA ThreeInRow ==
    ASSUME NEW R, NEW d \in Seq(R), NEW a \in Seq(R), NEW b \in Seq(R), NEW e, e = d \o a \o b
    PROVE  /\ e \in Seq(R) /\ Len(d) \in Nat /\ Len(a) \in Nat /\ Len(b) \in Nat
           /\ DOMAIN d = 1..Len(d) /\ DOMAIN e = 1..(Len(d) + Len(a) + Len(b))
           /\ \A k \in 1..Len(d) : e[k] = d[k]
           /\ \A k \in 1..Len(a) : e[Len(d) + k] = a[k]
           /\ \A k \in 1..Len(b) : e[Len(d) + Len(a) + k] = b[k]
  <1>1. PICK f : f = d \o a
    OBVIOUS
  <1>2. /\ f \in Seq(R) /\ Len(d) \in Nat /\ Len(a) \in Nat /\ Len(f) = Len(d) + Len(a)
        /\ DOMAIN d = 1..Len(d)
        /\ \A k \in 1..Len(d) : f[k] = d[k]
        /\ \A k \in 1..Len(a) : f[Len(d) + k] = a[k]
    BY <1>1, TwoInRow
  <1>3. /\ e \in Seq(R) /\ Len(b) \in Nat /\ Len(e) = Len(f) + Len(b) /\ DOMAIN e = 1..Len(e)
        /\ \A k \in 1..Len(f) : e[k] = f[k]
        /\ \A k \in 1..Len(b) : e[Len(f) + k] = b[k]
    <2>1. f \in Seq(R) /\ b \in Seq(R) /\ e = f \o b
      BY <1>1, <1>2
    <2> QED
      BY <2>1, TwoInRow
  <1>4. /\ \A k \in 1..Len(d) : k \in 1..Len(f)
        /\ \A k \in 1..Len(a) : Len(d) + k \in 1..Len(f)
    BY <1>2
  <1>5. /\ \A k \in 1..Len(d) : e[k] = d[k]
        /\ \A k \in 1..Len(a) : e[Len(d) + k] = a[k]
    BY <1>2, <1>3, <1>4
  <1>6. DOMAIN e = 1..(Len(d) + Len(a) + Len(b))
    BY <1>2, <1>3
  <1>7. \A k \in 1..Len(b) : e[Len(d) + Len(a) + k] = b[k]
    BY <1>2, <1>3
  <1> QED
    BY <1>2, <1>3, <1>5, <1>6, <1>7

(* The words from one place on.                                            *)
LEMMA WordsFrom ==
    ASSUME NEW a \in Seq(Words), NEW h \in Nat, h >= 1, h <= Len(a) + 1,
           NEW s, s = SubSeq(a, h, Len(a))
    PROVE  /\ s \in Seq(Words) /\ Len(a) \in Nat /\ Len(s) = Len(a) + 1 - h
           /\ \A j \in 1..Len(s) : s[j] = a[h + j - 1]
  <1>1. PICK W : W = Words
    OBVIOUS
  <1>2. a \in Seq(W) /\ Len(a) \in Nat
    BY <1>1
  <1>3. \A j \in h..Len(a) : a[j] \in W
    BY <1>2
  <1>4. /\ SubSeq(a, h, Len(a)) \in Seq(W)
        /\ Len(SubSeq(a, h, Len(a))) = IF h <= Len(a) THEN Len(a) - h + 1 ELSE 0
        /\ \A j \in 1..(Len(a) - h + 1) : SubSeq(a, h, Len(a))[j] = a[h + j - 1]
    BY <1>2, <1>3, SubSeqProperties
  <1>5. Len(s) = Len(a) + 1 - h /\ Len(s) = Len(a) - h + 1
    BY <1>2, <1>4
  <1> QED
    BY <1>1, <1>2, <1>4, <1>5

(* A line that is accepted comes to its end: all words are taken.          *)
Ending ==
    /\ ArgInv /\ error = "none" /\ ParserEnds
    /\ parser \in {"words", "end"} /\ cind = 0

(* When the parser ends without an error it stands between two words.      *)
LEMMA EndingIs == ASSUME ArgInv, ParserEnds, error = "none" PROVE Ending
  <1>1. CASE parser = "end"
    BY <1>1 DEF ArgInv, RolesSoFar, Ending
  <1>2. CASE parser = "words" /\ argind > Len(argv)
    <2>1. LineType /\ AtPlace
      BY DEF ArgInv
    <2>2. Len(argv) \in Nat /\ argind \in Nat /\ cind \in Nat /\ (cind > 0 => argind <= Len(argv))
      BY <2>1, WordsAre DEF AtPlace
    <2>3. cind = 0
      BY <1>2, <2>2
    <2> QED
      BY <1>2, <2>3 DEF Ending
  <1> QED
    BY <1>1, <1>2 DEF ParserEnds

(* The words that are left then are plain.                                 *)
LEMMA LastWords ==
    ASSUME Ending
    PROVE  /\ argind \in Nat /\ argind >= 1 /\ argind <= Len(argv) + 1
           /\ Len(argv) \in Nat /\ DOMAIN argv = 1..Len(argv)
           /\ role' \in [DOMAIN argv -> SUBSET Kinds]
           /\ \A i \in DOMAIN argv : \E x \in Kinds : role'[i] = {x}
           /\ PlainWords' = PlainWords \cup (argind..Len(argv))
           /\ OptionWords' = OptionWords
           /\ PlainWords \subseteq Nat /\ \A i \in PlainWords : i < argind
  <1>1. /\ LineType /\ AtPlace /\ RolesSoFar /\ cind = 0
        /\ parser \in {"words", "end"} /\ error = "none" /\ ParserEnds
    BY DEF Ending, ArgInv
  <1>2. /\ argind \in Nat /\ argind >= 1 /\ argind <= Len(argv) + 1
        /\ Len(argv) \in Nat /\ DOMAIN argv = 1..Len(argv)
    BY <1>1, WordsAre DEF AtPlace
  <1>3. /\ role \in [DOMAIN argv -> SUBSET Kinds]
        /\ \A i \in DOMAIN argv : i < argind => \E x \in Kinds : role[i] = {x}
        /\ \A i \in DOMAIN argv : i >= argind => role[i] = {}
    <2>1. /\ role \in [DOMAIN argv -> SUBSET Kinds]
          /\ \A i \in DOMAIN argv : i < argind => \E x \in Kinds : role[i] = {x}
          /\ \A i \in DOMAIN argv : i > argind => role[i] = {}
          /\ \A i \in DOMAIN argv : i = argind => role[i] = {}
      BY <1>1 DEF RolesSoFar
    <2> QED
      BY <1>2, <2>1
  <1>4. argv' = argv /\ role' = [i \in DOMAIN argv |->
                        IF i >= argind THEN role[i] \cup {"plain"} ELSE role[i]]
    BY <1>1 DEF ParserEnds
  <1>5. "plain" \in Kinds
    BY DEF Kinds
  <1>6. \A i \in DOMAIN argv : /\ i >= argind => role'[i] = {"plain"}
                               /\ i < argind => role'[i] = role[i]
    BY <1>2, <1>3, <1>4
  <1>7. \A i \in DOMAIN argv : i >= argind \/ i < argind
    BY <1>2
  <1>8. \A i \in DOMAIN argv : \E x \in Kinds : role'[i] = {x}
    BY <1>3, <1>5, <1>6, <1>7
  <1>9. role' \in [DOMAIN argv -> SUBSET Kinds]
    <2>1. \A i \in DOMAIN argv : role'[i] \in SUBSET Kinds
      BY <1>8
    <2> QED
      BY <1>4, <2>1
  <1>10. {"plain"} # {} /\ {"plain"} # {"option"} /\ {"option"} # {}
    OBVIOUS
  <1>11. \A i \in DOMAIN argv : role'[i] = {"option"} <=> role[i] = {"option"}
    BY <1>3, <1>6, <1>7, <1>10
  <1>12. \A i \in DOMAIN argv : role'[i] = {"plain"} <=> role[i] = {"plain"} \/ i >= argind
    BY <1>3, <1>6, <1>7, <1>10
  <1>13. OptionWords' = OptionWords
    BY <1>4, <1>11 DEF OptionWords
  <1>14. PlainWords' = PlainWords \cup (argind..Len(argv))
    <2>1. \A i \in DOMAIN argv : i >= argind <=> i \in argind..Len(argv)
      BY <1>2
    <2>2. argind..Len(argv) \subseteq DOMAIN argv
      BY <1>2
    <2> QED
      BY <1>4, <1>12, <2>1, <2>2 DEF PlainWords
  <1>15. PlainWords \subseteq Nat /\ \A i \in PlainWords : i < argind
    BY <1>2, <1>3, <1>7, <1>10 DEF PlainWords
  <1> QED
    BY <1>2, <1>8, <1>9, <1>13, <1>14, <1>15

(* The records then.                                                       *)
LEMMA LastRecords ==
    ASSUME Ending
    PROVE  \E n, r \in Nat :
             /\ n = Len(non_options) /\ r = Len(argv) + 1 - argind
             /\ data' \in Seq(Records) /\ Len(data) \in Nat
             /\ DOMAIN data = 1..Len(data) /\ DOMAIN data' = 1..(Len(data) + n + r)
             /\ \A k \in 1..Len(data) : data'[k] = data[k]
             /\ \A k \in 1..n : /\ data'[Len(data) + k].code = NoOption
                                /\ data'[Len(data) + k].argument = non_options[k]
             /\ \A k \in 1..r : /\ data'[Len(data) + n + k].code = NoOption
                                /\ data'[Len(data) + n + k].argument = argv[argind + k - 1]
  <1>1. LineType /\ AtPlace /\ error = "none" /\ ParserEnds
    BY DEF Ending, ArgInv
  <1>2. PICK s : s = SubSeq(argv, argind, Len(argv))
    OBVIOUS
  <1>3. PICK a, b : a = Plain(non_options) /\ b = Plain(s)
    OBVIOUS
  <1>4. data' = data \o a \o b
    BY <1>1, <1>2, <1>3 DEF ParserEnds
  <1>5. data \in Seq(Records) /\ non_options \in Seq(Words) /\ argv \in Seq(Words)
        /\ argind \in Nat /\ argind >= 1 /\ argind <= Len(argv) + 1
    BY <1>1, WordsAre DEF LineType, AtPlace
  <1>6. /\ s \in Seq(Words) /\ Len(argv) \in Nat /\ Len(s) = Len(argv) + 1 - argind
        /\ \A j \in 1..Len(s) : s[j] = argv[argind + j - 1]
    BY <1>2, <1>5, WordsFrom
  <1>7. /\ a \in Seq(Records) /\ Len(non_options) \in Nat /\ Len(a) = Len(non_options)
        /\ \A k \in 1..Len(non_options) : a[k].code = NoOption /\ a[k].argument = non_options[k]
    BY <1>3, <1>5, PlainIs
  <1>8. /\ b \in Seq(Records) /\ Len(s) \in Nat /\ Len(b) = Len(s)
        /\ \A k \in 1..Len(s) : b[k].code = NoOption /\ b[k].argument = s[k]
    BY <1>3, <1>6, PlainIs
  <1>9. /\ data' \in Seq(Records) /\ Len(data) \in Nat
        /\ DOMAIN data = 1..Len(data) /\ DOMAIN data' = 1..(Len(data) + Len(a) + Len(b))
        /\ \A k \in 1..Len(data) : data'[k] = data[k]
        /\ \A k \in 1..Len(a) : data'[Len(data) + k] = a[k]
        /\ \A k \in 1..Len(b) : data'[Len(data) + Len(a) + k] = b[k]
    <2>1. PICK R, e : R = Records /\ e = data'
      OBVIOUS
    <2>2. data \in Seq(R) /\ a \in Seq(R) /\ b \in Seq(R) /\ e = data \o a \o b
      BY <1>4, <1>5, <1>7, <1>8, <2>1
    <2>3. /\ e \in Seq(R) /\ Len(data) \in Nat /\ Len(a) \in Nat /\ Len(b) \in Nat
          /\ DOMAIN data = 1..Len(data) /\ DOMAIN e = 1..(Len(data) + Len(a) + Len(b))
          /\ \A k \in 1..Len(data) : e[k] = data[k]
          /\ \A k \in 1..Len(a) : e[Len(data) + k] = a[k]
          /\ \A k \in 1..Len(b) : e[Len(data) + Len(a) + k] = b[k]
      BY <2>2, ThreeInRow
    <2> QED
      BY <2>1, <2>3
  <1>10. PICK n, r \in Nat : n = Len(a) /\ r = Len(b)
    BY <1>7, <1>8
  <1>11. n = Len(non_options) /\ r = Len(s) /\ r = Len(argv) + 1 - argind
    BY <1>6, <1>7, <1>8, <1>10
  <1>12. /\ \A k \in 1..n : /\ data'[Len(data) + k].code = NoOption
                            /\ data'[Len(data) + k].argument = non_options[k]
         /\ \A k \in 1..r : /\ data'[Len(data) + n + k].code = NoOption
                            /\ data'[Len(data) + n + k].argument = argv[argind + k - 1]
    <2>1. ASSUME NEW k \in 1..n
          PROVE  /\ data'[Len(data) + k].code = NoOption
                 /\ data'[Len(data) + k].argument = non_options[k]
      BY <1>7, <1>9, <1>10, <1>11, <2>1
    <2>2. ASSUME NEW k \in 1..r
          PROVE  /\ data'[Len(data) + n + k].code = NoOption
                 /\ data'[Len(data) + n + k].argument = argv[argind + k - 1]
      <3>1. k \in 1..Len(s) /\ k \in 1..Len(b)
        BY <1>10, <1>11, <2>2
      <3>2. data'[Len(data) + n + k] = b[k]
        BY <1>9, <1>10, <3>1
      <3>3. b[k].code = NoOption /\ b[k].argument = s[k]
        BY <1>8, <3>1
      <3>4. s[k] = argv[argind + k - 1]
        BY <1>6, <3>1
      <3> QED
        BY <3>2, <3>3, <3>4
    <2> QED
      BY <2>1, <2>2
  <1> QED
    BY <1>9, <1>10, <1>11, <1>12

-----------------------------------------------------------------------------
(* What is handed on at the end: what there is, what was kept, what is     *)
(* left.                                                                   *)
LEMMA AllHandedOn ==
    ASSUME Ending
    PROVE  Handed(Arguments(data'), PlainIn(data'), PlainWords', argv)
  <1>1. PICK n, r \in Nat :
             /\ n = Len(non_options) /\ r = Len(argv) + 1 - argind
             /\ data' \in Seq(Records) /\ Len(data) \in Nat
             /\ DOMAIN data = 1..Len(data) /\ DOMAIN data' = 1..(Len(data) + n + r)
             /\ \A k \in 1..Len(data) : data'[k] = data[k]
             /\ \A k \in 1..n : /\ data'[Len(data) + k].code = NoOption
                                /\ data'[Len(data) + k].argument = non_options[k]
             /\ \A k \in 1..r : /\ data'[Len(data) + n + k].code = NoOption
                                /\ data'[Len(data) + n + k].argument = argv[argind + k - 1]
    BY LastRecords
  <1>2. PICK d \in Nat : d = Len(data)
    BY <1>1
  <1>3. /\ argind \in Nat /\ argind >= 1 /\ Len(argv) \in Nat
        /\ PlainWords' = PlainWords \cup (argind..Len(argv))
        /\ PlainWords \subseteq Nat /\ \A i \in PlainWords : i < argind
    BY LastWords
  <1>4. Len(argv) = argind + r - 1
    BY <1>1, <1>3
  <1>5. PlainSoFar /\ error = "none" /\ parser \in {"words", "end"}
    BY DEF Ending, ArgInv
  <1>6. PICK W : W = Arguments(data')
    OBVIOUS
  <1>7. /\ \A k \in 1..d : k \in DOMAIN data' /\ k \in DOMAIN data /\ data'[k] = data[k]
        /\ \A k \in 1..n : /\ d + k \in DOMAIN data' /\ data'[d + k].code = NoOption
                           /\ W[d + k] = non_options[k]
        /\ \A k \in 1..r : /\ d + n + k \in DOMAIN data' /\ data'[d + n + k].code = NoOption
                           /\ W[d + n + k] = argv[argind + k - 1]
    <2>1. \A k \in DOMAIN data' : W[k] = data'[k].argument
      BY <1>6 DEF Arguments
    <2>2. ASSUME NEW k \in 1..d PROVE k \in DOMAIN data' /\ k \in DOMAIN data /\ data'[k] = data[k]
      BY <1>1, <1>2, <2>2
    <2>3. ASSUME NEW k \in 1..n
          PROVE  /\ d + k \in DOMAIN data' /\ data'[d + k].code = NoOption
                 /\ W[d + k] = non_options[k]
      <3>1. d + k \in 1..(d + n + r)
        BY <2>3
      <3>2. data'[d + k].code = NoOption /\ data'[d + k].argument = non_options[k]
        BY <1>1, <1>2, <2>3
      <3> QED
        BY <1>1, <1>2, <2>1, <3>1, <3>2
    <2>4. ASSUME NEW k \in 1..r
          PROVE  /\ d + n + k \in DOMAIN data' /\ data'[d + n + k].code = NoOption
                 /\ W[d + n + k] = argv[argind + k - 1]
      <3>1. d + n + k \in 1..(d + n + r)
        BY <2>4
      <3>2. /\ data'[d + n + k].code = NoOption
            /\ data'[d + n + k].argument = argv[argind + k - 1]
        BY <1>1, <1>2, <2>4
      <3> QED
        BY <1>1, <1>2, <2>1, <3>1, <3>2
    <2> QED
      BY <2>2, <2>3, <2>4
  <1>8. PICK R, Q : R = (d + 1)..(d + n) /\ Q = ((d + n) + 1)..((d + n) + r)
    OBVIOUS
  <1>9. PlainIn(data') = PlainIn(data) \cup R \cup Q
    <2>1. \A k \in R : k - d \in 1..n /\ d + (k - d) = k
      BY <1>8
    <2>2. \A k \in Q : k - (d + n) \in 1..r /\ d + n + (k - (d + n)) = k
      BY <1>8
    <2>3. \A k \in R : k \in DOMAIN data' /\ data'[k].code = NoOption
      BY <1>7, <2>1
    <2>4. ASSUME NEW k \in Q PROVE k \in DOMAIN data' /\ data'[k].code = NoOption
      <3>1. PICK j \in 1..r : d + n + j = k
        BY <2>2
      <3>2. d + n + j \in DOMAIN data' /\ data'[d + n + j].code = NoOption
        BY <1>7
      <3> QED
        BY <3>1, <3>2
    <2>5. \A k \in DOMAIN data' : k \in 1..d \/ k \in R \/ k \in Q
      BY <1>1, <1>2, <1>8
    <2>6. \A k \in DOMAIN data : k \in 1..d
      BY <1>1, <1>2
    <2>7. PlainIn(data) \cup R \cup Q \subseteq PlainIn(data')
      BY <1>7, <2>3, <2>4, <2>6 DEF PlainIn
    <2>8. PlainIn(data') \subseteq PlainIn(data) \cup R \cup Q
      BY <1>7, <2>5 DEF PlainIn
    <2> QED
      BY <2>7, <2>8
  <1>10. PICK S : S = PlainIn(data) \cup R
    OBVIOUS
  <1>11. PICK m \in Nat : m = d + n
    OBVIOUS
  <1>12. /\ m = d + n /\ S = PlainIn(data) \cup R
         /\ S \subseteq Nat /\ \A k \in S : k <= m
    <2>1. \A k \in PlainIn(data) : k \in Nat /\ k <= d + n
      BY <1>1, <1>2 DEF PlainIn
    <2>2. \A k \in R : k \in Nat /\ k <= d + n
      BY <1>8
    <2> QED
      BY <1>10, <1>11, <2>1, <2>2
  <1>13. Handed(W, S, PlainWords, argv)
    <2>1. CASE in_order
      <3>1. non_options = << >> /\ Handed(Arguments(data), PlainIn(data), PlainWords, argv)
        BY <1>5, <2>1 DEF PlainSoFar
      <3>2. n = 0
        BY <1>1, <3>1
      <3>3. S = PlainIn(data)
        BY <1>8, <1>12, <3>2
      <3>4. \A k \in PlainIn(data) : W[k] = Arguments(data)[k]
        BY <1>1, <1>2, <1>6, <1>7 DEF PlainIn, Arguments
      <3> QED
        BY <3>1, <3>3, <3>4, HandSame
    <2>2. CASE ~in_order
      <3>1. PlainIn(data) = {} /\ Handed(non_options, 1..n, PlainWords, argv)
        BY <1>1, <1>5, <2>2 DEF PlainSoFar
      <3>2. \A k \in 1..n : W[d + k] = non_options[k]
        BY <1>7
      <3>3. Handed(W, (d + 1)..(d + n), PlainWords, argv)
        BY <3>1, <3>2, HandMoved
      <3> QED
        BY <1>8, <1>12, <3>1, <3>3
    <2> QED
      BY <2>1, <2>2
  <1>14. \A j \in 1..r : W[m + j] = argv[argind + j - 1]
    BY <1>7, <1>12
  <1>15. Handed(W, S \cup ((m + 1)..(m + r)), PlainWords \cup (argind..(argind + r - 1)), argv)
    BY <1>3, <1>12, <1>13, <1>14, HandRest
  <1>16. S \cup ((m + 1)..(m + r)) = PlainIn(data')
    BY <1>8, <1>9, <1>12
  <1> QED
    BY <1>3, <1>4, <1>6, <1>15, <1>16

(* The first record at the end.                                            *)
LEMMA FirstAtEnd ==
    ASSUME Ending, ~in_order, data' # << >>
    PROVE  data'[1].code = NoOption \/ FirstAsks(data[1].code)'
  <1>1. PICK n, r \in Nat :
             /\ data' \in Seq(Records) /\ Len(data) \in Nat
             /\ DOMAIN data = 1..Len(data) /\ DOMAIN data' = 1..(Len(data) + n + r)
             /\ \A k \in 1..Len(data) : data'[k] = data[k]
             /\ \A k \in 1..n : data'[Len(data) + k].code = NoOption
             /\ \A k \in 1..r : data'[Len(data) + n + k].code = NoOption
    BY LastRecords
  <1>2. LineType /\ FirstSoFar /\ error = "none" /\ parser \in {"words", "end"} /\ argv' = argv
    BY DEF Ending, ArgInv, ParserEnds
  <1>3. OptionWords' = OptionWords
    BY LastWords
  <1>4. data \in Seq(Records)
    BY <1>2 DEF LineType
  <1>5. CASE data # << >>
    <2>1. FirstAsks(data[1].code)
      BY <1>2, <1>5 DEF FirstSoFar
    <2>2. Len(data) # 0
      BY <1>4, <1>5, EmptySeq
    <2>3. data'[1] = data[1]
      BY <1>1, <2>2
    <2> QED
      BY <1>2, <1>3, <2>1, <2>3 DEF FirstAsks
  <1>6. CASE data = << >>
    <2>1. Len(data) = 0
      BY <1>6
    <2>2. n # 0 \/ r # 0
      <3>1. CASE n = 0 /\ r = 0
        <4>1. DOMAIN data' = 1..0
          BY <1>1, <2>1, <3>1
        <4>2. PICK R, e : R = Records /\ e = data'
          OBVIOUS
        <4>3. e \in Seq(R) /\ DOMAIN e = 1..Len(e) /\ Len(e) \in Nat
          BY <1>1, <4>2
        <4>4. Len(e) = 0
          BY <4>1, <4>2, <4>3
        <4> QED
          BY <4>2, <4>3, <4>4, EmptySeq
      <3> QED
        BY <3>1
    <2>3. CASE n # 0
      <3>1. 1 \in 1..n
        BY <2>3
      <3>2. data'[Len(data) + 1].code = NoOption
        BY <1>1, <3>1
      <3> QED
        BY <2>1, <3>2
    <2>4. CASE n = 0 /\ r # 0
      <3>1. 1 \in 1..r
        BY <2>4
      <3>2. data'[Len(data) + n + 1].code = NoOption
        BY <1>1, <3>1
      <3> QED
        BY <2>1, <2>4, <3>2
    <2> QED
      BY <2>2, <2>3, <2>4
  <1> QED
    BY <1>5, <1>6

(* The end of the parser.                                                  *)
LEMMA ParserEndsKeeps == ASSUME ArgInv, ParserEnds PROVE ArgInv'
  <1>1. /\ parser' = "done" /\ parser \in {"words", "end"}
        /\ argv' = argv /\ in_order' = in_order /\ argind' = argind /\ cind' = cind
        /\ non_options' = non_options /\ error' = error /\ does' = does
        /\ error # "none" => data' = << >> /\ role' = role
    BY DEF ParserEnds
  <1>2. LineType /\ AtPlace /\ RolesSoFar /\ FirstSoFar
    BY DEF ArgInv
  <1>3. AtPlace'
    BY <1>1, <1>2 DEF AtPlace
  <1>4. does' = "nothing" /\ parser' # "words" /\ parser' # "end"
    BY <1>1, <1>2 DEF FirstSoFar
  <1>5. CASE error # "none"
    <2>1. error' # "none" /\ data' = << >> /\ role' = role
      BY <1>1, <1>5
    <2>2. data' \in Seq(Records)
      <3>1. PICK R : R = Records
        OBVIOUS
      <3>2. << >> \in Seq(R)
        OBVIOUS
      <3> QED
        BY <2>1, <3>1, <3>2
    <2>3. LineType'
      BY <1>1, <1>2, <1>4, <2>2 DEF LineType
    <2>4. RolesSoFar'
      BY <1>1, <1>2, <2>1 DEF RolesSoFar
    <2>5. PlainSoFar'
      BY <2>1 DEF PlainSoFar
    <2>6. FirstSoFar'
      BY <1>1, <2>1 DEF FirstSoFar
    <2> QED
      BY <1>3, <2>3, <2>4, <2>5, <2>6 DEF ArgInv
  <1>6. CASE error = "none"
    <2>1. Ending
      BY <1>6, EndingIs
    <2>2. data' \in Seq(Records)
      BY <2>1, LastRecords
    <2>3. LineType'
      BY <1>1, <1>2, <1>4, <2>2 DEF LineType
    <2>4. RolesSoFar'
      <3>1. /\ role' \in [DOMAIN argv -> SUBSET Kinds]
            /\ \A i \in DOMAIN argv : \E x \in Kinds : role'[i] = {x}
        BY <2>1, LastWords
      <3> QED
        BY <1>1, <1>4, <3>1 DEF RolesSoFar
    <2>5. PlainSoFar'
      <3>1. Handed(Arguments(data'), PlainIn(data'), PlainWords', argv')
        BY <1>1, <2>1, AllHandedOn
      <3> QED
        BY <1>4, <3>1 DEF PlainSoFar
    <2>6. FirstSoFar'
      <3>1. ASSUME ~in_order', data' # << >>
            PROVE  data'[1].code = NoOption \/ FirstAsks(data[1].code)'
        BY <1>1, <2>1, <3>1, FirstAtEnd
      <3> QED
        BY <1>1, <1>4, <3>1 DEF FirstSoFar
    <2> QED
      BY <1>3, <2>3, <2>4, <2>5, <2>6 DEF ArgInv
  <1> QED
    BY <1>5, <1>6

(* What the client does is what the first record asks for.                 *)
LEMMA ClientMainKeeps == ASSUME ArgInv, ClientMain PROVE ArgInv'
  <1>1. /\ parser = "done" /\ ~in_order
        /\ argv' = argv /\ in_order' = in_order /\ argind' = argind /\ cind' = cind
        /\ data' = data /\ non_options' = non_options /\ error' = error
        /\ parser' = parser /\ role' = role
    BY DEF ClientMain
  <1>2. LineType /\ AtPlace /\ RolesSoFar /\ PlainSoFar /\ FirstSoFar
    BY DEF ArgInv
  <1>3. PlainWords' = PlainWords /\ OptionWords' = OptionWords
    BY <1>1 DEF PlainWords, OptionWords
  <1>4. LineType'
    BY <1>1, <1>2 DEF LineType
  <1>5. AtPlace'
    BY <1>1, <1>2 DEF AtPlace
  <1>6. RolesSoFar'
    BY <1>1, <1>2 DEF RolesSoFar
  <1>7. PlainSoFar'
    BY <1>1, <1>2, <1>3 DEF PlainSoFar
  <1>8. error = "none" => does' \in {"show_help", "internal_error"} \/ FirstAsks(does')
    <2> SUFFICES ASSUME error = "none"
                 PROVE  does' \in {"show_help", "internal_error"} \/ FirstAsks(does')
      OBVIOUS
    <2>1. \/ does' = "show_help" \/ does' = "internal_error"
          \/ data # << >> /\ data[1].code # NoOption /\ does' = data[1].code
      BY DEF ClientMain
    <2>2. CASE data # << >> /\ data[1].code # NoOption /\ does' = data[1].code
      BY <1>1, <1>2, <2>2 DEF FirstSoFar
    <2> QED
      BY <2>1, <2>2
  <1>9. FirstSoFar'
    <2>1. (FirstAsks(does))' <=> FirstAsks(does')
      BY <1>1, <1>3 DEF FirstAsks
    <2>2. (FirstAsks(data[1].code))' <=> FirstAsks(data[1].code)
      BY <1>1, <1>3 DEF FirstAsks
    <2> QED
      BY <1>1, <1>2, <1>8, <2>1, <2>2 DEF FirstSoFar
  <1> QED
    BY <1>4, <1>5, <1>6, <1>7, <1>9 DEF ArgInv

-----------------------------------------------------------------------------
(* Every step of the parser and of the client keeps what is known of the   *)
(* line.                                                                   *)
LEMMA WordStep == ASSUME ArgInv, [ArgNext]_argVars PROVE ArgInv'
  <1>1. CASE ArgNext
    BY <1>1, SearchedPast, LongKeeps, ShortBeginsKeeps, ShortKeeps, NonOptionKeeps,
       DoubleDashKeeps, ParserEndsKeeps, ClientMainKeeps DEF ArgNext
  <1>2. CASE UNCHANGED argVars
    <2>1. /\ argv' = argv /\ in_order' = in_order /\ argind' = argind /\ cind' = cind
          /\ data' = data /\ non_options' = non_options /\ error' = error
          /\ parser' = parser /\ role' = role /\ does' = does
      BY <1>2 DEF argVars
    <2> QED
      BY <2>1 DEF ArgInv, LineType, AtPlace, RolesSoFar, PlainSoFar, FirstSoFar, FirstAsks,
                  PlainWords, OptionWords
  <1> QED
    BY <1>1, <1>2

(* What is known of the line at each point of the parser.                  *)
THEOREM LineInvariant == ArgSpec => []ArgInv
  <1>1. ArgInit => ArgInv
    BY ArgStarts
  <1>2. ArgInv /\ [ArgNext]_argVars => ArgInv'
    BY WordStep
  <1> QED
    BY <1>1, <1>2, PTL DEF ArgSpec

(* Arg_parser and the main of the client: every command line that is       *)
(* accepted is understood, whatever the table of options and the line.     *)
THEOREM LineIsUnderstood == ArgSpec => []LineUnderstood
  <1>1. ASSUME ArgInv PROVE LineUnderstood
    <2> SUFFICES ASSUME parser = "done", error = "none"
                 PROVE  /\ \A i \in DOMAIN argv : Cardinality(role[i]) = 1
                        /\ \E word \in Surjection(PlainRecords, WordsTakenFor("plain")) :
                              /\ \A j, k \in PlainRecords : j < k => word[j] < word[k]
                              /\ \A k \in PlainRecords : data[k].argument = argv[word[k]]
                        /\ does \notin {"nothing", "show_help", "internal_error"} =>
                              \E first \in WordsTakenFor("option") :
                                 /\ \A i \in WordsTakenFor("option") : first <= i
                                 /\ AsksFor(argv[first], does)
      BY DEF LineUnderstood, AsksFor
    <2>1. RolesSoFar /\ PlainSoFar /\ FirstSoFar
      BY <1>1 DEF ArgInv
    <2>2. \A i \in DOMAIN argv : Cardinality(role[i]) = 1
      <3>1. \A i \in DOMAIN argv : \E x \in Kinds : role[i] = {x}
        BY <2>1 DEF RolesSoFar
      <3>2. \A x : Cardinality({x}) = 1
        BY FS_Singleton
      <3> QED
        BY <3>1, <3>2
    <2>3. PlainRecords = PlainIn(data) /\ WordsTakenFor("plain") = PlainWords
          /\ WordsTakenFor("option") = OptionWords
      BY DEF PlainRecords, PlainIn, WordsTakenFor, PlainWords, OptionWords
    <2>4. PICK f : HandedBy(f, Arguments(data), PlainIn(data), PlainWords, argv)
      BY <2>1 DEF PlainSoFar, Handed
    <2>5. f \in Surjection(PlainIn(data), PlainWords)
      BY <2>4 DEF HandedBy, Surjection
    <2>6. /\ \A j, k \in PlainIn(data) : j < k => f[j] < f[k]
          /\ \A k \in PlainIn(data) : data[k].argument = argv[f[k]]
      <3>1. \A k \in PlainIn(data) : Arguments(data)[k] = data[k].argument
        BY DEF PlainIn, Arguments
      <3> QED
        BY <2>4, <3>1 DEF HandedBy
    <2>7. does \notin {"nothing", "show_help", "internal_error"} => FirstAsks(does)
      BY <2>1 DEF FirstSoFar
    <2> QED
      BY <2>2, <2>3, <2>5, <2>6, <2>7 DEF FirstAsks
  <1> QED
    BY <1>1, LineInvariant, PTL

(* Every variable of the parser stays in its type.                         *)
THEOREM ArgTypeCorrect == ArgSpec => []ArgTypeOK
  <1>1. ASSUME ArgInv PROVE ArgTypeOK
    <2>1. LineType /\ AtPlace /\ RolesSoFar
      BY <1>1 DEF ArgInv
    <2>2. Len(argv) \in Nat
      BY <2>1, WordsAre
    <2>3. argind \in 1..(Len(argv) + 1) /\ cind \in Nat
      BY <2>1, <2>2 DEF AtPlace
    <2>4. \A k \in DOMAIN data : DOMAIN data[k] = {"code", "argument"}
      <3>1. PICK R : R = Records
        OBVIOUS
      <3>2. data \in Seq(R)
        BY <2>1, <3>1 DEF LineType
      <3>3. \A k \in DOMAIN data : data[k] \in R
        BY <3>2
      <3>4. \A rec \in Records : DOMAIN rec = {"code", "argument"}
        BY DEF Records
      <3> QED
        BY <3>1, <3>3, <3>4
    <2>5. /\ argv \in CommandLines /\ in_order \in BOOLEAN
          /\ parser \in {"words", "end", "done", "undefined"}
          /\ role \in [DOMAIN argv -> SUBSET {"option", "argument", "plain", "end_of_options"}]
      BY <2>1 DEF LineType, RolesSoFar, Kinds
    <2> QED
      BY <2>3, <2>4, <2>5 DEF ArgTypeOK
  <1> QED
    BY <1>1, LineInvariant, PTL

-----------------------------------------------------------------------------
(* The release of the sources (FormatSource).                              *)

(* The lines of a file, and what the passes leave of them.                 *)

Contents0 == Seq(Lines)
Dones == [bskip : BOOLEAN, os : Contents0]

(* A block for Windows is open behind a line.                              *)
Open(c, i) ==
    \E a \in 1..i : c[a] = "ifdef_WINDOWS" /\ \A m \in (a + 1)..i : c[m] # "endif_WINDOWS"

(* The lines that the first pass keeps, and those that the third keeps.    *)
OutsideWindows(c, i) == {k \in 1..i : ~Open(c, k - 1) /\ c[k] # "ifdef_WINDOWS"}
NotOfLinux(c, i) == {k \in 1..i : c[k] \notin {"ifdef_LINUX", "endif_LINUX"}}

(* A sequence has the lines at these places.                               *)
Keeps(os, places, c) == os \in Contents0 /\ Handed(os, 1..Len(os), places, c)

(* A content, and the numbers of its lines.                                *)
LEMMA ContentIsSeq ==
    ASSUME NEW c \in Contents0
    PROVE  Len(c) \in Nat /\ DOMAIN c = 1..Len(c) /\ \A k \in 1..Len(c) : c[k] \in Lines
  <1>1. PICK L : L = Lines
    OBVIOUS
  <1>2. c \in Seq(L)
    BY <1>1 DEF Contents0
  <1> QED
    BY <1>1, <1>2

(* One line more is kept.                                                  *)
LEMMA KeepsOneMore ==
    ASSUME NEW os, NEW places, NEW c, Keeps(os, places, c), places \subseteq Nat,
           NEW h \in Nat, \A i \in places : i < h, c[h] \in Lines,
           NEW x, x = Append(os, c[h])
    PROVE  Keeps(x, places \cup {h}, c)
  <1>1. os \in Contents0 /\ Handed(os, 1..Len(os), places, c)
    BY DEF Keeps
  <1>2. PICK L, y : L = Lines /\ y = c[h]
    OBVIOUS
  <1>3. os \in Seq(L) /\ y \in L /\ x = Append(os, y)
    BY <1>1, <1>2 DEF Contents0
  <1>4. /\ x \in Seq(L) /\ Len(os) \in Nat /\ Len(x) = Len(os) + 1
        /\ x[Len(os) + 1] = y /\ \A k \in 1..Len(os) : x[k] = os[k]
    BY <1>3
  <1>5. PICK n \in Nat : n = Len(os) + 1
    BY <1>4
  <1>6. PICK T : T = 1..Len(os)
    OBVIOUS
  <1>7. T \subseteq Nat /\ \A k \in T : k < n
    BY <1>4, <1>5, <1>6
  <1>8. x[n] = c[h] /\ \A k \in T : x[k] = os[k]
    BY <1>2, <1>4, <1>5, <1>6
  <1>9. Handed(os, T, places, c)
    BY <1>1, <1>6
  <1>10. Handed(x, T \cup {n}, places \cup {h}, c)
    BY <1>7, <1>8, <1>9, HandOne
  <1>11. T \cup {n} = 1..Len(x)
    BY <1>4, <1>5, <1>6
  <1>12. x \in Contents0
    BY <1>2, <1>4 DEF Contents0
  <1> QED
    BY <1>10, <1>11, <1>12 DEF Keeps

(* A block is open behind the next line, if that line opens it, or it was  *)
(* open and the line does not close it.                                    *)
LEMMA OpenNext ==
    ASSUME NEW c \in Contents0, NEW i \in Nat
    PROVE  Open(c, i + 1) <=>
              \/ c[i + 1] = "ifdef_WINDOWS"
              \/ Open(c, i) /\ c[i + 1] # "endif_WINDOWS"
  <1>1. ASSUME Open(c, i + 1), c[i + 1] # "ifdef_WINDOWS"
        PROVE  Open(c, i) /\ c[i + 1] # "endif_WINDOWS"
    <2>1. PICK a \in 1..(i + 1) : /\ c[a] = "ifdef_WINDOWS"
                                  /\ \A m \in (a + 1)..(i + 1) : c[m] # "endif_WINDOWS"
      BY <1>1 DEF Open
    <2>2. a # i + 1
      BY <1>1, <2>1
    <2>3. a \in 1..i /\ i + 1 \in (a + 1)..(i + 1)
          /\ \A m \in (a + 1)..i : m \in (a + 1)..(i + 1)
      BY <2>2
    <2> QED
      BY <2>1, <2>3 DEF Open
  <1>2. ASSUME c[i + 1] = "ifdef_WINDOWS" PROVE Open(c, i + 1)
    <2>1. i + 1 \in 1..(i + 1) /\ ((i + 1) + 1)..(i + 1) = {}
      OBVIOUS
    <2> QED
      BY <1>2, <2>1 DEF Open
  <1>3. ASSUME Open(c, i), c[i + 1] # "endif_WINDOWS" PROVE Open(c, i + 1)
    <2>1. PICK a \in 1..i : /\ c[a] = "ifdef_WINDOWS"
                            /\ \A m \in (a + 1)..i : c[m] # "endif_WINDOWS"
      BY <1>3 DEF Open
    <2>2. a \in 1..(i + 1) /\ \A m \in (a + 1)..(i + 1) : m = i + 1 \/ m \in (a + 1)..i
      OBVIOUS
    <2> QED
      BY <1>3, <2>1, <2>2 DEF Open
  <1> QED
    BY <1>1, <1>2, <1>3

(* One line through the first pass.                                        *)
FirstSoFarKeeps(done, c, i) ==
    /\ done.bskip = Open(c, i)
    /\ Keeps(done.os, OutsideWindows(c, i), c)

(* One line more, in the first pass.                                       *)
LEMMA ByLineDoes ==
    ASSUME NEW c \in Contents0, NEW i \in Nat, i + 1 <= Len(c),
           NEW done \in Dones, FirstSoFarKeeps(done, c, i)
    PROVE  /\ ByLine(done, c[i + 1]) \in Dones
           /\ FirstSoFarKeeps(ByLine(done, c[i + 1]), c, i + 1)
  <1>0. Len(c) \in Nat /\ \A k \in 1..Len(c) : c[k] \in Lines
    BY ContentIsSeq
  <1>1. PICK h \in Nat : h = i + 1
    OBVIOUS
  <1>2. PICK line : line = c[h]
    OBVIOUS
  <1>3. line \in Lines
    BY <1>0, <1>1, <1>2
  <1>4. PICK P, Q : P = OutsideWindows(c, i) /\ Q = OutsideWindows(c, h)
    OBVIOUS
  <1>5. P \subseteq Nat /\ (\A k \in P : k < h)
        /\ Q = IF Open(c, i) \/ line = "ifdef_WINDOWS" THEN P ELSE P \cup {h}
    <2>1. h - 1 = i /\ 1..h = 1..i \cup {h} /\ \A k \in 1..i : k \in Nat /\ k < h
      BY <1>1
    <2> QED
      BY <1>2, <1>4, <2>1 DEF OutsideWindows
  <1>6. done.bskip = Open(c, i) /\ Keeps(done.os, P, c)
    BY <1>4 DEF FirstSoFarKeeps
  <1>7. done = [bskip |-> done.bskip, os |-> done.os] /\ done.bskip \in BOOLEAN
        /\ done.os \in Contents0
    BY DEF Dones
  <1>8. PICK q : q = ByLine(done, line)
    OBVIOUS
  <1>9. Open(c, h) <=> (line = "ifdef_WINDOWS" \/ (Open(c, i) /\ line # "endif_WINDOWS"))
    BY <1>1, <1>2, OpenNext
  <1>10. Open(c, h) \in BOOLEAN /\ Open(c, i) \in BOOLEAN
    BY DEF Open
  <1>11. CASE done.bskip /\ line # "ifdef_WINDOWS"
    <2>1. q = [bskip |-> ~(line = "endif_WINDOWS"), os |-> done.os]
      BY <1>7, <1>8, <1>11 DEF ByLine, EndsBlock
    <2>2. q.bskip = ~(line = "endif_WINDOWS") /\ q.os = done.os /\ q \in Dones
      BY <1>7, <2>1 DEF Dones
    <2>3. Open(c, i)
      BY <1>6, <1>11
    <2>4. q.bskip = Open(c, h)
      BY <1>9, <1>10, <1>11, <2>2, <2>3
    <2>5. Q = P
      BY <1>5, <2>3
    <2>6. FirstSoFarKeeps(q, c, h)
      BY <1>4, <1>6, <2>2, <2>4, <2>5 DEF FirstSoFarKeeps
    <2> QED
      BY <1>1, <1>2, <1>8, <2>2, <2>6
  <1>12. CASE line = "ifdef_WINDOWS"
    <2>1. q = [bskip |-> TRUE, os |-> done.os]
      BY <1>7, <1>8, <1>12 DEF ByLine
    <2>2. q.bskip = TRUE /\ q.os = done.os /\ q \in Dones
      BY <1>7, <2>1 DEF Dones
    <2>3. q.bskip = Open(c, h)
      BY <1>9, <1>10, <1>12, <2>2
    <2>4. Q = P
      BY <1>5, <1>12
    <2>5. FirstSoFarKeeps(q, c, h)
      BY <1>4, <1>6, <2>2, <2>3, <2>4 DEF FirstSoFarKeeps
    <2> QED
      BY <1>1, <1>2, <1>8, <2>2, <2>5
  <1>13. CASE ~done.bskip /\ line # "ifdef_WINDOWS"
    <2>1. q = [bskip |-> FALSE, os |-> Append(done.os, line)]
      <3>1. done.bskip = FALSE
        BY <1>7, <1>13
      <3> QED
        BY <1>7, <1>8, <1>13, <3>1 DEF ByLine
    <2>2. ~Open(c, i)
      BY <1>6, <1>13
    <2>3. Q = P \cup {h}
      BY <1>5, <1>13, <2>2
    <2>4. Keeps(Append(done.os, line), P \cup {h}, c)
      BY <1>2, <1>3, <1>5, <1>6, KeepsOneMore
    <2>5. q.bskip = FALSE /\ q.os = Append(done.os, line)
      BY <2>1
    <2>6. q \in Dones
      BY <2>1, <2>4 DEF Keeps, Dones
    <2>7. q.bskip = Open(c, h)
      BY <1>9, <1>10, <1>13, <2>2, <2>5
    <2>8. FirstSoFarKeeps(q, c, h)
      BY <1>4, <2>3, <2>4, <2>5, <2>7 DEF FirstSoFarKeeps
    <2> QED
      BY <1>1, <1>2, <1>8, <2>6, <2>8
  <1> QED
    BY <1>11, <1>12, <1>13

(* One line through the third.                                             *)
LEMMA ByLineOfLinuxDoes ==
    ASSUME NEW c \in Contents0, NEW i \in Nat, i + 1 <= Len(c),
           NEW os, Keeps(os, NotOfLinux(c, i), c)
    PROVE  Keeps(ByLineOfLinux(os, c[i + 1]), NotOfLinux(c, i + 1), c)
  <1>0. Len(c) \in Nat /\ \A k \in 1..Len(c) : c[k] \in Lines
    BY ContentIsSeq
  <1>1. PICK h \in Nat : h = i + 1
    OBVIOUS
  <1>2. c[h] \in Lines
    BY <1>0, <1>1
  <1>3. PICK P : P = NotOfLinux(c, i)
    OBVIOUS
  <1>4. P \subseteq Nat /\ (\A k \in P : k < h)
        /\ NotOfLinux(c, h) = IF c[h] \in {"ifdef_LINUX", "endif_LINUX"} THEN P ELSE P \cup {h}
    <2>1. 1..h = 1..i \cup {h} /\ \A k \in 1..i : k \in Nat /\ k < h
      BY <1>1
    <2> QED
      BY <1>3, <2>1 DEF NotOfLinux
  <1>5. CASE c[h] \in {"ifdef_LINUX", "endif_LINUX"}
    BY <1>1, <1>3, <1>4, <1>5 DEF ByLineOfLinux
  <1>6. CASE c[h] \notin {"ifdef_LINUX", "endif_LINUX"}
    <2>1. ByLineOfLinux(os, c[h]) = Append(os, c[h])
      BY <1>6 DEF ByLineOfLinux
    <2>2. Keeps(Append(os, c[h]), P \cup {h}, c)
      BY <1>2, <1>3, <1>4, KeepsOneMore
    <2> QED
      BY <1>1, <1>4, <1>6, <2>1, <2>2
  <1> QED
    BY <1>5, <1>6

-----------------------------------------------------------------------------
(* A fold over the lines of a file, as a function over sets of positions.  *)
WindowsAt(g, c, s) ==
    IF s = {} THEN [bskip |-> FALSE, os |-> << >>] ELSE ByLine(g[s \ {Max(s)}], c[Max(s)])
TheWindows(c) == CHOOSE g : g = [s \in SUBSET DOMAIN c |-> WindowsAt(g, c, s)]

LinuxAt(g, c, s) == IF s = {} THEN << >> ELSE ByLineOfLinux(g[s \ {Max(s)}], c[Max(s)])
TheLinux(c) == CHOOSE g : g = [s \in SUBSET DOMAIN c |-> LinuxAt(g, c, s)]

(* What each pass makes of a file is such a fold.                          *)
LEMMA WindowsIsFold == ASSUME NEW c PROVE WithoutWindows(c) = TheWindows(c)[DOMAIN c].os
  BY Zenon DEF WithoutWindows, FoldLeft, MapThenFoldSet, TheWindows, WindowsAt

(* So in the third pass.                                                   *)
LEMMA LinuxIsFold == ASSUME NEW c PROVE WithoutLinux(c) = TheLinux(c)[DOMAIN c]
  BY Zenon DEF WithoutLinux, FoldLeft, MapThenFoldSet, TheLinux, LinuxAt

(* The first pass, line after line.                                        *)
LEMMA WindowsSteps ==
    ASSUME NEW c \in Contents0
    PROVE  \E r : /\ r[0] = [bskip |-> FALSE, os |-> << >>]
                  /\ WithoutWindows(c) = r[Len(c)].os
                  /\ \A i \in 1..Len(c) : r[i] = ByLine(r[i - 1], c[i])
  <1>1. PICK n : n = Len(c)
    OBVIOUS
  <1>2. n \in Nat /\ DOMAIN c = 1..n /\ \A i \in 1..n : c[i] \in Lines
    BY <1>1, ContentIsSeq
  <1>3. PICK base : base = [bskip |-> FALSE, os |-> << >>]
    OBVIOUS
  <1>4. base \in Dones
    <2>1. << >> \in Contents0
      BY DEF Contents0
    <2> QED
      BY <1>3, <2>1 DEF Dones
  <1>5. ASSUME NEW d \in Dones, NEW line \in Lines PROVE ByLine(d, line) \in Dones
    <2>1. d.bskip \in BOOLEAN /\ d.os \in Contents0 /\ d = [bskip |-> d.bskip, os |-> d.os]
      BY DEF Dones
    <2>2. Append(d.os, line) \in Contents0
      BY <2>1 DEF Contents0
    <2>3. CASE d.bskip /\ line # "ifdef_WINDOWS"
      <3>1. ByLine(d, line) = [bskip |-> ~(line = "endif_WINDOWS"), os |-> d.os]
        BY <2>1, <2>3 DEF ByLine, EndsBlock
      <3> QED
        BY <2>1, <3>1 DEF Dones
    <2>4. CASE line = "ifdef_WINDOWS"
      <3>1. ByLine(d, line) = [bskip |-> TRUE, os |-> d.os]
        BY <2>1, <2>4 DEF ByLine
      <3> QED
        BY <2>1, <3>1 DEF Dones
    <2>5. CASE ~d.bskip /\ line # "ifdef_WINDOWS"
      <3>1. ByLine(d, line) = [bskip |-> d.bskip, os |-> Append(d.os, line)]
        BY <2>1, <2>5 DEF ByLine
      <3> QED
        BY <2>1, <2>2, <3>1 DEF Dones
    <2> QED
      BY <2>3, <2>4, <2>5
  <1>6. PICK step : step = [x \in Dones \X (1..n) |-> ByLine(x[1], c[x[2]])]
    OBVIOUS
  <1>7. step \in [Dones \X (1..n) -> Dones]
    <2>1. ASSUME NEW x \in Dones \X (1..n) PROVE ByLine(x[1], c[x[2]]) \in Dones
      <3>1. x[1] \in Dones /\ x[2] \in 1..n
        OBVIOUS
      <3>2. c[x[2]] \in Lines
        BY <1>2, <3>1
      <3> QED
        BY <1>5, <3>1, <3>2
    <2> QED
      BY <1>6, <2>1
  <1>8. PICK g \in [SUBSET (1..n) -> Dones] : FoldsTo(g, n, base, step)
    BY <1>2, <1>4, <1>7, FoldExists
  <1>9. ASSUME NEW s \in SUBSET (1..n) PROVE g[s] = WindowsAt(g, c, s)
    <2>1. CASE s = {}
      BY <1>3, <1>8, <2>1 DEF FoldsTo, WindowsAt
    <2>2. CASE s # {}
      <3>1. Max(s) \in s
        <4>1. s \subseteq 0..n
          OBVIOUS
        <4> QED
          BY <1>2, <2>2, <4>1, MaxIs
      <3>2. s \ {Max(s)} \in SUBSET (1..n) /\ Max(s) \in 1..n
        BY <3>1
      <3>3. <<g[s \ {Max(s)}], Max(s)>> \in Dones \X (1..n)
        BY <1>8, <3>2
      <3>4. step[<<g[s \ {Max(s)}], Max(s)>>] = ByLine(g[s \ {Max(s)}], c[Max(s)])
        BY <1>6, <3>3
      <3> QED
        BY <1>8, <2>2, <3>4 DEF FoldsTo, WindowsAt
    <2> QED
      BY <2>1, <2>2
  <1>10. g = [s \in SUBSET DOMAIN c |-> WindowsAt(g, c, s)]
    BY <1>2, <1>8, <1>9
  <1>11. TheWindows(c) = [s \in SUBSET DOMAIN c |-> WindowsAt(TheWindows(c), c, s)]
    BY <1>10 DEF TheWindows
  <1>12. PICK it : it = TheWindows(c)
    OBVIOUS
  <1>13. \A s \in SUBSET (1..n) : it[s] = WindowsAt(it, c, s)
    BY <1>2, <1>11, <1>12
  <1>14. PICK r : r = [i \in 0..n |-> it[1..i]]
    OBVIOUS
  <1>15. r[0] = base
    <2>1. 1..0 = {} /\ {} \in SUBSET (1..n) /\ 0 \in 0..n
      BY <1>2
    <2> QED
      BY <1>3, <1>13, <1>14, <2>1 DEF WindowsAt
  <1>16. ASSUME NEW i \in 1..n PROVE r[i] = ByLine(r[i - 1], c[i])
    <2>1. i \in Nat /\ i > 0 /\ i \in 0..n /\ i - 1 \in 0..n /\ 1..i \in SUBSET (1..n)
      BY <1>2
    <2>2. 1..i # {} /\ Max(1..i) = i /\ (1..i) \ {Max(1..i)} = 1..(i - 1)
      BY <2>1, LastOfFirst
    <2>3. it[1..i] = ByLine(it[1..(i - 1)], c[i])
      BY <1>13, <2>1, <2>2 DEF WindowsAt
    <2> QED
      BY <1>14, <2>1, <2>3
  <1>17. WithoutWindows(c) = r[n].os
    <2>1. n \in 0..n
      BY <1>2
    <2> QED
      BY <1>2, <1>12, <1>14, <2>1, WindowsIsFold
  <1> QED
    BY <1>1, <1>3, <1>15, <1>16, <1>17

(* The third.                                                              *)
LEMMA LinuxSteps ==
    ASSUME NEW c \in Contents0
    PROVE  \E r : /\ r[0] = << >> /\ WithoutLinux(c) = r[Len(c)]
                  /\ \A i \in 1..Len(c) : r[i] = ByLineOfLinux(r[i - 1], c[i])
  <1>1. PICK n : n = Len(c)
    OBVIOUS
  <1>2. n \in Nat /\ DOMAIN c = 1..n /\ \A i \in 1..n : c[i] \in Lines
    BY <1>1, ContentIsSeq
  <1>3. << >> \in Contents0
    BY DEF Contents0
  <1>4. ASSUME NEW d \in Contents0, NEW line \in Lines PROVE ByLineOfLinux(d, line) \in Contents0
    <2>1. Append(d, line) \in Contents0
      BY DEF Contents0
    <2> QED
      BY <2>1 DEF ByLineOfLinux
  <1>5. PICK step : step = [x \in Contents0 \X (1..n) |-> ByLineOfLinux(x[1], c[x[2]])]
    OBVIOUS
  <1>6. step \in [Contents0 \X (1..n) -> Contents0]
    <2>1. ASSUME NEW x \in Contents0 \X (1..n) PROVE ByLineOfLinux(x[1], c[x[2]]) \in Contents0
      <3>1. x[1] \in Contents0 /\ x[2] \in 1..n
        OBVIOUS
      <3>2. c[x[2]] \in Lines
        BY <1>2, <3>1
      <3> QED
        BY <1>4, <3>1, <3>2
    <2> QED
      BY <1>5, <2>1
  <1>7. PICK g \in [SUBSET (1..n) -> Contents0] : FoldsTo(g, n, << >>, step)
    BY <1>2, <1>3, <1>6, FoldExists
  <1>8. ASSUME NEW s \in SUBSET (1..n) PROVE g[s] = LinuxAt(g, c, s)
    <2>1. CASE s = {}
      BY <1>7, <2>1 DEF FoldsTo, LinuxAt
    <2>2. CASE s # {}
      <3>1. Max(s) \in s
        <4>1. s \subseteq 0..n
          OBVIOUS
        <4> QED
          BY <1>2, <2>2, <4>1, MaxIs
      <3>2. s \ {Max(s)} \in SUBSET (1..n) /\ Max(s) \in 1..n
        BY <3>1
      <3>3. <<g[s \ {Max(s)}], Max(s)>> \in Contents0 \X (1..n)
        BY <1>7, <3>2
      <3>4. step[<<g[s \ {Max(s)}], Max(s)>>] = ByLineOfLinux(g[s \ {Max(s)}], c[Max(s)])
        BY <1>5, <3>3
      <3> QED
        BY <1>7, <2>2, <3>4 DEF FoldsTo, LinuxAt
    <2> QED
      BY <2>1, <2>2
  <1>9. g = [s \in SUBSET DOMAIN c |-> LinuxAt(g, c, s)]
    BY <1>2, <1>7, <1>8
  <1>10. TheLinux(c) = [s \in SUBSET DOMAIN c |-> LinuxAt(TheLinux(c), c, s)]
    BY <1>9 DEF TheLinux
  <1>11. PICK it : it = TheLinux(c)
    OBVIOUS
  <1>12. \A s \in SUBSET (1..n) : it[s] = LinuxAt(it, c, s)
    BY <1>2, <1>10, <1>11
  <1>13. PICK r : r = [i \in 0..n |-> it[1..i]]
    OBVIOUS
  <1>14. r[0] = << >>
    <2>1. 1..0 = {} /\ {} \in SUBSET (1..n) /\ 0 \in 0..n
      BY <1>2
    <2> QED
      BY <1>12, <1>13, <2>1 DEF LinuxAt
  <1>15. ASSUME NEW i \in 1..n PROVE r[i] = ByLineOfLinux(r[i - 1], c[i])
    <2>1. i \in Nat /\ i > 0 /\ i \in 0..n /\ i - 1 \in 0..n /\ 1..i \in SUBSET (1..n)
      BY <1>2
    <2>2. 1..i # {} /\ Max(1..i) = i /\ (1..i) \ {Max(1..i)} = 1..(i - 1)
      BY <2>1, LastOfFirst
    <2>3. it[1..i] = ByLineOfLinux(it[1..(i - 1)], c[i])
      BY <1>12, <2>1, <2>2 DEF LinuxAt
    <2> QED
      BY <1>13, <2>1, <2>3
  <1>16. WithoutLinux(c) = r[n]
    <2>1. n \in 0..n
      BY <1>2
    <2> QED
      BY <1>2, <1>11, <1>13, <2>1, LinuxIsFold
  <1> QED
    BY <1>1, <1>14, <1>15, <1>16

(* What the first pass keeps.                                              *)
LEMMA WindowsKeeps ==
    ASSUME NEW c \in Contents0
    PROVE  Keeps(WithoutWindows(c), OutsideWindows(c, Len(c)), c)
  <1>1. PICK r : /\ r[0] = [bskip |-> FALSE, os |-> << >>]
                 /\ WithoutWindows(c) = r[Len(c)].os
                 /\ \A i \in 1..Len(c) : r[i] = ByLine(r[i - 1], c[i])
    BY WindowsSteps
  <1>2. Len(c) \in Nat
    BY ContentIsSeq
  <1> DEFINE Holds(i) == r[i] \in Dones /\ FirstSoFarKeeps(r[i], c, i)
             T == {i \in Nat : i <= Len(c) => Holds(i)}
  <1>3. Holds(0)
    <2>1. << >> \in Contents0 /\ Len(<< >>) = 0 /\ 1..0 = {}
      BY DEF Contents0
    <2>2. r[0].bskip = FALSE /\ r[0].os = << >> /\ r[0] \in Dones
      BY <1>1, <2>1 DEF Dones
    <2>3. Open(c, 0) = FALSE
      BY <2>1 DEF Open
    <2>4. OutsideWindows(c, 0) = {}
      BY <2>1 DEF OutsideWindows
    <2>5. Keeps(<< >>, {}, c)
      BY <2>1, HandNothing DEF Keeps
    <2> QED
      BY <2>2, <2>3, <2>4, <2>5 DEF FirstSoFarKeeps
  <1>4. ASSUME NEW i \in Nat, i + 1 <= Len(c), Holds(i) PROVE Holds(i + 1)
    <2>1. i + 1 \in 1..Len(c) /\ (i + 1) - 1 = i
      BY <1>2, <1>4
    <2>2. r[i + 1] = ByLine(r[i], c[i + 1])
      BY <1>1, <2>1
    <2>3. r[i] \in Dones /\ FirstSoFarKeeps(r[i], c, i)
      BY <1>4
    <2>4. /\ ByLine(r[i], c[i + 1]) \in Dones
          /\ FirstSoFarKeeps(ByLine(r[i], c[i + 1]), c, i + 1)
      BY <1>4, <2>3, ByLineDoes
    <2> QED
      BY <2>2, <2>4
  <1> HIDE DEF Holds
  <1>5. 0 \in T
    BY <1>3
  <1>6. ASSUME NEW i \in Nat, i \in T PROVE i + 1 \in T
    <2>1. i + 1 \in Nat /\ (i + 1 <= Len(c) => i <= Len(c))
      BY <1>2
    <2>2. i <= Len(c) => Holds(i)
      BY <1>6
    <2>3. i + 1 <= Len(c) => Holds(i + 1)
      BY <1>4, <2>1, <2>2
    <2> QED
      BY <2>1, <2>3
  <1>7. Len(c) \in T
    <2> HIDE DEF T
    <2> QED
      BY <1>2, <1>5, <1>6, AllNumbers
  <1>8. Holds(Len(c))
    BY <1>2, <1>7
  <1> QED
    BY <1>1, <1>8 DEF Holds, FirstSoFarKeeps

(* What the third keeps.                                                   *)
LEMMA LinuxKeeps ==
    ASSUME NEW c \in Contents0
    PROVE  Keeps(WithoutLinux(c), NotOfLinux(c, Len(c)), c)
  <1>1. PICK r : /\ r[0] = << >> /\ WithoutLinux(c) = r[Len(c)]
                 /\ \A i \in 1..Len(c) : r[i] = ByLineOfLinux(r[i - 1], c[i])
    BY LinuxSteps
  <1>2. Len(c) \in Nat
    BY ContentIsSeq
  <1> DEFINE Holds(i) == Keeps(r[i], NotOfLinux(c, i), c)
             T == {i \in Nat : i <= Len(c) => Holds(i)}
  <1>3. Holds(0)
    <2>1. << >> \in Contents0 /\ Len(<< >>) = 0 /\ 1..0 = {}
      BY DEF Contents0
    <2>2. NotOfLinux(c, 0) = {}
      BY <2>1 DEF NotOfLinux
    <2>3. Keeps(<< >>, {}, c)
      BY <2>1, HandNothing DEF Keeps
    <2> QED
      BY <1>1, <2>2, <2>3
  <1>4. ASSUME NEW i \in Nat, i + 1 <= Len(c), Holds(i) PROVE Holds(i + 1)
    <2>1. i + 1 \in 1..Len(c) /\ (i + 1) - 1 = i
      BY <1>2, <1>4
    <2>2. r[i + 1] = ByLineOfLinux(r[i], c[i + 1])
      BY <1>1, <2>1
    <2>3. Keeps(ByLineOfLinux(r[i], c[i + 1]), NotOfLinux(c, i + 1), c)
      BY <1>4, ByLineOfLinuxDoes
    <2> QED
      BY <2>2, <2>3
  <1> HIDE DEF Holds
  <1>5. 0 \in T
    BY <1>3
  <1>6. ASSUME NEW i \in Nat, i \in T PROVE i + 1 \in T
    <2>1. i + 1 \in Nat /\ (i + 1 <= Len(c) => i <= Len(c))
      BY <1>2
    <2>2. i <= Len(c) => Holds(i)
      BY <1>6
    <2>3. i + 1 <= Len(c) => Holds(i + 1)
      BY <1>4, <2>1, <2>2
    <2> QED
      BY <2>1, <2>3
  <1>7. Len(c) \in T
    <2> HIDE DEF T
    <2> QED
      BY <1>2, <1>5, <1>6, AllNumbers
  <1>8. Holds(Len(c))
    BY <1>2, <1>7
  <1> QED
    BY <1>1, <1>8 DEF Holds

-----------------------------------------------------------------------------
(* What both passes leave is what the preprocessor leaves.                 *)

(* What is handed on of what was handed on.                                *)
LEMMA HandThrough ==
    ASSUME NEW V, NEW S, NEW P, NEW a, NEW D, NEW Q, NEW c, NEW g,
           Handed(V, S, P, a), HandedBy(g, a, D, Q, c), P \subseteq D
    PROVE  Handed(V, S, {g[i] : i \in P}, c)
  <1>1. PICK f : HandedBy(f, V, S, P, a)
    BY DEF Handed
  <1>2. PICK h : h = [k \in S |-> g[f[k]]]
    OBVIOUS
  <1>3. \A k \in S : f[k] \in P /\ f[k] \in D /\ h[k] = g[f[k]]
    BY <1>1, <1>2 DEF HandedBy
  <1>4. h \in [S -> {g[i] : i \in P}]
    BY <1>2, <1>3
  <1>5. \A i \in {g[x] : x \in P} : \E k \in S : h[k] = i
    BY <1>1, <1>3 DEF HandedBy
  <1>6. \A j, k \in S : j < k => h[j] < h[k]
    BY <1>1, <1>3 DEF HandedBy
  <1>7. \A k \in S : V[k] = c[h[k]]
    BY <1>1, <1>3 DEF HandedBy
  <1> QED
    BY <1>4, <1>5, <1>6, <1>7 DEF Handed, HandedBy

(* The first n of places that increase are n.                              *)
Increases(f, L, K) ==
    /\ f \in [1..L -> K] /\ K \subseteq Nat
    /\ \A j, k \in 1..L : j < k => f[j] < f[k]

FirstPlaces(f, n) == {f[j] : j \in 1..n}

(* They are as many as their numbers.                                      *)
LEMMA FirstOnes ==
    ASSUME NEW L \in Nat, NEW f, NEW K, Increases(f, L, K), NEW n \in Nat, n <= L
    PROVE  IsFiniteSet(FirstPlaces(f, n)) /\ Cardinality(FirstPlaces(f, n)) = n
  <1>0. f \in [1..L -> K] /\ K \subseteq Nat /\ \A j, k \in 1..L : j < k => f[j] < f[k]
    BY DEF Increases
  <1> DEFINE Counted(m) == /\ IsFiniteSet({f[j] : j \in 1..m})
                           /\ Cardinality({f[j] : j \in 1..m}) = m
             T == {m \in Nat : m <= L => Counted(m)}
  <1>1. Counted(0)
    <2>1. {f[j] : j \in 1..0} = {}
      OBVIOUS
    <2> QED
      BY <2>1, FS_EmptySet
  <1>2. ASSUME NEW m \in Nat, m + 1 <= L, Counted(m) PROVE Counted(m + 1)
    <2>1. PICK A : A = {f[j] : j \in 1..m}
      OBVIOUS
    <2>2. IsFiniteSet(A) /\ Cardinality(A) = m
      BY <1>2, <2>1
    <2>3. f[m + 1] \notin A
      <3> SUFFICES ASSUME NEW j \in 1..m, f[j] = f[m + 1] PROVE FALSE
        BY <2>1
      <3>1. j \in 1..L /\ m + 1 \in 1..L /\ j < m + 1
        BY <1>2
      <3>2. f[j] < f[m + 1] /\ f[j] \in Nat
        BY <1>0, <3>1
      <3> QED
        BY <3>2
    <2>4. {f[j] : j \in 1..(m + 1)} = A \cup {f[m + 1]}
      <3>1. 1..(m + 1) = 1..m \cup {m + 1}
        OBVIOUS
      <3> QED
        BY <2>1, <3>1
    <2>5. IsFiniteSet(A \cup {f[m + 1]}) /\ Cardinality(A \cup {f[m + 1]}) = m + 1
      BY <2>2, <2>3, FS_AddElement
    <2> QED
      BY <2>4, <2>5
  <1> HIDE DEF Counted
  <1>3. 0 \in T
    BY <1>1
  <1>4. ASSUME NEW m \in Nat, m \in T PROVE m + 1 \in T
    <2>1. m + 1 \in Nat /\ (m + 1 <= L => m <= L)
      OBVIOUS
    <2>2. m <= L => Counted(m)
      BY <1>4
    <2>3. m + 1 <= L => Counted(m + 1)
      BY <1>2, <2>1, <2>2
    <2> QED
      BY <2>1, <2>3
  <1>5. n \in T
    <2> HIDE DEF T
    <2> QED
      BY <1>3, <1>4, AllNumbers
  <1>6. Counted(n)
    BY <1>5
  <1> QED
    BY <1>6 DEF Counted, FirstPlaces

(* The places in their order, as the model counts them.                    *)
PlaceOf(K, m) == CHOOSE k \in K : Cardinality({i \in K : i <= k}) = m

(* What is handed on in order is what the n-th place has, for each n.      *)
LEMMA CountedIs ==
    ASSUME NEW V \in Contents0, NEW K, K \subseteq Nat, NEW c, Handed(V, 1..Len(V), K, c)
    PROVE  V = [m \in 1..Cardinality(K) |-> c[PlaceOf(K, m)]]
  <1>1. PICK L : L = Len(V)
    OBVIOUS
  <1>2. L \in Nat /\ DOMAIN V = 1..L /\ V = [m \in 1..L |-> V[m]]
    <2>1. PICK Ls : Ls = Lines
      OBVIOUS
    <2>2. V \in Seq(Ls)
      BY <2>1 DEF Contents0
    <2> QED
      BY <1>1, <2>2
  <1>3. PICK f : HandedBy(f, V, 1..L, K, c)
    BY <1>1 DEF Handed
  <1>4. /\ f \in [1..L -> K] /\ \A i \in K : \E k \in 1..L : f[k] = i
        /\ \A j, k \in 1..L : j < k => f[j] < f[k]
        /\ \A k \in 1..L : V[k] = c[f[k]]
    BY <1>3 DEF HandedBy
  <1>0. Increases(f, L, K)
    BY <1>4 DEF Increases
  <1>5. Cardinality(K) = L
    <2>1. K = FirstPlaces(f, L)
      BY <1>4 DEF FirstPlaces
    <2>2. L <= L
      BY <1>2
    <2>3. Cardinality(FirstPlaces(f, L)) = L
      BY <1>0, <1>2, <2>2, FirstOnes
    <2> QED
      BY <2>1, <2>3
  <1>6. ASSUME NEW n \in 1..L PROVE Cardinality({i \in K : i <= f[n]}) = n
    <2>1. {i \in K : i <= f[n]} = FirstPlaces(f, n)
      <3>1. ASSUME NEW i \in K, i <= f[n] PROVE \E j \in 1..n : f[j] = i
        <4>1. PICK j \in 1..L : f[j] = i
          BY <1>4
        <4>2. j \in Nat /\ n \in Nat /\ f[j] \in Nat /\ f[n] \in Nat
          BY <1>2, <1>4
        <4>3. ~(n < j)
          <5>1. n < j => f[n] < f[j]
            BY <1>4
          <5> QED
            BY <3>1, <4>1, <4>2, <5>1
        <4>4. j \in 1..n
          BY <4>2, <4>3
        <4> QED
          BY <4>1, <4>4
      <3>2. ASSUME NEW j \in 1..n PROVE f[j] \in K /\ f[j] <= f[n]
        <4>1. j \in 1..L /\ (j < n \/ j = n)
          BY <1>2
        <4>2. f[j] \in K /\ f[j] \in Nat /\ f[n] \in Nat
          BY <1>4, <4>1
        <4>3. CASE j < n
          <5>1. f[j] < f[n]
            BY <1>4, <4>1, <4>3
          <5> QED
            BY <4>2, <5>1
        <4> QED
          BY <4>1, <4>2, <4>3
      <3> QED
        BY <3>1, <3>2 DEF FirstPlaces
    <2>2. n \in Nat /\ n <= L
      BY <1>2
    <2>3. Cardinality(FirstPlaces(f, n)) = n
      BY <1>0, <1>2, <2>2, FirstOnes
    <2> QED
      BY <2>1, <2>3
  <1>7. ASSUME NEW m \in 1..L PROVE PlaceOf(K, m) = f[m]
    <2>1. f[m] \in K /\ Cardinality({i \in K : i <= f[m]}) = m
      BY <1>4, <1>6
    <2>2. ASSUME NEW k \in K, Cardinality({i \in K : i <= k}) = m PROVE k = f[m]
      <3>1. PICK j \in 1..L : f[j] = k
        BY <1>4
      <3>2. Cardinality({i \in K : i <= f[j]}) = j
        BY <1>6
      <3>3. j = m
        BY <2>2, <3>1, <3>2
      <3> QED
        BY <3>1, <3>3
    <2> QED
      BY <2>1, <2>2 DEF PlaceOf
  <1>8. \A m \in 1..L : V[m] = c[PlaceOf(K, m)]
    BY <1>4, <1>7
  <1>9. V = [m \in 1..L |-> c[PlaceOf(K, m)]]
    BY <1>2, <1>8
  <1> QED
    BY <1>5, <1>9

(* The lines that a Linux compiler sees.                                   *)
BlockedAt(content, k) ==
    \E i, j \in DOMAIN content :
        /\ i < k /\ k < j
        /\ content[i] = "ifdef_WINDOWS"
        /\ content[j] = "endif_WINDOWS"
        /\ \A m \in (i + 1)..(j - 1) : content[m] # "endif_WINDOWS"
Compiled(c) == {k \in DOMAIN c : c[k] \in {"text", "long"} /\ ~BlockedAt(c, k)}

(* Blocks for Windows that end with a line that stands nowhere else, and   *)
(* none of them in another.                                                *)
Flat(c) ==
    \A k \in DOMAIN c :
        /\ c[k] = "ifdef_WINDOWS" => \E j \in DOMAIN c : k < j /\ c[j] = "endif_WINDOWS"
        /\ c[k] = "endif_WINDOWS" =>
              \E i \in DOMAIN c :
                  /\ i < k /\ c[i] = "ifdef_WINDOWS"
                  /\ \A m \in (i + 1)..(k - 1) : c[m] # "endif_WINDOWS"

(* A block has one end.                                                    *)
LEMMA OneEnd ==
    ASSUME NEW c, NEW i \in Nat, NEW j \in Nat, NEW k \in Nat, IsEnd(c, i, j), InBlock(c, i, k)
    PROVE  k <= j
  <1> SUFFICES ASSUME j < k PROVE FALSE
    OBVIOUS
  <1>1. j \in i..(k - 1)
    BY DEF IsEnd, InBlock
  <1> QED
    BY <1>1 DEF IsEnd, InBlock

(* Before its end a block holds every line after its first.                *)
LEMMA BeforeEnd ==
    ASSUME NEW c, NEW i \in Nat, NEW j \in Nat, NEW k \in Nat, IsEnd(c, i, j), i < k, k <= j
    PROVE  InBlock(c, i, k)
  <1>1. \A m \in i..(k - 1) : m \in i..(j - 1)
    OBVIOUS
  <1> QED
    BY <1>1 DEF IsEnd, InBlock

(* Where a tagged block for Windows ends.                                  *)
LEMMA WindowsEnd ==
    ASSUME NEW c \in Contents0, Compiles(c), Tagged(c),
           NEW i \in DOMAIN c, c[i] = "ifdef_WINDOWS"
    PROVE  \E j \in DOMAIN c : /\ IsEnd(c, i, j) /\ i < j /\ c[j] = "endif_WINDOWS"
                              /\ \A m \in (i + 1)..(j - 1) : c[m] # "endif_WINDOWS"
  <1>1. PICK n \in Nat : DOMAIN c = 1..n
    BY ContentIsSeq
  <1>2. PICK j \in DOMAIN c : IsEnd(c, i, j)
    BY DEF Compiles, Opens
  <1>3. i < j /\ c[j] = "endif_WINDOWS"
    BY <1>2 DEF Tagged, IsEnd, InBlock
  <1>4. ASSUME NEW m \in (i + 1)..(j - 1), c[m] = "endif_WINDOWS" PROVE FALSE
    <2>1. m \in DOMAIN c /\ i < m /\ m < j
      BY <1>1, <1>4
    <2>2. PICK h \in DOMAIN c : IsEnd(c, h, m)
      BY <1>4, <2>1 DEF Compiles, Closes
    <2>3. c[h] = "ifdef_WINDOWS" /\ h < m
      BY <1>4, <2>1, <2>2 DEF Tagged, IsEnd, InBlock
    <2>4. h \in Nat /\ i \in Nat /\ j \in Nat /\ m \in Nat
      BY <1>1, <2>1
    <2>5. CASE h = i
      <3>1. InBlock(c, i, j)
        BY <1>2 DEF IsEnd
      <3>2. j <= m
        BY <2>2, <2>4, <2>5, <3>1, OneEnd
      <3> QED
        BY <2>1, <2>4, <3>2
    <2>6. CASE h < i
      <3>1. InBlock(c, h, i)
        BY <2>1, <2>2, <2>4, <2>6, BeforeEnd
      <3> QED
        BY <2>3, <3>1 DEF Tagged
    <2>7. CASE i < h
      <3>1. h <= j
        BY <2>1, <2>3, <2>4
      <3>2. InBlock(c, i, h)
        BY <1>2, <2>4, <2>7, <3>1, BeforeEnd
      <3> QED
        BY <2>3, <3>2 DEF Tagged
    <2> QED
      BY <2>4, <2>5, <2>6, <2>7
  <1> QED
    BY <1>2, <1>3, <1>4

(* Tagged blocks are flat.                                                 *)
LEMMA TaggedIsFlat ==
    ASSUME NEW c \in Contents0, Compiles(c), Tagged(c)
    PROVE  Flat(c)
  <1>1. PICK n \in Nat : DOMAIN c = 1..n
    BY ContentIsSeq
  <1>2. ASSUME NEW k \in DOMAIN c, c[k] = "ifdef_WINDOWS"
        PROVE  \E j \in DOMAIN c : k < j /\ c[j] = "endif_WINDOWS"
    BY <1>2, WindowsEnd
  <1>3. ASSUME NEW k \in DOMAIN c, c[k] = "endif_WINDOWS"
        PROVE  \E i \in DOMAIN c :
                  /\ i < k /\ c[i] = "ifdef_WINDOWS"
                  /\ \A m \in (i + 1)..(k - 1) : c[m] # "endif_WINDOWS"
    <2>1. PICK i \in DOMAIN c : IsEnd(c, i, k)
      BY <1>3 DEF Compiles, Closes
    <2>2. c[i] = "ifdef_WINDOWS"
      BY <1>3, <2>1 DEF Tagged
    <2>3. PICK j \in DOMAIN c : /\ IsEnd(c, i, j) /\ i < j
                               /\ \A m \in (i + 1)..(j - 1) : c[m] # "endif_WINDOWS"
      BY <2>2, WindowsEnd
    <2>4. i \in Nat /\ j \in Nat /\ k \in Nat
      BY <1>1
    <2>5. InBlock(c, i, j) /\ InBlock(c, i, k) /\ i < k
      BY <2>1, <2>3 DEF IsEnd, InBlock
    <2>6. j = k
      <3>1. j <= k
        BY <2>1, <2>4, <2>5, OneEnd
      <3>2. k <= j
        BY <2>3, <2>4, <2>5, OneEnd
      <3> QED
        BY <2>4, <3>1, <3>2
    <2> QED
      BY <2>2, <2>3, <2>5, <2>6
  <1> QED
    BY <1>2, <1>3 DEF Flat

(* What the compiler hides of a file.                                      *)
HiddenAt(content, k) ==
    \E i \in DOMAIN content :
        /\ InBlock(content, i, k)
        /\ content[i] = "ifdef_WINDOWS"
              <=> \A e \in DOMAIN content : IsElse(content, i, e) => k <= e

Visible(c) == {k \in DOMAIN c : c[k] \in {"text", "long"} /\ ~HiddenAt(c, k)}

LEMMA VisibleIs ==
    ASSUME NEW c
    PROVE  CompiledOnLinux(c) = [m \in 1..Cardinality(Visible(c)) |-> c[PlaceOf(Visible(c), m)]]
  BY Zenon DEF CompiledOnLinux, Visible, HiddenAt, PlaceOf

(* Where the blocks are tagged, it is what lies in a block for Windows.    *)
LEMMA VisibleIsCompiled ==
    ASSUME NEW c \in Contents0, Compiles(c), Tagged(c)
    PROVE  Visible(c) = Compiled(c)
  <1>1. PICK n \in Nat : DOMAIN c = 1..n
    BY ContentIsSeq
  <1>2. \A i, e \in DOMAIN c : ~IsElse(c, i, e)
    BY DEF Tagged, IsElse
  <1>3. ASSUME NEW k \in DOMAIN c
        PROVE  HiddenAt(c, k) <=> \E i \in DOMAIN c : InBlock(c, i, k) /\ c[i] = "ifdef_WINDOWS"
    BY <1>2 DEF HiddenAt
  <1>4. ASSUME NEW k \in DOMAIN c, c[k] \in {"text", "long"}, HiddenAt(c, k)
        PROVE  BlockedAt(c, k)
    <2>1. PICK i \in DOMAIN c : InBlock(c, i, k) /\ c[i] = "ifdef_WINDOWS"
      BY <1>3, <1>4
    <2>2. PICK j \in DOMAIN c : /\ IsEnd(c, i, j) /\ c[j] = "endif_WINDOWS"
                               /\ \A m \in (i + 1)..(j - 1) : c[m] # "endif_WINDOWS"
      BY <2>1, WindowsEnd
    <2>3. i \in Nat /\ j \in Nat /\ k \in Nat /\ i < k
      BY <1>1, <2>1 DEF InBlock
    <2>4. k <= j
      BY <2>1, <2>2, <2>3, OneEnd
    <2>5. k # j
      BY <1>4, <2>2
    <2> QED
      BY <2>1, <2>2, <2>3, <2>4, <2>5 DEF BlockedAt
  <1>5. ASSUME NEW k \in DOMAIN c, BlockedAt(c, k) PROVE HiddenAt(c, k)
    <2>1. PICK i, j \in DOMAIN c :
            /\ i < k /\ k < j
            /\ c[i] = "ifdef_WINDOWS"
            /\ \A m \in (i + 1)..(j - 1) : c[m] # "endif_WINDOWS"
      BY <1>5 DEF BlockedAt
    <2>2. PICK h \in DOMAIN c : IsEnd(c, i, h) /\ i < h /\ c[h] = "endif_WINDOWS"
      BY <2>1, WindowsEnd
    <2>3. i \in Nat /\ j \in Nat /\ k \in Nat /\ h \in Nat
      BY <1>1
    <2>4. ~(h \in (i + 1)..(j - 1))
      BY <2>1, <2>2
    <2>5. k <= h
      BY <2>1, <2>2, <2>3, <2>4
    <2>6. InBlock(c, i, k)
      BY <2>1, <2>2, <2>3, <2>5, BeforeEnd
    <2> QED
      BY <1>3, <2>1, <2>6
  <1> QED
    BY <1>4, <1>5 DEF Visible, Compiled

(* The lines that a Linux compiler sees are counted like that.             *)
LEMMA CompiledIs ==
    ASSUME NEW c \in Contents0, Compiles(c), Tagged(c)
    PROVE  CompiledOnLinux(c) = [m \in 1..Cardinality(Compiled(c)) |-> c[PlaceOf(Compiled(c), m)]]
  <1>1. Visible(c) = Compiled(c)
    BY VisibleIsCompiled
  <1> QED
    BY <1>1, VisibleIs, Zenon

(* They are those outside the blocks for Windows that do not ask for a     *)
(* system.                                                                 *)
LEMMA CompiledAre ==
    ASSUME NEW c \in Contents0, Flat(c), Tagged(c)
    PROVE  Compiled(c) =
              {k \in OutsideWindows(c, Len(c)) : c[k] \notin {"ifdef_LINUX", "endif_LINUX"}}
  <1>1. PICK n : n = Len(c)
    OBVIOUS
  <1>2. n \in Nat /\ DOMAIN c = 1..n /\ \A k \in 1..n : c[k] \in Lines
    BY <1>1, ContentIsSeq
  <1>3. ASSUME NEW k \in 1..n, ~Open(c, k - 1), c[k] # "ifdef_WINDOWS",
               c[k] \notin {"ifdef_LINUX", "endif_LINUX"}
        PROVE  c[k] \in {"text", "long"} /\ ~BlockedAt(c, k)
    <2>1. ASSUME NEW i \in 1..n, i < k, c[i] = "ifdef_WINDOWS",
                 \A m \in (i + 1)..(k - 1) : c[m] # "endif_WINDOWS"
          PROVE  FALSE
      <3>1. i \in 1..(k - 1)
        BY <1>2, <2>1
      <3> QED
        BY <1>3, <2>1, <3>1 DEF Open
    <2>2. c[k] # "endif_WINDOWS"
      <3> SUFFICES ASSUME c[k] = "endif_WINDOWS" PROVE FALSE
        OBVIOUS
      <3>1. PICK i \in DOMAIN c : /\ i < k /\ c[i] = "ifdef_WINDOWS"
                                  /\ \A m \in (i + 1)..(k - 1) : c[m] # "endif_WINDOWS"
        BY <1>2 DEF Flat
      <3> QED
        BY <1>2, <2>1, <3>1
    <2>3. c[k] \in {"text", "long"}
      BY <1>2, <1>3, <2>2 DEF Lines, Tagged
    <2>4. ~BlockedAt(c, k)
      <3> SUFFICES ASSUME BlockedAt(c, k) PROVE FALSE
        OBVIOUS
      <3>1. PICK i, j \in DOMAIN c :
              /\ i < k /\ k < j
              /\ c[i] = "ifdef_WINDOWS"
              /\ c[j] = "endif_WINDOWS"
              /\ \A m \in (i + 1)..(j - 1) : c[m] # "endif_WINDOWS"
        BY DEF BlockedAt
      <3>2. i \in 1..n /\ \A m \in (i + 1)..(k - 1) : m \in (i + 1)..(j - 1)
        BY <1>2, <3>1
      <3> QED
        BY <2>1, <3>1, <3>2
    <2> QED
      BY <2>3, <2>4
  <1>4. ASSUME NEW k \in 1..n, c[k] \in {"text", "long"}, ~BlockedAt(c, k)
        PROVE  /\ ~Open(c, k - 1) /\ c[k] # "ifdef_WINDOWS"
               /\ c[k] \notin {"ifdef_LINUX", "endif_LINUX"}
    <2>1. c[k] # "ifdef_WINDOWS" /\ c[k] \notin {"ifdef_LINUX", "endif_LINUX"}
          /\ c[k] # "endif_WINDOWS"
      BY <1>4
    <2>2. ASSUME Open(c, k - 1) PROVE FALSE
      <3>1. PICK i \in 1..(k - 1) : /\ c[i] = "ifdef_WINDOWS"
                                    /\ \A m \in (i + 1)..(k - 1) : c[m] # "endif_WINDOWS"
        BY <2>2 DEF Open
      <3>2. i \in 1..n /\ i < k
        BY <1>2
      <3>3. PICK T : T = {j \in 1..n : i < j /\ c[j] = "endif_WINDOWS"}
        OBVIOUS
      <3>4. T \subseteq Nat /\ T # {}
        <4>1. \E j \in 1..n : i < j /\ c[j] = "endif_WINDOWS"
          BY <1>2, <3>1, <3>2 DEF Flat
        <4> QED
          BY <3>3, <4>1
      <3>5. PICK j \in T : \A m \in T : j <= m
        BY <3>4, LeastNumber
      <3>6. j \in 1..n /\ i < j /\ c[j] = "endif_WINDOWS"
        BY <3>3, <3>5
      <3>7. ASSUME NEW m \in (i + 1)..(j - 1) PROVE c[m] # "endif_WINDOWS"
        <4>1. m \in 1..n /\ i < m /\ ~(j <= m)
          BY <1>2, <3>2, <3>6
        <4>2. m \notin T
          BY <3>5, <4>1
        <4> QED
          BY <3>3, <4>1, <4>2
      <3>8. k < j
        <4>1. j \notin (i + 1)..(k - 1)
          BY <3>1, <3>6
        <4>2. j # k
          BY <2>1, <3>6
        <4> QED
          BY <3>2, <3>6, <4>1, <4>2
      <3>9. BlockedAt(c, k)
        BY <1>2, <3>1, <3>2, <3>6, <3>7, <3>8 DEF BlockedAt
      <3> QED
        BY <1>4, <3>9
    <2> QED
      BY <2>1, <2>2
  <1> QED
    BY <1>1, <1>2, <1>3, <1>4 DEF Compiled, OutsideWindows

(* Both passes together.                                                   *)
LEMMA BothPasses ==
    ASSUME NEW c \in Contents0, Compiles(c), Tagged(c)
    PROVE  WithoutLinux(WithoutWindows(c)) = CompiledOnLinux(c)
  <1>1. PICK a, b : a = WithoutWindows(c) /\ b = WithoutLinux(a)
    OBVIOUS
  <1>2. PICK Q : Q = OutsideWindows(c, Len(c))
    OBVIOUS
  <1>3. a \in Contents0 /\ Handed(a, 1..Len(a), Q, c)
    BY <1>1, <1>2, WindowsKeeps DEF Keeps
  <1>4. b \in Contents0 /\ Handed(b, 1..Len(b), NotOfLinux(a, Len(a)), a)
    BY <1>1, <1>3, LinuxKeeps DEF Keeps
  <1>5. PICK g : HandedBy(g, a, 1..Len(a), Q, c)
    BY <1>3 DEF Handed
  <1>6. PICK P : P = NotOfLinux(a, Len(a))
    OBVIOUS
  <1>7. P \subseteq 1..Len(a)
    BY <1>6 DEF NotOfLinux
  <1>8. Handed(b, 1..Len(b), {g[i] : i \in P}, c)
    BY <1>4, <1>5, <1>6, <1>7, HandThrough
  <1>9. {g[i] : i \in P} = {k \in Q : c[k] \notin {"ifdef_LINUX", "endif_LINUX"}}
    <2>1. \A i \in 1..Len(a) : g[i] \in Q /\ a[i] = c[g[i]]
      BY <1>5 DEF HandedBy
    <2>2. \A k \in Q : \E i \in 1..Len(a) : g[i] = k
      BY <1>5 DEF HandedBy
    <2>3. \A i \in 1..Len(a) : i \in P <=> a[i] \notin {"ifdef_LINUX", "endif_LINUX"}
      BY <1>6 DEF NotOfLinux
    <2> QED
      BY <1>7, <2>1, <2>2, <2>3
  <1>10. {g[i] : i \in P} = Compiled(c)
    BY <1>2, <1>9, CompiledAre, TaggedIsFlat
  <1>11. Compiled(c) \subseteq Nat
    BY ContentIsSeq DEF Compiled
  <1>12. Handed(b, 1..Len(b), Compiled(c), c)
    BY <1>8, <1>10
  <1>13. b = [m \in 1..Cardinality(Compiled(c)) |-> c[PlaceOf(Compiled(c), m)]]
    <2>1. PICK K : K = Compiled(c)
      OBVIOUS
    <2>2. K \subseteq Nat /\ Handed(b, 1..Len(b), K, c)
      BY <1>11, <1>12, <2>1
    <2>3. b = [m \in 1..Cardinality(K) |-> c[PlaceOf(K, m)]]
      BY <1>4, <2>2, CountedIs
    <2> QED
      BY <2>1, <2>3, Zenon
  <1> QED
    BY <1>1, <1>13, CompiledIs

-----------------------------------------------------------------------------
(* The three walks.  S stands for the folders that are searched already.   *)

(* What the search of a folder returns.                                    *)
ListingOf(d) == {x \in Walked \ {Root} : Parent(x) = d /\ x \in LetIn}

(* The state is made of what the program can put into it; an entry that    *)
(* is still to come is one of the folder that is open.                     *)
FormatTypes ==
    /\ source \in [Sources -> Contents]
    /\ old \subseteq {"gone"}
    /\ DOMAIN format \subseteq Folders \cup Sources \cup old
    /\ DOMAIN release \subseteq Folders \cup Files \cup old
    /\ pass \in 0..4
    /\ col \in Seq(Folders)
    /\ fate \in {"runs", "refused", "endless", "thrown"}
    /\ failures \subseteq Entries \cup {"gone"}
    /\ entries # {} => col # << >> /\ entries \subseteq ListingOf(Head(col))
    /\ pass \in {0, 4} => col = << >> /\ entries = {}
    /\ pass # 0 => Root \in DOMAIN format

(* What is given up with a folder: all that lies in it.                    *)
Closed(lost) == \A x \in Entries \cup {"gone"} : Parent(x) \in lost => x \in lost

(* The folder waits in the list.                                           *)
WaitsIn(list, d) == \E k \in DOMAIN list : list[k] = d
InList(d) == WaitsIn(col, d)

(* What the pass has to leave of an entry that it is over with.            *)
Arrived(x) ==
    /\ x \in failures \/ x \in DOMAIN Target
    /\ x \in failures \cup Folders \/ Target[x] = Written(Content(x))

DoneWith(x, S) ==
    /\ Arrived(x)
    /\ x \in Folders => x \in failures \/ x \in S \/ InList(x)

(* The pass is over with the entry.                                        *)
Over(x, S) ==
    \/ Parent(x) \in S
    \/ entries # {} /\ Parent(x) = Head(col) /\ x \notin entries

WalkOf(S) ==
    /\ S \subseteq Folders
    /\ Root \in S \/ InList(Root)
    /\ \A x \in Walked \ {Root} : x \in LetIn /\ Over(x, S) => DoneWith(x, S)

(* What the passes that are over leave.                                    *)
AfterFirst ==
    pass >= 2 => /\ Folders \ failures \subseteq DOMAIN format
                 /\ \A f \in Sources \ failures :
                       f \in DOMAIN format /\ format[f] = WithoutWindows(source[f])
AfterSecond ==
    pass >= 3 => \A f \in Extras \ failures : f \in DOMAIN release /\ release[f] = TextOfExtras
AfterThird ==
    pass = 4 => \A f \in Sources \ failures :
                   f \in DOMAIN release /\ release[f] = WithoutLinux(format[f])

FormatInv ==
    /\ FormatTypes /\ Closed(failures)
    /\ pass \in 1..3 => \E S \in SUBSET Folders : WalkOf(S)
    /\ AfterFirst /\ AfterSecond /\ AfterThird

(* What a list is without its first folder, and with others after it.      *)
LEMMA RestOfList ==
    ASSUME NEW c \in Seq(Folders), c # << >>
    PROVE  /\ Tail(c) \in Seq(Folders) /\ Head(c) \in Folders
           /\ \A d : WaitsIn(c, d) => WaitsIn(Tail(c), d) \/ d = Head(c)
  <1>1. Tail(c) \in Seq(Folders) /\ Head(c) \in Folders
    OBVIOUS
  <1>2. ASSUME NEW d, WaitsIn(c, d), d # Head(c) PROVE WaitsIn(Tail(c), d)
    <2>1. PICK k \in DOMAIN c : c[k] = d
      BY <1>2 DEF WaitsIn
    <2>2. k # 1
      BY <1>2, <2>1
    <2>3. k - 1 \in DOMAIN Tail(c) /\ Tail(c)[k - 1] = d
      BY <2>1, <2>2
    <2> QED
      BY <2>3 DEF WaitsIn
  <1> QED
    BY <1>1, <1>2

(* Two lists, one after the other.                                         *)
LEMMA ListJoined ==
    ASSUME NEW c \in Seq(Folders), NEW f \in Seq(Folders)
    PROVE  /\ c \o f \in Seq(Folders)
           /\ \A d : WaitsIn(c, d) \/ WaitsIn(f, d) => WaitsIn(c \o f, d)
           /\ c # << >> => c \o f # << >> /\ Head(c \o f) = Head(c)
  <1>1. /\ c \o f \in Seq(Folders) /\ Len(c) \in Nat /\ Len(f) \in Nat
        /\ Len(c \o f) = Len(c) + Len(f)
        /\ \A k \in 1..(Len(c) + Len(f)) :
              (c \o f)[k] = IF k <= Len(c) THEN c[k] ELSE f[k - Len(c)]
    OBVIOUS
  <1>2. ASSUME NEW d, WaitsIn(c, d) PROVE WaitsIn(c \o f, d)
    <2>1. PICK k \in DOMAIN c : c[k] = d
      BY <1>2 DEF WaitsIn
    <2>2. k \in DOMAIN (c \o f) /\ (c \o f)[k] = d
      BY <1>1, <2>1
    <2> QED
      BY <2>2 DEF WaitsIn
  <1>3. ASSUME NEW d, WaitsIn(f, d) PROVE WaitsIn(c \o f, d)
    <2>1. PICK k \in DOMAIN f : f[k] = d
      BY <1>3 DEF WaitsIn
    <2>2. Len(c) + k \in DOMAIN (c \o f) /\ (c \o f)[Len(c) + k] = d
      BY <1>1, <2>1
    <2> QED
      BY <2>2 DEF WaitsIn
  <1>4. c # << >> => c \o f # << >> /\ Head(c \o f) = Head(c)
    BY <1>1
  <1> QED
    BY <1>1, <1>2, <1>3, <1>4

(* The list after an entry.                                                *)
LEMMA FormatList ==
    ASSUME FormatTypes, NEW e \in entries, NEW found \in Seq(Folders), EntryDone(e, found)
    PROVE  /\ col' \in Seq(Folders) /\ entries' = entries \ {e} /\ Head(col) \in Folders
           /\ \A d : WaitsIn(col, d) => WaitsIn(col', d) \/ (entries' = {} /\ d = Head(col))
           /\ \A d : WaitsIn(found, d) => WaitsIn(col', d)
           /\ entries' # {} => col' # << >> /\ Head(col') = Head(col)
  <1>1. PICK c \in Seq(Folders) : c = col
    BY DEF FormatTypes
  <1>2. c # << >>
    BY <1>1 DEF FormatTypes
  <1>3. PICK r \in Seq(Folders) : r = IF entries' = {} THEN Tail(c) ELSE c
    BY <1>1, <1>2, RestOfList
  <1>4. col' = r \o found /\ entries' = entries \ {e}
    BY <1>1, <1>3 DEF EntryDone
  <1>5. \A d : WaitsIn(c, d) => WaitsIn(r, d) \/ (entries' = {} /\ d = Head(c))
    BY <1>2, <1>3, RestOfList
  <1>6. /\ r \o found \in Seq(Folders)
        /\ \A d : WaitsIn(r, d) \/ WaitsIn(found, d) => WaitsIn(r \o found, d)
        /\ r # << >> => r \o found # << >> /\ Head(r \o found) = Head(r)
    BY ListJoined
  <1>7. Head(c) \in Folders
    BY <1>2, RestOfList
  <1>8. \A d : WaitsIn(c, d) => WaitsIn(col', d) \/ (entries' = {} /\ d = Head(c))
    BY <1>4, <1>5, <1>6
  <1>9. entries' # {} => col' # << >> /\ Head(col') = Head(c)
    BY <1>2, <1>3, <1>4, <1>6
  <1> QED
    BY <1>1, <1>4, <1>6, <1>7, <1>8, <1>9

(* What a step may do to the target: only the entry that is processed      *)
(* changes there, and the pass goes on in the same tree.                   *)
TargetKept(e) ==
    /\ pass' = pass /\ Walked' = Walked /\ failures \subseteq failures'
    /\ \A x \in Walked \ {e} : Arrived(x) => Arrived(x)'

(* The walk after an entry.                                                *)
LEMMA EntryWalk ==
    ASSUME FormatTypes, NEW S \in SUBSET Folders, WalkOf(S),
           NEW e \in entries, NEW found \in Seq(Folders),
           e \in Folders => found = <<e>> \/ e \in failures',
           EntryDone(e, found), TargetKept(e), Arrived(e)'
    PROVE  (\E T \in SUBSET Folders : WalkOf(T))'
  <1>1. PICK h : h = Head(col)
    OBVIOUS
  <1>2. /\ h \in Folders /\ entries' = entries \ {e}
        /\ \A d : WaitsIn(col, d) => WaitsIn(col', d) \/ (entries' = {} /\ d = h)
        /\ \A d : WaitsIn(found, d) => WaitsIn(col', d)
        /\ entries' # {} => Head(col') = h
    BY <1>1, FormatList
  <1>3. PICK T \in SUBSET Folders : T = IF entries' = {} THEN S \cup {h} ELSE S
    BY <1>2
  <1>4. /\ S \subseteq Folders /\ (Root \in S \/ WaitsIn(col, Root))
        /\ \A x \in Walked \ {Root} : x \in LetIn /\ Over(x, S) => DoneWith(x, S)
    BY DEF WalkOf, InList
  <1>5. /\ pass' = pass /\ Walked' = Walked /\ LetIn' = LetIn /\ failures \subseteq failures'
        /\ \A x \in Walked \ {e} : Arrived(x) => Arrived(x)'
    BY DEF TargetKept, LetIn
  <1>6. Root \in T \/ WaitsIn(col', Root)
    BY <1>2, <1>3, <1>4
  <1>7. ASSUME NEW x \in Walked, x # Root, x \in LetIn, Over(x, T)'
        PROVE  DoneWith(x, T)'
    <2>1. CASE x = e
      <3>1. x \in Folders => x \in failures' \/ WaitsIn(col', x)
        <4>1. x \in Folders => x \in failures' \/ (1 \in DOMAIN found /\ found[1] = x)
          BY <2>1
        <4>2. x \in Folders => x \in failures' \/ WaitsIn(found, x)
          BY <4>1 DEF WaitsIn
        <4> QED
          BY <1>2, <4>2
      <3> QED
        BY <2>1, <3>1 DEF DoneWith, InList
    <2>2. CASE x # e
      <3>1. Over(x, S)
        <4>1. CASE Parent(x) \in T
          <5>1. Parent(x) \in S \/ (entries' = {} /\ Parent(x) = h)
            BY <1>3, <4>1
          <5> QED
            BY <1>1, <1>2, <2>2, <5>1 DEF Over
        <4>2. CASE entries' # {} /\ Parent(x) = Head(col') /\ x \notin entries'
          BY <1>1, <1>2, <2>2, <4>2 DEF Over
        <4> QED
          BY <1>7, <4>1, <4>2 DEF Over
      <3>2. DoneWith(x, S)
        BY <1>4, <1>7, <3>1
      <3>3. Arrived(x)'
        BY <1>5, <2>2, <3>2 DEF DoneWith
      <3>4. x \in Folders => x \in failures' \/ x \in T \/ WaitsIn(col', x)
        BY <1>2, <1>3, <1>5, <3>2 DEF DoneWith, InList
      <3> QED
        BY <3>3, <3>4 DEF DoneWith, InList
    <2> QED
      BY <2>1, <2>2
  <1>8. WalkOf(T)'
    BY <1>3, <1>5, <1>6, <1>7 DEF WalkOf, InList
  <1> QED
    BY <1>8

(* The walk after a folder is opened.                                      *)
LEMMA FolderWalk ==
    ASSUME FormatTypes, NEW S \in SUBSET Folders, WalkOf(S), OpenFolder(ListingOf(Head(col))),
           UNCHANGED <<source, treeVars, old, pass, failures>>
    PROVE  /\ (\E T \in SUBSET Folders : WalkOf(T))'
           /\ col' \in Seq(Folders)
           /\ entries' # {} => col' # << >> /\ entries' \subseteq ListingOf(Head(col))'
  <1>1. PICK h : h = Head(col)
    OBVIOUS
  <1>2. PICK new : new = ListingOf(h)
    OBVIOUS
  <1>3. PICK c \in Seq(Folders) : c = col
    BY DEF FormatTypes
  <1>4. /\ c # << >> /\ entries = {} /\ entries' = new
        /\ col' = IF new = {} THEN Tail(c) ELSE c
    BY <1>1, <1>2, <1>3 DEF OpenFolder, Walking
  <1>5. /\ h \in Folders /\ col' \in Seq(Folders)
        /\ \A d : WaitsIn(c, d) => WaitsIn(col', d) \/ (new = {} /\ d = h)
    BY <1>1, <1>3, <1>4, RestOfList
  <1>6. PICK T \in SUBSET Folders : T = IF new = {} THEN S \cup {h} ELSE S
    BY <1>5
  <1>7. /\ S \subseteq Folders /\ (Root \in S \/ WaitsIn(c, Root))
        /\ \A x \in Walked \ {Root} : x \in LetIn /\ Over(x, S) => DoneWith(x, S)
    BY <1>3 DEF WalkOf, InList
  <1>8. Walked' = Walked /\ LetIn' = LetIn
    BY DEF Walked, LetIn, treeVars
  <1>9. \A x : Arrived(x) => Arrived(x)'
    BY DEF Arrived, Target, Written, Content, treeVars
  <1>10. Root \in T \/ WaitsIn(col', Root)
    BY <1>5, <1>6, <1>7
  <1>11. ASSUME NEW x \in Walked, x # Root, x \in LetIn, Over(x, T)'
         PROVE  DoneWith(x, T)'
    <2>1. x \in new <=> Parent(x) = h
      BY <1>2, <1>11 DEF ListingOf
    <2>2. new # {} => Head(col') = h
      BY <1>1, <1>3, <1>4
    <2>3. Parent(x) \in S
      <3>1. Parent(x) \in T \/ (new # {} /\ Parent(x) = Head(col') /\ x \notin new)
        BY <1>4, <1>11 DEF Over
      <3> QED
        BY <1>6, <2>1, <2>2, <3>1
    <2>4. DoneWith(x, S)
      BY <1>7, <1>11, <2>3 DEF Over
    <2>5. x \in Folders => x \in failures' \/ x \in T \/ WaitsIn(col', x)
      BY <1>3, <1>5, <1>6, <2>4 DEF DoneWith, InList
    <2> QED
      BY <1>9, <2>4, <2>5 DEF DoneWith, InList
  <1>12. WalkOf(T)'
    BY <1>6, <1>8, <1>10, <1>11 DEF WalkOf, InList
  <1>13. ASSUME new # {} PROVE col' # << >> /\ entries' \subseteq ListingOf(Head(col))'
    <2>1. col' = c /\ Head(col') = h
      BY <1>1, <1>3, <1>4, <1>13
    <2>2. \A x \in new : x \in Walked \ {Root} /\ Parent(x) = h /\ x \in LetIn
      BY <1>2 DEF ListingOf
    <2> QED
      BY <1>3, <1>4, <1>8, <2>1, <2>2 DEF ListingOf, Parent
  <1> QED
    BY <1>4, <1>5, <1>12, <1>13

(* What lies below a folder goes with it.                                  *)
LEMMA BelowIs ==
    ASSUME NEW d
    PROVE  /\ Below(d) \subseteq Entries \cup {"gone"}
           /\ \A x \in Entries \cup {"gone"} : Parent(x) \in Below(d) \cup {d} => x \in Below(d)
  <1>1. PICK E : E = Entries \cup {"gone"}
    OBVIOUS
  <1>2. \A x : x \in Below(d) <=>
          /\ x \in E
          /\ \A S \in SUBSET E : (\A y \in E : Parent(y) \in S \cup {d} => y \in S) => x \in S
    BY <1>1 DEF Below
  <1>3. ASSUME NEW x \in E, Parent(x) \in Below(d) \cup {d},
               NEW S \in SUBSET E, \A y \in E : Parent(y) \in S \cup {d} => y \in S
        PROVE  x \in S
    BY <1>2, <1>3
  <1>4. \A x \in E : Parent(x) \in Below(d) \cup {d} => x \in Below(d)
    BY <1>2, <1>3
  <1> QED
    BY <1>1, <1>2, <1>4

(* A folder that is given up with all below it, whether or not the folder  *)
(* itself was there, leaves a closed loss.                                 *)
LEMMA LostBelow ==
    ASSUME NEW d, Closed(failures), failures \subseteq Entries \cup {"gone"}
    PROVE  /\ Closed(failures \cup Below(d))
           /\ Closed(failures \cup {d} \cup Below(d))
           /\ failures \cup Below(d) \subseteq Entries \cup {"gone"}
  BY BelowIs DEF Closed

(* The walk after a folder that cannot be opened.                          *)
LEMMA LostWalk ==
    ASSUME FormatTypes, NEW S \in SUBSET Folders, WalkOf(S), OpendirFails,
           failures' = failures \cup Below(Head(col)),
           UNCHANGED <<source, treeVars, old, pass>>
    PROVE  /\ (\E T \in SUBSET Folders : WalkOf(T))'
           /\ col' \in Seq(Folders) /\ entries' = {}
  <1>1. PICK h : h = Head(col)
    OBVIOUS
  <1>2. PICK c \in Seq(Folders) : c = col
    BY DEF FormatTypes
  <1>3. c # << >> /\ entries = {} /\ entries' = {} /\ col' = Tail(c)
    BY <1>2 DEF OpendirFails, Walking
  <1>4. /\ h \in Folders /\ col' \in Seq(Folders)
        /\ \A d : WaitsIn(c, d) => WaitsIn(col', d) \/ d = h
    BY <1>1, <1>2, <1>3, RestOfList
  <1>5. PICK T \in SUBSET Folders : T = S \cup {h}
    BY <1>4
  <1>6. /\ S \subseteq Folders /\ (Root \in S \/ WaitsIn(c, Root))
        /\ \A x \in Walked \ {Root} : x \in LetIn /\ Over(x, S) => DoneWith(x, S)
    BY <1>2 DEF WalkOf, InList
  <1>7. Walked' = Walked /\ LetIn' = LetIn
    BY DEF Walked, LetIn, treeVars
  <1>8. \A x : Arrived(x) => Arrived(x)'
    BY DEF Arrived, Target, Written, Content, treeVars
  <1>9. Walked \subseteq Entries \cup {Root, "gone"}
    BY TreeAssumption, KindsAssumption DEF Walked, FormatTypes
  <1>10. Root \in T \/ WaitsIn(col', Root)
    BY <1>4, <1>5, <1>6
  <1>11. ASSUME NEW x \in Walked, x # Root, x \in LetIn, Over(x, T)'
         PROVE  DoneWith(x, T)'
    <2>1. Parent(x) \in T
      BY <1>3, <1>11 DEF Over
    <2>2. CASE Parent(x) = h
      <3>1. x \in Below(h)
        BY <1>9, <1>11, <2>2, BelowIs
      <3>2. x \in failures'
        BY <1>1, <3>1
      <3> QED
        BY <3>2 DEF DoneWith, Arrived
    <2>3. CASE Parent(x) \in S
      <3>1. DoneWith(x, S)
        BY <1>6, <1>11, <2>3 DEF Over
      <3>2. x \in Folders => x \in failures' \/ x \in T \/ WaitsIn(col', x)
        BY <1>2, <1>4, <1>5, <3>1 DEF DoneWith, InList
      <3> QED
        BY <1>8, <3>1, <3>2 DEF DoneWith, InList
    <2> QED
      BY <1>5, <2>1, <2>2, <2>3
  <1>12. WalkOf(T)'
    BY <1>5, <1>7, <1>10, <1>11 DEF WalkOf, InList
  <1> QED
    BY <1>3, <1>4, <1>12

(* The walk where the program ends, at an entry it has given up.           *)
LEMMA HaltedWalk ==
    ASSUME NEW S \in SUBSET Folders, WalkOf(S), NEW e \in entries, e \in failures',
           TargetKept(e), UNCHANGED frameVars
    PROVE  (\E T \in SUBSET Folders : WalkOf(T))'
  <1>1. /\ pass' = pass /\ Walked' = Walked /\ LetIn' = LetIn /\ failures \subseteq failures'
        /\ \A x \in Walked \ {e} : Arrived(x) => Arrived(x)'
        /\ col' = col /\ entries' = entries
    BY DEF TargetKept, LetIn, frameVars
  <1>2. ASSUME NEW x \in Walked, x # Root, x \in LetIn, Over(x, S)'
        PROVE  DoneWith(x, S)'
    <2>1. CASE x = e
      BY <2>1 DEF DoneWith, Arrived
    <2>2. CASE x # e
      <3>1. DoneWith(x, S)
        BY <1>1, <1>2 DEF WalkOf, Over
      <3> QED
        BY <1>1, <2>2, <3>1 DEF DoneWith, InList
    <2> QED
      BY <2>1, <2>2
  <1>3. WalkOf(S)'
    BY <1>1, <1>2 DEF WalkOf, InList
  <1> QED
    BY <1>3

(* Where the entries lie: in folders that are walked.                      *)
LEMMA EntriesLie ==
    ASSUME FormatTypes
    PROVE  /\ Root \notin Sources \cup Extras \cup old /\ "gone" \notin Folders \cup Files
           /\ Folders \cap Files = {} /\ Sources \cap Extras = {}
           /\ \A x \in Walked \ {Root} : Parent(x) \in Folders
           /\ Files \subseteq Entries /\ Folders \subseteq Entries \cup {Root}
           /\ \A x \in entries : /\ x \in Walked /\ x # Root /\ x \in LetIn
                                 /\ x \in Folders \cup Files \cup old
                                 /\ pass = 1 => x \in Folders \cup Sources
                                 /\ pass = 2 => x \in Folders \cup Extras
                                 /\ pass = 3 => x \in Folders \cup Sources \cup old
  <1>1. /\ Root \in Folders /\ ParentOf \in [Entries -> Folders]
        /\ Folders \subseteq Entries \cup {Root} /\ Root \notin Entries
    BY TreeAssumption DEF Entries
  <1>2. /\ Files \subseteq Entries /\ "gone" \notin Entries /\ "gone" # Root
        /\ Folders \cap Files = {} /\ Sources \cap Extras = {}
    BY KindsAssumption DEF Files
  <1>3. Walked \subseteq Entries \cup {Root, "gone"}
    BY <1>1, <1>2 DEF Walked, FormatTypes, Files
  <1>4. \A x \in Walked \ {Root} : Parent(x) \in Folders
    <2> SUFFICES ASSUME NEW x \in Walked \ {Root} PROVE Parent(x) \in Folders
      OBVIOUS
    <2>1. CASE x = "gone"
      BY <1>1, <2>1 DEF Parent
    <2>2. CASE x \in Entries
      BY <1>1, <1>2, <2>2 DEF Parent
    <2> QED
      BY <1>3, <2>1, <2>2
  <1>5. ASSUME NEW x \in entries
        PROVE  /\ x \in Walked /\ x # Root /\ x \in LetIn
               /\ x \in Folders \cup Files \cup old
               /\ pass = 1 => x \in Folders \cup Sources
               /\ pass = 2 => x \in Folders \cup Extras
               /\ pass = 3 => x \in Folders \cup Sources \cup old
    <2>1. x \in Walked /\ x # Root /\ x \in LetIn /\ pass \in 1..3
      BY DEF FormatTypes, ListingOf
    <2>2. CASE pass = 1
      BY <1>2, <2>1, <2>2 DEF LetIn, LetInByFilter, Walked, Files
    <2>3. CASE pass = 2
      BY <1>2, <2>1, <2>3 DEF LetIn, LetInByFilter2, Walked, Files
    <2>4. CASE pass = 3
      <3>1. x \in Folders \cup Sources \cup old
        BY <2>1, <2>4 DEF Walked, FormatTypes
      <3> QED
        BY <2>1, <2>4, <3>1 DEF Files
    <2> QED
      BY <2>1, <2>2, <2>3, <2>4
  <1>6. Root \notin Sources \cup Extras \cup old /\ "gone" \notin Folders \cup Files
    BY <1>1, <1>2 DEF FormatTypes, Files
  <1> QED
    BY <1>1, <1>2, <1>4, <1>5, <1>6

(* What a step may do to the tree the pass writes.                         *)
OnlyAt(e, now, then) ==
    /\ DOMAIN then \subseteq DOMAIN now \cup {e}
    /\ \A x \in DOMAIN now \ {e} : x \in DOMAIN then /\ then[x] = now[x]

(* An entry is written: no other changes, and it has the new content.      *)
LEMMA PutIs ==
    ASSUME NEW e, NEW content, Put(e, content), UNCHANGED pass
    PROVE  /\ OnlyAt(e, Target, Target') /\ e \in DOMAIN Target' /\ Target'[e] = content
           /\ IF pass = 1 THEN UNCHANGED release ELSE UNCHANGED format
  BY DEF Put, Target, OnlyAt

(* It is removed: no other changes.                                        *)
LEMMA RemovedIs ==
    ASSUME NEW e, Removed(e), UNCHANGED pass
    PROVE  /\ OnlyAt(e, Target, Target')
           /\ IF pass = 1 THEN UNCHANGED release ELSE UNCHANGED format
  BY DEF Removed, Target, OnlyAt

(* Nothing is written.                                                     *)
LEMMA NothingPut ==
    ASSUME NEW e, UNCHANGED <<treeVars, pass>>
    PROVE  /\ OnlyAt(e, Target, Target') /\ Target' = Target
           /\ IF pass = 1 THEN UNCHANGED release ELSE UNCHANGED format
  BY DEF Target, OnlyAt, treeVars

(* What a step does that is about one entry: it leaves it in the target,   *)
(* or gives it up.                                                         *)
DealsWith(e) ==
    /\ source' = source /\ old' = old /\ pass' = pass
    /\ failures \subseteq failures' /\ failures' \subseteq Entries \cup {"gone"}
    /\ Closed(failures')
    /\ OnlyAt(e, Target, Target')
    /\ IF pass = 1 THEN UNCHANGED release ELSE UNCHANGED format
    /\ \/ e \in failures'
       \/ e \in DOMAIN Target' /\ (e \in Folders \/ Target'[e] = Written(Content(e)))

(* The trees after such a step.                                            *)
LEMMA TreesKept ==
    ASSUME FormatInv, pass \in 1..3, NEW e \in entries, DealsWith(e)
    PROVE  /\ TargetKept(e) /\ Arrived(e)' /\ Walked' = Walked /\ LetIn' = LetIn
           /\ DOMAIN format' \subseteq Folders \cup Sources \cup old'
           /\ DOMAIN release' \subseteq Folders \cup Files \cup old'
           /\ Root \in DOMAIN format'
           /\ AfterFirst' /\ AfterSecond' /\ AfterThird'
  <1>1. /\ FormatTypes /\ pass' = pass /\ source' = source /\ old' = old
        /\ failures \subseteq failures' /\ OnlyAt(e, Target, Target')
        /\ IF pass = 1 THEN UNCHANGED release ELSE UNCHANGED format
        /\ \/ e \in failures'
           \/ e \in DOMAIN Target' /\ (e \in Folders \/ Target'[e] = Written(Content(e)))
    BY DEF FormatInv, DealsWith
  <1>2. /\ Walked' = Walked /\ LetIn' = LetIn
        /\ \A x : Content(x)' = Content(x) /\ \A c : Written(c)' = Written(c)
    BY <1>1 DEF Walked, LetIn, Content, Written
  <1>3. Arrived(e)'
    BY <1>1, <1>2 DEF Arrived
  <1>4. ASSUME NEW x, x # e, Arrived(x) PROVE Arrived(x)'
    BY <1>1, <1>2, <1>4 DEF Arrived, OnlyAt
  <1>5. TargetKept(e)
    BY <1>1, <1>2, <1>4 DEF TargetKept
  <1>8. /\ e \in Folders \cup Files \cup old
        /\ pass = 1 => e \in Folders \cup Sources
        /\ pass = 2 => e \in Folders \cup Extras
        /\ pass = 3 => e \in Folders \cup Sources \cup old
    BY <1>1, EntriesLie
  <1>9. DOMAIN format' \subseteq Folders \cup Sources \cup old'
    BY <1>1, <1>8 DEF FormatTypes, OnlyAt, Target
  <1>10. DOMAIN release' \subseteq Folders \cup Files \cup old'
    <2>1. CASE pass = 1
      BY <1>1, <2>1 DEF FormatTypes
    <2>2. CASE pass \in {2, 3}
      BY <1>1, <1>8, <2>2 DEF FormatTypes, OnlyAt, Target
    <2> QED
      BY <2>1, <2>2
  <1>11. Root \in DOMAIN format'
    <2>1. e # Root /\ Root \in DOMAIN format
      BY <1>1, EntriesLie DEF FormatTypes
    <2>2. CASE pass = 1
      BY <1>1, <2>1, <2>2 DEF OnlyAt, Target
    <2>3. CASE pass # 1
      BY <1>1, <2>1, <2>3
    <2> QED
      BY <2>2, <2>3
  <1>12. AfterFirst'
    <2>1. CASE pass = 1
      BY <1>1, <2>1 DEF AfterFirst
    <2>2. CASE pass \in {2, 3}
      BY <1>1, <2>2 DEF FormatInv, AfterFirst
    <2> QED
      BY <2>1, <2>2
  <1>13. AfterSecond'
    <2>1. CASE pass \in {1, 2}
      BY <1>1, <2>1 DEF AfterSecond
    <2>2. CASE pass = 3
      <3>1. e \notin Extras
        <4>1. /\ Folders \cap Files = {} /\ Sources \cap Extras = {} /\ "gone" \notin Files
              /\ old \subseteq {"gone"}
          BY <1>1, EntriesLie DEF FormatTypes
        <4> QED
          BY <1>8, <2>2, <4>1 DEF Files
      <3>2. \A f \in Extras \ failures : f \in DOMAIN release /\ release[f] = TextOfExtras
        BY <2>2 DEF FormatInv, AfterSecond
      <3>3. OnlyAt(e, release, release')
        BY <1>1, <2>2 DEF Target
      <3> QED
        BY <1>1, <3>1, <3>2, <3>3 DEF AfterSecond, OnlyAt, TextOfExtras
    <2> QED
      BY <2>1, <2>2
  <1>14. AfterThird'
    BY <1>1 DEF AfterThird
  <1> QED
    BY <1>2, <1>3, <1>5, <1>9, <1>10, <1>11, <1>12, <1>13, <1>14

(* The pass is over with one entry: the invariant after it.                *)
LEMMA EntryKeeps ==
    ASSUME FormatInv, pass \in 1..3, NEW e \in entries, NEW found \in Seq(Folders),
           e \in Folders => found = <<e>> \/ e \in failures',
           EntryDone(e, found), DealsWith(e), fate' = fate
    PROVE  FormatInv'
  <1>1. /\ FormatTypes /\ source' = source /\ old' = old /\ pass' = pass
        /\ failures' \subseteq Entries \cup {"gone"} /\ Closed(failures')
    BY DEF FormatInv, DealsWith
  <1>2. /\ TargetKept(e) /\ Arrived(e)' /\ Walked' = Walked /\ LetIn' = LetIn
        /\ DOMAIN format' \subseteq Folders \cup Sources \cup old'
        /\ DOMAIN release' \subseteq Folders \cup Files \cup old'
        /\ Root \in DOMAIN format'
        /\ AfterFirst' /\ AfterSecond' /\ AfterThird'
    BY TreesKept
  <1>3. PICK S \in SUBSET Folders : WalkOf(S)
    BY DEF FormatInv
  <1>4. (\E T \in SUBSET Folders : WalkOf(T))'
    BY <1>1, <1>2, <1>3, EntryWalk
  <1>5. /\ col' \in Seq(Folders) /\ entries' = entries \ {e}
        /\ entries' # {} => col' # << >> /\ Head(col') = Head(col)
    BY <1>1, FormatList
  <1>6. entries \subseteq ListingOf(Head(col))
    BY DEF FormatInv, FormatTypes
  <1>7. \A x \in ListingOf(Head(col)) : x \in Walked' /\ x # Root /\ x \in LetIn'
                                        /\ Parent(x) = Head(col)
    BY <1>2 DEF ListingOf
  <1>8. entries' # {} => col' # << >> /\ entries' \subseteq ListingOf(Head(col))'
    BY <1>5, <1>6, <1>7 DEF ListingOf, Parent
  <1>9. FormatTypes'
    BY <1>1, <1>2, <1>5, <1>8 DEF FormatTypes
  <1>10. Closed(failures)'
    BY <1>1 DEF Closed, Parent
  <1> QED
    BY <1>2, <1>4, <1>9, <1>10 DEF FormatInv

(* The program ends at one entry: the invariant there.                     *)
LEMMA EntryHalts ==
    ASSUME FormatInv, pass \in 1..3, NEW e \in entries, e \in failures',
           UNCHANGED frameVars, DealsWith(e), fate' = "thrown"
    PROVE  FormatInv'
  <1>1. /\ FormatTypes /\ source' = source /\ old' = old /\ pass' = pass
        /\ failures' \subseteq Entries \cup {"gone"} /\ Closed(failures')
        /\ col' = col /\ entries' = entries
    BY DEF FormatInv, DealsWith, frameVars
  <1>2. /\ TargetKept(e) /\ Walked' = Walked /\ LetIn' = LetIn
        /\ DOMAIN format' \subseteq Folders \cup Sources \cup old'
        /\ DOMAIN release' \subseteq Folders \cup Files \cup old'
        /\ Root \in DOMAIN format'
        /\ AfterFirst' /\ AfterSecond' /\ AfterThird'
    BY TreesKept
  <1>3. PICK S \in SUBSET Folders : WalkOf(S)
    BY DEF FormatInv
  <1>4. (\E T \in SUBSET Folders : WalkOf(T))'
    BY <1>2, <1>3, HaltedWalk
  <1>5. ListingOf(Head(col))' = ListingOf(Head(col))
    BY <1>1, <1>2 DEF ListingOf, Parent
  <1>6. FormatTypes'
    BY <1>1, <1>2, <1>5 DEF FormatTypes
  <1>7. Closed(failures)'
    BY <1>1 DEF Closed, Parent
  <1> QED
    BY <1>2, <1>4, <1>6, <1>7 DEF FormatInv

(* A walk that is over has been everywhere.                                *)
LEMMA WalkedAll ==
    ASSUME FormatInv, pass \in 1..3, col = << >>
    PROVE  \A x \in Walked \ {Root} : x \in LetIn => Arrived(x)
  <1>1. FormatTypes /\ entries = {}
    BY DEF FormatInv, FormatTypes
  <1>2. PICK S \in SUBSET Folders : WalkOf(S)
    BY DEF FormatInv
  <1>3. \A d : ~InList(d)
    BY DEF InList, WaitsIn
  <1>4. /\ Root \in S
        /\ \A x \in Walked \ {Root} : x \in LetIn /\ Parent(x) \in S => DoneWith(x, S)
    BY <1>2, <1>3 DEF WalkOf, Over
  <1>5. /\ Folders \subseteq Entries \cup {Root} /\ "gone" \notin Folders
        /\ \A x \in Walked \ {Root} : Parent(x) \in Folders
    BY <1>1, EntriesLie
  <1>6. \A x \in Folders \ {Root} : /\ x \in failures \/ x \in Walked
                                   /\ x \in LetIn /\ Parent(x) = ParentOf[x]
    <2>1. pass = 3 => Folders \ failures \subseteq DOMAIN format
      BY DEF FormatInv, AfterFirst
    <2> QED
      BY <1>5, <2>1 DEF Walked, LetIn, LetInByFilter, LetInByFilter2, Parent
  <1>7. \A x \in Entries \cup {"gone"} : Parent(x) \in failures => x \in failures
    BY DEF FormatInv, Closed
  <1>8. Folders \ failures \subseteq S
    <2> SUFFICES ASSUME (Folders \ failures) \ S # {} PROVE FALSE
      OBVIOUS
    <2>1. PICK d \in (Folders \ failures) \ S : ParentOf[d] \notin (Folders \ failures) \ S
      <3>1. (Folders \ failures) \ S \in SUBSET (Folders \ {Root})
        BY <1>4
      <3> QED
        BY <3>1, NoLoopAssumption
    <2>2. d \in Entries /\ d \in Walked \ {Root} /\ d \in LetIn
      BY <1>4, <1>5, <1>6, <2>1
    <2>3. Parent(d) \in Folders /\ Parent(d) \notin failures
      BY <1>5, <1>7, <2>1, <2>2
    <2>4. Parent(d) \in S
      BY <1>4, <1>6, <2>1, <2>3
    <2> QED
      BY <1>3, <1>4, <2>1, <2>2, <2>4 DEF DoneWith
  <1>9. ASSUME NEW x \in Walked \ {Root}, x \in LetIn PROVE Arrived(x)
    <2>1. CASE Parent(x) \in failures
      <3>1. Walked \subseteq Entries \cup {Root, "gone"}
        BY <1>1, TreeAssumption, KindsAssumption DEF Walked, FormatTypes
      <3>2. x \in failures
        BY <1>7, <1>9, <2>1, <3>1
      <3> QED
        BY <3>2 DEF Arrived
    <2>2. CASE Parent(x) \notin failures
      BY <1>4, <1>5, <1>8, <1>9, <2>2 DEF DoneWith
    <2> QED
      BY <2>1, <2>2
  <1> QED
    BY <1>9

(* A walk that starts has been nowhere.                                    *)
LEMMA WalkBegins ==
    ASSUME StartWalk
    PROVE  /\ (\E T \in SUBSET Folders : WalkOf(T))'
           /\ col' \in Seq(Folders) /\ entries' = {}
  <1>1. Root \in Folders
    BY TreeAssumption
  <1>2. col' = <<Root>> /\ entries' = {}
    BY DEF StartWalk, m_pref
  <1>3. 1 \in DOMAIN <<Root>> /\ <<Root>>[1] = Root
    OBVIOUS
  <1>4. WaitsIn(col', Root)
    BY <1>2, <1>3 DEF WaitsIn
  <1>5. \A x : ~Over(x, {})'
    BY <1>2 DEF Over
  <1>6. WalkOf({})'
    BY <1>4, <1>5 DEF WalkOf, InList
  <1> QED
    BY <1>1, <1>2, <1>6

(* The invariant holds at the start, and every step keeps it.              *)
LEMMA FormatStarts == ASSUME FormatInit PROVE FormatInv
  <1>1. old \subseteq {"gone"} /\ DOMAIN format = old /\ DOMAIN release = old
    BY DEF FormatInit
  <1>2. /\ col = << >> /\ entries = {} /\ pass = 0 /\ failures = {}
        /\ source \in [Sources -> Contents] /\ << >> \in Seq(Folders)
    BY DEF FormatInit, FrameInit
  <1>3. fate = "runs"
    BY DEF FormatInit
  <1>4. FormatTypes
    BY <1>1, <1>2, <1>3 DEF FormatTypes
  <1> QED
    BY <1>2, <1>4 DEF FormatInv, Closed, AfterFirst, AfterSecond, AfterThird

(* Every step of the program keeps the invariant.                          *)
LEMMA FormatStep == ASSUME FormatInv, [FormatNext]_formatVars PROVE FormatInv'
  <1>0. FormatTypes
    BY DEF FormatInv
  <1>1. ASSUME UNCHANGED <<source, treeVars, old, pass, frameVars, failures>>,
               fate' \in {"runs", "refused", "endless", "thrown"}
        PROVE  FormatInv'
    BY <1>1 DEF treeVars, frameVars, FormatInv, FormatTypes, Closed, WalkOf, Over,
         DoneWith, Arrived, InList, WaitsIn, ListingOf, Walked, LetIn, Target, Content, Written,
         AfterFirst, AfterSecond, AfterThird
  <1>2. CASE Prepare
    <2>1. /\ pass' = 1 /\ DOMAIN format' = DOMAIN format \cup {Root}
          /\ DOMAIN release' = DOMAIN release \cup {Root} /\ StartWalk
          /\ source' = source /\ old' = old /\ fate' = fate /\ failures' = failures
      BY <1>2 DEF Prepare
    <2>2. /\ (\E T \in SUBSET Folders : WalkOf(T))'
          /\ col' \in Seq(Folders) /\ entries' = {}
      BY <2>1, WalkBegins
    <2>3. FormatTypes'
      BY <1>0, <2>1, <2>2, TreeAssumption DEF FormatTypes
    <2> QED
      BY <2>1, <2>2, <2>3 DEF FormatInv, Closed, AfterFirst, AfterSecond, AfterThird
  <1>3. CASE SearchFolder
    <2>1. /\ OpenFolder(ListingOf(Head(col)))
          /\ UNCHANGED <<source, treeVars, old, pass, failures>> /\ fate' = fate
      BY <1>3 DEF SearchFolder, ListingOf
    <2>2. pass \in 1..3
      BY <1>0, <2>1 DEF OpenFolder, Walking, FormatTypes
    <2>3. PICK S \in SUBSET Folders : WalkOf(S)
      BY <2>2 DEF FormatInv
    <2>4. /\ (\E T \in SUBSET Folders : WalkOf(T))'
          /\ col' \in Seq(Folders)
          /\ entries' # {} => col' # << >> /\ entries' \subseteq ListingOf(Head(col))'
      BY <1>0, <2>1, <2>3, FolderWalk
    <2>5. FormatTypes'
      BY <1>0, <2>1, <2>2, <2>4 DEF FormatTypes, treeVars
    <2>6. AfterFirst' /\ AfterSecond' /\ AfterThird' /\ Closed(failures)'
      BY <2>1 DEF FormatInv, AfterFirst, AfterSecond, AfterThird, treeVars, Closed
    <2> QED
      BY <2>4, <2>5, <2>6 DEF FormatInv
  <1>4. CASE SearchFails
    <2>1. /\ OpendirFails /\ failures' = failures \cup Below(Head(col))
          /\ UNCHANGED <<source, treeVars, old, pass>> /\ fate' = fate
      BY <1>4 DEF SearchFails, GivesUp
    <2>2. pass \in 1..3
      BY <1>0, <2>1 DEF OpendirFails, Walking, FormatTypes
    <2>3. PICK S \in SUBSET Folders : WalkOf(S)
      BY <2>2 DEF FormatInv
    <2>4. /\ (\E T \in SUBSET Folders : WalkOf(T))'
          /\ col' \in Seq(Folders) /\ entries' = {}
      BY <1>0, <2>1, <2>3, LostWalk
    <2>5. Closed(failures') /\ failures' \subseteq Entries \cup {"gone"}
          /\ failures \subseteq failures'
      BY <1>0, <2>1, LostBelow DEF FormatInv, FormatTypes
    <2>6. FormatTypes'
      BY <1>0, <2>1, <2>2, <2>4, <2>5 DEF FormatTypes, treeVars
    <2>7. AfterFirst' /\ AfterSecond' /\ AfterThird'
      BY <2>1, <2>5 DEF FormatInv, AfterFirst, AfterSecond, AfterThird, treeVars, TextOfExtras
    <2>8. Closed(failures)'
      BY <2>5 DEF Closed, Parent
    <2> QED
      BY <2>4, <2>6, <2>7, <2>8 DEF FormatInv
  <1>5. failures \subseteq Entries \cup {"gone"} /\ Closed(failures)
        /\ (entries # {} => pass \in 1..3)
    BY <1>0 DEF FormatInv, FormatTypes
  <1>6. ASSUME NEW f \in entries, f \notin Folders, failures' = failures \cup {f}
        PROVE  /\ Closed(failures') /\ failures' \subseteq Entries \cup {"gone"}
               /\ failures \subseteq failures'
    <2>1. f \in Walked /\ f # Root
      BY <1>0, EntriesLie
    <2>2. f \in Entries \cup {"gone"}
      BY <1>0, <2>1, TreeAssumption, KindsAssumption DEF Walked, FormatTypes
    <2>3. \A x \in Entries \cup {"gone"} : Parent(x) \in Folders
      BY TreeAssumption DEF Parent, Entries
    <2> QED
      BY <1>5, <1>6, <2>2, <2>3 DEF Closed
  <1>7. ASSUME NEW e \in entries, ProcessFolder(e) PROVE FormatInv'
    <2>1. /\ e \in Folders /\ Processed(e, <<e>>) /\ fate' = fate /\ failures' = failures
          /\ IF e \notin DOMAIN Target THEN Put(e, Gone) ELSE UNCHANGED treeVars
      BY <1>7 DEF ProcessFolder
    <2>2. <<e>> \in Seq(Folders) /\ pass \in 1..3
          /\ EntryDone(e, <<e>>) /\ UNCHANGED <<source, old, pass>>
      BY <1>5, <2>1 DEF Processed
    <2>3. /\ OnlyAt(e, Target, Target') /\ e \in DOMAIN Target'
          /\ IF pass = 1 THEN UNCHANGED release ELSE UNCHANGED format
      BY <2>1, <2>2, PutIs, NothingPut
    <2>4. DealsWith(e)
      BY <1>5, <2>1, <2>2, <2>3 DEF DealsWith
    <2> QED
      BY <2>1, <2>2, <2>4, EntryKeeps
  <1>8. ASSUME NEW e \in entries, MkdirFails(e) PROVE FormatInv'
    <2>1. /\ e \in Folders /\ Processed(e, << >>) /\ fate' = fate
          /\ failures' = failures \cup ({e} \cup Below(e)) /\ UNCHANGED treeVars
      BY <1>8 DEF MkdirFails, GivesUp
    <2>2. << >> \in Seq(Folders) /\ pass \in 1..3
          /\ EntryDone(e, << >>) /\ UNCHANGED <<source, old, pass>>
      BY <1>5, <2>1 DEF Processed
    <2>3. /\ OnlyAt(e, Target, Target')
          /\ IF pass = 1 THEN UNCHANGED release ELSE UNCHANGED format
      BY <2>1, <2>2, NothingPut
    <2>4. e \in Entries
      <3>1. e # Root
        BY <1>0, EntriesLie
      <3> QED
        BY <2>1, <3>1, TreeAssumption DEF Entries
    <2>5. failures' = failures \cup {e} \cup Below(e)
      BY <2>1
    <2>6. /\ Closed(failures') /\ failures' \subseteq Entries \cup {"gone"}
          /\ failures \subseteq failures' /\ e \in failures'
      BY <1>5, <2>4, <2>5, LostBelow
    <2>7. DealsWith(e)
      BY <2>2, <2>3, <2>6 DEF DealsWith
    <2> QED
      BY <2>1, <2>2, <2>6, <2>7, EntryKeeps
  <1>9. ASSUME NEW e \in entries, ProcessFile(e) PROVE FormatInv'
    <2>1. /\ e \notin Folders /\ Put(e, Written(Content(e))) /\ Processed(e, << >>)
          /\ fate' = fate /\ failures' = failures
      BY <1>9 DEF ProcessFile
    <2>2. << >> \in Seq(Folders) /\ pass \in 1..3
          /\ EntryDone(e, << >>) /\ UNCHANGED <<source, old, pass>>
      BY <1>5, <2>1 DEF Processed
    <2>3. /\ OnlyAt(e, Target, Target') /\ e \in DOMAIN Target'
          /\ Target'[e] = Written(Content(e))
          /\ IF pass = 1 THEN UNCHANGED release ELSE UNCHANGED format
      BY <2>1, <2>2, PutIs
    <2>4. DealsWith(e)
      BY <1>5, <2>1, <2>2, <2>3 DEF DealsWith
    <2> QED
      BY <2>1, <2>2, <2>4, EntryKeeps
  <1>10. ASSUME NEW e \in entries, ProcessLongLine(e) PROVE FormatInv'
    <2>1. fate' = "endless" /\ UNCHANGED <<source, treeVars, old, pass, frameVars, failures>>
      BY <1>10 DEF ProcessLongLine
    <2> QED
      BY <1>1, <2>1
  <1>11. ASSUME NEW e \in entries, ProcessFails(e) PROVE FormatInv'
    <2>1. /\ e \notin Folders
          /\ Put(e, << >>) \/ UNCHANGED treeVars \/ Removed(e)
          /\ Processed(e, << >>) /\ fate' = fate /\ failures' = failures \cup {e}
      BY <1>11 DEF ProcessFails, GivesUp
    <2>2. << >> \in Seq(Folders) /\ pass \in 1..3
          /\ EntryDone(e, << >>) /\ UNCHANGED <<source, old, pass>>
      BY <1>5, <2>1 DEF Processed
    <2>3. /\ OnlyAt(e, Target, Target')
          /\ IF pass = 1 THEN UNCHANGED release ELSE UNCHANGED format
      BY <2>1, <2>2, PutIs, NothingPut, RemovedIs
    <2>4. /\ Closed(failures') /\ failures' \subseteq Entries \cup {"gone"}
          /\ failures \subseteq failures' /\ e \in failures'
      BY <1>6, <2>1
    <2>5. DealsWith(e)
      BY <2>2, <2>3, <2>4 DEF DealsWith
    <2> QED
      BY <2>1, <2>2, <2>4, <2>5, EntryKeeps
  <1>12. ASSUME NEW e \in entries, FlushThrows(e) PROVE FormatInv'
    <2>1. /\ e \notin Folders /\ Put(e, << >>) /\ fate' = "thrown"
          /\ failures' = failures \cup {e} /\ UNCHANGED <<source, old, pass, frameVars>>
      BY <1>12 DEF FlushThrows, GivesUp
    <2>2. pass \in 1..3
      BY <1>5
    <2>3. /\ OnlyAt(e, Target, Target')
          /\ IF pass = 1 THEN UNCHANGED release ELSE UNCHANGED format
      BY <2>1, PutIs
    <2>4. /\ Closed(failures') /\ failures' \subseteq Entries \cup {"gone"}
          /\ failures \subseteq failures' /\ e \in failures'
      BY <1>6, <2>1
    <2>5. DealsWith(e)
      BY <2>1, <2>3, <2>4 DEF DealsWith
    <2> QED
      BY <2>1, <2>2, <2>4, <2>5, EntryHalts
  <1>13. CASE NextPass
    <2>1. /\ pass \in 1..3 /\ col = << >> /\ pass' = pass + 1
          /\ IF pass < 3 THEN StartWalk ELSE UNCHANGED frameVars
          /\ UNCHANGED <<source, treeVars, old, fate, failures>>
      BY <1>13 DEF NextPass, Walking
    <2>2. \A x \in Walked \ {Root} : x \in LetIn => Arrived(x)
      BY <2>1, WalkedAll
    <2>3. /\ Root \notin Sources \cup Extras /\ "gone" \notin Folders \cup Files
          /\ Folders \cap Files = {} /\ Files \subseteq Entries
                 /\ Folders \subseteq Entries \cup {Root}
      BY <1>0, EntriesLie
    <2>4. entries' = {} /\ col' \in Seq(Folders) /\ (pass = 3 => col' = << >>)
          /\ (pass < 3 => (\E T \in SUBSET Folders : WalkOf(T))')
      <3>1. CASE pass < 3
        BY <2>1, <3>1, WalkBegins
      <3>2. CASE ~(pass < 3)
        BY <1>0, <2>1, <3>2 DEF frameVars, FormatTypes
      <3> QED
        BY <2>1, <3>1, <3>2
    <2>5. FormatTypes'
      BY <1>0, <2>1, <2>4 DEF FormatTypes, treeVars
    <2>6. AfterFirst'
      <3>1. CASE pass = 1
        <4>1. \A x \in Folders \cup Sources : x # Root => Arrived(x)
          BY <2>2, <2>3, <3>1 DEF Walked, LetIn, LetInByFilter, Files
        <4>2. ASSUME NEW x \in Folders \ failures PROVE x \in DOMAIN format
          <5>1. x \notin failures /\ (x = Root => x \in DOMAIN format)
            BY <1>0, <3>1 DEF FormatTypes
          <5> QED
            BY <3>1, <4>1, <5>1 DEF Arrived, Target
        <4>3. ASSUME NEW f \in Sources \ failures
              PROVE  f \in DOMAIN format /\ format[f] = WithoutWindows(source[f])
          <5>1. Arrived(f) /\ f \notin Folders
            BY <2>3, <4>1 DEF Files
          <5> QED
            BY <3>1, <5>1 DEF Arrived, Target, Written, Content
        <4> QED
          BY <2>1, <4>2, <4>3 DEF AfterFirst, treeVars
      <3>2. CASE pass \in {2, 3}
        BY <2>1, <3>2 DEF FormatInv, AfterFirst, treeVars
      <3> QED
        BY <2>1, <3>1, <3>2
    <2>7. AfterSecond'
      <3>1. CASE pass = 1
        BY <2>1, <3>1 DEF AfterSecond
      <3>2. CASE pass = 2
        <4>1. ASSUME NEW f \in Extras \ failures
              PROVE  f \in DOMAIN release /\ release[f] = TextOfExtras
          <5>1. Arrived(f) /\ f \notin Folders
            BY <2>2, <2>3, <3>2 DEF Walked, LetIn, LetInByFilter2, Files
          <5> QED
            BY <3>2, <5>1 DEF Arrived, Target, Written, Content
        <4> QED
          BY <2>1, <4>1 DEF AfterSecond, treeVars, TextOfExtras
      <3>3. CASE pass = 3
        BY <2>1, <3>3 DEF FormatInv, AfterSecond, treeVars
      <3> QED
        BY <2>1, <3>1, <3>2, <3>3
    <2>8. AfterThird'
      <3>1. CASE pass \in {1, 2}
        BY <2>1, <3>1 DEF AfterThird
      <3>2. CASE pass = 3
        <4>1. ASSUME NEW f \in Sources \ failures
              PROVE  f \in DOMAIN release /\ release[f] = WithoutLinux(format[f])
          <5>1. f \in DOMAIN format
            BY <3>2 DEF FormatInv, AfterFirst
          <5>2. Arrived(f) /\ f \notin Folders
            BY <2>2, <2>3, <3>2, <5>1 DEF Walked, LetIn, LetInByFilter, Files
          <5> QED
            BY <3>2, <5>2 DEF Arrived, Target, Written, Content
        <4> QED
          BY <2>1, <4>1 DEF AfterThird, treeVars
      <3> QED
        BY <2>1, <3>1, <3>2
    <2>9. Closed(failures)'
      BY <1>5, <2>1 DEF Closed
    <2> QED
      BY <2>1, <2>4, <2>5, <2>6, <2>7, <2>8, <2>9 DEF FormatInv
  <1>14. CASE PrepareFails
    <2>1. fate' = "refused" /\ UNCHANGED <<source, treeVars, old, pass, frameVars, failures>>
      BY <1>14 DEF PrepareFails
    <2> QED
      BY <1>1, <2>1
  <1>15. CASE UNCHANGED formatVars
    <2>1. /\ UNCHANGED <<source, treeVars, old, pass, frameVars, failures>>
          /\ fate' \in {"runs", "refused", "endless", "thrown"}
      BY <1>0, <1>15 DEF formatVars, ownFormatVars, frameVars, treeVars, FormatTypes
    <2> QED
      BY <1>1, <2>1
  <1> QED
    BY <1>2, <1>3, <1>4, <1>7, <1>8, <1>9, <1>10, <1>11, <1>12, <1>13, <1>14, <1>15
       DEF FormatNext

(* The walks of the release program keep their invariant.                  *)
THEOREM FormatInvariant == FormatSpec => []FormatInv
  <1>1. FormatInit => FormatInv
    BY FormatStarts
  <1>2. FormatInv /\ [FormatNext]_formatVars => FormatInv'
    BY FormatStep
  <1> QED
    BY <1>1, <1>2, PTL DEF FormatSpec

(* When the passes are over, each source file that could be read and       *)
(* written, as could the folders above it, is in the release, with exactly *)
(* the lines that a Linux compiler sees of it if its blocks are tagged;    *)
(* each other such file is there as it was, and nothing else is but what   *)
(* an earlier run has left.                                                *)
THEOREM ReleaseIsRight == FormatSpec => []ReleaseIsTheSource
  <1>1. FormatInv => ReleaseIsTheSource
    <2> SUFFICES ASSUME FormatInv, pass = 4 PROVE ReleaseIsTheSource
      BY DEF ReleaseIsTheSource
    <2>1. ASSUME NEW f \in Sources \ failures
          PROVE  /\ f \in DOMAIN release
                 /\ Tagged(source[f]) => release[f] = CompiledOnLinux(source[f])
      <3>1. PICK c : c = source[f]
        OBVIOUS
      <3>2. c \in Contents
        BY <3>1 DEF FormatInv, FormatTypes
      <3>3. c \in Contents0 /\ Compiles(c)
        BY <3>2, ContentsAssumption DEF Contents0
      <3>4. Tagged(c) => WithoutLinux(WithoutWindows(c)) = CompiledOnLinux(c)
        BY <3>3, BothPasses
      <3>5. /\ f \in DOMAIN release /\ release[f] = WithoutLinux(format[f])
            /\ format[f] = WithoutWindows(c)
        BY <3>1 DEF FormatInv, AfterFirst, AfterThird
      <3> QED
        BY <3>1, <3>4, <3>5
    <2>2. /\ \A f \in Extras \ failures : f \in DOMAIN release /\ release[f] = TextOfExtras
          /\ DOMAIN release \subseteq Folders \cup Files \cup old
      BY DEF FormatInv, FormatTypes, AfterSecond
    <2> QED
      BY <2>1, <2>2 DEF ReleaseIsTheSource
  <1> QED
    BY <1>1, FormatInvariant, PTL

(* Every variable of the release program stays in its type. *)
THEOREM FormatTypeCorrect == FormatSpec => []FormatTypeOK
  <1>1. FormatInv => FormatTypeOK
    <2> SUFFICES ASSUME FormatInv PROVE FormatTypeOK
      OBVIOUS
    <2>1. FormatTypes
      BY DEF FormatInv
    <2>2. entries \subseteq Entries \cup {"gone"}
      BY <2>1, EntriesLie DEF FormatTypes
    <2>3. DOMAIN format \cup DOMAIN release \subseteq Entries \cup {Root, "gone"}
      <3>1. Folders \cup Files \subseteq Entries \cup {Root} /\ Sources \subseteq Files
        BY <2>1, EntriesLie DEF Files
      <3> QED
        BY <2>1, <3>1 DEF FormatTypes
    <2> QED
      BY <2>1, <2>2, <2>3 DEF FormatTypes, FormatTypeOK
  <1> QED
    BY <1>1, FormatInvariant, PTL

=============================================================================
