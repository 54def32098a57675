------------------------------ MODULE BackupPass ------------------------------
(***************************************************************************)
(* One window of one brick, from the directory walk down to the disks: the *)
(* walk of file_frame.cpp, the callbacks of backup_worker.cpp, and         *)
(* create_dir and copy of disk_container.cpp on disks that have folders.   *)
(*                                                                         *)
(* BackupWorker calls a file backed up when it was handed to copy, and     *)
(* DiskContainer has files but no folders.  Here a file is backed up when  *)
(* a disk holds it.  A folder of the brick is made on the disk that is     *)
(* there when the walk meets the folder; its files are copied later, to    *)
(* the disk that is there then.                                            *)
(*                                                                         *)
(* The operator exchanges the disk when no file of it is open.  A process  *)
(* that ends leaves the window to the next, which walks again.  The first  *)
(* walk finds what windows before it have left: folders, files of the      *)
(* version that is due, of another version, and rows of the file log,      *)
(* which has one row for a path, whatever version and brick it is of.      *)
(***************************************************************************)
EXTENDS FileFrame, Naturals, FiniteSets

CONSTANTS
    Due,                \* files whose time lies in the window
    Media,              \* the disks
    Capacity,           \* files that a disk has room for
    MaxWalks,           \* bound on starts of the worker
    MaxExchanges,       \* bound on exchanges of the disk
    MaxPassFaults       \* bound on calls that fail

ASSUME DueAssumption == Due \subseteq Entries \ Folders /\ IsFiniteSet(Due)
ASSUME PassBounds ==
    /\ Capacity \in Nat \ {0}
    /\ MaxWalks \in Nat /\ MaxExchanges \in Nat /\ MaxPassFaults \in Nat

VARIABLES
    bpc,                \* control point of the worker
    file,               \* the file in copy
    mounted,            \* the disk at m_dir
    made,               \* folders on each disk
    held,               \* each file on each disk, see HeldStates
    logged,             \* DISK_FILE: paths that are on some disk
    m_target_space_used,
    semaphore,          \* the brick's stop signal is up
    count_success, count_file_err, count_folder_err,
    (* history *)
    unread,             \* folders that could not be opened in this walk
    clean,              \* nothing failed and no disk was exchanged in this walk
    doubtful,           \* files of which a row or a file says more than is true
    walks, exchanges, passFaults

diskVars == <<mounted, made, held, logged>>
counts == <<count_success, count_file_err, count_folder_err>>
workerVars == <<bpc, file, m_target_space_used, semaphore, counts>>
passGhosts == <<unread, clean, doubtful, walks, exchanges, passFaults>>
ownPassVars == <<workerVars, diskVars, passGhosts>>
passVars == <<frameVars, ownPassVars>>

NoFile == "none"

(* A file on a disk is none; of another length than the source, which a    *)
(* copy that did not come to its end leaves; of its length, but not its    *)
(* content; or the file that is due.                                       *)
HeldStates == {"none", "part", "alike", "full"}

FilesOn(d) == Cardinality({f \in Due : held[d][f] # "none"})

Held(f) == \E d \in Media : held[d][f] = "full"

(* The folders of S lie in folders of S, but for the root.                 *)
Upward(S) == \A d \in S \ {Root} : ParentOf[d] \in S

PassInit ==
    /\ FrameInit
    /\ bpc = "down"
    /\ file = NoFile
    /\ mounted \in Media
    /\ made \in [Media -> {S \in SUBSET Folders : Root \in S /\ Upward(S)}]
    /\ held \in [Media -> [Due -> HeldStates]]
    /\ \A d \in Media : FilesOn(d) <= Capacity
    /\ \A d \in Media, f \in Due : held[d][f] # "none" => ParentOf[f] \in made[d]
    /\ logged \in SUBSET Due
    /\ doubtful = {f \in Due : \/ f \in logged /\ ~Held(f)
                              \/ \E d \in Media : held[d][f] = "alike"}
    /\ m_target_space_used = 0
    /\ semaphore = FALSE
    /\ count_success = 0 /\ count_file_err = 0 /\ count_folder_err = 0
    /\ unread = {}
    /\ clean = TRUE
    /\ walks = 0 /\ exchanges = 0 /\ passFaults = 0

-----------------------------------------------------------------------------

FolderThere(d, e) == ParentOf[e] \in made[d]

CallFails ==
    /\ passFaults < MaxPassFaults
    /\ passFaults' = passFaults + 1
    /\ clean' = FALSE

NothingFails == UNCHANGED <<clean, passFaults>>

PutOnDisk(f, state) == held' = [held EXCEPT ![mounted][f] = state]

-----------------------------------------------------------------------------
(* Seeded faults: a folder is asked for its time like a file; a copy that  *)
(* fails is reported as if it had gone well.                               *)

OnlyDue(e) == e \in Due
Succeeds == [success |-> 1, file_err |-> 0, folder_err |-> 0]

-----------------------------------------------------------------------------
(* _filter lets a file of the window in, and every folder.                 *)
FilterIn(e) == isfolder(e) \/ e \in Due

(* What the result of an entry adds to the counts.                         *)
BK_BACKUP_FILE_ERR == [success |-> 0, file_err |-> 1, folder_err |-> 0]
BK_BACKUP_FOLDER_ERR == [success |-> 0, file_err |-> 0, folder_err |-> 1]
BK_SUCESS_FILE == [success |-> 1, file_err |-> 0, folder_err |-> 0]
BK_SUCESS_FOLDER == [success |-> 0, file_err |-> 0, folder_err |-> 0]

(* What copy returns when it has not copied.                               *)
CopyErr == BK_BACKUP_FILE_ERR

Statistic(ret) ==
    /\ count_success' = count_success + ret.success
    /\ count_file_err' = count_file_err + ret.file_err
    /\ count_folder_err' = count_folder_err + ret.folder_err

-----------------------------------------------------------------------------
(* The walk                                                                *)

(* A worker is made, its init accepts the disk, and a window begins.       *)
StartPass ==
    /\ bpc = "down"
    /\ walks < MaxWalks
    /\ FilesOn(mounted) < Capacity
    /\ bpc' = "walk"
    /\ StartWalk
    /\ m_target_space_used' = FilesOn(mounted)
    /\ semaphore' = FALSE
    /\ count_success' = 0 /\ count_file_err' = 0 /\ count_folder_err' = 0
    /\ unread' = {} /\ clean' = TRUE
    /\ walks' = walks + 1
    /\ UNCHANGED <<file, diskVars, doubtful, exchanges, passFaults>>

SearchByFolder ==
    /\ bpc = "walk"
    /\ \/ /\ OpenFolder({e \in Entries : ParentOf[e] = Head(col)})
          /\ NothingFails /\ UNCHANGED unread
       \/ /\ OpendirFails
          /\ CallFails /\ unread' = unread \cup {Head(col)}
    /\ UNCHANGED <<workerVars, diskVars, doubtful, walks, exchanges>>

(* The filter's first question, for whatever entry is next.                *)
FrameStop ==
    /\ bpc = "walk" /\ entries # {}
    /\ semaphore
    /\ bpc' = "stopped"
    /\ UNCHANGED <<frameVars, file, m_target_space_used, semaphore, counts, diskVars,
                   passGhosts>>

Asked(e) ==
    /\ bpc = "walk"
    /\ ~semaphore
    /\ e \in entries

FilterOut(e) ==
    /\ Asked(e)
    /\ ~FilterIn(e)
    /\ EntryDone(e, << >>)
    /\ UNCHANGED <<workerVars, diskVars, passGhosts>>

(* A folder is made unless it is there, and searched later in any case.    *)
CreateDir(e) ==
    /\ Asked(e)
    /\ isfolder(e) /\ FilterIn(e)
    /\ \/ /\ FolderThere(mounted, e)
          /\ made' = [made EXCEPT ![mounted] = @ \cup {e}]
          /\ Statistic(BK_SUCESS_FOLDER)
          /\ NothingFails
       \/ /\ e \notin made[mounted]
          /\ IF FolderThere(mounted, e) THEN CallFails ELSE NothingFails
          /\ Statistic(BK_BACKUP_FOLDER_ERR)
          /\ UNCHANGED made
    /\ EntryDone(e, <<e>>)
    /\ UNCHANGED <<bpc, file, m_target_space_used, semaphore, mounted, held, logged,
                   unread, doubtful, walks, exchanges>>

HandToCopy(f) ==
    /\ Asked(f)
    /\ ~isfolder(f) /\ FilterIn(f)
    /\ bpc' = "copy"
    /\ file' = f
    /\ UNCHANGED <<frameVars, m_target_space_used, semaphore, counts, diskVars,
                   passGhosts>>

(* The list is empty, and the window is done.                              *)
PassEnds ==
    /\ bpc = "walk" /\ ~Walking
    /\ bpc' = "over"
    /\ UNCHANGED <<frameVars, file, m_target_space_used, semaphore, counts, diskVars,
                   passGhosts>>

-----------------------------------------------------------------------------
(* copy                                                                    *)

(* copy returns, and the walk takes the next entry.                        *)
Returns(ret) ==
    /\ bpc' = "walk"
    /\ file' = NoFile
    /\ Statistic(ret)
    /\ EntryDone(file, << >>)
    /\ UNCHANGED <<mounted, made, unread, walks, exchanges>>

BelievesFull == m_target_space_used >= Capacity

(* init looks at the disk again: it may be another one.                    *)
AsksForDisk ==
    /\ bpc = "copy"
    /\ BelievesFull
    /\ FilesOn(mounted) < Capacity
    /\ m_target_space_used' = FilesOn(mounted)
    /\ UNCHANGED <<frameVars, bpc, file, semaphore, counts, diskVars, passGhosts>>

DiskFull ==
    /\ bpc = "copy"
    /\ BelievesFull
    /\ FilesOn(mounted) >= Capacity
    /\ semaphore' = TRUE
    /\ clean' = FALSE
    /\ Returns(CopyErr)
    /\ UNCHANGED <<held, logged, m_target_space_used, doubtful, passFaults>>

IsBackuped ==
    /\ bpc = "copy" /\ ~BelievesFull
    /\ file \in logged
    /\ Returns(BK_SUCESS_FILE)
    /\ UNCHANGED <<held, logged, m_target_space_used, semaphore, clean, doubtful, passFaults>>

(* The path is not in the file log, or the query fails.                    *)
GoesOn ==
    /\ bpc = "copy" /\ ~BelievesFull
    /\ IF file \in logged THEN CallFails ELSE NothingFails

LengthAlike == held[mounted][file] \in {"full", "alike"}

(* A file of the same length is there; a failure to log it is only a       *)
(* warning.                                                                *)
SameFileThere ==
    /\ GoesOn
    /\ LengthAlike
    /\ logged' \in {logged, logged \cup {file}}
    /\ Returns(BK_SUCESS_FILE)
    /\ UNCHANGED <<held, m_target_space_used, semaphore, doubtful>>

OpenTarget ==
    /\ GoesOn
    /\ ~LengthAlike
    /\ FolderThere(mounted, file)
    /\ PutOnDisk(file, "part")
    /\ bpc' = "write"
    /\ UNCHANGED <<frameVars, file, m_target_space_used, semaphore, counts, mounted, made,
                   logged, unread, doubtful, walks, exchanges>>

(* The folder is not on this disk; or one of the two files cannot be       *)
(* opened, the other being open already.                                   *)
OpenErr ==
    /\ bpc = "copy" /\ ~BelievesFull
    /\ ~LengthAlike
    /\ \/ /\ ~FolderThere(mounted, file)
          /\ IF file \in logged THEN CallFails ELSE NothingFails
          /\ UNCHANGED held
       \/ /\ FolderThere(mounted, file) /\ CallFails
          /\ PutOnDisk(file, "part") \/ UNCHANGED held
    /\ Returns(CopyErr)
    /\ UNCHANGED <<logged, m_target_space_used, semaphore, doubtful>>

(* The log's row may fail to be inserted; nobody asks.                     *)
CopyDone ==
    /\ bpc = "write"
    /\ FilesOn(mounted) <= Capacity
    /\ PutOnDisk(file, "full")
    /\ m_target_space_used' = m_target_space_used + 1
    /\ logged' \in {logged, logged \cup {file}}
    /\ Returns(BK_SUCESS_FILE)
    /\ NothingFails
    /\ UNCHANGED <<semaphore, doubtful>>

(* No room, or a read or write that fails, may end << without an           *)
(* exception: only badbit throws, and a copy that stops sets failbit.      *)
(* What was written is counted, if anything was, and logged like a whole   *)
(* file.                                                                   *)
CopyShort ==
    /\ bpc = "write"
    /\ \/ FilesOn(mounted) > Capacity /\ NothingFails
       \/ CallFails
    /\ \E n \in {0, 1} : m_target_space_used' = m_target_space_used + n
    /\ logged' \in {logged, logged \cup {file}}
    /\ doubtful' = doubtful \cup {file}
    /\ Returns(BK_SUCESS_FILE)
    /\ UNCHANGED <<held, semaphore>>

(* << throws, where the library makes a failed call an exception, and the  *)
(* handler removes the target.                                             *)
WriteErr ==
    /\ bpc = "write"
    /\ CallFails
    /\ PutOnDisk(file, "none")
    /\ Returns(CopyErr)
    /\ UNCHANGED <<logged, m_target_space_used, semaphore, doubtful>>

-----------------------------------------------------------------------------
(* Everybody else                                                          *)

SetSemaphore ==
    /\ bpc \in {"walk", "copy", "write"}
    /\ semaphore' = TRUE
    /\ UNCHANGED <<frameVars, bpc, file, m_target_space_used, counts, diskVars, passGhosts>>

(* The process ends, or a worker that has ended is started again.  A flush *)
(* that fails in copy throws past every handler and ends the process, too: *)
(* the file stays as far as it was written.                                *)
Ends ==
    /\ bpc # "down"
    /\ bpc' = "down"
    /\ file' = NoFile
    /\ col' = << >> /\ entries' = {}
    /\ UNCHANGED <<m_target_space_used, semaphore, counts, diskVars, passGhosts>>

ExchangeDisk(d) ==
    /\ d # mounted
    /\ bpc # "write"
    /\ exchanges < MaxExchanges
    /\ mounted' = d
    /\ clean' = FALSE
    /\ exchanges' = exchanges + 1
    /\ UNCHANGED <<frameVars, workerVars, made, held, logged, unread, doubtful, walks,
                   passFaults>>

(* Another brick logs a file of this path.                                 *)
RowOfOther(f) ==
    /\ f \notin logged
    /\ logged' = logged \cup {f}
    /\ doubtful' = doubtful \cup {f}
    /\ UNCHANGED <<frameVars, workerVars, mounted, made, held, unread, clean, walks, exchanges,
                   passFaults>>

-----------------------------------------------------------------------------

WorkerSteps ==
    \/ SearchByFolder
    \/ FrameStop
    \/ \E e \in entries : FilterOut(e) \/ CreateDir(e) \/ HandToCopy(e)
    \/ PassEnds
    \/ AsksForDisk \/ DiskFull
    \/ IsBackuped \/ SameFileThere
    \/ OpenTarget \/ OpenErr
    \/ CopyDone \/ CopyShort \/ WriteErr

PassNext ==
    \/ StartPass
    \/ WorkerSteps
    \/ SetSemaphore
    \/ Ends
    \/ \E d \in Media : ExchangeDisk(d)
    \/ \E f \in Due : RowOfOther(f)

PassSpec == PassInit /\ [][PassNext]_passVars

-----------------------------------------------------------------------------

(* Every variable stays in its type. *)
PassTypeOK ==
    /\ col \in Seq(Folders)
    /\ entries \subseteq Entries
    /\ bpc \in {"down", "walk", "copy", "write", "over", "stopped"}
    /\ file \in Due \cup {NoFile}
    /\ mounted \in Media
    /\ made \in [Media -> SUBSET Folders]
    /\ held \in [Media -> [Due -> HeldStates]]
    /\ logged \subseteq Due
    /\ m_target_space_used \in Nat
    /\ semaphore \in BOOLEAN
    /\ count_success \in Nat /\ count_file_err \in Nat /\ count_folder_err \in Nat
    /\ unread \subseteq Folders
    /\ clean \in BOOLEAN
    /\ doubtful \subseteq Due
    /\ walks \in 0..MaxWalks
    /\ exchanges \in 0..MaxExchanges
    /\ passFaults \in 0..MaxPassFaults

(* The folders that an entry lies in: its parent, and the parents of those *)
(* but the root's.                                                         *)
Above(e) == {d \in Folders : \A S \in SUBSET Folders : ParentOf[e] \in S /\ Upward(S) => d \in S}

(* A file of a window that was walked to its end is on a disk, or its loss *)
(* was counted, or a folder above it could not be opened (which is         *)
(* logged): no disk that was exchanged, full or half written, no crash,    *)
(* and no row of an earlier walk lets copy report a success for a file     *)
(* that no disk holds.  Four things do, and the property leaves out the    *)
(* files they happen to: a row of the path for another brick or for an     *)
(* earlier version of the file, an old file of the same length on the      *)
(* disk, and a copy that a full disk or a failed write cut short, which    *)
(* << does not report.                                                     *)
LostIsCounted ==
    bpc = "over" =>
        Cardinality({f \in Due \ doubtful : ~Held(f) /\ Above(f) \cap unread = {}})
            <= count_file_err

(* A walk that ends without a failure, on the disk it began on and with    *)
(* room there, leaves every file of its window on some disk, whatever the  *)
(* walks before it have left half done; but for the files of the four      *)
(* exceptions above, for which copy returns a success, too.  (After an     *)
(* exchange it need not: the folders that were made on the old disk are    *)
(* missing on the new one, every file in them fails to open, and the begin *)
(* time passes it.)                                                        *)
CleanWalkIsComplete ==
    bpc = "over" /\ clean => \A f \in Due \ doubtful : Held(f)

=============================================================================
