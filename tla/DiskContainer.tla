---------------------------- MODULE DiskContainer ----------------------------
(***************************************************************************)
(* The target disks: disk_container (src/backup/disk_container.cpp) of     *)
(* each brick's worker, the statements it sends to the database            *)
(* (src/backup/db_exec.cpp) and the mount table of sysinfod                *)
(* (src/syslayer/sysinfod.cpp).                                            *)
(*                                                                         *)
(* Each brick has a directory on which the operator mounts one disk after  *)
(* another.  copy puts a file there, after it has made sure that there is  *)
(* room, and logs which disk holds it.  The worker believes what sysinfod  *)
(* says of its disk, and sysinfod looks once, when the process starts.     *)
(*                                                                         *)
(* A file is its length; it occupies whole blocks of its disk, and so does *)
(* a folder.  The users of a brick may change a file at any time, so what  *)
(* copy reads of a source may be another length each time; and it may end  *)
(* short without an error, since the streams throw for badbit only.  The   *)
(* filter is left out: copy may be given any path at any time.             *)
(*                                                                         *)
(* A directory with nothing mounted on it is a place like a disk, named by *)
(* its brick: what is written there lands on the machine's own disk.       *)
(***************************************************************************)
EXTENDS Integers, FiniteSetsExt

CONSTANTS
    Brick, Path, Disk,
    NoBrick, NoPath, NoDisk,
    Capacity,           \* of a disk
    Block,              \* the unit in which a disk is used
    Foreign,            \* what lies on each disk and is no backup
    Length,             \* the lengths of files in the bricks
    MaxFolders,         \* a bound: blocks that folders take on each disk
    MaxExchanged,       \* a bound: bricks whose disk is exchanged under one process
    Positions           \* numbers of disk positions each brick may have

Place == Disk \cup Brick

ASSUME NullAssumption ==
    /\ NoBrick \notin Brick /\ NoPath \notin Path /\ NoDisk \notin Place
    /\ Brick \cap Disk = {}
ASSUME SpaceAssumption ==
    /\ Capacity \in Nat \ {0}
    /\ Block \in Nat \ {0}
    /\ Foreign \in [Place -> 0..Capacity]
    /\ Length \subseteq Nat
    /\ MaxFolders \in [Place -> Nat]
ASSUME PathAssumption == IsFiniteSet(Path)
ASSUME PositionsAssumption == Positions \in [Brick -> SUBSET Nat]

Absent == -1            \* "length" of a path with no file

VARIABLES
    (* the world *)
    mounted,            \* the disk on each brick's target directory
    content,            \* length of each path on each disk
    folders,            \* what the folders on each disk occupy
    (* the database *)
    BRICK_DISK,         \* the brick each disk is given to, key DISK_ID
    DISK_FILE,          \* the disk each path is logged on, key BK_FILE
    (* the process *)
    m_path_Partition,   \* the disk that sysinfod saw on each directory
    pc,
    m_pos,              \* how many positions the brick was loaded with
    item,               \* the one of them that init is at
    m_curr_disk_id,
    m_target_space_used,
    m_sql,              \* is there a failed statement in the buffer?
    file,               \* the path that copy was given
    (* history *)
    unseen,             \* what a worker took of its disk and did not count
    exchanged           \* bricks whose disk was exchanged under the process

world == <<mounted, content, folders>>
database == <<BRICK_DISK, DISK_FILE>>
container == <<m_pos, item, m_curr_disk_id, m_target_space_used, file, unseen>>
process == <<m_path_Partition, pc, container, m_sql, exchanged>>
vars == <<world, database, process>>

(* A disk is on one directory at a time.                                   *)
Mountings ==
    {m \in [Brick -> Disk \cup {NoDisk}] :
        \A b, c \in Brick : m[b] = m[c] /\ m[b] # NoDisk => b = c}

Init ==
    /\ mounted \in Mountings
    /\ content = [d \in Place |-> [p \in Path |-> Absent]]
    /\ folders = [d \in Place |-> 0]
    /\ BRICK_DISK = [d \in Disk |-> NoBrick]
    /\ DISK_FILE = [p \in Path |-> NoDisk]
    /\ m_path_Partition = mounted
    /\ exchanged = {}
    /\ pc = [b \in Brick |-> "idle"]
    /\ m_pos = [b \in Brick |-> 0]
    /\ item = [b \in Brick |-> 1]
    /\ m_curr_disk_id = [b \in Brick |-> NoDisk]
    /\ m_target_space_used = [b \in Brick |-> 0]
    /\ m_sql = [b \in Brick |-> FALSE]
    /\ file = [b \in Brick |-> NoPath]
    /\ unseen = [b \in Brick |-> 0]

-----------------------------------------------------------------------------
(* Seeded faults.                                                          *)

AnyBrick(b) == BRICK_DISK[m_curr_disk_id[b]] # NoBrick
NotCounted(b, n) == m_target_space_used[b]
NeverTooFull(used) == TRUE
LoggedAtOnce == "log"

-----------------------------------------------------------------------------

(* A file of length n occupies whole blocks, and an empty one none.        *)
RoundUp(n) == ((n + Block - 1) \div Block) * Block
Occupied(n) == IF n <= 0 THEN 0 ELSE RoundUp(n)

(* What statfs finds used on a disk.                                       *)
TotalOccupied(c) == MapThenSumSet(LAMBDA p : Occupied(c[p]), Path)
Used(d) == Foreign[d] + folders[d] + TotalOccupied(content[d])

(* Where the brick's directory leads.                                      *)
Target(b) == IF mounted[b] = NoDisk THEN b ELSE mounted[b]

(* DISK_USED_LIMIT: a disk is taken only when half of it is free.          *)
HalfFree(used) == 2 * (Capacity - used) >= Capacity

(* DISK_USED_LINE, and copy_try.  The difference in the code is unsigned;  *)
(* when it wraps, the second test asks for another disk all the same.      *)
HasRoom(b, n) ==
    /\ n <= Capacity - m_target_space_used[b]
    /\ m_target_space_used[b] <= (Capacity * 95) \div 100

(* A statement may fail.  What a failed query left in the buffer comes     *)
(* before the next statement, and the two together are no statement.       *)
Executes(b) == {ok \in BOOLEAN : m_sql[b] => ~ok}

MorePositions(b) == item[b] < m_pos[b]

(* The query of isExistdisk.                                               *)
GivenTo(b) == BRICK_DISK[m_curr_disk_id[b]] = b

OnTarget(b) == content[Target(b)][file[b]]

PutOnTarget(b, n) ==
    /\ content' = [content EXCEPT ![Target(b)][file[b]] = n]
    /\ UNCHANGED <<mounted, folders>>

(* m_target_space_used after a copy of length n.                           *)
Counted(b, n) == m_target_space_used[b] + n

(* Where copy goes on when no disk of the brick has the file.              *)
AfterCompare == "open"

Goto(b, l) == pc' = [pc EXCEPT ![b] = l]

(* copy returns, whatever its result.                                      *)
CopyReturns(b) ==
    /\ Goto(b, "ready")
    /\ file' = [file EXCEPT ![b] = NoPath]
    /\ UNCHANGED <<m_pos, item, m_curr_disk_id, m_target_space_used, unseen>>

(* The container is destroyed with its worker.                             *)
Destroyed(b) ==
    /\ Goto(b, "idle")
    /\ m_pos' = [m_pos EXCEPT ![b] = 0]
    /\ item' = [item EXCEPT ![b] = 1]
    /\ m_curr_disk_id' = [m_curr_disk_id EXCEPT ![b] = NoDisk]
    /\ m_target_space_used' = [m_target_space_used EXCEPT ![b] = 0]
    /\ file' = [file EXCEPT ![b] = NoPath]
    /\ unseen' = [unseen EXCEPT ![b] = 0]

-----------------------------------------------------------------------------
(* disk_container::init.  When it fails the worker ends: at once, or, in   *)
(* copy, by the signal to its own brick, which the filter meets before     *)
(* another file is copied.                                                 *)

(* A new worker makes a new container, with the positions of its brick;    *)
(* the administrator makes a brick without any.                            *)
Construct(b) ==
    /\ pc[b] = "idle"
    /\ Goto(b, "init")
    /\ \E n \in Positions[b] : m_pos' = [m_pos EXCEPT ![b] = n]
    /\ m_sql' = [m_sql EXCEPT ![b] = FALSE]
    /\ UNCHANGED <<world, database, m_path_Partition, item, m_curr_disk_id,
                   m_target_space_used, file, unseen, exchanged>>

(* The loop over no positions leaves ret at success: the container takes   *)
(* whatever its directory leads to, and has no disk id.                    *)
NoPositions(b) ==
    /\ pc[b] = "init"
    /\ m_pos[b] = 0
    /\ Goto(b, "space")
    /\ UNCHANGED <<world, database, m_path_Partition, container, m_sql, exchanged>>

NextPosition(b) ==
    IF MorePositions(b)
      THEN /\ item' = [item EXCEPT ![b] = @ + 1]
           /\ Goto(b, "init")
           /\ UNCHANGED <<m_pos, m_curr_disk_id, m_target_space_used, file, unseen>>
      ELSE Destroyed(b)

GetDiskid(b) ==
    /\ pc[b] = "init"
    /\ m_pos[b] # 0
    /\ m_path_Partition[b] # NoDisk
    /\ m_curr_disk_id' = [m_curr_disk_id EXCEPT ![b] = m_path_Partition[b]]
    /\ Goto(b, "exist")
    /\ UNCHANGED <<world, database, m_path_Partition, m_pos, item, m_target_space_used,
                   file, unseen, m_sql, exchanged>>

NoDiskMounted(b) ==
    /\ pc[b] = "init"
    /\ m_pos[b] # 0
    /\ m_path_Partition[b] = NoDisk
    /\ NextPosition(b)
    /\ UNCHANGED <<world, database, m_path_Partition, m_sql, exchanged>>

IsExistdisk(b) ==
    /\ pc[b] = "exist"
    /\ \E ok \in Executes(b) :
         /\ m_sql' = [m_sql EXCEPT ![b] = ~ok]
         /\ Goto(b, IF ok /\ GivenTo(b) THEN "space" ELSE "insert")
    /\ UNCHANGED <<world, database, m_path_Partition, container, exchanged>>

AddDiskForBrick(b) ==
    /\ pc[b] = "insert"
    /\ \E ok \in Executes(b) :
         IF ok /\ BRICK_DISK[m_curr_disk_id[b]] = NoBrick
           THEN /\ BRICK_DISK' = [BRICK_DISK EXCEPT ![m_curr_disk_id[b]] = b]
                /\ Goto(b, "space")
                /\ UNCHANGED container
           ELSE NextPosition(b) /\ UNCHANGED BRICK_DISK
    /\ m_sql' = [m_sql EXCEPT ![b] = FALSE]
    /\ UNCHANGED <<world, DISK_FILE, m_path_Partition, exchanged>>

GetDiskSpaceInfo(b) ==
    /\ pc[b] = "space"
    /\ HalfFree(Used(Target(b)))
    /\ m_target_space_used' = [m_target_space_used EXCEPT ![b] = Used(Target(b))]
    /\ unseen' = [unseen EXCEPT ![b] = 0]
    /\ item' = [item EXCEPT ![b] = 1]
    /\ Goto(b, IF file[b] = NoPath THEN "ready" ELSE "try")
    /\ UNCHANGED <<world, database, m_path_Partition, m_pos, m_curr_disk_id, file, m_sql,
                   exchanged>>

NeedDel(b) ==
    /\ pc[b] = "space"
    /\ ~HalfFree(Used(Target(b)))
    /\ Destroyed(b)
    /\ m_sql' = [m_sql EXCEPT ![b] = FALSE]
    /\ UNCHANGED <<world, database, m_path_Partition, exchanged>>

(* access of the directory, or statfs, fails.                              *)
InitErr(b) ==
    /\ pc[b] = "space" \/ (pc[b] = "init" /\ item[b] = 1)
    /\ Destroyed(b)
    /\ m_sql' = [m_sql EXCEPT ![b] = FALSE]
    /\ UNCHANGED <<world, database, m_path_Partition, exchanged>>

-----------------------------------------------------------------------------
(* disk_container::copy                                                    *)

Copy(b, p) ==
    /\ pc[b] = "ready"
    /\ Goto(b, "try")
    /\ file' = [file EXCEPT ![b] = p]
    /\ UNCHANGED <<world, database, m_path_Partition, m_pos, item, m_curr_disk_id,
                   m_target_space_used, unseen, m_sql, exchanged>>

(* create_dir makes a folder, which takes a block of the disk; so does a   *)
(* folder that grows with its entries.  Nobody counts it.                  *)
CreateDir(b) ==
    /\ pc[b] = "ready"
    /\ folders[Target(b)] < MaxFolders[Target(b)] * Block
    /\ Used(Target(b)) + Block <= Capacity
    /\ folders' = [folders EXCEPT ![Target(b)] = @ + Block]
    /\ unseen' = [unseen EXCEPT ![b] = @ + Block]
    /\ UNCHANGED <<mounted, content, database, m_path_Partition, pc, m_pos, item,
                   m_curr_disk_id, m_target_space_used, file, m_sql, exchanged>>

(* The worker was stopped.                                                 *)
Stop(b) ==
    /\ pc[b] = "ready"
    /\ Destroyed(b)
    /\ m_sql' = [m_sql EXCEPT ![b] = FALSE]
    /\ UNCHANGED <<world, database, m_path_Partition, exchanged>>

CopyTry(b) ==
    /\ pc[b] = "try"
    /\ \E n \in Length : Goto(b, IF HasRoom(b, n) THEN "query" ELSE "init")
    /\ UNCHANGED <<world, database, m_path_Partition, container, m_sql, exchanged>>

(* The source is gone.                                                     *)
CopyTryErr(b) ==
    /\ pc[b] = "try"
    /\ CopyReturns(b)
    /\ UNCHANGED <<world, database, m_path_Partition, m_sql, exchanged>>

IsBackuped(b) ==
    /\ pc[b] = "query"
    /\ \E ok \in Executes(b) :
         /\ m_sql' = [m_sql EXCEPT ![b] = ~ok]
         /\ IF ok /\ DISK_FILE[file[b]] # NoDisk
              THEN CopyReturns(b)
              ELSE Goto(b, "compare") /\ UNCHANGED container
    /\ UNCHANGED <<world, database, m_path_Partition, exchanged>>

(* Is there a file on the disk already, and as long as the source?         *)
Compare(b) ==
    /\ pc[b] = "compare"
    /\ \E n \in Length : Goto(b, IF OnTarget(b) = n THEN "log" ELSE AfterCompare)
    /\ UNCHANGED <<world, database, m_path_Partition, container, m_sql, exchanged>>

(* To open the target empties it.                                          *)
Open(b) ==
    /\ pc[b] = "open"
    /\ PutOnTarget(b, 0)
    /\ Goto(b, "write")
    /\ UNCHANGED <<database, m_path_Partition, container, m_sql, exchanged>>

(* The source cannot be opened (the target was, and is empty now), or the  *)
(* target cannot.                                                          *)
OpenErr(b) ==
    /\ pc[b] = "open"
    /\ PutOnTarget(b, 0) \/ UNCHANGED world
    /\ CopyReturns(b)
    /\ UNCHANGED <<database, m_path_Partition, m_sql, exchanged>>

(* One unit more, in the last block of the file or in a free one.          *)
WriteUnit(b) ==
    /\ pc[b] = "write"
    /\ \E n \in Length : OnTarget(b) < n
    /\ Used(Target(b)) - Occupied(OnTarget(b)) + Occupied(OnTarget(b) + 1) <= Capacity
    /\ PutOnTarget(b, OnTarget(b) + 1)
    /\ UNCHANGED <<database, process>>

(* The handler of an exception of <<: what was written is removed again.   *)
WriteErr(b) ==
    /\ pc[b] = "write"
    /\ PutOnTarget(b, Absent)
    /\ CopyReturns(b)
    /\ UNCHANGED <<database, m_path_Partition, m_sql, exchanged>>

(* << is over, at the end of the source or before it, and the flush was in *)
(* order: what st_size says is counted.                                    *)
Close(b) ==
    /\ pc[b] = "write"
    /\ m_target_space_used' = [m_target_space_used EXCEPT ![b] = Counted(b, OnTarget(b))]
    /\ unseen' = [unseen EXCEPT ![b] = @ + Occupied(OnTarget(b)) - OnTarget(b)]
    /\ Goto(b, "log")
    /\ UNCHANGED <<world, database, m_path_Partition, m_pos, item, m_curr_disk_id, file,
                   m_sql, exchanged>>

(* The result of add_file_log is not looked at.  A disk that no brick was  *)
(* given, or none, is refused by the foreign key.                          *)
AddFileLog(b) ==
    /\ pc[b] = "log"
    /\ \E ok \in Executes(b) :
         DISK_FILE' =
           IF /\ ok /\ DISK_FILE[file[b]] = NoDisk
              /\ m_curr_disk_id[b] # NoDisk /\ BRICK_DISK[m_curr_disk_id[b]] # NoBrick
             THEN [DISK_FILE EXCEPT ![file[b]] = m_curr_disk_id[b]]
             ELSE DISK_FILE
    /\ m_sql' = [m_sql EXCEPT ![b] = FALSE]
    /\ CopyReturns(b)
    /\ UNCHANGED <<world, BRICK_DISK, m_path_Partition, exchanged>>

-----------------------------------------------------------------------------
(* The operator and the machine                                            *)

(* Another disk is put in while the process runs.  A disk with an open file *)
(* cannot be unmounted.  A disk taken out for none is left out: nothing is  *)
(* claimed of that brick either until the process starts again.             *)
Exchange(b, d) ==
    /\ Cardinality(exchanged \cup {b}) <= MaxExchanged
    /\ d \notin {mounted[c] : c \in Brick}
    /\ pc[b] # "write"
    /\ mounted' = [mounted EXCEPT ![b] = d]
    /\ exchanged' = exchanged \cup {b}
    /\ UNCHANGED <<content, folders, database, m_path_Partition, pc, container, m_sql>>

(* The process ends anywhere - a flush of copy that fails throws past every *)
(* handler and ends it with the file half written - disks may be exchanged, *)
(* and it starts again: login_db calls init_disk_info.                     *)
Restart ==
    /\ mounted' \in Mountings
    /\ m_path_Partition' = mounted'
    /\ exchanged' = {}
    /\ pc' = [b \in Brick |-> "idle"]
    /\ m_pos' = [b \in Brick |-> 0]
    /\ item' = [b \in Brick |-> 1]
    /\ m_curr_disk_id' = [b \in Brick |-> NoDisk]
    /\ m_target_space_used' = [b \in Brick |-> 0]
    /\ m_sql' = [b \in Brick |-> FALSE]
    /\ file' = [b \in Brick |-> NoPath]
    /\ unseen' = [b \in Brick |-> 0]
    /\ UNCHANGED <<content, folders, database>>

-----------------------------------------------------------------------------

InitSteps(b) ==
    \/ NoPositions(b)
    \/ GetDiskid(b)
    \/ NoDiskMounted(b)
    \/ IsExistdisk(b)
    \/ AddDiskForBrick(b)
    \/ GetDiskSpaceInfo(b)
    \/ NeedDel(b)
    \/ InitErr(b)

CopySteps(b) ==
    \/ CopyTry(b)
    \/ CopyTryErr(b)
    \/ IsBackuped(b)
    \/ Compare(b)
    \/ Open(b)
    \/ OpenErr(b)
    \/ WriteUnit(b)
    \/ WriteErr(b)
    \/ Close(b)
    \/ AddFileLog(b)

Next ==
    \/ \E b \in Brick :
         \/ Construct(b) \/ Stop(b) \/ CreateDir(b)
         \/ InitSteps(b) \/ CopySteps(b)
         \/ \E p \in Path : Copy(b, p)
         \/ \E d \in Disk : Exchange(b, d)
    \/ Restart

(* A worker that is inside init or copy goes on.                           *)
Fairness == \A b \in Brick : WF_vars(InitSteps(b) \/ CopySteps(b))

Spec == Init /\ [][Next]_vars /\ Fairness

-----------------------------------------------------------------------------

(* Every variable stays in its type. *)
TypeOK ==
    /\ mounted \in Mountings
    /\ content \in [Place -> [Path -> Nat \cup {Absent}]]
    /\ folders \in [Place -> Nat]
    /\ BRICK_DISK \in [Disk -> Brick \cup {NoBrick}]
    /\ DISK_FILE \in [Path -> Disk \cup {NoDisk}]
    /\ m_path_Partition \in Mountings
    /\ pc \in [Brick -> {"idle", "init", "exist", "insert", "space", "ready", "try",
                         "query", "compare", "open", "write", "log"}]
    /\ m_pos \in [Brick -> Nat]
    /\ item \in [Brick -> Nat \ {0}]
    /\ m_curr_disk_id \in [Brick -> Disk \cup {NoDisk}]
    /\ m_target_space_used \in [Brick -> Nat]
    /\ m_sql \in [Brick -> BOOLEAN]
    /\ file \in [Brick -> Path \cup {NoPath}]
    /\ unseen \in [Brick -> Nat]
    /\ exchanged \subseteq Brick
    /\ \A d \in Place : Used(d) <= Capacity

(* Of a disk that was not exchanged under the process a worker knows how   *)
(* full it is, but for what the code does not count: the folders, and the  *)
(* rounding of each file to blocks, since it last asked statfs             *)
(* (systools.cpp:56, disk_container.cpp:201).  Overwritten, shortened,     *)
(* removed and growing files make it believe in no more free space than    *)
(* that (m_target_space_used).                                             *)
OnlyRoundingUncounted ==
    \A b \in Brick \ exchanged :
        /\ mounted[b] # NoDisk
        /\ pc[b] \in {"ready", "try", "query", "compare", "open", "log"}
        => Used(mounted[b]) <= m_target_space_used[b] + unseen[b]

(* A worker whose disk was not exchanged under the process makes files and *)
(* folders only on a disk that the database has given to its brick         *)
(* (add_disk_for_brick), whatever statements failed and wherever the disk  *)
(* was mounted before - unless its brick has no position at all: then init *)
(* succeeds with whatever is there (disk_container.cpp:38, 70).            *)
WritesToOwnDisk ==
    [][\A b \in Brick \ exchanged :
          /\ m_pos[b] # 0
          /\ \/ content'[Target(b)] # content[Target(b)]
             \/ folders'[Target(b)] # folders[Target(b)]
          => BRICK_DISK[mounted[b]] = b]_vars

(* A row of the file log names the disk that holds a file of that path, if *)
(* the disk was not exchanged under the process (add_file_log).            *)
LoggedWhereItIs ==
    [][\A b \in Brick \ exchanged :
          DISK_FILE' # DISK_FILE /\ pc[b] = "log" /\ pc'[b] = "ready" =>
              DISK_FILE'[file[b]] = mounted[b] /\ OnTarget(b) # Absent]_vars

(* copy ends, with or without a disk for the file: its search for a disk   *)
(* does not take the same full disk again and again.  A file may not be    *)
(* longer than the half of a disk that init asks for.                      *)
CopyEnds ==
    (\A n \in Length : 2 * n <= Capacity) =>
        \A b \in Brick : pc[b] = "try" ~> file[b] = NoPath

(* A file that copy leaves out because it is logged is on a disk of its    *)
(* brick: "this file have be Backed up to other disk".                     *)
SkippedIsBackedUp ==
    [][\A b \in Brick :
          pc[b] = "query" /\ pc'[b] = "ready" =>
              BRICK_DISK[DISK_FILE[file[b]]] = b]_vars

=============================================================================
