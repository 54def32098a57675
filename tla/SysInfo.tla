------------------------------- MODULE SysInfo -------------------------------
(***************************************************************************)
(* The disks as the service knows them (src/syslayer/sysinfod.cpp): two    *)
(* tables, filled from the output of "fdisk -l" and of "mount -l" when the *)
(* service starts, from which the workers learn what is mounted on their   *)
(* target directory.                                                       *)
(*                                                                         *)
(* DiskContainer takes what get_diskid answers as given; here it is        *)
(* derived.  Names of devices and partitions are records [device, number], *)
(* number 0 for the device itself.                                         *)
(***************************************************************************)
EXTENDS Naturals, SequencesExt

CONSTANTS
    Listing,            \* devices in the order of fdisk
    Sd,                 \* those that are called /dev/sd... or /dev/hd...
    KeyOrder,           \* partitions in the order of their names
    DiskIds,            \* identifiers of disks
    Directories,        \* where disks are mounted
    Callers,            \* workers that ask
    MaxChanges          \* bound on disks that are exchanged or mounted

ASSUME DevicesAssumption ==
    /\ Listing \in Seq(STRING) /\ Sd \subseteq ToSet(Listing)
    /\ KeyOrder \in Seq([device : ToSet(Listing), number : Nat])
ASSUME MaxChangesAssumption == MaxChanges \in Nat

Devices == ToSet(Listing)
Partitions == ToSet(KeyOrder)
NoId == "none"

VARIABLES
    identifier,         \* what fdisk says of each device
    mounts,             \* what mount says: partitions and directories
    m_disk_id, m_path_Partition,
    started,            \* the commands that init_disk_info has run
    inserting,          \* callers inside an insertion into m_disk_id
    torn,               \* a caller was in m_disk_id beside an insertion
    answer,             \* what each caller was told, of which directory
    changes,
    (* history *)
    seen,               \* mounts and identifiers when the mounts were read
    between             \* a disk was exchanged between the two commands

diskWorld == <<identifier, mounts>>
tables == <<m_disk_id, m_path_Partition>>
infoVars == <<diskWorld, tables, started, inserting, torn, answer, changes, seen, between>>

Device(d) == [device |-> d, number |-> 0]
NoAnswerYet == [directory |-> "none", id |-> NoId]
NoTable == [p \in {} |-> NoId]

(* A disk with a mounted partition has an identifier, other devices that   *)
(* are mounted need not.                                                   *)
Possible(ids, lines) ==
    /\ \A d, e \in Devices : ids[d] = ids[e] => d = e \/ ids[d] = NoId
    /\ \A k \in DOMAIN lines :
          lines[k].partition.device \in Sd => ids[lines[k].partition.device] # NoId

MountLines == [partition : Partitions, directory : Directories]

InfoInit ==
    /\ identifier \in [Devices -> DiskIds \cup {NoId}]
    /\ mounts \in UNION {[1..n -> MountLines] : n \in 0..1}
    /\ Possible(identifier, mounts)
    /\ m_disk_id = NoTable /\ m_path_Partition = NoTable
    /\ started = 0
    /\ inserting = {} /\ torn = FALSE
    /\ answer = [c \in Callers |-> NoAnswerYet]
    /\ changes = 0
    /\ seen = [identifier |-> identifier, mounts |-> mounts]
    /\ between = FALSE

-----------------------------------------------------------------------------
(* The operator.                                                           *)

Changed == changes < MaxChanges /\ changes' = changes + 1

(* Another disk takes the place of one; it is mounted where that was.      *)
Exchange(d) ==
    /\ Changed
    /\ \E i \in DiskIds :
          /\ i # identifier[d]
          /\ identifier' = [identifier EXCEPT ![d] = i]
          /\ Possible(identifier', mounts)
    /\ between' = (between \/ started = 1)
    /\ UNCHANGED <<mounts, tables, started, inserting, torn, answer, seen>>

MountPartition(line) ==
    /\ Changed
    /\ Len(mounts) < 2
    /\ mounts' = Append(mounts, line)
    /\ Possible(identifier, mounts')
    /\ UNCHANGED <<identifier, tables, started, inserting, torn, answer, seen, between>>

-----------------------------------------------------------------------------
(* Seeded fault: an identifier does not end the search for it.             *)

StillFind == TRUE

-----------------------------------------------------------------------------
(* init_disk_id                                                            *)

Header(d) == [kind |-> IF d \in Sd THEN "Disk_sd" ELSE "Disk", device |-> d]
IdLine(d) == [kind |-> "Disk_identifier", id |-> identifier[d]]

(* bfind_disk after the identifier was found.                              *)
FindAfterId == FALSE

ReadLine(r, line) ==
    LET disk == IF line.kind = "Disk_sd" THEN Device(line.device) ELSE r.disk
        bfind_disk == line.kind = "Disk_sd" \/ r.bfind_disk
    IN  IF bfind_disk /\ line.kind = "Disk_identifier"
          THEN [disk |-> disk, bfind_disk |-> FindAfterId,
                table |-> [p \in DOMAIN r.table \cup {disk} |->
                             IF p = disk THEN line.id ELSE r.table[p]]]
          ELSE [r EXCEPT !.disk = disk, !.bfind_disk = bfind_disk]

(* fdisk prints a header for each device, and its identifier if it has one. *)
ReadDevice(r, d) ==
    LET headed == ReadLine(r, Header(d))
    IN  IF identifier[d] = NoId THEN headed ELSE ReadLine(headed, IdLine(d))

NothingRead == [disk |-> Device("none"), bfind_disk |-> FALSE, table |-> NoTable]

InitDiskId ==
    /\ started = 0
    /\ started' = 1
    /\ m_disk_id' = FoldLeft(ReadDevice, NothingRead, Listing).table
    /\ UNCHANGED <<diskWorld, m_path_Partition, inserting, torn, answer, changes, seen, between>>

(* init_Partition_path: of a partition that is mounted twice, the last.    *)
InitPartitionPath ==
    /\ started = 1
    /\ started' = 2
    /\ m_path_Partition' =
          [p \in {mounts[k].partition : k \in DOMAIN mounts} |->
             mounts[SelectLastInSeq(mounts, LAMBDA line : line.partition = p)].directory]
    /\ seen' = [identifier |-> identifier, mounts |-> mounts]
    /\ UNCHANGED <<diskWorld, m_disk_id, inserting, torn, answer, changes, between>>

-----------------------------------------------------------------------------
(* get_diskid                                                              *)

Found(directory) ==
    {k \in DOMAIN KeyOrder : /\ KeyOrder[k] \in DOMAIN m_path_Partition
                             /\ m_path_Partition[KeyOrder[k]] = directory}

(* Of several partitions the one whose name comes last counts.             *)
LastFound(directory) == KeyOrder[Max(Found(directory))]

EndsWith1(p) == p.number % 10 = 1

(* The name without its last digit.                                        *)
ParentDevice(p) == [p EXCEPT !.number = @ \div 10]

Answered(c, directory, i) ==
    answer' = [answer EXCEPT ![c] = [directory |-> directory, id |-> i]]

Asks(c) == started = 2 /\ c \notin inserting

NotMounted(c, directory) ==
    /\ Asks(c)
    /\ \/ Found(directory) = {}
       \/ Found(directory) # {} /\ ~EndsWith1(LastFound(directory))
    /\ Answered(c, directory, NoId)
    /\ UNCHANGED <<diskWorld, tables, started, inserting, torn, changes, seen, between>>

(* A name that is not in m_disk_id is put there, and what a caller reads   *)
(* during the insertion of another may be anything.                        *)
LookUp(c, directory) ==
    /\ Asks(c)
    /\ Found(directory) # {}
    /\ LET p == LastFound(directory)
       IN  /\ EndsWith1(p)
           /\ torn' = (torn \/ inserting # {})
           /\ \/ torn' /\ \E i \in DiskIds \cup {NoId} : Answered(c, directory, i)
              \/ /\ ParentDevice(p) \in DOMAIN m_disk_id
                 /\ Answered(c, directory, m_disk_id[ParentDevice(p)])
              \/ /\ ParentDevice(p) \notin DOMAIN m_disk_id
                 /\ Answered(c, directory, NoId)
           /\ IF ParentDevice(p) \in DOMAIN m_disk_id
                THEN UNCHANGED <<m_disk_id, inserting>>
                ELSE /\ inserting' = inserting \cup {c}
                     /\ m_disk_id' = [k \in DOMAIN m_disk_id \cup {ParentDevice(p)} |->
                            IF k = ParentDevice(p) THEN NoId ELSE m_disk_id[k]]
    /\ UNCHANGED <<diskWorld, m_path_Partition, started, changes, seen, between>>

Inserted(c) ==
    /\ c \in inserting
    /\ inserting' = inserting \ {c}
    /\ UNCHANGED <<diskWorld, tables, started, torn, answer, changes, seen, between>>

InfoNext ==
    \/ \E d \in Devices : Exchange(d)
    \/ \E line \in MountLines : MountPartition(line)
    \/ InitDiskId
    \/ InitPartitionPath
    \/ \E c \in Callers, directory \in Directories :
          NotMounted(c, directory) \/ LookUp(c, directory)
    \/ \E c \in Callers : Inserted(c)

InfoSpec == InfoInit /\ [][InfoNext]_infoVars

-----------------------------------------------------------------------------

(* Every variable stays in its type. *)
InfoTypeOK ==
    /\ identifier \in [Devices -> DiskIds \cup {NoId}]
    /\ mounts \in Seq(MountLines)
    /\ \A p \in DOMAIN m_disk_id : m_disk_id[p] \in DiskIds \cup {NoId}
    /\ DOMAIN m_path_Partition \subseteq Partitions
    /\ started \in 0..2
    /\ inserting \subseteq Callers /\ torn \in BOOLEAN
    /\ answer \in [Callers -> [directory : Directories \cup {"none"}, id : DiskIds \cup {NoId}]]

(* The partitions on a directory when the mounts were read.                *)
SeenOn(directory) ==
    {seen.mounts[k].partition : k \in {j \in DOMAIN seen.mounts :
                                          seen.mounts[j].directory = directory}}

(* A worker is told the disk whose first partition was on its directory    *)
(* when the mounts were read, however the output of the two commands       *)
(* mixes disks and other devices: unless a disk was exchanged between the  *)
(* commands, or the workers tore the table, which takes a mounted device   *)
(* that has no entry in it.                                                *)
AnswerWasTrue ==
    ~between =>
        /\ torn => \E k \in DOMAIN seen.mounts :
              ParentDevice(seen.mounts[k].partition) \notin {Device(d) : d \in Sd}
        /\ \A c \in Callers :
              answer[c].id # NoId /\ ~torn =>
                  \E p \in SeenOn(answer[c].directory) :
                     p.number = 1 /\ answer[c].id = seen.identifier[p.device]

=============================================================================
