---------------------------- MODULE HardwareLayer ----------------------------
(***************************************************************************)
(* The system layer that the simple one replaced                           *)
(* (src/syslayer_ori/sysinfod.cpp).  It looks for a disk by its position   *)
(* in the enclosures, mounts it where the worker wants it, and scans the   *)
(* disks again when the kernel tells of a change: a monitor thread counts  *)
(* the events, and a flush thread waits until no more of them come.  Both  *)
(* end when the service is stopped, for stop_monitor is called then.       *)
(*                                                                         *)
(* A slot stands for the SAS address of what is plugged in it and for the  *)
(* name of its device.  The lines that the commands print are taken as     *)
(* read (SysInfo derives the like).  Left out: /etc/mtab, of which only    *)
(* matters here whether it can be opened; mount_path, which no one reads;  *)
(* and the join in stop_monitor, whose caller does nothing else meanwhile. *)
(***************************************************************************)
EXTENDS Integers, SequencesExt, FiniteSetsExt

CONSTANTS
    Slots,
    EnclosureOf,        \* enclosure of each slot
    NumberOf,           \* number that lsiutil prints for a slot or an enclosure
    PositionOf,         \* position that the slot is known by, 0 without one
    BrickPositions,     \* positions that workers ask for
    Jbods,              \* enclosures configured in the database: start and order
    HasAddress,         \* slots whose disk has a SAS address
    ListedEnclosures,   \* enclosures that lsiutil finds
    Hds,                \* the disks, which are their own identifiers
    Workers,            \* those that ask, each with a target directory
    MaxPlugs,           \* bound on changes of the hardware
    MaxAsks,            \* bound on calls of get_diskid
    MaxIoFaults         \* bound on calls of the system that fail

ASSUME SlotsAssumption ==
    /\ HasAddress \subseteq Slots
    /\ \A s \in Slots : NumberOf[s] \in Nat /\ PositionOf[s] \in Nat

(* The enclosures that are configured are configured as they are wired.    *)
ASSUME JbodsAssumption ==
    \A s \in HasAddress : EnclosureOf[s] \in ListedEnclosures \cap DOMAIN Jbods =>
        LET jbod == Jbods[EnclosureOf[s]]
        IN  PositionOf[s] = IF jbod.asc_or_des THEN NumberOf[s] - jbod.start_num + 1
                                               ELSE jbod.start_num - NumberOf[s] + 1

VARIABLES
    hd,                 \* the disk in each slot
    mounted_hd,         \* disks mounted on each target, the last visible
    udev,               \* events that the monitor has not received
    (* the tables *)
    m_id_of_disk, m_sas_address_num, m_disk_pool,
    (* init_disk_info, which main and then the flush thread run *)
    scan, todo,
    (* the threads *)
    mon, mon_read,      \* control point and register of ++event_count
    flush, old_event_count, event_count,
    udev_exit,          \* the threads are told to end
    (* get_diskid *)
    ask, pos, at, answered,
    plugs, asks, ioFaults,
    (* history *)
    outdated,           \* the hardware changed since the last scan began
    doubt,              \* it did for the last call of a worker
    unheard             \* a change of which the monitor did not hear

hardware == <<hd, mounted_hd>>
poolVars == <<m_id_of_disk, m_sas_address_num, m_disk_pool, scan, todo>>
monitorVars == <<udev, mon, mon_read>>
flushVars == <<flush, old_event_count, udev_exit>>
askVars == <<ask, pos, at, answered>>
bounds == <<plugs, asks, ioFaults>>
history == <<outdated, doubt, unheard>>
hardwareVars == <<hardware, poolVars, monitorVars, flushVars, event_count,
                  askVars, bounds, history>>

NoHd == "none"
Unmounted == << >>

HardwareInit ==
    /\ hd \in [Slots -> Hds \cup {NoHd}]
    /\ \A s, t \in Slots : hd[s] = hd[t] => s = t \/ hd[s] = NoHd
    /\ mounted_hd = [c \in Workers |-> Unmounted]
    /\ udev = 0
    /\ m_id_of_disk = [s \in {} |-> NoHd]
    /\ m_sas_address_num = [s \in {} |-> 0]
    /\ m_disk_pool = << >>
    /\ scan = "clear" /\ todo = {}
    /\ mon = "down" /\ mon_read = 0
    /\ flush = "down" /\ old_event_count = 0 /\ event_count = 0
    /\ udev_exit = FALSE
    /\ ask = [c \in Workers |-> "idle"]
    /\ pos = [c \in Workers |-> 0]
    /\ at = [c \in Workers |-> 0]
    /\ answered = [c \in Workers |-> NoHd]
    /\ plugs = 0 /\ asks = 0 /\ ioFaults = 0
    /\ outdated = FALSE
    /\ doubt = [c \in Workers |-> FALSE]
    /\ unheard = FALSE

IoFails == ioFaults < MaxIoFaults /\ ioFaults' = ioFaults + 1 /\ UNCHANGED <<plugs, asks>>
IoGoesWell == UNCHANGED bounds

-----------------------------------------------------------------------------
(* An operator plugs a disk in or pulls one out.                           *)

Listening == mon \in {"select", "increment"}

Plug(s, d) ==
    /\ plugs < MaxPlugs
    /\ hd[s] # d
    /\ d # NoHd => \A t \in Slots : hd[t] # d
    /\ hd' = [hd EXCEPT ![s] = d]
    /\ plugs' = plugs + 1
    /\ udev' = IF Listening THEN udev + 1 ELSE udev
    /\ unheard' = (unheard \/ ~Listening)
    /\ outdated' = TRUE
    /\ doubt' = [c \in Workers |-> TRUE]
    /\ UNCHANGED <<mounted_hd, poolVars, mon, mon_read, flushVars, event_count,
                   askVars, asks, ioFaults>>

-----------------------------------------------------------------------------
(* Seeded faults: the events are forgotten when the scan is done, those    *)
(* that came meanwhile included; a disk that cannot be mounted is          *)
(* answered.                                                               *)

WhenScanned(step) == step = "scanned"
Regardless(is_mounted, is_in_mtab) == TRUE

-----------------------------------------------------------------------------
(* init_disk_info                                                          *)

(* What becomes of those who run through the pool while it changes is not  *)
(* defined.                                                                *)
PoolTorn == ask' = [c \in Workers |-> IF ask[c] \in {"look", "umount", "mount"}
                                        THEN "undefined" ELSE ask[c]]

(* Whether the counts are reset at this step of the flush thread.          *)
ResetAt(step) == step = "scan"

Reset(step) ==
    IF ResetAt(step) THEN old_event_count' = 0 /\ event_count' = 0
                     ELSE UNCHANGED <<old_event_count, event_count>>

ScanStep(here, there) == scan = here /\ scan' = there

otherThanPool == <<hardware, monitorVars, flushVars, event_count, pos, at, answered,
                   bounds, doubt, unheard>>

Clear ==
    /\ ScanStep("clear", "fdisk")
    /\ m_id_of_disk' = [s \in {} |-> NoHd]
    /\ m_sas_address_num' = [s \in {} |-> 0]
    /\ m_disk_pool' = << >>
    /\ PoolTorn
    /\ outdated' = FALSE
    /\ UNCHANGED <<todo, otherThanPool>>

InitIds ==
    /\ ScanStep("fdisk", "lsiutil")
    /\ m_id_of_disk' = [s \in {t \in Slots : hd[t] # NoHd} |-> hd[s]]
    /\ UNCHANGED <<m_sas_address_num, m_disk_pool, todo, otherThanPool, ask, outdated>>

(* The lines "EnclServ" and "Disk" of lsiutil.                             *)
Addresses == ListedEnclosures \cup {s \in HasAddress : /\ hd[s] # NoHd
                                                       /\ EnclosureOf[s] \in ListedEnclosures}

InitSasAddress ==
    /\ ScanStep("lsiutil", "disks")
    /\ m_sas_address_num' = [a \in Addresses |-> NumberOf[a]]
    /\ todo' = DOMAIN m_id_of_disk
    /\ UNCHANGED <<m_id_of_disk, m_disk_pool, otherThanPool, ask, outdated>>

(* An address that is not in the table has the number 0.                   *)
Number(a) == IF a \in DOMAIN m_sas_address_num THEN m_sas_address_num[a] ELSE 0

(* The enclosure is looked up, too; one that is not found is none.         *)
JbodOf(s) == IF EnclosureOf[s] \in ListedEnclosures \cap DOMAIN Jbods
               THEN Jbods[EnclosureOf[s]]
               ELSE [start_num |-> 0, asc_or_des |-> TRUE]

DiskObj(s) == [path |-> s, id |-> m_id_of_disk[s], physics_index |-> Number(s), jbod |-> JbodOf(s)]

(* get_sas_address_by_disk asks the hardware of now.                       *)
HasSasAddress(s) == s \in HasAddress /\ hd[s] # NoHd

GenDisk(s) ==
    /\ scan = "disks" /\ s \in todo
    /\ todo' = todo \ {s}
    /\ IF HasSasAddress(s)
         THEN m_disk_pool' = Append(m_disk_pool, DiskObj(s)) /\ (PoolTorn \/ UNCHANGED ask)
         ELSE UNCHANGED <<m_disk_pool, ask>>
    /\ UNCHANGED <<m_id_of_disk, m_sas_address_num, scan, otherThanPool, outdated>>

(* Where the loop of a thread goes after a round.                          *)
WhileNotExit(again) == IF udev_exit THEN "ended" ELSE again

(* The first scan is followed by the threads; that one cannot be created   *)
(* is not noticed, since the error is not -1.                              *)
CreateThreads ==
    \/ mon' = "created" /\ flush' = "compare" /\ IoGoesWell
    \/ mon' = "ended" /\ flush' = "compare" /\ IoFails
    \/ mon' = "created" /\ flush' = "ended" /\ IoFails

(* A later scan is followed by the wait for events.                        *)
ScanEnds ==
    /\ scan = "disks" /\ todo = {}
    /\ scan' = "done"
    /\ \/ mon = "down" /\ CreateThreads
       \/ mon # "down" /\ flush' = WhileNotExit("compare") /\ UNCHANGED mon /\ IoGoesWell
    /\ Reset("scanned")
    /\ UNCHANGED <<m_id_of_disk, m_sas_address_num, m_disk_pool, todo, hardware, udev, mon_read,
                   udev_exit, askVars, history>>

Scan == Clear \/ InitIds \/ InitSasAddress \/ (\E s \in Slots : GenDisk(s)) \/ ScanEnds

-----------------------------------------------------------------------------
(* udevadm_monitor                                                         *)

otherThanMonitor == <<hardware, poolVars, flushVars, askVars, outdated, doubt>>

(* The thread subscribes to the events of the kernel, or returns.          *)
Listen ==
    /\ mon = "created"
    /\ \/ mon' = WhileNotExit("select") /\ IoGoesWell /\ UNCHANGED unheard
       \/ mon' = "ended" /\ IoFails /\ unheard' = TRUE
    /\ UNCHANGED <<udev, mon_read, event_count, otherThanMonitor>>

(* select returns after three seconds without an event.                    *)
SelectTimesOut ==
    /\ mon = "select" /\ udev = 0
    /\ mon' = WhileNotExit("select")
    /\ UNCHANGED <<udev, mon_read, event_count, otherThanMonitor, bounds, unheard>>

(* udev_monitor_receive_device may return nothing.                         *)
Receive ==
    /\ mon = "select"
    /\ udev > 0
    /\ udev' = udev - 1
    /\ \/ mon' = "increment" /\ mon_read' = event_count
          /\ IoGoesWell /\ UNCHANGED unheard
       \/ mon' = WhileNotExit("select") /\ IoFails /\ unheard' = TRUE /\ UNCHANGED mon_read
    /\ UNCHANGED <<event_count, otherThanMonitor>>

Increment ==
    /\ mon = "increment"
    /\ mon' = WhileNotExit("select")
    /\ event_count' = mon_read + 1 /\ mon_read' = 0
    /\ UNCHANGED <<udev, otherThanMonitor, bounds, unheard>>

-----------------------------------------------------------------------------
(* flush_info                                                              *)

otherThanFlush == <<hardware, m_id_of_disk, m_sas_address_num, m_disk_pool, todo, monitorVars,
                    udev_exit, askVars, bounds, history>>

(* The same number of events as before the sleep.                          *)
Settled ==
    /\ flush = "compare"
    /\ old_event_count # 0 /\ old_event_count = event_count
    /\ flush' = "scan"
    /\ UNCHANGED <<old_event_count, event_count, scan, otherThanFlush>>

FlushScans ==
    /\ flush = "scan"
    /\ flush' = "scanning"
    /\ scan' = "clear"
    /\ Reset("scan")
    /\ UNCHANGED otherThanFlush

NotSettled ==
    /\ flush = "compare"
    /\ old_event_count = 0 \/ old_event_count # event_count
    /\ old_event_count' = event_count
    /\ flush' = WhileNotExit("compare")
    /\ UNCHANGED <<event_count, scan, otherThanFlush>>

(* stop_monitor, which backup_stop calls: for good, the flag is never      *)
(* taken back.                                                             *)
StopMonitor ==
    /\ flush # "down" /\ ~udev_exit
    /\ udev_exit' = TRUE
    /\ UNCHANGED <<flush, old_event_count, event_count, hardware, poolVars, monitorVars, askVars,
                   bounds, history>>

-----------------------------------------------------------------------------
(* get_diskid                                                              *)

otherThanAsk == <<hd, poolVars, monitorVars, flushVars, event_count, outdated, unheard>>

AskGoto(c, here, there) == ask[c] = here /\ ask' = [ask EXCEPT ![c] = there]

GetDiskid(c, p) ==
    /\ asks < MaxAsks /\ asks' = asks + 1
    /\ flush # "down"
    /\ \/ AskGoto(c, "idle", "look")
       \/ AskGoto(c, "returned", "look")
    /\ pos' = [pos EXCEPT ![c] = p]
    /\ at' = [at EXCEPT ![c] = 1]
    /\ answered' = [answered EXCEPT ![c] = NoHd]
    /\ doubt' = [doubt EXCEPT ![c] = outdated]
    /\ UNCHANGED <<mounted_hd, plugs, ioFaults, otherThanAsk>>

get_pos(o) ==
    IF o.jbod.asc_or_des THEN o.physics_index - o.jbod.start_num + 1
                         ELSE o.jbod.start_num - o.physics_index + 1

NextDisk(c) == at' = [at EXCEPT ![c] = @ + 1]

AskReturns(c) == ask' = [ask EXCEPT ![c] = "returned"] /\ at' = [at EXCEPT ![c] = 0]

Here(c) == m_disk_pool[at[c]]

Look(c) ==
    /\ ask[c] = "look"
    /\ \/ /\ at[c] > Len(m_disk_pool)
          /\ AskReturns(c)
       \/ /\ at[c] <= Len(m_disk_pool)
          /\ IF get_pos(Here(c)) = pos[c]
               THEN ask' = [ask EXCEPT ![c] = "umount"] /\ UNCHANGED at
               ELSE NextDisk(c) /\ UNCHANGED ask
    /\ UNCHANGED <<mounted_hd, pos, answered, bounds, doubt, otherThanAsk>>

(* umount_local_path: /etc/mtab must open, and nothing be in use.          *)
Umount(c) ==
    /\ AskGoto(c, "umount", "mount")
    /\ \/ /\ mounted_hd[c] # Unmounted /\ IoGoesWell
          /\ mounted_hd' = [mounted_hd EXCEPT ![c] = Front(@)]
       \/ mounted_hd[c] = Unmounted /\ IoGoesWell /\ UNCHANGED mounted_hd
       \/ IoFails /\ UNCHANGED mounted_hd
    /\ UNCHANGED <<pos, at, answered, doubt, otherThanAsk>>

(* What mount_local_ext4 returns.                                          *)
MountResult(is_mounted, is_in_mtab) == is_mounted /\ is_in_mtab

MountReturns(c, is_mounted, is_in_mtab) ==
    /\ mounted_hd' = IF is_mounted THEN [mounted_hd EXCEPT ![c] = Append(@, hd[Here(c).path])]
                                   ELSE mounted_hd
    /\ IF MountResult(is_mounted, is_in_mtab)
         THEN AskReturns(c) /\ answered' = [answered EXCEPT ![c] = Here(c).id]
         ELSE /\ ask' = [ask EXCEPT ![c] = "look"]
              /\ NextDisk(c)
              /\ UNCHANGED answered

(* mount_local_ext4: the first partition, and a line in /etc/mtab.         *)
MountLocal(c) ==
    /\ ask[c] = "mount"
    /\ \/ hd[Here(c).path] # NoHd /\ MountReturns(c, TRUE, TRUE) /\ IoGoesWell
       \/ hd[Here(c).path] # NoHd /\ MountReturns(c, TRUE, FALSE) /\ IoFails
       \/ hd[Here(c).path] # NoHd /\ MountReturns(c, FALSE, FALSE) /\ IoFails
       \/ hd[Here(c).path] = NoHd /\ MountReturns(c, FALSE, FALSE) /\ IoGoesWell
    /\ UNCHANGED <<pos, doubt, otherThanAsk>>

Ask(c) == Look(c) \/ Umount(c) \/ MountLocal(c)

Monitor == Listen \/ SelectTimesOut \/ Receive \/ Increment
Flush == Settled \/ FlushScans \/ NotSettled

HardwareNext ==
    \/ \E s \in Slots, d \in Hds \cup {NoHd} : Plug(s, d)
    \/ Scan
    \/ Monitor
    \/ Flush
    \/ StopMonitor
    \/ \E c \in Workers : (\E p \in BrickPositions : GetDiskid(c, p)) \/ Ask(c)

(* The threads run; the kernel delivers its events.                        *)
HardwareFairness ==
    /\ WF_hardwareVars(Scan)
    /\ WF_hardwareVars(Monitor)
    /\ WF_hardwareVars(Flush)

HardwareSpec == HardwareInit /\ [][HardwareNext]_hardwareVars /\ HardwareFairness

-----------------------------------------------------------------------------

Known(s) == EnclosureOf[s] \in ListedEnclosures \cap DOMAIN Jbods

(* A worker is told a disk only when that disk is what it finds on its     *)
(* target directory, and sits in the position that was asked for, although *)
(* calls of the system fail on the way and leave disks mounted on each     *)
(* other: unless the hardware changed since the pool was made, or the disk *)
(* is in a place that no known enclosure has.                              *)
RightDisk ==
    \A c \in Workers :
        ask[c] = "returned" /\ answered[c] # NoHd /\ ~doubt[c] =>
            /\ mounted_hd[c] # Unmounted /\ Last(mounted_hd[c]) = answered[c]
            /\ \E s \in Slots : hd[s] = answered[c] /\ (PositionOf[s] = pos[c] \/ ~Known(s))

PoolRight ==
    /\ Len(m_disk_pool) = Cardinality({s \in HasAddress : hd[s] # NoHd})
    /\ \A k \in DOMAIN m_disk_pool :
          LET o == m_disk_pool[k]
          IN  /\ hd[o.path] = o.id
              /\ Known(o.path) => get_pos(o) = PositionOf[o.path]

(* However the changes of the hardware fall between the steps of the       *)
(* monitor, the flush thread and the scan, in the end the pool shows the   *)
(* disks that are there.  It need not when a change was not heard of (one  *)
(* before the monitor listens or without a monitor, or an event that could *)
(* not be received), or when the flush thread is gone: after the service   *)
(* was stopped once, or because it could not be created.                   *)
PoolCatchesUp == <>[](unheard \/ flush = "ended" \/ PoolRight)

=============================================================================
