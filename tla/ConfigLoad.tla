----------------------------- MODULE ConfigLoad -----------------------------
(***************************************************************************)
(* The load of the configuration when the service starts, config::login_db *)
(* (src/backup/config.cpp), while administration programs change the       *)
(* tables: BRICK_MASTER is read at once, the positions of each brick by a  *)
(* query of their own on the same query object, the enclosures last on a   *)
(* second one.                                                             *)
(***************************************************************************)
EXTENDS BrickAdmin, Sequences

CONSTANTS MaxLoadFaults \* bound on the queries of the load that fail

VARIABLES
    opendbbase, odb, res, results,      \* the query objects, see SqlQuery
    lpc,                \* control point of login_db
    r_idx,              \* rows of BRICK_MASTER read so far
    m_task,             \* the bricks loaded, each with its positions
    loadFaults,         \* counter for the bound
    missed,             \* bricks whose query for positions failed
    moved               \* positions taken from a brick while the load runs

Queries == {"query", "query_jbod_info"}

Sql == INSTANCE SqlQuery

objectVars == <<opendbbase, odb, res, results>>
loadVars == <<objectVars, lpc, r_idx, m_task, loadFaults, missed, moved>>
loadConfigVars == <<configVars, loadVars>>

LoadInit ==
    /\ Sql!SqlInit
    /\ lpc = "connect"
    /\ r_idx = 0
    /\ m_task = << >>
    /\ loadFaults = 0
    /\ missed = {}
    /\ moved = {}

LoadGoto(here, there) == lpc = here /\ lpc' = there

LoadFault == loadFaults < MaxLoadFaults /\ loadFaults' = loadFaults + 1

(* The answers come in an order of the server's.                           *)
RowsOf(S) == {s \in [1..Cardinality(S) -> S] : \A x \in S : \E k \in DOMAIN s : s[k] = x}

ConfiguredBricks == {row.brick : row \in db["BRICK_MASTER"]}
PositionIds(b) == {row.pos : row \in PositionsOf(b)}

(* The answer that the loop runs over.                                     *)
BrickRows == results["query"][1]

-----------------------------------------------------------------------------
(* Seeded faults: the query for positions has no condition; the next row   *)
(* is counted by the bricks that were loaded.                              *)

EveryPosition(b) == {row.pos : row \in db["BRICK_DISK_POS"]}
AfterLoaded == BrickRows[Len(m_task) + 1]

-----------------------------------------------------------------------------

(* The rows that the query for a brick's positions asks for.               *)
AskedFor(b) == PositionIds(b)

ThisBrick == BrickRows[r_idx + 1]

LoadFails ==
    /\ lpc' = "failed"
    /\ Sql!Destroy(Queries)

(* The objects, and the ping.                                              *)
Connect ==
    /\ lpc = "connect"
    /\ \/ lpc' = "select" /\ Sql!Construct("query") /\ UNCHANGED loadFaults
       \/ LoadFails /\ LoadFault
    /\ UNCHANGED <<r_idx, m_task, missed, moved>>

SelectBricks ==
    /\ lpc = "select"
    /\ \/ /\ lpc' = "store"
          /\ \E rows \in RowsOf(ConfiguredBricks) : Sql!Execute("query", rows)
          /\ UNCHANGED loadFaults
       \/ LoadFails /\ LoadFault
    /\ UNCHANGED <<r_idx, m_task, missed, moved>>

StoreBricks ==
    /\ LoadGoto("store", "row")
    /\ Sql!Store("query")
    /\ UNCHANGED <<r_idx, m_task, loadFaults, missed, moved>>

(* A brick whose query fails is left out, and the loop goes on.            *)
SelectPositions ==
    /\ lpc = "row"
    /\ r_idx < Len(BrickRows)
    /\ \/ /\ lpc' = "positions"
          /\ \E rows \in RowsOf(AskedFor(ThisBrick)) : Sql!Execute("query", rows)
          /\ UNCHANGED <<r_idx, loadFaults, missed>>
       \/ /\ LoadFault
          /\ Sql!ExecuteFails("query")
          /\ missed' = missed \cup {ThisBrick}
          /\ r_idx' = r_idx + 1
          /\ UNCHANGED lpc
    /\ UNCHANGED <<m_task, moved>>

StorePositions ==
    /\ LoadGoto("positions", "push")
    /\ Sql!Store("query")
    /\ UNCHANGED <<r_idx, m_task, loadFaults, missed, moved>>

PushTask ==
    /\ LoadGoto("push", "row")
    /\ m_task' = Append(m_task, [brick |-> ThisBrick, pos |-> Sql!LastStored("query")])
    /\ r_idx' = r_idx + 1
    /\ UNCHANGED <<objectVars, loadFaults, missed, moved>>

(* The enclosures: without them login_db fails, with m_task filled.        *)
OpenJbod ==
    /\ LoadGoto("row", "jbod")
    /\ r_idx = Len(BrickRows)
    /\ Sql!Construct("query_jbod_info")
    /\ UNCHANGED <<r_idx, m_task, loadFaults, missed, moved>>

SelectJbod ==
    /\ lpc = "jbod"
    /\ \/ lpc' = "jbod_store" /\ Sql!Execute("query_jbod_info", << >>)
          /\ UNCHANGED loadFaults
       \/ LoadFails /\ LoadFault
    /\ UNCHANGED <<r_idx, m_task, missed, moved>>

StoreJbod ==
    /\ LoadGoto("jbod_store", "return")
    /\ Sql!Store("query_jbod_info")
    /\ UNCHANGED <<r_idx, m_task, loadFaults, missed, moved>>

Return ==
    /\ LoadGoto("return", "loaded")
    /\ Sql!Destroy(Queries)
    /\ UNCHANGED <<r_idx, m_task, loadFaults, missed, moved>>

LoadStep ==
    \/ Connect
    \/ SelectBricks \/ StoreBricks
    \/ SelectPositions \/ StorePositions \/ PushTask
    \/ OpenJbod \/ SelectJbod \/ StoreJbod
    \/ Return

-----------------------------------------------------------------------------

(* A worker logs a disk for its brick (db_exec::add_disk_for_brick).       *)
LogDisk(k, d) ==
    /\ lpc = "loaded"
    /\ LET s == Insert("BRICK_DISK", [brick |-> m_task[k].brick, disk |-> d])
       IN  Accepted(s) /\ db' = Executed(s)
    /\ UNCHANGED <<adminVars, loadVars>>

TakenPositions == {row.pos : row \in db["BRICK_DISK_POS"] \ db'["BRICK_DISK_POS"]}

LoadNext ==
    \/ LoadStep /\ UNCHANGED configVars
    \/ \E k \in DOMAIN m_task, d \in Disks : LogDisk(k, d)
    \/ /\ AdminNext
       /\ moved' = moved \cup {p \in TakenPositions : lpc \in {"row", "positions", "push"}}
       /\ UNCHANGED <<objectVars, lpc, r_idx, m_task, loadFaults, missed>>

LoadSpec == DbInit /\ AdminInit /\ LoadInit /\ [][LoadNext]_loadConfigVars

-----------------------------------------------------------------------------

(* Every brick that was in BRICK_MASTER when the load read it is loaded    *)
(* once, unless its own query for positions failed, although its row is    *)
(* read from an answer of a query object that is used for other queries    *)
(* in between.                                                             *)
LoadedOrMissed ==
    lpc \in {"row", "jbod", "jbod_store", "return"} =>
        \A k \in 1..r_idx :
            Cardinality({i \in DOMAIN m_task : m_task[i].brick = BrickRows[k]}) =
                (IF BrickRows[k] \in missed THEN 0 ELSE 1)

(* No two workers are given the same disk position (which each of them     *)
(* would clear for its own brick), except one that an administrator took   *)
(* from a brick since the load began.                                      *)
PositionGivenOnce ==
    \A i, j \in DOMAIN m_task :
        \A k \in DOMAIN m_task[i].pos, l \in DOMAIN m_task[j].pos :
            i # j /\ m_task[i].pos[k] = m_task[j].pos[l] => m_task[i].pos[k] \in moved

=============================================================================
