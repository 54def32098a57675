----------------------------- MODULE BrickAdmin -----------------------------
(***************************************************************************)
(* The administration programs (src/backupadmin: BrickMaster, NASMaster,   *)
(* db_config), several of which may run against one database.              *)
(*                                                                         *)
(* A handler sends its statements one by one, with the other programs in   *)
(* between.  A statement may fail, done or not, and a program may be       *)
(* killed between two statements.  db_config builds every statement in     *)
(* m_sql, which exec and the queries empty, but the failed check of        *)
(* check_nas_index does not.                                               *)
(***************************************************************************)
EXTENDS BrickTables

CONSTANTS
    Admins,             \* the programs
    MaxCommands,        \* bound on the buttons pressed, all programs together
    MaxFaults           \* bound on failed statements and killed programs

ASSUME BoundsAssumption == MaxCommands \in Nat /\ MaxFaults \in Nat

VARIABLES
    apc,                \* control point of each program
    form,               \* the brick its handler is about, and the brick's place
    leftover,           \* BrickMaster's m_db.m_sql is not empty
    listed,             \* BrickMaster's m_curr_nas_v, _index_v, _brick_v, _pos_v
    commands, faults,   \* counters for the bounds
    raced,              \* places two programs were adding to at once
    failed,             \* bricks with an operation ended by a fault
    kept                \* bricks whose row the server refused to delete

handlerVars == <<apc, form>>
ghostVars == <<raced, failed, kept>>
adminVars == <<apc, form, leftover, listed, commands, faults, ghostVars>>
configVars == <<db, adminVars>>

Place(n, i) == [nas |-> n, num |-> i]
Forms == [nas : NAS, num : Indexes, brick : BrickIds]
PlaceOf(f) == Place(f.nas, f.num)
BrickRow(b) == [brick |-> b]

NothingListed == [nas |-> {}, num |-> {}, brick |-> {}, pos |-> {}]

AdminInit ==
    /\ apc = [a \in Admins |-> "flush"]
    /\ form \in [Admins -> {CHOOSE f \in Forms : TRUE}]
    /\ leftover = [a \in Admins |-> FALSE]
    /\ listed = [a \in Admins |-> NothingListed]
    /\ commands = 0
    /\ faults = 0
    /\ raced = {}
    /\ failed = {}
    /\ kept = {}

AdminGoto(a, p) == apc' = [apc EXCEPT ![a] = p]

(* A button is pressed: nothing else is under way in that program.         *)
Pressed(a) ==
    /\ apc[a] = "idle"
    /\ commands < MaxCommands
    /\ commands' = commands + 1

Fault == faults < MaxFaults /\ faults' = faults + 1

(* Operations were broken off: on B by a fault, on K by a refusal.  What   *)
(* is known of a brick that is gone is forgotten.                          *)
Mar(B, K) ==
    LET Still(C) == {b \in C : BrickRow(b) \in db'["BRICK_MASTER"]} IN
    /\ failed' = Still(failed \cup B)
    /\ kept' = Still(kept \cup K)

(* What a statement that deletes the row of b leaves behind when it does   *)
(* not succeed.                                                            *)
MarUnlessDeleted(ok, b) ==
    IF ok THEN Mar({}, {})
    ELSE IF faults' = faults THEN Mar({}, {b}) ELSE Mar({b}, {})

-----------------------------------------------------------------------------
(* One statement.                                                          *)

(* mysql_query: carried out, refused, or failed with an unknown effect.    *)
Query(s, ok) ==
    \/ /\ ok = Accepted(s)
       /\ db' = IF ok THEN Executed(s) ELSE db
       /\ UNCHANGED faults
    \/ /\ Fault
       /\ ~ok
       /\ db' \in {db} \cup {d \in {Executed(s)} : Accepted(s)}

(* db_config::exec of BrickMaster: with a text left over, the server gets  *)
(* two statements in one and refuses them.                                 *)
Exec(a, s, ok) ==
    /\ \/ leftover[a] /\ ~ok /\ UNCHANGED <<db, faults>>
       \/ ~leftover[a] /\ Query(s, ok)
    /\ leftover' = [leftover EXCEPT ![a] = FALSE]

-----------------------------------------------------------------------------
(* Seeded faults: the check is taken for passed when the place is taken;   *)
(* the first statement is not taken back when the second fails.            *)

AlwaysFree(f) == TRUE
NoUndo == "idle"

-----------------------------------------------------------------------------

(* check_nas_index, when the database answers.                             *)
PlaceIsFree(f) == Selected("BACKUP_MASTER", PlaceOf(f)) = {}

(* add_brick's next statement when its second one fails.                   *)
AfterRefusedBackup == "undo"

-----------------------------------------------------------------------------
(* BrickMaster::on_flush, at the start, by its button and after success:   *)
(* four queries.  A query that fails leaves its list empty.                *)

PositionsOf(b) == Selected("BRICK_DISK_POS", BrickRow(b))

(* What the lists show when the queries for the lists in full succeed; the *)
(* positions are those of the brick that comes first.                      *)
Shown(full, first) ==
    [nas   |-> IF "nas" \in full THEN {r.nas : r \in db["NAS_MASTER"]} ELSE {},
     num   |-> IF "num" \in full THEN {r.num : r \in db["BRICK_INDEX"]} ELSE {},
     brick |-> IF "brick" \in full THEN {r.brick : r \in db["BRICK_MASTER"]} ELSE {},
     pos   |-> IF {"brick", "pos"} \subseteq full THEN PositionsOf(first) ELSE {}]

(* A text left over spoils the first query, and is gone then.              *)
OnFlush(a) ==
    /\ \/ apc[a] = "flush" /\ UNCHANGED commands
       \/ Pressed(a)
    /\ AdminGoto(a, "idle")
    /\ \E full \in SUBSET DOMAIN NothingListed, first \in BrickIds :
          /\ leftover[a] => "nas" \notin full
          /\ \/ {"num", "brick", "pos"} \subseteq full /\ ("nas" \in full \/ leftover[a])
                /\ UNCHANGED faults
             \/ Fault
          /\ listed' = [listed EXCEPT ![a] = Shown(full, first)]
    /\ leftover' = [leftover EXCEPT ![a] = FALSE]
    /\ UNCHANGED <<db, form, ghostVars>>

(* on_flush_pos, when a brick is chosen in the menu.                       *)
OnFlushPos(a, b) ==
    /\ Pressed(a)
    /\ b \in listed[a].brick
    /\ \/ leftover[a] /\ listed' = [listed EXCEPT ![a].pos = {}] /\ UNCHANGED faults
       \/ ~leftover[a] /\ listed' = [listed EXCEPT ![a].pos = PositionsOf(b)]
          /\ UNCHANGED faults
       \/ Fault /\ listed' = [listed EXCEPT ![a].pos = {}]
    /\ leftover' = [leftover EXCEPT ![a] = FALSE]
    /\ UNCHANGED <<db, handlerVars, ghostVars>>

-----------------------------------------------------------------------------
(* BrickMaster::on_add                                                     *)

OnAdd(a, f) ==
    /\ Pressed(a)
    /\ f.nas \in listed[a].nas
    /\ f.num \in listed[a].num
    /\ \/ /\ ~leftover[a]
          /\ IF PlaceIsFree(f)
               THEN AdminGoto(a, "insert_brick") /\ form' = [form EXCEPT ![a] = f]
               ELSE UNCHANGED handlerVars
          /\ UNCHANGED <<leftover, faults>>
       \/ /\ \/ leftover[a] /\ UNCHANGED faults
             \/ Fault
          /\ leftover' = [leftover EXCEPT ![a] = TRUE]
          /\ UNCHANGED handlerVars
    /\ UNCHANGED <<db, listed, ghostVars>>

(* add_brick. *)
InsertBrick(a) ==
    /\ apc[a] = "insert_brick"
    /\ \E ok \in BOOLEAN :
          /\ Exec(a, Insert("BRICK_MASTER", BrickRow(form[a].brick)), ok)
          /\ AdminGoto(a, IF ok THEN "insert_backup" ELSE "idle")
          /\ Mar(IF faults' = faults THEN {} ELSE {form[a].brick}, {})
    /\ UNCHANGED <<form, listed, commands, raced>>

AddingTo(a, place) ==
    apc[a] \in {"insert_brick", "insert_backup"} /\ PlaceOf(form[a]) = place

InsertBackup(a) ==
    /\ apc[a] = "insert_backup"
    /\ \E ok \in BOOLEAN :
          /\ Exec(a, Insert("BACKUP_MASTER", form[a]), ok)
          /\ AdminGoto(a, IF ok THEN "flush" ELSE AfterRefusedBackup)
    /\ raced' = raced \cup {p \in {PlaceOf(form[a])} :
                              \E other \in Admins \ {a} : AddingTo(other, p)}
    /\ Mar({}, {})
    /\ UNCHANGED <<form, listed, commands>>

Undo(a) ==
    /\ apc[a] = "undo"
    /\ \E ok \in BOOLEAN :
          /\ Exec(a, Delete("BRICK_MASTER", BrickRow(form[a].brick)), ok)
          /\ MarUnlessDeleted(ok, form[a].brick)
    /\ AdminGoto(a, "idle")
    /\ UNCHANGED <<form, listed, commands, raced>>

-----------------------------------------------------------------------------
(* BrickMaster::on_del, del_brick                                          *)

OnDel(a, b) ==
    /\ Pressed(a)
    /\ b \in listed[a].brick
    /\ \E ok \in BOOLEAN :
          /\ Exec(a, Delete("BACKUP_MASTER", BrickRow(b)), ok)
          /\ AdminGoto(a, IF ok THEN "delete_brick" ELSE "idle")
          /\ Mar(IF faults' = faults THEN {} ELSE {b}, {})
    /\ form' = [form EXCEPT ![a].brick = b]
    /\ UNCHANGED <<listed, raced>>

DeleteBrick(a) ==
    /\ apc[a] = "delete_brick"
    /\ \E ok \in BOOLEAN :
          /\ Exec(a, Delete("BRICK_MASTER", BrickRow(form[a].brick)), ok)
          /\ AdminGoto(a, IF ok THEN "flush" ELSE "idle")
          /\ MarUnlessDeleted(ok, form[a].brick)
    /\ UNCHANGED <<form, listed, commands, raced>>

-----------------------------------------------------------------------------
(* The handlers of one statement.                                          *)

OneStatement(a, s) ==
    /\ Pressed(a)
    /\ \E ok \in BOOLEAN :
          /\ Exec(a, s, ok)
          /\ AdminGoto(a, IF ok THEN "flush" ELSE "idle")
    /\ Mar({}, {})
    /\ UNCHANGED <<form, listed, raced>>

OnAddDiskPos(a, b, p) ==
    /\ b \in listed[a].brick
    /\ OneStatement(a, Insert("BRICK_DISK_POS", [brick |-> b, pos |-> p]))

OnDelDiskPos(a, row) ==
    /\ row \in listed[a].pos
    /\ OneStatement(a, Delete("BRICK_DISK_POS", row))

(* NASMaster has a db_config, lists and an on_flush of its own; its lists  *)
(* may name what another program has deleted.                              *)
NasStatement(a, s) ==
    /\ Pressed(a)
    /\ \E ok \in BOOLEAN : Query(s, ok)
    /\ Mar({}, {})
    /\ UNCHANGED <<apc, form, leftover, listed, raced>>

OnAddNas(a, n)   == NasStatement(a, Insert("NAS_MASTER", [nas |-> n]))
OnDelNas(a, n)   == NasStatement(a, Delete("NAS_MASTER", [nas |-> n]))
OnAddIndex(a, i) == NasStatement(a, Insert("BRICK_INDEX", [num |-> i]))
OnDelIndex(a, i) == NasStatement(a, Delete("BRICK_INDEX", [num |-> i]))

-----------------------------------------------------------------------------

(* The program ends in the middle of a handler, and is started again.      *)
Killed(a) ==
    /\ apc[a] \notin {"idle", "flush"}
    /\ Fault
    /\ AdminGoto(a, "flush")
    /\ leftover' = [leftover EXCEPT ![a] = FALSE]
    /\ listed' = [listed EXCEPT ![a] = NothingListed]
    /\ UNCHANGED <<db, form, commands, raced>>
    /\ Mar({form[a].brick}, {})

(* The buttons of the two pages, and what their handlers go on with.       *)
BrickMaster(a) ==
    \/ OnFlush(a)
    \/ \E b \in BrickIds : OnFlushPos(a, b)
    \/ \E f \in Forms : OnAdd(a, f)
    \/ InsertBrick(a)
    \/ InsertBackup(a)
    \/ Undo(a)
    \/ \E b \in BrickIds : OnDel(a, b)
    \/ DeleteBrick(a)
    \/ \E b \in BrickIds, p \in Positions : OnAddDiskPos(a, b, p)
    \/ \E row \in Rows["BRICK_DISK_POS"] : OnDelDiskPos(a, row)

NASMaster(a) ==
    \/ \E n \in NAS : OnAddNas(a, n) \/ OnDelNas(a, n)
    \/ \E i \in Indexes : OnAddIndex(a, i) \/ OnDelIndex(a, i)

AdminStep(a) == BrickMaster(a) \/ NASMaster(a) \/ Killed(a)

AdminNext == \E a \in Admins : AdminStep(a)

AdminSpec == DbInit /\ AdminInit /\ [][AdminNext]_configVars

-----------------------------------------------------------------------------

(* Every variable stays in its type, and the keys hold. *)
AdminTypeOK ==
    /\ DbTypeOK
    /\ ForeignKeysHold(db)
    /\ apc \in [Admins -> {"flush", "idle", "insert_brick", "insert_backup", "undo",
                           "delete_brick"}]
    /\ form \in [Admins -> Forms]
    /\ leftover \in [Admins -> BOOLEAN]
    /\ listed \in [Admins -> [nas : SUBSET NAS, num : SUBSET Indexes,
                              brick : SUBSET BrickIds,
                              pos : SUBSET Rows["BRICK_DISK_POS"]]]
    /\ commands \in 0..MaxCommands
    /\ faults \in 0..MaxFaults
    /\ raced \subseteq [nas : NAS, num : Indexes]
    /\ failed \subseteq BrickIds
    /\ kept \subseteq BrickIds

(* An index of a host holds two bricks only where two programs were adding *)
(* to it at the same time: the check of on_add (BrickMaster.cpp:202) and   *)
(* the insert that follows are apart.                                      *)
IndexSharedOnlyByRace ==
    \A r, s \in db["BACKUP_MASTER"] :
        PlaceOf(r) = PlaceOf(s) /\ r # s => PlaceOf(r) \in raced

(* A brick that is in BRICK_MASTER without a place is the work of an       *)
(* operation that is still under way, or of one that was broken off by a   *)
(* fault (a statement that failed, a program that was killed), or of a     *)
(* deletion whose second statement the server refused: rows of other       *)
(* tables depend on the brick, disk positions, that were there before or   *)
(* that another program added in between (db_config.cpp:80-87), while its  *)
(* first statement has already taken the place away.  The same holds for   *)
(* the deletion by which add_brick takes back its first statement.  An     *)
(* insertion that is refused leaves no brick of itself.                    *)
HalfBrickExplained ==
    \A b \in BrickIds :
        BrickRow(b) \in db["BRICK_MASTER"] /\ Selected("BACKUP_MASTER", BrickRow(b)) = {}
            => \/ b \in failed
               \/ b \in kept
               \/ \E a \in Admins : apc[a] \notin {"idle", "flush"} /\ form[a].brick = b

=============================================================================
