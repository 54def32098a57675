---------------------------- MODULE BrickTables -----------------------------
(***************************************************************************)
(* The tables of src/sql/backup.sql that configure the bricks, and what a  *)
(* statement does to them.  A table is a set of rows, a row a record of    *)
(* the columns that keys and foreign keys are made of.  The engine is      *)
(* InnoDB and no program opens a transaction, so each statement is one     *)
(* step: it is carried out, or refused for a key or a foreign key.         *)
(***************************************************************************)
EXTENDS Naturals, FiniteSets

CONSTANTS NAS, Indexes, BrickIds, Positions, Disks

ASSUME NamesAssumption ==
    /\ NAS # {} /\ Indexes # {} /\ BrickIds # {}
    /\ IsFiniteSet(BrickIds) /\ IsFiniteSet(Positions)

VARIABLE db             \* the rows of each table

Rows == [NAS_MASTER     |-> [nas : NAS],
         BRICK_INDEX    |-> [num : Indexes],
         BRICK_MASTER   |-> [brick : BrickIds],
         BACKUP_MASTER  |-> [nas : NAS, num : Indexes, brick : BrickIds],
         BRICK_DISK_POS |-> [brick : BrickIds, pos : Positions],
         BRICK_DISK     |-> [brick : BrickIds, disk : Disks]]

Tables == DOMAIN Rows

(* PRIMARY KEY, a single column in every table.                            *)
Key == [NAS_MASTER     |-> "nas",
        BRICK_INDEX    |-> "num",
        BRICK_MASTER   |-> "brick",
        BACKUP_MASTER  |-> "brick",
        BRICK_DISK_POS |-> "pos",
        BRICK_DISK     |-> "disk"]

(* FOREIGN KEY ... REFERENCES                                              *)
References ==
    {[from |-> "BACKUP_MASTER",  column |-> "nas",   to |-> "NAS_MASTER"],
     [from |-> "BACKUP_MASTER",  column |-> "num",   to |-> "BRICK_INDEX"],
     [from |-> "BACKUP_MASTER",  column |-> "brick", to |-> "BRICK_MASTER"],
     [from |-> "BRICK_DISK_POS", column |-> "brick", to |-> "BRICK_MASTER"],
     [from |-> "BRICK_DISK",     column |-> "brick", to |-> "BRICK_MASTER"]}

ForeignKeysHold(d) ==
    \A ref \in References : \A row \in d[ref.from] :
        \E other \in d[ref.to] : other[ref.column] = row[ref.column]

DbTypeOK ==
    /\ DOMAIN db = Tables
    /\ \A t \in Tables : db[t] \subseteq Rows[t]

(* Any configuration that was entered without a mishap: all hosts and      *)
(* indexes, and bricks that each have a place of their own.                *)
DbInit ==
    \E placed \in SUBSET Rows["BACKUP_MASTER"], positioned \in SUBSET Rows["BRICK_DISK_POS"] :
        /\ db = [t \in Tables |->
                   CASE t = "BRICK_MASTER"   -> {[brick |-> r.brick] : r \in placed}
                     [] t = "BACKUP_MASTER"  -> placed
                     [] t = "BRICK_DISK_POS" -> positioned
                     [] t = "BRICK_DISK"     -> {}
                     [] OTHER                -> Rows[t]]
        /\ \A r, s \in placed :
              r.brick = s.brick \/ (r.nas = s.nas /\ r.num = s.num) => r = s
        /\ \A r, s \in positioned : r.pos = s.pos => r = s
        /\ ForeignKeysHold(db)

-----------------------------------------------------------------------------

Insert(t, row)   == [kind |-> "insert", table |-> t, row |-> row]
Delete(t, where) == [kind |-> "delete", table |-> t, row |-> where]

Matches(row, where) == \A column \in DOMAIN where : row[column] = where[column]

Selected(t, where) == {row \in db[t] : Matches(row, where)}

(* The tables after the statement s.                                       *)
Executed(s) ==
    IF s.kind = "insert"
      THEN [db EXCEPT ![s.table] = @ \cup {s.row}]
      ELSE [db EXCEPT ![s.table] = @ \ Selected(s.table, s.row)]

(* Deleting nothing is accepted, inserting a key again is not.             *)
Accepted(s) ==
    /\ s.kind = "insert" =>
         \A row \in db[s.table] : row[Key[s.table]] # s.row[Key[s.table]]
    /\ ForeignKeysHold(Executed(s))

=============================================================================
