------------------------------ MODULE SqlQuery ------------------------------
(***************************************************************************)
(* The connection and query objects of src/db_access/mysqlplus.cpp.  A     *)
(* sql_connection_c keeps the handles it has opened, each busy or free; a  *)
(* sql_query_c grabs one for its lifetime.  A query's answer is held in    *)
(* res, and no other statement is sent until it is stored: results then    *)
(* keeps it until the query object is destroyed.                           *)
(***************************************************************************)
EXTENDS Naturals, Sequences, FiniteSetsExt

CONSTANTS Queries       \* the query objects of one connection

VARIABLES
    opendbbase,         \* busy flags of the handles, in the order of opening
    odb,                \* the handle of each query object, 0 without one
    res,                \* the answer a query object holds
    results             \* the answers it has stored

sqlVars == <<opendbbase, odb, res, results>>

NoAnswer == << >>       \* res = 0
Answer(rows) == <<rows>>

(* sql_connection_c::connect opens the first handle and frees it again.    *)
SqlInit ==
    /\ opendbbase = <<FALSE>>
    /\ odb = [q \in Queries |-> 0]
    /\ res = [q \in Queries |-> NoAnswer]
    /\ results = [q \in Queries |-> << >>]

Live(q) == odb[q] # 0

-----------------------------------------------------------------------------
FreeHandles == {h \in DOMAIN opendbbase : ~opendbbase[h]}

(* grabdb: a free handle, the one opened last, or a new one.               *)
GrabDb(q) ==
    IF FreeHandles = {}
      THEN /\ opendbbase' = Append(opendbbase, TRUE)
           /\ odb' = [odb EXCEPT ![q] = Len(opendbbase) + 1]
      ELSE /\ opendbbase' = [opendbbase EXCEPT ![Max(FreeHandles)] = TRUE]
           /\ odb' = [odb EXCEPT ![q] = Max(FreeHandles)]

(* sql_query_c::sql_query_c *)
Construct(q) ==
    /\ ~Live(q)
    /\ GrabDb(q)
    /\ UNCHANGED <<res, results>>

(* ~sql_query_c frees the answers and gives the handle back.               *)
Destroy(Q) ==
    /\ opendbbase' = [h \in DOMAIN opendbbase |->
                        opendbbase[h] /\ \A q \in Q : odb[q] # h]
    /\ odb' = [q \in Queries |-> IF q \in Q THEN 0 ELSE odb[q]]
    /\ res' = [q \in Queries |-> IF q \in Q THEN NoAnswer ELSE res[q]]
    /\ results' = [q \in Queries |-> IF q \in Q THEN << >> ELSE results[q]]

MaySend(q) == Live(q) /\ res[q] = NoAnswer

(* execute returns the answer, and so the old one when nothing was sent.   *)
Execute(q, rows) ==
    /\ res' = [res EXCEPT ![q] = IF MaySend(q) THEN Answer(rows) ELSE @]
    /\ UNCHANGED <<opendbbase, odb, results>>

(* The statement fails: no answer.                                         *)
ExecuteFails(q) == MaySend(q) /\ UNCHANGED sqlVars

Store(q) ==
    /\ res[q] # NoAnswer
    /\ results' = [results EXCEPT ![q] = Append(@, res[q][1])]
    /\ res' = [res EXCEPT ![q] = NoAnswer]
    /\ UNCHANGED <<opendbbase, odb>>

LastStored(q) == results[q][Len(results[q])]

=============================================================================
