------------------------------ MODULE SqlObjects ------------------------------
(***************************************************************************)
(* A query object with all that its class offers (src/db_access/           *)
(* mysqlplus.cpp), where SqlQuery has what the programs' statements need:  *)
(* statements sent without taking their answer, answers stored in a        *)
(* vector_c and freed one at a time, rows read up to their end, columns    *)
(* that are NULL.                                                          *)
(*                                                                         *)
(* An answer is a number; answers holds those that are in memory.  Asking  *)
(* for a count, a field, the insert id or a ping changes nothing here.     *)
(***************************************************************************)
EXTENDS Naturals, SequencesExt

CONSTANTS
    RowsOfAnswers,      \* what an answer may hold: "value" or "null" per row
    MaxSent             \* bound on statements

ASSUME MaxSentAssumption == MaxSent \in Nat
ASSUME RowsAssumption == RowsOfAnswers \subseteq Seq({"value", "null"})

VARIABLES
    query,              \* "none", "live", or "undefined"
    unretrieved,        \* an answer is still with the query's handle
    held_res,           \* sql_query_c::res
    stored,             \* sql_query_c::results
    answers,            \* the rows of each answer that are not fetched yet
    fetched,            \* the row that the caller has, and its answer
    allow_null,
    overlapped,         \* del has copied onto memory that it read from
    sent

sqlObjectVars == <<query, unretrieved, held_res, stored, answers, fetched, allow_null,
                   overlapped, sent>>

Nothing == 0            \* a null pointer
NoRow == [answer |-> Nothing, column |-> "end"]

SqlObjectsInit ==
    /\ query = "none"
    /\ unretrieved = FALSE
    /\ held_res = Nothing
    /\ stored = << >>
    /\ answers = [a \in {} |-> << >>]
    /\ fetched = NoRow
    /\ allow_null = TRUE
    /\ overlapped = FALSE
    /\ sent = 0

-----------------------------------------------------------------------------
(* vector_c                                                                *)

Added(v, item) == Append(v, item)

(* memcpy onto overlapping memory: what is there afterwards depends on the *)
(* direction in which the items are copied.                                *)
Overlaps(v, idx) == Len(v) - idx >= 2

Deleted(v, idx) ==
    {RemoveAt(v, idx)} \cup
    (IF Overlaps(v, idx)
       THEN {[k \in 1..(Len(v) - 1) |-> IF k < idx THEN v[k] ELSE Last(v)]}
       ELSE {})

-----------------------------------------------------------------------------
(* The library: a statement is refused while an answer is not retrieved.   *)

Sends(accepted) ==
    /\ sent < MaxSent /\ sent' = sent + 1
    /\ accepted => ~unretrieved

Freed(A) == answers' = [a \in DOMAIN answers \ A |-> answers[a]]

-----------------------------------------------------------------------------
(* Seeded fault: store leaves the answer with the query, too.              *)

StillHeld == held_res

-----------------------------------------------------------------------------
(* sql_query_c                                                             *)

ConstructQuery ==
    /\ query = "none"
    /\ query' = "live"
    /\ held_res' = Nothing /\ stored' = << >>
    /\ UNCHANGED <<unretrieved, answers, fetched, allow_null, overlapped, sent>>

(* try_execute, and exec_sql: the answer of a query stays with the handle. *)
TryExecute ==
    /\ query = "live" /\ held_res = Nothing
    /\ \E accepted, is_query \in BOOLEAN :
          /\ Sends(accepted)
          /\ unretrieved' = (unretrieved \/ (accepted /\ is_query))
    /\ UNCHANGED <<query, held_res, stored, answers, fetched, allow_null, overlapped>>

(* The constructor with a statement does not take its answer either.       *)
ConstructWithStatement ==
    /\ query = "none"
    /\ query' = "live"
    /\ held_res' = Nothing /\ stored' = << >>
    /\ \E accepted, is_query \in BOOLEAN :
          /\ Sends(accepted)
          /\ unretrieved' = (unretrieved \/ (accepted /\ is_query))
    /\ UNCHANGED <<answers, fetched, allow_null, overlapped>>

(* execute takes the answer; other statements have none.                   *)
ExecuteQuery ==
    /\ query = "live" /\ held_res = Nothing
    /\ \/ /\ Sends(TRUE)
          /\ \E rows \in RowsOfAnswers :
                answers' = [a \in DOMAIN answers \cup {sent'} |->
                              IF a = sent' THEN rows ELSE answers[a]]
          /\ held_res' = sent'
       \/ \E accepted \in BOOLEAN : Sends(accepted) /\ UNCHANGED <<answers, held_res>>
    /\ UNCHANGED <<query, unretrieved, stored, fetched, allow_null, overlapped>>

(* What store leaves in res.                                               *)
HeldAfterStore == Nothing

StoreAnswer ==
    /\ query = "live" /\ held_res # Nothing
    /\ stored' = Added(stored, held_res)
    /\ held_res' = HeldAfterStore
    /\ UNCHANGED <<query, unretrieved, answers, fetched, allow_null, overlapped, sent>>

(* free_result of the first entry that is this answer.                     *)
FreeStored(a) ==
    /\ query = "live" /\ a \in DOMAIN answers /\ a \in ToSet(stored)
    /\ LET idx == SelectInSeq(stored, LAMBDA item : item = a)
       IN  /\ stored' \in Deleted([stored EXCEPT ![idx] = Nothing], idx)
           /\ overlapped' = (overlapped \/ Overlaps(stored, idx))
    /\ Freed({a})
    /\ UNCHANGED <<query, unretrieved, held_res, fetched, allow_null, sent>>

FreeHeld ==
    /\ query = "live" /\ held_res # Nothing
    /\ Freed({held_res})
    /\ held_res' = Nothing
    /\ UNCHANGED <<query, unretrieved, stored, fetched, allow_null, overlapped, sent>>

(* A result that is twice in the vector is deleted twice.                  *)
Twice(v) == \E j, k \in DOMAIN v : j < k /\ v[j] = v[k] /\ v[j] # Nothing

DestroyQuery ==
    /\ query = "live"
    /\ query' = IF Twice(stored) \/ ~(ToSet(stored) \subseteq DOMAIN answers \cup {Nothing})
                  THEN "undefined" ELSE "none"
    /\ Freed(ToSet(stored) \cup {held_res})
    /\ stored' = << >> /\ held_res' = Nothing
    /\ fetched' = NoRow
    /\ UNCHANGED <<unretrieved, allow_null, overlapped, sent>>

-----------------------------------------------------------------------------
(* sql_result_c, sql_row_c and sql_var_c                                   *)

(* Behind the last row, the row is a null pointer.                         *)
FetchRow(a) ==
    /\ query = "live" /\ a \in DOMAIN answers /\ a \in ToSet(stored)
    /\ IF answers[a] = << >>
         THEN fetched' = [answer |-> a, column |-> "end"] /\ UNCHANGED answers
         ELSE /\ fetched' = [answer |-> a, column |-> Head(answers[a])]
              /\ answers' = [answers EXCEPT ![a] = Tail(@)]
    /\ allow_null' = TRUE
    /\ UNCHANGED <<query, unretrieved, held_res, stored, overlapped, sent>>

AllowNull ==
    /\ query = "live" /\ fetched # NoRow
    /\ allow_null' = FALSE
    /\ UNCHANGED <<query, unretrieved, held_res, stored, answers, fetched, overlapped, sent>>

(* The value is copied with strlen, which a null pointer does not survive; *)
(* with allow_null off, the empty string stands for it.                    *)
ColumnDefined ==
    /\ fetched.answer \in DOMAIN answers
    /\ \/ fetched.column = "value"
       \/ fetched.column = "null" /\ ~allow_null

ReadColumn ==
    /\ query = "live" /\ fetched # NoRow
    /\ query' = IF ColumnDefined THEN "live" ELSE "undefined"
    /\ UNCHANGED <<unretrieved, held_res, stored, answers, fetched, allow_null, overlapped, sent>>

SqlObjectsNext ==
    \/ ConstructQuery \/ ConstructWithStatement \/ DestroyQuery
    \/ TryExecute \/ ExecuteQuery
    \/ StoreAnswer \/ FreeHeld
    \/ \E a \in DOMAIN answers : FreeStored(a) \/ FetchRow(a)
    \/ AllowNull \/ ReadColumn

SqlObjectsSpec == SqlObjectsInit /\ [][SqlObjectsNext]_sqlObjectVars

-----------------------------------------------------------------------------

(* Every variable stays in its type. *)
SqlObjectsTypeOK ==
    /\ query \in {"none", "live", "undefined"}
    /\ unretrieved \in BOOLEAN /\ allow_null \in BOOLEAN /\ overlapped \in BOOLEAN
    /\ held_res \in 0..MaxSent /\ stored \in Seq(0..MaxSent)
    /\ DOMAIN answers \subseteq 1..MaxSent
    /\ fetched \in [answer : 0..MaxSent, column : {"value", "null", "end"}]

(* Every answer in memory has one owner, the query or one entry of its     *)
(* vector, and no owner has an answer that was freed: whatever is          *)
(* executed, stored and freed in whatever order, none is freed twice and   *)
(* none is left when the query is gone.  Except once a result was freed    *)
(* that two others follow in the vector.                                   *)
AnswersOwnedOnce ==
    query # "undefined" /\ ~overlapped =>
        /\ ToSet(stored) \cup ({held_res} \ {Nothing}) = DOMAIN answers
        /\ ~Twice(stored)
        /\ held_res \notin ToSet(stored)

=============================================================================
