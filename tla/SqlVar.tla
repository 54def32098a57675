-------------------------------- MODULE SqlVar --------------------------------
(***************************************************************************)
(* A variable that holds a column or a parameter of a statement as text:   *)
(* sql_var_c of src/db_access/mysqlplus.cpp, and itoa of                   *)
(* src/systools/systools.cpp, which writes a number into it.               *)
(*                                                                         *)
(* A text is a sequence of characters: the digits 0 to 9, a blank, a point *)
(* and a letter.  The widths of the integers, and the room that the code   *)
(* gives a number, are parameters: a number that itoa is given is unsigned *)
(* and wider than the int that is passed to it.  A double is its integer   *)
(* part; what comes after the point is only counted.                       *)
(***************************************************************************)
EXTENDS Integers, SequencesExt

CONSTANTS
    Ints,               \* the numbers that are assigned
    INT_MAX, ULONG_MAX, \* the greatest int and the greatest unsigned long
    IntRoom,            \* characters of the block for an int, the end included
    Doubles,            \* integer parts of the doubles that are assigned
    DoubleRoom,         \* characters of the block for a double
    DoubleWidth, Decimals,      \* of its format
    Texts,              \* the texts that are assigned
    MaxAssigned         \* bound on assignments

-----------------------------------------------------------------------------
Blank == 10
Point == 11
Letter == 12
Null == <<-1>>          \* no text

DecimalOf[n \in Nat] ==
    IF n < 10 THEN <<n>> ELSE Append(DecimalOf[n \div 10], n % 10)

(* The block of an int has room for each int, with its sign and the end,   *)
(* and not for the long that a negative int becomes.                       *)
ASSUME WidthAssumption ==
    /\ INT_MAX \in Nat /\ ULONG_MAX \in Nat /\ INT_MAX < ULONG_MAX
    /\ Ints \subseteq -(INT_MAX + 1)..INT_MAX
    /\ IntRoom \in Nat
    /\ Len(DecimalOf[INT_MAX + 1]) + 2 <= IntRoom
    /\ IntRoom <= Len(DecimalOf[ULONG_MAX - INT_MAX])
ASSUME TextAssumption ==
    /\ MaxAssigned \in Nat /\ Doubles \subseteq Nat
    /\ DoubleRoom \in Nat /\ DoubleWidth \in Nat /\ Decimals \in Nat
    /\ Texts \subseteq Seq(0..Letter)

VARIABLES
    var,                \* "none", "live", or "undefined"
    value,              \* the text, or Null
    itoa,               \* control point of itoa
    val,                \* what it has still to divide
    p, firstdig,        \* the places that it exchanges
    (* history *)
    assigned,           \* how often something was assigned
    last                \* what was assigned last

varVars == <<var, value, itoa, val, p, firstdig, assigned, last>>

(* What is assigned: a number, a text, both of no meaning for the other.   *)
OfInt(i) == [kind |-> "int", number |-> i, text |-> Null]
OfDouble(n) == [kind |-> "double", number |-> n, text |-> Null]
OfText(s) == [kind |-> "text", number |-> 0, text |-> s]

VarInit ==
    /\ var = "none"
    /\ value = Null
    /\ itoa = "returned"
    /\ val = 0
    /\ p = 0 /\ firstdig = 0
    /\ assigned = 0
    /\ last = OfText(Null)

-----------------------------------------------------------------------------
(* The library: the format of a double, atoi.                              *)

Formatted(n) ==
    LET text == DecimalOf[n] \o <<Point>> \o [k \in 1..Decimals |-> 0]
    IN  [k \in 1..(DoubleWidth - Len(text)) |-> Blank] \o text

(* Blanks are passed over, and the digits up to something else are read.   *)
Leading(s, Is(_)) == LET other == {k \in DOMAIN s : ~Is(s[k])}
                     IN  IF other = {} THEN Len(s) ELSE Min(other) - 1

Atoi(s) ==
    LET digits == SubSeq(s, Leading(s, LAMBDA c : c = Blank) + 1, Len(s))
    IN  FoldLeft(LAMBDA sum, c : 10 * sum + c, 0,
                 SubSeq(digits, 1, Leading(digits, LAMBDA c : c \in 0..9)))

-----------------------------------------------------------------------------
(* Seeded fault: the two digits in the middle are left as they are.        *)

NotTheMiddle(i, j) == i + 1 < j

-----------------------------------------------------------------------------
(* sql_var_c                                                               *)

(* A constructor with an argument assigns it to a variable with no text.   *)
Assigning(what) ==
    /\ var \in {"none", "live"} /\ itoa = "returned"
    /\ assigned < MaxAssigned /\ assigned' = assigned + 1
    /\ last' = what

ConstructEmpty ==
    /\ var = "none"
    /\ var' = "live"
    /\ value' = Null
    /\ last' = OfText(Null)
    /\ UNCHANGED <<itoa, val, p, firstdig, assigned>>

(* The text is released; an int becomes a long that is not signed.         *)
AssignInt(i) ==
    /\ Assigning(OfInt(i))
    /\ var' = "live"
    /\ value' = << >>
    /\ itoa' = "divide"
    /\ val' = i % (ULONG_MAX + 1)
    /\ UNCHANGED <<p, firstdig>>

AssignDouble(n) ==
    /\ Assigning(OfDouble(n))
    /\ value' = Formatted(n)
    /\ var' = IF Len(Formatted(n)) < DoubleRoom THEN "live" ELSE "undefined"
    /\ UNCHANGED <<itoa, val, p, firstdig>>

(* The length of a text is asked for although there may be none; and the   *)
(* variable's own text is copied after it was released.                    *)
AssignText(s) ==
    /\ Assigning(OfText(s))
    /\ value' = s
    /\ var' = IF s = Null THEN "undefined" ELSE "live"
    /\ UNCHANGED <<itoa, val, p, firstdig>>

AssignItself ==
    /\ var = "live" /\ value # Null
    /\ Assigning(OfText(Null))
    /\ var' = "undefined"
    /\ UNCHANGED <<value, itoa, val, p, firstdig>>

Destroy ==
    /\ var = "live" /\ itoa = "returned"
    /\ var' = "none"
    /\ value' = Null
    /\ last' = OfText(Null)
    /\ UNCHANGED <<itoa, val, p, firstdig, assigned>>

(* operator int                                                            *)
AsInt == IF value = Null THEN 0 ELSE Atoi(value)

-----------------------------------------------------------------------------
(* itoa: the digits from the last to the first, and then turned round.     *)

Divide ==
    /\ itoa = "divide"
    /\ value' = Append(value, val % 10)
    /\ val' = val \div 10
    /\ IF val' > 0
         THEN UNCHANGED <<itoa, p, firstdig>>
         ELSE itoa' = "turn" /\ p' = Len(value') /\ firstdig' = 1
    /\ var' = IF Len(value') < IntRoom THEN var ELSE "undefined"
    /\ UNCHANGED <<assigned, last>>

(* While this holds, two more digits are exchanged.                        *)
NotMet(i, j) == i < j

Turn ==
    /\ itoa = "turn"
    /\ value' = [value EXCEPT ![p] = value[firstdig], ![firstdig] = value[p]]
    /\ p' = p - 1 /\ firstdig' = firstdig + 1
    /\ itoa' = IF NotMet(firstdig', p') THEN "turn" ELSE "returned"
    /\ UNCHANGED <<var, val, assigned, last>>

VarNext ==
    \/ ConstructEmpty
    \/ \E i \in Ints : AssignInt(i)
    \/ \E n \in Doubles : AssignDouble(n)
    \/ \E s \in Texts \cup {Null} : AssignText(s)
    \/ AssignItself
    \/ Destroy
    \/ Divide
    \/ Turn

VarSpec == VarInit /\ [][VarNext]_varVars

-----------------------------------------------------------------------------

(* Every variable stays in its type. *)
VarTypeOK ==
    /\ var \in {"none", "live", "undefined"}
    /\ itoa \in {"returned", "divide", "turn"}
    /\ val \in 0..ULONG_MAX
    /\ value \in Seq(-1..Letter)

(* A variable gives back what it was last given, as text and as a number,  *)
(* whatever it held before; and it stays in the room that it asked for,    *)
(* unless it is given a negative int, a double that is longer than its     *)
(* block, no text, or its own.                                             *)
VariableReadsBack ==
    /\ var = "live" /\ itoa = "returned" =>
          CASE last.kind = "int" -> value = DecimalOf[last.number] /\ AsInt = last.number
            [] last.kind = "double" -> AsInt = last.number
            [] last.kind = "text" -> value = last.text
    /\ var = "undefined" =>
          \/ last.kind = "int" /\ last.number < 0
          \/ last.kind = "double" /\ Len(Formatted(last.number)) >= DoubleRoom
          \/ last.kind = "text" /\ last.text = Null

=============================================================================
