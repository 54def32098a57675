------------------------------ MODULE ArgParser ------------------------------
(***************************************************************************)
(* The command line of the client: the parser of                           *)
(* src/systools/arg_parser.cpp, and what the main of backupclient.cpp does *)
(* with the records it returns.                                            *)
(*                                                                         *)
(* A word is a sequence of characters; which words may be typed is a       *)
(* parameter.  The parser's loops expect that the table of options ends    *)
(* with an entry of code 0.  The client's table has none: what a search    *)
(* that reaches its end finds there is not defined, an end or anything.    *)
(***************************************************************************)
EXTENDS Naturals, SequencesExt

CONSTANTS
    options,            \* the table: code, name and has_arg of each option
    CommandLines        \* what may be typed: sequences of words

NoOption == "0"         \* code of a record that is not an option

ASSUME OptionsAssumption ==
    /\ options \in Seq([code : STRING, name : Seq(STRING), has_arg : {"no", "yes", "maybe"}])
    /\ \A i \in DOMAIN options : options[i].code # NoOption
ASSUME LinesAssumption == CommandLines \subseteq Seq(Seq(STRING))

VARIABLES
    argv,               \* the words
    in_order,
    argind,             \* the word the parser is at
    cind,               \* the character of a word of short options, or 0
    data,               \* records of a code and an argument
    non_options,
    error,
    parser,             \* control point
    does,               \* what the client does
    role                \* history: what each word was taken for

argVars == <<argv, in_order, argind, cind, data, non_options, error, parser, does, role>>

Record(code, argument) == [code |-> code, argument |-> argument]
NoArgument == << >>

ArgInit ==
    /\ argv \in CommandLines
    /\ in_order \in BOOLEAN
    /\ argind = 1
    /\ cind = 0
    /\ data = << >>
    /\ non_options = << >>
    /\ error = "none"
    /\ parser = "words"
    /\ does = "nothing"
    /\ role = [i \in DOMAIN argv |-> {}]

-----------------------------------------------------------------------------

AtWord == parser = "words" /\ argind <= Len(argv) /\ cind = 0
AtChar == parser = "words" /\ cind > 0
Word == argv[argind]

IsOption == Len(Word) >= 2 /\ Word[1] = "-"
IsDashes == Word = <<"-", "-">>
IsLong == IsOption /\ Word[2] = "-" /\ ~IsDashes
IsShort == IsOption /\ Word[2] # "-"

(* An argument must not be empty.                                          *)
HasNext == argind < Len(argv) /\ argv[argind + 1] # << >>

Take(i, what) == role' = [role EXCEPT ![i] = @ \cup {what}]

-----------------------------------------------------------------------------
(* Seeded fault: the word after an option is not passed over.              *)

OnlyTheOption == 1

-----------------------------------------------------------------------------
(* What both kinds of options do with their record.                        *)

(* The words that an option and the argument in the next word take.        *)
OptionAndArgument == 2

Fails(kind) ==
    /\ error' = kind
    /\ parser' = "end"
    /\ UNCHANGED <<argv, in_order, argind, cind, data, non_options, does, role>>

(* The record, and where the parser goes on.                               *)
Push(record, word, char) ==
    /\ data' = Append(data, record)
    /\ argind' = word
    /\ cind' = char
    /\ UNCHANGED <<argv, in_order, non_options, error, parser, does>>

PushAlone(option, argument) ==
    Push(Record(option.code, argument), argind + 1, 0) /\ Take(argind, "option")

PushWithNext(option) ==
    /\ Push(Record(option.code, argv[argind + 1]), argind + OptionAndArgument, 0)
    /\ role' = [role EXCEPT ![argind] = @ \cup {"option"},
                            ![argind + 1] = @ \cup {"argument"}]

-----------------------------------------------------------------------------
(* parse_long_option                                                       *)

(* Where the name ends: at "=", or with the word.                          *)
NameEnd(w) == CHOOSE k \in 3..(Len(w) + 1) :
                 /\ k = Len(w) + 1 \/ w[k] = "="
                 /\ \A j \in 3..(k - 1) : w[j] # "="

LongName == SubSeq(Word, 3, NameEnd(Word) - 1)
HasValue == NameEnd(Word) <= Len(Word)
Value == SubSeq(Word, NameEnd(Word) + 1, Len(Word))

Exact == {i \in DOMAIN options : options[i].name = LongName}
Matching == {i \in DOMAIN options : IsPrefix(LongName, options[i].name)}

Ambiguous ==
    /\ Exact = {}
    /\ \E i, j \in Matching : \/ options[i].code # options[j].code
                              \/ options[i].has_arg # options[j].has_arg

ShortMatch == {i \in DOMAIN options : options[i].code = Word[cind]}

LongOption == options[Min(IF Exact # {} THEN Exact ELSE Matching)]

LongUnknown ==
    /\ AtWord /\ IsLong
    /\ \/ Ambiguous /\ Fails("ambiguous")
       \/ Matching = {} /\ Fails("unrecognized")

(* A search that no exact match ends goes on behind the table.             *)
PastTheTable ==
    /\ \/ AtWord /\ IsLong /\ Exact = {}
       \/ AtChar /\ ShortMatch = {}
    /\ parser' = "undefined"
    /\ UNCHANGED <<argv, in_order, argind, cind, data, non_options, error, does, role>>

LongKnown == AtWord /\ IsLong /\ ~Ambiguous /\ Matching # {}

(* --<long_option>=<argument> *)
LongWithValue ==
    /\ LongKnown /\ HasValue
    /\ \/ LongOption.has_arg = "no" /\ Fails("no argument allowed")
       \/ LongOption.has_arg = "yes" /\ Value = << >> /\ Fails("argument required")
       \/ /\ \/ LongOption.has_arg = "maybe"
             \/ LongOption.has_arg = "yes" /\ Value # << >>
          /\ PushAlone(LongOption, Value)

LongWithoutValue ==
    /\ LongKnown /\ ~HasValue
    /\ \/ LongOption.has_arg # "yes" /\ PushAlone(LongOption, NoArgument)
       \/ LongOption.has_arg = "yes" /\ HasNext /\ PushWithNext(LongOption)
       \/ LongOption.has_arg = "yes" /\ ~HasNext /\ Fails("argument required")

-----------------------------------------------------------------------------
(* parse_short_option, one character after the other                       *)

LastChar == cind = Len(Word)
ShortOption == options[Min(ShortMatch)]

ShortBegins ==
    /\ AtWord /\ IsShort
    /\ cind' = 2
    /\ UNCHANGED <<argv, in_order, argind, data, non_options, error, parser, does, role>>

ShortUnknown == AtChar /\ ShortMatch = {} /\ Fails("invalid")

ShortKnown == AtChar /\ ShortMatch # {}

(* The rest of the word are options, too, or the argument of this one.     *)
ShortInWord ==
    /\ ShortKnown /\ ~LastChar
    /\ \/ /\ ShortOption.has_arg = "no"
          /\ Push(Record(ShortOption.code, NoArgument), argind, cind + 1)
          /\ Take(argind, "option")
       \/ /\ ShortOption.has_arg # "no"
          /\ PushAlone(ShortOption, SubSeq(Word, cind + 1, Len(Word)))

ShortAtEnd ==
    /\ ShortKnown /\ LastChar
    /\ \/ ShortOption.has_arg # "yes" /\ PushAlone(ShortOption, NoArgument)
       \/ ShortOption.has_arg = "yes" /\ HasNext /\ PushWithNext(ShortOption)
       \/ ShortOption.has_arg = "yes" /\ ~HasNext /\ Fails("argument required")

-----------------------------------------------------------------------------
(* Arg_parser::Arg_parser                                                  *)

NonOption ==
    /\ AtWord /\ ~IsOption
    /\ IF in_order
         THEN /\ data' = Append(data, Record(NoOption, Word))
              /\ UNCHANGED non_options
         ELSE /\ non_options' = Append(non_options, Word)
              /\ UNCHANGED data
    /\ argind' = argind + 1
    /\ Take(argind, "plain")
    /\ UNCHANGED <<argv, in_order, cind, error, parser, does>>

DoubleDash ==
    /\ AtWord /\ IsDashes
    /\ argind' = argind + 1
    /\ parser' = "end"
    /\ Take(argind, "end_of_options")
    /\ UNCHANGED <<argv, in_order, cind, data, non_options, error, does>>

Plain(words) == [k \in DOMAIN words |-> Record(NoOption, words[k])]

(* What has been skipped comes last, with the words that are left.         *)
ParserEnds ==
    /\ \/ parser = "end"
       \/ parser = "words" /\ argind > Len(argv)
    /\ parser' = "done"
    /\ IF error # "none"
         THEN data' = << >> /\ UNCHANGED role
         ELSE /\ data' = data \o Plain(non_options)
                              \o Plain(SubSeq(argv, argind, Len(argv)))
              /\ role' = [i \in DOMAIN argv |->
                            IF i >= argind THEN role[i] \cup {"plain"} ELSE role[i]]
    /\ UNCHANGED <<argv, in_order, argind, cind, non_options, error, does>>

-----------------------------------------------------------------------------
(* main() of the client, which does not parse in order: each record makes  *)
(* it do something, after which it looks at no other.                      *)

ClientMain ==
    /\ parser = "done" /\ does = "nothing" /\ ~in_order
    /\ \/ error # "none" /\ does' = "show_error"
       \/ error = "none" /\ data = << >> /\ does' = "show_help"
       \/ data # << >> /\ data[1].code = NoOption /\ does' = "internal_error"
       \/ data # << >> /\ data[1].code # NoOption /\ does' = data[1].code
    /\ UNCHANGED <<argv, in_order, argind, cind, data, non_options, error, parser, role>>

ArgNext ==
    \/ PastTheTable
    \/ LongUnknown \/ LongWithValue \/ LongWithoutValue
    \/ ShortBegins \/ ShortUnknown \/ ShortInWord \/ ShortAtEnd
    \/ NonOption
    \/ DoubleDash
    \/ ParserEnds
    \/ ClientMain

ArgSpec == ArgInit /\ [][ArgNext]_argVars

-----------------------------------------------------------------------------

(* Every variable stays in its type. *)
ArgTypeOK ==
    /\ argv \in CommandLines
    /\ in_order \in BOOLEAN
    /\ argind \in 1..(Len(argv) + 1)
    /\ cind \in Nat
    /\ \A k \in DOMAIN data : DOMAIN data[k] = {"code", "argument"}
    /\ parser \in {"words", "end", "done", "undefined"}
    /\ role \in [DOMAIN argv -> SUBSET {"option", "argument", "plain", "end_of_options"}]

(* The words that were taken for one thing, and the records of no option.  *)
WordsTakenFor(what) == {i \in DOMAIN argv : role[i] = {what}}
PlainRecords == {k \in DOMAIN data : data[k].code = NoOption}

(* A command line that is accepted, and needed no search behind the table, *)
(* is understood: each of its words is taken for exactly one thing, the    *)
(* plain words are handed on complete and in their order, though options   *)
(* stand between them, and what the client does is what the first word     *)
(* with an option asks for.                                                *)
LineUnderstood ==
    parser = "done" /\ error = "none" =>
        /\ \A i \in DOMAIN argv : Cardinality(role[i]) = 1
        /\ \E word \in Surjection(PlainRecords, WordsTakenFor("plain")) :
              /\ \A j, k \in PlainRecords : j < k => word[j] < word[k]
              /\ \A k \in PlainRecords : data[k].argument = argv[word[k]]
        /\ does \notin {"nothing", "show_help", "internal_error"} =>
              \E first \in WordsTakenFor("option") :
                  /\ \A i \in WordsTakenFor("option") : first <= i
                  /\ LET w == argv[first]
                     IN  \E i \in DOMAIN options :
                            /\ options[i].code = does
                            /\ \/ w[2] = does
                               \/ IsPrefix(SubSeq(w, 3, NameEnd(w) - 1), options[i].name)

=============================================================================
