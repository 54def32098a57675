------------------------------- MODULE DbConfig -------------------------------
(***************************************************************************)
(* How the programs learn where the database is: get_dbconfig              *)
(* (src/systools/systools.cpp), which reads the file backup_config.        *)
(*                                                                         *)
(* A line is a sequence of pieces: a blank, "#", "=", one of the names, or *)
(* other text.  A file that cannot be opened is read like an empty one.    *)
(***************************************************************************)
EXTENDS Naturals, SequencesExt

CONSTANT ConfigFiles    \* what the file may hold: sequences of lines

ASSUME FilesAssumption == ConfigFiles \subseteq Seq(Seq(STRING))

VARIABLES
    config_file,        \* the lines
    line_no,            \* the line that getline reads next
    login               \* user, psw and host, as read so far

loginVars == <<config_file, line_no, login>>

LoginNames == {"USER", "PSW", "HOST"}

Defaults == [USER |-> <<"root">>, PSW |-> <<"root">>, HOST |-> <<"127.0.0.1">>]

ConfigInit ==
    /\ config_file \in ConfigFiles
    /\ line_no = 1
    /\ login = Defaults

-----------------------------------------------------------------------------
(* find_first_of, find_first_not_of, find_last_not_of: a place, or what    *)
(* npos stands for.                                                        *)

FirstOf(s, piece, npos) == Min({k \in DOMAIN s : s[k] = piece} \cup {npos})
FirstNotOf(s, piece, npos) == Min({k \in DOMAIN s : s[k] # piece} \cup {npos})
LastNotOf(s, piece, npos) == Max({k \in DOMAIN s : s[k] # piece} \cup {npos})

(* Seeded fault: the last "=" ends the name.                               *)
LastEquals(s) == Max({k \in DOMAIN s : s[k] = "="} \cup {0})

EqualsAt(s) == IF "=" \in ToSet(s) THEN FirstOf(s, "=", Len(s)) ELSE 0

(* The line from its first piece that is not blank up to the comment.      *)
LineContent(line) ==
    LET end == FirstOf(line, "#", Len(line) + 1)
        begin == FirstNotOf(line, "blank", Len(line) + 1)
    IN  SubSeq(line, begin, end - 1)

NamePart(content) == SubSeq(content, 1, EqualsAt(content) - 1)
ConfigPart(content) == SubSeq(content, EqualsAt(content) + 1, Len(content))

(* The piece that lies before the text in memory, which is what is taken   *)
(* of a text that is nothing but blanks.                                   *)
PieceBefore == "undefined"

Trimmed(text) ==
    IF ToSet(text) \subseteq {"blank"}
      THEN <<PieceBefore>>
      ELSE SubSeq(text, FirstNotOf(text, "blank", Len(text)), LastNotOf(text, "blank", 1))

IsSetting(line) ==
    /\ EqualsAt(LineContent(line)) > 0
    /\ NamePart(LineContent(line)) # << >>
    /\ ConfigPart(LineContent(line)) # << >>

ReadsLine == line_no <= Len(config_file)
LineRead == config_file[line_no]

(* A blank line, a comment, or one with no "=", no name or no value.       *)
SkipLine ==
    /\ ReadsLine
    /\ ~IsSetting(LineRead)
    /\ line_no' = line_no + 1
    /\ UNCHANGED <<config_file, login>>

(* A name that is none of the three changes nothing.                       *)
TakeLine ==
    /\ ReadsLine
    /\ IsSetting(LineRead)
    /\ LET name == Trimmed(NamePart(LineContent(LineRead)))
           config == Trimmed(ConfigPart(LineContent(LineRead)))
       IN  login' = [n \in LoginNames |-> IF name = <<n>> THEN config ELSE login[n]]
    /\ line_no' = line_no + 1
    /\ UNCHANGED config_file

ConfigNext == SkipLine \/ TakeLine

ConfigSpec == ConfigInit /\ [][ConfigNext]_loginVars

-----------------------------------------------------------------------------

(* Every variable stays in its type. *)
ConfigTypeOK ==
    /\ config_file \in ConfigFiles
    /\ line_no \in 1..(Len(config_file) + 1)
    /\ DOMAIN login = LoginNames

(* The line consists of n, "=", the pieces from f to l, and blanks up to   *)
(* the end or to a comment at h.                                           *)
Reads(line, n, q, f, l, h) ==
    /\ h = Len(line) + 1 \/ line[h] = "#"
    /\ \E k \in 1..(q - 1) :
          /\ line[k] = n /\ line[q] = "="
          /\ \A j \in (1..(h - 1)) \ ({k, q} \cup (f..l)) : line[j] = "blank"
    /\ \A j \in f..l : line[j] # "#"

(* What a reader of the line takes it to say of n.                         *)
Sets(line, n, v) ==
    \E q \in DOMAIN line : \E f \in (q + 1)..Len(line) : \E l \in f..Len(line) :
    \E h \in (l + 1)..(Len(line) + 1) :
        /\ Reads(line, n, q, f, l, h)
        /\ line[f] # "blank" /\ line[l] # "blank"
        /\ v = SubSeq(line, f, l)

(* The line gives n a value that is nothing but blanks.                    *)
SetsBlank(line, n) ==
    \E q \in DOMAIN line : \E h \in (q + 2)..(Len(line) + 1) : Reads(line, n, q, 1, 0, h)

Mentions(n) ==
    {i \in DOMAIN config_file :
        \/ SetsBlank(config_file[i], n)
        \/ \E f, l \in 1..Len(config_file[i]) :
              Sets(config_file[i], n, SubSeq(config_file[i], f, l))}

(* When the file is read, the programs log in with what it says: the last  *)
(* line that sets a name decides, "=" and blanks inside a value belong to  *)
(* it, blanks around it and a comment do not, and a name that no line sets *)
(* has its default.  (A line that sets a name to blanks does set it: to    *)
(* what lies before the text in memory.)                                   *)
ConfigReadRight ==
    ~ReadsLine =>
        \A n \in LoginNames :
            IF Mentions(n) = {}
              THEN login[n] = Defaults[n]
              ELSE LET line == config_file[Max(Mentions(n))]
                   IN  \/ Sets(line, n, login[n])
                       \/ SetsBlank(line, n) /\ login[n] = <<PieceBefore>>

=============================================================================
