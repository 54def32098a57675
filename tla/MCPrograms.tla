----------------------------- MODULE MCPrograms -----------------------------
(***************************************************************************)
(* The programs around the service and the libraries below it, one at a    *)
(* time: the user's window or the daemon's table; the walk of a worker;    *)
(* the administration programs alone, and one of them beside the load of   *)
(* the configuration; the dialog for folders; the program that makes the   *)
(* release; the command line of the client; the file that names the        *)
(* database; the query objects and the variables that hold a column; the   *)
(* system layer and the one before it.  The variables of the others keep   *)
(* their first values.  (Beside the load, the queries of the load may fail *)
(* and the administrator's statements do not.)                             *)
(***************************************************************************)
EXTENDS UserInterface, ConfigLoad, FormatSource, BackupPass, ArgParser, SysInfo,
        HardwareLayer, SqlObjects, BrowseFolder, DbConfig, SqlVar

CONSTANTS a2, d1, MaxCommandsInLoad

VARIABLE part           \* the program that runs

programVars == <<interfaceVars, passVars, loadConfigVars, formatVars>>
textVars == <<argVars, loginVars, varVars>>
libraryVars == <<infoVars, hardwareVars, sqlObjectVars, browseVars>>

otherThanInterface == <<part, textVars, libraryVars, passVars, loadConfigVars, formatVars>>
otherThanPass == <<part, textVars, libraryVars, interfaceVars, loadConfigVars, ownFormatVars>>
otherThanConfig == <<part, textVars, libraryVars, interfaceVars, passVars, formatVars>>
otherThanFormat == <<part, textVars, libraryVars, interfaceVars, ownPassVars, loadConfigVars>>
otherThanArg == <<part, programVars, libraryVars, loginVars, varVars>>
otherThanFile == <<part, programVars, libraryVars, argVars, varVars>>
otherThanVar == <<part, programVars, libraryVars, argVars, loginVars>>
otherThanInfo == <<part, programVars, textVars, hardwareVars, sqlObjectVars, browseVars>>
otherThanHardware == <<part, programVars, textVars, infoVars, sqlObjectVars, browseVars>>
otherThanSql == <<part, programVars, textVars, infoVars, hardwareVars, browseVars>>
otherThanBrowse == <<part, programVars, textVars, infoVars, hardwareVars, sqlObjectVars>>

(* The tree of the sources: a folder and files of each kind.               *)
TheParents == [sub |-> "root", test |-> "root", a |-> "root", b |-> "sub",
               make |-> "sub", sln |-> "root"]

(* Short files that compile, and some with a block in a block; and one of  *)
(* a line that fills the buffer.                                           *)
Nested == {<<"ifdef_WINDOWS", "ifdef_LINUX", "text", "endif_LINUX", "endif_WINDOWS">>,
           <<"ifdef_LINUX", "ifdef_WINDOWS", "text", "endif_WINDOWS", "text", "endif">>,
           <<"ifdef_WINDOWS", "text", "else", "text", "endif_WINDOWS", "text">>}

TheContents ==
    {<<"text", "long">>} \cup Nested \cup
    {c \in UNION {[1..n -> Lines \ {"long"}] : n \in 0..3} : Compiles(c)}

(* All of them occur in one file, and a few in the others.                 *)
FewContents == {<< >>, <<"text", "long">>, <<"ifdef_WINDOWS", "endif", "text">>}

(* The table of the client's options has a few more here than the client.  *)
TheOptions == <<[code |-> "v", name |-> <<"v", "e">>, has_arg |-> "no"],
                [code |-> "l", name |-> <<"l", "i">>, has_arg |-> "maybe"],
                [code |-> "256", name |-> <<"s", "t">>, has_arg |-> "yes"],
                [code |-> "257", name |-> <<"s", "t", "o">>, has_arg |-> "no"],
                [code |-> "o", name |-> <<"o">>, has_arg |-> "yes"]>>

TheWords == {<< >>, <<"b">>, <<"-", "-">>, <<"-", "-", "s">>, <<"-", "-", "s", "t">>,
             <<"-", "-", "s", "t", "=", "b">>, <<"-", "-", "v", "=", "b">>,
             <<"-", "v", "o">>, <<"-", "v", "l", "b">>, <<"-", "x">>}
TheLines == UNION {[1..n -> TheWords] : n \in 0..3}

(* Every short line alone, and files of two and three of some lines.       *)
Pieces == {"blank", "#", "=", "USER", "v"}
SomeLines == {<<"USER", "=", "v">>, <<"blank", "USER", "blank", "=", "blank", "v", "=", "v", "blank", "#", "v">>,
              <<"USER", "=", "v", "blank", "v">>, <<"USER", "=", "blank">>, <<"#", "USER", "=", "v">>,
              <<"HOST", "=", "v">>, << >>}
TheFiles == {<<line>> : line \in UNION {[1..n -> Pieces] : n \in 0..3}}
            \cup {<<Append(line, piece)>> : line \in [1..3 -> {"blank", "=", "USER"}], piece \in Pieces}
            \cup UNION {[1..n -> SomeLines] : n \in 2..3}

(* Numbers of each number of digits, and the least and greatest int.       *)
TheInts == {-2048, -1, 0, 7, 10, 305, 1234, 2047}
TheTexts == {<< >>, <<1, 2>>, <<Blank, 3, Letter>>}

(* Two disks and a device that is none, which has a partition, too.        *)
TheListing == <<"sda", "md", "sdb">>
TheKeys == <<[device |-> "md", number |-> 1], [device |-> "sda", number |-> 1],
             [device |-> "sda", number |-> 11], [device |-> "sda", number |-> 2],
             [device |-> "sdb", number |-> 1]>>

(* A slot of an enclosure that counts downwards, and one on the board.     *)
TheEnclosure == [s2 |-> "e", s3 |-> "onboard"]
TheNumbers == [s2 |-> 23, s3 |-> 1, e |-> 5]
ThePositions == [s2 |-> 2, s3 |-> 0]
TheJbods == [e |-> [start_num |-> 24, asc_or_des |-> FALSE]]

TheRows == {<< >>, <<"value">>, <<"null">>}

TheTree == {<< >>, <<"a">>, <<"b">>, <<"a", "a">>, <<"a", "c">>}

(* A database with no brick yet.                                           *)
NoBricks == [t \in Tables |-> IF t \in {"NAS_MASTER", "BRICK_INDEX"} THEN Rows[t] ELSE {}]

(* Where the administration programs start: no brick, or this one.         *)
TheOnlyBrick == {[nas |-> n, num |-> 1, brick |-> CHOOSE b \in BrickIds : TRUE] : n \in NAS}

(* Disks with nothing on them.                                             *)
EmptyDisks == [d \in Media |-> {Root}]
NoFiles == [d \in Media |-> [f \in Due |-> "none"]]

(* Windows before the first walk have left whatever they can of one file,  *)
(* which lies below the root's folder, and of one disk.                    *)
OneLeft ==
    /\ \A d \in Media \ {d1} : made[d] = EmptyDisks[d] /\ held[d] = NoFiles[d]
    /\ \A f \in Due \ {"b"} : held[d1][f] = "none" /\ f \notin logged

(* The variables of the programs that do not run have one first value; and *)
(* the first disk to be found is called d1.                                *)
ProgramsInit ==
    /\ part \in {"interface", "pass", "admin", "load", "format",
                 "line", "file", "var", "info", "hardware", "sql", "browse"}
    /\ part # "interface" => program = "window"
    /\ part # "pass" => mounted = d1 /\ made = EmptyDisks /\ held = NoFiles /\ logged = {}
    /\ part \notin {"admin", "load"} => db = NoBricks
    /\ part # "format" => old = {} /\ source = [f \in Sources |-> << >>]
    /\ part # "line" => argv = << >> /\ in_order = FALSE
    /\ part # "file" => config_file = << << >> >>
    /\ part # "info" => mounts = << >> /\ identifier = [d \in Devices |-> NoId]
    /\ part # "hardware" => hd = [s \in Slots |-> NoHd]
    /\ InterfaceInit
    /\ PassInit
    /\ OneLeft
    /\ DbInit /\ AdminInit /\ LoadInit
    /\ FormatInit
    /\ \A f \in Sources \ {"b"} : source[f] \in FewContents
    /\ ArgInit /\ ConfigInit /\ VarInit
    /\ InfoInit /\ HardwareInit /\ SqlObjectsInit /\ BrowseInit
    /\ hd["s2"] # "d2" /\ (hd["s3"] = "d2" => hd["s2"] = "d1")
    /\ part = "admin" => db["BACKUP_MASTER"] \subseteq TheOnlyBrick /\ db["BRICK_DISK_POS"] = {}

ProgramsNext ==
    \/ /\ part = "interface"
       /\ InterfaceNext
       /\ UNCHANGED otherThanInterface
    \/ /\ part = "pass"
       /\ PassNext
       /\ UNCHANGED otherThanPass
    \/ /\ part = "admin"
       /\ AdminNext
       /\ UNCHANGED <<loadVars, otherThanConfig>>
    \/ /\ part = "load"
       /\ LoadNext
       /\ apc'[a2] = apc[a2] /\ commands' <= MaxCommandsInLoad /\ faults' = 0
       /\ UNCHANGED otherThanConfig
    \/ /\ part = "format"
       /\ FormatNext
       /\ UNCHANGED otherThanFormat
    \/ part = "line" /\ ArgNext /\ UNCHANGED otherThanArg
    \/ part = "file" /\ ConfigNext /\ UNCHANGED otherThanFile
    \/ part = "var" /\ VarNext /\ UNCHANGED otherThanVar
    \/ part = "info" /\ InfoNext /\ UNCHANGED otherThanInfo
    \/ part = "hardware" /\ HardwareNext /\ UNCHANGED otherThanHardware
    \/ part = "sql" /\ SqlObjectsNext /\ UNCHANGED otherThanSql
    \/ part = "browse" /\ BrowseNext /\ UNCHANGED otherThanBrowse

programsVars == <<part, programVars, textVars, libraryVars>>

(* The programs that must get on; a step of one leaves the others alone.    *)
ProgramsSpec ==
    /\ ProgramsInit
    /\ [][ProgramsNext]_programsVars
    /\ WF_formatVars(part = "format" /\ FormatNext)
    /\ WF_hardwareVars(part = "hardware" /\ Scan)
    /\ WF_hardwareVars(part = "hardware" /\ Monitor)
    /\ WF_hardwareVars(part = "hardware" /\ Flush)

=============================================================================
