---------------------------- MODULE FormatSource ----------------------------
(***************************************************************************)
(* The program that makes the release of the sources for Linux             *)
(* (src/format_src/main.cpp), on the directory walk it shares with the     *)
(* backup (src/backup/file_frame.cpp).                                     *)
(*                                                                         *)
(* Three passes, each a walk: the source files without their lines for     *)
(* Windows go to the folder _format; the other files are copied to the     *)
(* folder _release; the files of _format go to _release without the lines  *)
(* that ask for Linux.  A file or a folder that cannot be read or made is  *)
(* left behind, and the passes go on; but a flush that fails throws, and   *)
(* nothing catches that.                                                   *)
(*                                                                         *)
(* Of a line only its part in the conditional compilation is kept, and     *)
(* whether it fills the buffer of getline.  A block asks for Windows or    *)
(* for Linux, and its end may or may not name the system again.  (Blocks   *)
(* that ask for anything else are lines like others to the program, and    *)
(* are text here.)                                                         *)
(***************************************************************************)
EXTENDS FileFrame, Naturals, SequencesExt

CONSTANTS
    Sources, Extras,    \* files by the filter they pass: _filter, _filter2
    Skipped,            \* files and folders that neither filter lets in
    Contents,           \* what a source file may hold
    MaxFailures         \* bound on files that cannot be read or written

Lines == {"text", "ifdef_WINDOWS", "endif_WINDOWS", "ifdef_LINUX",
          "endif_LINUX", "else", "endif", "long"}

(* The blocks of a file, as a compiler counts them.                        *)
Opens(line) == line \in {"ifdef_WINDOWS", "ifdef_LINUX"}
Closes(line) == line \in {"endif_WINDOWS", "endif_LINUX", "endif"}

Balanced(c, i, k) ==
    Cardinality({m \in i..k : Opens(c[m])}) = Cardinality({m \in i..k : Closes(c[m])})

(* Line k is in the block that line i opens, or is its end.                *)
InBlock(c, i, k) == i < k /\ Opens(c[i]) /\ \A m \in i..(k - 1) : ~Balanced(c, i, m)
IsEnd(c, i, k) == InBlock(c, i, k) /\ Balanced(c, i, k)
IsElse(c, i, k) ==
    /\ c[k] = "else" /\ InBlock(c, i, k)
    /\ \A j \in DOMAIN c : InBlock(c, j, k) => j <= i

(* What a compiler accepts: a block has one end, and at most one else.     *)
Compiles(c) ==
    \A k \in DOMAIN c :
        /\ Opens(c[k]) => \E j \in DOMAIN c : IsEnd(c, k, j)
        /\ Closes(c[k]) => \E i \in DOMAIN c : IsEnd(c, i, k)
        /\ c[k] = "else" =>
              \E i \in DOMAIN c : \A j \in DOMAIN c : IsElse(c, i, j) <=> j = k

ASSUME MaxFailuresAssumption == MaxFailures \in Nat
ASSUME KindsAssumption ==
    /\ Entries = (Folders \ {Root}) \cup Sources \cup Extras \cup Skipped
    /\ Sources \cap (Folders \cup Extras \cup Skipped) = {}
    /\ Extras \cap (Folders \cup Skipped) = {} /\ Folders \cap Skipped = {}
    /\ "gone" \notin Entries \cup {Root}
ASSUME ContentsAssumption == \A c \in Contents : c \in Seq(Lines) /\ Compiles(c)

Files == Sources \cup Extras
Gone == << >>           \* what a file of an earlier run holds

VARIABLES
    source,             \* content of each source file
    format, release,    \* the target folders: content of each entry there
    old,                \* files that only an earlier run has put there
    pass,
    fate,               \* what has become of the program
    failures            \* what could not be read or written

treeVars == <<format, release>>
ownFormatVars == <<source, format, release, old, pass, fate, failures>>
formatVars == <<frameVars, ownFormatVars>>

(* The target folders may be those of an earlier run.                      *)
FormatInit ==
    /\ source \in [Sources -> Contents]
    /\ old \in SUBSET {"gone"}
    /\ format = [e \in old |-> Gone]
    /\ release = format
    /\ pass = 0
    /\ FrameInit
    /\ fate = "runs"
    /\ failures = {}

-----------------------------------------------------------------------------
(* Seeded faults: the rest of a file goes with its first block for         *)
(* Windows; getline is given too small a buffer.                           *)

NeverEnds(line) == FALSE
SmallBuffer(content) == content # << >>

-----------------------------------------------------------------------------
(* _proc: a block for Windows ends with the first line that says so.       *)

EndsBlock(line) == line = "endif_WINDOWS"

ByLine(done, line) ==
    CASE done.bskip /\ line # "ifdef_WINDOWS" -> [done EXCEPT !.bskip = ~EndsBlock(line)]
      [] line = "ifdef_WINDOWS"              -> [done EXCEPT !.bskip = TRUE]
      [] OTHER                                    -> [done EXCEPT !.os = Append(@, line)]

WithoutWindows(content) == FoldLeft(ByLine, [bskip |-> FALSE, os |-> << >>], content).os

(* _proc3 *)
ByLineOfLinux(os, line) ==
    IF line \in {"ifdef_LINUX", "endif_LINUX"} THEN os ELSE Append(os, line)

WithoutLinux(content) == FoldLeft(ByLineOfLinux, << >>, content)

(* getline(buf, 1024) fails on a line that fills the buffer and is not at  *)
(* the end of the file then, nor ever after.                               *)
TooLong(content) == \E k \in DOMAIN content : content[k] = "long"

-----------------------------------------------------------------------------
(* What each pass reads, lets in, and writes.                              *)

Walked == IF pass = 3 THEN DOMAIN format ELSE Entries

(* _filter and _filter2: by the name of a folder, and by the name and the  *)
(* extension of a file.                                                    *)
LetInByFilter == Folders \cup Sources \cup {"gone"}
LetInByFilter2 == Folders \cup Extras

LetIn == IF pass = 2 THEN LetInByFilter2 ELSE LetInByFilter

TextOfExtras == <<"text">>

Content(f) ==
    CASE pass = 1 -> source[f]
      [] pass = 2 -> TextOfExtras
      [] pass = 3 -> format[f]

Written(content) ==
    CASE pass = 1 -> WithoutWindows(content)
      [] pass = 2 -> content
      [] pass = 3 -> WithoutLinux(content)

Put(e, content) ==
    IF pass = 1
      THEN /\ format' = [x \in DOMAIN format \cup {e} |->
                           IF x = e THEN content ELSE format[x]]
           /\ UNCHANGED release
      ELSE /\ release' = [x \in DOMAIN release \cup {e} |->
                            IF x = e THEN content ELSE release[x]]
           /\ UNCHANGED format

Removed(f) ==
    IF pass = 1
      THEN /\ format' = [x \in DOMAIN format \ {f} |-> format[x]]
           /\ UNCHANGED release
      ELSE /\ release' = [x \in DOMAIN release \ {f} |-> release[x]]
           /\ UNCHANGED format

Target == IF pass = 1 THEN format ELSE release

Parent(e) == IF e = "gone" THEN Root ELSE ParentOf[e]

-----------------------------------------------------------------------------
(* file_frame::start and search_by_folder                                  *)

GivesUp(lost) ==
    /\ Cardinality(failures) < MaxFailures
    /\ failures' = failures \cup lost

(* All that lies below a folder.                                           *)
Below(d) ==
    {e \in Entries \cup {"gone"} :
        \A S \in SUBSET (Entries \cup {"gone"}) :
            (\A x \in Entries \cup {"gone"} : Parent(x) \in S \cup {d} => x \in S) => e \in S}

(* main makes the folders that are not there, and empties none.            *)
Prepare ==
    /\ pass = 0 /\ fate = "runs"
    /\ pass' = 1
    /\ format' = [e \in DOMAIN format \cup {Root} |-> Gone]
    /\ release' = [e \in DOMAIN release \cup {Root} |-> Gone]
    /\ StartWalk
    /\ UNCHANGED <<source, old, fate, failures>>

(* One of them cannot be made.                                             *)
PrepareFails ==
    /\ pass = 0 /\ fate = "runs"
    /\ fate' = "refused"
    /\ UNCHANGED <<source, treeVars, old, pass, frameVars, failures>>

(* readdir returns also what the filter does not let in, which is left.    *)
SearchFolder ==
    /\ fate = "runs"
    /\ OpenFolder({e \in Walked \ {Root} : Parent(e) = Head(col) /\ e \in LetIn})
    /\ UNCHANGED <<source, treeVars, old, pass, fate, failures>>

(* opendir fails: FRAME_ERR is logged, and the folder's turn is over.      *)
SearchFails ==
    /\ fate = "runs"
    /\ OpendirFails
    /\ GivesUp(Below(Head(col)))
    /\ UNCHANGED <<source, treeVars, old, pass, fate>>

Processed(e, found) ==
    /\ EntryDone(e, found)
    /\ UNCHANGED <<source, old, pass>>

(* A folder is made in the target, and searched after the others.          *)
ProcessFolder(e) ==
    /\ fate = "runs"
    /\ e \in entries \cap Folders
    /\ IF e \notin DOMAIN Target THEN Put(e, Gone) ELSE UNCHANGED treeVars
    /\ Processed(e, <<e>>)
    /\ UNCHANGED <<fate, failures>>

(* It cannot be made, and nobody asks.  Nothing below it can be opened in  *)
(* the target then: the search of it is passed over here.                  *)
MkdirFails(e) ==
    /\ fate = "runs"
    /\ e \in (entries \cap Folders) \ DOMAIN Target
    /\ GivesUp({e} \cup Below(e))
    /\ Processed(e, << >>)
    /\ UNCHANGED <<treeVars, fate>>

ProcessFile(f) ==
    /\ fate = "runs"
    /\ f \in entries \ Folders
    /\ pass = 2 \/ ~TooLong(Content(f))
    /\ Put(f, Written(Content(f)))
    /\ Processed(f, << >>)
    /\ UNCHANGED <<fate, failures>>

(* The loop over the lines does not end.                                   *)
ProcessLongLine(f) ==
    /\ fate = "runs"
    /\ f \in entries \ Folders
    /\ pass # 2 /\ TooLong(Content(f))
    /\ fate' = "endless"
    /\ UNCHANGED <<source, treeVars, old, pass, frameVars, failures>>

(* The source cannot be opened: its target is empty by then.  The target   *)
(* cannot be opened: what it held stays.  A read or a write fails in the   *)
(* try: the target is removed; but << of the second pass does not throw,   *)
(* and leaves a part.                                                      *)
ProcessFails(f) ==
    /\ fate = "runs"
    /\ f \in entries \ Folders
    /\ GivesUp({f})
    /\ \/ Put(f, << >>)
       \/ UNCHANGED treeVars
       \/ Removed(f)
    /\ Processed(f, << >>)
    /\ UNCHANGED fate

(* A flush fails, after the loop or in the handler: badbit throws outside  *)
(* of every try, and the program ends with a part of the file written.     *)
FlushThrows(f) ==
    /\ fate = "runs"
    /\ f \in entries \ Folders
    /\ GivesUp({f})
    /\ Put(f, << >>)
    /\ fate' = "thrown"
    /\ UNCHANGED <<source, old, pass, frameVars>>

NextPass ==
    /\ pass \in 1..3 /\ fate = "runs"
    /\ ~Walking
    /\ pass' = pass + 1
    /\ IF pass < 3 THEN StartWalk ELSE UNCHANGED frameVars
    /\ UNCHANGED <<source, treeVars, old, fate, failures>>

FormatNext ==
    \/ Prepare \/ PrepareFails
    \/ SearchFolder \/ SearchFails
    \/ \E e \in entries :
          \/ ProcessFolder(e) \/ MkdirFails(e)
          \/ ProcessFile(e) \/ ProcessLongLine(e) \/ ProcessFails(e) \/ FlushThrows(e)
    \/ NextPass

FormatSpec == FormatInit /\ [][FormatNext]_formatVars /\ WF_formatVars(FormatNext)

-----------------------------------------------------------------------------

(* Every variable stays in its type. *)
FormatTypeOK ==
    /\ source \in [Sources -> Contents]
    /\ old \subseteq {"gone"}
    /\ DOMAIN format \cup DOMAIN release \subseteq Entries \cup {Root, "gone"}
    /\ pass \in 0..4
    /\ col \in Seq(Folders)
    /\ entries \subseteq Entries \cup {"gone"}
    /\ fate \in {"runs", "refused", "endless", "thrown"}
    /\ failures \subseteq Entries \cup {"gone"}

(* What the C preprocessor leaves of a file on Linux: the lines that no    *)
(* block they are in hides, its part before or after the else.             *)
CompiledOnLinux(content) ==
    LET Hidden(k) == \E i \in DOMAIN content :
                        /\ InBlock(content, i, k)
                        /\ content[i] = "ifdef_WINDOWS"
                              <=> \A e \in DOMAIN content : IsElse(content, i, e) => k <= e
        kept == {k \in DOMAIN content : content[k] \in {"text", "long"} /\ ~Hidden(k)}
    IN  [n \in 1..Cardinality(kept) |->
            content[CHOOSE k \in kept : Cardinality({i \in kept : i <= k}) = n]]

(* The blocks as the program takes them for granted, which looks at no     *)
(* line but those that name a system: no else, every end names the system  *)
(* of its block, and no block for Windows lies in another.                 *)
Tagged(content) ==
    \A i, k \in DOMAIN content :
        /\ content[k] \notin {"else", "endif"}
        /\ IsEnd(content, i, k) =>
              (content[i] = "ifdef_WINDOWS" <=> content[k] = "endif_WINDOWS")
        /\ content[i] = "ifdef_WINDOWS" /\ InBlock(content, i, k) =>
              content[k] # "ifdef_WINDOWS"

(* The release is the program: when the passes are over, each source file  *)
(* that could be read and written, as could the folders above it, is in it *)
(* with exactly the lines that a Linux compiler sees of the original, each *)
(* other such file as it was, and nothing is in it that is not in the      *)
(* source, except what an earlier run has left there.  The exception: a    *)
(* source whose blocks are not tagged compiles, and comes out as something *)
(* else (what follows the untagged end of a block for Windows is lost, and *)
(* the else or the end of a block for Linux is left without its #ifdef).   *)
ReleaseIsTheSource ==
    pass = 4 =>
        /\ \A f \in Sources \ failures :
              /\ f \in DOMAIN release
              /\ Tagged(source[f]) => release[f] = CompiledOnLinux(source[f])
        /\ \A f \in Extras \ failures : f \in DOMAIN release /\ release[f] = TextOfExtras
        /\ DOMAIN release \subseteq Folders \cup Files \cup old

(* The passes end, unless a source file has a line that fills the buffer,  *)
(* or a flush fails and what it throws ends the program.                   *)
FormatEnds ==
    \/ pass = 1 ~> (pass = 4 \/ fate = "thrown")
    \/ \E f \in Sources : \E k \in DOMAIN source[f] : source[f][k] = "long"

=============================================================================
