------------------------------ MODULE FileFrame -------------------------------
(***************************************************************************)
(* The directory walk of src/backup/file_frame.cpp, which the backup and   *)
(* the release program share: a list of folders still to be searched, and  *)
(* the entries of the first of them that readdir has not returned yet.     *)
(* What is done with an entry is up to the program that walks.             *)
(***************************************************************************)
EXTENDS Sequences

CONSTANTS
    Folders, Root,      \* folders to be walked
    ParentOf            \* the folder of each entry

ASSUME TreeAssumption ==
    /\ Root \in Folders
    /\ ParentOf \in [DOMAIN ParentOf -> Folders]
    /\ Folders \subseteq DOMAIN ParentOf \cup {Root}
    /\ Root \notin DOMAIN ParentOf

(* A directory tree: no link leads a walk back into what it is below.      *)
ASSUME NoLoopAssumption ==
    \A S \in SUBSET (Folders \ {Root}) : S # {} => \E d \in S : ParentOf[d] \notin S

Entries == DOMAIN ParentOf

(* What the caller has given the walk: one folder.                         *)
m_pref == <<Root>>

isfolder(e) == e \in Folders

VARIABLES
    col,                \* folders still to be searched, the open one first
    entries             \* what readdir has still to return of it

frameVars == <<col, entries>>

FrameInit == col = << >> /\ entries = {}

(* start() pushes the folder, and searches until the list is empty.        *)
StartWalk == col' = m_pref /\ entries' = {}

Walking == col # << >>

(* opendir, and all that readdir is going to return, in any order.  The    *)
(* folder leaves the list when its last entry is done.                     *)
OpenFolder(listing) ==
    /\ Walking /\ entries = {}
    /\ entries' = listing
    /\ col' = IF listing = {} THEN Tail(col) ELSE col

(* The folder cannot be opened: it is logged, and the walk goes on.        *)
OpendirFails ==
    /\ Walking /\ entries = {}
    /\ col' = Tail(col)
    /\ UNCHANGED entries

(* An entry is done; a folder is searched after those already listed.      *)
EntryDone(e, found) ==
    /\ entries' = entries \ {e}
    /\ col' = (IF entries' = {} THEN Tail(col) ELSE col) \o found

=============================================================================
