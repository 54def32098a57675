----------------------------- MODULE BrowseFolder -----------------------------
(***************************************************************************)
(* The dialog in which the administrator looks for a folder                *)
(* (src/backupadmin/BrowseFolder.cpp), and the page of a brick that opens  *)
(* it and takes what it says.                                              *)
(*                                                                         *)
(* A path is the sequence of its names; other programs may remove folders  *)
(* while the dialog shows them.                                            *)
(***************************************************************************)
EXTENDS Naturals, SequencesExt

CONSTANTS
    FolderTree,         \* the folders there are
    MaxDialogs,         \* bound on dialogs
    MaxRemoved          \* bound on folders that are removed

ASSUME FolderTreeAssumption ==
    /\ << >> \in FolderTree
    /\ \A p \in FolderTree : p \in Seq(ToSet(p))
    /\ \A p \in FolderTree : p # << >> => Front(p) \in FolderTree
ASSUME BrowseBounds == MaxDialogs \in Nat /\ MaxRemoved \in Nat

VARIABLES
    there,              \* the folders that are there
    dialog,             \* "none", "open", "hidden" or "terminated"
    m_curr_path,
    m_model,            \* names in the list
    selection,          \* the row that is selected, as a set
    m_selected,         \* the name that OK has taken, as a sequence
    m_Entry,            \* the path on the page of the brick
    dialogs,
    shown               \* history: the folders this dialog has shown

browseVars == <<there, dialog, m_curr_path, m_model, selection, m_selected, m_Entry,
                dialogs, shown>>

m_root_path == << >>
IsParent(row) == row = ".."

BrowseInit ==
    /\ there = FolderTree
    /\ dialog = "none"
    /\ m_curr_path = m_root_path
    /\ m_model = {} /\ selection = {}
    /\ m_selected = << >>
    /\ m_Entry = m_root_path
    /\ dialogs = 0
    /\ shown = {}

-----------------------------------------------------------------------------
(* show_folder_list: a path that is not a folder any more is an exception  *)
(* that no one catches.                                                    *)

NamesIn(path) == {Last(p) : p \in {q \in there : q # << >> /\ Front(q) = path}}

ShowFolderList(path) ==
    /\ m_curr_path' = path
    /\ selection' = {}
    /\ IF path \in there
         THEN /\ dialog' = "open"
              /\ m_model' = NamesIn(path) \cup (IF path = m_root_path THEN {} ELSE {".."})
              /\ shown' = shown \cup {path} \cup {Append(path, n) : n \in NamesIn(path)}
         ELSE dialog' = "terminated" /\ m_model' = {} /\ UNCHANGED shown

-----------------------------------------------------------------------------
(* Seeded fault: OK takes the row of the parent for a folder.              *)

AnyRow == selection

-----------------------------------------------------------------------------

BrowseOpens ==
    /\ dialog = "none"
    /\ dialogs < MaxDialogs /\ dialogs' = dialogs + 1
    /\ IF m_root_path \in there
         THEN /\ dialog' = "open" /\ m_model' = NamesIn(m_root_path)
              /\ shown' = {m_root_path} \cup {<<n>> : n \in NamesIn(m_root_path)}
         ELSE dialog' = "terminated" /\ m_model' = {} /\ shown' = {}
    /\ m_curr_path' = m_root_path /\ selection' = {}
    /\ m_selected' = << >>
    /\ UNCHANGED <<there, m_Entry>>

SelectRow(row) ==
    /\ dialog = "open" /\ row \in m_model
    /\ selection' = {row}
    /\ UNCHANGED <<there, dialog, m_curr_path, m_model, m_selected, m_Entry, dialogs, shown>>

(* The path without its last name, or with one more.                       *)
ListRowActivated(row) ==
    /\ dialog = "open" /\ row \in m_model
    /\ ShowFolderList(IF IsParent(row) THEN Front(m_curr_path) ELSE Append(m_curr_path, row))
    /\ UNCHANGED <<there, m_selected, m_Entry, dialogs>>

(* The rows that OK takes.                                                 *)
TakenRow == {row \in selection : ~IsParent(row)}

OkClicked ==
    /\ dialog = "open"
    /\ m_selected' = SetToSeq(TakenRow)
    /\ dialog' = "hidden"
    /\ UNCHANGED <<there, m_curr_path, m_model, selection, m_Entry, dialogs, shown>>

(* The window is closed; the page takes that for an answer, too.           *)
CloseDialog ==
    /\ dialog = "open"
    /\ dialog' = "hidden"
    /\ UNCHANGED <<there, m_curr_path, m_model, selection, m_selected, m_Entry, dialogs, shown>>

GetSelected == m_curr_path \o m_selected

(* run() returns to the page, which deletes the dialog.                    *)
SelectPath ==
    /\ dialog = "hidden"
    /\ dialog' = "none"
    /\ m_Entry' = GetSelected
    /\ UNCHANGED <<there, m_curr_path, m_model, selection, m_selected, dialogs, shown>>

RemoveFolder(path) ==
    /\ Cardinality(FolderTree \ there) < MaxRemoved
    /\ path \in there \ {m_root_path}
    /\ \A p \in there : p # m_root_path => Front(p) # path
    /\ there' = there \ {path}
    /\ UNCHANGED <<dialog, m_curr_path, m_model, selection, m_selected, m_Entry, dialogs, shown>>

BrowseNext ==
    \/ BrowseOpens
    \/ \E row \in m_model : SelectRow(row) \/ ListRowActivated(row)
    \/ OkClicked \/ CloseDialog
    \/ SelectPath
    \/ \E path \in there : RemoveFolder(path)

BrowseSpec == BrowseInit /\ [][BrowseNext]_browseVars

-----------------------------------------------------------------------------

(* Every variable stays in its type. *)
BrowseTypeOK ==
    /\ there \subseteq FolderTree
    /\ dialog \in {"none", "open", "hidden", "terminated"}
    /\ selection \subseteq m_model
    /\ Len(m_selected) <= 1
    /\ shown \subseteq FolderTree

(* What is entered for the brick is a folder that this dialog has shown,   *)
(* so one that was there, however the administrator went down and up the   *)
(* tree, selected rows and closed the dialog, and others removed folders   *)
(* meanwhile.                                                              *)
FolderChosenWasShown ==
    dialog = "none" /\ dialogs > 0 => m_Entry \in shown /\ m_Entry \in FolderTree

=============================================================================
