---------------------------- MODULE ProgramsProofs ----------------------------
(***************************************************************************)
(* Theorems about the programs around the service and the libraries below  *)
(* it, for every value of their constants: the pass of the worker over its *)
(* folders (BackupPass), the administration programs (BrickAdmin), the     *)
(* configuration that the service loads beside them (ConfigLoad), the      *)
(* query object (SqlObjects), the dialog for a folder (BrowseFolder), the  *)
(* old system layer (HardwareLayer) and the daemon (Daemon).  Each section *)
(* begins with the inductive invariant and ends with the theorems; the     *)
(* sections need nothing of each other, but that the invariant of          *)
(* ConfigLoad contains the one of BrickAdmin.                              *)
(***************************************************************************)
EXTENDS BackupPass, ConfigLoad, BrowseFolder, HardwareLayer, SqlObjects, Daemon,
        FiniteSetTheorems, SequenceTheorems, WellFoundedInduction, TLAPS

-----------------------------------------------------------------------------
(* The pass of the worker over its folders (BackupPass).                   *)
(* A folder is on the list.                                                *)
InCol(d) == \E k \in DOMAIN col : col[k] = d

(* S are the folders that were searched in this walk, L the files that     *)
(* were counted as lost.  What lies in a folder of S is yet to come, or    *)
(* was dealt with.                                                         *)
DealtWith(S, L) ==
    \A e \in Entries :
        ParentOf[e] \in S /\ e \notin entries =>
            /\ isfolder(e) => e \in S \cup unread \/ InCol(e)
            /\ e \in Due => Held(e) \/ e \in L \cup doubtful

WalkedSoFar(S, L) ==
    /\ S \subseteq Folders /\ L \subseteq Due
    /\ Cardinality(L) <= count_file_err
    /\ Root \in S \cup unread \/ InCol(Root)
    /\ DealtWith(S, L)
    /\ entries # {} => Head(col) \in S
    /\ clean => L = {} /\ unread = {}

WalkInv ==
    bpc \in {"walk", "copy", "write", "over"} =>
        \E S \in SUBSET Folders, L \in SUBSET Due : WalkedSoFar(S, L)

FrameInv ==
    /\ entries # {} => col # << >> /\ \A e \in entries : ParentOf[e] = Head(col)
    /\ bpc = "over" => col = << >>
    /\ bpc \in {"copy", "write"} => file \in entries /\ file \in Due
    /\ bpc = "write" => held[mounted][file] = "part"

(* In a walk without a failure every folder on the list is on the disk,    *)
(* and the worker does not believe in more room than there is.             *)
CleanInv ==
    clean /\ bpc \in {"walk", "copy", "write"} =>
        /\ \A k \in DOMAIN col : col[k] \in made[mounted]
        /\ bpc = "write" => FilesOn(mounted) <= m_target_space_used + 1
                            /\ m_target_space_used < Capacity
        /\ bpc # "write" => FilesOn(mounted) <= m_target_space_used

(* A disk has the folder that the target stands for.                       *)
RootMade == \A d \in Media : Root \in made[d]

(* A row or a file that says more than is true is known to be doubtful.    *)
LogInv ==
    /\ \A f \in logged : Held(f) \/ f \in doubtful
    /\ \A d \in Media, f \in Due : held[d][f] = "alike" => f \in doubtful

PassInv == PassTypeOK /\ FrameInv /\ WalkInv /\ CleanInv /\ LogInv /\ RootMade

-----------------------------------------------------------------------------
(* A file counts as held once it was written in full, and no step of a     *)
(* copy touches such a file.                                               *)
LEMMA FullStaysFull ==
    ASSUME PassTypeOK, FrameInv, PassNext, NEW f \in Due, Held(f)
    PROVE  Held(f)'
  <1>1. PICK d \in Media : held[d][f] = "full"
    BY DEF Held
  <1>2. \/ UNCHANGED held
        \/ \E g \in Due, state \in {"part", "full", "none"} :
              /\ held' = [held EXCEPT ![mounted][g] = state]
              /\ held[mounted][g] # "full" \/ state = "full"
    <2>1. CASE OpenTarget \/ OpenErr
      <3>1. bpc = "copy" /\ held[mounted][file] # "full"
        BY <2>1 DEF OpenTarget, OpenErr, GoesOn, LengthAlike
      <3>2. file \in Due
        BY <3>1 DEF FrameInv
      <3>3. UNCHANGED held \/ held' = [held EXCEPT ![mounted][file] = "part"]
        BY <2>1 DEF OpenTarget, OpenErr, PutOnDisk
      <3> QED
        BY <3>1, <3>2, <3>3
    <2>2. CASE CopyDone
      BY <2>2 DEF CopyDone, PutOnDisk, FrameInv
    <2>3. CASE WriteErr
      BY <2>3 DEF WriteErr, PutOnDisk, FrameInv
    <2>4. CASE \/ StartPass \/ SearchByFolder \/ FrameStop \/ PassEnds \/ AsksForDisk \/ DiskFull
               \/ IsBackuped \/ SameFileThere \/ CopyShort \/ SetSemaphore \/ Ends
               \/ (\E disk \in Media : ExchangeDisk(disk))
               \/ (\E g \in Due : RowOfOther(g))
      BY <2>4 DEF StartPass, SearchByFolder, FrameStop, PassEnds, AsksForDisk, DiskFull,
                  IsBackuped, SameFileThere, CopyShort, SetSemaphore, Ends, ExchangeDisk,
                  RowOfOther, diskVars
    <2>5. CASE \E e \in entries : FilterOut(e) \/ CreateDir(e) \/ HandToCopy(e)
      BY <2>5 DEF FilterOut, CreateDir, HandToCopy, diskVars
    <2> QED
      BY <2>1, <2>2, <2>3, <2>4, <2>5 DEF PassNext, WorkerSteps
  <1>3. held'[d][f] = "full"
    BY <1>1, <1>2 DEF PassTypeOK
  <1> QED
    BY <1>3 DEF Held

(* What is doubtful stays so.                                              *)
LEMMA DoubtStays ==
    ASSUME PassNext
    PROVE  doubtful \subseteq doubtful'
  <1>1. CASE \/ StartPass \/ SearchByFolder \/ FrameStop \/ PassEnds \/ AsksForDisk \/ DiskFull
             \/ IsBackuped \/ SameFileThere \/ SetSemaphore \/ Ends
             \/ \E disk \in Media : ExchangeDisk(disk)
    BY <1>1 DEF StartPass, SearchByFolder, FrameStop, PassEnds, AsksForDisk, DiskFull,
                IsBackuped, SameFileThere, SetSemaphore, Ends, ExchangeDisk, passGhosts
  <1>2. CASE \E e \in entries : FilterOut(e) \/ CreateDir(e) \/ HandToCopy(e)
    BY <1>2 DEF FilterOut, CreateDir, HandToCopy, passGhosts
  <1>3. CASE OpenTarget \/ OpenErr \/ CopyDone \/ CopyShort \/ WriteErr \/ \E g \in Due : RowOfOther(g)
    BY <1>3 DEF OpenTarget, OpenErr, CopyDone, CopyShort, WriteErr, RowOfOther
  <1> QED
    BY <1>1, <1>2, <1>3 DEF PassNext, WorkerSteps

(* An entry is done: the list keeps its folders, but for the one that was  *)
(* searched when nothing is left of it, and gets what was found.           *)
LEMMA ListAfterEntry ==
    ASSUME PassTypeOK, FrameInv, NEW e \in entries, NEW found \in Seq(Folders), EntryDone(e, found)
    PROVE  /\ col' \in Seq(Folders)
           /\ entries' = entries \ {e}
           /\ \A d : InCol(d) => InCol(d)' \/ d = Head(col)
           /\ \A k \in DOMAIN found : InCol(found[k])'
           /\ entries' # {} => col' # << >> /\ Head(col') = Head(col)
           /\ \A k \in DOMAIN col' : \/ \E j \in DOMAIN col : col'[k] = col[j]
                                     \/ \E j \in DOMAIN found : col'[k] = found[j]
  <1>1. col \in Seq(Folders) /\ col # << >>
    BY DEF PassTypeOK, FrameInv
  <1>a. Tail(col) \in Seq(Folders)
    BY <1>1
  <1>2. PICK rest \in Seq(Folders) : rest = IF entries' = {} THEN Tail(col) ELSE col
    BY <1>1, <1>a
  <1>3. col' = rest \o found /\ entries' = entries \ {e}
    BY <1>2 DEF EntryDone
  <1>4. /\ Len(col') = Len(rest) + Len(found)
        /\ \A k \in 1..(Len(rest) + Len(found)) :
              col'[k] = IF k <= Len(rest) THEN rest[k] ELSE found[k - Len(rest)]
        /\ col' \in Seq(Folders)
    BY <1>3
  <1>5. \A k \in DOMAIN col : k = 1 \/ (k \in Nat /\ k - 1 \in DOMAIN Tail(col)
            /\ Tail(col)[k - 1] = col[k])
    BY <1>1
  <1>6. \A k \in DOMAIN rest : \E j \in DOMAIN col : rest[k] = col[j]
    BY <1>1, <1>2
  <1>7. ASSUME NEW d, InCol(d) PROVE InCol(d)' \/ d = Head(col)
    <2>1. PICK k \in DOMAIN col : col[k] = d
      BY <1>7 DEF InCol
    <2>2. CASE d # Head(col)
      <3>1. \E j \in DOMAIN rest : rest[j] = d
        <4>1. CASE entries' = {}
          <5>1. k # 1
            BY <1>1, <2>1, <2>2
          <5>2. k - 1 \in DOMAIN Tail(col) /\ Tail(col)[k - 1] = d
            BY <1>5, <2>1, <5>1
          <5> QED
            BY <1>2, <4>1, <5>2
        <4>2. CASE entries' # {}
          BY <1>2, <2>1, <4>2
        <4> QED
          BY <4>1, <4>2
      <3>5. PICK j \in DOMAIN rest : rest[j] = d
        BY <3>1
      <3>2. j \in DOMAIN col' /\ col'[j] = d
        BY <1>4, <3>5
      <3> QED
        BY <3>2 DEF InCol
    <2> QED
      BY <2>2
  <1>8. ASSUME NEW k \in DOMAIN found PROVE InCol(found[k])'
    <2>1. Len(rest) + k \in DOMAIN col' /\ col'[Len(rest) + k] = found[k]
      BY <1>4
    <2> QED
      BY <2>1 DEF InCol
  <1>9. ASSUME entries' # {} PROVE col' # << >> /\ Head(col') = Head(col)
    <2>1. rest = col
      BY <1>2, <1>9
    <2>2. Len(col') > 0 /\ col'[1] = col[1]
      BY <1>1, <1>4, <2>1
    <2> QED
      BY <1>1, <1>4, <2>2
  <1>10. ASSUME NEW k \in DOMAIN col'
         PROVE  \/ \E j \in DOMAIN col : col'[k] = col[j]
                \/ \E j \in DOMAIN found : col'[k] = found[j]
    <2>1. CASE k <= Len(rest)
      BY <1>4, <1>6, <2>1
    <2>2. CASE k > Len(rest)
      <3>1. k - Len(rest) \in DOMAIN found /\ col'[k] = found[k - Len(rest)]
        BY <1>4, <2>2
      <3> QED
        BY <3>1
    <2> QED
      BY <1>4, <2>1, <2>2
  <1> QED
    BY <1>3, <1>4, <1>7, <1>8, <1>9, <1>10

(* The same, for what was dealt with so far.                               *)
LEMMA EntryDealtWith ==
    ASSUME PassTypeOK, FrameInv, PassNext,
           NEW S \in SUBSET Folders, NEW L \in SUBSET Due, NEW M \in SUBSET Due, WalkedSoFar(S, L),
           NEW e \in entries, NEW found \in Seq(Folders), EntryDone(e, found),
           UNCHANGED unread,
           L \subseteq M, Cardinality(M) <= count_file_err',
           clean' => clean /\ M = {},
           isfolder(e) => found = <<e>>,
           e \in Due => Held(e)' \/ e \in M \cup doubtful'
    PROVE  WalkedSoFar(S, M)'
  <1> USE DEF WalkedSoFar
  <1>1. /\ entries' = entries \ {e}
        /\ \A d : InCol(d) => InCol(d)' \/ d = Head(col)
        /\ \A k \in DOMAIN found : InCol(found[k])'
        /\ entries' # {} => Head(col') = Head(col)
    BY ListAfterEntry
  <1>2. Head(col) \in S
    OBVIOUS
  <1>3. (Root \in S \cup unread \/ InCol(Root))'
    BY <1>1, <1>2
  <1>4. ASSUME NEW g \in Entries, ParentOf[g] \in S, g \notin entries', isfolder(g)
        PROVE  g \in S \cup unread' \/ InCol(g)'
    <2>1. CASE g = e
      <3>1. 1 \in DOMAIN found /\ found[1] = g
        BY <1>4, <2>1
      <3> QED
        BY <1>1, <3>1
    <2>2. CASE g # e
      <3>1. g \in S \cup unread \/ InCol(g)
        BY <1>1, <1>4, <2>2 DEF DealtWith
      <3> QED
        BY <1>1, <1>2, <3>1
    <2> QED
      BY <2>1, <2>2
  <1>5. ASSUME NEW g \in Entries, ParentOf[g] \in S, g \notin entries', g \in Due
        PROVE  Held(g)' \/ g \in M \cup doubtful'
    <2>1. CASE g = e
      BY <1>5, <2>1
    <2>2. CASE g # e
      <3>1. Held(g) \/ g \in L \cup doubtful
        BY <1>1, <1>5, <2>2 DEF DealtWith
      <3> QED
        BY <1>5, <3>1, FullStaysFull, DoubtStays
    <2> QED
      BY <2>1, <2>2
  <1>6. DealtWith(S, M)'
    BY <1>4, <1>5 DEF DealtWith, isfolder
  <1> QED
    BY <1>1, <1>2, <1>3, <1>6

(* A step that neither looks at an entry nor opens a folder.               *)
LEMMA WalkStays ==
    ASSUME PassTypeOK, FrameInv, PassNext,
           NEW S \in SUBSET Folders, NEW L \in SUBSET Due, WalkedSoFar(S, L),
           UNCHANGED <<frameVars, unread, count_file_err>>, clean' => clean
    PROVE  WalkedSoFar(S, L)'
  <1>1. UNCHANGED <<col, entries, unread, count_file_err>>
    BY DEF frameVars
  <1>2. DealtWith(S, L)'
    <2> SUFFICES ASSUME NEW e \in Entries, ParentOf[e] \in S, e \notin entries
                 PROVE  /\ isfolder(e) => e \in S \cup unread \/ InCol(e)
                        /\ e \in Due => Held(e)' \/ e \in L \cup doubtful'
      BY <1>1 DEF DealtWith, InCol
    <2> QED
      BY FullStaysFull, DoubtStays DEF WalkedSoFar, DealtWith
  <1> QED
    BY <1>1, <1>2 DEF WalkedSoFar, InCol

(* A folder is opened or cannot be: it leaves the list, or is the one that *)
(* is searched now.                                                        *)
LEMMA FolderSearched ==
    ASSUME PassTypeOK, FrameInv, PassNext, SearchByFolder,
           NEW S \in SUBSET Folders, NEW L \in SUBSET Due, WalkedSoFar(S, L)
    PROVE  \E T \in SUBSET Folders : WalkedSoFar(T, L)'
  <1>1. /\ col \in Seq(Folders) /\ col # << >> /\ entries = {}
        /\ UNCHANGED count_file_err
    BY DEF SearchByFolder, OpenFolder, OpendirFails, Walking, PassTypeOK, workerVars, counts
  <1>2. Head(col) \in Folders
    BY <1>1
  <1>3. \A d : InCol(d) => d = Head(col) \/ \E k \in DOMAIN Tail(col) : Tail(col)[k] = d
    <2> SUFFICES ASSUME NEW k \in DOMAIN col, k # 1
                 PROVE  \E j \in DOMAIN Tail(col) : Tail(col)[j] = col[k]
      BY <1>1 DEF InCol
    <2>1. k - 1 \in DOMAIN Tail(col) /\ Tail(col)[k - 1] = col[k]
      BY <1>1
    <2> QED
      BY <2>1
  <1>4. \A d : InCol(d) => InCol(d)' \/ d = Head(col)
    <2>1. col' = col \/ col' = Tail(col)
      BY DEF SearchByFolder, OpenFolder, OpendirFails
    <2> QED
      BY <1>3, <2>1 DEF InCol
  <1>5. CASE OpendirFails /\ CallFails /\ unread' = unread \cup {Head(col)}
    <2>1. UNCHANGED entries /\ ~clean'
      BY <1>5 DEF OpendirFails, CallFails
    <2>2. DealtWith(S, L)'
      <3> SUFFICES ASSUME NEW e \in Entries, ParentOf[e] \in S, e \notin entries
                   PROVE  /\ isfolder(e) => e \in S \cup unread' \/ InCol(e)'
                          /\ e \in Due => Held(e)' \/ e \in L \cup doubtful'
        BY <2>1 DEF DealtWith
      <3> QED
        BY <1>4, <1>5, FullStaysFull, DoubtStays DEF WalkedSoFar, DealtWith
    <2>3. (Root \in S \cup unread \/ InCol(Root))'
      BY <1>4, <1>5 DEF WalkedSoFar
    <2> QED
      BY <1>1, <2>1, <2>2, <2>3 DEF WalkedSoFar
  <1>6. CASE OpenFolder({e \in Entries : ParentOf[e] = Head(col)}) /\ NothingFails
            /\ UNCHANGED unread
    <2>1. /\ entries' = {e \in Entries : ParentOf[e] = Head(col)}
          /\ UNCHANGED clean /\ UNCHANGED unread
          /\ col' = IF entries' = {} THEN Tail(col) ELSE col
      BY <1>6 DEF OpenFolder, NothingFails
    <2>2. PICK U \in SUBSET Folders : U = S \cup {Head(col)}
      BY <1>2
    <2>3. DealtWith(U, L)'
      <3> SUFFICES ASSUME NEW e \in Entries, ParentOf[e] \in U, e \notin entries'
                   PROVE  /\ isfolder(e) => e \in U \cup unread \/ InCol(e)'
                          /\ e \in Due => Held(e)' \/ e \in L \cup doubtful'
        BY <2>1 DEF DealtWith
      <3>1. ParentOf[e] \in S /\ e \notin entries
        BY <1>1, <2>1, <2>2
      <3> QED
        BY <1>4, <2>2, <3>1, FullStaysFull, DoubtStays DEF WalkedSoFar, DealtWith
    <2>4. (Root \in U \cup unread \/ InCol(Root))'
      BY <1>4, <2>1, <2>2 DEF WalkedSoFar
    <2>5. entries' # {} => Head(col') \in U
      BY <2>1, <2>2
    <2> QED
      BY <1>1, <2>1, <2>2, <2>3, <2>4, <2>5 DEF WalkedSoFar
  <1> QED
    BY <1>5, <1>6 DEF SearchByFolder

(* What was lost is counted when copy returns with an error.               *)
LEMMA OneMoreLost ==
    ASSUME NEW L \in SUBSET Due, NEW f \in Due, NEW n \in Nat, Cardinality(L) <= n
    PROVE  Cardinality(L \cup {f}) <= n + 1
  <1>1. IsFiniteSet(L) /\ Cardinality(L) \in Nat
    BY FS_Subset, FS_CardinalityType, DueAssumption
  <1>2. Cardinality(L \cup {f}) = IF f \in L THEN Cardinality(L) ELSE Cardinality(L) + 1
    BY <1>1, FS_AddElement
  <1> QED
    BY <1>1, <1>2

(* The worker's account of the walk.                                       *)
LEMMA WalkStep == ASSUME PassInv, PassNext PROVE WalkInv'
  <1> SUFFICES ASSUME bpc' \in {"walk", "copy", "write", "over"}
               PROVE  \E S \in SUBSET Folders, L \in SUBSET Due : WalkedSoFar(S, L)'
    BY DEF WalkInv
  <1> USE DEF PassInv
  <1>1. CASE StartPass
    <2>1. /\ col' = <<Root>> /\ entries' = {} /\ unread' = {} /\ count_file_err' = 0
      BY <1>1 DEF StartPass, StartWalk, m_pref
    <2>2. InCol(Root)'
      BY <2>1 DEF InCol
    <2>3. WalkedSoFar({}, {})'
      BY <2>1, <2>2, FS_EmptySet DEF WalkedSoFar, DealtWith
    <2> QED
      BY <2>3
  <1>2. ASSUME ~StartPass
        PROVE  \E S \in SUBSET Folders, L \in SUBSET Due : WalkedSoFar(S, L)
    <2>1. bpc \in {"walk", "copy", "write", "over"}
      BY <1>2 DEF PassNext, WorkerSteps, SearchByFolder, FrameStop, FilterOut, CreateDir, Asked,
             HandToCopy, PassEnds, AsksForDisk, DiskFull, IsBackuped, SameFileThere, GoesOn,
             OpenTarget, OpenErr, CopyDone, CopyShort, WriteErr, SetSemaphore, Ends,
             ExchangeDisk, RowOfOther, workerVars
    <2> QED
      BY <2>1 DEF WalkInv
  <1>3. ASSUME NEW S \in SUBSET Folders, NEW L \in SUBSET Due, WalkedSoFar(S, L), ~StartPass
        PROVE  \E T \in SUBSET Folders, M \in SUBSET Due : WalkedSoFar(T, M)'
    <2>0. count_file_err \in Nat /\ Cardinality(L) <= count_file_err
      BY <1>3 DEF PassTypeOK, WalkedSoFar
    <2>1. CASE SearchByFolder
      BY <1>3, <2>1, FolderSearched
    <2>2. CASE \/ FrameStop \/ PassEnds \/ AsksForDisk \/ SetSemaphore
               \/ (\E e \in entries : HandToCopy(e))
               \/ (\E d \in Media : ExchangeDisk(d))
               \/ (\E f \in Due : RowOfOther(f))
      <3>1. UNCHANGED <<frameVars, unread, count_file_err>> /\ (clean' => clean)
        BY <2>2 DEF FrameStop, PassEnds, AsksForDisk, SetSemaphore, HandToCopy, ExchangeDisk,
                    RowOfOther, workerVars, counts, passGhosts
      <3> QED
        BY <1>3, <3>1, WalkStays
    <2>3. CASE OpenTarget
      <3>1. UNCHANGED <<frameVars, unread, count_file_err>> /\ (clean' => clean)
        BY <2>3 DEF OpenTarget, GoesOn, CallFails, NothingFails, counts
      <3> QED
        BY <1>3, <3>1, WalkStays
    <2>4. CASE Ends
      BY <2>4 DEF Ends
    <2>5. ASSUME NEW e \in entries, FilterOut(e) \/ CreateDir(e)
          PROVE  WalkedSoFar(S, L)'
      <3>1. CASE FilterOut(e)
        <4>1. /\ EntryDone(e, << >>) /\ e \notin Due /\ ~isfolder(e)
              /\ UNCHANGED <<unread, count_file_err, clean>>
          BY <3>1 DEF FilterOut, FilterIn, workerVars, counts, passGhosts
        <4>2. << >> \in Seq(Folders)
          OBVIOUS
        <4>3. clean' => clean /\ L = {}
          BY <1>3, <4>1 DEF WalkedSoFar
        <4> QED
          BY <1>3, <2>0, <4>1, <4>2, <4>3, EntryDealtWith
      <3>2. CASE CreateDir(e)
        <4>1. /\ EntryDone(e, <<e>>) /\ isfolder(e)
              /\ UNCHANGED <<unread, count_file_err>> /\ (clean' => clean)
          BY <2>0, <3>2 DEF CreateDir, Statistic, BK_SUCESS_FOLDER, BK_BACKUP_FOLDER_ERR,
                            NothingFails,
                      CallFails
        <4>2. <<e>> \in Seq(Folders) /\ e \notin Due
          BY <4>1, DueAssumption DEF isfolder
        <4>3. clean' => clean /\ L = {}
          BY <1>3, <4>1 DEF WalkedSoFar
        <4> QED
          BY <1>3, <2>0, <4>1, <4>2, <4>3, EntryDealtWith
      <3> QED
        BY <2>5, <3>1, <3>2
    <2>6. CASE IsBackuped \/ SameFileThere \/ CopyDone \/ CopyShort
      <3>1. /\ EntryDone(file, << >>) /\ UNCHANGED <<unread, count_file_err>> /\ (clean' => clean)
            /\ bpc \in {"copy", "write"}
        BY <2>0, <2>6 DEF IsBackuped, SameFileThere, CopyDone, CopyShort, Returns, Statistic,
                    BK_SUCESS_FILE, GoesOn, CallFails, NothingFails
      <3>2. file \in entries /\ file \in Due /\ << >> \in Seq(Folders)
        BY <3>1 DEF FrameInv
      <3>7. PICK g \in Due : g = file
        BY <3>2
      <3>3. Held(g)' \/ g \in doubtful'
        <4>1. CASE IsBackuped
          <5>1. Held(g) \/ g \in doubtful
            BY <3>7, <4>1 DEF IsBackuped, LogInv
          <5> QED
            BY <5>1, FullStaysFull, DoubtStays
        <4>2. CASE SameFileThere
          <5>1. Held(g) \/ g \in doubtful
            BY <3>7, <4>2 DEF SameFileThere, LengthAlike, Held, PassTypeOK, LogInv
          <5> QED
            BY <5>1, FullStaysFull, DoubtStays
        <4>3. CASE CopyDone
          <5>1. held'[mounted][g] = "full" /\ mounted \in Media
            BY <3>7, <4>3 DEF CopyDone, PutOnDisk, PassTypeOK
          <5> QED
            BY <5>1 DEF Held
        <4>4. CASE CopyShort
          BY <3>7, <4>4 DEF CopyShort
        <4> QED
          BY <2>6, <4>1, <4>2, <4>3, <4>4
      <3>4. clean' => clean /\ L = {}
        BY <1>3, <3>1 DEF WalkedSoFar
      <3>5. ~isfolder(g) /\ g \in entries /\ EntryDone(g, << >>)
        BY <3>1, <3>2, <3>7, DueAssumption DEF isfolder
      <3>6. WalkedSoFar(S, L)'
        BY <1>3, <2>0, <3>1, <3>2, <3>3, <3>4, <3>5, EntryDealtWith
      <3> QED
        BY <3>6
    <2>7. CASE DiskFull \/ OpenErr \/ WriteErr
      <3>1. /\ EntryDone(file, << >>) /\ UNCHANGED unread /\ count_file_err' = count_file_err + 1
            /\ bpc \in {"copy", "write"}
        BY <2>7 DEF DiskFull, OpenErr, WriteErr, Returns, Statistic, CopyErr, BK_BACKUP_FILE_ERR
      <3>2. file \in entries /\ file \in Due /\ << >> \in Seq(Folders) /\ ~isfolder(file)
        BY <3>1, DueAssumption DEF FrameInv, isfolder
      <3>3. ~clean'
        <4>1. CASE DiskFull
          BY <4>1 DEF DiskFull
        <4>2. CASE OpenErr /\ CallFails
          BY <4>2 DEF CallFails
        <4>3. CASE OpenErr /\ ~CallFails
          <5>1. ~FolderThere(mounted, file) /\ NothingFails /\ bpc = "copy"
            BY <4>3 DEF OpenErr
          <5>2. ParentOf[file] = Head(col) /\ col # << >> /\ col \in Seq(Folders)
            BY <3>2 DEF FrameInv, PassTypeOK
          <5>3. ~clean
            BY <5>1, <5>2 DEF CleanInv, FolderThere
          <5> QED
            BY <5>1, <5>3 DEF NothingFails
        <4>4. CASE WriteErr
          BY <4>4 DEF WriteErr, CallFails
        <4> QED
          BY <2>7, <4>1, <4>2, <4>3, <4>4
      <3>7. PICK g \in Due : g = file
        BY <3>2
      <3>4. L \cup {g} \in SUBSET Due /\ Cardinality(L \cup {g}) <= count_file_err'
        BY <2>0, <3>1, OneMoreLost
      <3>5. PICK M \in SUBSET Due : M = L \cup {g}
        BY <3>4
      <3>8. EntryDone(g, << >>) /\ g \in entries /\ ~isfolder(g)
        BY <3>1, <3>2, <3>7
      <3>6. WalkedSoFar(S, M)'
        BY <1>3, <3>1, <3>2, <3>3, <3>4, <3>5, <3>8, EntryDealtWith
      <3> QED
        BY <3>6
    <2> QED
      BY <1>3, <2>1, <2>2, <2>3, <2>4, <2>5, <2>6, <2>7 DEF PassNext, WorkerSteps
  <1> QED
    BY <1>1, <1>2, <1>3

(* The log names files that some disk holds, but for the doubtful ones.    *)
LEMMA LogStep == ASSUME PassInv, PassNext PROVE LogInv'
  <1> USE DEF PassInv
  <1>1. ASSUME NEW f \in logged' PROVE Held(f)' \/ f \in doubtful'
    <2>1. CASE f \in logged
      BY <2>1, FullStaysFull, DoubtStays DEF LogInv, PassTypeOK
    <2>2. CASE f \notin logged
      <3>1. SameFileThere \/ CopyDone \/ CopyShort \/ \E g \in Due : RowOfOther(g)
        BY <1>1, <2>2 DEF PassNext, StartPass, WorkerSteps, SearchByFolder, FrameStop, FilterOut,
             CreateDir, HandToCopy, PassEnds, AsksForDisk, DiskFull, IsBackuped, OpenTarget,
             OpenErr, WriteErr, SetSemaphore, Ends, ExchangeDisk, diskVars
      <3>2. CASE \E g \in Due : RowOfOther(g)
        BY <1>1, <2>2, <3>2 DEF RowOfOther
      <3>3. CASE CopyShort
        BY <1>1, <2>2, <3>3 DEF CopyShort
      <3>4. CASE SameFileThere \/ CopyDone
        <4>1. f = file /\ f \in Due
          BY <1>1, <2>2, <3>4 DEF SameFileThere, CopyDone, GoesOn, FrameInv
        <4>2. CASE SameFileThere
          <5>1. Held(f) \/ f \in doubtful
            BY <4>1, <4>2 DEF SameFileThere, LengthAlike, Held, PassTypeOK, LogInv
          <5> QED
            BY <4>1, <5>1, FullStaysFull, DoubtStays
        <4>3. CASE CopyDone
          <5>1. held'[mounted][f] = "full" /\ mounted \in Media
            BY <4>1, <4>3 DEF CopyDone, PutOnDisk, PassTypeOK
          <5> QED
            BY <5>1 DEF Held
        <4> QED
          BY <3>4, <4>2, <4>3
      <3> QED
        BY <3>1, <3>2, <3>3, <3>4
    <2> QED
      BY <2>1, <2>2
  <1>2. ASSUME NEW d \in Media, NEW f \in Due, held'[d][f] = "alike" PROVE f \in doubtful'
    <2>1. \/ UNCHANGED held
          \/ \E state \in {"none", "part", "full"} : PutOnDisk(file, state)
      <3>1. CASE OpenTarget \/ OpenErr \/ CopyDone \/ WriteErr
        BY <3>1 DEF OpenTarget, OpenErr, CopyDone, WriteErr
      <3>2. CASE \/ StartPass \/ SearchByFolder \/ FrameStop \/ PassEnds \/ AsksForDisk \/ DiskFull
                 \/ IsBackuped \/ SameFileThere \/ CopyShort \/ SetSemaphore \/ Ends
                 \/ (\E disk \in Media : ExchangeDisk(disk))
                 \/ (\E g \in Due : RowOfOther(g))
        BY <3>2 DEF StartPass, SearchByFolder, FrameStop, PassEnds, AsksForDisk, DiskFull,
                    IsBackuped, SameFileThere, CopyShort, SetSemaphore, Ends, ExchangeDisk,
                    RowOfOther, diskVars
      <3>3. CASE \E e \in entries : FilterOut(e) \/ CreateDir(e) \/ HandToCopy(e)
        BY <3>3 DEF FilterOut, CreateDir, HandToCopy, diskVars
      <3> QED
        BY <3>1, <3>2, <3>3 DEF PassNext, WorkerSteps
    <2>2. held[d][f] = "alike"
      BY <1>2, <2>1 DEF PutOnDisk, PassTypeOK
    <2> QED
      BY <2>2, DoubtStays DEF LogInv
  <1> QED
    BY <1>1, <1>2 DEF LogInv

(* Where the walk is.                                                      *)
LEMMA FrameStep == ASSUME PassInv, PassNext PROVE FrameInv'
  <1> USE DEF PassInv
  <1>0. col \in Seq(Folders)
    BY DEF PassTypeOK
  <1>1. CASE StartPass
    BY <1>1 DEF StartPass, StartWalk, FrameInv
  <1>2. CASE SearchByFolder
    <2>1. /\ entries = {} /\ col # << >> /\ bpc = "walk" /\ bpc' = "walk"
      BY <1>2 DEF SearchByFolder, OpenFolder, OpendirFails, Walking, workerVars
    <2>2. CASE UNCHANGED entries
      BY <2>1, <2>2 DEF FrameInv
    <2>3. CASE OpenFolder({e \in Entries : ParentOf[e] = Head(col)})
      <3>1. /\ entries' = {e \in Entries : ParentOf[e] = Head(col)}
            /\ entries' # {} => col' = col
        BY <2>3 DEF OpenFolder
      <3> QED
        BY <2>1, <3>1 DEF FrameInv
    <2> QED
      BY <1>2, <2>2, <2>3 DEF SearchByFolder, OpendirFails
  <1>3. CASE FrameStop \/ PassEnds \/ AsksForDisk \/ SetSemaphore
    BY <1>3 DEF FrameStop, PassEnds, AsksForDisk, SetSemaphore, FrameInv, frameVars, diskVars,
                Walking
  <1>4. CASE (\E d \in Media : ExchangeDisk(d)) \/ (\E f \in Due : RowOfOther(f))
    BY <1>4 DEF ExchangeDisk, RowOfOther, FrameInv, frameVars, workerVars
  <1>5. CASE Ends
    BY <1>5 DEF Ends, FrameInv
  <1>6. ASSUME NEW e \in entries, HandToCopy(e) PROVE FrameInv'
    <2>1. e \in Due
      BY <1>6 DEF HandToCopy, FilterIn
    <2> QED
      BY <1>6, <2>1 DEF HandToCopy, FrameInv, frameVars
  <1>7. CASE OpenTarget
    <2>1. held'[mounted][file] = "part" /\ mounted' = mounted /\ file' = file
      BY <1>7 DEF OpenTarget, PutOnDisk, PassTypeOK, FrameInv, GoesOn
    <2> QED
      BY <1>7, <2>1 DEF OpenTarget, FrameInv, frameVars, GoesOn
  <1>8. ASSUME NEW e \in entries, NEW found \in Seq(Folders), EntryDone(e, found),
               bpc' = "walk"
        PROVE  FrameInv'
    BY <1>8, ListAfterEntry DEF FrameInv
  <1>9. ASSUME NEW e \in entries, FilterOut(e) \/ CreateDir(e) PROVE FrameInv'
    <2>1. bpc' = "walk" /\ \/ EntryDone(e, << >>)
                           \/ EntryDone(e, <<e>>) /\ isfolder(e)
      BY <1>9 DEF FilterOut, CreateDir, Asked, workerVars
    <2>2. isfolder(e) => <<e>> \in Seq(Folders)
      BY DEF isfolder
    <2>3. << >> \in Seq(Folders)
      OBVIOUS
    <2> QED
      BY <1>8, <2>1, <2>2, <2>3
  <1>10. CASE IsBackuped \/ SameFileThere \/ CopyDone \/ CopyShort \/ DiskFull \/ OpenErr \/ WriteErr
    <2>1. bpc' = "walk" /\ EntryDone(file, << >>) /\ bpc \in {"copy", "write"}
      BY <1>10 DEF IsBackuped, SameFileThere, CopyDone, CopyShort, DiskFull, OpenErr, WriteErr,
                   Returns, GoesOn
    <2>2. PICK g \in entries : g = file
      BY <2>1 DEF FrameInv
    <2>3. << >> \in Seq(Folders)
      OBVIOUS
    <2> QED
      BY <1>8, <2>1, <2>2, <2>3
  <1> QED
    BY <1>1, <1>2, <1>3, <1>4, <1>5, <1>6, <1>7, <1>9, <1>10 DEF PassNext, WorkerSteps

(* What a step of copy adds to the files of the disk.                      *)
LEMMA FilesAfterPut ==
    ASSUME PassTypeOK, NEW f \in Due, NEW state \in {"none", "part", "full"},
           PutOnDisk(f, state), UNCHANGED mounted
    PROVE  /\ FilesOn(mounted) \in Nat /\ FilesOn(mounted)' \in Nat
           /\ FilesOn(mounted)' <= FilesOn(mounted) + 1
           /\ state = "none" \/ held[mounted][f] # "none" => FilesOn(mounted)' <= FilesOn(mounted)
  <1>1. PICK before : before = {g \in Due : held[mounted][g] # "none"}
    OBVIOUS
  <1>2. PICK after : after = {g \in Due : held'[mounted][g] # "none"}
    OBVIOUS
  <1>3. FilesOn(mounted) = Cardinality(before) /\ FilesOn(mounted)' = Cardinality(after)
    BY <1>1, <1>2 DEF FilesOn
  <1>4. /\ after \in SUBSET (before \cup {f})
        /\ state = "none" \/ held[mounted][f] # "none" => after \in SUBSET before
    BY <1>1, <1>2 DEF PutOnDisk, PassTypeOK
  <1>5. before \in SUBSET Due /\ after \in SUBSET Due /\ IsFiniteSet(Due)
    BY <1>1, <1>2, DueAssumption
  <1>6. IsFiniteSet(before) /\ IsFiniteSet(before \cup {f})
    BY <1>5, FS_Subset, FS_AddElement
  <1>7. Cardinality(before) \in Nat /\ Cardinality(after) \in Nat
    BY <1>5, FS_Subset, FS_CardinalityType
  <1>8. Cardinality(before \cup {f}) = IF f \in before THEN Cardinality(before) ELSE Cardinality(before) + 1
    BY <1>6, FS_AddElement
  <1>9. Cardinality(after) <= Cardinality(before \cup {f})
    BY <1>4, <1>6, FS_Subset
  <1>10. after \in SUBSET before => Cardinality(after) <= Cardinality(before)
    BY <1>6, FS_Subset
  <1> QED
    BY <1>3, <1>4, <1>7, <1>8, <1>9, <1>10

(* In a walk without a failure the folders of the list are on the disk,    *)
(* and a file that copy begins to write finds room.                        *)
LEMMA CleanStep == ASSUME PassInv, PassNext PROVE CleanInv'
  <1> USE DEF PassInv
  <1>0. /\ col \in Seq(Folders) /\ Capacity \in Nat /\ mounted \in Media
        /\ made \in [Media -> SUBSET Folders] /\ m_target_space_used \in Nat
    BY PassBounds DEF PassTypeOK
  <1> SUFFICES ASSUME clean', bpc' \in {"walk", "copy", "write"}
               PROVE  /\ \A k \in DOMAIN col' : col'[k] \in made'[mounted']
                      /\ bpc' = "write" => FilesOn(mounted)' <= m_target_space_used' + 1
                                           /\ m_target_space_used' < Capacity
                      /\ bpc' # "write" => FilesOn(mounted)' <= m_target_space_used'
    BY DEF CleanInv
  <1>f. FilesOn(mounted) \in Nat
    BY FS_Subset, FS_CardinalityType, DueAssumption DEF FilesOn
  <1>1. CASE StartPass
    <2>1. /\ col' = <<Root>> /\ UNCHANGED <<mounted, made, held>> /\ bpc' = "walk"
          /\ m_target_space_used' = FilesOn(mounted)
      BY <1>1 DEF StartPass, StartWalk, m_pref, diskVars
    <2>2. FilesOn(mounted)' = FilesOn(mounted)
      BY <2>1 DEF FilesOn
    <2>3. Root \in made[mounted]
      BY <1>0 DEF RootMade
    <2> QED
      BY <1>f, <2>1, <2>2, <2>3
  <1>2. CASE SearchByFolder
    <2>1. /\ clean /\ bpc' = bpc /\ bpc = "walk" /\ (col' = col \/ col' = Tail(col))
          /\ UNCHANGED <<made, mounted, held, m_target_space_used>> /\ col # << >>
      BY <1>2 DEF SearchByFolder, OpenFolder, OpendirFails, workerVars, diskVars, CallFails,
                  NothingFails, Walking
    <2>2. FilesOn(mounted)' = FilesOn(mounted)
      BY <2>1 DEF FilesOn
    <2>3. \A k \in DOMAIN col : col[k] \in made[mounted]
      BY <2>1 DEF CleanInv
    <2>4. \A k \in DOMAIN Tail(col) : Tail(col)[k] \in made[mounted]
      <3> SUFFICES ASSUME NEW k \in DOMAIN Tail(col) PROVE Tail(col)[k] \in made[mounted]
        OBVIOUS
      <3>1. k + 1 \in DOMAIN col /\ Tail(col)[k] = col[k + 1]
        BY <1>0, <2>1
      <3> QED
        BY <2>3, <3>1
    <2> QED
      BY <2>1, <2>2, <2>3, <2>4 DEF CleanInv
  <1>3. CASE FrameStop \/ PassEnds \/ Ends \/ DiskFull \/ \E d \in Media : ExchangeDisk(d)
    BY <1>3 DEF FrameStop, PassEnds, Ends, DiskFull, ExchangeDisk
  <1>4. CASE SetSemaphore \/ (\E e \in entries : HandToCopy(e)) \/ (\E f \in Due : RowOfOther(f))
    <2>1. /\ clean /\ UNCHANGED <<col, made, mounted, held, m_target_space_used>>
          /\ bpc \in {"walk", "copy", "write"} /\ (bpc = "write" <=> bpc' = "write")
      BY <1>4 DEF SetSemaphore, HandToCopy, RowOfOther, Asked, frameVars, workerVars, diskVars,
                  passGhosts
    <2>2. FilesOn(mounted)' = FilesOn(mounted)
      BY <2>1 DEF FilesOn
    <2> QED
      BY <2>1, <2>2 DEF CleanInv
  <1>5. CASE AsksForDisk
    <2>1. /\ clean /\ UNCHANGED <<col, made, mounted, held>> /\ bpc = "copy" /\ bpc' = "copy"
          /\ m_target_space_used' = FilesOn(mounted)
      BY <1>5 DEF AsksForDisk, frameVars, diskVars, passGhosts
    <2>2. FilesOn(mounted)' = FilesOn(mounted)
      BY <2>1 DEF FilesOn
    <2> QED
      BY <1>f, <2>1, <2>2 DEF CleanInv
  <1>6. ASSUME NEW e \in entries, NEW found \in Seq(Folders), EntryDone(e, found),
               clean, bpc \in {"walk", "copy", "write"}, mounted' = mounted,
               \A d \in made[mounted] : d \in made'[mounted],
               \A k \in DOMAIN found : found[k] \in made'[mounted]
        PROVE  \A k \in DOMAIN col' : col'[k] \in made'[mounted']
    <2>1. \A k \in DOMAIN col : col[k] \in made[mounted]
      BY <1>6 DEF CleanInv
    <2> QED
      BY <1>6, <2>1, ListAfterEntry
  <1>7. ASSUME NEW e \in entries, FilterOut(e) \/ CreateDir(e)
        PROVE  /\ \A k \in DOMAIN col' : col'[k] \in made'[mounted']
               /\ bpc' = "walk" /\ FilesOn(mounted)' <= m_target_space_used'
    <2>1. /\ clean /\ bpc = "walk" /\ bpc' = "walk"
          /\ UNCHANGED <<mounted, held, m_target_space_used>>
      BY <1>7 DEF FilterOut, CreateDir, Asked, workerVars, diskVars, passGhosts, CallFails,
                  NothingFails
    <2>2. FilesOn(mounted)' = FilesOn(mounted)
      BY <2>1 DEF FilesOn
    <2>3. FilesOn(mounted)' <= m_target_space_used'
      BY <2>1, <2>2 DEF CleanInv
    <2>4. CASE FilterOut(e)
      <3>1. EntryDone(e, << >>) /\ UNCHANGED made
        BY <2>4 DEF FilterOut, diskVars
      <3>2. << >> \in Seq(Folders)
        OBVIOUS
      <3>4. /\ \A d \in made[mounted] : d \in made'[mounted]
            /\ \A k \in DOMAIN << >> : << >>[k] \in made'[mounted]
        BY <3>1
      <3>3. \A k \in DOMAIN col' : col'[k] \in made'[mounted']
        BY <1>6, <2>1, <3>1, <3>2, <3>4
      <3> QED
        BY <2>1, <2>3, <3>3
    <2>5. CASE CreateDir(e)
      <3>1. EntryDone(e, <<e>>) /\ isfolder(e)
        BY <2>5 DEF CreateDir
      <3>2. FolderThere(mounted, e)
        <4>1. ParentOf[e] = Head(col) /\ col # << >>
          BY DEF FrameInv
        <4> QED
          BY <1>0, <2>1, <4>1 DEF CleanInv, FolderThere
      <3>3. made' = [made EXCEPT ![mounted] = @ \cup {e}]
        BY <2>5, <3>2 DEF CreateDir, CallFails
      <3>4. <<e>> \in Seq(Folders)
        BY <3>1 DEF isfolder
      <3>5. e \in made'[mounted] /\ \A d \in made[mounted] : d \in made'[mounted]
        BY <1>0, <3>3
      <3>7. \A k \in DOMAIN <<e>> : <<e>>[k] \in made'[mounted]
        BY <3>5
      <3>6. \A k \in DOMAIN col' : col'[k] \in made'[mounted']
        BY <1>6, <2>1, <3>1, <3>4, <3>5, <3>7
      <3> QED
        BY <2>1, <2>3, <3>6
    <2> QED
      BY <1>7, <2>4, <2>5
  <1>8. CASE OpenTarget
    <2>1. /\ clean /\ bpc = "copy" /\ bpc' = "write" /\ ~BelievesFull
          /\ UNCHANGED <<col, made, mounted, m_target_space_used>>
          /\ PutOnDisk(file, "part")
      BY <1>8 DEF OpenTarget, GoesOn, CallFails, NothingFails, frameVars
    <2>2. PICK g \in Due : g = file
      BY <2>1 DEF FrameInv
    <2>3. FilesOn(mounted)' <= FilesOn(mounted) + 1 /\ FilesOn(mounted)' \in Nat
      BY <2>1, <2>2, FilesAfterPut
    <2> QED
      BY <1>0, <1>f, <2>1, <2>3 DEF CleanInv, BelievesFull
  <1>9. CASE IsBackuped \/ SameFileThere \/ OpenErr \/ CopyDone \/ CopyShort \/ WriteErr
    <2>1. /\ clean /\ bpc \in {"copy", "write"} /\ bpc' = "walk" /\ EntryDone(file, << >>)
          /\ UNCHANGED <<made, mounted>>
      BY <1>9 DEF IsBackuped, SameFileThere, OpenErr, CopyDone, CopyShort, WriteErr, Returns,
                  GoesOn, CallFails, NothingFails
    <2>2. PICK g \in Due : g = file /\ g \in entries
      BY <2>1 DEF FrameInv
    <2>3. << >> \in Seq(Folders)
      OBVIOUS
    <2>9. /\ \A d \in made[mounted] : d \in made'[mounted]
          /\ \A k \in DOMAIN << >> : << >>[k] \in made'[mounted]
          /\ EntryDone(g, << >>) /\ mounted' = mounted
          /\ bpc \in {"walk", "copy", "write"}
      BY <2>1, <2>2
    <2>4. \A k \in DOMAIN col' : col'[k] \in made'[mounted']
      BY <1>6, <2>1, <2>2, <2>3, <2>9
    <2>5. CASE UNCHANGED <<held, m_target_space_used>> /\ bpc = "copy"
      <3>1. FilesOn(mounted)' = FilesOn(mounted)
        BY <2>1, <2>5 DEF FilesOn
      <3> QED
        BY <2>1, <2>4, <2>5, <3>1 DEF CleanInv
    <2>6. CASE CopyDone
      <3>1. /\ PutOnDisk(g, "full") /\ m_target_space_used' = m_target_space_used + 1
            /\ held[mounted][g] = "part" /\ bpc = "write"
        BY <2>2, <2>6 DEF CopyDone, FrameInv
      <3>2. FilesOn(mounted)' <= FilesOn(mounted) /\ FilesOn(mounted)' \in Nat
        BY <2>1, <3>1, FilesAfterPut
      <3> QED
        BY <1>0, <1>f, <2>1, <2>4, <3>1, <3>2 DEF CleanInv
    <2>7. ~WriteErr /\ ~CopyShort
      <3> SUFFICES ASSUME WriteErr \/ CopyShort PROVE FALSE
        OBVIOUS
      <3>1. bpc = "write" /\ FilesOn(mounted) > Capacity
        BY DEF WriteErr, CopyShort, CallFails
      <3> QED
        BY <1>0, <1>f, <2>1, <3>1 DEF CleanInv
    <2>8. (bpc = "copy" /\ UNCHANGED <<held, m_target_space_used>>) \/ CopyDone
      BY <1>9, <2>7 DEF IsBackuped, SameFileThere, OpenErr, GoesOn, CallFails
    <2> QED
      BY <2>5, <2>6, <2>8
  <1> QED
    BY <1>1, <1>2, <1>3, <1>4, <1>5, <1>7, <1>8, <1>9 DEF PassNext, WorkerSteps

(* Types.                                                                  *)
LEMMA PassTypeStep == ASSUME PassInv, PassNext PROVE PassTypeOK'
  <1> USE DEF PassInv
  <1>1. \A d \in Media : FilesOn(d) \in Nat
    BY FS_Subset, FS_CardinalityType, DueAssumption DEF FilesOn
  <1>2. col \in Seq(Folders) /\ << >> \in Seq(Folders)
    BY DEF PassTypeOK
  <1>3. ASSUME NEW e \in entries, NEW found \in Seq(Folders), EntryDone(e, found)
        PROVE  col' \in Seq(Folders) /\ entries' \subseteq Entries
    BY <1>3, ListAfterEntry DEF PassTypeOK
  <1>c. CallFails => clean' \in BOOLEAN /\ passFaults' \in 0..MaxPassFaults
    <2>1. ASSUME CallFails PROVE passFaults' \in 0..MaxPassFaults
      BY <2>1, PassBounds DEF CallFails, PassTypeOK
    <2>2. CallFails => clean' \in BOOLEAN
      BY DEF CallFails
    <2> QED
      BY <2>1, <2>2
  <1>n. NothingFails => clean' \in BOOLEAN /\ passFaults' \in 0..MaxPassFaults
    BY DEF NothingFails, PassTypeOK
  <1>4. CASE StartPass
    <2>1. <<Root>> \in Seq(Folders)
      BY TreeAssumption
    <2>2. walks' \in 0..MaxWalks
      BY <1>4, PassBounds DEF StartPass, PassTypeOK
    <2>3. m_target_space_used' \in Nat
      BY <1>1, <1>4 DEF StartPass, PassTypeOK
    <2> QED
      BY <1>4, <2>1, <2>2, <2>3 DEF StartPass, StartWalk, m_pref, PassTypeOK, diskVars
  <1>5. CASE SearchByFolder
    <2>1. col # << >> /\ Head(col) \in Folders /\ Tail(col) \in Seq(Folders)
      BY <1>2, <1>5 DEF SearchByFolder, OpenFolder, OpendirFails, Walking
    <2>2. col' \in Seq(Folders)
      BY <1>2, <1>5, <2>1 DEF SearchByFolder, OpenFolder, OpendirFails
    <2>3. entries' \subseteq Entries
      BY <1>5 DEF SearchByFolder, OpenFolder, OpendirFails, PassTypeOK
    <2>4. clean' \in BOOLEAN /\ passFaults' \in 0..MaxPassFaults
      BY <1>5, <1>c, <1>n DEF SearchByFolder
    <2>5. unread' \subseteq Folders
      BY <1>5, <2>1 DEF SearchByFolder, PassTypeOK
    <2> QED
      BY <1>5, <2>2, <2>3, <2>4, <2>5 DEF SearchByFolder, PassTypeOK, workerVars, counts, diskVars
  <1>6. CASE FrameStop \/ PassEnds \/ SetSemaphore \/ Ends
    BY <1>2, <1>6 DEF FrameStop, PassEnds, SetSemaphore, Ends, PassTypeOK, frameVars, counts,
                      diskVars, passGhosts
  <1>7. ASSUME NEW d \in Media, ExchangeDisk(d) PROVE PassTypeOK'
    <2>1. exchanges' \in 0..MaxExchanges
      BY <1>7, PassBounds DEF ExchangeDisk, PassTypeOK
    <2> QED
      BY <1>7, <2>1 DEF ExchangeDisk, PassTypeOK, frameVars, workerVars, counts
  <1>14. ASSUME NEW f \in Due, RowOfOther(f) PROVE PassTypeOK'
    BY <1>14 DEF RowOfOther, PassTypeOK, frameVars, workerVars, counts
  <1>8. CASE AsksForDisk
    BY <1>1, <1>8 DEF AsksForDisk, PassTypeOK, frameVars, counts, diskVars, passGhosts
  <1>9. ASSUME NEW e \in entries, HandToCopy(e) PROVE PassTypeOK'
    <2>1. e \in Due
      BY <1>9 DEF HandToCopy, FilterIn
    <2> QED
      BY <1>9, <2>1 DEF HandToCopy, PassTypeOK, frameVars, counts, diskVars, passGhosts
  <1>10. ASSUME NEW e \in entries, FilterOut(e) PROVE PassTypeOK'
    <2>1. col' \in Seq(Folders) /\ entries' \subseteq Entries
      BY <1>2, <1>3, <1>10 DEF FilterOut
    <2> QED
      BY <1>10, <2>1 DEF FilterOut, PassTypeOK, workerVars, counts, diskVars, passGhosts
  <1>11. ASSUME NEW e \in entries, CreateDir(e) PROVE PassTypeOK'
    <2>1. e \in Folders
      BY <1>11 DEF CreateDir, isfolder
    <2>2. <<e>> \in Seq(Folders)
      BY <2>1
    <2>3. col' \in Seq(Folders) /\ entries' \subseteq Entries
      BY <1>3, <1>11, <2>2 DEF CreateDir
    <2>4. made' \in [Media -> SUBSET Folders]
      BY <1>11, <2>1 DEF CreateDir, PassTypeOK
    <2>5. count_success' \in Nat /\ count_file_err' \in Nat /\ count_folder_err' \in Nat
      BY <1>11 DEF CreateDir, PassTypeOK, Statistic, BK_SUCESS_FOLDER, BK_BACKUP_FOLDER_ERR
    <2>6. clean' \in BOOLEAN /\ passFaults' \in 0..MaxPassFaults
      BY <1>11, <1>c, <1>n DEF CreateDir
    <2> QED
      BY <1>11, <2>3, <2>4, <2>5, <2>6 DEF CreateDir, PassTypeOK
  <1>12. CASE OpenTarget
    <2>1. file \in Due /\ mounted \in Media
      BY <1>12 DEF OpenTarget, GoesOn, FrameInv, PassTypeOK
    <2>2. held' \in [Media -> [Due -> HeldStates]]
      BY <1>12, <2>1 DEF OpenTarget, PutOnDisk, PassTypeOK, HeldStates
    <2>3. clean' \in BOOLEAN /\ passFaults' \in 0..MaxPassFaults
      BY <1>12, <1>c, <1>n DEF OpenTarget, GoesOn
    <2> QED
      BY <1>12, <2>2, <2>3 DEF OpenTarget, PassTypeOK, frameVars, counts
  <1>13. CASE IsBackuped \/ SameFileThere \/ CopyDone \/ CopyShort \/ DiskFull \/ OpenErr \/ WriteErr
    <2>1. bpc \in {"copy", "write"}
      BY <1>13 DEF IsBackuped, SameFileThere, CopyDone, CopyShort, DiskFull, OpenErr, WriteErr, GoesOn
    <2>2. PICK g \in Due : g = file /\ g \in entries
      BY <2>1 DEF FrameInv
    <2>3. /\ bpc' = "walk" /\ file' = NoFile /\ EntryDone(g, << >>)
          /\ UNCHANGED <<mounted, made, unread, walks, exchanges>>
      BY <1>13, <2>2 DEF IsBackuped, SameFileThere, CopyDone, CopyShort, DiskFull, OpenErr, WriteErr, Returns
    <2>4. col' \in Seq(Folders) /\ entries' \subseteq Entries
      BY <1>2, <1>3, <2>2, <2>3
    <2>5. count_success' \in Nat /\ count_file_err' \in Nat /\ count_folder_err' \in Nat
      BY <1>13 DEF IsBackuped, SameFileThere, CopyDone, CopyShort, DiskFull, OpenErr, WriteErr, Returns,
                   Statistic,
             PassTypeOK, CopyErr, BK_BACKUP_FILE_ERR, BK_SUCESS_FILE
    <2>6. clean' \in BOOLEAN /\ passFaults' \in 0..MaxPassFaults
      <3>1. CASE DiskFull \/ IsBackuped
        BY <3>1 DEF DiskFull, IsBackuped, PassTypeOK
      <3>2. CASE SameFileThere \/ CopyDone \/ CopyShort \/ OpenErr \/ WriteErr
        BY <1>c, <1>n, <3>2 DEF SameFileThere, CopyDone, CopyShort, OpenErr, WriteErr, GoesOn
      <3> QED
        BY <1>13, <3>1, <3>2
    <2>7. held' \in [Media -> [Due -> HeldStates]]
      <3>1. held' = held \/ \E state \in {"none", "part", "full"} :
                              held' = [held EXCEPT ![mounted][g] = state]
        <4>1. CASE OpenErr
          BY <2>2, <4>1 DEF OpenErr, PutOnDisk
        <4>2. CASE CopyDone
          BY <2>2, <4>2 DEF CopyDone, PutOnDisk
        <4>3. CASE WriteErr
          BY <2>2, <4>3 DEF WriteErr, PutOnDisk
        <4> QED
          BY <1>13, <4>1, <4>2, <4>3 DEF IsBackuped, SameFileThere, CopyShort, DiskFull
      <3>2. CASE held' = held
        BY <3>2 DEF PassTypeOK
      <3>3. ASSUME NEW state \in {"none", "part", "full"}, held' = [held EXCEPT ![mounted][g] = state]
            PROVE  held' \in [Media -> [Due -> HeldStates]]
        BY <3>3 DEF PassTypeOK, HeldStates
      <3> QED
        BY <3>1, <3>2, <3>3
    <2>8. logged' \subseteq Due
      BY <1>13, <2>2 DEF IsBackuped, SameFileThere, CopyDone, CopyShort, DiskFull, OpenErr, WriteErr,
                         PassTypeOK
    <2>9. m_target_space_used' \in Nat
      BY <1>13 DEF IsBackuped, SameFileThere, CopyDone, CopyShort, DiskFull, OpenErr, WriteErr, PassTypeOK
    <2>10. semaphore' \in BOOLEAN
      BY <1>13 DEF IsBackuped, SameFileThere, CopyDone, CopyShort, DiskFull, OpenErr, WriteErr, PassTypeOK
    <2>11. doubtful' \subseteq Due
      BY <1>13, <2>2 DEF IsBackuped, SameFileThere, CopyDone, CopyShort, DiskFull, OpenErr,
                         WriteErr, PassTypeOK
    <2> QED
      BY <2>3, <2>4, <2>5, <2>6, <2>7, <2>8, <2>9, <2>10, <2>11 DEF PassTypeOK
  <1> QED
    BY <1>4, <1>5, <1>6, <1>7, <1>8, <1>9, <1>10, <1>11, <1>12, <1>13, <1>14 DEF PassNext, WorkerSteps

(* A worker starts with what windows before it left, and no walk under     *)
(* way.                                                                    *)
LEMMA PassStarts == PassInit => PassInv
  <1> SUFFICES ASSUME PassInit PROVE PassInv
    OBVIOUS
  <1>1. /\ col = << >> /\ entries = {} /\ bpc = "down" /\ logged \in SUBSET Due
        /\ made \in [Media -> {S \in SUBSET Folders : Root \in S /\ Upward(S)}]
        /\ held \in [Media -> [Due -> HeldStates]]
        /\ doubtful = {f \in Due : \/ f \in logged /\ ~Held(f)
                                  \/ \E d \in Media : held[d][f] = "alike"}
    BY DEF PassInit, FrameInit
  <1>2. << >> \in Seq(Folders) /\ Root \in Folders
    BY TreeAssumption
  <1>4. walks \in 0..MaxWalks /\ exchanges \in 0..MaxExchanges /\ passFaults \in 0..MaxPassFaults
    BY PassBounds DEF PassInit
  <1>5. /\ m_target_space_used \in Nat /\ count_success \in Nat /\ count_file_err \in Nat
        /\ count_folder_err \in Nat
    BY DEF PassInit
  <1>6. made \in [Media -> SUBSET Folders] /\ doubtful \subseteq Due
    BY <1>1
  <1>7. semaphore \in BOOLEAN /\ clean \in BOOLEAN
    BY DEF PassInit
  <1>3. PassTypeOK
    BY <1>1, <1>2, <1>4, <1>5, <1>6, <1>7 DEF PassInit, PassTypeOK
  <1>8. LogInv /\ RootMade
    BY <1>1 DEF LogInv, RootMade
  <1> QED
    BY <1>1, <1>3, <1>8 DEF PassInv, FrameInv, WalkInv, CleanInv

(* Folders of a disk are made, never removed; a new disk has its root.     *)
LEMMA RootStays == ASSUME PassInv, PassNext PROVE RootMade'
  <1> SUFFICES ASSUME NEW d \in Media PROVE Root \in made'[d]
    BY DEF RootMade
  <1>1. Root \in made[d]
    BY DEF PassInv, RootMade
  <1>2. \/ UNCHANGED made
        \/ \E e \in entries : made' = [made EXCEPT ![mounted] = @ \cup {e}]
    <2>1. ASSUME NEW e \in entries, CreateDir(e)
          PROVE  UNCHANGED made \/ made' = [made EXCEPT ![mounted] = @ \cup {e}]
      BY <2>1 DEF CreateDir
    <2>2. ASSUME NEW e \in entries, FilterOut(e) \/ HandToCopy(e) PROVE UNCHANGED made
      BY <2>2 DEF FilterOut, HandToCopy, diskVars
    <2> QED
      BY <2>1, <2>2 DEF PassNext, StartPass, WorkerSteps, SearchByFolder, FrameStop, PassEnds,
                        AsksForDisk, DiskFull,
         IsBackuped, SameFileThere, OpenTarget, OpenErr, CopyDone, CopyShort, WriteErr, Returns,
         SetSemaphore, Ends, ExchangeDisk, RowOfOther, diskVars
  <1> QED
    BY <1>1, <1>2 DEF PassInv, PassTypeOK

(* A step of nothing that the pass reads keeps the invariant.              *)
LEMMA PassStutter == ASSUME PassInv, UNCHANGED passVars PROVE PassInv'
  <1>1. UNCHANGED <<col, entries, bpc, file, m_target_space_used, semaphore, count_success, count_file_err,
                    count_folder_err, mounted, made, held, logged, unread, clean, doubtful, walks,
                    exchanges, passFaults>>
    BY DEF passVars, frameVars, ownPassVars, workerVars, counts, diskVars, passGhosts
  <1>2. PassTypeOK' /\ FrameInv' /\ LogInv' /\ RootMade'
    BY <1>1 DEF PassInv, PassTypeOK, FrameInv, LogInv, Held, RootMade
  <1>3. CleanInv'
    BY <1>1 DEF PassInv, CleanInv, FilesOn
  <1>4. ASSUME NEW S \in SUBSET Folders, NEW L \in SUBSET Due, WalkedSoFar(S, L)
               PROVE WalkedSoFar(S, L)'
    BY <1>1, <1>4 DEF WalkedSoFar, DealtWith, Held, InCol
  <1>5. WalkInv'
    BY <1>1, <1>4 DEF PassInv, WalkInv
  <1> QED
    BY <1>2, <1>3, <1>5 DEF PassInv

(* The worker's account of its walk is right at all times, for any tree,   *)
(* disks, faults and exchanges.                                            *)
THEOREM PassInvariant == PassSpec => []PassInv
  <1>1. PassInv /\ PassNext => PassInv'
    BY PassTypeStep, FrameStep, WalkStep, CleanStep, LogStep, RootStays DEF PassInv
  <1>2. PassInv /\ UNCHANGED passVars => PassInv'
    BY PassStutter
  <1> QED
    BY PassStarts, <1>1, <1>2, PTL DEF PassSpec

(* When the walk is over, a folder that was not searched lies below one    *)
(* that could not be opened: no folder is forgotten on the list.           *)
LEMMA OverReached ==
    ASSUME NEW S \in SUBSET Folders, NEW L \in SUBSET Due, WalkedSoFar(S, L), FrameInv, bpc = "over",
           NEW f \in Due, Above(f) \cap unread = {}
    PROVE  ParentOf[f] \in S
  <1>1. entries = {} /\ (\A d : ~InCol(d))
    BY DEF FrameInv, InCol
  <1>2. f \in Entries /\ ParentOf[f] \in Folders
            /\ \A d \in Folders \ {Root} : ParentOf[d] \in Folders
    BY DueAssumption, TreeAssumption DEF Entries
  <1>3. Above(f) \subseteq Folders /\ ParentOf[f] \in Above(f)
    BY <1>2 DEF Above
  <1>4. ASSUME NEW d \in Above(f), d # Root PROVE ParentOf[d] \in Above(f)
    BY <1>2, <1>3, <1>4 DEF Above, Upward
  <1>5. PICK B : B = {d \in Above(f) : d \notin S}
    OBVIOUS
  <1>6. SUFFICES ASSUME ParentOf[f] \notin S PROVE FALSE
    OBVIOUS
  <1>7. B # {}
    BY <1>3, <1>5, <1>6
  <1>8. Root \notin B
    BY <1>1, <1>5 DEF WalkedSoFar
  <1>9. B \in SUBSET (Folders \ {Root})
    BY <1>3, <1>5, <1>8
  <1>10. PICK d \in B : ParentOf[d] \notin B
    BY <1>7, <1>9, NoLoopAssumption
  <1>11. ParentOf[d] \in S /\ d \in Entries /\ d \notin S /\ d \in Folders /\ d \in Above(f)
    BY <1>4, <1>5, <1>8, <1>9, <1>10, TreeAssumption DEF Entries
  <1>12. d \in unread
    BY <1>1, <1>11 DEF WalkedSoFar, DealtWith, isfolder
  <1> QED
    BY <1>11, <1>12

(* A file of a window that was walked to its end is on a disk, or its loss *)
(* was counted, or a folder above it could not be opened, or a row or an   *)
(* old file stands for it on a disk, or its copy was cut short.            *)
THEOREM LossIsCounted == PassSpec => []LostIsCounted
  <1>1. PassInv => LostIsCounted
    <2> SUFFICES ASSUME PassInv, bpc = "over"
                 PROVE  Cardinality({f \in Due \ doubtful : ~Held(f) /\ Above(f) \cap unread = {}})
                          <= count_file_err
      BY DEF LostIsCounted
    <2>1. PICK S \in SUBSET Folders, L \in SUBSET Due : WalkedSoFar(S, L)
      BY DEF PassInv, WalkInv
    <2>2. ASSUME NEW f \in Due \ doubtful, Above(f) \cap unread = {} PROVE Held(f) \/ f \in L
      <3>1. ParentOf[f] \in S
        BY <2>1, <2>2, OverReached DEF PassInv
      <3>2. f \in Entries /\ f \notin entries
        BY DueAssumption DEF PassInv, FrameInv
      <3> QED
        BY <2>1, <3>1, <3>2 DEF WalkedSoFar, DealtWith
    <2>3. {f \in Due \ doubtful : ~Held(f) /\ Above(f) \cap unread = {}} \in SUBSET L
      BY <2>2
    <2>4. IsFiniteSet(L) /\ Cardinality(L) \in Nat
      BY FS_Subset, FS_CardinalityType, DueAssumption
    <2>5. PICK lost : lost = {f \in Due \ doubtful : ~Held(f) /\ Above(f) \cap unread = {}}
      OBVIOUS
    <2>6. Cardinality(lost) <= Cardinality(L) /\ Cardinality(lost) \in Nat
      BY <2>3, <2>4, <2>5, FS_Subset, FS_CardinalityType
    <2>7. count_file_err \in Nat /\ Cardinality(L) <= count_file_err
      BY <2>1 DEF WalkedSoFar, PassInv, PassTypeOK
    <2>8. Cardinality(lost) <= count_file_err
      BY <2>4, <2>6, <2>7
    <2> QED
      BY <2>5, <2>8
  <1> QED
    BY PassInvariant, <1>1, PTL

(* A walk that ends without a failure, on the disk it began on, leaves     *)
(* every file of its window on some disk, but for the same exceptions.     *)
THEOREM WalkIsComplete == PassSpec => []CleanWalkIsComplete
  <1>1. PassInv => CleanWalkIsComplete
    <2> SUFFICES ASSUME PassInv, bpc = "over", clean, NEW f \in Due \ doubtful PROVE Held(f)
      BY DEF CleanWalkIsComplete
    <2>1. PICK S \in SUBSET Folders, L \in SUBSET Due : WalkedSoFar(S, L)
      BY DEF PassInv, WalkInv
    <2>2. unread = {} /\ L = {}
      BY <2>1 DEF WalkedSoFar
    <2>3. ParentOf[f] \in S
      BY <2>1, <2>2, OverReached DEF PassInv
    <2>4. f \in Entries /\ f \notin entries
      BY DueAssumption DEF PassInv, FrameInv
    <2> QED
      BY <2>1, <2>2, <2>3, <2>4 DEF WalkedSoFar, DealtWith
  <1> QED
    BY PassInvariant, <1>1, PTL

(* Types, for any tree, disks, faults and exchanges.                       *)
THEOREM PassTypeCorrect == PassSpec => []PassTypeOK
  BY PassInvariant, PTL DEF PassInv

-----------------------------------------------------------------------------
(* The administration programs (BrickAdmin).                               *)
(* A place at which a brick is being added was free, or two programs were  *)
(* adding to it at once.                                                   *)
PlaceInv ==
    \A a \in Admins, r \in db["BACKUP_MASTER"] :
        AddingTo(a, PlaceOf(r)) => PlaceOf(r) \in raced

(* The programs that have an operation on a brick half done.               *)
Halfway(a) == apc[a] \in {"insert_backup", "undo", "delete_brick"}

(* Bricks with an operation broken off.                                    *)
marred == failed \cup kept

HalfInv ==
    \A b \in BrickIds :
        BrickRow(b) \in db["BRICK_MASTER"] /\ Selected("BACKUP_MASTER", BrickRow(b)) = {}
            => b \in marred \/ \E a \in Admins : Halfway(a) /\ form[a].brick = b

(* The primary key of BRICK_DISK_POS.                                      *)
PositionKey == \A r, s \in db["BRICK_DISK_POS"] : r.pos = s.pos => r = s

AdminInv == AdminTypeOK /\ PlaceInv /\ IndexSharedOnlyByRace /\ HalfInv /\ PositionKey

-----------------------------------------------------------------------------
(* What a statement leaves in the tables.                                  *)
LEMMA Inserts ==
    ASSUME DbTypeOK, NEW t \in Tables, NEW row
    PROVE  /\ DOMAIN Executed(Insert(t, row)) = Tables
           /\ Executed(Insert(t, row))[t] = db[t] \cup {row}
           /\ \A u \in Tables \ {t} : Executed(Insert(t, row))[u] = db[u]
  BY DEF Executed, Insert, DbTypeOK

(* What a deletion leaves in each table.                                   *)
LEMMA Deletes ==
    ASSUME DbTypeOK, NEW t \in Tables, NEW where
    PROVE  /\ DOMAIN Executed(Delete(t, where)) = Tables
           /\ Executed(Delete(t, where))[t] = db[t] \ Selected(t, where)
           /\ \A u \in Tables \ {t} : Executed(Delete(t, where))[u] = db[u]
  BY DEF Executed, Delete, DbTypeOK

(* The tables have the names of the schema.                                *)
LEMMA TableNames ==
    /\ Tables = {"NAS_MASTER", "BRICK_INDEX", "BRICK_MASTER", "BACKUP_MASTER", "BRICK_DISK_POS",
                 "BRICK_DISK"}
    /\ Key["BRICK_DISK_POS"] = "pos"
    /\ Rows["NAS_MASTER"] = [nas : NAS]
    /\ Rows["BRICK_INDEX"] = [num : Indexes]
    /\ Rows["BRICK_MASTER"] = [brick : BrickIds]
    /\ Rows["BACKUP_MASTER"] = [nas : NAS, num : Indexes, brick : BrickIds]
    /\ Rows["BRICK_DISK_POS"] = [brick : BrickIds, pos : Positions]
  BY DEF Tables, Rows, Key

(* A statement with a row of the schema.                                   *)
WellTyped(s) ==
    \/ \E t \in Tables : \E row \in Rows[t] : s = Insert(t, row)
    \/ \E t \in Tables : \E where \in Rows[t] \cup [brick : BrickIds] : s = Delete(t, where)

(* The keys hold, with that of BRICK_DISK_POS.                             *)
KeysHold == DbTypeOK /\ ForeignKeysHold(db) /\ PositionKey

(* An accepted statement keeps types and keys.                             *)
LEMMA AcceptedKeeps ==
    ASSUME KeysHold, NEW s, WellTyped(s), Accepted(s), db' = Executed(s)
    PROVE  KeysHold'
  <1>1. ForeignKeysHold(db')
    BY DEF Accepted
  <1>2. ASSUME NEW t \in Tables, NEW row \in Rows[t], s = Insert(t, row)
        PROVE  DbTypeOK' /\ PositionKey'
    <2>1. /\ DOMAIN db' = Tables /\ db'[t] = db[t] \cup {row}
          /\ \A u \in Tables \ {t} : db'[u] = db[u]
      BY <1>2, Inserts DEF KeysHold
    <2>2. DbTypeOK'
      BY <1>2, <2>1 DEF KeysHold, DbTypeOK
    <2>3. CASE t = "BRICK_DISK_POS"
      <3>1. \A r \in db["BRICK_DISK_POS"] : r.pos # row.pos
        <4>1. s.kind = "insert" /\ s.table = t /\ s.row = row
          BY <1>2 DEF Insert
        <4>2. \A r \in db[t] : r[Key[t]] # row[Key[t]]
          BY <4>1 DEF Accepted
        <4> QED
          BY <2>3, <4>2, TableNames
      <3> QED
        BY <2>1, <2>2, <2>3, <3>1 DEF KeysHold, PositionKey
    <2>4. CASE t # "BRICK_DISK_POS"
      BY <2>1, <2>2, <2>4, TableNames DEF KeysHold, PositionKey
    <2> QED
      BY <2>2, <2>3, <2>4
  <1>3. ASSUME NEW t \in Tables, NEW where, s = Delete(t, where)
        PROVE  DbTypeOK' /\ PositionKey'
    <2>1. /\ DOMAIN db' = Tables /\ db'[t] \subseteq db[t]
          /\ \A u \in Tables \ {t} : db'[u] = db[u]
      BY <1>3, Deletes DEF KeysHold
    <2>2. \A u \in Tables : db'[u] \subseteq db[u]
      BY <2>1
    <2>3. DbTypeOK'
      BY <2>1, <2>2 DEF KeysHold, DbTypeOK
    <2>4. PositionKey'
      BY <2>2, TableNames DEF KeysHold, PositionKey
    <2> QED
      BY <2>3, <2>4
  <1> QED
    BY <1>1, <1>2, <1>3 DEF WellTyped, KeysHold

(* What is known of the tables after a statement was sent.                 *)
Sent(s, ok) ==
    /\ db' = db \/ (db' = Executed(s) /\ Accepted(s))
    /\ ok => db' = Executed(s) /\ Accepted(s)
    /\ ~ok /\ faults' = faults => db' = db
    /\ faults' \in 0..MaxFaults

(* A statement through query() is executed if it was accepted.             *)
LEMMA QuerySent ==
    ASSUME faults \in 0..MaxFaults, NEW s, NEW ok \in BOOLEAN, Query(s, ok)
    PROVE  Sent(s, ok)
  <1>1. MaxFaults \in Nat
    BY BoundsAssumption
  <1>2. CASE ok = Accepted(s) /\ db' = (IF ok THEN Executed(s) ELSE db) /\ UNCHANGED faults
    <2>1. CASE ok
      BY <1>2, <2>1 DEF Sent
    <2>2. CASE ~ok
      BY <1>2, <2>2 DEF Sent
    <2> QED
      BY <2>1, <2>2
  <1>3. CASE Fault /\ ~ok /\ db' \in {db} \cup {d \in {Executed(s)} : Accepted(s)}
    <2>1. faults' # faults /\ faults' \in 0..MaxFaults
      BY <1>1, <1>3 DEF Fault
    <2>2. db' = db \/ (db' = Executed(s) /\ Accepted(s))
      BY <1>3
    <2> QED
      BY <1>3, <2>1, <2>2 DEF Sent
  <1> QED
    BY <1>2, <1>3 DEF Query

(* So is one through exec(), if nothing was left in the statement buffer.  *)
LEMMA ExecSent ==
    ASSUME faults \in 0..MaxFaults, leftover \in [Admins -> BOOLEAN], NEW a \in Admins,
           NEW s, NEW ok \in BOOLEAN, Exec(a, s, ok)
    PROVE  Sent(s, ok) /\ leftover' \in [Admins -> BOOLEAN]
  <1>1. leftover' \in [Admins -> BOOLEAN]
    BY DEF Exec
  <1>2. CASE ~ok /\ UNCHANGED <<db, faults>>
    BY <1>1, <1>2 DEF Sent
  <1>3. CASE Query(s, ok)
    BY <1>1, <1>3, QuerySent
  <1> QED
    BY <1>1, <1>2, <1>3 DEF Exec

(* A statement keeps the keys of the schema, whether it is refused or      *)
(* not.                                                                    *)
LEMMA SentKeeps ==
    ASSUME KeysHold, NEW s, WellTyped(s), NEW ok \in BOOLEAN, Sent(s, ok)
    PROVE  KeysHold'
  <1>1. CASE db' = db
    BY <1>1 DEF KeysHold, DbTypeOK, ForeignKeysHold, PositionKey
  <1>2. CASE db' = Executed(s) /\ Accepted(s)
    BY <1>2, AcceptedKeeps
  <1> QED
    BY <1>1, <1>2 DEF Sent

(* A brick has no place.                                                   *)
LEMMA NoPlace ==
    ASSUME NEW b
    PROVE  /\ Selected("BACKUP_MASTER", BrickRow(b)) = {} <=> \A r \in db["BACKUP_MASTER"] : r.brick # b
           /\ Selected("BACKUP_MASTER", BrickRow(b))' = {} <=> \A r \in db'["BACKUP_MASTER"] : r.brick # b
  BY DEF Selected, Matches, BrickRow

-----------------------------------------------------------------------------
(* The rest of the types.                                                  *)
ProgramsOK ==
    /\ apc \in [Admins -> {"flush", "idle", "insert_brick", "insert_backup", "undo",
                           "delete_brick"}]
    /\ form \in [Admins -> Forms]
    /\ leftover \in [Admins -> BOOLEAN]
    /\ listed \in [Admins -> [nas : SUBSET NAS, num : SUBSET Indexes,
                              brick : SUBSET BrickIds,
                              pos : SUBSET Rows["BRICK_DISK_POS"]]]
    /\ commands \in 0..MaxCommands
    /\ faults \in 0..MaxFaults
    /\ raced \subseteq [nas : NAS, num : Indexes]
    /\ marred \subseteq BrickIds

(* The invariant, as what the tables and what the programs say of it.      *)
LEMMA InvParts ==
    AdminInv <=> KeysHold /\ ProgramsOK /\ PlaceInv /\ IndexSharedOnlyByRace /\ HalfInv
  BY DEF AdminInv, AdminTypeOK, KeysHold, ProgramsOK, marred

(* Only program a has moved.                                               *)
OnlyMoves(a) ==
    \A o \in Admins \ {a} : apc'[o] = apc[o] /\ form'[o] = form[o]

(* A step that adds no place, and takes no new one in view unless it is    *)
(* free.                                                                   *)
LEMMA PlacesKept ==
    ASSUME PlaceInv, IndexSharedOnlyByRace, NEW a \in Admins, OnlyMoves(a), raced \subseteq raced',
           db'["BACKUP_MASTER"] \subseteq db["BACKUP_MASTER"],
           \/ apc'[a] \notin {"insert_brick", "insert_backup"}
           \/ form'[a] = form[a] /\ apc[a] \in {"insert_brick", "insert_backup"}
           \/ PlaceIsFree(form'[a])
    PROVE  PlaceInv' /\ IndexSharedOnlyByRace'
  <1>1. ASSUME NEW o \in Admins, NEW r \in db'["BACKUP_MASTER"],
               apc'[o] \in {"insert_brick", "insert_backup"}, PlaceOf(form'[o]) = PlaceOf(r)
        PROVE  PlaceOf(r) \in raced'
    <2>1. CASE o # a \/ (form'[a] = form[a] /\ apc[a] \in {"insert_brick", "insert_backup"})
      <3>1. AddingTo(o, PlaceOf(r)) /\ r \in db["BACKUP_MASTER"]
        BY <1>1, <2>1 DEF AddingTo, OnlyMoves
      <3> QED
        BY <3>1 DEF PlaceInv
    <2>2. CASE o = a /\ PlaceIsFree(form'[a])
      <3>1. r.nas = form'[a].nas /\ r.num = form'[a].num
        BY <1>1, <2>2 DEF PlaceOf, Place
      <3>2. Matches(r, PlaceOf(form'[a]))
        BY <3>1 DEF Matches, PlaceOf, Place
      <3> QED
        BY <2>2, <3>2 DEF PlaceIsFree, Selected
    <2> QED
      BY <1>1, <2>1, <2>2
  <1>2. PlaceInv'
    BY <1>1 DEF PlaceInv, AddingTo, PlaceOf, Place
  <1>3. IndexSharedOnlyByRace'
    BY DEF IndexSharedOnlyByRace, PlaceOf, Place
  <1> QED
    BY <1>2, <1>3

(* A brick without a place stays explained, if the program that moved was  *)
(* not the one that explained it.                                          *)
LEMMA HalvesKept ==
    ASSUME HalfInv, NEW a \in Admins, OnlyMoves(a),
           \A b \in marred : BrickRow(b) \in db'["BRICK_MASTER"] => b \in marred',
           \A b \in BrickIds :
              BrickRow(b) \in db'["BRICK_MASTER"] /\ Selected("BACKUP_MASTER", BrickRow(b))' = {} =>
                \/ b \in marred'
                \/ Halfway(a)' /\ form'[a].brick = b
                \/ /\ BrickRow(b) \in db["BRICK_MASTER"]
                          /\ Selected("BACKUP_MASTER", BrickRow(b)) = {}
                   /\ ~(Halfway(a) /\ form[a].brick = b)
    PROVE  HalfInv'
  <1> SUFFICES ASSUME NEW b \in BrickIds, BrickRow(b) \in db'["BRICK_MASTER"],
                      Selected("BACKUP_MASTER", BrickRow(b))' = {}
               PROVE  b \in marred' \/ \E o \in Admins : Halfway(o)' /\ form'[o].brick = b
    BY DEF HalfInv, BrickRow
  <1>1. CASE /\ BrickRow(b) \in db["BRICK_MASTER"] /\ Selected("BACKUP_MASTER", BrickRow(b)) = {}
             /\ ~(Halfway(a) /\ form[a].brick = b)
    <2>1. b \in marred \/ \E o \in Admins \ {a} : Halfway(o) /\ form[o].brick = b
      BY <1>1 DEF HalfInv
    <2> QED
      BY <2>1 DEF OnlyMoves, Halfway
  <1> QED
    BY <1>1

(* The tables that say where bricks are do not change.                     *)
LEMMA PlacesQuiet ==
    ASSUME ProgramsOK, PlaceInv, IndexSharedOnlyByRace, HalfInv, NEW a \in Admins, OnlyMoves(a),
           UNCHANGED raced,
           db'["BACKUP_MASTER"] = db["BACKUP_MASTER"], db'["BRICK_MASTER"] = db["BRICK_MASTER"],
           \A b \in marred : BrickRow(b) \in db'["BRICK_MASTER"] => b \in marred',
           ~Halfway(a) \/ (Halfway(a)' /\ form'[a] = form[a]) \/ form[a].brick \in marred'
               \/ BrickRow(form[a].brick) \notin db["BRICK_MASTER"],
           \/ apc'[a] \notin {"insert_brick", "insert_backup"}
           \/ form'[a] = form[a] /\ apc[a] \in {"insert_brick", "insert_backup"}
           \/ PlaceIsFree(form'[a])
    PROVE  PlaceInv' /\ IndexSharedOnlyByRace' /\ HalfInv'
  <1>1. PlaceInv' /\ IndexSharedOnlyByRace'
    BY PlacesKept
  <1>2. \A b \in BrickIds :
              BrickRow(b) \in db'["BRICK_MASTER"] /\ Selected("BACKUP_MASTER", BrickRow(b))' = {} =>
                \/ b \in marred'
                \/ Halfway(a)' /\ form'[a].brick = b
                \/ /\ BrickRow(b) \in db["BRICK_MASTER"]
                          /\ Selected("BACKUP_MASTER", BrickRow(b)) = {}
                   /\ ~(Halfway(a) /\ form[a].brick = b)
    BY NoPlace
  <1>3. HalfInv'
    BY <1>2, HalvesKept
  <1> QED
    BY <1>1, <1>3

(* An operation on each brick of B was broken off.                         *)
Marred(B) == marred' = {b \in marred \cup B : BrickRow(b) \in db'["BRICK_MASTER"]}

LEMMA Marring ==
    ASSUME NEW B \in SUBSET BrickIds, NEW ok \in BOOLEAN, NEW b \in BrickIds
    PROVE  /\ Mar(B, {}) => Marred(B)
           /\ MarUnlessDeleted(ok, b) => Marred(IF ok THEN {} ELSE {b})
  <1>1. ASSUME NEW C, NEW K, Mar(C, K) PROVE Marred(C \cup K)
    BY <1>1 DEF Mar, Marred, marred
  <1>2. Mar(B, {}) => Marred(B)
    <2>1. B \cup {} = B
      OBVIOUS
    <2> QED
      BY <1>1, <2>1
  <1>3. CASE ok
    <2>1. {} \cup {} = {}
      OBVIOUS
    <2> QED
      BY <1>1, <1>2, <1>3, <2>1 DEF MarUnlessDeleted
  <1>4. CASE ~ok
    <2>1. {} \cup {b} = {b} /\ {b} \cup {} = {b}
      OBVIOUS
    <2> QED
      BY <1>1, <1>2, <1>4, <2>1 DEF MarUnlessDeleted
  <1> QED
    BY <1>2, <1>3, <1>4

LEMMA NothingMarred == Mar({}, {}) => Marred({})
  BY DEF Mar, Marred, marred

LEMMA MarKeeps ==
    ASSUME NEW B \in SUBSET BrickIds, Marred(B), marred \subseteq BrickIds
    PROVE  /\ \A b \in marred \cup B : BrickRow(b) \in db'["BRICK_MASTER"] => b \in marred'
           /\ marred' \subseteq BrickIds
  BY DEF Marred

(* A button, and a fault.                                                  *)
LEMMA Counted ==
    ASSUME ProgramsOK, NEW a \in Admins
    PROVE  /\ Pressed(a) => commands' \in 0..MaxCommands
           /\ Fault => faults' \in 0..MaxFaults /\ faults' # faults
  BY BoundsAssumption DEF Pressed, Fault, ProgramsOK

(* A program that goes on to its next statement leaves the others where    *)
(* they are.                                                               *)
LEMMA GotoKeeps ==
    ASSUME ProgramsOK, NEW a \in Admins,
           NEW p \in {"flush", "idle", "insert_brick", "insert_backup", "undo", "delete_brick"},
           AdminGoto(a, p)
    PROVE  /\ apc'[a] = p
           /\ \A o \in Admins \ {a} : apc'[o] = apc[o]
           /\ apc' \in [Admins -> {"flush", "idle", "insert_brick", "insert_backup", "undo",
                           "delete_brick"}]
  BY DEF ProgramsOK, AdminGoto

(* The same parts of the invariant after a step.                           *)
LEMMA InvPartsNext ==
    AdminInv' <=> KeysHold' /\ ProgramsOK' /\ PlaceInv' /\ IndexSharedOnlyByRace' /\ HalfInv'
  BY DEF AdminInv, AdminTypeOK, KeysHold, ProgramsOK, marred

(* Tables that nobody writes keep their keys.                              *)
LEMMA KeysSame == ASSUME KeysHold, UNCHANGED db PROVE KeysHold'
  BY DEF KeysHold, DbTypeOK, ForeignKeysHold, PositionKey

(* What the lists may show.                                                *)
Lists == [nas : SUBSET NAS, num : SUBSET Indexes, brick : SUBSET BrickIds,
          pos : SUBSET Rows["BRICK_DISK_POS"]]

(* The list of positions shows rows of the table.                          *)
LEMMA PositionsShown ==
    ASSUME DbTypeOK, NEW b
    PROVE  PositionsOf(b) \in SUBSET Rows["BRICK_DISK_POS"]
  BY TableNames DEF PositionsOf, Selected, DbTypeOK

(* What a program reads into its lists is of the kinds of the tables.      *)
LEMMA ShownTyped ==
    ASSUME DbTypeOK, NEW full, NEW first
    PROVE  Shown(full, first) \in Lists
  <1>1. {r.nas : r \in db["NAS_MASTER"]} \subseteq NAS
    <2>1. db["NAS_MASTER"] \subseteq [nas : NAS]
      BY TableNames DEF DbTypeOK
    <2> QED
      BY <2>1
  <1>2. {r.num : r \in db["BRICK_INDEX"]} \subseteq Indexes
    <2>1. db["BRICK_INDEX"] \subseteq [num : Indexes]
      BY TableNames DEF DbTypeOK
    <2> QED
      BY <2>1
  <1>3. {r.brick : r \in db["BRICK_MASTER"]} \subseteq BrickIds
    <2>1. db["BRICK_MASTER"] \subseteq [brick : BrickIds]
      BY TableNames DEF DbTypeOK
    <2> QED
      BY <2>1
  <1> QED
    BY <1>1, <1>2, <1>3, PositionsShown DEF Shown, Lists

(* The lists are read again (OnFlush).                                     *)
LEMMA FlushStep == ASSUME AdminInv, NEW a \in Admins, OnFlush(a) PROVE AdminInv'
  <1>1. KeysHold /\ ProgramsOK /\ PlaceInv /\ IndexSharedOnlyByRace /\ HalfInv
    BY InvParts
  <1>2. /\ UNCHANGED <<db, form, raced, marred>> /\ AdminGoto(a, "idle")
        /\ apc[a] \in {"flush", "idle"} /\ leftover' = [leftover EXCEPT ![a] = FALSE]
    BY DEF OnFlush, ghostVars, Pressed, marred
  <1>3. commands' \in 0..MaxCommands /\ faults' \in 0..MaxFaults
    BY <1>1, Counted DEF OnFlush, ProgramsOK
  <1>4. PICK full \in SUBSET DOMAIN NothingListed, first \in BrickIds :
            listed' = [listed EXCEPT ![a] = Shown(full, first)]
    BY DEF OnFlush
  <1>5. PICK L \in Lists : L = Shown(full, first)
    BY <1>1, ShownTyped DEF KeysHold
  <1>6. listed' \in [Admins -> Lists]
    BY <1>1, <1>4, <1>5 DEF ProgramsOK, Lists
  <1>7. /\ apc'[a] = "idle" /\ OnlyMoves(a)
        /\ apc' \in [Admins -> {"flush", "idle", "insert_brick", "insert_backup", "undo",
                           "delete_brick"}]
    BY <1>1, <1>2, GotoKeeps DEF OnlyMoves
  <1>8. ProgramsOK'
    BY <1>1, <1>2, <1>3, <1>6, <1>7 DEF ProgramsOK, Lists
  <1>9. KeysHold'
    BY <1>1, <1>2, KeysSame
  <1>10. PlaceInv' /\ IndexSharedOnlyByRace' /\ HalfInv'
    BY <1>1, <1>2, <1>7, PlacesQuiet DEF Halfway
  <1> QED
    BY <1>8, <1>9, <1>10, InvPartsNext

(* The positions of a brick are read again (OnFlushPos).                   *)
LEMMA FlushPosStep ==
    ASSUME AdminInv, NEW a \in Admins, NEW b \in BrickIds, OnFlushPos(a, b)
    PROVE  AdminInv'
  <1>1. KeysHold /\ ProgramsOK /\ PlaceInv /\ IndexSharedOnlyByRace /\ HalfInv
    BY InvParts
  <1>2. /\ UNCHANGED <<db, apc, form, raced, marred>>
        /\ apc[a] = "idle" /\ leftover' = [leftover EXCEPT ![a] = FALSE]
    BY DEF OnFlushPos, ghostVars, handlerVars, Pressed, marred
  <1>3. commands' \in 0..MaxCommands /\ faults' \in 0..MaxFaults
    BY <1>1, Counted DEF OnFlushPos, ProgramsOK
  <1>4. PICK P \in SUBSET Rows["BRICK_DISK_POS"] : listed' = [listed EXCEPT ![a].pos = P]
    BY <1>1, PositionsShown DEF OnFlushPos, KeysHold
  <1>6. listed' \in [Admins -> Lists]
    BY <1>1, <1>4 DEF ProgramsOK, Lists
  <1>8. ProgramsOK'
    BY <1>1, <1>2, <1>3, <1>6 DEF ProgramsOK, Lists
  <1>9. KeysHold'
    BY <1>1, <1>2, KeysSame
  <1>10. PlaceInv' /\ IndexSharedOnlyByRace' /\ HalfInv'
    <2>1. OnlyMoves(a)
      BY <1>2 DEF OnlyMoves
    <2> QED
      BY <1>1, <1>2, <2>1, PlacesQuiet DEF Halfway
  <1> QED
    BY <1>8, <1>9, <1>10, InvPartsNext

(* The form is checked against the tables before anything is inserted      *)
(* (OnAdd).                                                                *)
LEMMA AddStep == ASSUME AdminInv, NEW a \in Admins, NEW f \in Forms, OnAdd(a, f) PROVE AdminInv'
  <1>1. KeysHold /\ ProgramsOK /\ PlaceInv /\ IndexSharedOnlyByRace /\ HalfInv
    BY InvParts
  <1>2. /\ UNCHANGED <<db, listed, raced, marred>> /\ apc[a] = "idle"
        /\ \/ UNCHANGED <<apc, form>>
           \/ PlaceIsFree(f) /\ AdminGoto(a, "insert_brick") /\ form' = [form EXCEPT ![a] = f]
    BY DEF OnAdd, ghostVars, handlerVars, Pressed, marred
  <1>3. commands' \in 0..MaxCommands /\ faults' \in 0..MaxFaults
    BY <1>1, Counted DEF OnAdd, ProgramsOK
  <1>4. leftover' \in [Admins -> BOOLEAN]
    BY <1>1 DEF OnAdd, ProgramsOK
  <1>5. KeysHold'
    BY <1>1, <1>2, KeysSame
  <1>6. CASE UNCHANGED <<apc, form>>
    <2>1. ProgramsOK'
      BY <1>1, <1>2, <1>3, <1>4, <1>6 DEF ProgramsOK
    <2>2. OnlyMoves(a)
      BY <1>6 DEF OnlyMoves
    <2>3. PlaceInv' /\ IndexSharedOnlyByRace' /\ HalfInv'
      BY <1>1, <1>2, <1>6, <2>2, PlacesQuiet DEF Halfway
    <2> QED
      BY <1>5, <2>1, <2>3, InvPartsNext
  <1>7. CASE PlaceIsFree(f) /\ AdminGoto(a, "insert_brick") /\ form' = [form EXCEPT ![a] = f]
    <2>1. /\ OnlyMoves(a) /\ form'[a] = f /\ form' \in [Admins -> Forms]
          /\ apc' \in [Admins -> {"flush", "idle", "insert_brick", "insert_backup", "undo",
                           "delete_brick"}]
      BY <1>1, <1>7, GotoKeeps DEF ProgramsOK, OnlyMoves
    <2>2. ProgramsOK'
      BY <1>1, <1>2, <1>3, <1>4, <2>1 DEF ProgramsOK
    <2>3. PlaceInv' /\ IndexSharedOnlyByRace' /\ HalfInv'
      BY <1>1, <1>2, <1>7, <2>1, PlacesQuiet DEF Halfway
    <2> QED
      BY <1>5, <2>2, <2>3, InvPartsNext
  <1> QED
    BY <1>2, <1>6, <1>7

(* A statement of a program that keeps its form, its lists and the bound   *)
(* on commands, or counts one.                                             *)
LEMMA StatementTypes ==
    ASSUME KeysHold, ProgramsOK, NEW a \in Admins, NEW s, WellTyped(s), NEW ok \in BOOLEAN, Exec(a, s, ok),
           NEW p \in {"flush", "idle", "insert_brick", "insert_backup", "undo", "delete_brick"},
           AdminGoto(a, p), NEW B \in SUBSET BrickIds, Marred(B), UNCHANGED listed,
           form' \in [Admins -> Forms], \A o \in Admins \ {a} : form'[o] = form[o],
           commands' \in 0..MaxCommands, raced' \subseteq [nas : NAS, num : Indexes]
    PROVE  /\ KeysHold' /\ ProgramsOK' /\ Sent(s, ok) /\ OnlyMoves(a) /\ apc'[a] = p
           /\ \A b \in marred \cup B : BrickRow(b) \in db'["BRICK_MASTER"] => b \in marred'
  <1>1. Sent(s, ok) /\ leftover' \in [Admins -> BOOLEAN]
    BY ExecSent DEF ProgramsOK
  <1>2. KeysHold'
    BY <1>1, SentKeeps
  <1>3. /\ \A b \in marred \cup B : BrickRow(b) \in db'["BRICK_MASTER"] => b \in marred'
        /\ marred' \subseteq BrickIds
    BY MarKeeps DEF ProgramsOK
  <1>4. /\ OnlyMoves(a) /\ apc'[a] = p
        /\ apc' \in [Admins -> {"flush", "idle", "insert_brick", "insert_backup", "undo",
                           "delete_brick"}]
    BY GotoKeeps DEF OnlyMoves
  <1>5. faults' \in 0..MaxFaults
    BY <1>1 DEF Sent
  <1>6. ProgramsOK'
    BY <1>1, <1>3, <1>4, <1>5 DEF ProgramsOK
  <1> QED
    BY <1>1, <1>2, <1>3, <1>4, <1>6

(* What the statements of BrickMaster do to the two tables.                *)
LEMMA MasterInserted ==
    ASSUME DbTypeOK, NEW b \in BrickIds, NEW s, s = Insert("BRICK_MASTER", BrickRow(b))
    PROVE  /\ WellTyped(s)
           /\ db' = Executed(s) => /\ db'["BRICK_MASTER"] = db["BRICK_MASTER"] \cup {BrickRow(b)}
                                   /\ db'["BACKUP_MASTER"] = db["BACKUP_MASTER"]
  <1>1. "BRICK_MASTER" \in Tables /\ "BACKUP_MASTER" \in Tables \ {"BRICK_MASTER"}
            /\ BrickRow(b) \in Rows["BRICK_MASTER"]
    BY TableNames DEF BrickRow
  <1>2. WellTyped(s)
    BY <1>1 DEF WellTyped
  <1> QED
    BY <1>1, <1>2, Inserts

(* What the deletion of a brick does to the two tables of bricks.          *)
LEMMA MasterDeleted ==
    ASSUME DbTypeOK, NEW b \in BrickIds, NEW s, s = Delete("BRICK_MASTER", BrickRow(b))
    PROVE  /\ WellTyped(s)
           /\ db' = Executed(s) => /\ db'["BRICK_MASTER"] \subseteq db["BRICK_MASTER"]
                                   /\ BrickRow(b) \notin db'["BRICK_MASTER"]
                                   /\ db'["BACKUP_MASTER"] = db["BACKUP_MASTER"]
  <1>1. WellTyped(s)
    BY TableNames DEF WellTyped, BrickRow
  <1>2. Matches(BrickRow(b), BrickRow(b))
    BY DEF Matches
  <1>3. ASSUME db' = Executed(s)
        PROVE  /\ db'["BRICK_MASTER"] \subseteq db["BRICK_MASTER"]
               /\ BrickRow(b) \notin db'["BRICK_MASTER"]
               /\ db'["BACKUP_MASTER"] = db["BACKUP_MASTER"]
    <2>1. /\ db'["BRICK_MASTER"] = db["BRICK_MASTER"] \ Selected("BRICK_MASTER", BrickRow(b))
          /\ db'["BACKUP_MASTER"] = db["BACKUP_MASTER"]
      BY <1>3, Deletes, TableNames
    <2> QED
      BY <1>2, <2>1 DEF Selected
  <1> QED
    BY <1>1, <1>3

(* What the insertion of the second row of a brick does to them.           *)
LEMMA BackupInserted ==
    ASSUME DbTypeOK, NEW f \in Forms, NEW s, s = Insert("BACKUP_MASTER", f)
    PROVE  /\ WellTyped(s)
           /\ db' = Executed(s) => /\ db'["BACKUP_MASTER"] = db["BACKUP_MASTER"] \cup {f}
                                   /\ db'["BRICK_MASTER"] = db["BRICK_MASTER"]
  <1>1. "BACKUP_MASTER" \in Tables /\ "BRICK_MASTER" \in Tables \ {"BACKUP_MASTER"}
            /\ f \in Rows["BACKUP_MASTER"]
    BY TableNames DEF Forms
  <1>2. WellTyped(s)
    BY <1>1 DEF WellTyped
  <1> QED
    BY <1>1, <1>2, Inserts

(* What the deletion of that row does to them.                             *)
LEMMA BackupDeleted ==
    ASSUME DbTypeOK, NEW b \in BrickIds, NEW s, s = Delete("BACKUP_MASTER", BrickRow(b))
    PROVE  /\ WellTyped(s)
           /\ db' = Executed(s) =>
                 /\ db'["BACKUP_MASTER"] \subseteq db["BACKUP_MASTER"]
                 /\ \A r \in db["BACKUP_MASTER"] : r.brick # b => r \in db'["BACKUP_MASTER"]
                 /\ db'["BRICK_MASTER"] = db["BRICK_MASTER"]
  <1>1. WellTyped(s)
    BY TableNames DEF WellTyped, BrickRow
  <1>3. ASSUME db' = Executed(s)
        PROVE  /\ db'["BACKUP_MASTER"] \subseteq db["BACKUP_MASTER"]
               /\ \A r \in db["BACKUP_MASTER"] : r.brick # b => r \in db'["BACKUP_MASTER"]
               /\ db'["BRICK_MASTER"] = db["BRICK_MASTER"]
    <2>1. /\ db'["BACKUP_MASTER"] = db["BACKUP_MASTER"] \ Selected("BACKUP_MASTER", BrickRow(b))
          /\ db'["BRICK_MASTER"] = db["BRICK_MASTER"]
      BY <1>3, Deletes, TableNames
    <2>2. \A r \in Selected("BACKUP_MASTER", BrickRow(b)) : r.brick = b
      BY DEF Selected, Matches, BrickRow
    <2> QED
      BY <2>1, <2>2
  <1> QED
    BY <1>1, <1>3

-----------------------------------------------------------------------------
(* The handlers of BrickMaster, statement by statement.                    *)
LEMMA InsertBrickStep == ASSUME AdminInv, NEW a \in Admins, InsertBrick(a) PROVE AdminInv'
  <1>1. KeysHold /\ ProgramsOK /\ PlaceInv /\ IndexSharedOnlyByRace /\ HalfInv
    BY InvParts
  <1>2. PICK b \in BrickIds : b = form[a].brick
    BY <1>1 DEF ProgramsOK, Forms
  <1>3. PICK s : s = Insert("BRICK_MASTER", BrickRow(b))
    OBVIOUS
  <1>4. PICK ok \in BOOLEAN :
            /\ Exec(a, s, ok)
            /\ AdminGoto(a, IF ok THEN "insert_backup" ELSE "idle")
            /\ Marred(IF faults' = faults THEN {} ELSE {b})
    BY <1>2, <1>3, Marring DEF InsertBrick
  <1>5. UNCHANGED <<form, listed, commands, raced>> /\ apc[a] = "insert_brick"
    BY DEF InsertBrick
  <1>6. PICK p \in {"insert_backup", "idle"} : p = IF ok THEN "insert_backup" ELSE "idle"
    OBVIOUS
  <1>7. PICK B \in SUBSET BrickIds : B = IF faults' = faults THEN {} ELSE {b}
    OBVIOUS
  <1>8. WellTyped(s) /\ (db' = Executed(s)
            => /\ db'["BRICK_MASTER"] = db["BRICK_MASTER"] \cup {BrickRow(b)}
                                              /\ db'["BACKUP_MASTER"] = db["BACKUP_MASTER"])
    BY <1>1, <1>3, MasterInserted DEF KeysHold
  <1>9. /\ KeysHold' /\ ProgramsOK' /\ Sent(s, ok) /\ OnlyMoves(a) /\ apc'[a] = p
        /\ \A c \in marred \cup B : BrickRow(c) \in db'["BRICK_MASTER"] => c \in marred'
    <2>1. AdminGoto(a, p) /\ Marred(B)
      BY <1>4, <1>6, <1>7
    <2>2. /\ form' \in [Admins -> Forms] /\ (\A o \in Admins \ {a} : form'[o] = form[o])
          /\ commands' \in 0..MaxCommands /\ raced' \subseteq [nas : NAS, num : Indexes]
          /\ p \in {"flush", "idle", "insert_brick", "insert_backup", "undo", "delete_brick"}
          /\ Exec(a, s, ok) /\ UNCHANGED listed
      BY <1>1, <1>4, <1>5 DEF ProgramsOK
    <2> QED
      BY <1>1, <1>8, <2>1, <2>2, StatementTypes
  <1>10. db'["BACKUP_MASTER"] = db["BACKUP_MASTER"]
    BY <1>8, <1>9 DEF Sent
  <1>11. PlaceInv' /\ IndexSharedOnlyByRace'
    <2>1. \/ apc'[a] \notin {"insert_brick", "insert_backup"}
          \/ form'[a] = form[a] /\ apc[a] \in {"insert_brick", "insert_backup"}
      BY <1>5
    <2> QED
      BY <1>1, <1>5, <1>9, <1>10, <2>1, PlacesKept
  <1>12. HalfInv'
    <2>1. ASSUME NEW c \in BrickIds, BrickRow(c) \in db'["BRICK_MASTER"],
                 Selected("BACKUP_MASTER", BrickRow(c))' = {}
          PROVE  \/ c \in marred'
                 \/ Halfway(a)' /\ form'[a].brick = c
                 \/ /\ BrickRow(c) \in db["BRICK_MASTER"]
                           /\ Selected("BACKUP_MASTER", BrickRow(c)) = {}
                    /\ ~(Halfway(a) /\ form[a].brick = c)
      <3>1. Selected("BACKUP_MASTER", BrickRow(c)) = {}
        BY <1>10, <2>1, NoPlace
      <3>2. ~Halfway(a)
        BY <1>5 DEF Halfway
      <3>3. CASE BrickRow(c) \in db["BRICK_MASTER"]
        BY <3>1, <3>2, <3>3
      <3>4. CASE BrickRow(c) \notin db["BRICK_MASTER"]
        <4>1. db' = Executed(s) /\ c = b /\ db' # db
          BY <1>8, <1>9, <2>1, <3>4 DEF Sent, BrickRow
        <4>2. CASE ok
          <5>1. apc'[a] = "insert_backup" /\ form'[a].brick = b
            BY <1>2, <1>5, <1>6, <1>9, <4>2
          <5> QED
            BY <4>1, <5>1 DEF Halfway
        <4>3. CASE ~ok
          <5>1. faults' # faults
            BY <1>9, <4>1, <4>3 DEF Sent
          <5> QED
            BY <1>7, <1>9, <2>1, <4>1, <5>1
        <4> QED
          BY <4>2, <4>3
      <3> QED
        BY <3>3, <3>4
    <2>2. \A c \in marred : BrickRow(c) \in db'["BRICK_MASTER"] => c \in marred'
      BY <1>9
    <2> QED
      BY <1>1, <1>9, <2>1, <2>2, HalvesKept
  <1> QED
    BY <1>9, <1>11, <1>12, InvPartsNext

(* The second row of a new brick is inserted, or its first is to be        *)
(* undone.                                                                 *)
LEMMA InsertBackupStep == ASSUME AdminInv, NEW a \in Admins, InsertBackup(a) PROVE AdminInv'
  <1>1. KeysHold /\ ProgramsOK /\ PlaceInv /\ IndexSharedOnlyByRace /\ HalfInv
    BY InvParts
  <1>2. PICK f \in Forms : f = form[a]
    BY <1>1 DEF ProgramsOK
  <1>3. PICK s : s = Insert("BACKUP_MASTER", f)
    OBVIOUS
  <1>4. PICK ok \in BOOLEAN :
            Exec(a, s, ok) /\ AdminGoto(a, IF ok THEN "flush" ELSE "undo")
    BY <1>2, <1>3 DEF InsertBackup, AfterRefusedBackup
  <1>5. /\ UNCHANGED <<form, listed, commands>> /\ apc[a] = "insert_backup" /\ Marred({})
        /\ raced' = raced \cup {p \in {PlaceOf(f)} : \E other \in Admins \ {a} : AddingTo(other, p)}
    BY <1>2, NothingMarred DEF InsertBackup
  <1>6. PICK p \in {"flush", "undo"} : p = IF ok THEN "flush" ELSE "undo"
    OBVIOUS
  <1>8. WellTyped(s) /\ (db' = Executed(s) => /\ db'["BACKUP_MASTER"] = db["BACKUP_MASTER"] \cup {f}
                                              /\ db'["BRICK_MASTER"] = db["BRICK_MASTER"])
    BY <1>1, <1>3, BackupInserted DEF KeysHold
  <1>9. /\ KeysHold' /\ ProgramsOK' /\ Sent(s, ok) /\ OnlyMoves(a) /\ apc'[a] = p
        /\ \A c \in marred \cup {} : BrickRow(c) \in db'["BRICK_MASTER"] => c \in marred'
    <2>1. AdminGoto(a, p) /\ Marred({}) /\ {} \in SUBSET BrickIds
      BY <1>4, <1>5, <1>6
    <2>2. PlaceOf(f) \in [nas : NAS, num : Indexes]
      BY DEF PlaceOf, Place, Forms
    <2>3. /\ form' \in [Admins -> Forms] /\ (\A o \in Admins \ {a} : form'[o] = form[o])
          /\ commands' \in 0..MaxCommands /\ raced' \subseteq [nas : NAS, num : Indexes]
          /\ p \in {"flush", "idle", "insert_brick", "insert_backup", "undo", "delete_brick"}
          /\ Exec(a, s, ok) /\ UNCHANGED listed
      BY <1>1, <1>4, <1>5, <2>2 DEF ProgramsOK
    <2> QED
      BY <1>1, <1>8, <2>1, <2>3, StatementTypes
  <1>10. /\ \A r \in db'["BACKUP_MASTER"] : r \in db["BACKUP_MASTER"] \/ r = f
         /\ db["BACKUP_MASTER"] \subseteq db'["BACKUP_MASTER"]
         /\ db'["BRICK_MASTER"] = db["BRICK_MASTER"]
    BY <1>8, <1>9 DEF Sent
  <1>11. PlaceInv'
    <2> SUFFICES ASSUME NEW o \in Admins, NEW r \in db'["BACKUP_MASTER"],
                        apc'[o] \in {"insert_brick", "insert_backup"},
                        PlaceOf(form'[o]) = PlaceOf(r)
                 PROVE  PlaceOf(r) \in raced'
      BY DEF PlaceInv, AddingTo, PlaceOf, Place
    <2>1. o # a
      BY <1>9
    <2>2. AddingTo(o, PlaceOf(r))
      BY <1>5, <1>9, <2>1 DEF AddingTo, OnlyMoves
    <2>3. CASE r \in db["BACKUP_MASTER"]
      BY <1>1, <1>5, <2>2, <2>3 DEF PlaceInv
    <2>4. CASE r = f
      BY <1>5, <2>1, <2>2, <2>4
    <2> QED
      BY <1>10, <2>3, <2>4
  <1>12. IndexSharedOnlyByRace'
    <2>1. ASSUME NEW r \in db["BACKUP_MASTER"], PlaceOf(r) = PlaceOf(f) PROVE PlaceOf(f) \in raced
      <3>1. AddingTo(a, PlaceOf(r))
        BY <1>2, <1>5, <2>1 DEF AddingTo
      <3> QED
        BY <1>1, <2>1, <3>1 DEF PlaceInv
    <2>2. \A r, q \in db'["BACKUP_MASTER"] : PlaceOf(r) = PlaceOf(q) /\ r # q
              => PlaceOf(r) \in raced'
      BY <1>1, <1>5, <1>10, <2>1 DEF IndexSharedOnlyByRace
    <2> QED
      BY <2>2 DEF IndexSharedOnlyByRace, PlaceOf, Place
  <1>13. HalfInv'
    <2>1. ASSUME NEW c \in BrickIds, BrickRow(c) \in db'["BRICK_MASTER"],
                 Selected("BACKUP_MASTER", BrickRow(c))' = {}
          PROVE  \/ c \in marred'
                 \/ Halfway(a)' /\ form'[a].brick = c
                 \/ /\ BrickRow(c) \in db["BRICK_MASTER"]
                           /\ Selected("BACKUP_MASTER", BrickRow(c)) = {}
                    /\ ~(Halfway(a) /\ form[a].brick = c)
      <3>1. \A r \in db'["BACKUP_MASTER"] : r.brick # c
        BY <2>1, NoPlace
      <3>2. BrickRow(c) \in db["BRICK_MASTER"] /\ Selected("BACKUP_MASTER", BrickRow(c)) = {}
        BY <1>10, <2>1, <3>1, NoPlace
      <3>3. CASE form[a].brick = c
        <4>1. ~ok
          <5> SUFFICES ASSUME ok PROVE FALSE
            OBVIOUS
          <5>1. f \in db'["BACKUP_MASTER"] /\ f.brick = c
            BY <1>2, <1>8, <1>9, <3>3 DEF Sent
          <5> QED
            BY <3>1, <5>1
        <4>2. apc'[a] = "undo" /\ form'[a] = form[a]
          BY <1>5, <1>6, <1>9, <4>1
        <4> QED
          BY <3>3, <4>2 DEF Halfway
      <3> QED
        BY <3>2, <3>3
    <2>2. \A c \in marred : BrickRow(c) \in db'["BRICK_MASTER"] => c \in marred'
      BY <1>9
    <2> QED
      BY <1>1, <1>9, <2>1, <2>2, HalvesKept
  <1> QED
    BY <1>9, <1>11, <1>12, <1>13, InvPartsNext

(* The two statements that delete a brick's row.                           *)
LEMMA DropBrickStep == ASSUME AdminInv, NEW a \in Admins, Undo(a) \/ DeleteBrick(a) PROVE AdminInv'
  <1>1. KeysHold /\ ProgramsOK /\ PlaceInv /\ IndexSharedOnlyByRace /\ HalfInv
    BY InvParts
  <1>2. PICK b \in BrickIds : b = form[a].brick
    BY <1>1 DEF ProgramsOK, Forms
  <1>3. PICK s : s = Delete("BRICK_MASTER", BrickRow(b))
    OBVIOUS
  <1>4. /\ UNCHANGED <<form, listed, commands, raced>> /\ Halfway(a)
        /\ \E ok \in BOOLEAN, p \in {"idle", "flush"} :
              Exec(a, s, ok) /\ AdminGoto(a, p) /\ Marred(IF ok THEN {} ELSE {b})
    <2>1. CASE Undo(a)
      BY <1>2, <1>3, <2>1, Marring DEF Undo, Halfway
    <2>2. CASE DeleteBrick(a)
      BY <1>2, <1>3, <2>2, Marring DEF DeleteBrick, Halfway
    <2> QED
      BY <2>1, <2>2
  <1>5. PICK ok \in BOOLEAN, p \in {"idle", "flush"} :
              Exec(a, s, ok) /\ AdminGoto(a, p) /\ Marred(IF ok THEN {} ELSE {b})
    BY <1>4
  <1>7. PICK B \in SUBSET BrickIds : B = IF ok THEN {} ELSE {b}
    OBVIOUS
  <1>8. WellTyped(s) /\ (db' = Executed(s) => /\ db'["BRICK_MASTER"] \subseteq db["BRICK_MASTER"]
                                              /\ BrickRow(b) \notin db'["BRICK_MASTER"]
                                              /\ db'["BACKUP_MASTER"] = db["BACKUP_MASTER"])
    BY <1>1, <1>3, MasterDeleted DEF KeysHold
  <1>9. /\ KeysHold' /\ ProgramsOK' /\ Sent(s, ok) /\ OnlyMoves(a) /\ apc'[a] = p
        /\ \A c \in marred \cup B : BrickRow(c) \in db'["BRICK_MASTER"] => c \in marred'
    <2>1. Marred(B)
      BY <1>5, <1>7
    <2>2. /\ form' \in [Admins -> Forms] /\ (\A o \in Admins \ {a} : form'[o] = form[o])
          /\ commands' \in 0..MaxCommands /\ raced' \subseteq [nas : NAS, num : Indexes]
          /\ p \in {"flush", "idle", "insert_brick", "insert_backup", "undo", "delete_brick"}
      BY <1>1, <1>4 DEF ProgramsOK
    <2> QED
      BY <1>1, <1>4, <1>5, <1>8, <2>1, <2>2, StatementTypes
  <1>10. /\ db'["BACKUP_MASTER"] = db["BACKUP_MASTER"]
         /\ db'["BRICK_MASTER"] \subseteq db["BRICK_MASTER"]
    BY <1>8, <1>9 DEF Sent
  <1>11. PlaceInv' /\ IndexSharedOnlyByRace'
    BY <1>1, <1>4, <1>9, <1>10, PlacesKept
  <1>12. HalfInv'
    <2>1. ASSUME NEW c \in BrickIds, BrickRow(c) \in db'["BRICK_MASTER"],
                 Selected("BACKUP_MASTER", BrickRow(c))' = {}
          PROVE  \/ c \in marred'
                 \/ Halfway(a)' /\ form'[a].brick = c
                 \/ /\ BrickRow(c) \in db["BRICK_MASTER"]
                           /\ Selected("BACKUP_MASTER", BrickRow(c)) = {}
                    /\ ~(Halfway(a) /\ form[a].brick = c)
      <3>1. BrickRow(c) \in db["BRICK_MASTER"] /\ Selected("BACKUP_MASTER", BrickRow(c)) = {}
        BY <1>10, <2>1, NoPlace
      <3>2. CASE c = b
        <4>1. ~ok
          BY <1>8, <1>9, <2>1, <3>2 DEF Sent
        <4> QED
          BY <1>7, <1>9, <2>1, <3>2, <4>1
      <3>3. CASE c # b
        BY <1>2, <3>1, <3>3
      <3> QED
        BY <3>2, <3>3
    <2>2. \A c \in marred : BrickRow(c) \in db'["BRICK_MASTER"] => c \in marred'
      BY <1>9
    <2> QED
      BY <1>1, <1>9, <2>1, <2>2, HalvesKept
  <1> QED
    BY <1>9, <1>11, <1>12, InvPartsNext

(* The second row of a brick is deleted before the first (OnDel).          *)
LEMMA OnDelStep ==
    ASSUME AdminInv, NEW a \in Admins, NEW b \in BrickIds, OnDel(a, b)
    PROVE  AdminInv'
  <1>1. KeysHold /\ ProgramsOK /\ PlaceInv /\ IndexSharedOnlyByRace /\ HalfInv
    BY InvParts
  <1>3. PICK s : s = Delete("BACKUP_MASTER", BrickRow(b))
    OBVIOUS
  <1>4. PICK ok \in BOOLEAN :
            /\ Exec(a, s, ok)
            /\ AdminGoto(a, IF ok THEN "delete_brick" ELSE "idle")
            /\ Marred(IF faults' = faults THEN {} ELSE {b})
    BY <1>3, Marring DEF OnDel
  <1>5. /\ UNCHANGED <<listed, raced>> /\ apc[a] = "idle" /\ commands' \in 0..MaxCommands
        /\ form' = [form EXCEPT ![a].brick = b]
    BY <1>1, Counted DEF OnDel, Pressed
  <1>6. PICK p \in {"delete_brick", "idle"} : p = IF ok THEN "delete_brick" ELSE "idle"
    OBVIOUS
  <1>7. PICK B \in SUBSET BrickIds : B = IF faults' = faults THEN {} ELSE {b}
    OBVIOUS
  <1>8. WellTyped(s) /\ (db' = Executed(s) =>
                 /\ db'["BACKUP_MASTER"] \subseteq db["BACKUP_MASTER"]
                 /\ \A r \in db["BACKUP_MASTER"] : r.brick # b => r \in db'["BACKUP_MASTER"]
                 /\ db'["BRICK_MASTER"] = db["BRICK_MASTER"])
    BY <1>1, <1>3, BackupDeleted DEF KeysHold
  <1>f. form' \in [Admins -> Forms] /\ form'[a].brick = b
            /\ \A o \in Admins \ {a} : form'[o] = form[o]
    BY <1>1, <1>5 DEF ProgramsOK, Forms
  <1>9. /\ KeysHold' /\ ProgramsOK' /\ Sent(s, ok) /\ OnlyMoves(a) /\ apc'[a] = p
        /\ \A c \in marred \cup B : BrickRow(c) \in db'["BRICK_MASTER"] => c \in marred'
    <2>1. AdminGoto(a, p) /\ Marred(B)
      BY <1>4, <1>6, <1>7
    <2>2. /\ raced' \subseteq [nas : NAS, num : Indexes]
          /\ p \in {"flush", "idle", "insert_brick", "insert_backup", "undo", "delete_brick"}
          /\ Exec(a, s, ok) /\ UNCHANGED listed
      BY <1>1, <1>4, <1>5 DEF ProgramsOK
    <2> QED
      BY <1>1, <1>5, <1>8, <1>f, <2>1, <2>2, StatementTypes
  <1>10. /\ db'["BACKUP_MASTER"] \subseteq db["BACKUP_MASTER"]
         /\ \A r \in db["BACKUP_MASTER"] : r.brick # b => r \in db'["BACKUP_MASTER"]
         /\ db'["BRICK_MASTER"] = db["BRICK_MASTER"]
    BY <1>8, <1>9 DEF Sent
  <1>11. PlaceInv' /\ IndexSharedOnlyByRace'
    <2>1. apc'[a] \notin {"insert_brick", "insert_backup"}
      BY <1>9
    <2> QED
      BY <1>1, <1>5, <1>9, <1>10, <2>1, PlacesKept
  <1>12. HalfInv'
    <2>1. ASSUME NEW c \in BrickIds, BrickRow(c) \in db'["BRICK_MASTER"],
                 Selected("BACKUP_MASTER", BrickRow(c))' = {}
          PROVE  \/ c \in marred'
                 \/ Halfway(a)' /\ form'[a].brick = c
                 \/ /\ BrickRow(c) \in db["BRICK_MASTER"]
                           /\ Selected("BACKUP_MASTER", BrickRow(c)) = {}
                    /\ ~(Halfway(a) /\ form[a].brick = c)
      <3>1. BrickRow(c) \in db["BRICK_MASTER"] /\ ~Halfway(a)
        BY <1>5, <1>10, <2>1 DEF Halfway
      <3>2. CASE Selected("BACKUP_MASTER", BrickRow(c)) = {}
        BY <3>1, <3>2
      <3>3. CASE Selected("BACKUP_MASTER", BrickRow(c)) # {}
        <4>1. c = b /\ db' # db
          <5>1. PICK r \in db["BACKUP_MASTER"] : r.brick = c
            BY <3>3, NoPlace
          <5>2. r \notin db'["BACKUP_MASTER"]
            BY <2>1, <5>1, NoPlace
          <5> QED
            BY <1>10, <5>1, <5>2
        <4>2. CASE ok
          <5>1. apc'[a] = "delete_brick" /\ form'[a].brick = b
            BY <1>6, <1>9, <1>f, <4>2
          <5> QED
            BY <4>1, <5>1 DEF Halfway
        <4>3. CASE ~ok
          <5>1. faults' # faults
            BY <1>9, <4>1, <4>3 DEF Sent
          <5> QED
            BY <1>7, <1>9, <2>1, <4>1, <5>1
        <4> QED
          BY <4>2, <4>3
      <3> QED
        BY <3>2, <3>3
    <2>2. \A c \in marred : BrickRow(c) \in db'["BRICK_MASTER"] => c \in marred'
      BY <1>9
    <2> QED
      BY <1>1, <1>9, <2>1, <2>2, HalvesKept
  <1> QED
    BY <1>9, <1>11, <1>12, InvPartsNext

(* A statement that leaves both tables of bricks alone.                    *)
Elsewhere(s) ==
    \E t \in Tables \ {"BRICK_MASTER", "BACKUP_MASTER"} :
        \/ \E row \in Rows[t] : s = Insert(t, row)
        \/ \E where \in Rows[t] : s = Delete(t, where)

(* A statement about positions, disks or hosts leaves the tables of        *)
(* bricks.                                                                 *)
LEMMA ElsewhereQuiet ==
    ASSUME DbTypeOK, NEW s, Elsewhere(s)
    PROVE  /\ WellTyped(s)
           /\ db' = db \/ db' = Executed(s) => /\ db'["BACKUP_MASTER"] = db["BACKUP_MASTER"]
                                               /\ db'["BRICK_MASTER"] = db["BRICK_MASTER"]
  <1>1. PICK t \in Tables \ {"BRICK_MASTER", "BACKUP_MASTER"} :
              \/ \E row \in Rows[t] : s = Insert(t, row)
              \/ \E where \in Rows[t] : s = Delete(t, where)
    BY DEF Elsewhere
  <1>2. "BRICK_MASTER" \in Tables \ {t} /\ "BACKUP_MASTER" \in Tables \ {t}
    BY TableNames
  <1>3. CASE \E row \in Rows[t] : s = Insert(t, row)
    BY <1>2, <1>3, Inserts DEF WellTyped
  <1>4. CASE \E where \in Rows[t] : s = Delete(t, where)
    BY <1>2, <1>4, Deletes DEF WellTyped
  <1> QED
    BY <1>1, <1>3, <1>4

(* A handler of a single statement about those tables.                     *)
LEMMA OneStatementStep ==
    ASSUME AdminInv, NEW a \in Admins, NEW s, Elsewhere(s), OneStatement(a, s)
    PROVE  AdminInv'
  <1>1. KeysHold /\ ProgramsOK /\ PlaceInv /\ IndexSharedOnlyByRace /\ HalfInv
    BY InvParts
  <1>2. PICK ok \in BOOLEAN : Exec(a, s, ok) /\ AdminGoto(a, IF ok THEN "flush" ELSE "idle")
    BY DEF OneStatement
  <1>3. PICK p \in {"flush", "idle"} : p = IF ok THEN "flush" ELSE "idle"
    OBVIOUS
  <1>4. /\ UNCHANGED <<form, listed, raced>> /\ apc[a] = "idle" /\ Marred({})
        /\ commands' \in 0..MaxCommands
    BY <1>1, Counted, NothingMarred DEF OneStatement, Pressed
  <1>5. WellTyped(s) /\ (db' = db \/ db' = Executed(s)
            => /\ db'["BACKUP_MASTER"] = db["BACKUP_MASTER"]
                                                         /\ db'["BRICK_MASTER"] = db["BRICK_MASTER"])
    BY <1>1, ElsewhereQuiet DEF KeysHold
  <1>6. /\ KeysHold' /\ ProgramsOK' /\ Sent(s, ok) /\ OnlyMoves(a) /\ apc'[a] = p
        /\ \A c \in marred \cup {} : BrickRow(c) \in db'["BRICK_MASTER"] => c \in marred'
    <2>1. AdminGoto(a, p) /\ {} \in SUBSET BrickIds /\ Exec(a, s, ok)
      BY <1>2, <1>3
    <2>2. /\ form' \in [Admins -> Forms] /\ (\A o \in Admins \ {a} : form'[o] = form[o])
          /\ raced' \subseteq [nas : NAS, num : Indexes]
          /\ p \in {"flush", "idle", "insert_brick", "insert_backup", "undo", "delete_brick"}
      BY <1>1, <1>4 DEF ProgramsOK
    <2> QED
      BY <1>1, <1>4, <1>5, <2>1, <2>2, StatementTypes
  <1>7. /\ db'["BACKUP_MASTER"] = db["BACKUP_MASTER"] /\ db'["BRICK_MASTER"] = db["BRICK_MASTER"]
    BY <1>5, <1>6 DEF Sent
  <1>8. ~Halfway(a) /\ apc'[a] \notin {"insert_brick", "insert_backup"} /\ UNCHANGED raced
    BY <1>4, <1>6 DEF Halfway
  <1>9. \A c \in marred : BrickRow(c) \in db'["BRICK_MASTER"] => c \in marred'
    BY <1>6
  <1>10. PlaceInv' /\ IndexSharedOnlyByRace' /\ HalfInv'
    BY <1>1, <1>6, <1>7, <1>8, <1>9, PlacesQuiet
  <1> QED
    BY <1>6, <1>10, InvPartsNext

(* A statement of the dialog for the hosts.                                *)
LEMMA NasStep ==
    ASSUME AdminInv, NEW a \in Admins, NEW s, Elsewhere(s), NasStatement(a, s)
    PROVE  AdminInv'
  <1>1. KeysHold /\ ProgramsOK /\ PlaceInv /\ IndexSharedOnlyByRace /\ HalfInv
    BY InvParts
  <1>2. PICK ok \in BOOLEAN : Query(s, ok)
    BY DEF NasStatement
  <1>3. /\ UNCHANGED <<apc, form, leftover, listed, raced>> /\ apc[a] = "idle" /\ Marred({})
        /\ commands' \in 0..MaxCommands
    BY <1>1, Counted, NothingMarred DEF NasStatement, Pressed
  <1>4. Sent(s, ok)
    BY <1>1, <1>2, QuerySent DEF ProgramsOK
  <1>5. WellTyped(s) /\ (db' = db \/ db' = Executed(s)
            => /\ db'["BACKUP_MASTER"] = db["BACKUP_MASTER"]
                                                         /\ db'["BRICK_MASTER"] = db["BRICK_MASTER"])
    BY <1>1, ElsewhereQuiet DEF KeysHold
  <1>6. KeysHold'
    BY <1>1, <1>4, <1>5, SentKeeps
  <1>7. /\ db'["BACKUP_MASTER"] = db["BACKUP_MASTER"] /\ db'["BRICK_MASTER"] = db["BRICK_MASTER"]
        /\ faults' \in 0..MaxFaults
    BY <1>4, <1>5 DEF Sent
  <1>8. /\ \A c \in marred : BrickRow(c) \in db'["BRICK_MASTER"] => c \in marred'
        /\ marred' \subseteq BrickIds
    BY <1>1, <1>3, MarKeeps DEF ProgramsOK
  <1>9. ProgramsOK'
    BY <1>1, <1>3, <1>7, <1>8 DEF ProgramsOK
  <1>10. OnlyMoves(a) /\ ~Halfway(a) /\ apc'[a] \notin {"insert_brick", "insert_backup"}
    BY <1>3 DEF OnlyMoves, Halfway
  <1>11. PlaceInv' /\ IndexSharedOnlyByRace' /\ HalfInv'
    BY <1>1, <1>3, <1>7, <1>8, <1>10, PlacesQuiet
  <1> QED
    BY <1>6, <1>9, <1>11, InvPartsNext

(* A program is killed; the brick it was at may be left half done.         *)
LEMMA KilledStep == ASSUME AdminInv, NEW a \in Admins, Killed(a) PROVE AdminInv'
  <1>1. KeysHold /\ ProgramsOK /\ PlaceInv /\ IndexSharedOnlyByRace /\ HalfInv
    BY InvParts
  <1>2. PICK b \in BrickIds : b = form[a].brick
    BY <1>1 DEF ProgramsOK, Forms
  <1>3. /\ UNCHANGED <<db, form, commands, raced>> /\ Marred({b}) /\ AdminGoto(a, "flush")
        /\ leftover' = [leftover EXCEPT ![a] = FALSE]
        /\ listed' = [listed EXCEPT ![a] = NothingListed]
    BY <1>2, Marring DEF Killed
  <1>4. faults' \in 0..MaxFaults
    BY <1>1, Counted DEF Killed
  <1>5. /\ \A c \in marred \cup {b} : BrickRow(c) \in db'["BRICK_MASTER"] => c \in marred'
        /\ marred' \subseteq BrickIds
    BY <1>1, <1>3, MarKeeps DEF ProgramsOK
  <1>6. /\ apc'[a] = "flush" /\ OnlyMoves(a)
        /\ apc' \in [Admins -> {"flush", "idle", "insert_brick", "insert_backup", "undo",
                           "delete_brick"}]
    BY <1>1, <1>3, GotoKeeps DEF OnlyMoves
  <1>7. NothingListed \in Lists
    BY DEF NothingListed, Lists
  <1>8. ProgramsOK'
    BY <1>1, <1>3, <1>4, <1>5, <1>6, <1>7 DEF ProgramsOK, Lists
  <1>9. KeysHold'
    BY <1>1, <1>3, KeysSame
  <1>10. /\ form[a].brick \in marred' \/ BrickRow(form[a].brick) \notin db["BRICK_MASTER"]
         /\ apc'[a] \notin {"insert_brick", "insert_backup"}
         /\ \A c \in marred : BrickRow(c) \in db'["BRICK_MASTER"] => c \in marred'
    BY <1>2, <1>3, <1>5, <1>6
  <1>11. PlaceInv' /\ IndexSharedOnlyByRace' /\ HalfInv'
    BY <1>1, <1>3, <1>6, <1>10, PlacesQuiet
  <1> QED
    BY <1>8, <1>9, <1>11, InvPartsNext

-----------------------------------------------------------------------------
(* Every step of an administrator keeps the invariant.                     *)
LEMMA AdminKeeps == ASSUME AdminInv, AdminNext PROVE AdminInv'
  <1>1. PICK a \in Admins : AdminStep(a)
    BY DEF AdminNext
  <1>2. ASSUME NEW b \in BrickIds, NEW p \in Positions, OnAddDiskPos(a, b, p) PROVE AdminInv'
    <2>1. Elsewhere(Insert("BRICK_DISK_POS", [brick |-> b, pos |-> p]))
      BY TableNames DEF Elsewhere
    <2> QED
      BY <1>2, <2>1, OneStatementStep DEF OnAddDiskPos
  <1>3. ASSUME NEW row \in Rows["BRICK_DISK_POS"], OnDelDiskPos(a, row) PROVE AdminInv'
    <2>1. Elsewhere(Delete("BRICK_DISK_POS", row))
      BY TableNames DEF Elsewhere
    <2> QED
      BY <1>3, <2>1, OneStatementStep DEF OnDelDiskPos
  <1>4. CASE NASMaster(a)
    <2>1. ASSUME NEW n \in NAS, OnAddNas(a, n) \/ OnDelNas(a, n) PROVE AdminInv'
      <3>1. Elsewhere(Insert("NAS_MASTER", [nas |-> n]))
                /\ Elsewhere(Delete("NAS_MASTER", [nas |-> n]))
        BY TableNames DEF Elsewhere
      <3> QED
        BY <2>1, <3>1, NasStep DEF OnAddNas, OnDelNas
    <2>2. ASSUME NEW i \in Indexes, OnAddIndex(a, i) \/ OnDelIndex(a, i) PROVE AdminInv'
      <3>1. Elsewhere(Insert("BRICK_INDEX", [num |-> i]))
                /\ Elsewhere(Delete("BRICK_INDEX", [num |-> i]))
        BY TableNames DEF Elsewhere
      <3> QED
        BY <2>2, <3>1, NasStep DEF OnAddIndex, OnDelIndex
    <2> QED
      BY <1>4, <2>1, <2>2 DEF NASMaster
  <1>5. CASE BrickMaster(a)
    BY <1>2, <1>3, <1>5, FlushStep, FlushPosStep, AddStep, InsertBrickStep, InsertBackupStep,
       DropBrickStep, OnDelStep DEF BrickMaster
  <1> QED
    BY <1>1, <1>4, <1>5, KilledStep DEF AdminStep

(* Tables as an administrator may find them, and no program running.       *)
LEMMA AdminStarts == ASSUME DbInit, AdminInit PROVE AdminInv
  <1>1. PICK placed \in SUBSET Rows["BACKUP_MASTER"], positioned \in SUBSET Rows["BRICK_DISK_POS"] :
        /\ db = [t \in Tables |->
                   CASE t = "BRICK_MASTER"   -> {[brick |-> r.brick] : r \in placed}
                     [] t = "BACKUP_MASTER"  -> placed
                     [] t = "BRICK_DISK_POS" -> positioned
                     [] t = "BRICK_DISK"     -> {}
                     [] OTHER                -> Rows[t]]
        /\ \A r, s \in placed :
              r.brick = s.brick \/ (r.nas = s.nas /\ r.num = s.num) => r = s
        /\ \A r, s \in positioned : r.pos = s.pos => r = s
        /\ ForeignKeysHold(db)
    BY DEF DbInit
  <1>2. /\ DOMAIN db = Tables
        /\ db["BRICK_MASTER"] = {[brick |-> r.brick] : r \in placed}
        /\ db["BACKUP_MASTER"] = placed
        /\ db["BRICK_DISK_POS"] = positioned
        /\ db["BRICK_DISK"] = {}
        /\ db["NAS_MASTER"] = Rows["NAS_MASTER"]
        /\ db["BRICK_INDEX"] = Rows["BRICK_INDEX"]
    BY <1>1, TableNames
  <1>3. db["BRICK_MASTER"] \subseteq Rows["BRICK_MASTER"]
    BY <1>2, TableNames
  <1>4. DbTypeOK
    BY <1>2, <1>3, TableNames DEF DbTypeOK
  <1>5. KeysHold
    BY <1>1, <1>2, <1>4 DEF KeysHold, PositionKey
  <1>6. Forms # {}
    <2>1. PICK n \in NAS, i \in Indexes, b \in BrickIds : TRUE
      BY NamesAssumption
    <2>2. [nas |-> n, num |-> i, brick |-> b] \in Forms
      BY DEF Forms
    <2> QED
      BY <2>2
  <1>7. form \in [Admins -> Forms]
    <2>1. (CHOOSE f \in Forms : TRUE) \in Forms
      BY <1>6
    <2> QED
      BY <2>1 DEF AdminInit
  <1>8. NothingListed \in Lists
    BY DEF NothingListed, Lists
  <1>9. /\ apc = [a \in Admins |-> "flush"] /\ raced = {} /\ marred = {}
        /\ leftover \in [Admins -> BOOLEAN] /\ commands = 0 /\ faults = 0
        /\ listed \in [Admins -> Lists]
    BY <1>8 DEF AdminInit, marred
  <1>10. 0 \in 0..MaxCommands /\ 0 \in 0..MaxFaults
    BY BoundsAssumption
  <1>11. ProgramsOK
    BY <1>7, <1>9, <1>10 DEF ProgramsOK, Lists
  <1>12. PlaceInv
    BY <1>9 DEF PlaceInv, AddingTo
  <1>13. IndexSharedOnlyByRace
    BY <1>1, <1>2 DEF IndexSharedOnlyByRace, PlaceOf, Place
  <1>14. HalfInv
    <2> SUFFICES ASSUME NEW b \in BrickIds, BrickRow(b) \in db["BRICK_MASTER"]
                 PROVE  \E r \in db["BACKUP_MASTER"] : r.brick = b
      BY NoPlace DEF HalfInv
    <2> QED
      BY <1>2 DEF BrickRow
  <1> QED
    BY <1>5, <1>11, <1>12, <1>13, <1>14, InvParts

(* The programs of others, and steps of nothing, keep the invariant.       *)
LEMMA AdminStutter == ASSUME AdminInv, UNCHANGED configVars PROVE AdminInv'
  <1>1. UNCHANGED <<db, apc, form, leftover, listed, commands, faults, raced, failed, kept>>
    BY DEF configVars, adminVars, ghostVars
  <1> QED
    BY <1>1 DEF AdminInv, AdminTypeOK, DbTypeOK, ForeignKeysHold, PlaceInv, IndexSharedOnlyByRace,
                HalfInv, marred,
                PositionKey, AddingTo, Halfway, Selected

(* The tables and the programs that change them, for any number of         *)
(* programs, bricks, hosts, faults and commands.                           *)
THEOREM AdminInvariant == AdminSpec => []AdminInv
  <1>1. DbInit /\ AdminInit => AdminInv
    BY AdminStarts
  <1>2. AdminInv /\ [AdminNext]_configVars => AdminInv'
    BY AdminKeeps, AdminStutter
  <1> QED
    BY <1>1, <1>2, PTL DEF AdminSpec

(* An index of a host holds two bricks only where two programs were adding *)
(* to it at the same time.                                                 *)
THEOREM SharedOnlyByRace == AdminSpec => []IndexSharedOnlyByRace
  <1>1. AdminInv => IndexSharedOnlyByRace
    BY DEF AdminInv
  <1> QED
    BY AdminInvariant, <1>1, PTL

(* A brick without a place is the work of an operation that is under way,  *)
(* that a fault broke off, or that the server refused to end, because      *)
(* other rows depend on the brick.                                         *)
THEOREM HalfIsExplained == AdminSpec => []HalfBrickExplained
  <1>1. AdminInv => HalfBrickExplained
    BY DEF AdminInv, HalfInv, HalfBrickExplained, Halfway, marred
  <1> QED
    BY AdminInvariant, <1>1, PTL

(* Types, keys and foreign keys.                                           *)
THEOREM AdminTypeCorrect == AdminSpec => []AdminTypeOK
  BY AdminInvariant, PTL DEF AdminInv

-----------------------------------------------------------------------------
(* The configuration of the service (ConfigLoad).                          *)
Answers == Seq(BrickIds \cup Positions)

Distinct(s) == \A j, k \in DOMAIN s : s[j] = s[k] => j = k

(* The query object that reads the bricks and their positions.             *)
ObjectInv ==
    /\ DOMAIN odb = Queries
    /\ res \in [Queries -> Seq(Answers)]
    /\ results \in [Queries -> Seq(Answers)]
    /\ lpc = "connect" => opendbbase = <<FALSE>>
    /\ lpc \notin {"connect", "failed", "loaded"} => Sql!Live("query")
    /\ lpc \in {"store", "positions"} <=> res["query"] # Sql!NoAnswer
    /\ lpc \in {"connect", "select", "store"} => results["query"] = << >>

InLoop == {"row", "positions", "push", "jbod", "jbod_store", "return"}

(* The answer that the loop runs over, and how far it has come.            *)
RowsInv ==
    /\ lpc = "store" => res["query"][1] \in Seq(BrickIds) /\ Distinct(res["query"][1])
    /\ lpc \in InLoop =>
          /\ Len(results["query"]) > 0
          /\ BrickRows \in Seq(BrickIds) /\ Distinct(BrickRows)
          /\ r_idx \in 0..Len(BrickRows)
          /\ lpc \in {"positions", "push"} => r_idx < Len(BrickRows)

TaskInv ==
    /\ m_task \in Seq([brick : BrickIds, pos : Seq(Positions)])
    /\ lpc \in {"connect", "select", "store"} => m_task = << >> /\ r_idx = 0 /\ missed = {}
    /\ \A i, j \in DOMAIN m_task : m_task[i].brick = m_task[j].brick => i = j
    /\ lpc \in InLoop =>
          /\ \A i \in DOMAIN m_task :
                m_task[i].brick \notin missed /\ \E k \in 1..r_idx : m_task[i].brick = BrickRows[k]
          /\ \A b \in missed : \E k \in 1..r_idx : b = BrickRows[k]
          /\ \A k \in 1..r_idx :
                BrickRows[k] \in missed \/ \E i \in DOMAIN m_task : m_task[i].brick = BrickRows[k]

(* A position is still the brick's, or was taken from it meanwhile.        *)
StillOf(b, p) == p \in moved \/ [brick |-> b, pos |-> p] \in db["BRICK_DISK_POS"]

PositionsInv ==
    /\ lpc \in {"row", "positions", "push"} =>
          \A i \in DOMAIN m_task : \A k \in DOMAIN m_task[i].pos :
              StillOf(m_task[i].brick, m_task[i].pos[k])
    /\ lpc = "positions" =>
          /\ res["query"][1] \in Seq(Positions)
          /\ \A k \in DOMAIN res["query"][1] : StillOf(ThisBrick, res["query"][1][k])
    /\ lpc = "push" =>
          /\ Sql!LastStored("query") \in Seq(Positions)
          /\ \A k \in DOMAIN Sql!LastStored("query") : StillOf(ThisBrick, Sql!LastStored("query")[k])

ConfigInv == AdminInv /\ ObjectInv /\ RowsInv /\ TaskInv /\ PositionsInv /\ PositionGivenOnce

-----------------------------------------------------------------------------
(* An answer to a query for a finite set has each of its members once.     *)
LEMMA RowsDistinct ==
    ASSUME NEW S, IsFiniteSet(S), NEW s \in RowsOf(S)
    PROVE  s \in Seq(S) /\ Distinct(s)
  <1> DEFINE n == Cardinality(S)
  <1>1. n \in Nat
    BY FS_CardinalityType
  <1>2. s \in [1..n -> S] /\ \A x \in S : \E k \in DOMAIN s : s[k] = x
    BY DEF RowsOf
  <1>3. s \in Seq(S)
    BY <1>1, <1>2
  <1>4. DOMAIN s = 1..n
    BY <1>2
  <1>5. s \in Surjection(1..n, S)
    BY <1>2, <1>4 DEF Surjection
  <1>6. IsFiniteSet(1..n) /\ Cardinality(1..n) = Cardinality(S)
    BY <1>1, FS_Interval
  <1>7. s \in Injection(1..n, S)
    BY <1>5, <1>6, FS_SurjSameCardinalityImpliesInj
  <1>8. Distinct(s)
    BY <1>4, <1>7 DEF Injection, IsInjective, Distinct
  <1> QED
    BY <1>3, <1>8

(* What the query objects hold after each of their operations.             *)
LEMMA Destroyed ==
    ASSUME ObjectInv, Sql!Destroy(Queries)
    PROVE  /\ DOMAIN odb' = Queries
           /\ res' \in [Queries -> Seq(Answers)] /\ results' \in [Queries -> Seq(Answers)]
           /\ res'["query"] = << >> /\ results'["query"] = << >>
  <1>1. /\ odb' = [q \in Queries |-> 0]
        /\ res' = [q \in Queries |-> << >>]
        /\ results' = [q \in Queries |-> << >>]
    BY DEF Sql!Destroy, Sql!NoAnswer
  <1>2. << >> \in Seq(Answers) /\ "query" \in Queries
    BY DEF Queries
  <1> QED
    BY <1>1, <1>2

(* Execution sends one answer to the object, and no other object changes.  *)
LEMMA Executes ==
    ASSUME ObjectInv, NEW q \in Queries, NEW rows \in Answers, Sql!Execute(q, rows)
    PROVE  /\ UNCHANGED <<opendbbase, odb, results>>
           /\ res' \in [Queries -> Seq(Answers)]
           /\ \A p \in Queries \ {q} : res'[p] = res[p]
           /\ Sql!MaySend(q) => res'[q] = <<rows>>
  <1>1. UNCHANGED <<opendbbase, odb, results>>
    BY DEF Sql!Execute
  <1>2. res' = [res EXCEPT ![q] = IF Sql!MaySend(q) THEN <<rows>> ELSE res[q]]
    BY DEF Sql!Execute, Sql!Answer
  <1>3. <<rows>> \in Seq(Answers) /\ res \in [Queries -> Seq(Answers)]
    BY DEF ObjectInv
  <1> QED
    BY <1>1, <1>2, <1>3

(* What was sent is stored behind what the object had stored before.       *)
LEMMA Stores ==
    ASSUME ObjectInv, NEW q \in Queries, Sql!Store(q)
    PROVE  /\ UNCHANGED <<opendbbase, odb>>
           /\ res' \in [Queries -> Seq(Answers)] /\ results' \in [Queries -> Seq(Answers)]
           /\ res'[q] = << >>
           /\ results'[q] = Append(results[q], res[q][1])
           /\ res[q] # << >> /\ res[q][1] \in Answers
           /\ \A p \in Queries \ {q} : res'[p] = res[p] /\ results'[p] = results[p]
  <1>1. /\ UNCHANGED <<opendbbase, odb>>
        /\ res' = [res EXCEPT ![q] = << >>]
        /\ results' = [results EXCEPT ![q] = Append(results[q], res[q][1])]
        /\ res[q] # << >>
    BY DEF Sql!Store, Sql!NoAnswer
  <1>2. res \in [Queries -> Seq(Answers)] /\ results \in [Queries -> Seq(Answers)]
    BY DEF ObjectInv
  <1>3. res[q] \in Seq(Answers) /\ results[q] \in Seq(Answers)
    BY <1>2
  <1>4. res[q][1] \in Answers
    BY <1>1, <1>3
  <1>5. Append(results[q], res[q][1]) \in Seq(Answers) /\ << >> \in Seq(Answers)
    BY <1>3, <1>4
  <1> QED
    BY <1>1, <1>2, <1>4, <1>5

(* The object that is made becomes live; the other one stays so.           *)
LEMMA FirstConstructed ==
    ASSUME ObjectInv, opendbbase = <<FALSE>>, Sql!Construct("query")
    PROVE  UNCHANGED <<res, results>> /\ DOMAIN odb' = Queries /\ odb'["query"] = 1
  <1>1. Sql!FreeHandles = {1}
    <2>1. DOMAIN opendbbase = {1} /\ opendbbase[1] = FALSE
      OBVIOUS
    <2> QED
      BY <2>1, Zenon DEF Sql!FreeHandles
  <1>2. Sql!Max({1}) = 1
    BY DEF Sql!Max
  <1>3. "query" \in Queries /\ DOMAIN odb = Queries
    BY DEF Queries, ObjectInv
  <1>4. odb' = [odb EXCEPT !["query"] = 1]
    BY <1>1, <1>2 DEF Sql!Construct, Sql!GrabDb
  <1> QED
    BY <1>3, <1>4 DEF Sql!Construct

(* The second object is made beside the first.                             *)
LEMMA SecondConstructed ==
    ASSUME ObjectInv, Sql!Construct("query_jbod_info")
    PROVE  UNCHANGED <<res, results>> /\ DOMAIN odb' = Queries /\ odb'["query"] = odb["query"]
  <1>1. \E h : odb' = [odb EXCEPT !["query_jbod_info"] = h]
    BY DEF Sql!Construct, Sql!GrabDb
  <1>2. DOMAIN odb = Queries /\ "query" \in Queries
    BY DEF Queries, ObjectInv
  <1> QED
    BY <1>1, <1>2 DEF Sql!Construct

-----------------------------------------------------------------------------
(* The part of the invariant that is about the load.                       *)
LoadInv == ObjectInv /\ RowsInv /\ TaskInv /\ PositionsInv /\ PositionGivenOnce

(* An attempt that fails leaves nothing to read.                           *)
LEMMA LoadFailsStep ==
    ASSUME LoadInv, LoadFails, UNCHANGED <<r_idx, m_task, missed, moved>>
    PROVE  LoadInv'
  <1>1. lpc' = "failed"
    BY DEF LoadFails
  <1>2. ObjectInv'
    BY <1>1, Destroyed DEF LoadFails, LoadInv, ObjectInv, Sql!NoAnswer, Sql!Live
  <1>3. RowsInv'
    BY <1>1 DEF RowsInv, InLoop
  <1>4. TaskInv'
    BY <1>1 DEF LoadInv, TaskInv, InLoop
  <1>5. PositionsInv'
    BY <1>1 DEF PositionsInv
  <1>6. PositionGivenOnce'
    BY DEF LoadInv, PositionGivenOnce
  <1> QED
    BY <1>2, <1>3, <1>4, <1>5, <1>6 DEF LoadInv

(* The first query object is made.                                         *)
LEMMA ConnectStep == ASSUME LoadInv, Connect PROVE LoadInv'
  <1>1. CASE lpc' = "select" /\ Sql!Construct("query") /\ UNCHANGED loadFaults
    <2>1. lpc = "connect" /\ UNCHANGED <<r_idx, m_task, missed, moved>>
      BY DEF Connect
    <2>2. UNCHANGED <<res, results>> /\ DOMAIN odb' = Queries /\ odb'["query"] = 1
      BY <1>1, <2>1, FirstConstructed DEF LoadInv, ObjectInv
    <2>3. ObjectInv'
      BY <1>1, <2>1, <2>2 DEF LoadInv, ObjectInv, Sql!NoAnswer, Sql!Live
    <2>4. RowsInv'
      BY <1>1 DEF RowsInv, InLoop
    <2>5. TaskInv'
      BY <1>1, <2>1 DEF LoadInv, TaskInv, InLoop
    <2>6. PositionsInv'
      BY <1>1 DEF PositionsInv
    <2>7. PositionGivenOnce'
      BY <2>1 DEF LoadInv, PositionGivenOnce
    <2> QED
      BY <2>3, <2>4, <2>5, <2>6, <2>7 DEF LoadInv
  <1>2. CASE LoadFails
    BY <1>2, LoadFailsStep DEF Connect
  <1> QED
    BY <1>1, <1>2 DEF Connect

(* The bricks that the tables hold now are asked for, each once.           *)
LEMMA SelectBricksStep == ASSUME LoadInv, DbTypeOK, SelectBricks PROVE LoadInv'
  <1>1. ASSUME lpc' = "store", NEW rows \in RowsOf(ConfiguredBricks), Sql!Execute("query", rows)
        PROVE  LoadInv'
    <2>1. lpc = "select" /\ UNCHANGED <<r_idx, m_task, missed, moved>>
      BY DEF SelectBricks
    <2>2. ConfiguredBricks \subseteq BrickIds
      <3>1. db["BRICK_MASTER"] \subseteq [brick : BrickIds]
        BY TableNames DEF DbTypeOK
      <3> QED
        BY <3>1 DEF ConfiguredBricks
    <2>3. rows \in Seq(ConfiguredBricks) /\ Distinct(rows)
      BY <1>1, <2>2, NamesAssumption, FS_Subset, RowsDistinct
    <2>4. rows \in Seq(BrickIds) /\ rows \in Answers
      BY <2>2, <2>3 DEF Answers
    <2>5. "query" \in Queries /\ Sql!MaySend("query")
      BY <2>1 DEF LoadInv, ObjectInv, Queries, Sql!MaySend, Sql!NoAnswer
    <2>6. /\ UNCHANGED <<opendbbase, odb, results>> /\ res' \in [Queries -> Seq(Answers)]
          /\ res'["query"] = <<rows>>
      BY <1>1, <2>4, <2>5, Executes DEF LoadInv
    <2>7. ObjectInv'
      BY <1>1, <2>1, <2>6 DEF LoadInv, ObjectInv, Sql!NoAnswer, Sql!Live
    <2>8. RowsInv'
      BY <1>1, <2>3, <2>4, <2>6 DEF RowsInv, InLoop
    <2>9. TaskInv'
      BY <1>1, <2>1 DEF LoadInv, TaskInv, InLoop
    <2>10. PositionsInv'
      BY <1>1 DEF PositionsInv
    <2>11. PositionGivenOnce'
      BY <2>1 DEF LoadInv, PositionGivenOnce
    <2> QED
      BY <2>7, <2>8, <2>9, <2>10, <2>11 DEF LoadInv
  <1>2. CASE LoadFails
    BY <1>2, LoadFailsStep DEF SelectBricks
  <1> QED
    BY <1>1, <1>2 DEF SelectBricks

(* The answer that the loop runs over is kept.                             *)
LEMMA StoreBricksStep == ASSUME LoadInv, StoreBricks PROVE LoadInv'
  <1>1. lpc = "store" /\ lpc' = "row" /\ UNCHANGED <<r_idx, m_task, missed, moved>>
    BY DEF StoreBricks, LoadGoto
  <1>2. /\ UNCHANGED <<opendbbase, odb>>
        /\ res' \in [Queries -> Seq(Answers)] /\ results' \in [Queries -> Seq(Answers)]
        /\ res'["query"] = << >>
        /\ results'["query"] = Append(results["query"], res["query"][1])
    BY Stores DEF StoreBricks, LoadInv, Queries
  <1>3. results["query"] = << >>
    BY <1>1 DEF LoadInv, ObjectInv
  <1>4. results'["query"] = <<res["query"][1]>>
    BY <1>2, <1>3
  <1>5. ObjectInv'
    BY <1>1, <1>2 DEF LoadInv, ObjectInv, Sql!NoAnswer, Sql!Live
  <1>6. m_task = << >> /\ r_idx = 0 /\ missed = {}
    BY <1>1 DEF LoadInv, TaskInv
  <1>7. RowsInv'
    BY <1>1, <1>4, <1>6 DEF LoadInv, RowsInv, InLoop, BrickRows
  <1>8. TaskInv'
    BY <1>1, <1>6 DEF LoadInv, TaskInv, InLoop
  <1>9. PositionsInv'
    BY <1>1, <1>6 DEF PositionsInv
  <1>10. PositionGivenOnce'
    BY <1>1 DEF LoadInv, PositionGivenOnce
  <1> QED
    BY <1>5, <1>7, <1>8, <1>9, <1>10 DEF LoadInv

(* The positions of the next brick, or a brick that is passed over.        *)
LEMMA SelectPositionsStep ==
    ASSUME LoadInv, DbTypeOK, SelectPositions, UNCHANGED db PROVE LoadInv'
  <1> USE DEF ThisBrick
  <1>1. lpc = "row" /\ r_idx < Len(BrickRows) /\ UNCHANGED <<m_task, moved>>
    BY DEF SelectPositions
  <1>2. /\ BrickRows \in Seq(BrickIds) /\ Distinct(BrickRows) /\ r_idx \in 0..Len(BrickRows)
        /\ Len(results["query"]) > 0
    BY <1>1 DEF LoadInv, RowsInv, InLoop
  <1>3. r_idx + 1 \in 1..Len(BrickRows) /\ ThisBrick \in BrickIds
    BY <1>1, <1>2
  <1>4. PositionGivenOnce'
    BY <1>1 DEF LoadInv, PositionGivenOnce
  <1>5. "query" \in Queries
    BY DEF Queries
  <1>6. ASSUME lpc' = "positions", NEW rows \in RowsOf(AskedFor(ThisBrick)),
               Sql!Execute("query", rows), UNCHANGED <<r_idx, missed>>
        PROVE  LoadInv'
    <2>1. AskedFor(ThisBrick) \subseteq Positions
      <3>1. db["BRICK_DISK_POS"] \subseteq [brick : BrickIds, pos : Positions]
        BY TableNames DEF DbTypeOK
      <3> QED
        BY <3>1 DEF AskedFor, PositionIds, PositionsOf, Selected
    <2>2. rows \in Seq(AskedFor(ThisBrick))
      BY <1>6, <2>1, NamesAssumption, FS_Subset, RowsDistinct
    <2>3. rows \in Seq(Positions) /\ rows \in Answers
      BY <2>1, <2>2 DEF Answers
    <2>4. Sql!MaySend("query")
      BY <1>1 DEF LoadInv, ObjectInv, Sql!MaySend, Sql!NoAnswer
    <2>5. /\ UNCHANGED <<opendbbase, odb, results>> /\ res' \in [Queries -> Seq(Answers)]
          /\ res'["query"] = <<rows>>
      BY <1>5, <1>6, <2>3, <2>4, Executes DEF LoadInv
    <2>6. UNCHANGED BrickRows /\ UNCHANGED ThisBrick
      BY <1>6, <2>5 DEF BrickRows
    <2>7. ObjectInv'
      BY <1>1, <1>6, <2>5 DEF LoadInv, ObjectInv, Sql!NoAnswer, Sql!Live
    <2>8. RowsInv'
      BY <1>1, <1>2, <1>6, <2>5, <2>6 DEF RowsInv, InLoop
    <2>9. TaskInv'
      BY <1>1, <1>6, <2>6 DEF LoadInv, TaskInv, InLoop
    <2>10. \A k \in DOMAIN rows : [brick |-> ThisBrick, pos |-> rows[k]] \in db["BRICK_DISK_POS"]
      <3> SUFFICES ASSUME NEW k \in DOMAIN rows
                   PROVE  [brick |-> ThisBrick, pos |-> rows[k]] \in db["BRICK_DISK_POS"]
        OBVIOUS
      <3>1. rows[k] \in AskedFor(ThisBrick)
        BY <2>2
      <3>2. PICK row \in db["BRICK_DISK_POS"] : row.brick = ThisBrick /\ row.pos = rows[k]
        BY <3>1 DEF AskedFor, PositionIds, PositionsOf, Selected, Matches, BrickRow
      <3>3. row \in [brick : BrickIds, pos : Positions]
        BY <3>2, TableNames DEF DbTypeOK
      <3> QED
        BY <3>2, <3>3
    <2>11. PositionsInv'
      <3>1. \A i \in DOMAIN m_task : \A k \in DOMAIN m_task[i].pos :
                StillOf(m_task[i].brick, m_task[i].pos[k])
        BY <1>1 DEF LoadInv, PositionsInv
      <3>2. \A i \in DOMAIN m_task' : \A k \in DOMAIN m_task'[i].pos :
                StillOf(m_task[i].brick, m_task[i].pos[k])'
        BY <1>1, <3>1 DEF StillOf
      <3>3. res'["query"][1] = rows
        BY <2>5
      <3>4. \A k \in DOMAIN res'["query"][1] : StillOf(ThisBrick, res["query"][1][k])'
        BY <2>6, <2>10, <3>3 DEF StillOf
      <3> QED
        BY <1>6, <2>3, <3>2, <3>3, <3>4 DEF PositionsInv
    <2> QED
      BY <1>4, <2>7, <2>8, <2>9, <2>11 DEF LoadInv
  <1>7. ASSUME Sql!ExecuteFails("query"), missed' = missed \cup {ThisBrick}, r_idx' = r_idx + 1,
               UNCHANGED lpc
        PROVE  LoadInv'
    <2>1. UNCHANGED <<opendbbase, odb, res, results>>
      BY <1>7 DEF Sql!ExecuteFails, Sql!sqlVars
    <2>2. UNCHANGED BrickRows
      BY <2>1 DEF BrickRows
    <2>3. ObjectInv'
      BY <1>7, <2>1 DEF LoadInv, ObjectInv, Sql!NoAnswer, Sql!Live
    <2>4. RowsInv'
      BY <1>1, <1>2, <1>3, <1>7, <2>1, <2>2 DEF RowsInv, InLoop
    <2>5. TaskInv'
      <3>1. \A i \in DOMAIN m_task :
                m_task[i].brick \notin missed /\ \E k \in 1..r_idx : m_task[i].brick = BrickRows[k]
        BY <1>1 DEF LoadInv, TaskInv, InLoop
      <3>2. \A k \in 1..r_idx : k \in DOMAIN BrickRows /\ k # r_idx + 1 /\ k \in 1..(r_idx + 1)
        BY <1>1, <1>2
      <3>3. \A k \in 1..r_idx : BrickRows[k] # ThisBrick
        BY <1>2, <1>3, <3>2 DEF Distinct
      <3>4. \A i \in DOMAIN m_task :
                m_task[i].brick \notin missed'
                    /\ \E k \in 1..r_idx' : m_task[i].brick = BrickRows[k]
        BY <1>7, <3>1, <3>2, <3>3
      <3>5. \A b \in missed' : \E k \in 1..r_idx' : b = BrickRows[k]
        <4>1. \A b \in missed : \E k \in 1..r_idx : b = BrickRows[k]
          BY <1>1 DEF LoadInv, TaskInv, InLoop
        <4>2. r_idx + 1 \in 1..r_idx'
          BY <1>2, <1>7
        <4> QED
          BY <1>7, <3>2, <4>1, <4>2
      <3>6. \A k \in 1..r_idx' :
                BrickRows[k] \in missed' \/ \E i \in DOMAIN m_task : m_task[i].brick = BrickRows[k]
        <4>1. \A k \in 1..r_idx' : k \in 1..r_idx \/ k = r_idx + 1
          BY <1>2, <1>7
        <4>2. \A k \in 1..r_idx :
                BrickRows[k] \in missed \/ \E i \in DOMAIN m_task : m_task[i].brick = BrickRows[k]
          BY <1>1 DEF LoadInv, TaskInv, InLoop
        <4> QED
          BY <1>7, <4>1, <4>2
      <3>7. /\ m_task' \in Seq([brick : BrickIds, pos : Seq(Positions)])
            /\ \A i, j \in DOMAIN m_task' : m_task'[i].brick = m_task'[j].brick => i = j
        BY <1>1 DEF LoadInv, TaskInv
      <3> QED
        BY <1>1, <1>7, <2>2, <3>4, <3>5, <3>6, <3>7 DEF TaskInv
    <2>6. PositionsInv'
      BY <1>1, <1>7 DEF LoadInv, PositionsInv, StillOf
    <2> QED
      BY <1>4, <2>3, <2>4, <2>5, <2>6 DEF LoadInv
  <1> QED
    BY <1>6, <1>7 DEF SelectPositions

(* Steps that keep the bricks loaded, the loop's answer and the tables,    *)
(* and are not about a brick's positions.                                  *)
LEMMA LoopKept ==
    ASSUME LoadInv, lpc \in InLoop, lpc' \in InLoop, UNCHANGED <<r_idx, m_task, missed, moved, db>>,
           Len(results'["query"]) > 0, UNCHANGED BrickRows,
           lpc' \in {"row", "positions", "push"} => lpc \in {"row", "positions", "push"},
           lpc' \in {"positions", "push"} => lpc \in {"positions", "push"}
    PROVE  /\ RowsInv' /\ TaskInv' /\ PositionGivenOnce'
           /\ lpc' \in {"row", "positions", "push"} =>
                 \A i \in DOMAIN m_task' : \A k \in DOMAIN m_task'[i].pos :
                     StillOf(m_task[i].brick, m_task[i].pos[k])'
  <1>1. lpc # "store" /\ lpc' # "store" /\ lpc' \notin {"connect", "select", "store"}
    BY DEF InLoop
  <1>2. RowsInv'
    BY <1>1 DEF LoadInv, RowsInv
  <1>3. TaskInv'
    BY <1>1 DEF LoadInv, TaskInv
  <1>4. PositionGivenOnce'
    BY DEF LoadInv, PositionGivenOnce
  <1>5. lpc' \in {"row", "positions", "push"} =>
                 \A i \in DOMAIN m_task' : \A k \in DOMAIN m_task'[i].pos :
                     StillOf(m_task[i].brick, m_task[i].pos[k])'
    BY DEF LoadInv, PositionsInv, StillOf
  <1> QED
    BY <1>2, <1>3, <1>4, <1>5

(* The positions of a brick are behind the answer that the loop runs over. *)
LEMMA StorePositionsStep == ASSUME LoadInv, StorePositions, UNCHANGED db PROVE LoadInv'
  <1>1. lpc = "positions" /\ lpc' = "push" /\ UNCHANGED <<r_idx, m_task, missed, moved>>
    BY DEF StorePositions, LoadGoto
  <1>2. /\ UNCHANGED <<opendbbase, odb>>
        /\ res' \in [Queries -> Seq(Answers)] /\ results' \in [Queries -> Seq(Answers)]
        /\ res'["query"] = << >> /\ res["query"][1] \in Answers
        /\ results'["query"] = Append(results["query"], res["query"][1])
    BY Stores DEF StorePositions, LoadInv, Queries
  <1>3. Len(results["query"]) > 0 /\ results["query"] \in Seq(Answers)
    BY <1>1 DEF LoadInv, RowsInv, InLoop, ObjectInv, Queries
  <1>4. /\ results'["query"][1] = results["query"][1]
        /\ Len(results'["query"]) = Len(results["query"]) + 1
        /\ results'["query"][Len(results'["query"])] = res["query"][1]
    BY <1>2, <1>3
  <1>5. ObjectInv'
    BY <1>1, <1>2 DEF LoadInv, ObjectInv, Sql!NoAnswer, Sql!Live
  <1>6. UNCHANGED BrickRows /\ Len(results'["query"]) > 0
    BY <1>3, <1>4 DEF BrickRows
  <1>7. /\ RowsInv' /\ TaskInv' /\ PositionGivenOnce'
        /\ \A i \in DOMAIN m_task' : \A k \in DOMAIN m_task'[i].pos :
                     StillOf(m_task[i].brick, m_task[i].pos[k])'
    BY <1>1, <1>6, LoopKept DEF InLoop
  <1>8. Sql!LastStored("query")' = res["query"][1]
    BY <1>4 DEF Sql!LastStored
  <1>9. res["query"][1] \in Seq(Positions) /\ UNCHANGED ThisBrick
    BY <1>1, <1>6 DEF LoadInv, PositionsInv, ThisBrick
  <1>10. \A k \in DOMAIN res["query"][1] : StillOf(ThisBrick, res["query"][1][k])
    BY <1>1 DEF LoadInv, PositionsInv
  <1>11. PositionsInv'
    <2>1. \A k \in DOMAIN Sql!LastStored("query")' :
              StillOf(ThisBrick, Sql!LastStored("query")[k])'
      BY <1>1, <1>8, <1>9, <1>10 DEF StillOf
    <2> QED
      BY <1>1, <1>7, <1>8, <1>9, <2>1 DEF PositionsInv
  <1> QED
    BY <1>5, <1>7, <1>11 DEF LoadInv

(* A brick joins the ones loaded: it is another brick than each of them,   *)
(* and a position of two bricks was taken from the first one meanwhile.    *)
LEMMA PushTaskStep == ASSUME LoadInv, KeysHold, PushTask, UNCHANGED db PROVE LoadInv'
  <1> DEFINE last == Sql!LastStored("query")
             task == [brick |-> ThisBrick, pos |-> last]
             n == Len(m_task) + 1
  <1>1. /\ lpc = "push" /\ lpc' = "row" /\ UNCHANGED <<missed, moved>>
        /\ UNCHANGED <<opendbbase, odb, res, results>>
        /\ r_idx' = r_idx + 1 /\ m_task' = Append(m_task, task)
    BY DEF PushTask, LoadGoto, objectVars
  <1>2. /\ BrickRows \in Seq(BrickIds) /\ Distinct(BrickRows) /\ r_idx \in 0..Len(BrickRows)
        /\ Len(results["query"]) > 0 /\ r_idx < Len(BrickRows)
    BY <1>1 DEF LoadInv, RowsInv, InLoop
  <1>3. r_idx + 1 \in 1..Len(BrickRows) /\ ThisBrick \in BrickIds
    BY <1>1, <1>2 DEF ThisBrick
  <1>4. last \in Seq(Positions) /\ \A k \in DOMAIN last : StillOf(ThisBrick, last[k])
    BY <1>1 DEF LoadInv, PositionsInv
  <1>5. m_task \in Seq([brick : BrickIds, pos : Seq(Positions)])
    BY DEF LoadInv, TaskInv
  <1>6. task \in [brick : BrickIds, pos : Seq(Positions)]
    BY <1>3, <1>4
  <1> HIDE DEF task
  <1>7. /\ m_task' \in Seq([brick : BrickIds, pos : Seq(Positions)])
        /\ DOMAIN m_task' = 1..n /\ DOMAIN m_task = 1..(n - 1) /\ n \in Nat /\ n > 0
        /\ m_task'[n] = task /\ \A i \in DOMAIN m_task : m_task'[i] = m_task[i]
    BY <1>1, <1>5, <1>6
  <1>8. \A i \in DOMAIN m_task' : i = n \/ (i \in DOMAIN m_task /\ i # n)
    BY <1>7
  <1>9. task.brick = ThisBrick /\ task.pos = last
    BY DEF task
  <1>10. UNCHANGED BrickRows
    BY <1>1 DEF BrickRows
  <1>11. /\ r_idx' \in 0..Len(BrickRows) /\ r_idx + 1 \in 1..r_idx'
         /\ \A k \in 1..r_idx : k \in DOMAIN BrickRows /\ k # r_idx + 1 /\ k \in 1..r_idx'
         /\ \A k \in 1..r_idx' : k = r_idx + 1 \/ k \in 1..r_idx
    BY <1>1, <1>2, <1>3
  <1>12. \A k \in 1..r_idx : BrickRows[k] # ThisBrick
    BY <1>2, <1>3, <1>11 DEF Distinct, ThisBrick
  <1>13. /\ \A i \in DOMAIN m_task :
                m_task[i].brick \notin missed /\ \E k \in 1..r_idx : m_task[i].brick = BrickRows[k]
         /\ \A b \in missed : \E k \in 1..r_idx : b = BrickRows[k]
         /\ \A k \in 1..r_idx :
                BrickRows[k] \in missed \/ \E i \in DOMAIN m_task : m_task[i].brick = BrickRows[k]
    BY <1>1 DEF LoadInv, TaskInv, InLoop
  <1>14. \A i \in DOMAIN m_task : m_task[i].brick # ThisBrick
    BY <1>12, <1>13
  <1>15. ThisBrick \notin missed
    BY <1>12, <1>13
  <1>16. ObjectInv'
    BY <1>1 DEF LoadInv, ObjectInv, Sql!NoAnswer, Sql!Live
  <1>17. RowsInv'
    BY <1>1, <1>2, <1>10, <1>11 DEF RowsInv, InLoop
  <1>18. TaskInv'
    <2>1. \A i, j \in DOMAIN m_task' : m_task'[i].brick = m_task'[j].brick => i = j
      <3>1. \A i, j \in DOMAIN m_task : m_task[i].brick = m_task[j].brick => i = j
        BY DEF LoadInv, TaskInv
      <3> QED
        BY <1>7, <1>8, <1>9, <1>14, <3>1
    <2>2. \A i \in DOMAIN m_task' :
              m_task'[i].brick \notin missed /\ \E k \in 1..r_idx' : m_task'[i].brick = BrickRows[k]
      <3>1. m_task'[n].brick \notin missed /\ m_task'[n].brick = BrickRows[r_idx + 1]
        BY <1>7, <1>9, <1>15 DEF ThisBrick
      <3>2. ASSUME NEW i \in DOMAIN m_task
            PROVE  /\ m_task'[i].brick \notin missed
                   /\ \E k \in 1..r_idx' : m_task'[i].brick = BrickRows[k]
        <4>1. m_task'[i].brick = m_task[i].brick
          BY <1>7
        <4> QED
          BY <1>11, <1>13, <4>1
      <3> QED
        BY <1>8, <1>11, <3>1, <3>2
    <2>3. \A b \in missed : \E k \in 1..r_idx' : b = BrickRows[k]
      BY <1>11, <1>13
    <2>4. \A k \in 1..r_idx' :
              BrickRows[k] \in missed \/ \E i \in DOMAIN m_task' : m_task'[i].brick = BrickRows[k]
      <3>1. n \in DOMAIN m_task' /\ m_task'[n].brick = BrickRows[r_idx + 1]
        BY <1>7, <1>9 DEF ThisBrick
      <3>2. \A i \in DOMAIN m_task : i \in DOMAIN m_task' /\ m_task'[i].brick = m_task[i].brick
        BY <1>7
      <3> QED
        BY <1>11, <1>13, <3>1, <3>2
    <2> QED
      BY <1>1, <1>7, <1>10, <2>1, <2>2, <2>3, <2>4 DEF TaskInv
  <1>19. \A i \in DOMAIN m_task' : \A k \in DOMAIN m_task'[i].pos :
             StillOf(m_task'[i].brick, m_task'[i].pos[k])
    <2>1. \A i \in DOMAIN m_task : \A k \in DOMAIN m_task[i].pos :
             StillOf(m_task[i].brick, m_task[i].pos[k])
      BY <1>1 DEF LoadInv, PositionsInv
    <2> QED
      BY <1>4, <1>7, <1>8, <1>9, <2>1
  <1>20. PositionsInv'
    <2>1. \A i \in DOMAIN m_task' : \A k \in DOMAIN m_task'[i].pos :
             StillOf(m_task[i].brick, m_task[i].pos[k])'
      BY <1>1, <1>19 DEF StillOf
    <2> QED
      BY <1>1, <2>1 DEF PositionsInv
  <1>21. PositionGivenOnce'
    <2> SUFFICES ASSUME NEW i \in DOMAIN m_task', NEW j \in DOMAIN m_task',
                        NEW k \in DOMAIN m_task'[i].pos, NEW l \in DOMAIN m_task'[j].pos,
                        i # j, m_task'[i].pos[k] = m_task'[j].pos[l],
                        m_task'[i].pos[k] \notin moved
                 PROVE  FALSE
      BY <1>1 DEF PositionGivenOnce
    <2>1. m_task'[i].brick = m_task'[j].brick
      <3>1. /\ [brick |-> m_task'[i].brick, pos |-> m_task'[i].pos[k]] \in db["BRICK_DISK_POS"]
            /\ [brick |-> m_task'[j].brick, pos |-> m_task'[j].pos[l]] \in db["BRICK_DISK_POS"]
        BY <1>19 DEF StillOf
      <3>2. [brick |-> m_task'[i].brick, pos |-> m_task'[i].pos[k]]
                = [brick |-> m_task'[j].brick, pos |-> m_task'[j].pos[l]]
        BY <3>1 DEF KeysHold, PositionKey
      <3> QED
        BY <3>2
    <2> QED
      BY <1>18, <2>1 DEF TaskInv
  <1> QED
    BY <1>16, <1>17, <1>18, <1>20, <1>21 DEF LoadInv

(* The enclosures are read with a query object of their own.               *)
LEMMA OpenJbodStep == ASSUME LoadInv, OpenJbod, UNCHANGED db PROVE LoadInv'
  <1>1. lpc = "row" /\ lpc' = "jbod" /\ UNCHANGED <<r_idx, m_task, missed, moved>>
    BY DEF OpenJbod, LoadGoto
  <1>2. UNCHANGED <<res, results>> /\ DOMAIN odb' = Queries /\ odb'["query"] = odb["query"]
    BY SecondConstructed DEF OpenJbod, LoadInv
  <1>3. ObjectInv'
    BY <1>1, <1>2 DEF LoadInv, ObjectInv, Sql!NoAnswer, Sql!Live
  <1>4. UNCHANGED BrickRows /\ Len(results'["query"]) > 0
    BY <1>1, <1>2 DEF LoadInv, RowsInv, InLoop, BrickRows
  <1>5. RowsInv' /\ TaskInv' /\ PositionGivenOnce'
    BY <1>1, <1>4, LoopKept DEF InLoop
  <1>6. PositionsInv'
    BY <1>1 DEF PositionsInv
  <1> QED
    BY <1>3, <1>5, <1>6 DEF LoadInv

(* The enclosures are asked for.                                           *)
LEMMA SelectJbodStep == ASSUME LoadInv, SelectJbod, UNCHANGED db PROVE LoadInv'
  <1>1. lpc = "jbod" /\ UNCHANGED <<r_idx, m_task, missed, moved>>
    BY DEF SelectJbod
  <1>2. CASE lpc' = "jbod_store" /\ Sql!Execute("query_jbod_info", << >>)
    <2>1. "query_jbod_info" \in Queries /\ << >> \in Answers
      BY DEF Queries, Answers
    <2>2. /\ UNCHANGED <<opendbbase, odb, results>> /\ res' \in [Queries -> Seq(Answers)]
          /\ res'["query"] = res["query"]
      BY <1>2, <2>1, Executes DEF LoadInv, Queries
    <2>3. ObjectInv'
      BY <1>1, <1>2, <2>2 DEF LoadInv, ObjectInv, Sql!NoAnswer, Sql!Live
    <2>4. UNCHANGED BrickRows /\ Len(results'["query"]) > 0
      BY <1>1, <2>2 DEF LoadInv, RowsInv, InLoop, BrickRows
    <2>5. RowsInv' /\ TaskInv' /\ PositionGivenOnce'
      BY <1>1, <1>2, <2>4, LoopKept DEF InLoop
    <2>6. PositionsInv'
      BY <1>2 DEF PositionsInv
    <2> QED
      BY <2>3, <2>5, <2>6 DEF LoadInv
  <1>3. CASE LoadFails
    BY <1>1, <1>3, LoadFailsStep
  <1> QED
    BY <1>2, <1>3 DEF SelectJbod

(* Their answer is stored.                                                 *)
LEMMA StoreJbodStep == ASSUME LoadInv, StoreJbod, UNCHANGED db PROVE LoadInv'
  <1>1. lpc = "jbod_store" /\ lpc' = "return" /\ UNCHANGED <<r_idx, m_task, missed, moved>>
    BY DEF StoreJbod, LoadGoto
  <1>2. /\ UNCHANGED <<opendbbase, odb>>
        /\ res' \in [Queries -> Seq(Answers)] /\ results' \in [Queries -> Seq(Answers)]
        /\ res'["query"] = res["query"] /\ results'["query"] = results["query"]
    BY Stores DEF StoreJbod, LoadInv, Queries
  <1>3. ObjectInv'
    BY <1>1, <1>2 DEF LoadInv, ObjectInv, Sql!NoAnswer, Sql!Live
  <1>4. UNCHANGED BrickRows /\ Len(results'["query"]) > 0
    BY <1>1, <1>2 DEF LoadInv, RowsInv, InLoop, BrickRows
  <1>5. RowsInv' /\ TaskInv' /\ PositionGivenOnce'
    BY <1>1, <1>4, LoopKept DEF InLoop
  <1>6. PositionsInv'
    BY <1>1 DEF PositionsInv
  <1> QED
    BY <1>3, <1>5, <1>6 DEF LoadInv

(* The load is over.                                                       *)
LEMMA ReturnStep == ASSUME LoadInv, Return PROVE LoadInv'
  <1>1. lpc' = "loaded" /\ UNCHANGED <<r_idx, m_task, missed, moved>>
    BY DEF Return, LoadGoto
  <1>2. ObjectInv'
    BY <1>1, Destroyed DEF Return, LoadInv, ObjectInv, Sql!NoAnswer, Sql!Live
  <1>3. RowsInv' /\ PositionsInv'
    BY <1>1 DEF RowsInv, PositionsInv, InLoop
  <1>4. TaskInv'
    BY <1>1 DEF LoadInv, TaskInv, InLoop
  <1>5. PositionGivenOnce'
    BY <1>1 DEF LoadInv, PositionGivenOnce
  <1> QED
    BY <1>2, <1>3, <1>4, <1>5 DEF LoadInv

-----------------------------------------------------------------------------
(* A disk that is logged for a brick changes no table that the load reads. *)
LEMMA LogDiskStep ==
    ASSUME ConfigInv, NEW k \in DOMAIN m_task, NEW d \in Disks, LogDisk(k, d)
    PROVE  ConfigInv'
  <1> DEFINE s == Insert("BRICK_DISK", [brick |-> m_task[k].brick, disk |-> d])
  <1>1. /\ Accepted(s) /\ db' = Executed(s) /\ UNCHANGED <<adminVars, loadVars>>
        /\ lpc = "loaded"
    BY DEF LogDisk
  <1>2. KeysHold /\ ProgramsOK /\ PlaceInv /\ IndexSharedOnlyByRace /\ HalfInv
    BY InvParts DEF ConfigInv
  <1>3. m_task \in Seq([brick : BrickIds, pos : Seq(Positions)])
    BY DEF ConfigInv, TaskInv
  <1>4. m_task[k].brick \in BrickIds
    <2>1. \A i \in 1..Len(m_task) : m_task[i] \in [brick : BrickIds, pos : Seq(Positions)]
      BY <1>3, ElementOfSeq
    <2>2. k \in 1..Len(m_task)
      BY <1>3
    <2> QED
      BY <2>1, <2>2
  <1>5. /\ "BRICK_DISK" \in Tables
        /\ [brick |-> m_task[k].brick, disk |-> d] \in Rows["BRICK_DISK"]
    BY <1>4, TableNames DEF Rows
  <1>6. WellTyped(s)
    BY <1>5 DEF WellTyped
  <1>7. KeysHold'
    BY <1>1, <1>2, <1>6, AcceptedKeeps
  <1>8. /\ db'["BACKUP_MASTER"] = db["BACKUP_MASTER"]
        /\ db'["BRICK_MASTER"] = db["BRICK_MASTER"]
        /\ db'["BRICK_DISK_POS"] = db["BRICK_DISK_POS"]
    BY <1>1, <1>2, <1>5, Inserts, TableNames DEF KeysHold
  <1>9. UNCHANGED <<apc, form, leftover, listed, commands, faults, raced, marred>>
    BY <1>1 DEF adminVars, ghostVars, marred
  <1>10. ProgramsOK'
    BY <1>2, <1>9 DEF ProgramsOK
  <1>11. PlaceInv' /\ IndexSharedOnlyByRace'
    BY <1>2, <1>8, <1>9 DEF PlaceInv, IndexSharedOnlyByRace, AddingTo
  <1>12. HalfInv'
    BY <1>2, <1>8, <1>9 DEF HalfInv, Halfway, Selected
  <1>13. AdminInv'
    BY <1>7, <1>10, <1>11, <1>12, InvPartsNext
  <1>14. UNCHANGED <<opendbbase, odb, res, results, lpc, r_idx, m_task, missed, moved>>
    BY <1>1 DEF loadVars, objectVars
  <1>15. ObjectInv' /\ RowsInv' /\ TaskInv'
    <2>1. ObjectInv'
      BY <1>14 DEF ConfigInv, ObjectInv, Sql!Live, Sql!NoAnswer
    <2>2. RowsInv'
      BY <1>14 DEF ConfigInv, RowsInv, BrickRows
    <2>3. TaskInv'
      BY <1>14 DEF ConfigInv, TaskInv, BrickRows
    <2> QED
      BY <2>1, <2>2, <2>3
  <1>16. PositionsInv'
    BY <1>1, <1>14 DEF PositionsInv
  <1>17. PositionGivenOnce'
    BY <1>14 DEF ConfigInv, PositionGivenOnce
  <1> QED
    BY <1>13, <1>15, <1>16, <1>17 DEF ConfigInv

(* A position that an administrator takes from a brick meanwhile counts as *)
(* moved, so that what was loaded stays explained.                         *)
LEMMA AdminBesideLoad ==
    ASSUME ConfigInv, AdminNext,
           moved' = moved \cup {p \in TakenPositions : lpc \in {"row", "positions", "push"}},
           UNCHANGED <<objectVars, lpc, r_idx, m_task, loadFaults, missed>>
    PROVE  ConfigInv'
  <1>1. AdminInv'
    BY AdminKeeps DEF ConfigInv
  <1>2. UNCHANGED <<opendbbase, odb, res, results, lpc, r_idx, m_task, missed>>
    BY DEF objectVars
  <1>3. ObjectInv' /\ RowsInv' /\ TaskInv'
    <2>1. ObjectInv'
      BY <1>2 DEF ConfigInv, ObjectInv, Sql!Live, Sql!NoAnswer
    <2>2. RowsInv'
      BY <1>2 DEF ConfigInv, RowsInv, BrickRows
    <2>3. TaskInv'
      BY <1>2 DEF ConfigInv, TaskInv, BrickRows
    <2> QED
      BY <2>1, <2>2, <2>3
  <1>4. PositionGivenOnce'
    BY <1>2 DEF ConfigInv, PositionGivenOnce
  <1>5. ASSUME lpc \in {"row", "positions", "push"}, NEW b, NEW p, StillOf(b, p)
        PROVE  p \in moved' \/ [brick |-> b, pos |-> p] \in db'["BRICK_DISK_POS"]
    <2>1. CASE p \in moved
      BY <2>1
    <2>2. CASE [brick |-> b, pos |-> p] \in db["BRICK_DISK_POS"] \ db'["BRICK_DISK_POS"]
      <3>1. p \in TakenPositions
        BY <2>2 DEF TakenPositions
      <3> QED
        BY <1>5, <3>1
    <2> QED
      BY <1>5, <2>1, <2>2 DEF StillOf
  <1>6. PositionsInv'
    <2>1. ASSUME lpc \in {"row", "positions", "push"}
          PROVE  \A i \in DOMAIN m_task : \A k \in DOMAIN m_task[i].pos :
                     \/ m_task[i].pos[k] \in moved'
                     \/ [brick |-> m_task[i].brick, pos |-> m_task[i].pos[k]]
                           \in db'["BRICK_DISK_POS"]
      BY <1>5, <2>1 DEF ConfigInv, PositionsInv
    <2>2. ASSUME lpc = "positions"
          PROVE  /\ res["query"][1] \in Seq(Positions)
                 /\ \A k \in DOMAIN res["query"][1] :
                        \/ res["query"][1][k] \in moved'
                        \/ [brick |-> ThisBrick, pos |-> res["query"][1][k]]
                              \in db'["BRICK_DISK_POS"]
      BY <1>5, <2>2 DEF ConfigInv, PositionsInv
    <2>3. ASSUME lpc = "push"
          PROVE  /\ Sql!LastStored("query") \in Seq(Positions)
                 /\ \A k \in DOMAIN Sql!LastStored("query") :
                        \/ Sql!LastStored("query")[k] \in moved'
                        \/ [brick |-> ThisBrick, pos |-> Sql!LastStored("query")[k]]
                              \in db'["BRICK_DISK_POS"]
      BY <1>5, <2>3 DEF ConfigInv, PositionsInv
    <2>4. UNCHANGED ThisBrick /\ UNCHANGED Sql!LastStored("query")
      BY <1>2 DEF ThisBrick, BrickRows, Sql!LastStored
    <2> QED
      BY <1>2, <2>1, <2>2, <2>3, <2>4 DEF PositionsInv, StillOf
  <1> QED
    BY <1>1, <1>3, <1>4, <1>6 DEF ConfigInv

(* Every step of the load, of a worker and of an administration program.   *)
LEMMA LoadKeeps == ASSUME ConfigInv, LoadNext PROVE ConfigInv'
  <1>1. CASE LoadStep /\ UNCHANGED configVars
    <2>1. LoadInv /\ UNCHANGED db /\ DbTypeOK /\ KeysHold
      BY <1>1, InvParts DEF ConfigInv, LoadInv, configVars, KeysHold
    <2>2. AdminInv'
      BY <1>1, AdminStutter DEF ConfigInv
    <2>3. LoadInv'
      <3>1. CASE Connect
        BY <2>1, <3>1, ConnectStep
      <3>2. CASE SelectBricks
        BY <2>1, <3>2, SelectBricksStep
      <3>3. CASE StoreBricks
        BY <2>1, <3>3, StoreBricksStep
      <3>4. CASE SelectPositions
        BY <2>1, <3>4, SelectPositionsStep
      <3>5. CASE StorePositions
        BY <2>1, <3>5, StorePositionsStep
      <3>6. CASE PushTask
        BY <2>1, <3>6, PushTaskStep
      <3>7. CASE OpenJbod
        BY <2>1, <3>7, OpenJbodStep
      <3>8. CASE SelectJbod
        BY <2>1, <3>8, SelectJbodStep
      <3>9. CASE StoreJbod
        BY <2>1, <3>9, StoreJbodStep
      <3>10. CASE Return
        BY <2>1, <3>10, ReturnStep
      <3> QED
        BY <1>1, <3>1, <3>2, <3>3, <3>4, <3>5, <3>6, <3>7, <3>8, <3>9, <3>10 DEF LoadStep
    <2> QED
      BY <2>2, <2>3 DEF ConfigInv, LoadInv
  <1>2. CASE \E k \in DOMAIN m_task, d \in Disks : LogDisk(k, d)
    BY <1>2, LogDiskStep
  <1>3. CASE /\ AdminNext
             /\ moved' = moved \cup {p \in TakenPositions : lpc \in {"row", "positions", "push"}}
             /\ UNCHANGED <<objectVars, lpc, r_idx, m_task, loadFaults, missed>>
    BY <1>3, AdminBesideLoad
  <1> QED
    BY <1>1, <1>2, <1>3 DEF LoadNext

(* The service starts with no task and no object that owns anything.       *)
LEMMA LoadStarts == ASSUME DbInit, AdminInit, LoadInit PROVE ConfigInv
  <1>1. AdminInv
    BY AdminStarts
  <1>2. /\ lpc = "connect" /\ r_idx = 0 /\ m_task = << >> /\ missed = {} /\ moved = {}
        /\ opendbbase = <<FALSE>> /\ odb = [q \in Queries |-> 0]
        /\ res = [q \in Queries |-> << >>] /\ results = [q \in Queries |-> << >>]
    BY DEF LoadInit, Sql!SqlInit, Sql!NoAnswer
  <1>3. "query" \in Queries /\ << >> \in Seq(Answers)
    BY DEF Queries
  <1>4. ObjectInv
    BY <1>2, <1>3 DEF ObjectInv, Sql!NoAnswer
  <1>5. RowsInv /\ PositionsInv
    BY <1>2 DEF RowsInv, InLoop, PositionsInv
  <1>6. TaskInv
    BY <1>2 DEF TaskInv, InLoop
  <1>7. PositionGivenOnce
    BY <1>2 DEF PositionGivenOnce
  <1> QED
    BY <1>1, <1>4, <1>5, <1>6, <1>7 DEF ConfigInv

(* A step of nothing that is loaded keeps the invariant.                   *)
LEMMA LoadStutter == ASSUME ConfigInv, UNCHANGED loadConfigVars PROVE ConfigInv'
  <1>1. UNCHANGED configVars /\ UNCHANGED <<db, opendbbase, odb, res, results, lpc, r_idx, m_task,
                                            missed, moved>>
    BY DEF loadConfigVars, loadVars, objectVars, configVars
  <1>2. AdminInv'
    BY <1>1, AdminStutter DEF ConfigInv
  <1>3. ObjectInv' /\ RowsInv' /\ TaskInv'
    <2>1. ObjectInv'
      BY <1>1 DEF ConfigInv, ObjectInv, Sql!Live, Sql!NoAnswer
    <2>2. RowsInv'
      BY <1>1 DEF ConfigInv, RowsInv, BrickRows
    <2>3. TaskInv'
      BY <1>1 DEF ConfigInv, TaskInv, BrickRows
    <2> QED
      BY <2>1, <2>2, <2>3
  <1>4. PositionsInv' /\ PositionGivenOnce'
    BY <1>1 DEF ConfigInv, PositionsInv, PositionGivenOnce, StillOf, ThisBrick, BrickRows,
                Sql!LastStored
  <1> QED
    BY <1>2, <1>3, <1>4 DEF ConfigInv

(* The load beside the administration programs, for any number of bricks,  *)
(* positions, programs and faults.                                         *)
THEOREM ConfigInvariant == LoadSpec => []ConfigInv
  <1>1. DbInit /\ AdminInit /\ LoadInit => ConfigInv
    BY LoadStarts
  <1>2. ConfigInv /\ [LoadNext]_loadConfigVars => ConfigInv'
    BY LoadKeeps, LoadStutter
  <1> QED
    BY <1>1, <1>2, PTL DEF LoadSpec

(* No two bricks that login_db (config.cpp) loaded have a position in      *)
(* common, unless an administrator took it from a brick meanwhile.         *)
THEOREM PositionsOnce == LoadSpec => []PositionGivenOnce
  <1>1. ConfigInv => PositionGivenOnce
    BY DEF ConfigInv
  <1> QED
    BY ConfigInvariant, <1>1, PTL

(* Every row of the answer that login_db has passed was pushed onto m_task *)
(* once, or its brick's query for positions failed.                        *)
THEOREM BricksLoadedOnce == LoadSpec => []LoadedOrMissed
  <1>1. ConfigInv => LoadedOrMissed
    <2> SUFFICES ASSUME ConfigInv, lpc \in {"row", "jbod", "jbod_store", "return"},
                        NEW k \in 1..r_idx
                 PROVE  Cardinality({i \in DOMAIN m_task : m_task[i].brick = BrickRows[k]}) =
                            (IF BrickRows[k] \in missed THEN 0 ELSE 1)
      BY DEF LoadedOrMissed
    <2> DEFINE T == {i \in DOMAIN m_task : m_task[i].brick = BrickRows[k]}
    <2>1. /\ \A i, j \in DOMAIN m_task : m_task[i].brick = m_task[j].brick => i = j
          /\ \A i \in DOMAIN m_task : m_task[i].brick \notin missed
          /\ BrickRows[k] \in missed \/ \E i \in DOMAIN m_task : m_task[i].brick = BrickRows[k]
      BY DEF ConfigInv, TaskInv, InLoop
    <2>2. CASE BrickRows[k] \in missed
      <3>1. T = {}
        BY <2>1, <2>2
      <3> QED
        BY <2>2, <3>1, FS_EmptySet
    <2>3. CASE BrickRows[k] \notin missed
      <3>1. PICK i \in DOMAIN m_task : m_task[i].brick = BrickRows[k]
        BY <2>1, <2>3
      <3>2. T = {i}
        BY <2>1, <3>1
      <3> QED
        BY <2>3, <3>2, FS_Singleton
    <2> QED
      BY <2>2, <2>3
  <1> QED
    BY ConfigInvariant, <1>1, PTL

-----------------------------------------------------------------------------
(* The query object (SqlObjects): answers are numbered in the order in     *)
(* which they are sent, and an object that is gone owns none.              *)
ObjectsInv ==
    /\ SqlObjectsTypeOK
    /\ sent \in 0..MaxSent
    /\ DOMAIN answers \subseteq 1..sent
    /\ \A a \in DOMAIN answers : answers[a] \in Seq({"value", "null"})
    /\ query = "none" => stored = << >> /\ held_res = Nothing
    /\ AnswersOwnedOnce

(* Every set of numbers that is not empty has a least element. *)
LEMMA LeastNumber ==
    ASSUME NEW T, T \subseteq Nat, T # {}
    PROVE  \E n \in T : \A m \in T : n <= m
  <1>1. PICK R : R = OpToRel(<, Nat)
    OBVIOUS
  <1>2. IsWellFoundedOn(R, Nat)
    BY <1>1, NatLessThanWellFounded
  <1>3. PICK n \in T : \A m \in T : ~(<<m, n>> \in R)
    BY <1>2, WFMin
  <1>4. R = {ss \in Nat \X Nat : ss[1] < ss[2]}
    BY <1>1 DEF OpToRel
  <1>5. \A m \in T : ~(m < n)
    BY <1>3, <1>4
  <1> QED
    BY <1>5

(* The first entry that is a given answer.                                 *)
LEMMA FirstEntry ==
    ASSUME NEW v \in Seq(0..MaxSent), NEW a \in ToSet(v)
    PROVE  /\ SelectInSeq(v, LAMBDA item : item = a) \in 1..Len(v)
           /\ v[SelectInSeq(v, LAMBDA item : item = a)] = a
  <1> DEFINE I == {i \in 1..Len(v) : v[i] = a}
  <1>1. PICK n \in I : \A m \in I : n =< m
    <2>1. I # {} /\ I \subseteq Nat
      BY DEF ToSet
    <2> QED
      BY <2>1, LeastNumber
  <1>2. Min(I) \in I
    BY <1>1 DEF Min
  <1>3. SelectInSeq(v, LAMBDA item : item = a) = Min(I)
    BY <1>1 DEF SelectInSeq
  <1> QED
    BY <1>2, <1>3

(* delete_item takes one entry out, and the ones behind it close up.       *)
LEMMA EntryRemoved ==
    ASSUME NEW T, Nothing \in T, NEW v \in Seq(T), NEW i \in 1..Len(v),
           NEW w, w = RemoveAt([v EXCEPT ![i] = Nothing], i)
    PROVE  /\ w \in Seq(T) /\ Len(w) = Len(v) - 1
           /\ \A k \in 1..Len(w) : w[k] = IF k < i THEN v[k] ELSE v[k + 1]
  <1> DEFINE u == [v EXCEPT ![i] = Nothing]
             n == Len(v)
             left == SubSeq(u, 1, i - 1)
             right == SubSeq(u, i + 1, n)
  <1>1. n \in Nat /\ i \in Int
    OBVIOUS
  <1>2. u \in Seq(T) /\ Len(u) = n /\ \A k \in 1..n : k # i => u[k] = v[k]
    OBVIOUS
  <1> HIDE DEF u
  <1>3. left \in Seq(T) /\ Len(left) = i - 1 /\ \A k \in 1..(i - 1) : left[k] = u[k]
    <2>1. \A k \in 1..(i - 1) : u[k] \in T
      BY <1>1, <1>2, ElementOfSeq
    <2>2. /\ left \in Seq(T)
          /\ Len(left) = IF 1 <= i - 1 THEN i - 1 - 1 + 1 ELSE 0
          /\ \A k \in 1..(i - 1 - 1 + 1) : left[k] = u[1 + k - 1]
      BY <1>1, <2>1, SubSeqProperties
    <2> HIDE DEF left
    <2> QED
      BY <1>1, <2>2
  <1>4. right \in Seq(T) /\ Len(right) = n - i /\ \A k \in 1..(n - i) : right[k] = u[i + k]
    <2>1. \A k \in (i + 1)..n : u[k] \in T
      BY <1>1, <1>2, ElementOfSeq
    <2>2. /\ right \in Seq(T)
          /\ Len(right) = IF i + 1 <= n THEN n - (i + 1) + 1 ELSE 0
          /\ \A k \in 1..(n - (i + 1) + 1) : right[k] = u[(i + 1) + k - 1]
      BY <1>1, <2>1, SubSeqProperties
    <2> HIDE DEF right
    <2> QED
      BY <1>1, <2>2
  <1>5. w = left \o right
    BY <1>2 DEF RemoveAt, u
  <1> HIDE DEF left, right
  <1>6. /\ w \in Seq(T) /\ Len(w) = Len(left) + Len(right)
        /\ \A k \in 1..(Len(left) + Len(right)) :
              w[k] = IF k <= Len(left) THEN left[k] ELSE right[k - Len(left)]
    <2>1. left \in Seq(T) /\ right \in Seq(T)
      BY <1>3, <1>4
    <2> QED
      BY <1>5, <2>1, ConcatProperties
  <1>7. /\ Len(w) = n - 1
        /\ \A k \in 1..Len(w) : w[k] = IF k < i THEN left[k] ELSE right[k - (i - 1)]
    <2>1. Len(left) = i - 1 /\ Len(right) = n - i
      BY <1>3, <1>4
    <2>2. Len(left) + Len(right) = n - 1
      BY <1>1, <2>1
    <2>3. \A k \in 1..(n - 1) : k <= i - 1 <=> k < i
      BY <1>1
    <2>4. Len(w) = n - 1
      BY <1>6, <2>2
    <2>5. \A k \in 1..(n - 1) : w[k] = IF k <= i - 1 THEN left[k] ELSE right[k - (i - 1)]
      BY <1>6, <2>1, <2>2
    <2> QED
      BY <2>3, <2>4, <2>5
  <1>8. ASSUME NEW k \in 1..Len(w) PROVE w[k] = IF k < i THEN v[k] ELSE v[k + 1]
    <2>1. CASE k < i
      <3>1. k \in 1..(i - 1) /\ k \in 1..n /\ k # i
        BY <1>1, <1>7, <2>1
      <3> QED
        BY <1>2, <1>3, <1>7, <2>1, <3>1
    <2>2. CASE ~(k < i)
      <3>1. k - (i - 1) \in 1..(n - i) /\ i + (k - (i - 1)) = k + 1 /\ k + 1 \in 1..n /\ k + 1 # i
        BY <1>1, <1>7, <2>2
      <3>2. right[k - (i - 1)] = u[k + 1]
        BY <1>4, <3>1
      <3> QED
        BY <1>2, <1>7, <2>2, <3>1, <3>2
    <2> QED
      BY <2>1, <2>2
  <1> QED
    BY <1>6, <1>7, <1>8

(* So does a deletion that copies onto memory that it reads from.          *)
LEMMA DeletedTyped ==
    ASSUME NEW T, Nothing \in T, NEW v \in Seq(T), NEW i \in 1..Len(v),
           NEW w \in Deleted([v EXCEPT ![i] = Nothing], i)
    PROVE  w \in Seq(T)
  <1> DEFINE u == [v EXCEPT ![i] = Nothing]
  <1>1. CASE w = RemoveAt(u, i)
    BY <1>1, EntryRemoved
  <1>2. CASE w = [k \in 1..(Len(u) - 1) |-> IF k < i THEN u[k] ELSE Last(u)]
    <2>1. u \in Seq(T) /\ Len(u) \in Nat /\ Len(u) >= 1
      OBVIOUS
    <2> HIDE DEF u
    <2>2. Last(u) \in T
      BY <2>1 DEF Last
    <2>3. \A k \in 1..(Len(u) - 1) : u[k] \in T
      BY <2>1
    <2> QED
      BY <1>2, <2>1, <2>2, <2>3
  <1> QED
    BY <1>1, <1>2 DEF Deleted

(* Of entries that are all different, the others are left, once each.      *)
LEMMA OthersLeft ==
    ASSUME NEW T, Nothing \in T, NEW v \in Seq(T), ~Twice(v), Nothing \notin ToSet(v), NEW i \in 1..Len(v),
           NEW w, w = RemoveAt([v EXCEPT ![i] = Nothing], i)
    PROVE  ToSet(w) = ToSet(v) \ {v[i]} /\ ~Twice(w)
  <1>1. /\ w \in Seq(T) /\ Len(w) = Len(v) - 1
        /\ \A k \in 1..Len(w) : w[k] = IF k < i THEN v[k] ELSE v[k + 1]
    <2>1. w \in Seq(T) /\ Len(w) = Len(v) - 1
      BY EntryRemoved
    <2>2. \A k \in 1..Len(w) : w[k] = IF k < i THEN v[k] ELSE v[k + 1]
      BY EntryRemoved
    <2> QED
      BY <2>1, <2>2
  <1>2. Len(v) \in Nat /\ i \in Int /\ DOMAIN v = 1..Len(v) /\ DOMAIN w = 1..(Len(v) - 1)
    BY <1>1
  <1>3. \A j, k \in 1..Len(v) : v[j] = v[k] => j = k
    <2> SUFFICES ASSUME NEW j \in 1..Len(v), NEW k \in 1..Len(v), v[j] = v[k], j < k
                 PROVE  FALSE
      OBVIOUS
    <2>1. v[j] # Nothing
      BY <1>2 DEF ToSet
    <2> QED
      BY <1>2, <2>1 DEF Twice
  <1>4. \A k \in DOMAIN w : (IF k < i THEN k ELSE k + 1) \in 1..Len(v) \ {i}
    BY <1>2
  <1>5. \A k \in DOMAIN w : w[k] = v[IF k < i THEN k ELSE k + 1]
    BY <1>1, <1>2
  <1>6. ToSet(w) \subseteq ToSet(v) \ {v[i]}
    <2> SUFFICES ASSUME NEW k \in DOMAIN w PROVE w[k] \in ToSet(v) \ {v[i]}
      BY DEF ToSet
    <2> DEFINE m == IF k < i THEN k ELSE k + 1
    <2>1. m \in 1..Len(v) /\ m # i /\ w[k] = v[m]
      BY <1>4, <1>5
    <2> HIDE DEF m
    <2> QED
      BY <1>2, <1>3, <2>1 DEF ToSet
  <1>7. ASSUME NEW k \in 1..Len(v), k # i PROVE v[k] \in ToSet(w)
    <2>1. CASE k < i
      <3>1. k \in DOMAIN w /\ w[k] = v[k]
        <4>1. k \in 1..(Len(v) - 1)
          BY <1>2, <2>1
        <4> QED
          BY <1>1, <1>2, <2>1, <4>1
      <3> QED
        BY <3>1 DEF ToSet
    <2>2. CASE k > i
      <3>1. k - 1 \in DOMAIN w /\ ~(k - 1 < i) /\ (k - 1) + 1 = k
        BY <1>2, <2>2
      <3>2. w[k - 1] = v[k]
        BY <1>5, <3>1
      <3> QED
        BY <3>1, <3>2 DEF ToSet
    <2> QED
      BY <1>2, <1>7, <2>1, <2>2
  <1>8. ToSet(v) \ {v[i]} \subseteq ToSet(w)
    BY <1>2, <1>7 DEF ToSet
  <1>9. ~Twice(w)
    <2> SUFFICES ASSUME NEW j \in DOMAIN w, NEW k \in DOMAIN w, j < k, w[j] = w[k]
                 PROVE  FALSE
      BY DEF Twice
    <2>1. (IF j < i THEN j ELSE j + 1) = (IF k < i THEN k ELSE k + 1)
      <3> DEFINE p == IF j < i THEN j ELSE j + 1
                 q == IF k < i THEN k ELSE k + 1
      <3>1. p \in 1..Len(v) /\ q \in 1..Len(v) /\ w[j] = v[p] /\ w[k] = v[q]
        BY <1>4, <1>5
      <3> HIDE DEF p, q
      <3>2. p = q
        BY <1>3, <3>1
      <3> QED
        BY <3>2 DEF p, q
    <2> QED
      BY <1>2, <2>1
  <1> QED
    BY <1>6, <1>8, <1>9

(* One step keeps the types of the answers, whatever the property says.    *)
LEMMA ObjectTypes ==
    ASSUME ObjectsInv, SqlObjectsNext
    PROVE  /\ SqlObjectsTypeOK' /\ sent' \in 0..MaxSent /\ sent <= sent'
           /\ DOMAIN answers' \subseteq 1..sent'
           /\ \A a \in DOMAIN answers' : answers'[a] \in Seq({"value", "null"})
           /\ query' = "none" => stored' = << >> /\ held_res' = Nothing
  <1> DEFINE Rest == /\ sent' \in 0..MaxSent /\ sent <= sent'
                     /\ DOMAIN answers' \subseteq 1..sent'
                     /\ \A a \in DOMAIN answers' : answers'[a] \in Seq({"value", "null"})
                     /\ query' = "none" => stored' = << >> /\ held_res' = Nothing
  <1>1. /\ query \in {"none", "live", "undefined"}
        /\ unretrieved \in BOOLEAN /\ allow_null \in BOOLEAN /\ overlapped \in BOOLEAN
        /\ held_res \in 0..MaxSent /\ stored \in Seq(0..MaxSent)
        /\ DOMAIN answers \subseteq 1..MaxSent
        /\ fetched \in [answer : 0..MaxSent, column : {"value", "null", "end"}]
        /\ sent \in 0..MaxSent /\ MaxSent \in Nat /\ 0 \in 0..MaxSent
        /\ DOMAIN answers \subseteq 1..sent
        /\ \A a \in DOMAIN answers : answers[a] \in Seq({"value", "null"})
        /\ query = "none" => stored = << >> /\ held_res = Nothing
    BY MaxSentAssumption DEF ObjectsInv, SqlObjectsTypeOK
  <1>2. NoRow \in [answer : 0..MaxSent, column : {"value", "null", "end"}] /\ Nothing = 0
    BY <1>1 DEF NoRow, Nothing
  <1>3. \A accepted \in BOOLEAN : Sends(accepted) => sent' = sent + 1 /\ sent' \in 0..MaxSent
    BY <1>1 DEF Sends
  <1>4. CASE ConstructQuery
    BY <1>1, <1>2, <1>4 DEF ConstructQuery, SqlObjectsTypeOK
  <1>5. CASE ConstructWithStatement
    <2>1. sent' = sent + 1 /\ sent' \in 0..MaxSent /\ unretrieved' \in BOOLEAN
      BY <1>1, <1>3, <1>5 DEF ConstructWithStatement
    <2> QED
      BY <1>1, <1>2, <1>5, <2>1 DEF ConstructWithStatement, SqlObjectsTypeOK
  <1>6. CASE TryExecute
    <2>1. sent' = sent + 1 /\ sent' \in 0..MaxSent /\ unretrieved' \in BOOLEAN
      BY <1>1, <1>3, <1>6 DEF TryExecute
    <2> QED
      BY <1>1, <1>6, <2>1 DEF TryExecute, SqlObjectsTypeOK
  <1>7. CASE DestroyQuery
    <2>1. DOMAIN answers' \subseteq DOMAIN answers
              /\ \A a \in DOMAIN answers' : answers'[a] = answers[a]
      BY <1>7 DEF DestroyQuery, Freed
    <2> QED
      BY <1>1, <1>2, <1>7, <2>1 DEF DestroyQuery, SqlObjectsTypeOK
  <1>8. CASE ExecuteQuery
    <2>1. sent' = sent + 1 /\ sent' \in 0..MaxSent
      BY <1>3, <1>8 DEF ExecuteQuery
    <2>2. CASE UNCHANGED <<answers, held_res>>
      BY <1>1, <1>8, <2>1, <2>2 DEF ExecuteQuery, SqlObjectsTypeOK
    <2>3. ASSUME NEW rows \in RowsOfAnswers, held_res' = sent',
                 answers' = [a \in DOMAIN answers \cup {sent'} |->
                               IF a = sent' THEN rows ELSE answers[a]]
          PROVE  SqlObjectsTypeOK' /\ Rest
      <3>1. rows \in Seq({"value", "null"})
        BY RowsAssumption
      <3>2. sent' \in 1..MaxSent /\ DOMAIN answers' = DOMAIN answers \cup {sent'}
        BY <1>1, <2>1, <2>3
      <3>3. DOMAIN answers' \subseteq 1..sent' /\ DOMAIN answers' \subseteq 1..MaxSent
        BY <1>1, <2>1, <3>2
      <3>4. \A a \in DOMAIN answers' : answers'[a] \in Seq({"value", "null"})
        BY <1>1, <2>3, <3>1
      <3>5. held_res' \in 0..MaxSent
        BY <2>1, <2>3
      <3>6. query' = "live" /\ UNCHANGED <<unretrieved, stored, fetched, allow_null, overlapped>>
        BY <1>8 DEF ExecuteQuery
      <3>7. SqlObjectsTypeOK'
        BY <1>1, <3>3, <3>5, <3>6 DEF SqlObjectsTypeOK
      <3>8. sent <= sent'
        BY <1>1, <2>1
      <3> QED
        BY <2>1, <3>3, <3>4, <3>6, <3>7, <3>8
    <2> QED
      BY <1>8, <2>2, <2>3 DEF ExecuteQuery
  <1>9. CASE StoreAnswer
    <2>1. stored' \in Seq(0..MaxSent) /\ held_res' = 0
      BY <1>1, <1>2, <1>9 DEF StoreAnswer, Added, HeldAfterStore
    <2> QED
      BY <1>1, <1>9, <2>1 DEF StoreAnswer, SqlObjectsTypeOK
  <1>10. CASE FreeHeld
    <2>1. DOMAIN answers' \subseteq DOMAIN answers
              /\ \A a \in DOMAIN answers' : answers'[a] = answers[a]
      BY <1>10 DEF FreeHeld, Freed
    <2> QED
      BY <1>1, <1>2, <1>10, <2>1 DEF FreeHeld, SqlObjectsTypeOK
  <1>11. ASSUME NEW a \in DOMAIN answers, FreeStored(a) PROVE SqlObjectsTypeOK' /\ Rest
    <2> DEFINE idx == SelectInSeq(stored, LAMBDA item : item = a)
    <2>1. a \in ToSet(stored) /\ overlapped' = (overlapped \/ Overlaps(stored, idx))
          /\ stored' \in Deleted([stored EXCEPT ![idx] = Nothing], idx)
      BY <1>11 DEF FreeStored
    <2>2. idx \in 1..Len(stored)
      BY <1>1, <2>1, FirstEntry
    <2> HIDE DEF idx
    <2>3. overlapped' \in BOOLEAN
      BY <1>1, <2>1 DEF Overlaps
    <2>4. stored' \in Seq(0..MaxSent)
      BY <1>1, <1>2, <2>1, <2>2, DeletedTyped
    <2>5. DOMAIN answers' \subseteq DOMAIN answers
              /\ \A b \in DOMAIN answers' : answers'[b] = answers[b]
      BY <1>11 DEF FreeStored, Freed
    <2> QED
      BY <1>1, <1>11, <2>3, <2>4, <2>5 DEF FreeStored, SqlObjectsTypeOK
  <1>12. ASSUME NEW a \in DOMAIN answers, FetchRow(a) PROVE SqlObjectsTypeOK' /\ Rest
    <2>1. CASE answers[a] = << >>
      <3>1. fetched' \in [answer : 0..MaxSent, column : {"value", "null", "end"}]
        BY <1>1, <1>12, <2>1 DEF FetchRow
      <3> QED
        BY <1>1, <1>12, <2>1, <3>1 DEF FetchRow, SqlObjectsTypeOK
    <2>2. CASE answers[a] # << >>
      <3>1. Head(answers[a]) \in {"value", "null"} /\ Tail(answers[a]) \in Seq({"value", "null"})
        BY <1>1, <2>2
      <3>2. fetched' = [answer |-> a, column |-> Head(answers[a])]
            /\ answers' = [answers EXCEPT ![a] = Tail(answers[a])]
        BY <1>12, <2>2 DEF FetchRow
      <3>3. fetched' \in [answer : 0..MaxSent, column : {"value", "null", "end"}]
        BY <1>1, <3>1, <3>2
      <3>4. DOMAIN answers' = DOMAIN answers
            /\ \A b \in DOMAIN answers : answers'[b] \in Seq({"value", "null"})
        BY <1>1, <3>1, <3>2
      <3> QED
        BY <1>1, <1>12, <3>3, <3>4 DEF FetchRow, SqlObjectsTypeOK
    <2> QED
      BY <2>1, <2>2
  <1>13. CASE AllowNull
    <2>1. allow_null' = FALSE
          /\ UNCHANGED <<query, unretrieved, held_res, stored, answers, fetched, overlapped, sent>>
      BY <1>13 DEF AllowNull
    <2>2. SqlObjectsTypeOK'
      BY <1>1, <2>1 DEF SqlObjectsTypeOK
    <2>3. Rest
      BY <1>1, <2>1
    <2> QED
      BY <2>2, <2>3
  <1>14. CASE ReadColumn
    BY <1>1, <1>14 DEF ReadColumn, SqlObjectsTypeOK
  <1> QED
    BY <1>4, <1>5, <1>6, <1>7, <1>8, <1>9, <1>10, <1>11, <1>12, <1>13, <1>14 DEF SqlObjectsNext

(* Where nothing overlapped before the step, the owners and the answers in *)
(* memory still are the same afterwards.                                   *)
LEMMA OwnersKept ==
    ASSUME ObjectsInv, SqlObjectsNext, query' # "undefined", ~overlapped'
    PROVE  /\ ToSet(stored') \cup ({held_res'} \ {Nothing}) = DOMAIN answers'
           /\ ~Twice(stored')
           /\ held_res' \notin ToSet(stored')
  <1> DEFINE Owned == /\ ToSet(stored') \cup ({held_res'} \ {Nothing}) = DOMAIN answers'
                      /\ ~Twice(stored')
                      /\ held_res' \notin ToSet(stored')
  <1>1. ASSUME query # "undefined", ~overlapped
        PROVE  /\ ToSet(stored) \cup ({held_res} \ {Nothing}) = DOMAIN answers
               /\ ~Twice(stored)
               /\ held_res \notin ToSet(stored)
    BY <1>1 DEF ObjectsInv, AnswersOwnedOnce
  <1>2. /\ stored \in Seq(0..MaxSent) /\ DOMAIN answers \subseteq 1..sent /\ sent \in 0..MaxSent
        /\ query = "none" => stored = << >> /\ held_res = Nothing
        /\ held_res \in 0..MaxSent
    BY DEF ObjectsInv, SqlObjectsTypeOK
  <1>3. MaxSent \in Nat /\ Nothing = 0 /\ Nothing \notin DOMAIN answers
    BY <1>2, MaxSentAssumption DEF Nothing
  <1>4. CASE ConstructQuery \/ ConstructWithStatement
    <2>1. query = "none" /\ ~overlapped /\ UNCHANGED answers /\ stored' = << >>
              /\ held_res' = Nothing
      BY <1>4 DEF ConstructQuery, ConstructWithStatement
    <2>2. stored' = stored /\ held_res' = held_res
      BY <1>2, <2>1
    <2> QED
      BY <1>1, <2>1, <2>2
  <1>5. CASE DestroyQuery
    <2>1. /\ query = "live" /\ ~overlapped /\ stored' = << >> /\ held_res' = Nothing
          /\ Freed(ToSet(stored) \cup {held_res})
      BY <1>5 DEF DestroyQuery
    <2>2. DOMAIN answers' = {}
      BY <1>1, <2>1 DEF Freed
    <2>3. ToSet(stored') = {} /\ ~Twice(stored')
      BY <2>1 DEF ToSet, Twice
    <2> QED
      BY <2>1, <2>2, <2>3
  <1>6. CASE TryExecute \/ AllowNull \/ ReadColumn
    <2>1. /\ UNCHANGED <<held_res, stored, answers, overlapped>>
          /\ query # "undefined"
      BY <1>6 DEF TryExecute, AllowNull, ReadColumn
    <2> QED
      BY <1>1, <2>1
  <1>7. CASE ExecuteQuery
    <2>1. query = "live" /\ held_res = Nothing /\ UNCHANGED <<stored, overlapped>>
      BY <1>7 DEF ExecuteQuery
    <2>2. ASSUME Sends(TRUE), held_res' = sent', NEW rows,
                 answers' = [a \in DOMAIN answers \cup {sent'} |->
                               IF a = sent' THEN rows ELSE answers[a]]
          PROVE  Owned
      <3>1. sent' = sent + 1
        BY <2>2 DEF Sends
      <3>2. sent' \notin DOMAIN answers /\ sent' # Nothing
        BY <1>2, <1>3, <3>1
      <3>3. DOMAIN answers' = DOMAIN answers \cup {sent'} /\ ToSet(stored) = DOMAIN answers
        BY <1>1, <2>1, <2>2
      <3> QED
        BY <1>1, <2>1, <2>2, <3>2, <3>3
    <2>3. CASE UNCHANGED <<answers, held_res>>
      BY <1>1, <2>1, <2>3
    <2> QED
      BY <1>7, <2>2, <2>3 DEF ExecuteQuery
  <1>8. CASE StoreAnswer
    <2>1. /\ query = "live" /\ held_res # Nothing /\ UNCHANGED <<answers, overlapped>>
          /\ stored' = Append(stored, held_res) /\ held_res' = Nothing
      BY <1>8 DEF StoreAnswer, Added, HeldAfterStore
    <2>2. /\ DOMAIN stored' = 1..(Len(stored) + 1) /\ DOMAIN stored = 1..Len(stored)
          /\ Len(stored) \in Nat
          /\ \A k \in 1..Len(stored) : stored'[k] = stored[k]
          /\ stored'[Len(stored) + 1] = held_res
      BY <1>2, <2>1
    <2>3. \A k \in DOMAIN stored' : k \in DOMAIN stored \/ k = Len(stored) + 1
      BY <2>2
    <2>4. ToSet(stored') = ToSet(stored) \cup {held_res}
      <3>1. ToSet(stored') \subseteq ToSet(stored) \cup {held_res}
        BY <2>2, <2>3 DEF ToSet
      <3>2. \A k \in DOMAIN stored : k \in DOMAIN stored' /\ stored'[k] = stored[k]
        BY <2>2
      <3>3. Len(stored) + 1 \in DOMAIN stored'
        BY <2>2
      <3>4. ToSet(stored) \subseteq ToSet(stored')
        BY <3>2 DEF ToSet
      <3>5. held_res \in ToSet(stored')
        BY <2>2, <3>3 DEF ToSet
      <3> QED
        BY <3>1, <3>4, <3>5
    <2>5. ~Twice(stored')
      <3> SUFFICES ASSUME NEW j \in DOMAIN stored', NEW k \in DOMAIN stored', j < k,
                          stored'[j] = stored'[k], stored'[j] # Nothing
                   PROVE  FALSE
        BY DEF Twice
      <3>1. j \in DOMAIN stored
        BY <2>2
      <3>2. CASE k \in DOMAIN stored
        BY <1>1, <2>1, <2>2, <3>1, <3>2 DEF Twice
      <3>3. CASE k = Len(stored) + 1
        BY <1>1, <2>1, <2>2, <3>1, <3>3 DEF ToSet
      <3> QED
        BY <2>3, <3>2, <3>3
    <2>6. Nothing \notin ToSet(stored')
      BY <1>1, <1>3, <2>1, <2>4
    <2> QED
      BY <1>1, <2>1, <2>4, <2>5, <2>6
  <1>9. CASE FreeHeld
    <2>1. /\ query = "live" /\ UNCHANGED <<stored, overlapped>> /\ held_res' = Nothing
          /\ DOMAIN answers' = DOMAIN answers \ {held_res}
      BY <1>9 DEF FreeHeld, Freed
    <2>2. Nothing \notin ToSet(stored)
      BY <1>1, <1>3, <2>1
    <2> QED
      BY <1>1, <2>1, <2>2
  <1>10. ASSUME NEW a \in DOMAIN answers, FreeStored(a) PROVE Owned
    <2> DEFINE idx == SelectInSeq(stored, LAMBDA item : item = a)
    <2>1. /\ query = "live" /\ a \in ToSet(stored) /\ UNCHANGED held_res
          /\ overlapped' = (overlapped \/ Overlaps(stored, idx))
          /\ stored' \in Deleted([stored EXCEPT ![idx] = Nothing], idx)
          /\ DOMAIN answers' = DOMAIN answers \ {a}
      BY <1>10 DEF FreeStored, Freed
    <2>2. idx \in 1..Len(stored) /\ stored[idx] = a
      BY <1>2, <2>1, FirstEntry
    <2> HIDE DEF idx
    <2>3. ~overlapped /\ ~Overlaps(stored, idx)
      BY <2>1
    <2>4. Len([stored EXCEPT ![idx] = Nothing]) = Len(stored)
      BY <1>2
    <2>5. stored' = RemoveAt([stored EXCEPT ![idx] = Nothing], idx)
      BY <2>1, <2>3, <2>4 DEF Deleted, Overlaps
    <2>6. Nothing \notin ToSet(stored) /\ ~Twice(stored)
      BY <1>1, <1>3, <2>1, <2>3
    <2>7. ToSet(stored') = ToSet(stored) \ {a} /\ ~Twice(stored')
      <3>1. Nothing \in 0..MaxSent
        BY <1>3
      <3> QED
        BY <1>2, <2>2, <2>5, <2>6, <3>1, OthersLeft
    <2>8. a # Nothing /\ a # held_res
      BY <1>1, <1>3, <2>1, <2>3
    <2> QED
      BY <1>1, <2>1, <2>3, <2>7, <2>8
  <1>11. ASSUME NEW a \in DOMAIN answers, FetchRow(a) PROVE Owned
    <2>1. query = "live" /\ UNCHANGED <<held_res, stored, overlapped>>
              /\ DOMAIN answers' = DOMAIN answers
      BY <1>11 DEF FetchRow
    <2> QED
      BY <1>1, <2>1
  <1> QED
    BY <1>4, <1>5, <1>6, <1>7, <1>8, <1>9, <1>10, <1>11 DEF SqlObjectsNext

(* A query object and its answers, for any number of statements.           *)
THEOREM ObjectsInvariant == SqlObjectsSpec => []ObjectsInv
  <1>1. SqlObjectsInit => ObjectsInv
    <2> SUFFICES ASSUME SqlObjectsInit PROVE ObjectsInv
      OBVIOUS
    <2>1. /\ query = "none" /\ unretrieved = FALSE /\ held_res = 0 /\ stored = << >>
          /\ DOMAIN answers = {} /\ allow_null = TRUE /\ overlapped = FALSE /\ sent = 0
          /\ fetched = [answer |-> 0, column |-> "end"] /\ Nothing = 0 /\ 0 \in 0..MaxSent
      BY MaxSentAssumption DEF SqlObjectsInit, Nothing, NoRow
    <2>2. SqlObjectsTypeOK
      <3>1. unretrieved \in BOOLEAN /\ allow_null \in BOOLEAN /\ overlapped \in BOOLEAN
        BY <2>1
      <3>2. stored \in Seq(0..MaxSent) /\ held_res \in 0..MaxSent
        BY <2>1
      <3>3. fetched \in [answer : 0..MaxSent, column : {"value", "null", "end"}]
        BY <2>1
      <3> QED
        BY <2>1, <3>1, <3>2, <3>3 DEF SqlObjectsTypeOK
    <2>3. AnswersOwnedOnce
      BY <2>1 DEF AnswersOwnedOnce, ToSet, Twice
    <2> QED
      BY <2>1, <2>2, <2>3 DEF ObjectsInv
  <1>2. ObjectsInv /\ [SqlObjectsNext]_sqlObjectVars => ObjectsInv'
    <2> SUFFICES ASSUME ObjectsInv, [SqlObjectsNext]_sqlObjectVars PROVE ObjectsInv'
      OBVIOUS
    <2>1. CASE SqlObjectsNext
      <3>1. AnswersOwnedOnce'
        BY <2>1, OwnersKept DEF AnswersOwnedOnce
      <3> QED
        BY <2>1, <3>1, ObjectTypes DEF ObjectsInv
    <2>2. CASE UNCHANGED sqlObjectVars
      <3>1. UNCHANGED <<query, unretrieved, held_res, stored, answers, fetched, allow_null,
                        overlapped, sent>>
        BY <2>2 DEF sqlObjectVars
      <3>2. SqlObjectsTypeOK'
        BY <3>1 DEF ObjectsInv, SqlObjectsTypeOK
      <3>3. AnswersOwnedOnce'
        BY <3>1, Zenon DEF ObjectsInv, AnswersOwnedOnce, Twice, ToSet
      <3> QED
        BY <3>1, <3>2, <3>3 DEF ObjectsInv
    <2> QED
      BY <2>1, <2>2
  <1> QED
    BY <1>1, <1>2, PTL DEF SqlObjectsSpec

(* Whatever is executed, stored and freed in whatever order, every answer  *)
(* in memory has one owner and every owner an answer (~sql_query_c and     *)
(* free_result of mysqlplus.cpp free none twice and leave none), until     *)
(* delete_item has copied onto memory that it read from.                   *)
THEOREM OwnedOnce == SqlObjectsSpec => []AnswersOwnedOnce
  <1>1. ObjectsInv => AnswersOwnedOnce
    BY DEF ObjectsInv
  <1> QED
    BY ObjectsInvariant, <1>1, PTL

(* The variables of a query object stay in their types.                    *)
THEOREM ObjectsTypeCorrect == SqlObjectsSpec => []SqlObjectsTypeOK
  <1>1. ObjectsInv => SqlObjectsTypeOK
    BY DEF ObjectsInv
  <1> QED
    BY ObjectsInvariant, <1>1, PTL

-----------------------------------------------------------------------------
(* The dialog (BrowseFolder): it stands in a folder that it has shown, and *)
(* so has every folder of its list been shown.                             *)
BrowseInv ==
    /\ BrowseTypeOK
    /\ m_root_path \in there
    /\ dialogs \in 0..MaxDialogs
    /\ dialog \in {"open", "hidden"} =>
          /\ m_curr_path \in shown
          /\ \A n \in m_model \ {".."} : Append(m_curr_path, n) \in shown
          /\ selection = {} \/ \E row \in m_model : selection = {row}
    /\ dialog = "open" => m_selected = << >>
    /\ dialog = "hidden" =>
          m_selected = << >> \/ \E n \in m_model \ {".."} : m_selected = <<n>>
    /\ FolderChosenWasShown

(* A path is that of the folder above it and its last name.                *)
LEMMA PathSplits ==
    ASSUME NEW p, p \in Seq(ToSet(p)), p # << >>
    PROVE  Append(Front(p), Last(p)) = p
  <1> DEFINE S == ToSet(p)
             n == Len(p)
  <1>1. p \in Seq(S) /\ n \in Nat /\ n > 0
    OBVIOUS
  <1> HIDE DEF S
  <1>2. /\ Front(p) \in Seq(S) /\ Len(Front(p)) = n - 1
        /\ \A i \in 1..(n - 1) : Front(p)[i] = p[i]
    <2>1. PICK m \in Nat : m = n - 1
      BY <1>1
    <2>2. \A i \in 1..m : p[i] \in S
      BY <1>1, <2>1
    <2>3. Front(p) = SubSeq(p, 1, m)
      BY <2>1 DEF Front
    <2>4. SubSeq(p, 1, m) \in Seq(S)
      BY <2>2, SubSeqProperties
    <2>5. Len(SubSeq(p, 1, m)) = IF 1 <= m THEN m - 1 + 1 ELSE 0
      BY <2>2, SubSeqProperties
    <2>6. \A i \in 1..(m - 1 + 1) : SubSeq(p, 1, m)[i] = p[1 + i - 1]
      BY <2>2, SubSeqProperties
    <2>7. Len(SubSeq(p, 1, m)) = m /\ \A i \in 1..m : SubSeq(p, 1, m)[i] = p[i]
      BY <2>5, <2>6
    <2> QED
      BY <2>1, <2>3, <2>4, <2>7
  <1>3. Last(p) = p[n] /\ p[n] \in S
    BY <1>1 DEF Last
  <1>4. /\ Append(Front(p), Last(p)) \in Seq(S) /\ Len(Append(Front(p), Last(p))) = n
        /\ \A i \in 1..n : Append(Front(p), Last(p))[i] = p[i]
    BY <1>1, <1>2, <1>3
  <1> QED
    BY <1>1, <1>4, SeqEqual

(* The names in a folder are those of folders that are there.              *)
LEMMA NamedAreThere ==
    ASSUME there \subseteq FolderTree, NEW path, NEW n \in NamesIn(path)
    PROVE  Append(path, n) \in there
  <1>1. PICK p \in there : p # << >> /\ Front(p) = path /\ Last(p) = n
    BY DEF NamesIn
  <1>2. p \in Seq(ToSet(p))
    BY FolderTreeAssumption
  <1> QED
    BY <1>1, <1>2, PathSplits

(* What OK takes is one name or none.                                      *)
LEMMA TakenIsOne ==
    ASSUME selection = {} \/ \E row \in m_model : selection = {row}
    PROVE  \/ SetToSeq(TakenRow) = << >>
           \/ \E n \in m_model \ {".."} : SetToSeq(TakenRow) = <<n>>
  <1>1. CASE TakenRow = {}
    <2>1. << >> \in [1..0 -> {}] /\ IsInjective(<< >>)
      BY DEF IsInjective
    <2>2. \A f \in [1..0 -> {}] : f = << >>
      OBVIOUS
    <2>3. (CHOOSE f \in [1..0 -> {}] : IsInjective(f)) = << >>
      BY <2>1, <2>2
    <2>4. Cardinality({}) = 0
      BY FS_EmptySet
    <2>5. SetToSeq({}) = << >>
      BY <2>3, <2>4 DEF SetToSeq
    <2> QED
      BY <1>1, <2>5
  <1>2. ASSUME NEW n \in m_model \ {".."}, TakenRow = {n}
        PROVE  SetToSeq(TakenRow) = <<n>>
    <2>1. [1..1 -> {n}] = {<<n>>} /\ IsInjective(<<n>>)
      BY DEF IsInjective
    <2>2. Cardinality({n}) = 1
      BY FS_Singleton
    <2> QED
      BY <1>2, <2>1, <2>2 DEF SetToSeq
  <1>3. TakenRow = {} \/ \E n \in m_model \ {".."} : TakenRow = {n}
    BY DEF TakenRow, IsParent
  <1> QED
    BY <1>1, <1>2, <1>3

(* Every step of the dialog, of the page and of who removes folders.       *)
LEMMA BrowseKeeps == ASSUME BrowseInv, BrowseNext PROVE BrowseInv'
  <1>1. /\ there \subseteq FolderTree /\ shown \subseteq FolderTree
        /\ dialog \in {"none", "open", "hidden", "terminated"}
        /\ selection \subseteq m_model /\ Len(m_selected) <= 1
        /\ m_root_path \in there /\ dialogs \in 0..MaxDialogs
    BY DEF BrowseInv, BrowseTypeOK
  <1>2. dialog = "open" =>
          /\ m_curr_path \in shown /\ m_selected = << >>
          /\ \A n \in m_model \ {".."} : Append(m_curr_path, n) \in shown
          /\ selection = {} \/ \E row \in m_model : selection = {row}
    BY DEF BrowseInv
  <1>3. Len(<< >>) = 0 /\ \A n : Len(<<n>>) = 1
    OBVIOUS
  <1>4. CASE BrowseOpens
    <2>1. /\ dialogs' \in 0..MaxDialogs /\ UNCHANGED <<there, m_Entry>>
          /\ dialog' = "open" /\ m_model' = NamesIn(m_root_path)
          /\ shown' = {m_root_path} \cup {<<n>> : n \in NamesIn(m_root_path)}
          /\ m_curr_path' = m_root_path /\ selection' = {} /\ m_selected' = << >>
      BY <1>1, <1>4, BrowseBounds DEF BrowseOpens
    <2>2. \A n : <<n>> = Append(m_root_path, n)
      BY DEF m_root_path
    <2>3. shown' \subseteq FolderTree
      BY <1>1, <2>1, <2>2, NamedAreThere
    <2>4. \A n \in m_model' : Append(m_root_path, n) \in shown'
      BY <2>1, <2>2
    <2> QED
      BY <1>1, <1>3, <2>1, <2>3, <2>4
      DEF BrowseInv, BrowseTypeOK, FolderChosenWasShown, m_root_path
  <1>5. ASSUME NEW row \in m_model, SelectRow(row) PROVE BrowseInv'
    <2>1. /\ dialog = "open" /\ selection' = {row}
          /\ UNCHANGED <<there, dialog, m_curr_path, m_model, m_selected, m_Entry, dialogs, shown>>
      BY <1>5 DEF SelectRow
    <2> QED
      BY <1>1, <1>2, <1>5, <2>1 DEF BrowseInv, BrowseTypeOK, FolderChosenWasShown, m_root_path
  <1>6. ASSUME NEW row \in m_model, ListRowActivated(row) PROVE BrowseInv'
    <2>1. PICK path : path = IF IsParent(row) THEN Front(m_curr_path) ELSE Append(m_curr_path, row)
      OBVIOUS
    <2>2. dialog = "open" /\ ShowFolderList(path)
              /\ UNCHANGED <<there, m_selected, m_Entry, dialogs>>
      BY <1>6, <2>1 DEF ListRowActivated
    <2>3. CASE path \notin there
      <3>1. dialog' = "terminated" /\ selection' = {} /\ UNCHANGED shown
        BY <2>2, <2>3 DEF ShowFolderList
      <3> QED
        BY <1>1, <2>2, <3>1 DEF BrowseInv, BrowseTypeOK, FolderChosenWasShown, m_root_path
    <2>4. CASE path \in there
      <3>1. /\ dialog' = "open" /\ selection' = {} /\ m_curr_path' = path
            /\ m_model' = NamesIn(path) \cup (IF path = m_root_path THEN {} ELSE {".."})
            /\ shown' = shown \cup {path} \cup {Append(path, n) : n \in NamesIn(path)}
        BY <2>2, <2>4 DEF ShowFolderList
      <3>2. shown' \subseteq FolderTree
        BY <1>1, <2>4, <3>1, NamedAreThere
      <3>3. \A n \in m_model' \ {".."} : Append(path, n) \in shown'
        BY <3>1
      <3> QED
        BY <1>1, <1>2, <2>2, <3>1, <3>2, <3>3
        DEF BrowseInv, BrowseTypeOK, FolderChosenWasShown, m_root_path
    <2> QED
      BY <2>3, <2>4
  <1>7. CASE OkClicked
    <2>1. /\ dialog = "open" /\ dialog' = "hidden" /\ m_selected' = SetToSeq(TakenRow)
          /\ UNCHANGED <<there, m_curr_path, m_model, selection, m_Entry, dialogs, shown>>
      BY <1>7 DEF OkClicked
    <2>2. m_selected' = << >> \/ \E n \in m_model \ {".."} : m_selected' = <<n>>
      BY <1>2, <2>1, TakenIsOne
    <2>3. Len(m_selected') <= 1
      <3>1. Len(m_selected') = 0 \/ Len(m_selected') = 1
        BY <1>3, <2>2, Zenon
      <3> QED
        BY <3>1
    <2> QED
      BY <1>1, <1>2, <2>1, <2>2, <2>3
      DEF BrowseInv, BrowseTypeOK, FolderChosenWasShown, m_root_path
  <1>8. CASE CloseDialog
    <2>1. /\ dialog = "open" /\ dialog' = "hidden"
          /\ UNCHANGED <<there, m_curr_path, m_model, selection, m_selected, m_Entry, dialogs, shown>>
      BY <1>8 DEF CloseDialog
    <2> QED
      BY <1>1, <1>2, <2>1 DEF BrowseInv, BrowseTypeOK, FolderChosenWasShown, m_root_path
  <1>9. CASE SelectPath
    <2>1. /\ dialog = "hidden" /\ dialog' = "none" /\ m_Entry' = m_curr_path \o m_selected
          /\ UNCHANGED <<there, m_curr_path, m_model, selection, m_selected, dialogs, shown>>
      BY <1>9 DEF SelectPath, GetSelected
    <2>2. /\ m_curr_path \in shown
          /\ \A n \in m_model \ {".."} : Append(m_curr_path, n) \in shown
          /\ m_selected = << >> \/ \E n \in m_model \ {".."} : m_selected = <<n>>
      BY <2>1 DEF BrowseInv
    <2>3. m_curr_path \in Seq(ToSet(m_curr_path))
      BY <1>1, <2>2, FolderTreeAssumption
    <2>4. m_Entry' \in shown
      <3>1. CASE m_selected = << >>
        <4>1. PICK S : S = ToSet(m_curr_path)
          OBVIOUS
        <4>2. m_curr_path \in Seq(S)
          BY <2>3, <4>1
        <4>3. m_curr_path \o << >> = m_curr_path
          BY <4>2, ConcatEmptySeq
        <4> QED
          BY <2>1, <2>2, <3>1, <4>3
      <3>2. ASSUME NEW n \in m_model \ {".."}, m_selected = <<n>>
            PROVE  m_Entry' \in shown
        <4>1. PICK S : S = ToSet(m_curr_path) \cup {n}
          OBVIOUS
        <4>2. m_curr_path \in Seq(S) /\ n \in S
          BY <2>3, <4>1
        <4>3. Append(m_curr_path, n) = m_curr_path \o <<n>>
          BY <4>2, AppendIsConcat
        <4> QED
          BY <2>1, <2>2, <3>2, <4>3
      <3> QED
        BY <2>2, <3>1, <3>2
    <2> QED
      BY <1>1, <2>1, <2>4 DEF BrowseInv, BrowseTypeOK, FolderChosenWasShown, m_root_path
  <1>10. ASSUME NEW path \in there, RemoveFolder(path) PROVE BrowseInv'
    <2>1. /\ path # m_root_path /\ there' = there \ {path}
          /\ UNCHANGED <<dialog, m_curr_path, m_model, selection, m_selected, m_Entry, dialogs, shown>>
      BY <1>10 DEF RemoveFolder
    <2>2. there' \subseteq FolderTree /\ m_root_path' \in there'
      BY <1>1, <2>1 DEF m_root_path
    <2> QED
      BY <2>1, <2>2 DEF BrowseInv, BrowseTypeOK, FolderChosenWasShown
  <1> QED
    BY <1>4, <1>5, <1>6, <1>7, <1>8, <1>9, <1>10 DEF BrowseNext

(* The dialog, for any tree of folders and any number of dialogs.          *)
THEOREM BrowseInvariant == BrowseSpec => []BrowseInv
  <1>1. BrowseInit => BrowseInv
    <2> SUFFICES ASSUME BrowseInit PROVE BrowseInv
      OBVIOUS
    <2>1. 0 \in 0..MaxDialogs /\ Len(<< >>) <= 1
      BY BrowseBounds
    <2> QED
      BY <2>1, FolderTreeAssumption
      DEF BrowseInit, BrowseInv, BrowseTypeOK, FolderChosenWasShown, m_root_path
  <1>2. BrowseInv /\ UNCHANGED browseVars => BrowseInv'
    BY DEF browseVars, BrowseInv, BrowseTypeOK, FolderChosenWasShown, m_root_path
  <1> QED
    BY <1>1, <1>2, BrowseKeeps, PTL DEF BrowseSpec

(* The folder that the page of a brick takes from the dialog (SelectPath   *)
(* of BrowseFolder.cpp) is one that this dialog has shown.                 *)
THEOREM ChosenWasShown == BrowseSpec => []FolderChosenWasShown
  <1>1. BrowseInv => FolderChosenWasShown
    BY DEF BrowseInv
  <1> QED
    BY BrowseInvariant, <1>1, PTL

(* The variables of the dialog for folders stay in their types.            *)
THEOREM BrowseTypeCorrect == BrowseSpec => []BrowseTypeOK
  <1>1. BrowseInv => BrowseTypeOK
    BY DEF BrowseInv
  <1> QED
    BY BrowseInvariant, <1>1, PTL

-----------------------------------------------------------------------------
(* The old system layer (HardwareLayer).                                   *)
Running == {"look", "umount", "mount"}

LayerTypes ==
    /\ hd \in [Slots -> Hds \cup {NoHd}]
    /\ mounted_hd \in [Workers -> Seq(Hds \cup {NoHd})]
    /\ DOMAIN ask = Workers /\ DOMAIN pos = Workers /\ DOMAIN answered = Workers
    /\ doubt \in [Workers -> BOOLEAN] /\ outdated \in BOOLEAN
    /\ at \in [Workers -> Nat]
    /\ m_disk_pool \in Seq(Range(m_disk_pool))

(* A disk of the pool is where the pool says, and its position is the one  *)
(* its slot is known by.                                                   *)
EntryTrue(o) == hd[o.path] = o.id /\ (Known(o.path) => get_pos(o) = PositionOf[o.path])

(* While the hardware has not changed since the scan began, what the scan  *)
(* has read is true.                                                       *)
ScanInv ==
    /\ DOMAIN m_id_of_disk \subseteq Slots
    /\ scan = "disks" => todo \subseteq DOMAIN m_id_of_disk
    /\ \A k \in DOMAIN m_disk_pool : m_disk_pool[k].path \in Slots
    /\ outdated = FALSE =>
          /\ \A k \in DOMAIN m_disk_pool : EntryTrue(m_disk_pool[k])
          /\ scan \in {"lsiutil", "disks"} =>
                \A s \in DOMAIN m_id_of_disk : hd[s] = m_id_of_disk[s]
          /\ scan = "disks" =>
                \A s \in HasAddress :
                    hd[s] # NoHd /\ EnclosureOf[s] \in ListedEnclosures =>
                        s \in DOMAIN m_sas_address_num /\ m_sas_address_num[s] = NumberOf[s]

(* A worker that looks for a disk is at an entry of the pool.              *)
AskInv ==
    \A c \in Workers :
        /\ doubt[c] = FALSE => outdated = FALSE
        /\ ask[c] = "look" => at[c] > 0
        /\ ask[c] \in {"umount", "mount"}
               => at[c] \in DOMAIN m_disk_pool /\ get_pos(Here(c)) = pos[c]
        /\ ask[c] \in Running => answered[c] = NoHd

(* RightDisk, for one worker.                                              *)
RightFor(c) ==
    ask[c] = "returned" /\ answered[c] # NoHd /\ doubt[c] = FALSE =>
        /\ mounted_hd[c] # Unmounted /\ Last(mounted_hd[c]) = answered[c]
        /\ \E s \in Slots : hd[s] = answered[c] /\ (PositionOf[s] = pos[c] \/ ~Known(s))

LayerInv == LayerTypes /\ ScanInv /\ AskInv /\ \A c \in Workers : RightFor(c)

(* Where neither the hardware nor the workers' view of it moves, the parts *)
(* of the invariant about the workers stay.                                *)
LEMMA AskQuiet ==
    ASSUME AskInv, \A c \in Workers : RightFor(c),
           UNCHANGED <<hardware, m_disk_pool, pos, at, answered, outdated, doubt, ask>>
    PROVE  AskInv' /\ \A c \in Workers : RightFor(c)'
  <1>1. UNCHANGED <<hd, mounted_hd, m_disk_pool, pos, at, answered, outdated, doubt, ask>>
    BY DEF hardware
  <1>2. AskInv'
    BY <1>1 DEF AskInv, Here, get_pos
  <1>3. \A c \in Workers : RightFor(c)'
    BY <1>1 DEF RightFor, Known
  <1> QED
    BY <1>2, <1>3

(* A change of the hardware puts every worker and every scan in doubt.     *)
LEMMA PlugStep ==
    ASSUME LayerInv, NEW s \in Slots, NEW d \in Hds \cup {NoHd}, Plug(s, d)
    PROVE  LayerInv'
  <1>1. /\ hd' = [hd EXCEPT ![s] = d] /\ outdated' = TRUE /\ doubt' = [c \in Workers |-> TRUE]
        /\ UNCHANGED <<mounted_hd, m_id_of_disk, m_sas_address_num, m_disk_pool, scan, todo,
                       ask, pos, at, answered>>
    BY DEF Plug, poolVars, askVars
  <1>2. LayerTypes'
    BY <1>1 DEF LayerInv, LayerTypes
  <1>3. ScanInv'
    BY <1>1 DEF LayerInv, ScanInv
  <1>4. AskInv'
    BY <1>1 DEF LayerInv, AskInv, Here, get_pos
  <1>5. \A c \in Workers : RightFor(c)'
    BY <1>1 DEF RightFor
  <1> QED
    BY <1>2, <1>3, <1>4, <1>5 DEF LayerInv

(* The pool is emptied under the workers that run through it.              *)
LEMMA ClearStep == ASSUME LayerInv, Clear PROVE LayerInv'
  <1>1. /\ scan' = "fdisk" /\ DOMAIN m_id_of_disk' = {} /\ m_disk_pool' = << >> /\ outdated' = FALSE
        /\ ask' = [c \in Workers |-> IF ask[c] \in Running THEN "undefined" ELSE ask[c]]
        /\ UNCHANGED <<hd, mounted_hd, pos, at, answered, doubt>>
    BY DEF Clear, ScanStep, PoolTorn, otherThanPool, hardware, Running
  <1>2. << >> \in Seq(Range(<< >>))
    OBVIOUS
  <1>3. LayerTypes'
    BY <1>1, <1>2 DEF LayerInv, LayerTypes
  <1>4. ScanInv'
    BY <1>1 DEF ScanInv
  <1>5. \A c \in Workers : ask'[c] \notin Running
    BY <1>1 DEF Running
  <1>6. AskInv'
    BY <1>1, <1>5 DEF AskInv, Running
  <1>7. \A c \in Workers : ask'[c] = "returned" => ask[c] = "returned"
    BY <1>1
  <1>8. \A c \in Workers : RightFor(c)'
    BY <1>1, <1>7 DEF LayerInv, RightFor, Known
  <1> QED
    BY <1>3, <1>4, <1>6, <1>8 DEF LayerInv

(* The names of the devices.                                               *)
LEMMA InitIdsStep == ASSUME LayerInv, InitIds PROVE LayerInv'
  <1>1. /\ scan' = "lsiutil" /\ m_id_of_disk' = [s \in {t \in Slots : hd[t] # NoHd} |-> hd[s]]
        /\ UNCHANGED <<hardware, m_disk_pool, pos, at, answered, outdated, doubt, ask>>
    BY DEF InitIds, ScanStep, otherThanPool
  <1>2. UNCHANGED <<hd, mounted_hd>>
    BY <1>1 DEF hardware
  <1>3. LayerTypes'
    BY <1>1, <1>2 DEF LayerInv, LayerTypes
  <1>4. DOMAIN m_id_of_disk' \subseteq Slots
            /\ \A s \in DOMAIN m_id_of_disk' : hd[s] = m_id_of_disk'[s]
    BY <1>1
  <1>5. ScanInv'
    BY <1>1, <1>2, <1>4 DEF LayerInv, ScanInv, EntryTrue, Known, get_pos
  <1> QED
    BY <1>1, <1>3, <1>5, AskQuiet DEF LayerInv

(* The numbers of the addresses.                                           *)
LEMMA InitSasStep == ASSUME LayerInv, InitSasAddress PROVE LayerInv'
  <1>1. /\ scan = "lsiutil" /\ scan' = "disks" /\ todo' = DOMAIN m_id_of_disk
        /\ m_sas_address_num' = [a \in Addresses |-> NumberOf[a]]
        /\ UNCHANGED <<hardware, m_disk_pool, pos, at, answered, outdated, doubt, ask, m_id_of_disk>>
    BY DEF InitSasAddress, ScanStep, otherThanPool
  <1>2. UNCHANGED <<hd, mounted_hd>>
    BY <1>1 DEF hardware
  <1>3. LayerTypes'
    BY <1>1, <1>2 DEF LayerInv, LayerTypes
  <1>4. \A s \in HasAddress :
            hd[s] # NoHd /\ EnclosureOf[s] \in ListedEnclosures =>
                s \in DOMAIN m_sas_address_num' /\ m_sas_address_num'[s] = NumberOf[s]
    BY <1>1 DEF Addresses
  <1>5. ScanInv'
    BY <1>1, <1>2, <1>4 DEF LayerInv, ScanInv, EntryTrue, Known, get_pos
  <1> QED
    BY <1>1, <1>3, <1>5, AskQuiet DEF LayerInv

(* One more entry at the end of the pool.                                  *)
LEMMA PoolGrows ==
    ASSUME LayerTypes, NEW o, m_disk_pool' = Append(m_disk_pool, o)
    PROVE  /\ m_disk_pool' \in Seq(Range(m_disk_pool'))
           /\ \A k \in DOMAIN m_disk_pool : k \in DOMAIN m_disk_pool'
                  /\ m_disk_pool'[k] = m_disk_pool[k]
           /\ \A k \in DOMAIN m_disk_pool' : k \in DOMAIN m_disk_pool \/ m_disk_pool'[k] = o
  <1>1. PICK S : S = Range(m_disk_pool) \cup {o}
    OBVIOUS
  <1>2. m_disk_pool \in Seq(S) /\ o \in S
    BY <1>1 DEF LayerTypes
  <1>3. m_disk_pool' \in Seq(S)
    BY <1>2
  <1>4. m_disk_pool' \in Seq(Range(m_disk_pool'))
    BY <1>3, SeqOfRange
  <1>5. \A k \in DOMAIN m_disk_pool : k \in DOMAIN m_disk_pool' /\ m_disk_pool'[k] = m_disk_pool[k]
    BY <1>2
  <1>6. \A k \in DOMAIN m_disk_pool' : k \in DOMAIN m_disk_pool \/ m_disk_pool'[k] = o
    BY <1>2
  <1> QED
    BY <1>4, <1>5, <1>6

(* The entry of a disk is true, if what the scan has read still is.        *)
LEMMA DiskObjTrue ==
    ASSUME LayerInv, scan = "disks", NEW s \in todo, HasSasAddress(s)
    PROVE  DiskObj(s).path \in Slots /\ (outdated = FALSE => EntryTrue(DiskObj(s)))
  <1>1. s \in HasAddress /\ hd[s] # NoHd /\ s \in DOMAIN m_id_of_disk /\ s \in Slots
    BY SlotsAssumption DEF HasSasAddress, LayerInv, ScanInv
  <1>2. DiskObj(s).path = s /\ DiskObj(s).id = m_id_of_disk[s]
    BY DEF DiskObj
  <1>3. ASSUME outdated = FALSE PROVE hd[s] = m_id_of_disk[s]
    BY <1>1, <1>3 DEF LayerInv, ScanInv
  <1>4. ASSUME outdated = FALSE, Known(s) PROVE get_pos(DiskObj(s)) = PositionOf[s]
    <2>1. EnclosureOf[s] \in ListedEnclosures \cap DOMAIN Jbods
      BY <1>4 DEF Known
    <2>2. Number(s) = NumberOf[s]
      BY <1>1, <1>4, <2>1 DEF LayerInv, ScanInv, Number
    <2>3. JbodOf(s) = Jbods[EnclosureOf[s]]
      BY <2>1 DEF JbodOf
    <2>4. DiskObj(s).physics_index = NumberOf[s] /\ DiskObj(s).jbod = Jbods[EnclosureOf[s]]
      BY <2>2, <2>3 DEF DiskObj
    <2> QED
      BY <1>1, <2>1, <2>4, JbodsAssumption DEF get_pos
  <1> QED
    BY <1>1, <1>2, <1>3, <1>4 DEF EntryTrue

(* A disk joins the pool, or is passed over.                               *)
LEMMA GenDiskStep == ASSUME LayerInv, NEW s \in Slots, GenDisk(s) PROVE LayerInv'
  <1>1. /\ scan = "disks" /\ s \in todo /\ todo' = todo \ {s}
        /\ UNCHANGED <<m_id_of_disk, m_sas_address_num, scan, hardware, pos, at, answered, doubt, outdated>>
    BY DEF GenDisk, otherThanPool
  <1>2. UNCHANGED <<hd, mounted_hd>>
    BY <1>1 DEF hardware
  <1>3. CASE UNCHANGED <<m_disk_pool, ask>>
    <2>1. LayerTypes'
      BY <1>1, <1>2, <1>3 DEF LayerInv, LayerTypes
    <2>2. ScanInv'
      BY <1>1, <1>2, <1>3 DEF LayerInv, ScanInv, EntryTrue, Known, get_pos
    <2> QED
      BY <1>1, <1>3, <2>1, <2>2, AskQuiet DEF LayerInv
  <1>4. CASE /\ HasSasAddress(s) /\ m_disk_pool' = Append(m_disk_pool, DiskObj(s))
             /\ PoolTorn \/ UNCHANGED ask
    <2>1. PICK o : o = DiskObj(s)
      OBVIOUS
    <2>2. o.path \in Slots /\ (outdated = FALSE => EntryTrue(o))
      BY <1>1, <1>4, <2>1, DiskObjTrue
    <2>3. /\ m_disk_pool' \in Seq(Range(m_disk_pool'))
          /\ \A k \in DOMAIN m_disk_pool : k \in DOMAIN m_disk_pool'
                 /\ m_disk_pool'[k] = m_disk_pool[k]
          /\ \A k \in DOMAIN m_disk_pool' : k \in DOMAIN m_disk_pool \/ m_disk_pool'[k] = o
      BY <1>4, <2>1, PoolGrows DEF LayerInv
    <2>4. DOMAIN ask' = Workers /\ \A c \in Workers : ask'[c] = ask[c] \/ ask'[c] = "undefined"
      BY <1>4 DEF PoolTorn, LayerInv, LayerTypes
    <2>5. LayerTypes'
      BY <1>1, <1>2, <2>3, <2>4 DEF LayerInv, LayerTypes
    <2>6. ScanInv'
      <3>1. \A k \in DOMAIN m_disk_pool' : m_disk_pool'[k].path \in Slots
        BY <2>2, <2>3 DEF LayerInv, ScanInv
      <3>2. ASSUME outdated = FALSE, NEW k \in DOMAIN m_disk_pool' PROVE EntryTrue(m_disk_pool'[k])
        BY <2>2, <2>3, <3>2 DEF LayerInv, ScanInv
      <3>3. outdated' = FALSE => \A k \in DOMAIN m_disk_pool' : EntryTrue(m_disk_pool[k])'
        BY <1>1, <1>2, <3>2 DEF EntryTrue, Known, get_pos
      <3> QED
        BY <1>1, <1>2, <3>1, <3>3 DEF LayerInv, ScanInv
    <2>7. AskInv'
      <3> SUFFICES ASSUME NEW c \in Workers
                   PROVE  /\ doubt'[c] = FALSE => outdated' = FALSE
                          /\ ask'[c] = "look" => at'[c] > 0
                          /\ ask'[c] \in {"umount", "mount"} =>
                                at'[c] \in DOMAIN m_disk_pool' /\ get_pos(Here(c))' = pos'[c]
                          /\ ask'[c] \in Running => answered'[c] = NoHd
        BY DEF AskInv
      <3>1. CASE ask'[c] = "undefined"
        BY <1>1, <3>1 DEF LayerInv, AskInv, Running
      <3>2. CASE ask'[c] = ask[c]
        BY <1>1, <2>3, <3>2 DEF LayerInv, AskInv, Here, get_pos
      <3> QED
        BY <2>4, <3>1, <3>2
    <2>8. \A c \in Workers : RightFor(c)'
      BY <1>1, <1>2, <2>4 DEF LayerInv, RightFor, Known
    <2> QED
      BY <2>5, <2>6, <2>7, <2>8 DEF LayerInv
  <1> QED
    BY <1>3, <1>4 DEF GenDisk

(* The monitor, the flush thread and the end of a scan leave the pool.     *)
LEMMA ThreadStep ==
    ASSUME LayerInv, ScanEnds \/ Monitor \/ Flush \/ StopMonitor
    PROVE  LayerInv'
  <1>1. /\ UNCHANGED <<hardware, m_disk_pool, pos, at, answered, outdated, doubt, ask>>
        /\ UNCHANGED <<m_id_of_disk, m_sas_address_num, todo>>
        /\ UNCHANGED scan \/ scan' = "done" \/ scan' = "clear"
    <2>1. CASE ScanEnds
      BY <2>1 DEF ScanEnds, ScanStep, askVars, history
    <2>2. CASE Monitor
      BY <2>2 DEF Monitor, Listen, SelectTimesOut, Receive, Increment, otherThanMonitor,
                  poolVars, askVars
    <2>3. CASE Flush
      BY <2>3 DEF Flush, Settled, FlushScans, NotSettled, otherThanFlush, askVars, history
    <2>4. CASE StopMonitor
      BY <2>4 DEF StopMonitor, poolVars, askVars, history
    <2> QED
      BY <2>1, <2>2, <2>3, <2>4
  <1>2. UNCHANGED <<hd, mounted_hd>>
    BY <1>1 DEF hardware
  <1>3. LayerTypes'
    BY <1>1, <1>2 DEF LayerInv, LayerTypes
  <1>4. ScanInv'
    BY <1>1, <1>2 DEF LayerInv, ScanInv, EntryTrue, Known, get_pos
  <1> QED
    BY <1>1, <1>3, <1>4, AskQuiet DEF LayerInv

(* For the workers that do not move, nothing changes.                      *)
LEMMA OthersAsk ==
    ASSUME LayerInv, NEW c \in Workers,
           UNCHANGED <<hd, m_disk_pool, outdated>>,
           \A e \in Workers \ {c} :
               /\ ask'[e] = ask[e] /\ pos'[e] = pos[e] /\ at'[e] = at[e]
                      /\ answered'[e] = answered[e]
               /\ doubt'[e] = doubt[e] /\ mounted_hd'[e] = mounted_hd[e],
           doubt'[c] = FALSE => outdated' = FALSE,
           ask'[c] = "look" => at'[c] > 0,
           ask'[c] \in {"umount", "mount"}
               => at'[c] \in DOMAIN m_disk_pool' /\ get_pos(Here(c))' = pos'[c],
           ask'[c] \in Running => answered'[c] = NoHd,
           RightFor(c)'
    PROVE  AskInv' /\ \A e \in Workers : RightFor(e)'
  <1>1. ASSUME NEW e \in Workers
        PROVE  /\ doubt'[e] = FALSE => outdated' = FALSE
               /\ ask'[e] = "look" => at'[e] > 0
               /\ ask'[e] \in {"umount", "mount"} =>
                     at'[e] \in DOMAIN m_disk_pool' /\ get_pos(Here(e))' = pos'[e]
               /\ ask'[e] \in Running => answered'[e] = NoHd
    <2>1. CASE e = c
      BY <2>1
    <2>2. CASE e # c
      BY <2>2 DEF LayerInv, AskInv, Here, get_pos
    <2> QED
      BY <2>1, <2>2
  <1>2. ASSUME NEW e \in Workers, e # c PROVE RightFor(e)'
    BY <1>2 DEF LayerInv, RightFor, Known
  <1> QED
    BY <1>1, <1>2 DEF AskInv

(* What a worker does leaves the scan.                                     *)
LEMMA AskLeavesScan ==
    ASSUME LayerInv, UNCHANGED <<hd, poolVars, outdated>>
    PROVE  ScanInv'
  BY DEF LayerInv, ScanInv, EntryTrue, Known, get_pos, poolVars

(* A call begins before the first entry, in doubt if the scan is.          *)
LEMMA GetDiskidStep ==
    ASSUME LayerInv, NEW c \in Workers, NEW p, GetDiskid(c, p)
    PROVE  LayerInv'
  <1>1. /\ UNCHANGED <<hd, poolVars, outdated, mounted_hd>>
        /\ ask' = [ask EXCEPT ![c] = "look"] /\ pos' = [pos EXCEPT ![c] = p]
        /\ at' = [at EXCEPT ![c] = 1] /\ answered' = [answered EXCEPT ![c] = NoHd]
        /\ doubt' = [doubt EXCEPT ![c] = outdated]
    BY DEF GetDiskid, AskGoto, otherThanAsk, poolVars
  <1>2. UNCHANGED m_disk_pool
    BY <1>1 DEF poolVars
  <1>3. LayerTypes'
    BY <1>1, <1>2 DEF LayerInv, LayerTypes
  <1>4. ask'[c] = "look" /\ at'[c] = 1 /\ answered'[c] = NoHd /\ doubt'[c] = outdated
    BY <1>1 DEF LayerInv, LayerTypes
  <1>5. RightFor(c)'
    BY <1>4 DEF RightFor
  <1>6. \A e \in Workers \ {c} :
            /\ ask'[e] = ask[e] /\ pos'[e] = pos[e] /\ at'[e] = at[e] /\ answered'[e] = answered[e]
            /\ doubt'[e] = doubt[e] /\ mounted_hd'[e] = mounted_hd[e]
    BY <1>1 DEF LayerInv, LayerTypes
  <1>7. /\ doubt'[c] = FALSE => outdated' = FALSE
        /\ ask'[c] = "look" => at'[c] > 0
        /\ ask'[c] \notin {"umount", "mount"}
        /\ ask'[c] \in Running => answered'[c] = NoHd
    BY <1>1, <1>4
  <1>8. AskInv' /\ \A e \in Workers : RightFor(e)'
    BY <1>1, <1>2, <1>7, <1>5, <1>6, OthersAsk
  <1> QED
    BY <1>1, <1>3, <1>8, AskLeavesScan DEF LayerInv

(* A call that ends without a disk tells none.                             *)
LEMMA LookStep == ASSUME LayerInv, NEW c \in Workers, Look(c) PROVE LayerInv'
  <1>1. /\ UNCHANGED <<hd, poolVars, outdated, mounted_hd, pos, answered, doubt>>
        /\ ask[c] = "look"
    BY DEF Look, otherThanAsk, poolVars
  <1>2. UNCHANGED m_disk_pool
    BY <1>1 DEF poolVars
  <1>3. at[c] \in Nat /\ at[c] > 0 /\ answered[c] = NoHd /\ Len(m_disk_pool) \in Nat
        /\ DOMAIN m_disk_pool = 1..Len(m_disk_pool)
    BY <1>1 DEF LayerInv, LayerTypes, AskInv, Running
  <1>4. \/ /\ ask' = [ask EXCEPT ![c] = "returned"] /\ at' = [at EXCEPT ![c] = 0]
        \/ /\ at[c] <= Len(m_disk_pool) /\ get_pos(Here(c)) = pos[c]
           /\ ask' = [ask EXCEPT ![c] = "umount"] /\ at' = at
        \/ at' = [at EXCEPT ![c] = @ + 1] /\ ask' = ask
    BY DEF Look, AskReturns, NextDisk
  <1>5. LayerTypes'
    BY <1>1, <1>2, <1>3, <1>4 DEF LayerInv, LayerTypes
  <1>6. \A e \in Workers \ {c} : ask'[e] = ask[e] /\ at'[e] = at[e]
    BY <1>4 DEF LayerInv, LayerTypes
  <1>7. /\ ask'[c] = "look" => at'[c] > 0
        /\ ask'[c] \in {"umount", "mount"}
               => at'[c] \in DOMAIN m_disk_pool' /\ get_pos(Here(c))' = pos'[c]
    <2>1. CASE ask' = [ask EXCEPT ![c] = "returned"] /\ at' = [at EXCEPT ![c] = 0]
      BY <2>1 DEF LayerInv, LayerTypes
    <2>2. CASE /\ at[c] <= Len(m_disk_pool) /\ get_pos(Here(c)) = pos[c]
               /\ ask' = [ask EXCEPT ![c] = "umount"] /\ at' = at
      BY <1>1, <1>2, <1>3, <2>2 DEF LayerInv, LayerTypes, Here, get_pos
    <2>3. CASE at' = [at EXCEPT ![c] = @ + 1] /\ ask' = ask
      BY <1>1, <1>3, <2>3 DEF LayerInv, LayerTypes
    <2> QED
      BY <1>4, <2>1, <2>2, <2>3
  <1>8. /\ doubt'[c] = FALSE => outdated' = FALSE
        /\ answered'[c] = NoHd
    BY <1>1, <1>3 DEF LayerInv, AskInv
  <1>9. RightFor(c)'
    BY <1>8 DEF RightFor
  <1>10. AskInv' /\ \A e \in Workers : RightFor(e)'
    BY <1>1, <1>2, <1>6, <1>7, <1>8, <1>9, OthersAsk
  <1> QED
    BY <1>1, <1>5, <1>10, AskLeavesScan DEF LayerInv

(* What is visible of a target is taken off it, or stays below.            *)
LEMMA UmountStep == ASSUME LayerInv, NEW c \in Workers, Umount(c) PROVE LayerInv'
  <1>1. /\ UNCHANGED <<hd, poolVars, outdated, pos, at, answered, doubt>>
        /\ ask[c] = "umount" /\ ask' = [ask EXCEPT ![c] = "mount"]
        /\ \/ mounted_hd[c] # << >> /\ mounted_hd' = [mounted_hd EXCEPT ![c] = Front(@)]
           \/ mounted_hd' = mounted_hd
    BY DEF Umount, AskGoto, Unmounted, otherThanAsk, poolVars
  <1>2. UNCHANGED m_disk_pool
    BY <1>1 DEF poolVars
  <1>3. mounted_hd' \in [Workers -> Seq(Hds \cup {NoHd})]
        /\ \A e \in Workers \ {c} : mounted_hd'[e] = mounted_hd[e]
    <2>1. CASE mounted_hd[c] # << >> /\ mounted_hd' = [mounted_hd EXCEPT ![c] = Front(@)]
      <3>1. mounted_hd[c] \in Seq(Hds \cup {NoHd})
        BY DEF LayerInv, LayerTypes
      <3>2. PICK m \in Seq(Hds \cup {NoHd}) : m = mounted_hd[c]
        BY <3>1
      <3>3. Front(m) \in Seq(Hds \cup {NoHd})
        BY <2>1, <3>2, SubSeqProperties DEF Front
      <3> QED
        BY <2>1, <3>2, <3>3 DEF LayerInv, LayerTypes
    <2> QED
      BY <1>1, <2>1 DEF LayerInv, LayerTypes
  <1>4. LayerTypes'
    BY <1>1, <1>2, <1>3 DEF LayerInv, LayerTypes
  <1>5. ask'[c] = "mount" /\ \A e \in Workers \ {c} : ask'[e] = ask[e]
    BY <1>1 DEF LayerInv, LayerTypes
  <1>6. /\ at'[c] \in DOMAIN m_disk_pool' /\ get_pos(Here(c))' = pos'[c]
        /\ answered'[c] = NoHd /\ (doubt'[c] = FALSE => outdated' = FALSE)
    BY <1>1, <1>2 DEF LayerInv, AskInv, Here, get_pos, Running
  <1>7. RightFor(c)'
    BY <1>5 DEF RightFor
  <1>8. AskInv' /\ \A e \in Workers : RightFor(e)'
    BY <1>1, <1>2, <1>3, <1>5, <1>6, <1>7, OthersAsk
  <1> QED
    BY <1>1, <1>4, <1>8, AskLeavesScan DEF LayerInv

(* The disk that is told is the one that was mounted last.                 *)
LEMMA MountStep == ASSUME LayerInv, NEW c \in Workers, MountLocal(c) PROVE LayerInv'
  <1>1. /\ UNCHANGED <<hd, poolVars, outdated, pos, doubt>>
        /\ ask[c] = "mount"
        /\ \/ hd[Here(c).path] # NoHd /\ MountReturns(c, TRUE, TRUE)
           \/ MountReturns(c, TRUE, FALSE)
           \/ MountReturns(c, FALSE, FALSE)
    BY DEF MountLocal, otherThanAsk, poolVars
  <1>2. UNCHANGED m_disk_pool
    BY <1>1 DEF poolVars
  <1>3. PICK m \in Seq(Hds \cup {NoHd}) : m = mounted_hd[c]
    BY DEF LayerInv, LayerTypes
  <1>4. at[c] \in DOMAIN m_disk_pool /\ get_pos(Here(c)) = pos[c] /\ at[c] \in Nat
        /\ answered[c] = NoHd /\ (doubt[c] = FALSE => outdated = FALSE)
    BY <1>1 DEF LayerInv, LayerTypes, AskInv, Running
  <1>5. PICK p \in Slots : p = Here(c).path
    BY <1>4 DEF LayerInv, ScanInv, Here
  <1>6. PICK d \in Hds \cup {NoHd} : d = hd[p]
    BY DEF LayerInv, LayerTypes
  <1>7. Append(m, d) \in Seq(Hds \cup {NoHd}) /\ Append(m, d) # << >> /\ Last(Append(m, d)) = d
    BY DEF Last
  <1>8. mounted_hd' = [mounted_hd EXCEPT ![c] = Append(m, d)] \/ mounted_hd' = mounted_hd
    BY <1>1, <1>3, <1>5, <1>6 DEF MountReturns
  <1>9. \/ /\ mounted_hd' = [mounted_hd EXCEPT ![c] = Append(m, d)] /\ d # NoHd
           /\ ask' = [ask EXCEPT ![c] = "returned"] /\ at' = [at EXCEPT ![c] = 0]
           /\ answered' = [answered EXCEPT ![c] = Here(c).id]
        \/ /\ ask' = [ask EXCEPT ![c] = "look"] /\ at' = [at EXCEPT ![c] = @ + 1]
           /\ answered' = answered
    BY <1>1, <1>3, <1>5, <1>6 DEF MountReturns, MountResult, AskReturns, NextDisk
  <1>10. mounted_hd' \in [Workers -> Seq(Hds \cup {NoHd})]
         /\ \A e \in Workers \ {c} : mounted_hd'[e] = mounted_hd[e]
    BY <1>7, <1>8 DEF LayerInv, LayerTypes
  <1>11. /\ at' \in [Workers -> Nat] /\ DOMAIN ask' = Workers /\ DOMAIN answered' = Workers
         /\ \A e \in Workers \ {c} : ask'[e] = ask[e] /\ at'[e] = at[e]
                /\ answered'[e] = answered[e]
    BY <1>4, <1>9 DEF LayerInv, LayerTypes
  <1>12. LayerTypes'
    BY <1>1, <1>2, <1>10, <1>11 DEF LayerInv, LayerTypes
  <1>13. /\ ask'[c] \in {"returned", "look"} /\ (ask'[c] = "look" => at'[c] > 0)
         /\ ask'[c] \in Running => answered'[c] = NoHd
    BY <1>4, <1>9 DEF LayerInv, LayerTypes, Running
  <1>14. RightFor(c)'
    <2> SUFFICES ASSUME ask'[c] = "returned", answered'[c] # NoHd, doubt'[c] = FALSE
                 PROVE  /\ mounted_hd'[c] # Unmounted /\ Last(mounted_hd'[c]) = answered'[c]
                        /\ \E s \in Slots : hd'[s] = answered'[c]
                                            /\ (PositionOf[s] = pos'[c] \/ ~Known(s))
      BY DEF RightFor, Unmounted, Known
    <2>1. /\ mounted_hd' = [mounted_hd EXCEPT ![c] = Append(m, d)]
          /\ answered' = [answered EXCEPT ![c] = Here(c).id]
      BY <1>9 DEF LayerInv, LayerTypes
    <2>2. mounted_hd'[c] = Append(m, d) /\ answered'[c] = Here(c).id
      BY <2>1 DEF LayerInv, LayerTypes
    <2>3. outdated = FALSE
      BY <1>1, <1>4
    <2>4. EntryTrue(Here(c))
      BY <1>4, <2>3 DEF LayerInv, ScanInv, Here
    <2>5. d = Here(c).id /\ (Known(p) => PositionOf[p] = pos[c])
      BY <1>4, <1>5, <1>6, <2>4 DEF EntryTrue
    <2> QED
      BY <1>1, <1>6, <1>7, <2>2, <2>5 DEF Unmounted
  <1>15. AskInv' /\ \A e \in Workers : RightFor(e)'
    BY <1>1, <1>2, <1>4, <1>10, <1>11, <1>13, <1>14, OthersAsk
  <1> QED
    BY <1>1, <1>12, <1>15, AskLeavesScan DEF LayerInv

(* Every step keeps the invariant.                                         *)
LEMMA LayerKeeps == ASSUME LayerInv, [HardwareNext]_hardwareVars PROVE LayerInv'
  <1>1. CASE \E s \in Slots, d \in Hds \cup {NoHd} : Plug(s, d)
    BY <1>1, PlugStep
  <1>2. CASE Scan
    BY <1>2, ClearStep, InitIdsStep, InitSasStep, GenDiskStep, ThreadStep DEF Scan
  <1>3. CASE Monitor \/ Flush \/ StopMonitor
    BY <1>3, ThreadStep
  <1>4. CASE \E c \in Workers : (\E p \in BrickPositions : GetDiskid(c, p)) \/ Ask(c)
    BY <1>4, GetDiskidStep, LookStep, UmountStep, MountStep DEF Ask
  <1>5. CASE UNCHANGED hardwareVars
    <2>1. /\ UNCHANGED <<hardware, m_disk_pool, pos, at, answered, outdated, doubt, ask>>
          /\ UNCHANGED <<hd, mounted_hd, poolVars, at, ask>>
      BY <1>5 DEF hardwareVars, hardware, poolVars, askVars, history, poolVars
    <2>2. LayerTypes'
      BY <2>1 DEF LayerInv, LayerTypes, poolVars
    <2> QED
      BY <2>1, <2>2, AskQuiet, AskLeavesScan DEF LayerInv
  <1> QED
    BY <1>1, <1>2, <1>3, <1>4, <1>5 DEF HardwareNext

(* The invariant holds when the process starts.                            *)
LEMMA LayerStarts == ASSUME HardwareInit PROVE LayerInv
  <1>1. << >> \in Seq(Range(<< >>)) /\ << >> \in Seq(Hds \cup {NoHd})
    OBVIOUS
  <1>2. LayerTypes
    BY <1>1 DEF HardwareInit, LayerTypes, Unmounted
  <1>3. ScanInv
    BY DEF HardwareInit, ScanInv
  <1>4. AskInv
    BY DEF HardwareInit, AskInv, Running
  <1>5. \A c \in Workers : RightFor(c)
    BY DEF HardwareInit, RightFor
  <1> QED
    BY <1>2, <1>3, <1>4, <1>5 DEF LayerInv

(* The invariant of the old system layer.                                  *)
THEOREM LayerInvariant == HardwareSpec => []LayerInv
  BY LayerStarts, LayerKeeps, PTL DEF HardwareSpec

(* A worker is told a disk only when that disk is what it finds on its     *)
(* target, and sits where it asked (get_diskid in syslayer_ori), for any   *)
(* slots, enclosures wired as they are configured, disks and workers.      *)
THEOREM DiskIsRight == HardwareSpec => []RightDisk
  <1>1. LayerInv => RightDisk
    BY DEF LayerInv, LayerTypes, RightFor, RightDisk
  <1> QED
    BY <1>1, LayerInvariant, PTL

-----------------------------------------------------------------------------
(* The daemon (Daemon).  The commands in the FIFO are of clients that have *)
(* written them and were not obeyed.                                       *)
PipeInv ==
    /\ pipe \in Seq(Clients) /\ r_buf \in Seq(Clients)
    /\ client \in [Clients -> {"new", "wants", "open", "written", "gone"}]
    /\ obeyed \subseteq Clients
    /\ \A c \in obeyed : client[c] \in {"written", "gone"}
    /\ \A k \in DOMAIN pipe : pipe[k] \notin obeyed /\ client[pipe[k]] \in {"written", "gone"}

(* A read takes all that is there; what is obeyed is its first command.    *)
LEMMA ReadsOnce ==
    ASSUME PipeInv, r_buf' = pipe, pipe # << >>, pipe' = << >>, UNCHANGED client,
           obeyed' = obeyed \cup {r_buf'[1]}
    PROVE  PipeInv' /\ r_buf'[1] \notin obeyed
  <1>1. 1 \in DOMAIN pipe /\ pipe[1] \in Clients
    BY DEF PipeInv
  <1>2. pipe[1] \notin obeyed /\ client[pipe[1]] \in {"written", "gone"}
    BY <1>1 DEF PipeInv
  <1>3. pipe' \in Seq(Clients) /\ DOMAIN pipe' = {}
    OBVIOUS
  <1> QED
    BY <1>1, <1>2, <1>3 DEF PipeInv

(* The control thread.                                                     *)
LEMMA CtrStep ==
    ASSUME PipeInv, Ctr
    PROVE  PipeInv' /\ (CtrStartsBrick \/ CtrStops => r_buf'[1] \notin obeyed)
  <1>1. CASE CtrStartsBrick \/ CtrStops
    <2>1. /\ r_buf' = pipe /\ r_buf' # << >> /\ pipe' = << >> /\ UNCHANGED client
          /\ obeyed' = obeyed \cup {r_buf'[1]}
      BY <1>1 DEF CtrStartsBrick, CtrStops, CtrReads, ReadInto, Seen, LongEnough
    <2> QED
      BY <2>1, ReadsOnce
  <1>2. CASE ~CtrStartsBrick /\ ~CtrStops
    <2>1. /\ UNCHANGED <<client, obeyed>> /\ (r_buf' = r_buf \/ r_buf' = pipe)
          /\ pipe' = pipe \/ pipe' = << >>
      BY <1>2 DEF Ctr, CtrOpen, CtrIgnores, CtrStarted, CtrStopReturns, CtrClose, CtrReads,
                  ReadInto,
                  fifoVars
    <2>2. << >> \in Seq(Clients) /\ DOMAIN << >> = {}
      OBVIOUS
    <2> QED
      BY <1>2, <2>1, <2>2 DEF PipeInv
  <1> QED
    BY <1>1, <1>2

(* A client goes from its control point to the next, for good.             *)
LEMMA ClientGoes ==
    ASSUME PipeInv, NEW c \in Clients, NEW p \in {"new", "wants", "open", "written", "gone"},
           NEW here, ClientGoto(c, here, p),
           here \in {"written", "gone"} => p \in {"written", "gone"},
           UNCHANGED <<obeyed, r_buf>>, pipe' = pipe \/ pipe' = << >>
    PROVE  PipeInv'
  <1>1. /\ client' \in [Clients -> {"new", "wants", "open", "written", "gone"}]
        /\ \A d \in Clients : client[d] \in {"written", "gone"}
               => client'[d] \in {"written", "gone"}
    BY DEF ClientGoto, PipeInv
  <1>2. << >> \in Seq(Clients) /\ DOMAIN << >> = {}
    OBVIOUS
  <1>3. \A k \in DOMAIN pipe : pipe[k] \in Clients
    BY DEF PipeInv
  <1> QED
    BY <1>1, <1>2, <1>3 DEF PipeInv

(* A client writes once.                                                   *)
LEMMA WritesStep == ASSUME PipeInv, NEW c \in Clients, ClientWrites(c) PROVE PipeInv'
  <1>1. /\ client[c] = "open" /\ client' = [client EXCEPT ![c] = "written"]
        /\ pipe' = Append(pipe, c) /\ UNCHANGED <<obeyed, r_buf>>
    BY DEF ClientWrites, ClientGoto, ctrVars
  <1>2. c \notin obeyed
    BY <1>1 DEF PipeInv
  <1>3. /\ pipe' \in Seq(Clients)
        /\ \A k \in DOMAIN pipe' : (k \in DOMAIN pipe /\ pipe'[k] = pipe[k]) \/ pipe'[k] = c
    BY <1>1 DEF PipeInv
  <1>4. \A k \in DOMAIN pipe : pipe[k] \in Clients
    BY DEF PipeInv
  <1>5. /\ client' \in [Clients -> {"new", "wants", "open", "written", "gone"}]
        /\ \A d \in Clients \ {c} : client'[d] = client[d]
        /\ client'[c] = "written"
    BY <1>1 DEF PipeInv
  <1> QED
    BY <1>1, <1>2, <1>3, <1>4, <1>5 DEF PipeInv

(* Every step keeps the FIFO so, and obeys only what was not obeyed.       *)
LEMMA DaemonKeeps ==
    ASSUME PipeInv, [DaemonNext]_daemonVars
    PROVE  PipeInv' /\ (CtrStartsBrick \/ CtrStops => r_buf'[1] \notin obeyed)
  <1>1. CASE Ctr
    BY <1>1, CtrStep
  <1>2. CASE ~Ctr
    <2>1. ~CtrStartsBrick /\ ~CtrStops
      BY <1>2 DEF Ctr
    <2>2. CASE UNCHANGED <<pipe, client, obeyed, r_buf>>
      BY <2>1, <2>2 DEF PipeInv
    <2>3. ASSUME NEW c \in Clients, ClientComes(c) \/ ClientOpens(c) \/ ClientEnds(c) PROVE PipeInv'
      <3>1. CASE ClientComes(c)
        BY <3>1, ClientGoes DEF ClientComes, ctrVars
      <3>2. CASE ClientOpens(c)
        BY <3>2, ClientGoes DEF ClientOpens
      <3>3. CASE ClientEnds(c)
        BY <3>3, ClientGoes DEF ClientEnds, ctrVars
      <3> QED
        BY <2>3, <3>1, <3>2, <3>3
    <2>4. \/ UNCHANGED <<pipe, client, obeyed, r_buf>>
          \/ \E c \in Clients : ClientComes(c) \/ Client(c) \/ ClientEnds(c)
      BY <1>2 DEF DaemonNext, daemonVars, Service, TaskEnters, TaskRefused, WorkerLeaves, Main,
                  LoadBrick, Loaded, BackupInitFails, Start, LoopEnds, Exit, SigTermReturns,
                  SigTerm,
                  ListComes, ListEnds, ViewOpen, ViewWrite, ctrVars, fifoVars
    <2> QED
      BY <2>1, <2>2, <2>3, <2>4, WritesStep DEF Client
  <1> QED
    BY <1>1, <1>2

(* No command is in the FIFO at first.                                     *)
LEMMA DaemonStarts == ASSUME DaemonInit PROVE PipeInv
  BY DEF DaemonInit, PipeInv

(* The daemon obeys no command twice (client_ctr in deamon.cpp), for any   *)
(* number of clients, whatever the clients, the users and the workers do   *)
(* between its steps.                                                      *)
THEOREM NeverObeyedAgain == DaemonSpec => ObeyedOnce
  <1>1. PipeInv /\ [DaemonNext]_daemonVars
            => [CtrStartsBrick \/ CtrStops => r_buf'[1] \notin obeyed]_daemonVars
    BY DaemonKeeps
  <1>2. DaemonSpec => []PipeInv
    BY DaemonStarts, DaemonKeeps, PTL DEF DaemonSpec
  <1> QED
    BY <1>1, <1>2, PTL DEF DaemonSpec, ObeyedOnce

-----------------------------------------------------------------------------
(* The types of the daemon: each part keeps its own.                       *)

MainTypes ==
    /\ mpc \in {"load", "start", "loop", "destroy", "exited", "killed"}
    /\ hpc \in {"none", "joining", "done"}
    /\ loaded \subseteq Bricks
ServiceTypes ==
    /\ asked \subseteq Bricks /\ working \subseteq Bricks /\ told \subseteq Bricks
    /\ pool \in {"none", "alive", "ended"}
CtrTypes == cpc \in {"open", "opening", "read", "start", "joining", "close", "done"}
CommandTypes == cmd \in [Clients -> Commands \cup {NoCommand}]
ViewTypes == vpc \in {"open", "write"} /\ leaked \in 0..MaxFds

FlagTypes == running \in BOOLEAN /\ tangled \in BOOLEAN /\ viewer \in BOOLEAN

DaemonTypes ==
    PipeInv /\ MainTypes /\ ServiceTypes /\ CtrTypes /\ CommandTypes /\ ViewTypes

(* The three flags stay flags: each step keeps one, clears it or sets it. *)
LEMMA FlagsKept == ASSUME FlagTypes, [DaemonNext]_daemonVars PROVE FlagTypes'
  <1> USE DEF mainVars, svcVars, ctrVars, fifoVars, viewVars
  <1>1. running \in BOOLEAN /\ tangled \in BOOLEAN /\ viewer \in BOOLEAN
    BY DEF FlagTypes
  <1>2. CASE UNCHANGED daemonVars
    BY <1>1, <1>2 DEF daemonVars, FlagTypes
  <1>3. ASSUME NEW b \in Bricks, Service(b) PROVE FlagTypes'
    BY <1>1, <1>3 DEF Service, TaskEnters, TaskRefused, WorkerLeaves, FlagTypes
  <1>4. ASSUME NEW b \in Bricks, LoadBrick(b) PROVE FlagTypes'
    BY <1>1, <1>4 DEF LoadBrick, FlagTypes
  <1>5. CASE Loaded
    BY <1>1, <1>5 DEF Loaded, FlagTypes
  <1>6. CASE BackupInitFails
    BY <1>1, <1>6 DEF BackupInitFails, FlagTypes
  <1>7. CASE Start
    BY <1>1, <1>7 DEF Start, FlagTypes
  <1>8. CASE LoopEnds
    BY <1>1, <1>8 DEF LoopEnds, FlagTypes
  <1>9. CASE Exit
    BY <1>1, <1>9 DEF Exit, StopReturns, FlagTypes
  <1>10. CASE SigTermReturns
    BY <1>1, <1>10 DEF SigTermReturns, StopReturns, RunningAfterStop, FlagTypes
  <1>11. CASE SigTerm
    BY <1>1, <1>11 DEF SigTerm, StopBegins, FlagTypes
  <1>12. CASE CtrOpen
    BY <1>1, <1>12 DEF CtrOpen, FlagTypes
  <1>13. CASE CtrIgnores
    BY <1>1, <1>13 DEF CtrIgnores, CtrReads, FlagTypes
  <1>14. CASE CtrStartsBrick
    BY <1>1, <1>14 DEF CtrStartsBrick, CtrReads, FlagTypes
  <1>15. CASE CtrStarted
    BY <1>1, <1>15 DEF CtrStarted, FlagTypes
  <1>16. CASE CtrStops
    BY <1>1, <1>16 DEF CtrStops, StopBegins, FlagTypes
  <1>17. CASE CtrStopReturns
    BY <1>1, <1>17 DEF CtrStopReturns, StopReturns, RunningAfterStop, FlagTypes
  <1>18. CASE CtrClose
    BY <1>1, <1>18 DEF CtrClose, FlagTypes
  <1>19. ASSUME NEW c \in Clients, ClientComes(c) \/ Client(c) \/ ClientEnds(c)
         PROVE  FlagTypes'
    BY <1>1, <1>19 DEF ClientComes, Client, ClientOpens, ClientWrites, ClientEnds, FlagTypes
  <1>20. CASE ListComes \/ ListEnds \/ ViewOpen \/ ViewWrite
    BY <1>1, <1>20 DEF ListComes, ListEnds, ViewOpen, ViewWrite, FlagTypes
  <1> QED
    BY <1>2, <1>3, <1>4, <1>5, <1>6, <1>7, <1>8, <1>9, <1>10, <1>11, <1>12, <1>13, <1>14,
       <1>15, <1>16, <1>17, <1>18, <1>19, <1>20 DEF DaemonNext, Main, Ctr

(* A stop, and its end, keep the types of the service.                     *)
LEMMA StopTypes ==
    ASSUME ServiceTypes, NEW overlap, StopBegins(overlap) \/ StopReturns
    PROVE  ServiceTypes'
  BY DEF StopBegins, StopReturns, ServiceTypes

(* main(), and the handler on its thread.                                  *)
LEMMA MainTypesKept ==
    ASSUME DaemonTypes, Main \/ SigTerm
    PROVE  MainTypes' /\ ServiceTypes' /\ UNCHANGED <<cpc, cmd, viewVars>>
  <1>0. MainTypes /\ ServiceTypes
    BY DEF DaemonTypes
  <1>1. UNCHANGED <<cpc, cmd, viewVars>>
    BY DEF Main, LoadBrick, Loaded, BackupInitFails, Start, LoopEnds, Exit, SigTerm,
           SigTermReturns, ctrVars, fifoVars
  <1>2. ASSUME NEW b \in Bricks, LoadBrick(b) PROVE MainTypes' /\ ServiceTypes'
    BY <1>0, <1>2 DEF LoadBrick, MainGoto, svcVars, MainTypes, ServiceTypes
  <1>3. CASE Loaded \/ BackupInitFails \/ LoopEnds
    <2>1. /\ mpc' \in {"start", "destroy"}
          /\ UNCHANGED <<hpc, loaded, asked, working, told, pool>>
      BY <1>3 DEF Loaded, BackupInitFails, LoopEnds, MainGoto
    <2> QED
      BY <1>0, <1>1, <2>1 DEF MainTypes, ServiceTypes
  <1>4. CASE Start
    BY <1>0, <1>1, <1>4 DEF Start, MainGoto, MainTypes, ServiceTypes
  <1>5. CASE Exit
    BY <1>0, <1>1, <1>5, StopTypes DEF Exit, MainGoto, MainTypes
  <1>6. CASE SigTermReturns
    BY <1>0, <1>1, <1>6, StopTypes DEF SigTermReturns, MainTypes
  <1>7. CASE SigTerm
    <2>1. ServiceTypes'
      BY <1>0, <1>7 DEF SigTerm, StopBegins, ServiceTypes
    <2> QED
      BY <1>0, <1>1, <1>7, <2>1 DEF SigTerm, MainTypes
  <1> QED
    BY <1>1, <1>2, <1>3, <1>4, <1>5, <1>6, <1>7 DEF Main

(* The control thread.                                                     *)
LEMMA CtrTypesKept ==
    ASSUME DaemonTypes, Ctr
    PROVE  MainTypes' /\ ServiceTypes' /\ CtrTypes' /\ UNCHANGED <<cmd, viewVars>>
  <1>0. MainTypes /\ ServiceTypes
    BY DEF DaemonTypes
  <1>1. UNCHANGED <<cmd, viewVars>>
    BY DEF Ctr, CtrOpen, CtrIgnores, CtrStartsBrick, CtrStarted, CtrStops, CtrStopReturns,
           CtrClose, CtrReads, fifoVars
  <1>2. CtrTypes'
    BY DEF Ctr, CtrOpen, CtrIgnores, CtrStartsBrick, CtrStarted, CtrStops, CtrStopReturns,
           CtrClose, CtrReads, CtrGoto, CtrTypes
  <1>3. MainTypes'
    <2>1. UNCHANGED <<mpc, hpc, loaded>>
      BY DEF Ctr, CtrOpen, CtrIgnores, CtrStartsBrick, CtrStarted, CtrStops, CtrStopReturns,
             CtrClose, CtrReads, mainVars
    <2> QED
      BY <1>0, <2>1 DEF MainTypes
  <1>4. CASE CtrOpen \/ CtrIgnores \/ CtrStarted \/ CtrClose
    <2>1. UNCHANGED <<asked, working, told, pool>>
      BY <1>4 DEF CtrOpen, CtrIgnores, CtrStarted, CtrClose, CtrReads, svcVars
    <2> QED
      BY <1>0, <1>1, <1>2, <1>3, <2>1 DEF ServiceTypes
  <1>5. CASE CtrStartsBrick
    <2>1. UNCHANGED <<working, told, pool>>
      BY <1>5 DEF CtrStartsBrick, CtrReads
    <2>2. asked' \subseteq Bricks
      BY <1>0, <1>5 DEF CtrStartsBrick, MainTypes, ServiceTypes
    <2> QED
      BY <1>0, <1>1, <1>2, <1>3, <2>1, <2>2 DEF ServiceTypes
  <1>6. CASE CtrStops
    <2>1. ServiceTypes'
      BY <1>0, <1>6 DEF CtrStops, StopBegins, ServiceTypes
    <2> QED
      BY <1>1, <1>2, <1>3, <2>1
  <1>7. CASE CtrStopReturns
    BY <1>0, <1>1, <1>2, <1>3, <1>7, StopTypes DEF CtrStopReturns
  <1> QED
    BY <1>1, <1>2, <1>3, <1>4, <1>5, <1>6, <1>7 DEF Ctr

(* Every step.                                                             *)
LEMMA DaemonTypesKept == ASSUME DaemonTypes, [DaemonNext]_daemonVars PROVE DaemonTypes'
  <1>1. PipeInv'
    BY DaemonKeeps DEF DaemonTypes
  <1>2. CASE UNCHANGED daemonVars
    BY <1>1, <1>2 DEF daemonVars, mainVars, svcVars, ctrVars, fifoVars, viewVars, DaemonTypes,
                      MainTypes, ServiceTypes, CtrTypes, CommandTypes, ViewTypes
  <1>3. ASSUME NEW b \in Bricks, Service(b) PROVE DaemonTypes'
    <2>1. /\ working' \subseteq Bricks /\ asked' \subseteq Bricks /\ told' \subseteq Bricks
          /\ UNCHANGED <<mainVars, pool, cpc, cmd, viewVars>>
      BY <1>3 DEF Service, TaskEnters, TaskRefused, WorkerLeaves, ctrVars, fifoVars,
                  DaemonTypes, ServiceTypes
    <2> QED
      BY <1>1, <2>1 DEF mainVars, viewVars, DaemonTypes, MainTypes, ServiceTypes, CtrTypes,
                        CommandTypes, ViewTypes
  <1>4. CASE Main \/ SigTerm
    BY <1>1, <1>4, MainTypesKept DEF viewVars, DaemonTypes, CtrTypes, CommandTypes, ViewTypes
  <1>5. CASE Ctr
    BY <1>1, <1>5, CtrTypesKept DEF viewVars, DaemonTypes, CommandTypes, ViewTypes
  <1>6. ASSUME NEW c \in Clients, ClientComes(c) \/ Client(c) \/ ClientEnds(c)
        PROVE  DaemonTypes'
    <2>1. UNCHANGED <<mainVars, svcVars, viewVars>>
      BY <1>6 DEF ClientComes, Client, ClientOpens, ClientWrites, ClientEnds
    <2>2. CommandTypes'
      BY <1>6 DEF ClientComes, Client, ClientOpens, ClientWrites, ClientEnds, DaemonTypes,
                  CommandTypes
    <2>3. CtrTypes'
      BY <1>6 DEF ClientComes, Client, ClientOpens, ClientWrites, ClientEnds, ctrVars,
                  DaemonTypes, CtrTypes
    <2> QED
      BY <1>1, <2>1, <2>2, <2>3 DEF mainVars, svcVars, viewVars, DaemonTypes, MainTypes,
                                    ServiceTypes, ViewTypes
  <1>7. CASE ListComes \/ ListEnds \/ ViewOpen \/ ViewWrite
    <2>1. UNCHANGED <<svcVars, cpc, cmd, hpc, loaded>>
      BY <1>7 DEF ListComes, ListEnds, ViewOpen, ViewWrite, mainVars, ctrVars, fifoVars
    <2>2. mpc' \in {mpc, "killed"} /\ vpc' \in {"open", "write"}
      BY <1>7 DEF ListComes, ListEnds, ViewOpen, ViewWrite, mainVars, DaemonTypes, ViewTypes
    <2>3. leaked' \in 0..MaxFds
      BY <1>7, DaemonBounds DEF ListComes, ListEnds, ViewOpen, ViewWrite, FdFree, DaemonTypes,
                                ViewTypes
    <2> QED
      BY <1>1, <2>1, <2>2, <2>3 DEF svcVars, DaemonTypes, MainTypes, ServiceTypes,
                                          CtrTypes, CommandTypes, ViewTypes
  <1> QED
    BY <1>2, <1>3, <1>4, <1>5, <1>6, <1>7 DEF DaemonNext

(* Every variable of the daemon stays in its type: main(), the handler, the service as the
   daemon sees it, the control thread, the two FIFOs and the clients. *)
THEOREM DaemonTypeCorrect == DaemonSpec => []DaemonTypeOK
  <1>1. DaemonInit => FlagTypes
    BY DEF DaemonInit, FlagTypes
  <1>2. DaemonInit => DaemonTypes
    <2> SUFFICES ASSUME DaemonInit PROVE DaemonTypes
      OBVIOUS
    <2>1. MainTypes
      BY DEF DaemonInit, MainTypes
    <2>2. ServiceTypes
      BY DEF DaemonInit, ServiceTypes
    <2>3. CtrTypes /\ CommandTypes
      BY DEF DaemonInit, CtrTypes, CommandTypes
    <2>4. vpc = "open" /\ leaked = 0
      BY DEF DaemonInit
    <2> QED
      BY <2>1, <2>2, <2>3, <2>4, DaemonStarts, DaemonBounds DEF DaemonTypes, ViewTypes
  <1>3. FlagTypes /\ DaemonTypes => DaemonTypeOK
    BY DEF FlagTypes, DaemonTypes, PipeInv, MainTypes, ServiceTypes, CtrTypes, CommandTypes,
           ViewTypes, DaemonTypeOK
  <1> QED
    BY <1>1, <1>2, <1>3, FlagsKept, DaemonTypesKept, PTL DEF DaemonSpec

=============================================================================
