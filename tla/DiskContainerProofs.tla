------------------------ MODULE DiskContainerProofs -------------------------
(***************************************************************************)
(* Proofs about the target disks: for any number of bricks, disks, paths   *)
(* and lengths, that the worker's count of the used space keeps pace with  *)
(* the disk, that it writes to its own disk and logs the disk that holds   *)
(* the file.                                                               *)
(*                                                                         *)
(* The space that files occupy is a sum over a set.  What is needed of it  *)
(* is proved by induction, in the form: a set of sets that is not empty    *)
(* has a member that is minimal.                                           *)
(***************************************************************************)
EXTENDS DiskContainer, FiniteSetTheorems, WellFoundedInduction, TLAPS

-----------------------------------------------------------------------------
(* Sums over the subsets of Path.                                          *)

(* Every set of numbers that is not empty has a least element. *)
LEMMA LeastNumber ==
    ASSUME NEW T, T \subseteq Nat, T # {}
    PROVE  \E n \in T : \A m \in T : n <= m
  <1>1. PICK R : R = OpToRel(<, Nat)
    OBVIOUS
  <1>2. IsWellFoundedOn(R, Nat)
    BY <1>1, NatLessThanWellFounded
  <1>3. PICK n \in T : \A m \in T : ~(<<m, n>> \in R)
    BY <1>2, WFMin
  <1>4. R = {ss \in Nat \X Nat : ss[1] < ss[2]}
    BY <1>1 DEF OpToRel
  <1>5. \A m \in T : ~(m < n)
    BY <1>3, <1>4
  <1> QED
    BY <1>5

(* The paths are finitely many, and so are those of a part of them. *)
LEMMA PathCount ==
    ASSUME NEW s \in SUBSET Path
    PROVE  /\ Cardinality(s) \in Nat
           /\ Cardinality(s) = 0 <=> s = {}
           /\ Cardinality(s) <= Cardinality(Path)
           /\ \A p \in s : Cardinality(s \ {p}) = Cardinality(s) - 1
  <1>1. IsFiniteSet(s) /\ Cardinality(s) <= Cardinality(Path)
    BY PathAssumption, FS_Subset
  <1> QED
    BY <1>1, FS_CardinalityType, FS_EmptySet, FS_RemoveElement

(* Induction over sets of paths: where some are bad, one is bad that is    *)
(* not bad without any one of its paths. *)
LEMMA SmallestSet ==
    ASSUME NEW T, T \subseteq SUBSET Path, T # {}
    PROVE  \E s \in T : \A p \in s : s \ {p} \notin T
  <1>1. PICK N : N = {Cardinality(s) : s \in T}
    OBVIOUS
  <1>2. N \subseteq Nat /\ N # {}
    BY <1>1, PathCount
  <1>3. PICK n \in N : \A m \in N : n <= m
    BY <1>2, LeastNumber
  <1>4. PICK s \in T : n = Cardinality(s)
    BY <1>1, <1>3
  <1>5. ASSUME NEW p \in s, s \ {p} \in T PROVE FALSE
    <2>1. Cardinality(s \ {p}) = n - 1 /\ n \in Nat
      BY <1>4, PathCount
    <2>2. n - 1 \in N
      BY <1>1, <1>5, <2>1
    <2> QED
      BY <1>3, <2>1, <2>2
  <1> QED
    BY <1>5

Pick(s) == CHOOSE p \in s : TRUE

(* g sums up the lengths c over s.                                         *)
SumAt(c, g, s) == IF s = {} THEN 0 ELSE Occupied(c[Pick(s)]) + g[s \ {Pick(s)}]

TheSums(c) == CHOOSE g : g = [s \in SUBSET Path |-> SumAt(c, g, s)]

(* The fold of TotalOccupied is a function over the subsets of Path. *)
LEMMA TotalIsSum == ASSUME NEW c PROVE TotalOccupied(c) = TheSums(c)[Path]
  BY Zenon DEF TotalOccupied, MapThenSumSet, MapThenFoldSet, TheSums, SumAt, Pick

(* That function exists: by induction on the size of the sets.             *)
LEMMA SumsExist == ASSUME NEW c PROVE TheSums(c) = [s \in SUBSET Path |-> SumAt(c, TheSums(c), s)]
  <1> DEFINE Small(n) == {s \in SUBSET Path : Cardinality(s) <= n}
             Solved(n) == \E g : \A s \in Small(n) : g[s] = SumAt(c, g, s)
  <1>1. Solved(0)
    <2>1. \A s \in Small(0) : s = {}
      BY PathCount
    <2>2. \A s \in Small(0) : [t \in {{}} |-> 0][s] = 0
      BY <2>1
    <2> QED
      BY <2>1, <2>2 DEF SumAt
  <1>2. ASSUME NEW n \in Nat, Solved(n) PROVE Solved(n + 1)
    <2>1. PICK g : \A s \in Small(n) : g[s] = SumAt(c, g, s)
      BY <1>2
    <2>2. PICK h : h = [s \in Small(n + 1) |-> IF s \in Small(n) THEN g[s] ELSE SumAt(c, g, s)]
      OBVIOUS
    <2>3. \A s \in Small(n) : s \in Small(n + 1)
      BY PathCount
    <2>4. \A s \in Small(n + 1) : h[s] = SumAt(c, g, s)
      BY <2>1, <2>2, <2>3
    <2>5. ASSUME NEW s \in Small(n + 1) PROVE SumAt(c, g, s) = SumAt(c, h, s)
      <3>1. CASE s = {}
        BY <3>1 DEF SumAt
      <3>2. CASE s # {}
        <4>1. Pick(s) \in s
          BY <3>2 DEF Pick
        <4>2. s \ {Pick(s)} \in Small(n)
          BY <4>1, PathCount
        <4>3. h[s \ {Pick(s)}] = g[s \ {Pick(s)}]
          BY <2>2, <2>3, <4>2
        <4> QED
          BY <4>3 DEF SumAt
      <3> QED
        BY <3>1, <3>2
    <2> QED
      BY <2>4, <2>5
  <1>3. \A n \in Nat : Solved(n)
    <2> SUFFICES ASSUME {n \in Nat : ~Solved(n)} # {} PROVE FALSE
      OBVIOUS
    <2> HIDE DEF Solved
    <2>1. PICK n \in Nat : ~Solved(n) /\ \A m \in Nat : ~Solved(m) => n <= m
      <3>1. {n \in Nat : ~Solved(n)} \subseteq Nat
        OBVIOUS
      <3>2. \E n \in {m \in Nat : ~Solved(m)} : \A m \in {k \in Nat : ~Solved(k)} : n <= m
        BY <3>1, LeastNumber
      <3> QED
        BY <3>2
    <2>2. n # 0
      BY <1>1, <2>1
    <2>3. n - 1 \in Nat /\ (n - 1) + 1 = n /\ ~(n <= n - 1)
      BY <2>2
    <2>4. Solved(n - 1)
      BY <2>1, <2>3
    <2> QED
      BY <1>2, <2>1, <2>3, <2>4
  <1>4. Path \in SUBSET Path
    OBVIOUS
  <1>5. PICK g : \A s \in Small(Cardinality(Path)) : g[s] = SumAt(c, g, s)
    BY <1>3, <1>4, PathCount
  <1>6. \A s \in SUBSET Path : g[s] = SumAt(c, g, s)
    BY <1>5, PathCount
  <1>7. PICK h : h = [s \in SUBSET Path |-> g[s]]
    OBVIOUS
  <1>8. ASSUME NEW s \in SUBSET Path PROVE h[s] = SumAt(c, h, s)
    <2>1. s \ {Pick(s)} \in SUBSET Path
      OBVIOUS
    <2>2. h[s] = g[s] /\ h[s \ {Pick(s)}] = g[s \ {Pick(s)}]
      BY <1>7, <2>1
    <2> QED
      BY <1>6, <2>2 DEF SumAt
  <1>9. h = [s \in SUBSET Path |-> SumAt(c, h, s)]
    BY <1>7, <1>8
  <1> QED
    BY <1>9 DEF TheSums

(* What a disk, or a part of it, may hold.                                 *)
Lengths == [Path -> Nat \cup {Absent}]

(* What a file occupies is a number, and not less than its length.         *)
LEMMA OccupiedType ==
    /\ \A n \in Nat \cup {Absent} : Occupied(n) \in Nat
    /\ \A n \in Nat : n <= Occupied(n)
    /\ Occupied(0) = 0 /\ Occupied(Absent) = 0
  <1>1. \A n \in Nat : RoundUp(n) \in Nat /\ n <= RoundUp(n)
    BY SpaceAssumption, SMTT(30) DEF RoundUp
  <1> QED
    BY <1>1 DEF Occupied, Absent

(* The sum over nothing, and over a set without the path that is picked.   *)
LEMMA SumsAt ==
    ASSUME NEW c, NEW s \in SUBSET Path
    PROVE  /\ s = {} => TheSums(c)[s] = 0
           /\ s # {} => /\ Pick(s) \in s
                        /\ TheSums(c)[s] = Occupied(c[Pick(s)]) + TheSums(c)[s \ {Pick(s)}]
  <1>1. TheSums(c)[s] = SumAt(c, TheSums(c), s)
    BY SumsExist
  <1>2. s # {} => Pick(s) \in s
    BY DEF Pick
  <1> QED
    BY <1>1, <1>2 DEF SumAt

(* The sum over any set of paths is a number.                              *)
LEMMA SumsType ==
    ASSUME NEW c \in Lengths, NEW s \in SUBSET Path
    PROVE  TheSums(c)[s] \in Nat
  <1> SUFFICES ASSUME {t \in SUBSET Path : TheSums(c)[t] \notin Nat} # {} PROVE FALSE
    OBVIOUS
  <1>1. PICK T : T = {t \in SUBSET Path : TheSums(c)[t] \notin Nat}
    OBVIOUS
  <1>2. PICK t \in T : \A p \in t : t \ {p} \notin T
    BY <1>1, SmallestSet
  <1>0. t \in SUBSET Path /\ TheSums(c)[t] \notin Nat
    BY <1>1
  <1>3. t # {} /\ Pick(t) \in t
    BY <1>0, SumsAt
  <1>4. TheSums(c)[t \ {Pick(t)}] \in Nat
    BY <1>0, <1>1, <1>2, <1>3
  <1>5. Occupied(c[Pick(t)]) \in Nat
    BY <1>0, <1>3, OccupiedType DEF Lengths
  <1>6. TheSums(c)[t] = Occupied(c[Pick(t)]) + TheSums(c)[t \ {Pick(t)}]
    BY <1>0, <1>3, SumsAt
  <1> QED
    BY <1>0, <1>4, <1>5, <1>6

(* Any path of the set can be taken out, not only the one that is picked.  *)
LEMMA SumsWithout ==
    ASSUME NEW c \in Lengths, NEW s \in SUBSET Path, NEW p \in s
    PROVE  TheSums(c)[s] = Occupied(c[p]) + TheSums(c)[s \ {p}]
  <1> DEFINE Splits(t, q) == TheSums(c)[t] = Occupied(c[q]) + TheSums(c)[t \ {q}]
  <1> SUFFICES ASSUME {t \in SUBSET Path : \E q \in t : ~Splits(t, q)} # {} PROVE FALSE
    OBVIOUS
  <1>1. PICK T : T = {t \in SUBSET Path : \E q \in t : ~Splits(t, q)}
    OBVIOUS
  <1>2. PICK t \in T : \A q \in t : t \ {q} \notin T
    BY <1>1, SmallestSet
  <1>3. PICK q \in t : ~Splits(t, q)
    BY <1>1
  <1>4. t \in SUBSET Path /\ t # {}
    BY <1>1, <1>3
  <1>5. PICK x \in t : x = Pick(t)
    BY <1>4, SumsAt
  <1>6. Splits(t, x) /\ q \in Path /\ x \in Path
    BY <1>4, <1>5, SumsAt
  <1>7. x # q
    BY <1>3, <1>6
  <1>8. Splits(t \ {x}, q) /\ Splits(t \ {q}, x)
    <2> HIDE DEF Splits
    <2>1. /\ t \ {x} \in SUBSET Path /\ q \in t \ {x} /\ t \ {x} \notin T
          /\ t \ {q} \in SUBSET Path /\ x \in t \ {q} /\ t \ {q} \notin T
      BY <1>2, <1>4, <1>7
    <2> QED
      BY <1>1, <2>1
  <1>9. PICK r : r = (t \ {x}) \ {q}
    OBVIOUS
  <1>10. r = (t \ {q}) \ {x} /\ r \in SUBSET Path
    BY <1>4, <1>9
  <1>11. /\ Occupied(c[x]) \in Nat /\ Occupied(c[q]) \in Nat
         /\ TheSums(c)[r] \in Nat
    BY <1>6, <1>10, OccupiedType, SumsType DEF Lengths
  <1>12. /\ TheSums(c)[t \ {x}] = Occupied(c[q]) + TheSums(c)[r]
         /\ TheSums(c)[t \ {q}] = Occupied(c[x]) + TheSums(c)[r]
         /\ TheSums(c)[t] = Occupied(c[x]) + TheSums(c)[t \ {x}]
    BY <1>6, <1>8, <1>9, <1>10, Zenon
  <1>13. TheSums(c)[t] = Occupied(c[q]) + TheSums(c)[t \ {q}]
    BY <1>11, <1>12
  <1> QED
    BY <1>3, <1>13

(* The sum depends on the lengths of its paths only.                       *)
LEMMA SumsAgree ==
    ASSUME NEW c, NEW e, NEW s \in SUBSET Path, \A p \in s : c[p] = e[p]
    PROVE  TheSums(c)[s] = TheSums(e)[s]
  <1> DEFINE Differ(t) == (\A p \in t : c[p] = e[p]) /\ TheSums(c)[t] # TheSums(e)[t]
  <1> SUFFICES ASSUME {t \in SUBSET Path : Differ(t)} # {} PROVE FALSE
    OBVIOUS
  <1>1. PICK T : T = {t \in SUBSET Path : Differ(t)}
    OBVIOUS
  <1>2. PICK t \in T : \A p \in t : t \ {p} \notin T
    BY <1>1, SmallestSet
  <1>3. t \in SUBSET Path /\ Differ(t)
    BY <1>1
  <1>4. t # {} /\ Pick(t) \in t
    BY <1>3, SumsAt
  <1>5. TheSums(c)[t \ {Pick(t)}] = TheSums(e)[t \ {Pick(t)}]
    BY <1>1, <1>2, <1>3, <1>4
  <1>6. c[Pick(t)] = e[Pick(t)]
    BY <1>3, <1>4
  <1>7. TheSums(c)[t] = Occupied(c[Pick(t)]) + TheSums(c)[t \ {Pick(t)}]
    BY <1>3, <1>4, SumsAt
  <1>8. TheSums(e)[t] = Occupied(e[Pick(t)]) + TheSums(e)[t \ {Pick(t)}]
    BY <1>3, <1>4, SumsAt
  <1> QED
    BY <1>3, <1>5, <1>6, <1>7, <1>8

(* An empty disk occupies nothing.                                         *)
LEMMA EmptyTotal ==
    ASSUME NEW c, \A p \in Path : c[p] = Absent
    PROVE  TotalOccupied(c) = 0
  <1>1. ASSUME NEW s \in SUBSET Path PROVE TheSums(c)[s] = 0
    <2> SUFFICES ASSUME {t \in SUBSET Path : TheSums(c)[t] # 0} # {} PROVE FALSE
      OBVIOUS
    <2>1. PICK T : T = {t \in SUBSET Path : TheSums(c)[t] # 0}
      OBVIOUS
    <2>2. PICK t \in T : \A p \in t : t \ {p} \notin T
      BY <2>1, SmallestSet
    <2>0. t \in SUBSET Path /\ TheSums(c)[t] # 0
      BY <2>1
    <2>3. t # {} /\ Pick(t) \in t
      BY <2>0, SumsAt
    <2>4. TheSums(c)[t \ {Pick(t)}] = 0 /\ Occupied(c[Pick(t)]) = 0
      BY <2>0, <2>1, <2>2, <2>3, OccupiedType
    <2>5. TheSums(c)[t] = Occupied(c[Pick(t)]) + TheSums(c)[t \ {Pick(t)}]
      BY <2>0, <2>3, SumsAt
    <2> QED
      BY <2>0, <2>4, <2>5
  <1> QED
    BY <1>1, TotalIsSum

(* What a disk holds changes by what one of its files does.                *)
LEMMA TotalChange ==
    ASSUME NEW c \in Lengths, NEW p \in Path, NEW n \in Nat \cup {Absent}
    PROVE  /\ TotalOccupied(c) \in Nat
           /\ Occupied(c[p]) \in Nat /\ Occupied(n) \in Nat
           /\ Occupied(c[p]) <= TotalOccupied(c)
           /\ TotalOccupied([c EXCEPT ![p] = n]) = TotalOccupied(c) - Occupied(c[p]) + Occupied(n)
  <1>1. PICK e \in Lengths : e = [c EXCEPT ![p] = n]
    BY DEF Lengths
  <1>2. Path \in SUBSET Path /\ Path \ {p} \in SUBSET Path
    OBVIOUS
  <1>3. TheSums(c)[Path \ {p}] = TheSums(e)[Path \ {p}]
    <2>1. \A q \in Path \ {p} : c[q] = e[q]
      BY <1>1 DEF Lengths
    <2> QED
      BY <1>2, <2>1, SumsAgree
  <1>4. TheSums(c)[Path] = Occupied(c[p]) + TheSums(c)[Path \ {p}]
    BY <1>2, SumsWithout
  <1>5. TheSums(e)[Path] = Occupied(n) + TheSums(e)[Path \ {p}]
    <2>1. e[p] = n
      BY <1>1 DEF Lengths
    <2> QED
      BY <1>2, <2>1, SumsWithout
  <1>6. /\ TheSums(c)[Path] \in Nat /\ TheSums(c)[Path \ {p}] \in Nat
        /\ Occupied(c[p]) \in Nat /\ Occupied(n) \in Nat
    BY <1>2, SumsType, OccupiedType DEF Lengths
  <1>7. TotalOccupied(c) = TheSums(c)[Path] /\ TotalOccupied(e) = TheSums(e)[Path]
    BY TotalIsSum
  <1>8. TotalOccupied(e) = TotalOccupied(c) - Occupied(c[p]) + Occupied(n)
    BY <1>3, <1>4, <1>5, <1>6, <1>7
  <1> QED
    BY <1>1, <1>4, <1>6, <1>7, <1>8

-----------------------------------------------------------------------------
(* The inductive invariant.                                                *)

Label == {"idle", "init", "exist", "insert", "space", "ready", "try", "query", "compare",
          "open", "write", "log"}
Begun == {"exist", "insert", "space", "ready", "try", "query", "compare", "open", "write",
          "log"}
WithDisk == {"space", "ready", "try", "query", "compare", "open", "write", "log"}
WithFile == {"try", "query", "compare", "open", "write", "log"}

(* Where the worker believes to know how full its disk is.                 *)
Measured == WithDisk \ {"space", "write"}

(* What sysinfod saw is there as long as nobody exchanges the disk, and a  *)
(* worker past get_diskid has its disk from there; without a position it   *)
(* has none.                                                               *)
MountInv ==
    \A b \in Brick :
        /\ b \notin exchanged => m_path_Partition[b] = mounted[b]
        /\ pc[b] \in Begun /\ m_pos[b] # 0 =>
              /\ m_path_Partition[b] # NoDisk
              /\ m_curr_disk_id[b] = m_path_Partition[b]
        /\ m_pos[b] = 0 => m_curr_disk_id[b] = NoDisk
        /\ pc[b] = "idle" => m_pos[b] = 0

(* Past isExistdisk or add_disk_for_brick the disk is given to the brick.  *)
OwnerInv ==
    \A b \in Brick :
        pc[b] \in WithDisk /\ m_pos[b] # 0 => BRICK_DISK[m_curr_disk_id[b]] = b

(* copy has a path, the file that is written is there, and so is the file  *)
(* that will be logged, unless the disk was taken away.                    *)
FileInv ==
    \A b \in Brick :
        /\ pc[b] \in WithFile => file[b] \in Path
        /\ pc[b] = "write" => OnTarget(b) # Absent
        /\ pc[b] = "log" /\ b \notin exchanged => OnTarget(b) # Absent

(* The worker's count is behind by no more than the file it writes, and by *)
(* what it does not count at all.                                          *)
SpaceInv ==
    \A b \in Brick \ exchanged :
        /\ pc[b] \in Measured =>
              Used(Target(b)) <= m_target_space_used[b] + unseen[b]
        /\ pc[b] = "write" =>
              Used(Target(b)) <= m_target_space_used[b] + unseen[b] + Occupied(OnTarget(b))

DiskInv == TypeOK /\ MountInv /\ OwnerInv /\ FileInv /\ SpaceInv

(* A brick's directory leads to one place, and to no other brick's.        *)
LEMMA TargetType ==
    ASSUME TypeOK, NEW b \in Brick
    PROVE  Target(b) \in Place
  BY DEF TypeOK, Mountings, Target, Place

LEMMA OneDirectory ==
    ASSUME TypeOK, NEW b \in Brick, NEW c \in Brick, b # c
    PROVE  Target(b) # Target(c)
  <1>1. /\ mounted[b] \in Disk \cup {NoDisk} /\ mounted[c] \in Disk \cup {NoDisk}
        /\ mounted[b] = mounted[c] => mounted[b] = NoDisk
    BY DEF TypeOK, Mountings
  <1>2. b \notin Disk /\ c \notin Disk
    BY NullAssumption
  <1> QED
    BY <1>1, <1>2 DEF Target

(* What is used of a disk is a number.                                     *)
LEMMA UsedType ==
    ASSUME TypeOK, NEW d \in Place
    PROVE  /\ Used(d) \in Nat /\ Foreign[d] \in Nat /\ folders[d] \in Nat
           /\ TotalOccupied(content[d]) \in Nat
  <1>1. PICK e \in Lengths : e = content[d]
    BY DEF TypeOK, Lengths
  <1>2. TotalOccupied(e) \in Nat
    BY SumsType, TotalIsSum
  <1>3. Foreign[d] \in Nat /\ folders[d] \in Nat
    BY SpaceAssumption DEF TypeOK
  <1> QED
    BY <1>1, <1>2, <1>3 DEF Used

(* A length on the target changes what is used of its disk, and only that. *)
LEMMA UsedAfterPut ==
    ASSUME TypeOK, NEW b \in Brick, file[b] \in Path,
           NEW n \in Nat \cup {Absent}, PutOnTarget(b, n)
    PROVE  /\ content' \in [Place -> Lengths] /\ UNCHANGED <<mounted, folders>>
           /\ content'[Target(b)][file[b]] = n
           /\ \A d \in Place \ {Target(b)} : content'[d] = content[d] /\ Used(d)' = Used(d)
           /\ OnTarget(b) \in Nat \cup {Absent}
           /\ Occupied(OnTarget(b)) \in Nat /\ Occupied(n) \in Nat
           /\ Used(Target(b)) \in Nat
           /\ \A d \in Place : d = Target(b) =>
                 Used(d)' = Used(d) - Occupied(OnTarget(b)) + Occupied(n)
  <1>1. content \in [Place -> Lengths]
    BY DEF TypeOK, Lengths
  <1>2. PICK d \in Place : d = Target(b)
    BY TargetType
  <1>3. PICK q \in Path : q = file[b]
    OBVIOUS
  <1>4. content' = [content EXCEPT ![d] = [content[d] EXCEPT ![q] = n]]
        /\ UNCHANGED <<mounted, folders>>
    BY <1>2, <1>3 DEF PutOnTarget
  <1>5. [content[d] EXCEPT ![q] = n] \in Lengths
    BY <1>1 DEF Lengths
  <1>6. /\ content' \in [Place -> Lengths]
        /\ content'[d] = [content[d] EXCEPT ![q] = n]
        /\ \A e \in Place \ {d} : content'[e] = content[e]
    BY <1>1, <1>4, <1>5
  <1>7. content'[d][q] = n
    BY <1>1, <1>6 DEF Lengths
  <1>8. \A e \in Place \ {d} : Used(e)' = Used(e)
    BY <1>4, <1>6 DEF Used
  <1>9. content[d] \in Lengths /\ content[d][q] \in Nat \cup {Absent}
    BY <1>1 DEF Lengths
  <1>10. /\ TotalOccupied(content[d]) \in Nat
         /\ Occupied(content[d][q]) \in Nat /\ Occupied(n) \in Nat
         /\ TotalOccupied(content'[d])
               = TotalOccupied(content[d]) - Occupied(content[d][q]) + Occupied(n)
    <2>1. PICK e \in Lengths : e = content[d]
      BY <1>9
    <2>2. PICK f \in Lengths : f = [e EXCEPT ![q] = n]
      BY <1>5, <2>1
    <2>3. content'[d] = f
      BY <1>6, <2>1, <2>2
    <2>4. /\ TotalOccupied(e) \in Nat
          /\ Occupied(e[q]) \in Nat /\ Occupied(n) \in Nat
          /\ TotalOccupied(f) = TotalOccupied(e) - Occupied(e[q]) + Occupied(n)
      BY <2>2, TotalChange
    <2> QED
      BY <2>1, <2>3, <2>4, Zenon
  <1>11. Foreign[d] \in Nat /\ folders[d] \in Nat /\ Used(d) \in Nat
    BY UsedType
  <1>12. /\ Used(d) = Foreign[d] + folders[d] + TotalOccupied(content[d])
         /\ Used(d)' = Foreign[d] + folders[d] + TotalOccupied(content'[d])
         /\ OnTarget(b) = content[d][q]
    BY <1>2, <1>3, <1>4 DEF Used, OnTarget
  <1>13. Used(d)' = Used(d) - Occupied(content[d][q]) + Occupied(n)
    BY <1>10, <1>11, <1>12
  <1> QED
    BY <1>2, <1>3, <1>4, <1>6, <1>7, <1>8, <1>9, <1>10, <1>11, <1>12, <1>13

(* The same, said of the target of the brick.                              *)
LEMMA UsedUnder ==
    ASSUME TypeOK, NEW b \in Brick, file[b] \in Path,
           NEW n \in Nat \cup {Absent}, PutOnTarget(b, n)
    PROVE  Used(Target(b))' = Used(Target(b)) - Occupied(OnTarget(b)) + Occupied(n)
  <1>1. PICK d \in Place : d = Target(b)
    BY TargetType
  <1>2. Target(b)' = d
    BY <1>1, UsedAfterPut DEF Target
  <1>3. Used(d)' = Used(d) - Occupied(OnTarget(b)) + Occupied(n)
    BY <1>1, UsedAfterPut
  <1>4. Used(Target(b))' = Used(d)'
    BY <1>2 DEF Used
  <1> QED
    BY <1>1, <1>3, <1>4

(* What the disks hold and where they are, when no file is touched.        *)
LEMMA UsedStays ==
    ASSUME UNCHANGED world
    PROVE  /\ \A d \in Place : Used(d)' = Used(d)
           /\ \A b \in Brick : Target(b)' = Target(b) /\ Used(Target(b))' = Used(Target(b))
  BY DEF world, Used, Target

-----------------------------------------------------------------------------

(* The invariant holds on the disks that are there at the start.           *)
LEMMA DiskStarts == Init => DiskInv
  <1> SUFFICES ASSUME Init PROVE DiskInv
    OBVIOUS
  <1>1. ASSUME NEW d \in Place PROVE Used(d) <= Capacity
    <2>1. \A p \in Path : content[d][p] = Absent
      BY DEF Init
    <2>2. TotalOccupied(content[d]) = 0
      BY <2>1, EmptyTotal
    <2>3. Foreign[d] \in Nat /\ Foreign[d] <= Capacity
      BY SpaceAssumption
    <2>4. folders[d] = 0
      BY DEF Init
    <2> QED
      BY <2>2, <2>3, <2>4 DEF Used
  <1>2. content \in [Place -> [Path -> Nat \cup {Absent}]] /\ folders \in [Place -> Nat]
    BY DEF Init
  <1>3. item \in [Brick -> Nat \ {0}] /\ m_pos \in [Brick -> Nat] /\ unseen \in [Brick -> Nat]
    BY DEF Init
  <1>4. m_sql \in [Brick -> BOOLEAN]
    BY Zenon DEF Init
  <1>5. TypeOK
    BY <1>1, <1>2, <1>3, <1>4 DEF TypeOK, Init
  <1>6. \A b \in Brick : pc[b] = "idle"
    BY DEF Init
  <1>7. MountInv
    BY <1>6 DEF MountInv, Init, Begun
  <1> QED
    BY <1>5, <1>6, <1>7 DEF DiskInv, OwnerInv, FileInv, SpaceInv, WithDisk, WithFile, Measured

-----------------------------------------------------------------------------

(* The steps of a brick's worker that touch nothing on a disk, and those   *)
(* that write a file.                                                      *)
Quiet(b) ==
    \/ Construct(b) \/ NoPositions(b) \/ GetDiskid(b) \/ NoDiskMounted(b) \/ IsExistdisk(b)
    \/ AddDiskForBrick(b) \/ GetDiskSpaceInfo(b) \/ NeedDel(b) \/ InitErr(b)
    \/ (\E p \in Path : Copy(b, p)) \/ Stop(b) \/ CopyTry(b) \/ CopyTryErr(b)
    \/ IsBackuped(b) \/ Compare(b) \/ Close(b) \/ AddFileLog(b)

Writes(b) == Open(b) \/ OpenErr(b) \/ WriteUnit(b) \/ WriteErr(b)

(* The quiet steps change no disk.                                         *)
LEMMA QuietWorld ==
    ASSUME NEW b \in Brick, Quiet(b)
    PROVE  UNCHANGED <<world, m_path_Partition, exchanged>>
  BY DEF Quiet, Construct, NoPositions, GetDiskid, NoDiskMounted, IsExistdisk,
         AddDiskForBrick, GetDiskSpaceInfo, NeedDel, InitErr, Copy, Stop, CopyTry, CopyTryErr,
         IsBackuped, Compare, Close, AddFileLog

(* What a writing step may leave on the target.                            *)
Leaves(b, n) ==
    /\ PutOnTarget(b, n)
    /\ Open(b) \/ OpenErr(b) => n = 0
    /\ WriteUnit(b) =>
          /\ n = OnTarget(b) + 1 /\ n # Absent /\ OnTarget(b) \in Nat
          /\ Used(Target(b)) - Occupied(OnTarget(b)) + Occupied(n) <= Capacity
    /\ WriteErr(b) => n = Absent /\ OnTarget(b) \in Nat

(* The steps that write to the target, and what they leave there.          *)
LEMMA WritesPut ==
    ASSUME DiskInv, NEW b \in Brick, Writes(b)
    PROVE  /\ file[b] \in Path /\ pc[b] \in WithDisk
           /\ UNCHANGED <<mounted, folders, database, m_path_Partition, m_sql, exchanged, m_pos,
                          item, m_curr_disk_id, m_target_space_used, unseen>>
           /\ \/ UNCHANGED content /\ OpenErr(b)
              \/ \E n \in Nat \cup {Absent} : Leaves(b, n)
  <1>1. pc[b] \in {"open", "write"}
    BY DEF Writes, Open, OpenErr, WriteUnit, WriteErr
  <1>2. file[b] \in Path /\ pc[b] \in WithDisk
    BY <1>1 DEF DiskInv, FileInv, WithFile, WithDisk
  <1>3. UNCHANGED <<mounted, folders, database, m_path_Partition, m_sql, exchanged, m_pos, item,
                    m_curr_disk_id, m_target_space_used, unseen>>
    BY DEF Writes, Open, OpenErr, WriteUnit, WriteErr, PutOnTarget, CopyReturns, world, container,
           process
  <1>4. OnTarget(b) \in Nat \cup {Absent}
    BY <1>2, TargetType DEF DiskInv, TypeOK, OnTarget
  <1>5. CASE Open(b) \/ OpenErr(b)
    <2>1. pc[b] = "open" /\ (PutOnTarget(b, 0) \/ (UNCHANGED content /\ OpenErr(b)))
      BY <1>5 DEF Open, OpenErr, world
    <2>2. ~WriteUnit(b) /\ ~WriteErr(b)
      BY <2>1 DEF WriteUnit, WriteErr
    <2> QED
      BY <1>2, <1>3, <2>1, <2>2 DEF Leaves
  <1>6. CASE WriteUnit(b) \/ WriteErr(b)
    <2>1. pc[b] = "write" /\ ~Open(b) /\ ~OpenErr(b)
      BY <1>6 DEF WriteUnit, WriteErr, Open, OpenErr
    <2>2. OnTarget(b) \in Nat
      BY <1>4, <2>1 DEF DiskInv, FileInv
    <2>3. CASE WriteUnit(b) /\ WriteErr(b)
      BY <2>1, <2>3 DEF WriteUnit, WriteErr, CopyReturns, Goto, process, DiskInv, TypeOK
    <2>4. CASE WriteUnit(b) /\ ~WriteErr(b)
      <3>1. /\ PutOnTarget(b, OnTarget(b) + 1)
            /\ Used(Target(b)) - Occupied(OnTarget(b)) + Occupied(OnTarget(b) + 1) <= Capacity
        BY <2>4 DEF WriteUnit
      <3>2. OnTarget(b) + 1 \in Nat /\ OnTarget(b) + 1 # Absent
        BY <2>2 DEF Absent
      <3> QED
        BY <1>2, <1>3, <2>1, <2>2, <2>4, <3>1, <3>2 DEF Leaves
    <2>5. CASE WriteErr(b) /\ ~WriteUnit(b)
      <3>1. PutOnTarget(b, Absent)
        BY <2>5 DEF WriteErr
      <3> QED
        BY <1>2, <1>3, <2>1, <2>2, <2>5, <3>1 DEF Leaves
    <2> QED
      BY <1>6, <2>3, <2>4, <2>5
  <1> QED
    BY <1>5, <1>6 DEF Writes

(* What a new folder changes.                                              *)
LEMMA FolderMade ==
    ASSUME DiskInv, NEW b \in Brick, CreateDir(b)
    PROVE  /\ UNCHANGED <<mounted, content, database, m_path_Partition, pc, m_pos, item,
                          m_curr_disk_id, m_target_space_used, file, m_sql, exchanged>>
           /\ pc[b] = "ready"
           /\ folders' \in [Place -> Nat] /\ unseen' \in [Brick -> Nat]
           /\ unseen'[b] = unseen[b] + Block
           /\ \A c \in Brick \ {b} : unseen'[c] = unseen[c]
           /\ \A d \in Place \ {Target(b)} : folders'[d] = folders[d] /\ Used(d)' = Used(d)
           /\ \A d \in Place : d = Target(b) =>
                 Used(d)' = Used(d) + Block /\ Used(d)' <= Capacity
           /\ \A c \in Brick : Target(c)' = Target(c)
           /\ Used(Target(b))' = Used(Target(b)) + Block
  <1>1. /\ folders \in [Place -> Nat] /\ unseen \in [Brick -> Nat] /\ Block \in Nat
        /\ Capacity \in Nat
    BY SpaceAssumption DEF DiskInv, TypeOK
  <1>2. PICK d \in Place : d = Target(b)
    BY TargetType DEF DiskInv
  <1>3. /\ UNCHANGED <<mounted, content, database, m_path_Partition, pc, m_pos, item,
                       m_curr_disk_id, m_target_space_used, file, m_sql, exchanged>>
        /\ pc[b] = "ready"
        /\ folders' = [folders EXCEPT ![d] = @ + Block]
        /\ unseen' = [unseen EXCEPT ![b] = @ + Block]
        /\ Used(d) + Block <= Capacity
    BY <1>2 DEF CreateDir
  <1>4. /\ folders' \in [Place -> Nat] /\ folders'[d] = folders[d] + Block
        /\ \A e \in Place \ {d} : folders'[e] = folders[e]
        /\ unseen' \in [Brick -> Nat] /\ unseen'[b] = unseen[b] + Block
        /\ \A c \in Brick \ {b} : unseen'[c] = unseen[c]
    BY <1>1, <1>3
  <1>5. \A e \in Place \ {d} : Used(e)' = Used(e)
    BY <1>3, <1>4 DEF Used
  <1>6. /\ Used(d) \in Nat /\ Foreign[d] \in Nat /\ folders[d] \in Nat
        /\ TotalOccupied(content[d]) \in Nat
    BY UsedType DEF DiskInv
  <1>7. /\ Used(d) = Foreign[d] + folders[d] + TotalOccupied(content[d])
        /\ Used(d)' = Foreign[d] + folders'[d] + TotalOccupied(content[d])
    BY <1>3 DEF Used
  <1>8. Used(d)' = Used(d) + Block
    BY <1>1, <1>4, <1>6, <1>7
  <1>9. \A c \in Brick : Target(c)' = Target(c)
    BY <1>3 DEF Target
  <1>10. Used(Target(b))' = Used(d)'
    BY <1>2, <1>9 DEF Used
  <1> QED
    BY <1>2, <1>3, <1>4, <1>5, <1>8, <1>9, <1>10

(* What a step of the worker changes, and where it may be.                 *)
LEMMA StepKinds ==
    ASSUME Next
    PROVE  \/ \E b \in Brick : \/ Quiet(b) \/ Writes(b) \/ CreateDir(b)
                               \/ \E d \in Disk : Exchange(b, d)
           \/ Restart
  BY DEF Next, InitSteps, CopySteps, Quiet, Writes

-----------------------------------------------------------------------------

(* No disk is filled beyond its capacity.                                  *)
LEMMA CapacityStep ==
    ASSUME DiskInv, Next
    PROVE  /\ content' \in [Place -> Lengths] /\ folders' \in [Place -> Nat]
           /\ \A d \in Place : Used(d)' <= Capacity
  <1> DEFINE Fits == /\ content' \in [Place -> Lengths] /\ folders' \in [Place -> Nat]
                     /\ \A d \in Place : Used(d)' <= Capacity
  <1>0. /\ content \in [Place -> Lengths] /\ folders \in [Place -> Nat]
        /\ \A d \in Place : Used(d) <= Capacity
        /\ Capacity \in Nat
    BY SpaceAssumption DEF DiskInv, TypeOK, Lengths
  <1>1. ASSUME UNCHANGED <<content, folders>> PROVE Fits
    BY <1>0, <1>1 DEF Used
  <1>2. ASSUME NEW b \in Brick, Writes(b) PROVE Fits
    <2>1. CASE UNCHANGED content
      BY <1>1, <1>2, <2>1, WritesPut
    <2>2. ASSUME NEW n \in Nat \cup {Absent}, Leaves(b, n) PROVE Fits
      <3>0. file[b] \in Path /\ UNCHANGED folders /\ TypeOK /\ PutOnTarget(b, n)
        BY <1>2, <2>2, WritesPut DEF DiskInv, Leaves
      <3>1. /\ content' \in [Place -> Lengths]
            /\ \A d \in Place \ {Target(b)} : Used(d)' = Used(d)
            /\ Occupied(OnTarget(b)) \in Nat /\ Occupied(n) \in Nat
            /\ Used(Target(b)) \in Nat
            /\ \A d \in Place : d = Target(b) =>
                  Used(d)' = Used(d) - Occupied(OnTarget(b)) + Occupied(n)
        BY <3>0, UsedAfterPut
      <3>2. PICK e \in Place : e = Target(b)
        BY <3>0, TargetType
      <3>3. Used(e)' = Used(e) - Occupied(OnTarget(b)) + Occupied(n)
        BY <3>1, <3>2
      <3>4. Used(e)' <= Capacity
        <4>1. CASE n = 0 \/ n = Absent
          <5>1. Occupied(n) = 0
            BY <4>1, OccupiedType
          <5> QED
            BY <1>0, <3>1, <3>2, <3>3, <5>1
        <4>2. CASE WriteUnit(b)
          BY <2>2, <3>2, <3>3, <4>2 DEF Leaves
        <4> QED
          BY <1>2, <2>2, <4>1, <4>2 DEF Leaves, Writes
      <3> QED
        BY <1>0, <3>0, <3>1, <3>2, <3>4
    <2> QED
      BY <1>2, <2>1, <2>2, WritesPut
  <1>3. ASSUME NEW b \in Brick, CreateDir(b) PROVE Fits
    BY <1>0, <1>3, FolderMade
  <1>4. ASSUME NEW b \in Brick, Quiet(b) \/ \E d \in Disk : Exchange(b, d)
        PROVE  UNCHANGED <<content, folders>>
    BY <1>4, QuietWorld DEF world, Exchange
  <1>5. CASE Restart
    BY <1>1, <1>5 DEF Restart
  <1> QED
    BY <1>1, <1>2, <1>3, <1>4, <1>5, StepKinds

(* What each step of a worker does to its control point and its container. *)
LEMMA WorkerTypes ==
    ASSUME DiskInv, NEW b \in Brick, Quiet(b) \/ Writes(b) \/ CreateDir(b)
    PROVE  /\ pc' \in [Brick -> Label]
           /\ m_pos' \in [Brick -> Nat]
           /\ item' \in [Brick -> Nat \ {0}]
           /\ m_curr_disk_id' \in [Brick -> Disk \cup {NoDisk}]
           /\ m_sql' \in [Brick -> BOOLEAN]
           /\ file' \in [Brick -> Path \cup {NoPath}]
  <1>0. /\ pc \in [Brick -> Label]
        /\ m_pos \in [Brick -> Nat]
        /\ item \in [Brick -> Nat \ {0}] /\ Positions \in [Brick -> SUBSET Nat]
        /\ m_curr_disk_id \in [Brick -> Disk \cup {NoDisk}]
        /\ m_path_Partition \in [Brick -> Disk \cup {NoDisk}]
        /\ m_sql \in [Brick -> BOOLEAN]
        /\ file \in [Brick -> Path \cup {NoPath}]
    BY PositionsAssumption DEF DiskInv, TypeOK, Mountings, Label
  <1>1. CASE Construct(b)
    BY <1>0, <1>1 DEF Construct, Goto, container, database, process, Label
  <1>2. CASE NoPositions(b)
    BY <1>0, <1>2 DEF NoPositions, Goto, container, database, process, Label
  <1>3. CASE GetDiskid(b)
    BY <1>0, <1>3 DEF GetDiskid, Goto, container, database, process, Label
  <1>4. CASE NoDiskMounted(b)
    BY <1>0, <1>4 DEF NoDiskMounted, NextPosition, MorePositions, Destroyed, Goto, container,
         database, process, Label
  <1>5. CASE IsExistdisk(b)
    BY <1>0, <1>5 DEF IsExistdisk, Executes, GivenTo, Goto, container, database, process, Label
  <1>6. CASE AddDiskForBrick(b)
    BY <1>0, <1>6 DEF AddDiskForBrick, NextPosition, MorePositions, Destroyed, Executes, Goto,
         container, database, process, Label
  <1>7. CASE GetDiskSpaceInfo(b)
    BY <1>0, <1>7 DEF GetDiskSpaceInfo, Goto, container, database, process, Label
  <1>8. CASE NeedDel(b)
    BY <1>0, <1>8 DEF NeedDel, Destroyed, Goto, container, database, process, Label
  <1>9. CASE InitErr(b)
    BY <1>0, <1>9 DEF InitErr, Destroyed, Goto, container, database, process, Label
  <1>10. CASE Stop(b)
    BY <1>0, <1>10 DEF Stop, Destroyed, Goto, container, database, process, Label
  <1>11. CASE CopyTry(b)
    BY <1>0, <1>11 DEF CopyTry, Goto, container, database, process, Label
  <1>12. CASE CopyTryErr(b)
    BY <1>0, <1>12 DEF CopyTryErr, CopyReturns, Goto, container, database, process, Label
  <1>13. CASE IsBackuped(b)
    BY <1>0, <1>13 DEF IsBackuped, CopyReturns, Executes, Goto, container, database, process, Label
  <1>14. CASE Compare(b)
    BY <1>0, <1>14 DEF Compare, AfterCompare, Goto, container, database, process, Label
  <1>15. CASE Open(b)
    BY <1>0, <1>15 DEF Open, Goto, container, database, process, Label
  <1>16. CASE OpenErr(b)
    BY <1>0, <1>16 DEF OpenErr, CopyReturns, Goto, container, database, process, Label
  <1>17. CASE WriteUnit(b)
    BY <1>0, <1>17 DEF WriteUnit, Goto, container, database, process, Label
  <1>18. CASE WriteErr(b)
    BY <1>0, <1>18 DEF WriteErr, CopyReturns, Goto, container, database, process, Label
  <1>19. CASE Close(b)
    BY <1>0, <1>19 DEF Close, Counted, Goto, container, database, process, Label
  <1>20. CASE AddFileLog(b)
    BY <1>0, <1>20 DEF AddFileLog, CopyReturns, Executes, Goto, container, database, process, Label
  <1>21. CASE CreateDir(b)
    BY <1>0, <1>21 DEF CreateDir, Goto, container, database, process, Label
  <1>22. ASSUME NEW p \in Path, Copy(b, p)
        PROVE  /\ pc' \in [Brick -> Label]
               /\ m_pos' \in [Brick -> Nat]
               /\ item' \in [Brick -> Nat \ {0}]
               /\ m_curr_disk_id' \in [Brick -> Disk \cup {NoDisk}]
               /\ m_sql' \in [Brick -> BOOLEAN]
               /\ file' \in [Brick -> Path \cup {NoPath}]
    BY <1>0, <1>22 DEF Copy, Goto, Label
  <1> QED
    BY <1>1, <1>2, <1>3, <1>4, <1>5, <1>6, <1>7, <1>8, <1>9, <1>10, <1>11, <1>12, <1>13, <1>14, <1>15, <1>16, <1>17, <1>18, <1>19, <1>20, <1>21, <1>22 DEF Quiet, Writes

(* The count of the used space, and the tables of the database.            *)
LEMMA CountTypes ==
    ASSUME DiskInv, NEW b \in Brick, Quiet(b) \/ Writes(b) \/ CreateDir(b)
    PROVE  /\ m_target_space_used' \in [Brick -> Nat]
           /\ unseen' \in [Brick -> Nat]
           /\ DISK_FILE' \in [Path -> Disk \cup {NoDisk}]
           /\ BRICK_DISK' \in [Disk -> Brick \cup {NoBrick}]
           /\ \A d \in Disk : BRICK_DISK[d] # NoBrick => BRICK_DISK'[d] = BRICK_DISK[d]
  <1>0. /\ m_target_space_used \in [Brick -> Nat] /\ unseen \in [Brick -> Nat]
        /\ BRICK_DISK \in [Disk -> Brick \cup {NoBrick}]
        /\ DISK_FILE \in [Path -> Disk \cup {NoDisk}]
        /\ m_curr_disk_id \in [Brick -> Disk \cup {NoDisk}]
    BY DEF DiskInv, TypeOK
  <1>1. Used(Target(b)) \in Nat
    BY TargetType, UsedType DEF DiskInv
  <1>2. CASE GetDiskSpaceInfo(b)
    BY <1>0, <1>1, <1>2 DEF GetDiskSpaceInfo, database
  <1>3. CASE Close(b)
    <2>1. OnTarget(b) \in Nat
      <3>1. pc[b] = "write" /\ pc[b] \in WithFile
        BY <1>3 DEF Close, WithFile
      <3>2. file[b] \in Path
        BY <3>1 DEF DiskInv, FileInv
      <3>3. OnTarget(b) \in Nat \cup {Absent}
        BY <3>2, TargetType DEF DiskInv, TypeOK, OnTarget
      <3> QED
        BY <3>1, <3>3 DEF DiskInv, FileInv
    <2>2. PICK n \in Nat : n = OnTarget(b)
      BY <2>1
    <2>3. Occupied(n) \in Nat /\ n <= Occupied(n)
      BY OccupiedType
    <2>4. /\ m_target_space_used' = [m_target_space_used EXCEPT ![b] = m_target_space_used[b] + n]
          /\ unseen' = [unseen EXCEPT ![b] = unseen[b] + Occupied(n) - n]
          /\ UNCHANGED database
      BY <1>3, <2>2 DEF Close, Counted
    <2>5. unseen[b] + Occupied(n) - n \in Nat /\ m_target_space_used[b] + n \in Nat
      BY <1>0, <2>3
    <2> QED
      BY <1>0, <2>4, <2>5 DEF database
  <1>4. CASE AddDiskForBrick(b)
    BY <1>0, <1>4 DEF AddDiskForBrick, NextPosition, Destroyed, container
  <1>5. CASE AddFileLog(b)
    BY <1>0, <1>5 DEF AddFileLog, CopyReturns
  <1>6. ASSUME \/ Construct(b) \/ NoPositions(b) \/ GetDiskid(b) \/ NoDiskMounted(b)
               \/ IsExistdisk(b) \/ NeedDel(b) \/ InitErr(b) \/ (\E p \in Path : Copy(b, p))
               \/ Stop(b) \/ CopyTry(b) \/ CopyTryErr(b) \/ IsBackuped(b) \/ Compare(b)
               \/ Open(b) \/ OpenErr(b) \/ WriteUnit(b) \/ WriteErr(b)
        PROVE  /\ UNCHANGED database
               /\ m_target_space_used' \in [Brick -> Nat] /\ unseen' \in [Brick -> Nat]
    BY <1>0, <1>6
    DEF Construct, NoPositions, GetDiskid, NoDiskMounted, IsExistdisk, NeedDel, InitErr, Copy,
        Stop, CopyTry, CopyTryErr, IsBackuped, Compare, Open, OpenErr, WriteUnit, WriteErr,
        NextPosition, Destroyed, CopyReturns, container, process
  <1>7. CASE CreateDir(b)
    BY <1>0, <1>7, FolderMade DEF database
  <1> QED
    BY <1>0, <1>2, <1>3, <1>4, <1>5, <1>6, <1>7 DEF Quiet, Writes, database

(* A worker's step leaves the other workers alone, and their disks.        *)
Alone(c) ==
    /\ UNCHANGED <<mounted, m_path_Partition, exchanged>>
    /\ pc'[c] = pc[c] /\ m_pos'[c] = m_pos[c] /\ m_curr_disk_id'[c] = m_curr_disk_id[c]
    /\ m_target_space_used'[c] = m_target_space_used[c] /\ unseen'[c] = unseen[c]
    /\ file'[c] = file[c]
    /\ Target(c)' = Target(c)
    /\ content'[Target(c)] = content[Target(c)] /\ folders'[Target(c)] = folders[Target(c)]
    /\ Used(Target(c))' = Used(Target(c))

LEMMA OthersKept ==
    ASSUME DiskInv, NEW b \in Brick, NEW c \in Brick \ {b},
           Quiet(b) \/ Writes(b) \/ CreateDir(b)
    PROVE  Alone(c)
  <1>0. /\ DOMAIN pc = Brick /\ DOMAIN m_curr_disk_id = Brick /\ DOMAIN m_pos = Brick
        /\ DOMAIN m_target_space_used = Brick /\ DOMAIN file = Brick /\ DOMAIN unseen = Brick
    BY DEF DiskInv, TypeOK
  <1>1. UNCHANGED <<mounted, m_path_Partition, exchanged>>
    BY QuietWorld, WritesPut, FolderMade DEF world
  <1>2. Target(c)' = Target(c)
    BY <1>1 DEF Target
  <1>3. PICK d \in Place : d = Target(c)
    BY TargetType DEF DiskInv
  <1>4. d # Target(b)
    BY <1>3, OneDirectory DEF DiskInv
  <1>5. CASE Quiet(b)
    <2>1. /\ pc'[c] = pc[c] /\ m_pos'[c] = m_pos[c] /\ m_curr_disk_id'[c] = m_curr_disk_id[c]
          /\ m_target_space_used'[c] = m_target_space_used[c] /\ unseen'[c] = unseen[c]
          /\ file'[c] = file[c]
      BY <1>0, <1>5
      DEF Quiet, Construct, NoPositions, GetDiskid, NoDiskMounted, IsExistdisk, AddDiskForBrick,
          GetDiskSpaceInfo, NeedDel, InitErr, Copy, Stop, CopyTry, CopyTryErr, IsBackuped,
          Compare, Close, AddFileLog, NextPosition, Destroyed, CopyReturns, Goto, container
    <2>2. UNCHANGED <<content, folders>> /\ Used(Target(c))' = Used(Target(c))
      BY <1>5, QuietWorld, UsedStays DEF world
    <2> QED
      BY <1>1, <1>2, <2>1, <2>2 DEF Alone
  <1>6. CASE Writes(b)
    <2>1. /\ pc'[c] = pc[c] /\ m_pos'[c] = m_pos[c] /\ m_curr_disk_id'[c] = m_curr_disk_id[c]
          /\ m_target_space_used'[c] = m_target_space_used[c] /\ unseen'[c] = unseen[c]
          /\ file'[c] = file[c]
      BY <1>0, <1>6
      DEF Writes, Open, OpenErr, WriteUnit, WriteErr, CopyReturns, Goto, container, process
    <2>2. UNCHANGED folders /\ file[b] \in Path
      BY <1>6, WritesPut
    <2>3. content'[d] = content[d]
      <3>1. CASE UNCHANGED content
        BY <3>1
      <3>2. ASSUME NEW n \in Nat \cup {Absent}, Leaves(b, n)
            PROVE  content'[d] = content[d]
        BY <1>4, <2>2, <3>2, UsedAfterPut DEF DiskInv, Leaves
      <3> QED
        BY <1>6, <3>1, <3>2, WritesPut
    <2>4. Used(Target(c))' = Used(Target(c))
      BY <1>2, <1>3, <2>2, <2>3 DEF Used
    <2> QED
      BY <1>1, <1>2, <1>3, <2>1, <2>2, <2>3, <2>4 DEF Alone
  <1>7. CASE CreateDir(b)
    <2>1. /\ UNCHANGED <<content, pc, m_pos, m_curr_disk_id, m_target_space_used, file>>
          /\ unseen'[c] = unseen[c] /\ folders'[d] = folders[d]
      BY <1>4, <1>7, FolderMade
    <2>2. Used(Target(c))' = Used(Target(c))
      BY <1>2, <1>3, <2>1 DEF Used
    <2> QED
      BY <1>1, <1>2, <1>3, <2>1, <2>2 DEF Alone
  <1> QED
    BY <1>5, <1>6, <1>7

(* The worker's own disk and file, after its step.                         *)
LEMMA OwnDisk ==
    ASSUME DiskInv, NEW b \in Brick, Quiet(b) \/ Writes(b) \/ CreateDir(b)
    PROVE  /\ pc'[b] \in Begun /\ m_pos'[b] # 0 =>
                 m_path_Partition[b] # NoDisk /\ m_curr_disk_id'[b] = m_path_Partition[b]
           /\ m_pos'[b] = 0 => m_curr_disk_id'[b] = NoDisk
           /\ pc'[b] = "idle" => m_pos'[b] = 0
           /\ pc'[b] \in WithDisk /\ m_pos'[b] # 0 => BRICK_DISK'[m_curr_disk_id'[b]] = b
           /\ pc'[b] \in WithFile => file'[b] \in Path
  <1>0. /\ pc \in [Brick -> Label]
        /\ BRICK_DISK \in [Disk -> Brick \cup {NoBrick}]
        /\ m_curr_disk_id \in [Brick -> Disk \cup {NoDisk}]
        /\ m_pos \in [Brick -> Nat]
        /\ file \in [Brick -> Path \cup {NoPath}]
        /\ DOMAIN m_path_Partition = Brick
    BY DEF DiskInv, TypeOK, Mountings, Label
  <1>i. /\ pc[b] \in Begun /\ m_pos[b] # 0 =>
              m_path_Partition[b] # NoDisk /\ m_curr_disk_id[b] = m_path_Partition[b]
        /\ m_pos[b] = 0 => m_curr_disk_id[b] = NoDisk
        /\ pc[b] = "idle" => m_pos[b] = 0
        /\ pc[b] \in WithDisk /\ m_pos[b] # 0 => BRICK_DISK[m_curr_disk_id[b]] = b
        /\ pc[b] \in WithFile => file[b] \in Path
    BY DEF DiskInv, MountInv, OwnerInv, FileInv
  <1>1. CASE Construct(b)
    BY <1>0, <1>i, <1>1 DEF Construct, Goto, container, database, process, Begun, WithDisk, WithFile
  <1>2. CASE NoPositions(b)
    BY <1>0, <1>i, <1>2 DEF NoPositions, Goto, container, database, process, Begun, WithDisk,
         WithFile
  <1>3. CASE GetDiskid(b)
    BY <1>0, <1>i, <1>3 DEF GetDiskid, Goto, container, database, process, Begun, WithDisk, WithFile
  <1>4. CASE NoDiskMounted(b)
    BY <1>0, <1>i, <1>4 DEF NoDiskMounted, NextPosition, MorePositions, Destroyed, Goto,
         container, database, process, Begun, WithDisk, WithFile
  <1>5. CASE IsExistdisk(b)
    BY <1>0, <1>i, <1>5 DEF IsExistdisk, Executes, GivenTo, Goto, container, database, process,
         Begun, WithDisk, WithFile
  <1>6. CASE AddDiskForBrick(b)
    BY <1>0, <1>i, <1>6 DEF AddDiskForBrick, NextPosition, MorePositions, Destroyed, Executes,
         Goto, container, database, process, Begun, WithDisk, WithFile
  <1>7. CASE GetDiskSpaceInfo(b)
    BY <1>0, <1>i, <1>7 DEF GetDiskSpaceInfo, Goto, container, database, process, Begun, WithDisk,
         WithFile
  <1>8. CASE NeedDel(b)
    BY <1>0, <1>i, <1>8 DEF NeedDel, Destroyed, Goto, container, database, process, Begun,
         WithDisk, WithFile
  <1>9. CASE InitErr(b)
    BY <1>0, <1>i, <1>9 DEF InitErr, Destroyed, Goto, container, database, process, Begun,
         WithDisk, WithFile
  <1>10. CASE Stop(b)
    BY <1>0, <1>i, <1>10 DEF Stop, Destroyed, Goto, container, database, process, Begun, WithDisk,
         WithFile
  <1>11. CASE CopyTry(b)
    BY <1>0, <1>i, <1>11 DEF CopyTry, Goto, container, database, process, Begun, WithDisk, WithFile
  <1>12. CASE CopyTryErr(b)
    BY <1>0, <1>i, <1>12 DEF CopyTryErr, CopyReturns, Goto, container, database, process, Begun,
         WithDisk, WithFile
  <1>13. CASE IsBackuped(b)
    BY <1>0, <1>i, <1>13 DEF IsBackuped, CopyReturns, Executes, Goto, container, database,
         process, Begun, WithDisk, WithFile
  <1>14. CASE Compare(b)
    BY <1>0, <1>i, <1>14 DEF Compare, AfterCompare, Goto, container, database, process, Begun,
         WithDisk, WithFile
  <1>15. CASE Open(b)
    BY <1>0, <1>i, <1>15 DEF Open, Goto, container, database, process, Begun, WithDisk, WithFile
  <1>16. CASE OpenErr(b)
    BY <1>0, <1>i, <1>16 DEF OpenErr, CopyReturns, Goto, container, database, process, Begun,
         WithDisk, WithFile
  <1>17. CASE WriteUnit(b)
    BY <1>0, <1>i, <1>17 DEF WriteUnit, Goto, container, database, process, Begun, WithDisk,
         WithFile
  <1>18. CASE WriteErr(b)
    BY <1>0, <1>i, <1>18 DEF WriteErr, CopyReturns, Goto, container, database, process, Begun,
         WithDisk, WithFile
  <1>19. CASE Close(b)
    BY <1>0, <1>i, <1>19 DEF Close, Counted, Goto, container, database, process, Begun, WithDisk,
         WithFile
  <1>20. CASE AddFileLog(b)
    BY <1>0, <1>i, <1>20 DEF AddFileLog, CopyReturns, Executes, Goto, container, database,
         process, Begun, WithDisk, WithFile
  <1>21. CASE CreateDir(b)
    BY <1>0, <1>i, <1>21 DEF CreateDir, Goto, container, database, process, Begun, WithDisk,
         WithFile
  <1>22. ASSUME NEW p \in Path, Copy(b, p)
        PROVE  /\ pc'[b] \in Begun /\ m_pos'[b] # 0 =>
                     m_path_Partition[b] # NoDisk /\ m_curr_disk_id'[b] = m_path_Partition[b]
               /\ m_pos'[b] = 0 => m_curr_disk_id'[b] = NoDisk
               /\ pc'[b] = "idle" => m_pos'[b] = 0
               /\ pc'[b] \in WithDisk /\ m_pos'[b] # 0 => BRICK_DISK'[m_curr_disk_id'[b]] = b
               /\ pc'[b] \in WithFile => file'[b] \in Path
    BY <1>0, <1>i, <1>22 DEF Copy, Goto, container, database, process, Begun, WithDisk, WithFile
  <1> QED
    BY <1>1, <1>2, <1>3, <1>4, <1>5, <1>6, <1>7, <1>8, <1>9, <1>10, <1>11, <1>12, <1>13, <1>14, <1>15, <1>16, <1>17, <1>18, <1>19, <1>20, <1>21, <1>22 DEF Quiet, Writes

(* How a worker that touches no file gets to the log, and to know its disk. *)
LEMMA QuietOwn ==
    ASSUME DiskInv, NEW b \in Brick, Quiet(b)
    PROVE  /\ pc'[b] # "write"
           /\ pc'[b] = "log" => /\ file'[b] = file[b]
                                /\ Close(b) \/ OnTarget(b) \in Length
           /\ pc'[b] \in Measured =>
                 \/ m_target_space_used'[b] = Used(Target(b)) /\ unseen'[b] = 0
                 \/ /\ Close(b)
                    /\ m_target_space_used'[b] = m_target_space_used[b] + OnTarget(b)
                    /\ unseen'[b] = unseen[b] + Occupied(OnTarget(b)) - OnTarget(b)
                 \/ /\ pc[b] \in Measured
                    /\ m_target_space_used'[b] = m_target_space_used[b]
                    /\ unseen'[b] = unseen[b]
  <1>0. /\ pc \in [Brick -> Label]
        /\ m_target_space_used \in [Brick -> Nat] /\ unseen \in [Brick -> Nat]
    BY DEF DiskInv, TypeOK, Label
  <1>1. CASE Construct(b)
    BY <1>0, <1>1 DEF Construct, Goto, container, database, process, Measured, WithDisk
  <1>2. CASE NoPositions(b)
    BY <1>0, <1>2 DEF NoPositions, Goto, container, database, process, Measured, WithDisk
  <1>3. CASE GetDiskid(b)
    BY <1>0, <1>3 DEF GetDiskid, Goto, container, database, process, Measured, WithDisk
  <1>4. CASE NoDiskMounted(b)
    BY <1>0, <1>4 DEF NoDiskMounted, NextPosition, MorePositions, Destroyed, Goto, container,
         database, process, Measured, WithDisk
  <1>5. CASE IsExistdisk(b)
    BY <1>0, <1>5 DEF IsExistdisk, Executes, GivenTo, Goto, container, database, process,
         Measured, WithDisk
  <1>6. CASE AddDiskForBrick(b)
    BY <1>0, <1>6 DEF AddDiskForBrick, NextPosition, MorePositions, Destroyed, Executes, Goto,
         container, database, process, Measured, WithDisk
  <1>7. CASE GetDiskSpaceInfo(b)
    BY <1>0, <1>7 DEF GetDiskSpaceInfo, Goto, container, database, process, Measured, WithDisk
  <1>8. CASE NeedDel(b)
    BY <1>0, <1>8 DEF NeedDel, Destroyed, Goto, container, database, process, Measured, WithDisk
  <1>9. CASE InitErr(b)
    BY <1>0, <1>9 DEF InitErr, Destroyed, Goto, container, database, process, Measured, WithDisk
  <1>10. CASE Stop(b)
    BY <1>0, <1>10 DEF Stop, Destroyed, Goto, container, database, process, Measured, WithDisk
  <1>11. CASE CopyTry(b)
    BY <1>0, <1>11 DEF CopyTry, Goto, container, database, process, Measured, WithDisk
  <1>12. CASE CopyTryErr(b)
    BY <1>0, <1>12 DEF CopyTryErr, CopyReturns, Goto, container, database, process, Measured,
         WithDisk
  <1>13. CASE IsBackuped(b)
    BY <1>0, <1>13 DEF IsBackuped, CopyReturns, Executes, Goto, container, database, process,
         Measured, WithDisk
  <1>14. CASE Compare(b)
    BY <1>0, <1>14 DEF Compare, AfterCompare, Goto, container, database, process, Measured, WithDisk
  <1>15. CASE Close(b)
    BY <1>0, <1>15 DEF Close, Counted, Goto, container, database, process, Measured, WithDisk
  <1>16. CASE AddFileLog(b)
    BY <1>0, <1>16 DEF AddFileLog, CopyReturns, Executes, Goto, container, database, process,
         Measured, WithDisk
  <1>17. CASE \E p \in Path : Copy(b, p)
    BY <1>0, <1>17 DEF Copy, Goto, container, Measured, WithDisk
  <1> QED
    BY <1>1, <1>2, <1>3, <1>4, <1>5, <1>6, <1>7, <1>8, <1>9, <1>10, <1>11, <1>12, <1>13, <1>14, <1>15, <1>16, <1>17 DEF Quiet

(* Where a worker is that has touched a file, and with which file.         *)
LEMMA WriteOwn ==
    ASSUME DiskInv, NEW b \in Brick
    PROVE  /\ Open(b) => pc[b] = "open" /\ pc'[b] = "write" /\ file'[b] = file[b]
           /\ OpenErr(b) => pc[b] = "open" /\ pc'[b] = "ready"
           /\ WriteUnit(b) => pc[b] = "write" /\ pc'[b] = "write" /\ file'[b] = file[b]
           /\ WriteErr(b) => pc[b] = "write" /\ pc'[b] = "ready"
  <1>0. b \in DOMAIN pc
    BY DEF DiskInv, TypeOK
  <1> QED
    BY <1>0 DEF Open, OpenErr, WriteUnit, WriteErr, CopyReturns, Goto, container, process

(* The file that the worker writes or will log is there, after its step.   *)
LEMMA OwnFile ==
    ASSUME DiskInv, NEW b \in Brick, Quiet(b) \/ Writes(b) \/ CreateDir(b)
    PROVE  /\ pc'[b] = "write" => content'[Target(b)][file'[b]] # Absent
           /\ pc'[b] = "log" => content'[Target(b)][file'[b]] # Absent
  <1>1. CASE Quiet(b)
    <2>1. UNCHANGED content
      BY <1>1, QuietWorld DEF world
    <2>2. Close(b) => OnTarget(b) # Absent
      BY DEF Close, DiskInv, FileInv
    <2>3. \A n \in Length : n # Absent
      BY SpaceAssumption DEF Absent
    <2> QED
      BY <1>1, <2>1, <2>2, <2>3, QuietOwn DEF OnTarget
  <1>2. CASE Open(b) \/ WriteUnit(b)
    <2>1. PICK n \in Nat \cup {Absent} : PutOnTarget(b, n) /\ n # Absent
      <3>1. ~OpenErr(b)
        BY <1>2, WriteOwn
      <3>2. 0 # Absent
        BY DEF Absent
      <3> QED
        BY <1>2, <3>1, <3>2, WritesPut DEF Writes, Leaves
    <2>2. file[b] \in Path /\ file'[b] = file[b]
      BY <1>2, WritesPut, WriteOwn DEF Writes
    <2> QED
      BY <2>1, <2>2, UsedAfterPut DEF DiskInv
  <1>3. CASE OpenErr(b) \/ WriteErr(b)
    BY <1>3, WriteOwn
  <1>4. CASE CreateDir(b)
    BY <1>4, FolderMade
  <1> QED
    BY <1>1, <1>2, <1>3, <1>4 DEF Writes

(* The count keeps pace with the disk, over the worker's own step.         *)
KeepsPace(b) ==
    /\ pc'[b] \in Measured =>
          Used(Target(b))' <= m_target_space_used'[b] + unseen'[b]
    /\ pc'[b] = "write" =>
          Used(Target(b))' <= m_target_space_used'[b] + unseen'[b]
                                + Occupied(content'[Target(b)][file'[b]])

LEMMA OwnSpace ==
    ASSUME DiskInv, NEW b \in Brick \ exchanged, Quiet(b) \/ Writes(b) \/ CreateDir(b)
    PROVE  KeepsPace(b)
  <1>0. /\ pc[b] \in Measured => Used(Target(b)) <= m_target_space_used[b] + unseen[b]
        /\ pc[b] = "write" =>
              Used(Target(b)) <= m_target_space_used[b] + unseen[b] + Occupied(OnTarget(b))
        /\ m_target_space_used[b] \in Nat /\ unseen[b] \in Nat
        /\ Used(Target(b)) \in Nat /\ Block \in Nat
    BY TargetType, UsedType, SpaceAssumption DEF DiskInv, SpaceInv, TypeOK
  <1>1. CASE Quiet(b)
    <2>1. Used(Target(b))' = Used(Target(b))
      BY <1>1, QuietWorld, UsedStays
    <2>2. pc'[b] # "write"
      BY <1>1, QuietOwn
    <2>3. CASE m_target_space_used'[b] = Used(Target(b)) /\ unseen'[b] = 0
      BY <1>0, <2>1, <2>2, <2>3 DEF KeepsPace
    <2>4. CASE /\ Close(b)
               /\ m_target_space_used'[b] = m_target_space_used[b] + OnTarget(b)
               /\ unseen'[b] = unseen[b] + Occupied(OnTarget(b)) - OnTarget(b)
      <3>1. pc[b] = "write" /\ file[b] \in Path /\ OnTarget(b) # Absent
        BY <2>4 DEF Close, DiskInv, FileInv, WithFile
      <3>2. OnTarget(b) \in Nat
        BY <3>1, TargetType DEF OnTarget, DiskInv, TypeOK
      <3>3. Occupied(OnTarget(b)) \in Nat
        BY <3>2, OccupiedType
      <3> QED
        BY <1>0, <2>1, <2>2, <2>4, <3>1, <3>2, <3>3 DEF KeepsPace
    <2>5. CASE /\ pc[b] \in Measured
               /\ m_target_space_used'[b] = m_target_space_used[b]
               /\ unseen'[b] = unseen[b]
      BY <1>0, <2>1, <2>2, <2>5 DEF KeepsPace
    <2> QED
      BY <1>1, <2>2, <2>3, <2>4, <2>5, QuietOwn DEF KeepsPace
  <1>2. CASE Writes(b)
    <2>0. /\ file[b] \in Path /\ TypeOK
          /\ UNCHANGED <<mounted, folders, m_target_space_used, unseen>>
      BY <1>2, WritesPut DEF DiskInv
    <2>1. CASE UNCHANGED content /\ OpenErr(b)
      <3>1. Used(Target(b))' = Used(Target(b))
        BY <2>0, <2>1, UsedStays DEF world
      <3>2. pc[b] = "open" /\ pc'[b] = "ready"
        BY <2>1, WriteOwn
      <3> QED
        BY <1>0, <2>0, <3>1, <3>2 DEF Measured, WithDisk, KeepsPace
    <2>2. ASSUME NEW n \in Nat \cup {Absent}, Leaves(b, n) PROVE KeepsPace(b)
      <3>0. PutOnTarget(b, n)
        BY <2>2 DEF Leaves
      <3>1. /\ Used(Target(b))' = Used(Target(b)) - Occupied(OnTarget(b)) + Occupied(n)
            /\ content'[Target(b)][file[b]] = n
            /\ Occupied(OnTarget(b)) \in Nat /\ Occupied(n) \in Nat
        BY <2>0, <3>0, UsedAfterPut, UsedUnder
      <3>2. CASE Open(b) \/ OpenErr(b)
        <4>1. pc[b] \in Measured /\ n = 0 /\ Occupied(n) = 0
          BY <2>2, <3>2, WriteOwn, OccupiedType DEF Leaves, Measured, WithDisk
        <4>2. Used(Target(b))' <= m_target_space_used'[b] + unseen'[b]
          BY <1>0, <2>0, <3>1, <4>1
        <4>3. pc'[b] = "write" => Occupied(content'[Target(b)][file'[b]]) = 0
          BY <3>1, <3>2, <4>1, WriteOwn
        <4>4. m_target_space_used'[b] \in Nat /\ unseen'[b] \in Nat
          BY <1>0, <2>0
        <4>5. pc'[b] = "write" =>
                 Used(Target(b))' <= m_target_space_used'[b] + unseen'[b]
                                       + Occupied(content'[Target(b)][file'[b]])
          BY <4>2, <4>3, <4>4
        <4> QED
          BY <4>2, <4>5 DEF KeepsPace
      <3>3. CASE WriteUnit(b)
        <4>1. pc[b] = "write" /\ pc'[b] = "write" /\ file'[b] = file[b]
          BY <3>3, WriteOwn
        <4>2. Occupied(content'[Target(b)][file'[b]]) = Occupied(n)
          BY <3>1, <4>1
        <4>3. Used(Target(b))' <= m_target_space_used'[b] + unseen'[b] + Occupied(n)
          BY <1>0, <2>0, <3>1, <4>1
        <4> QED
          BY <4>1, <4>2, <4>3 DEF Measured, KeepsPace
      <3>4. CASE WriteErr(b)
        <4>1. pc[b] = "write" /\ pc'[b] = "ready"
          BY <3>4, WriteOwn
        <4>2. Occupied(n) = 0
          BY <2>2, <3>4, OccupiedType DEF Leaves
        <4>3. Used(Target(b))' <= m_target_space_used'[b] + unseen'[b]
          BY <1>0, <2>0, <3>1, <4>1, <4>2
        <4> QED
          BY <4>1, <4>3 DEF KeepsPace
      <3> QED
        BY <1>2, <3>2, <3>3, <3>4 DEF Writes
    <2> QED
      BY <1>2, <2>1, <2>2, WritesPut
  <1>3. CASE CreateDir(b)
    <2>1. /\ UNCHANGED <<pc, m_target_space_used>> /\ pc[b] = "ready"
          /\ unseen'[b] = unseen[b] + Block /\ Used(Target(b))' = Used(Target(b)) + Block
      BY <1>3, FolderMade
    <2> QED
      BY <1>0, <2>1 DEF Measured, WithDisk, KeepsPace
  <1> QED
    BY <1>1, <1>2, <1>3

-----------------------------------------------------------------------------

(* A step of a worker keeps the invariant.                                 *)
LEMMA WorkerKeeps ==
    ASSUME DiskInv, Next, NEW b \in Brick, Quiet(b) \/ Writes(b) \/ CreateDir(b)
    PROVE  DiskInv'
  <1>0. UNCHANGED <<mounted, m_path_Partition, exchanged>>
    BY QuietWorld, WritesPut, FolderMade DEF world
  <1>1. TypeOK'
    <2>1. mounted' \in Mountings /\ m_path_Partition' \in Mountings /\ exchanged' \subseteq Brick
      BY <1>0 DEF DiskInv, TypeOK, Mountings
    <2>2. /\ content' \in [Place -> [Path -> Nat \cup {Absent}]] /\ folders' \in [Place -> Nat]
          /\ \A d \in Place : Used(d)' <= Capacity
      BY CapacityStep DEF Lengths
    <2> QED
      BY <2>1, <2>2, WorkerTypes, CountTypes DEF TypeOK, Label
  <1>2. ASSUME NEW c \in Brick \ {b} PROVE Alone(c)
    BY OthersKept
  <1>3. MountInv'
    <2> SUFFICES ASSUME NEW c \in Brick
                 PROVE  /\ c \notin exchanged' => m_path_Partition'[c] = mounted'[c]
                        /\ pc'[c] \in Begun /\ m_pos'[c] # 0 =>
                              /\ m_path_Partition'[c] # NoDisk
                              /\ m_curr_disk_id'[c] = m_path_Partition'[c]
                        /\ m_pos'[c] = 0 => m_curr_disk_id'[c] = NoDisk
                        /\ pc'[c] = "idle" => m_pos'[c] = 0
      BY DEF MountInv
    <2>1. c \notin exchanged' => m_path_Partition'[c] = mounted'[c]
      BY <1>0 DEF DiskInv, MountInv
    <2>2. CASE c = b
      BY <1>0, <2>1, <2>2, OwnDisk
    <2>3. CASE c # b
      BY <1>0, <1>2, <2>1, <2>3 DEF DiskInv, MountInv, Alone
    <2> QED
      BY <2>2, <2>3
  <1>4. OwnerInv'
    <2> SUFFICES ASSUME NEW c \in Brick, pc'[c] \in WithDisk, m_pos'[c] # 0
                 PROVE  BRICK_DISK'[m_curr_disk_id'[c]] = c
      BY DEF OwnerInv
    <2>1. CASE c = b
      BY <2>1, OwnDisk
    <2>2. CASE c # b
      <3>1. pc[c] \in WithDisk /\ m_pos[c] # 0 /\ m_curr_disk_id'[c] = m_curr_disk_id[c]
        BY <1>2, <2>2 DEF Alone
      <3>2. m_curr_disk_id[c] \in Disk /\ BRICK_DISK[m_curr_disk_id[c]] = c
        BY <3>1 DEF DiskInv, OwnerInv, MountInv, TypeOK, Begun, WithDisk
      <3>3. BRICK_DISK'[m_curr_disk_id[c]] = BRICK_DISK[m_curr_disk_id[c]]
        BY <3>2, CountTypes, NullAssumption
      <3> QED
        BY <3>1, <3>2, <3>3
    <2> QED
      BY <2>1, <2>2
  <1>5. FileInv'
    <2>0. \A c \in Brick : OnTarget(c)' = content'[Target(c)][file'[c]]
      BY <1>0 DEF OnTarget, Target
    <2> SUFFICES ASSUME NEW c \in Brick
                 PROVE  /\ pc'[c] \in WithFile => file'[c] \in Path
                        /\ pc'[c] = "write" => content'[Target(c)][file'[c]] # Absent
                        /\ pc'[c] = "log" /\ c \notin exchanged =>
                              content'[Target(c)][file'[c]] # Absent
      BY <1>0, <2>0 DEF FileInv
    <2>1. CASE c = b
      BY <2>1, OwnDisk, OwnFile
    <2>2. CASE c # b
      BY <1>2, <2>2 DEF DiskInv, FileInv, OnTarget, Alone
    <2> QED
      BY <2>1, <2>2
  <1>6. SpaceInv'
    <2>0. \A c \in Brick : OnTarget(c)' = content'[Target(c)][file'[c]]
      BY <1>0 DEF OnTarget, Target
    <2>1. \A c \in Brick \ exchanged : KeepsPace(c)
      <3> SUFFICES ASSUME NEW c \in Brick \ exchanged PROVE KeepsPace(c)
        OBVIOUS
      <3>1. CASE c = b
        BY <3>1, OwnSpace
      <3>2. CASE c # b
        <4>1. Alone(c)
          BY <1>2, <3>2
        <4>2. /\ pc[c] \in Measured => Used(Target(c)) <= m_target_space_used[c] + unseen[c]
              /\ pc[c] = "write" =>
                    Used(Target(c)) <= m_target_space_used[c] + unseen[c]
                                         + Occupied(content[Target(c)][file[c]])
          BY DEF DiskInv, SpaceInv, OnTarget
        <4> QED
          BY <4>1, <4>2 DEF Alone, KeepsPace
      <3> QED
        BY <3>1, <3>2
    <2>2. \A c \in Brick \ exchanged :
             pc'[c] \in Measured => Used(Target(c))' <= m_target_space_used'[c] + unseen'[c]
      BY <2>1 DEF KeepsPace
    <2>3. \A c \in Brick \ exchanged :
             pc'[c] = "write" => Used(Target(c))' <= m_target_space_used'[c] + unseen'[c]
                                                       + Occupied(OnTarget(c)')
      BY <2>0, <2>1 DEF KeepsPace
    <2>4. \A c \in Brick : Occupied(OnTarget(c))' = Occupied(OnTarget(c)')
      BY DEF Occupied, RoundUp
    <2> QED
      BY <1>0, <2>2, <2>3, <2>4 DEF SpaceInv
  <1> QED
    BY <1>1, <1>3, <1>4, <1>5, <1>6 DEF DiskInv

(* The operator takes a disk away: what was believed of it is excused.     *)
LEMMA ExchangeKeeps ==
    ASSUME DiskInv, NEW b \in Brick, NEW d \in Disk, Exchange(b, d)
    PROVE  DiskInv'
  <1>0. /\ UNCHANGED <<content, folders, BRICK_DISK, DISK_FILE, m_path_Partition, pc, m_pos, item,
                       m_curr_disk_id, m_target_space_used, file, unseen, m_sql>>
        /\ exchanged' = exchanged \cup {b} /\ pc[b] # "write"
        /\ d \notin {mounted[c] : c \in Brick}
        /\ mounted' = [mounted EXCEPT ![b] = d]
    BY DEF Exchange, database, container
  <1>1. /\ mounted \in [Brick -> Disk \cup {NoDisk}]
        /\ \A c, e \in Brick : mounted[c] = mounted[e] /\ mounted[c] # NoDisk => c = e
    BY DEF DiskInv, TypeOK, Mountings
  <1>2. /\ mounted'[b] = d
        /\ \A c \in Brick \ {b} : mounted'[c] = mounted[c]
        /\ mounted' \in [Brick -> Disk \cup {NoDisk}]
    BY <1>0, <1>1
  <1>3. mounted' \in Mountings
    BY <1>0, <1>1, <1>2 DEF Mountings
  <1>4. \A e \in Place : Used(e)' = Used(e)
    BY <1>0 DEF Used
  <1>5. TypeOK'
    BY <1>0, <1>3, <1>4 DEF DiskInv, TypeOK
  <1>6. \A c \in Brick \ {b} : Target(c)' = Target(c) /\ OnTarget(c)' = OnTarget(c)
    BY <1>0, <1>2 DEF Target, OnTarget
  <1>7. MountInv' /\ OwnerInv'
    BY <1>0, <1>2 DEF DiskInv, MountInv, OwnerInv
  <1>8. FileInv'
    BY <1>0, <1>6 DEF DiskInv, FileInv
  <1>9. SpaceInv'
    <2> SUFFICES ASSUME NEW c \in Brick \ exchanged'
                 PROVE  /\ pc[c] \in Measured =>
                              Used(Target(c))' <= m_target_space_used[c] + unseen[c]
                        /\ pc[c] = "write" =>
                              Used(Target(c))' <= m_target_space_used[c] + unseen[c]
                                                    + Occupied(OnTarget(c))'
      BY <1>0 DEF SpaceInv
    <2>1. c # b /\ c \in Brick \ exchanged
      BY <1>0
    <2>2. Used(Target(c))' = Used(Target(c)) /\ Occupied(OnTarget(c))' = Occupied(OnTarget(c))
      BY <1>0, <1>6, <2>1 DEF Used, Occupied, RoundUp
    <2> QED
      BY <2>1, <2>2 DEF DiskInv, SpaceInv
  <1> QED
    BY <1>5, <1>7, <1>8, <1>9 DEF DiskInv

(* After a restart nobody believes anything.                               *)
LEMMA RestartKeeps == ASSUME DiskInv, Restart PROVE DiskInv'
  <1>1. \A b \in Brick : pc'[b] = "idle"
    BY DEF Restart
  <1>2. \A d \in Place : Used(d)' = Used(d)
    BY DEF Restart, Used
  <1>3. /\ item' \in [Brick -> Nat \ {0}] /\ m_target_space_used' \in [Brick -> Nat]
        /\ m_pos' \in [Brick -> Nat] /\ unseen' \in [Brick -> Nat]
    BY DEF Restart
  <1>4. m_sql' \in [Brick -> BOOLEAN]
    BY Zenon DEF Restart
  <1>5. TypeOK'
    BY <1>2, <1>3, <1>4 DEF Restart, DiskInv, TypeOK, database
  <1>6. MountInv'
    BY <1>1 DEF Restart, MountInv, Begun
  <1> QED
    BY <1>1, <1>5, <1>6 DEF DiskInv, OwnerInv, FileInv, SpaceInv, WithDisk, WithFile, Measured

(* Nothing happens.                                                        *)
LEMMA StutterKeeps == ASSUME DiskInv, UNCHANGED vars PROVE DiskInv'
  <1>1. UNCHANGED <<mounted, content, folders, BRICK_DISK, DISK_FILE, m_path_Partition, pc, m_pos,
                    item, m_curr_disk_id, m_target_space_used, m_sql, file, unseen, exchanged>>
    BY DEF vars, world, database, process, container
  <1>2. \A d \in Place : Used(d)' = Used(d)
    BY <1>1 DEF Used
  <1>3. \A b \in Brick : /\ Used(Target(b))' = Used(Target(b)) /\ OnTarget(b)' = OnTarget(b)
                         /\ Occupied(OnTarget(b))' = Occupied(OnTarget(b))
    BY <1>1 DEF Used, Target, OnTarget, Occupied, RoundUp
  <1>4. TypeOK'
    BY <1>1, <1>2 DEF DiskInv, TypeOK
  <1>5. MountInv' /\ OwnerInv' /\ FileInv'
    BY <1>1, <1>3 DEF DiskInv, MountInv, OwnerInv, FileInv
  <1>6. SpaceInv'
    BY <1>1, <1>3 DEF DiskInv, SpaceInv
  <1> QED
    BY <1>4, <1>5, <1>6 DEF DiskInv

(* The invariant holds throughout.                                         *)
THEOREM DiskInvariant == Spec => []DiskInv
  <1>1. DiskInv /\ [Next]_vars => DiskInv'
    BY StepKinds, WorkerKeeps, ExchangeKeeps, RestartKeeps, StutterKeeps
  <1> QED
    BY <1>1, DiskStarts, PTL DEF Spec

(* Every variable stays in its type, and no disk is filled beyond its      *)
(* capacity.                                                               *)
THEOREM DiskTypeCorrect == Spec => []TypeOK
  BY DiskInvariant, PTL DEF DiskInv

(* Of a disk that was not exchanged under the process a worker knows how   *)
(* full it is, but for the folders and the rounding of files to blocks     *)
(* since it last asked statfs (m_target_space_used).                       *)
THEOREM SpaceIsTrue == Spec => []OnlyRoundingUncounted
  <1>1. DiskInv => OnlyRoundingUncounted
    BY DEF DiskInv, SpaceInv, OnlyRoundingUncounted, Measured, WithDisk, Target
  <1> QED
    BY <1>1, DiskInvariant, PTL

(* A worker makes files and folders only on a disk that the database has   *)
(* given to its brick, whatever statements failed (isExistdisk,            *)
(* add_disk_for_brick), unless its brick has no position.                  *)
THEOREM WritesOwnDisk == Spec => WritesToOwnDisk
  <1>1. DiskInv /\ [Next]_vars =>
           [\A b \in Brick \ exchanged :
               /\ m_pos[b] # 0
               /\ \/ content'[Target(b)] # content[Target(b)]
                  \/ folders'[Target(b)] # folders[Target(b)]
               => BRICK_DISK[mounted[b]] = b]_vars
    <2> SUFFICES ASSUME DiskInv, Next, NEW b \in Brick \ exchanged, m_pos[b] # 0,
                        \/ content'[Target(b)] # content[Target(b)]
                        \/ folders'[Target(b)] # folders[Target(b)]
                 PROVE  BRICK_DISK[mounted[b]] = b
      BY DEF vars, world
    <2>1. ~Restart /\ \A c \in Brick, d \in Disk : ~Exchange(c, d)
      BY DEF Restart, Exchange
    <2>2. PICK c \in Brick : Quiet(c) \/ Writes(c) \/ CreateDir(c)
      BY <2>1, StepKinds
    <2>3. c = b
      BY <2>2, OthersKept DEF Alone
    <2>4. ~Quiet(c)
      BY QuietWorld DEF world
    <2>5. pc[b] \in WithDisk
      BY <2>2, <2>3, <2>4, WritesPut, FolderMade DEF WithDisk
    <2> QED
      BY <2>5 DEF DiskInv, OwnerInv, MountInv, WithDisk, Begun
  <1> QED
    BY <1>1, DiskInvariant, PTL DEF Spec, WritesToOwnDisk

(* A row of the file log names the disk on which there is a file of that   *)
(* path (add_file_log).                                                    *)
THEOREM LogIsTrue == Spec => LoggedWhereItIs
  <1>1. DiskInv /\ [Next]_vars =>
           [\A b \in Brick \ exchanged :
               DISK_FILE' # DISK_FILE /\ pc[b] = "log" /\ pc'[b] = "ready" =>
                   DISK_FILE'[file[b]] = mounted[b] /\ OnTarget(b) # Absent]_vars
    <2> SUFFICES ASSUME DiskInv, Next, NEW b \in Brick \ exchanged, DISK_FILE' # DISK_FILE,
                        pc[b] = "log", pc'[b] = "ready"
                 PROVE  DISK_FILE'[file[b]] = mounted[b] /\ OnTarget(b) # Absent
      BY DEF vars, database
    <2>1. pc \in [Brick -> Label] /\ DISK_FILE \in [Path -> Disk \cup {NoDisk}]
      BY DEF DiskInv, TypeOK, Label
    <2>2. ASSUME NEW c \in Brick, ~AddFileLog(c),
                 Quiet(c) \/ Writes(c) \/ CreateDir(c) \/ \E d \in Disk : Exchange(c, d)
          PROVE  FALSE
      BY <2>2
      DEF Quiet, Writes, CreateDir, Construct, NoPositions, GetDiskid, NoDiskMounted, IsExistdisk,
          AddDiskForBrick, GetDiskSpaceInfo, NeedDel, InitErr, Copy, Stop, CopyTry, CopyTryErr,
          IsBackuped, Compare, Close, Open, OpenErr, WriteUnit, WriteErr, Exchange, database
    <2>3. ~Restart
      BY DEF Restart, database
    <2>4. PICK c \in Brick : AddFileLog(c)
      BY <2>2, <2>3, StepKinds
    <2>5. c = b
      BY <2>1, <2>4 DEF AddFileLog, CopyReturns, Goto
    <2>6. /\ DISK_FILE' = [DISK_FILE EXCEPT ![file[b]] = m_curr_disk_id[b]]
          /\ m_curr_disk_id[b] # NoDisk
      BY <2>4, <2>5 DEF AddFileLog
    <2>7. file[b] \in Path /\ OnTarget(b) # Absent /\ m_curr_disk_id[b] = mounted[b]
      BY <2>6 DEF DiskInv, FileInv, MountInv, WithFile, Begun
    <2> QED
      BY <2>1, <2>6, <2>7
  <1> QED
    BY <1>1, DiskInvariant, PTL DEF Spec, LoggedWhereItIs

=============================================================================
