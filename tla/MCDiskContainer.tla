-------------------------- MODULE MCDiskContainer ---------------------------
(* Two disks of two blocks, one half full with other data and one more     *)
(* than that, which init refuses; the bare directories are full.  A file    *)
(* that is not empty takes half a block.  One brick has one position, the   *)
(* other sometimes two and sometimes none.                                  *)
EXTENDS DiskContainer, TLC

CONSTANTS b1, b2, p1, d1, d2

ForeignLengths == (d1 :> 2 @@ d2 :> 3 @@ b1 :> 4 @@ b2 :> 4)
FolderBlocks == (d1 :> 1 @@ d2 :> 0 @@ b1 :> 0 @@ b2 :> 0)
PositionNumbers == (b1 :> {1} @@ b2 :> {0, 2})

=============================================================================
