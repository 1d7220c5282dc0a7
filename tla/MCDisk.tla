------------------------------- MODULE MCDisk -------------------------------
(* Two drives, two image files, two tracks of two sectors of three bytes. *)
EXTENDS Disk, TLC

Files == Permutations(Images)
=============================================================================
