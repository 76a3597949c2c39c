---------------------------- MODULE MCSyscallBan ----------------------------
(* Instances of SyscallBan for TLC. *)
EXTENDS SyscallBan, TLC

Symmetry == Permutations(Tasks \ {Swapper, Reaper})
=============================================================================
