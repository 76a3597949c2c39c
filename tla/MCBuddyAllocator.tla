-------------------------- MODULE MCBuddyAllocator --------------------------
(* BuddyAllocator on small instances. *)
EXTENDS BuddyAllocator
=============================================================================
