---------------------------- MODULE MCBuddyPool -----------------------------
(* Small instances of BuddyPool. *)
EXTENDS BuddyPool

=============================================================================
