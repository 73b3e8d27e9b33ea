-------------------------------- MODULE MCLocks --------------------------------
(* The lock file on small instances. *)
EXTENDS Locks
===============================================================================
