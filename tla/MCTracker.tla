-------------------------------- MODULE MCTracker --------------------------------
(* An issue and its run, next to another process that uses the same buckets. *)
EXTENDS Tracker
===============================================================================
