---------------------------- MODULE MCJobManager ----------------------------
(* A small instance of JobManager: the table under concurrent callers, and
   the progress of its jobs. *)
EXTENDS JobManager

(* A total exceeded. *)
Samples == {<<2, 1>>}
=============================================================================
