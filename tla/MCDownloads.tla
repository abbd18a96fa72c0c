---------------------------- MODULE MCDownloads ----------------------------
(* Small instances of Downloads: two references that share a directory. *)
EXTENDS Downloads
=============================================================================
