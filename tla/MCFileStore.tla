---------------------------- MODULE MCFileStore ----------------------------
(* The instances of MCStore, over a file whose appends may be cut short. *)
EXTENDS FileStore, MCStore
=============================================================================
