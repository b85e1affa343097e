---------------------------- MODULE MCAtomicFile ----------------------------
(* An instance of AtomicFile for TLC with three contents: the one before,  *)
(* the one being written and one still older.                              *)
EXTENDS AtomicFile
=============================================================================
