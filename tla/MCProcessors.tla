---------------------------- MODULE MCProcessors ----------------------------
(* Small instances of the kernel's processors for TLC. *)
EXTENDS Processors
=============================================================================
