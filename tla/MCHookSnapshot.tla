---------------------------- MODULE MCHookSnapshot ----------------------------
(* HookSnapshot on files of two chunks. *)
EXTENDS HookSnapshot
=============================================================================
