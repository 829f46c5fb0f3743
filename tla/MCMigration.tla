----------------------------- MODULE MCMigration -----------------------------
(* Migration with two releases' bytes. *)
EXTENDS Migration
CONSTANTS old, new
=============================================================================
