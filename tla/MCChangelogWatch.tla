-------------------------- MODULE MCChangelogWatch --------------------------
(* Two sessions writing one or two objects. *)
EXTENDS ChangelogWatch

CONSTANTS t1, t2, a, b
=============================================================================
