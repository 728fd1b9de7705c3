----------------------------- MODULE MCTracker -----------------------------
(* A small instance of ConfirmationTracker.                                *)
EXTENDS ConfirmationTracker
CONSTANT f1
=============================================================================
