----------------------------- MODULE MCNotifier -----------------------------
(* Model-checking instance of Notifier: its constants are numbers. *)
EXTENDS Notifier
=============================================================================
