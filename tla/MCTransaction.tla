---------------------------- MODULE MCTransaction ----------------------------
(* Two accounts and two clicks of one panel.                                 *)
EXTENDS TransactionProperties

CONSTANTS a1, a2

=============================================================================
