----------------------------- MODULE MCConsole -----------------------------
(* A small instance of Console for TLC.                                      *)
EXTENDS Console

\* One order of one target, the text in the order field.
OneTarget == <<1>>
OneOrder == {OneTarget}
=============================================================================
