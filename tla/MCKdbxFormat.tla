---------------------------- MODULE MCKdbxFormat ----------------------------
(* Model values for TLC: see the configurations.                            *)
EXTENDS KdbxFormat

CONSTANTS plain, secret, big, e1, e2
=============================================================================
