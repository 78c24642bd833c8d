---------------------------- MODULE MCFtpStorage ----------------------------
(* Model values for TLC: see the configurations.                            *)
EXTENDS FtpStorage
=============================================================================
