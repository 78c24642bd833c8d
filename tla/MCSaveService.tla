--------------------------- MODULE MCSaveService ---------------------------
(* Small instances of SaveService for TLC.                                  *)
EXTENDS SaveService
=============================================================================
