-------------------------- MODULE MCDatabaseSave --------------------------
(* Small instances of DatabaseSave for TLC.                                 *)
EXTENDS DatabaseSave, TLC

DeviceEditSymmetry == Permutations(Device) \cup Permutations(Edit)
=============================================================================
