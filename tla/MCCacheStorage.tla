--------------------------- MODULE MCCacheStorage ---------------------------
(* Small instances of CacheStorage for TLC.                                 *)
EXTENDS CacheStorage
=============================================================================
