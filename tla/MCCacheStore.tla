------------------------------ MODULE MCCacheStore ------------------------------
(***************************************************************************)
(* CacheStore for TLC: entries that never expire, entries that live for    *)
(* one tick, and puts that are expired at once.                            *)
(***************************************************************************)
EXTENDS CacheStore

CONSTANT never

MCTtl == {never, 0, 1}

=============================================================================
