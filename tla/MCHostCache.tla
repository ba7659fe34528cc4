---------------------------- MODULE MCHostCache -----------------------------
(***************************************************************************)
(* Small instances of HostCache.                                           *)
(***************************************************************************)
EXTENDS HostCache

CONSTANTS h1, h2

TwoHandlers == {h1, h2}
=============================================================================
