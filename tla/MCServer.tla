------------------------------ MODULE MCServer ------------------------------
(***************************************************************************)
(* Small instances of Server: a feed and a request at once, timers of one  *)
(* or two seconds for the code's 15, 25 and 10.                            *)
(***************************************************************************)
EXTENDS Server

CONSTANTS r1, f1

OneRequest == {r1}
OneFeed    == {f1}
=============================================================================
