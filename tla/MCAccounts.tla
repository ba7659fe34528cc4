----------------------------- MODULE MCAccounts -----------------------------
(***************************************************************************)
(* Small instances of Accounts: passwords are named for their lengths.     *)
(***************************************************************************)
EXTENDS Accounts

CONSTANTS b1, b2

TwoBrowsers == {b1, b2}

AnyBrowser == Permutations(Browsers)
=============================================================================
