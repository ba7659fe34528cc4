--------------------------- MODULE MCAlertEngine ---------------------------
(***************************************************************************)
(* Small instances of AlertEngine: seconds are few and the buffer short.   *)
(***************************************************************************)
EXTENDS AlertEngine

Form(type, target, threshold, window, cooldown) ==
  [type |-> type, target |-> target, threshold |-> threshold,
   window |-> window, cooldown |-> cooldown]

\* One packet that every rule is about: what differs is when it comes.
MCContents  == {[ips |-> {"a", "b"}, flagged |-> TRUE]}

\* Two rules that differ in all but the packets; one relies on the default cooldown.
MCForms     == {Form("traffic_spike", "", 1, 2, 2), Form("ip_threshold", "b", 0, 1, 0)}
=============================================================================
