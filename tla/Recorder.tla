------------------------------ MODULE Recorder ------------------------------
(***************************************************************************)
(* What a recording is to those who use the exporter, files left out: from *)
(* Start to Stop it holds what was written since Start, in that order and  *)
(* nothing else; what is written without a recording goes nowhere.         *)
(***************************************************************************)
EXTENDS Sequences

CONSTANT Items  \* what may be written

VARIABLES
  recording,  \* a recording is running
  tape        \* what it holds; nothing when none is running

Init == recording = FALSE /\ tape = <<>>

Start == ~recording /\ recording' = TRUE /\ tape' = <<>>

Write(i) == recording /\ tape' = Append(tape, i) /\ UNCHANGED recording

Stop == recording /\ recording' = FALSE /\ tape' = <<>>

Next == Start \/ Stop \/ \E i \in Items : Write(i)

Spec == Init /\ [][Next]_<<recording, tape>>
=============================================================================
