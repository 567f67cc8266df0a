------------------------------ MODULE Handover ------------------------------
(***************************************************************************)
(* What the challenge exchange promises, whatever is lost on the way:      *)
(* items are handed over one after the other in the agreed order, none     *)
(* skipped, repeated or changed.  The exchange may stop anywhere.          *)
(***************************************************************************)
EXTENDS Naturals, Sequences

CONSTANT Offers(_)    \* what may come after the items handed over so far

VARIABLE log          \* these items, in order

Init == log = <<>>
Next == \E item \in Offers(log) : log' = Append(log, item)
Spec == Init /\ [][Next]_log
=============================================================================
