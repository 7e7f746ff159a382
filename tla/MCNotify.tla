------------------------------ MODULE MCNotify ------------------------------
(***************************************************************************)
(* A small instance of Notify: two numbers, two configs.                   *)
(***************************************************************************)
EXTENDS Notify

CONSTANTS alice, bob

TwoNumbers == {alice, bob}
\* Everything, or the calls of one number.
TwoFilters == {[from |-> TwoNumbers, anyText |-> TRUE], [from |-> {alice}, anyText |-> FALSE]}
Faults == {"db", "crash"}
=============================================================================
