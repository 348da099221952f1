----------------------------- MODULE MCInventory -----------------------------
(* TicketInventory with quantities for TLC: a configuration file has no way  *)
(* to write a negative number.                                               *)
EXTENDS TicketInventory

SomeQuantities == {-1, 1, 2}
=============================================================================
