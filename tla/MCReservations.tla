-------------------------- MODULE MCReservations --------------------------
(* Instances of Reservations for TLC.                                      *)
EXTENDS Reservations, TLC

CONSTANTS b1, b2, b3, c1, c2

W(from, to) == [from |-> from, to |-> to]
Three == {W(0, 1), W(0, 2), W(1, 2)}
Two == {W(0, 1), W(0, 2)}
===========================================================================
