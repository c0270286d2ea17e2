---------------------------- MODULE MCReporting -----------------------------
(* Two managers.  A quantity may be negative, and its booking then pays the  *)
(* customer.  The shares of a sale add up, those of what is paid back are a  *)
(* cent off.                                                                 *)
EXTENDS Reporting, TLC

MCQuantities == {-1, 1}

MCShares(total) == IF total > 0 THEN {<<1, total - 1>>} ELSE {<<-1, total + 2>>}

Symmetry == Permutations(Managers)
=============================================================================
