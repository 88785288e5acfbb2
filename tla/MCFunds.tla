------------------------------ MODULE MCFunds -------------------------------
(***************************************************************************)
(* Instances of Funds for TLC: the wallet starts in credit or in debt, and  *)
(* each handler runs in a process of its own.                              *)
(***************************************************************************)
EXTENDS Funds

OwnOrOwing == {-1, 1}

Apart == CHOOSE f \in [Staff -> Processes] : \A s, t \in Staff : f[s] = f[t] => s = t
=============================================================================
