------------------------- MODULE MCOrderFulfillment -------------------------
(***************************************************************************)
(* Instances of OrderFulfillment for TLC.  The administrators are          *)
(* interchangeable, and so are the server processes.                       *)
(***************************************************************************)
EXTENDS OrderFulfillment, TLC

\* Sound for runs without liveness properties only.
AdminSymmetry == Permutations(Admins) \cup Permutations(Pollers)
=============================================================================
