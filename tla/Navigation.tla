----------------------------- MODULE Navigation -----------------------------
(***************************************************************************)
(* The navigation server, as modules that only look at its status see it:  *)
(* someone sends the robot off, and it arrives or is stopped.              *)
(***************************************************************************)
VARIABLE moving \* getNavigationStatus answers navigation_status_moving

Depart == ~moving /\ moving' = TRUE
Stop == moving' = FALSE
==============================================================================
