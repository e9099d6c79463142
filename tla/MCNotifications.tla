--------------------------- MODULE MCNotifications ---------------------------
(***************************************************************************)
(* Instances of Notifications for TLC.                                     *)
(***************************************************************************)
EXTENDS Notifications, TLC

Symmetry == Permutations(Users) \cup Permutations(Devices) \cup Permutations(Notes)
                \cup Permutations(Calls)
=============================================================================
