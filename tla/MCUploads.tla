----------------------------- MODULE MCUploads -----------------------------
(***************************************************************************)
(* Instances of Uploads for TLC.  No symmetry: a liveness property is      *)
(* checked.                                                                *)
(***************************************************************************)
EXTENDS Uploads
=============================================================================
