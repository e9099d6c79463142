----------------------------- MODULE MCMailOtp -----------------------------
(***************************************************************************)
(* Instances of MailOtp for TLC.  Steps of two instants and a window of    *)
(* two steps stand for the 60000 milliseconds and three steps of the       *)
(* configuration; the clock runs for several lives of the key, and on      *)
(* while a SET is under way.                                               *)
(***************************************************************************)
EXTENDS MailOtp
=============================================================================
