------------------------------- MODULE MCOtp -------------------------------
(* Several calls to one target under way at a time.  No symmetry: the run   *)
(* checks a liveness property.                                              *)
EXTENDS Otp
=============================================================================
