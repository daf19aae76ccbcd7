---------------------------- MODULE MCRegistration ----------------------------
(***************************************************************************)
(* Registration for TLC; the configuration gives every constant its value. *)
(***************************************************************************)
EXTENDS Registration
=============================================================================
