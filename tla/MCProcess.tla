------------------------------ MODULE MCProcess ------------------------------
(* An instance of Process for TLC.                                         *)
EXTENDS Process
=============================================================================
