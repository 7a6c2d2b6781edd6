------------------------------ MODULE MCInbox -------------------------------
(***************************************************************************)
(* The inbox with an event and a job, two workers that race for copies of  *)
(* the same message, two attempts, and two payloads under one id.          *)
(***************************************************************************)
EXTENDS Inbox, TLC

MCSymmetry == Permutations(Workers)
=============================================================================
