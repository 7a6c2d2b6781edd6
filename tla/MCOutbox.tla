------------------------------ MODULE MCOutbox ------------------------------
(***************************************************************************)
(* The outbox with two publishers and two messages, two attempts, and one  *)
(* token more than can be in use at once.                                  *)
(***************************************************************************)
EXTENDS Outbox, TLC

MCBackoff == <<1>>

(* Safety only: messages, publishers and tokens are interchangeable.       *)
MCSymmetry == Permutations(Messages) \cup Permutations(Publishers)
                \cup Permutations(Tokens)
=============================================================================
