--------------------------- MODULE MCInvocations ---------------------------
(* Constants for TLC's run of Invocations. *)
EXTENDS Invocations, TLC

Slots == Permutations(Req) \cup Permutations(User)
=============================================================================
