------------------------------ MODULE Accounts ------------------------------
(***************************************************************************)
(* What signing up promises, with no requests in sight. An identity joins  *)
(* the Garden Users group and then gets its account, or Globus declines    *)
(* the member and it gets the account alone. It gets one once, keeps what  *)
(* it got, and is never asked for again: an outsider stays one.            *)
(***************************************************************************)
CONSTANT Identity

VARIABLE stage

StageTypeOK == stage \in [Identity -> {"stranger", "member", "user", "outsider"}]

Move(i, from, to) == stage[i] = from /\ stage' = [stage EXCEPT ![i] = to]

Join(i) == Move(i, "stranger", "member")
Register(i) == Move(i, "member", "user")
RegisterDeclined(i) == Move(i, "stranger", "outsider")

Init == stage = [i \in Identity |-> "stranger"]
Next == \E i \in Identity : Join(i) \/ Register(i) \/ RegisterDeclined(i)
Spec == Init /\ [][Next]_stage
=============================================================================
