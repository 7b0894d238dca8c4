------------------------------- MODULE SignUp -------------------------------
(***************************************************************************)
(* The first request of an identity makes its account: authed_user         *)
(* (api/dependencies/auth.py) over User.get_or_create (models/base.py) and *)
(* the Globus group (auth/globus_groups.py).                               *)
(*                                                                         *)
(* identity_id is UNIQUE, so a flush that inserts an identity waits for    *)
(* another transaction's uncommitted insert of the same identity, and then *)
(* fails if that one committed.                                            *)
(***************************************************************************)

CONSTANTS
    Identity,
    Req             \* requests in flight at once

VARIABLES
    accounts,       \* identities with a committed users row
    group,          \* members of the Garden Users Globus group
    req

vars == <<accounts, group, req>>

Idle == [pc |-> "idle"]

Request ==
    [pc : {"flush", "refresh", "commit", "served"}, identity : Identity]

TypeOK ==
    /\ accounts \subseteq Identity /\ group \subseteq Identity
    /\ req \in [Req -> Request \cup {Idle}]

Init ==
    /\ accounts = {} /\ group = {}
    /\ req = [r \in Req |-> Idle]

At(r, pc) == req[r].pc = pc
Goto(r, pc) == req' = [req EXCEPT ![r].pc = pc]

\* Mutant: the slot keeps the identity of the request that ended.
FinishKeeping(r) == Goto(r, "idle")

Finish(r) == req' = [req EXCEPT ![r] = Idle]

\* Requests whose transaction holds an uncommitted insert of identity i.
Inserting(i) == {r \in Req : req[r].pc \in {"refresh", "commit"} /\ req[r].identity = i}

\* The group after Globus was asked to add r's identity.
Answered(r) == {group, group \cup {req[r].identity}}

-----------------------------------------------------------------------------
\* The identity's row is read: there, the request is served; not there, inserted.
Lookup(r, i) ==
    /\ At(r, "idle")
    /\ req' = [req EXCEPT ![r] =
                [pc |-> IF i \in accounts THEN "served" ELSE "flush", identity |-> i]]
    /\ UNCHANGED <<accounts, group>>

\* Mutant: the INSERT does not wait.
FlushAtOnce(r) ==
    /\ At(r, "flush")
    /\ IF req[r].identity \in accounts THEN Finish(r) ELSE Goto(r, "refresh")
    /\ UNCHANGED <<accounts, group>>

\* The INSERT, which waits on a rival's and fails after it: a 500, rolled back.
Flush(r) ==
    /\ At(r, "flush")
    /\ Inserting(req[r].identity) = {}
    /\ IF req[r].identity \in accounts THEN Finish(r) ELSE Goto(r, "refresh")
    /\ UNCHANGED <<accounts, group>>

\* Mutants: an identity that is a member already keeps being refused; a failure
\* takes the identity out of the group.
AddNewMember(r) ==
    /\ At(r, "refresh")
    /\ req[r].identity \notin group
    /\ Goto(r, "commit") \/ Finish(r)
    /\ group' \in Answered(r)
    /\ UNCHANGED accounts

AddOrRemove(r) ==
    /\ At(r, "refresh")
    /\ \/ Goto(r, "commit") /\ group' \in Answered(r)
       \/ Finish(r) /\ group' = group \ {req[r].identity}
    /\ UNCHANGED accounts

\* The row is refreshed, the identity asked into the group and the fields are
\* set, before the commit. An error of the call rolls the row back, whether or not
\* Globus has acted. Nothing reads the answer (globus_groups.py:26): it may decline
\* the member and still be a success. Adding a member again does nothing.
AddUserToGroup(r) ==
    /\ At(r, "refresh")
    /\ Goto(r, "commit") \/ Finish(r)
    /\ group' \in Answered(r)
    /\ UNCHANGED accounts

\* The commit may fail, or its answer get lost: a 500 either way.
Commit(r) ==
    /\ At(r, "commit")
    /\ \/ Goto(r, "served") /\ accounts' = accounts \cup {req[r].identity}
       \/ Finish(r) /\ accounts' \in {accounts, accounts \cup {req[r].identity}}
    /\ UNCHANGED group

\* The route's handler has its user and answers.
Serve(r) ==
    /\ At(r, "served")
    /\ Finish(r)
    /\ UNCHANGED <<accounts, group>>

Restart ==
    /\ req' = [r \in Req |-> Idle]
    /\ UNCHANGED <<accounts, group>>

Advance(r) == Flush(r) \/ AddUserToGroup(r) \/ Commit(r) \/ Serve(r)

Next ==
    \/ \E r \in Req : (\E i \in Identity : Lookup(r, i)) \/ Advance(r)
    \/ Restart

\* The event loop runs every request that can go on; Globus and Postgres answer.
Spec == Init /\ [][Next]_vars /\ \A r \in Req : WF_vars(Advance(r))

-----------------------------------------------------------------------------
\* Of the first requests of an identity that overlap, one at a time holds the
\* insert, and none after the account exists: get_or_create reads and inserts in
\* two steps (base.py:27-32), only the unique index keeps them apart.
OneInserter ==
    \A i \in Identity :
        /\ \A r, s \in Inserting(i) : r = s
        /\ Inserting(i) # {} => i \notin accounts

\* An insert that makes others wait is given back: its request commits, fails on
\* Globus, or is lost in a restart. (Which of the waiting requests then goes on
\* is Postgres's choice: none of them alone is promised anything.)
InsertsReleased == \A i \in Identity : Inserting(i) # {} ~> Inserting(i) = {}

\* Overlapping, failing and restarted requests amount to joining and then
\* registering, once each and in that order, or to registering alone when Globus
\* declined (auth.py:59-64): an account is never taken back, nor is a member who
\* has none yet, and whoever was declined is not asked for again.
Stage ==
    [i \in Identity |->
        IF i \in accounts THEN IF i \in group THEN "user" ELSE "outsider"
        ELSE IF i \in group THEN "member" ELSE "stranger"]

Promise == INSTANCE Accounts WITH stage <- Stage

KeepsPromise == Promise!Spec
=============================================================================
