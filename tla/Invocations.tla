---------------------------- MODULE Invocations ----------------------------
(***************************************************************************)
(* Running a Modal function for a user (api/routes/modal/invocations.py)   *)
(* under the monthly usage limit (api/dependencies/auth.py).               *)
(*                                                                         *)
(* The limit is checked when the request arrives and the usage is recorded *)
(* when Modal has answered. All of a request happens in one transaction,   *)
(* opened by the first query of authed_user, and the row's date_invoked is *)
(* the server default now(), which Postgres evaluates to the start of that *)
(* transaction.                                                            *)
(***************************************************************************)
EXTENDS Integers, FiniteSets, Functions

CONSTANTS
    User, Function,
    Req,            \* requests in flight at once
    Limit,          \* MODAL_USAGE_LIMIT, in units of usage
    MaxCost,        \* the most one call is estimated at
    LastMonth,      \* bound: months 0..LastMonth
    MaxRuns         \* bound: calls Modal runs, over a behaviour

ASSUME InvocationsAssumption ==
    /\ IsFiniteSet(Req)
    /\ Limit \in Nat \ {0} /\ MaxCost \in Nat
    /\ LastMonth \in Nat /\ MaxRuns \in Nat

Month == 0..LastMonth
Cost == 0..MaxCost

VARIABLES
    month,          \* the current month
    functions,      \* keys of modal_functions
    recorded,       \* sum of estimated_usage in modal_invocations, per user and month
    billed,         \* functions some row of modal_invocations refers to
    incurred,       \* usage the calls Modal ran for a user really came to
    runs,           \* calls Modal has run
    req

vars == <<month, functions, recorded, billed, incurred, runs, req>>

Idle == [pc |-> "idle"]

\* since is the month the request's transaction began in; usage its estimate.
Request ==
    [pc : {"check", "load", "call", "wait", "record"}, user : User, fn : Function,
     since : Month, usage : Cost]

\* Types, and the foreign key: a function some row refers to exists.
TypeOK ==
    /\ month \in Month
    /\ functions \subseteq Function /\ billed \subseteq functions
    /\ recorded \in [User -> [Month -> Nat]]
    /\ incurred \in [User -> Nat]
    /\ runs \in Nat
    /\ req \in [Req -> Request \cup {Idle}]

Init ==
    /\ month = 0
    /\ functions = Function
    /\ recorded = [u \in User |-> [m \in Month |-> 0]]
    /\ billed = {}
    /\ incurred = [u \in User |-> 0]
    /\ runs = 0
    /\ req = [r \in Req |-> Idle]

-----------------------------------------------------------------------------
At(r, pc) == req[r].pc = pc
Goto(r, pc) == req' = [req EXCEPT ![r].pc = pc]
Finish(r) == req' = [req EXCEPT ![r] = Idle]

Unrecorded == UNCHANGED <<month, functions, recorded, billed>>

\* authed_user's query opens the transaction.
Arrive(r, u, f) ==
    /\ At(r, "idle")
    /\ req' = [req EXCEPT ![r] =
                [pc |-> "check", user |-> u, fn |-> f, since |-> month, usage |-> 0]]
    /\ Unrecorded /\ UNCHANGED <<incurred, runs>>

\* Mutant: the limit itself still admits.
CheckLimitInclusive(r) ==
    /\ At(r, "check")
    /\ IF recorded[req[r].user][month] <= Limit THEN Goto(r, "load") ELSE Finish(r)
    /\ Unrecorded /\ UNCHANGED <<incurred, runs>>

\* The sum runs over the rows dated in the month it is now.
CheckLimit(r) ==
    /\ At(r, "check")
    /\ IF recorded[req[r].user][month] < Limit THEN Goto(r, "load") ELSE Finish(r)
    /\ Unrecorded /\ UNCHANGED <<incurred, runs>>

LoadFunction(r) ==
    /\ At(r, "load")
    /\ IF req[r].fn \in functions THEN Goto(r, "call") ELSE Finish(r)
    /\ Unrecorded /\ UNCHANGED <<incurred, runs>>

\* A call Modal runs comes to some usage whether or not the service records it.
Run(u, calls, usage) ==
    /\ runs + calls <= MaxRuns
    /\ runs' = runs + calls
    /\ incurred' = [incurred EXCEPT ![u] = @ + calls * usage]

\* FunctionMap submits the input. A transient error is retried: when only the
\* answer was lost, Modal runs the input twice and the service knows of one call.
CallModal(r) ==
    /\ At(r, "call")
    /\ \E usage \in Cost, calls \in {1, 2} :
        /\ Run(req[r].user, calls, usage)
        /\ req' = [req EXCEPT ![r] = [@ EXCEPT !.pc = "wait", !.usage = usage]]
    /\ Unrecorded

\* The lookup fails, or the input queue is full: an exception, and nothing ran.
CallRefused(r) ==
    /\ At(r, "call")
    /\ Finish(r)
    /\ Unrecorded /\ UNCHANGED <<incurred, runs>>

\* pop_function_call_outputs waits without a timeout; the estimate follows.
OutputsArrive(r) ==
    /\ At(r, "wait")
    /\ Goto(r, "record")
    /\ Unrecorded /\ UNCHANGED <<incurred, runs>>

\* Mutant: the commit is repeated.
RecordAgain(r) ==
    LET q == req[r] IN
    /\ At(r, "record") /\ q.fn \in functions
    /\ recorded' = [recorded EXCEPT ![q.user][q.since] = @ + q.usage]
    /\ billed' = billed \cup {q.fn}
    /\ UNCHANGED <<month, functions, incurred, runs, req>>

\* The foreign key refuses a row for a function deleted since.
Record(r) ==
    LET q == req[r] IN
    /\ At(r, "record")
    /\ Finish(r)
    /\ IF q.fn \in functions
       THEN /\ recorded' = [recorded EXCEPT ![q.user][q.since] = @ + q.usage]
            /\ billed' = billed \cup {q.fn}
       ELSE UNCHANGED <<recorded, billed>>
    /\ UNCHANGED <<month, functions, incurred, runs>>

\* Mutant: no foreign key.
DeleteBilledFunction(f) ==
    /\ f \in functions
    /\ functions' = functions \ {f}
    /\ UNCHANGED <<month, recorded, billed, incurred, runs, req>>

\* delete_modal_app takes its functions with it, unless a row refers to them.
DeleteFunction(f) ==
    /\ f \in functions \ billed
    /\ functions' = functions \ {f}
    /\ UNCHANGED <<month, recorded, billed, incurred, runs, req>>

NextMonth ==
    /\ month < LastMonth
    /\ month' = month + 1
    /\ UNCHANGED <<functions, recorded, billed, incurred, runs, req>>

\* A restart forgets the calls it was waiting for; Modal still runs them.
Restart ==
    /\ req' = [r \in Req |-> Idle]
    /\ Unrecorded /\ UNCHANGED <<incurred, runs>>

Next ==
    \/ \E r \in Req :
        \/ \E u \in User, f \in Function : Arrive(r, u, f)
        \/ CheckLimit(r)
        \/ LoadFunction(r)
        \/ CallModal(r)
        \/ CallRefused(r)
        \/ OutputsArrive(r)
        \/ Record(r)
    \/ \E f \in Function : DeleteFunction(f)
    \/ NextMonth
    \/ Restart

Spec == Init /\ [][Next]_vars

-----------------------------------------------------------------------------
Admitted == {"load", "call", "wait", "record"}

\* Requests of user u whose usage will be dated in month m, and the most a set
\* of requests can still record.
InFlight(u, m, pcs) ==
    {r \in Req : req[r].pc \in pcs /\ req[r].user = u /\ req[r].since = m}

Exposure(requests) == MaxCost * Cardinality(requests)

\* The check and the record are far apart, so requests that run together
\* overshoot the limit (auth.py:114 against invocations.py:95), but while a month
\* lasts by no more than the service runs for the user at once, the calls still
\* out counted in.
MonthOvershootBounded ==
    \A u \in User :
        recorded[u][month] + Exposure(InFlight(u, month, Admitted))
            < Limit + Exposure(Req)

\* Over all months the overshoot is at most twice that: a request that began in
\* the last moments of a month is checked against the next one and dated back,
\* so a second set of requests can land on a month that is already full.
OvershootBounded ==
    \A u \in User, m \in Month :
        recorded[u][m] < Limit + Exposure(Req) + Exposure(Req)

\* What the service has recorded for a user, with what it is about to record,
\* was really run: refused calls, retries, restarts and deleted functions may
\* lose usage but never charge any twice (invocations.py:82-95).
Recordable(u) == {r \in Req : req[r].pc \in {"wait", "record"} /\ req[r].user = u}

NeverOvercharged ==
    \A u \in User :
        FoldFunction(+, 0, recorded[u])
            + FoldFunction(+, 0, [r \in Recordable(u) |-> req[r].usage])
                <= incurred[u]
=============================================================================
