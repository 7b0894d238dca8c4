------------------------- MODULE Invocations_proof -------------------------
(***************************************************************************)
(* Proofs about Invocations, for any users, months, limit, cost and number *)
(* of requests in flight.                                                  *)
(***************************************************************************)
EXTENDS Invocations, FiniteSetTheorems, WellFoundedInduction, TLAPS

\* The exposure of requests is a number that grows with the set and drops by
\* one call's cost when a request leaves it.
LEMMA ExposureMonotone ==
    ASSUME NEW T \in SUBSET Req, NEW S \in SUBSET T
    PROVE  Exposure(S) \in Nat /\ Exposure(T) \in Nat /\ Exposure(S) <= Exposure(T)
<1>1. IsFiniteSet(T)
    BY FS_Subset, InvocationsAssumption
<1>2. /\ Cardinality(S) \in Nat /\ Cardinality(T) \in Nat
      /\ Cardinality(S) <= Cardinality(T)
    BY <1>1, FS_Subset, FS_CardinalityType
<1>3. \A a, b, c \in Nat : b <= c => a * b \in Nat /\ a * c \in Nat /\ a * b <= a * c
    OBVIOUS
<1> QED BY <1>2, <1>3, InvocationsAssumption DEF Exposure

LEMMA ExposureDrops ==
    ASSUME NEW T \in SUBSET Req, NEW r \in T
    PROVE  Exposure(T \ {r}) + MaxCost = Exposure(T)
<1>1. IsFiniteSet(T)
    BY FS_Subset, InvocationsAssumption
<1>2. /\ Cardinality(T) \in Nat /\ Cardinality(T \ {r}) \in Nat
      /\ Cardinality(T \ {r}) = Cardinality(T) - 1
    BY <1>1, FS_RemoveElement, FS_CardinalityType, FS_Subset
<1>3. \A a, b, c \in Nat : c = b - 1 => a * c + a = a * b
    OBVIOUS
<1> QED BY <1>2, <1>3, InvocationsAssumption DEF Exposure

-----------------------------------------------------------------------------
\* Requests that will date their usage in a month, checked or not.
Pending == Admitted \cup {"check"}

\* The inductive invariant: besides the bound on the current month, a past month
\* has room left for every request that began in it, and nothing is dated ahead.
PastBounded ==
    \A u \in User, m \in Month : m < month =>
        recorded[u][m] + Exposure(InFlight(u, m, Pending))
            < Limit + Exposure(Req) + Exposure(Req)

NothingAhead ==
    /\ \A u \in User, m \in Month : m > month => recorded[u][m] = 0
    /\ \A r \in Req : req[r] # Idle => req[r].since <= month

Inv == TypeOK /\ MonthOvershootBounded /\ PastBounded /\ NothingAhead

LEMMA InvInit == Init => Inv
<1> SUFFICES ASSUME Init PROVE Inv
    OBVIOUS
<1>1. TypeOK /\ NothingAhead /\ PastBounded
    BY InvocationsAssumption
       DEF Init, TypeOK, NothingAhead, PastBounded, Month, Cost, Idle
<1>2. \A u \in User : InFlight(u, month, Admitted) = {}
    BY DEF Init, InFlight, Admitted, Idle
<1>3. Exposure({}) = 0
    BY FS_EmptySet, InvocationsAssumption DEF Exposure
<1>4. Exposure(Req) \in Nat
    BY ExposureMonotone
<1>5. \A u \in User : recorded[u][month] = 0
    BY InvocationsAssumption DEF Init, Month
<1>6. MonthOvershootBounded
    BY <1>2, <1>3, <1>4, <1>5, InvocationsAssumption DEF MonthOvershootBounded
<1> QED BY <1>1, <1>6 DEF Inv

-----------------------------------------------------------------------------
\* The moves of a request slot keep its record well formed.
LEMMA SlotMoves ==
    ASSUME TypeOK, NEW r \in Req
    PROVE  /\ Finish(r) => req' \in [Req -> Request \cup {Idle}]
           /\ req[r] # Idle => req[r] \in Request
           /\ \A q \in Request :
                req' = [req EXCEPT ![r] = q] => req' \in [Req -> Request \cup {Idle}]
           /\ \A pc \in {"check", "load", "call", "wait", "record"} :
                Goto(r, pc) /\ ~At(r, "idle") => req' \in [Req -> Request \cup {Idle}]
<1>1. req \in [Req -> Request \cup {Idle}]
    BY DEF TypeOK
<1>2. \A x \in Request \cup {Idle} : req' = [req EXCEPT ![r] = x]
        => req' \in [Req -> Request \cup {Idle}]
    BY <1>1
<1>3. ASSUME NEW pc \in {"check", "load", "call", "wait", "record"}, ~At(r, "idle")
      PROVE  [req[r] EXCEPT !.pc = pc] \in Request
    <2>1. req[r] \in Request
        BY <1>1, <1>3 DEF At, Idle
    <2> QED BY <2>1 DEF Request
<1> QED BY <1>1, <1>2, <1>3 DEF Finish, Goto

LEMMA TypeNext == TypeOK /\ [Next]_vars => TypeOK'
<1> SUFFICES ASSUME TypeOK, [Next]_vars PROVE TypeOK'
    OBVIOUS
<1>1. ASSUME NEW r \in Req, NEW u \in User, NEW f \in Function, Arrive(r, u, f)
      PROVE  TypeOK'
    <2>1. [pc |-> "check", user |-> u, fn |-> f, since |-> month, usage |-> 0] \in Request
        BY InvocationsAssumption DEF Request, TypeOK, Cost
    <2> QED BY <1>1, <2>1, SlotMoves DEF Arrive, Unrecorded, TypeOK
<1>2. ASSUME NEW r \in Req, CheckLimit(r) \/ LoadFunction(r) \/ OutputsArrive(r)
      PROVE  TypeOK'
    BY <1>2, SlotMoves
       DEF CheckLimit, LoadFunction, OutputsArrive, At, Unrecorded, TypeOK
<1>3. ASSUME NEW r \in Req, CallModal(r) PROVE TypeOK'
    <2>1. PICK usage \in Cost, calls \in {1, 2} :
            /\ Run(req[r].user, calls, usage)
            /\ req' = [req EXCEPT ![r] = [@ EXCEPT !.pc = "wait", !.usage = usage]]
        BY <1>3 DEF CallModal
    <2>2. req[r] \in Request
        BY <1>3, SlotMoves DEF CallModal, At, Idle
    <2>3. [req[r] EXCEPT !.pc = "wait", !.usage = usage] \in Request
        BY <2>2 DEF Request
    <2>4. req' \in [Req -> Request \cup {Idle}]
        BY <2>1, <2>3 DEF TypeOK
    <2>5. usage \in Nat /\ req[r].user \in User
        BY <2>2, InvocationsAssumption DEF Request, Cost
    <2>6. incurred' \in [User -> Nat] /\ runs' \in Nat
        BY <2>1, <2>5 DEF Run, TypeOK
    <2> QED BY <1>3, <2>4, <2>6 DEF CallModal, Unrecorded, TypeOK
<1>4. ASSUME NEW r \in Req, CallRefused(r) PROVE TypeOK'
    BY <1>4, SlotMoves DEF CallRefused, Unrecorded, TypeOK
<1>5. ASSUME NEW r \in Req, Record(r) PROVE TypeOK'
    <2>1. req[r] \in Request
        BY <1>5, SlotMoves DEF Record, At, Idle
    <2>2. /\ req[r].user \in User /\ req[r].fn \in Function
          /\ req[r].since \in Month /\ req[r].usage \in Nat
        BY <2>1, InvocationsAssumption DEF Request, Cost
    <2>3. recorded' \in [User -> [Month -> Nat]] /\ billed' \subseteq Function
        BY <1>5, <2>2 DEF Record, TypeOK
    <2> QED BY <1>5, <2>3, SlotMoves DEF Record, TypeOK
<1>6. CASE NextMonth
    BY <1>6, InvocationsAssumption DEF NextMonth, TypeOK, Month
<1>7. CASE Restart \/ (\E f \in Function : DeleteFunction(f)) \/ UNCHANGED vars
    BY <1>7 DEF Restart, DeleteFunction, vars, TypeOK, Unrecorded
<1> QED BY <1>1, <1>2, <1>3, <1>4, <1>5, <1>6, <1>7 DEF Next

\* A step that records nothing, stays in the month, admits no request and dates
\* none ahead.
Quiet ==
    /\ UNCHANGED <<month, recorded>>
    /\ \A u \in User :
        /\ InFlight(u, month, Admitted)' \subseteq InFlight(u, month, Admitted)
        /\ \A m \in Month : m < month =>
            InFlight(u, m, Pending)' \subseteq InFlight(u, m, Pending)
    /\ \A r \in Req : req'[r] # Idle => req'[r].since <= month

LEMMA QuietKeepsInv == Inv /\ TypeOK' /\ Quiet => Inv'
<1> SUFFICES ASSUME Inv, TypeOK', Quiet PROVE Inv'
    OBVIOUS
<1> DEFINE Now(u) == InFlight(u, month, Admitted)
           Late(u, m) == InFlight(u, m, Pending)
<1>1. month' = month /\ recorded' = recorded
    BY DEF Quiet
<1>2. \A u \in User : Exposure(Now(u)') \in Nat /\ Exposure(Now(u)) \in Nat
                        /\ Exposure(Now(u)') <= Exposure(Now(u))
    <2> TAKE u \in User
    <2>1. Now(u) \in SUBSET Req /\ Now(u)' \in SUBSET Now(u)
        BY DEF InFlight, Quiet
    <2> QED BY <2>1, ExposureMonotone
<1>3. \A u \in User, m \in Month : m < month =>
        Exposure(Late(u, m)') \in Nat /\ Exposure(Late(u, m)) \in Nat
            /\ Exposure(Late(u, m)') <= Exposure(Late(u, m))
    <2> TAKE u \in User, m \in Month
    <2> HAVE m < month
    <2>1. Late(u, m) \in SUBSET Req /\ Late(u, m)' \in SUBSET Late(u, m)
        BY DEF InFlight, Quiet
    <2> QED BY <2>1, ExposureMonotone
<1>4. Exposure(Req) \in Nat /\ Limit \in Nat
    BY ExposureMonotone, InvocationsAssumption
<1>5. month \in Month /\ \A u \in User, m \in Month : recorded[u][m] \in Nat
    BY DEF Inv, TypeOK
<1>6. MonthOvershootBounded'
    <2> SUFFICES ASSUME NEW u \in User
                 PROVE  recorded[u][month] + Exposure(Now(u)') < Limit + Exposure(Req)
        BY <1>1 DEF MonthOvershootBounded, Exposure, InFlight, Admitted
    <2>1. recorded[u][month] + Exposure(Now(u)) < Limit + Exposure(Req)
        BY DEF Inv, MonthOvershootBounded
    <2> HIDE DEF Now
    <2> QED BY <2>1, <1>2, <1>4, <1>5
<1>7. PastBounded'
    <2> SUFFICES ASSUME NEW u \in User, NEW m \in Month, m < month
                 PROVE  recorded[u][m] + Exposure(Late(u, m)')
                            < Limit + Exposure(Req) + Exposure(Req)
        BY <1>1 DEF PastBounded, Exposure, InFlight, Pending, Admitted
    <2>1. recorded[u][m] + Exposure(Late(u, m)) < Limit + Exposure(Req) + Exposure(Req)
        BY DEF Inv, PastBounded
    <2> HIDE DEF Late
    <2> QED BY <2>1, <1>3, <1>4, <1>5
<1>8. NothingAhead'
    BY <1>1 DEF Inv, Quiet, NothingAhead, Idle
<1> QED BY <1>6, <1>7, <1>8 DEF Inv

\* Requests that only go on, keeping what they are for, or end.
LEMMA GoingOnIsQuiet ==
    ASSUME TypeOK, NothingAhead, UNCHANGED <<month, recorded>>,
           \A r \in Req :
            \/ req'[r] = req[r]
            \/ req'[r] = Idle
            \/ /\ req[r] # Idle
               /\ req'[r].user = req[r].user /\ req'[r].since = req[r].since
               /\ req[r].pc \in Admitted /\ req'[r].pc \in Admitted
    PROVE  Quiet
<1>1. Idle.pc \notin Pending /\ Admitted \subseteq Pending
    BY DEF Idle, Pending, Admitted
<1>2. \A u \in User, m \in Month : InFlight(u, m, Admitted)' \subseteq InFlight(u, m, Admitted)
    BY <1>1 DEF InFlight
<1>3. \A u \in User, m \in Month : InFlight(u, m, Pending)' \subseteq InFlight(u, m, Pending)
    BY <1>1 DEF InFlight
<1>4. \A r \in Req : req'[r] # Idle => req'[r].since <= month
    BY DEF NothingAhead
<1>5. month \in Month /\ month' = month
    BY DEF TypeOK
<1>6. \A u \in User :
        InFlight(u, month, Admitted)' \subseteq InFlight(u, month, Admitted)
    BY <1>2, <1>5 DEF InFlight
<1> QED BY <1>3, <1>4, <1>6 DEF Quiet

\* Every step is quiet but three: the check that admits, the record, the month's turn.
LEMMA QuietSteps ==
    ASSUME TypeOK, NothingAhead,
           \/ \E r \in Req :
                \/ \E u \in User, f \in Function : Arrive(r, u, f)
                \/ LoadFunction(r) \/ CallModal(r)
                \/ CallRefused(r) \/ OutputsArrive(r)
           \/ \E f \in Function : DeleteFunction(f)
           \/ Restart \/ UNCHANGED vars
    PROVE  Quiet
<1> USE DEF Unrecorded
<1>1. ASSUME NEW r \in Req, NEW u \in User, NEW f \in Function, Arrive(r, u, f)
      PROVE  Quiet
    <2>1. /\ req'[r] = [pc |-> "check", user |-> u, fn |-> f, since |-> month, usage |-> 0]
          /\ \A s \in Req \ {r} : req'[s] = req[s]
          /\ UNCHANGED <<month, recorded>>
        BY <1>1 DEF Arrive, TypeOK
    <2>2. req'[r].pc = "check" /\ req'[r].since = month /\ month \in Nat
        BY <2>1 DEF TypeOK, Month
    <2>3. \A v \in User :
            InFlight(v, month, Admitted)' \subseteq InFlight(v, month, Admitted)
        BY <2>1, <2>2 DEF InFlight, Admitted
    <2>4. \A v \in User, m \in Month : m < month =>
            InFlight(v, m, Pending)' \subseteq InFlight(v, m, Pending)
        BY <2>1, <2>2 DEF InFlight
    <2>5. \A s \in Req : req'[s] # Idle => req'[s].since <= month
        BY <2>1, <2>2 DEF NothingAhead
    <2> QED BY <2>1, <2>3, <2>4, <2>5 DEF Quiet
<1>2. ASSUME NEW r \in Req, LoadFunction(r) \/ OutputsArrive(r) \/ CallRefused(r)
      PROVE  Quiet
    <2>1. /\ req[r].pc \in {"load", "call", "wait"} /\ req[r] # Idle
          /\ UNCHANGED <<month, recorded>>
        BY <1>2 DEF LoadFunction, OutputsArrive, CallRefused, At, Idle
    <2>2. req[r] \in Request
        BY <2>1, SlotMoves
    <2>3. \/ Finish(r)
          \/ Goto(r, "call") \/ Goto(r, "record")
        BY <1>2 DEF LoadFunction, OutputsArrive, CallRefused
    <2>4. \A pc \in {"call", "record"} :
            LET q == [req[r] EXCEPT !.pc = pc] IN
            q.pc = pc /\ q.user = req[r].user /\ q.since = req[r].since
        BY <2>2 DEF Request
    <2>5. \A s \in Req \ {r} : req'[s] = req[s]
        BY <2>3 DEF Finish, Goto, TypeOK
    <2>6. \/ req'[r] = Idle
          \/ /\ req'[r].user = req[r].user /\ req'[r].since = req[r].since
             /\ req'[r].pc \in {"call", "record"}
        BY <2>3, <2>4 DEF Finish, Goto, TypeOK
    <2> QED BY <2>1, <2>5, <2>6, GoingOnIsQuiet DEF Admitted
<1>3. ASSUME NEW r \in Req, CallModal(r) PROVE Quiet
    <2>0. At(r, "call") /\ Unrecorded
        BY <1>3, Zenon DEF CallModal
    <2>1. /\ req[r].pc = "call" /\ req[r] # Idle
          /\ UNCHANGED <<month, recorded>>
        BY <2>0 DEF At, Idle
    <2>2. req[r] \in Request
        BY <2>1, SlotMoves
    <2>3. PICK usage \in Cost :
            req' = [req EXCEPT ![r] = [@ EXCEPT !.pc = "wait", !.usage = usage]]
        BY <1>3 DEF CallModal
    <2>4. LET q == [req[r] EXCEPT !.pc = "wait", !.usage = usage] IN
            q.pc = "wait" /\ q.user = req[r].user /\ q.since = req[r].since
        BY <2>2 DEF Request
    <2>5. /\ req'[r].user = req[r].user /\ req'[r].since = req[r].since
          /\ req'[r].pc = "wait"
          /\ \A s \in Req \ {r} : req'[s] = req[s]
        BY <2>3, <2>4 DEF TypeOK
    <2> QED BY <2>1, <2>5, GoingOnIsQuiet DEF Admitted
<1>4. CASE Restart \/ (\E f \in Function : DeleteFunction(f)) \/ UNCHANGED vars
    <2>1. UNCHANGED <<month, recorded>>
            /\ \A r \in Req : req'[r] = req[r] \/ req'[r] = Idle
        BY <1>4 DEF Restart, DeleteFunction, vars
    <2> QED BY <2>1, GoingOnIsQuiet
<1> QED BY <1>1, <1>2, <1>3, <1>4

-----------------------------------------------------------------------------
\* Admitting a request: the month had room when it was checked.
LEMMA AdmitKeepsInv ==
    ASSUME Inv, TypeOK', NEW r \in Req, CheckLimit(r) PROVE Inv'
<1>1. /\ req[r].pc = "check" /\ req[r] # Idle
      /\ UNCHANGED <<month, recorded>>
    BY DEF CheckLimit, At, Idle, Unrecorded
<1>2. req[r] \in Request
    BY <1>1, SlotMoves DEF Inv
<1>3. /\ [req[r] EXCEPT !.pc = "load"].pc = "load"
      /\ [req[r] EXCEPT !.pc = "load"].user = req[r].user
      /\ [req[r] EXCEPT !.pc = "load"].since = req[r].since
    BY <1>2 DEF Request
<1>4. \A s \in Req \ {r} : req'[s] = req[s]
    BY DEF CheckLimit, Goto, Finish, Inv, TypeOK
<1>5. \/ req'[r] = Idle
      \/ /\ recorded[req[r].user][month] < Limit
         /\ req'[r].user = req[r].user /\ req'[r].since = req[r].since
         /\ req'[r].pc = "load"
    BY <1>3 DEF CheckLimit, Goto, Finish, Inv, TypeOK
<1>6. CASE req'[r] = Idle
    <2>1. /\ \A u \in User, m \in Month, pcs \in {Admitted, Pending} :
                InFlight(u, m, pcs)' \subseteq InFlight(u, m, pcs)
        BY <1>4, <1>6 DEF InFlight, Idle, Admitted, Pending
    <2>2. Quiet
        BY <1>1, <1>4, <1>6, <2>1 DEF Quiet, InFlight, Inv, NothingAhead, TypeOK
    <2> QED BY <2>2, QuietKeepsInv
<1>7. CASE req'[r] # Idle
    <2>1. Exposure(Req) \in Nat /\ Limit \in Nat /\ month \in Month /\ month' = month
            /\ \A u \in User, m \in Month : recorded[u][m] \in Nat
        BY <1>1, ExposureMonotone, InvocationsAssumption DEF Inv, TypeOK
    <2>2. MonthOvershootBounded'
        <3> SUFFICES ASSUME NEW u \in User
                     PROVE  recorded[u][month] + Exposure(InFlight(u, month, Admitted)')
                                < Limit + Exposure(Req)
            BY <1>1 DEF MonthOvershootBounded, Exposure, InFlight, Admitted
        <3>1. CASE u = req[r].user
            <4>1. Exposure(InFlight(u, month, Admitted)') \in Nat
                    /\ Exposure(InFlight(u, month, Admitted)') <= Exposure(Req)
                BY ExposureMonotone DEF InFlight
            <4>2. recorded[u][month] < Limit
                BY <1>5, <1>7, <3>1
            <4> QED BY <4>1, <4>2, <2>1
        <3>2. CASE u # req[r].user
            <4>1. InFlight(u, month, Admitted)' \subseteq InFlight(u, month, Admitted)
                BY <1>1, <1>4, <1>5, <1>7, <3>2 DEF InFlight
            <4>2. InFlight(u, month, Admitted) \in SUBSET Req
                BY DEF InFlight
            <4>3. Exposure(InFlight(u, month, Admitted)') \in Nat
                    /\ Exposure(InFlight(u, month, Admitted)) \in Nat
                    /\ Exposure(InFlight(u, month, Admitted)')
                        <= Exposure(InFlight(u, month, Admitted))
                BY <4>1, <4>2, ExposureMonotone
            <4>4. recorded[u][month] + Exposure(InFlight(u, month, Admitted))
                    < Limit + Exposure(Req)
                BY DEF Inv, MonthOvershootBounded
            <4> QED BY <4>3, <4>4, <2>1
        <3> QED BY <3>1, <3>2
    <2>3. PastBounded'
        <3> SUFFICES ASSUME NEW u \in User, NEW m \in Month, m < month
                     PROVE  recorded[u][m] + Exposure(InFlight(u, m, Pending)')
                                < Limit + Exposure(Req) + Exposure(Req)
            BY <1>1 DEF PastBounded, Exposure, InFlight, Pending, Admitted
        <3>1. InFlight(u, m, Pending)' \subseteq InFlight(u, m, Pending)
            BY <1>1, <1>4, <1>5, <1>7 DEF InFlight, Pending
        <3>2. InFlight(u, m, Pending) \in SUBSET Req
            BY DEF InFlight
        <3>3. Exposure(InFlight(u, m, Pending)') \in Nat
                /\ Exposure(InFlight(u, m, Pending)) \in Nat
                /\ Exposure(InFlight(u, m, Pending)') <= Exposure(InFlight(u, m, Pending))
            BY <3>1, <3>2, ExposureMonotone
        <3>4. recorded[u][m] + Exposure(InFlight(u, m, Pending))
                < Limit + Exposure(Req) + Exposure(Req)
            BY DEF Inv, PastBounded
        <3> QED BY <3>3, <3>4, <2>1
    <2>4. NothingAhead'
        BY <1>1, <1>4, <1>5, <1>7 DEF Inv, NothingAhead
    <2> QED BY <2>2, <2>3, <2>4 DEF Inv
<1> QED BY <1>6, <1>7

\* Recording: the request leaves with at most the one call's cost it stood for.
LEMMA RecordKeepsInv ==
    ASSUME Inv, TypeOK', NEW r \in Req, Record(r) PROVE Inv'
<1> DEFINE u0 == req[r].user
           m0 == req[r].since
<1>1. req[r].pc = "record" /\ req[r] # Idle /\ month' = month
    BY DEF Record, At, Idle
<1>2. req[r] \in Request
    BY <1>1, SlotMoves DEF Inv
<1>3. u0 \in User /\ m0 \in Month /\ req[r].usage \in 0..MaxCost /\ m0 <= month
    BY <1>1, <1>2 DEF Request, Cost, Inv, NothingAhead
<1>4. req'[r] = Idle /\ \A s \in Req \ {r} : req'[s] = req[s]
    BY DEF Record, Finish, Inv, TypeOK
<1>5. \A u \in User, m \in Month, pcs \in {Admitted, Pending} :
        InFlight(u, m, pcs)' = InFlight(u, m, pcs) \ {r}
    BY <1>4 DEF InFlight, Idle, Admitted, Pending
<1>6. \A pcs \in {Admitted, Pending} : r \in InFlight(u0, m0, pcs)
    BY <1>1 DEF InFlight, Admitted, Pending
<1>7. /\ \A u \in User, m \in Month :
            recorded[u][m] \in Nat /\ recorded'[u][m] \in Nat
      /\ \A u \in User, m \in Month : (u # u0 \/ m # m0) =>
            recorded'[u][m] = recorded[u][m]
      /\ recorded'[u0][m0] <= recorded[u0][m0] + MaxCost
    <2>1. \/ recorded' = [recorded EXCEPT ![u0][m0] = @ + req[r].usage]
          \/ recorded' = recorded
        BY DEF Record
    <2>2. recorded \in [User -> [Month -> Nat]] /\ MaxCost \in Nat
        BY InvocationsAssumption DEF Inv, TypeOK
    <2> HIDE DEF u0, m0
    <2>3. \A u \in User, m \in Month : recorded[u][m] \in Nat
        BY <2>2
    <2>4. CASE recorded' = recorded
        BY <2>2, <2>3, <2>4, <1>3
    <2>5. CASE recorded' = [recorded EXCEPT ![u0][m0] = @ + req[r].usage]
        <3>1. recorded'[u0][m0] = recorded[u0][m0] + req[r].usage
            BY <2>2, <2>5, <1>3
        <3>2. \A u \in User, m \in Month : (u # u0 \/ m # m0) =>
                recorded'[u][m] = recorded[u][m]
            BY <2>2, <2>5, <1>3
        <3> QED BY <3>1, <3>2, <2>2, <2>3, <1>3
    <2> QED BY <2>1, <2>4, <2>5
<1>8. \A u \in User, m \in Month, pcs \in {Admitted, Pending} :
        /\ Exposure(InFlight(u, m, pcs)) \in Nat /\ Exposure(InFlight(u, m, pcs)') \in Nat
        /\ recorded'[u][m] + Exposure(InFlight(u, m, pcs)')
            <= recorded[u][m] + Exposure(InFlight(u, m, pcs))
    <2> SUFFICES ASSUME NEW u \in User, NEW m \in Month, NEW pcs \in {Admitted, Pending}
                 PROVE  /\ Exposure(InFlight(u, m, pcs)) \in Nat
                        /\ Exposure(InFlight(u, m, pcs)') \in Nat
                        /\ recorded'[u][m] + Exposure(InFlight(u, m, pcs)')
                            <= recorded[u][m] + Exposure(InFlight(u, m, pcs))
        OBVIOUS
    <2>1. InFlight(u, m, pcs) \in SUBSET Req
            /\ InFlight(u, m, pcs)' = InFlight(u, m, pcs) \ {r}
        BY <1>5 DEF InFlight
    <2>2. /\ Exposure(InFlight(u, m, pcs)) \in Nat /\ Exposure(InFlight(u, m, pcs)') \in Nat
          /\ Exposure(InFlight(u, m, pcs)') <= Exposure(InFlight(u, m, pcs))
        BY <2>1, ExposureMonotone
    <2>3. CASE u = u0 /\ m = m0
        <3>1. Exposure(InFlight(u, m, pcs)') + MaxCost = Exposure(InFlight(u, m, pcs))
            BY <1>6, <2>1, <2>3, ExposureDrops
        <3> HIDE DEF u0, m0
        <3> QED BY <1>3, <1>7, <2>2, <2>3, <3>1, InvocationsAssumption
    <2>4. CASE u # u0 \/ m # m0
        <3> HIDE DEF u0, m0
        <3> QED BY <1>7, <2>2, <2>4
    <2> QED BY <2>3, <2>4
<1>9. month \in Month /\ Limit \in Nat /\ Exposure(Req) \in Nat
    BY ExposureMonotone, InvocationsAssumption DEF Inv, TypeOK
<1>10. MonthOvershootBounded'
    <2> SUFFICES ASSUME NEW u \in User, NEW m \in Month, m = month
                 PROVE  recorded'[u][m] + Exposure(InFlight(u, m, Admitted)')
                            < Limit + Exposure(Req)
        BY <1>1, <1>9 DEF MonthOvershootBounded, Exposure, InFlight, Admitted
    <2>1. recorded[u][m] + Exposure(InFlight(u, m, Admitted)) < Limit + Exposure(Req)
        BY DEF Inv, MonthOvershootBounded
    <2> QED BY <2>1, <1>7, <1>8, <1>9
<1>11. PastBounded'
    <2> SUFFICES ASSUME NEW u \in User, NEW m \in Month, m < month
                 PROVE  recorded'[u][m] + Exposure(InFlight(u, m, Pending)')
                            < Limit + Exposure(Req) + Exposure(Req)
        BY <1>1 DEF PastBounded, Exposure, InFlight, Pending, Admitted
    <2>1. recorded[u][m] + Exposure(InFlight(u, m, Pending))
            < Limit + Exposure(Req) + Exposure(Req)
        BY DEF Inv, PastBounded
    <2> QED BY <2>1, <1>7, <1>8, <1>9
<1>12. NothingAhead'
    <2>1. \A m \in Month : m > month => m # m0
        BY <1>3, <1>9, InvocationsAssumption DEF Month
    <2> HIDE DEF u0, m0
    <2> QED BY <1>1, <1>4, <1>7, <2>1 DEF Inv, NothingAhead
<1> QED BY <1>10, <1>11, <1>12 DEF Inv

\* The month's turn: the month that ends is left to the requests begun in it.
LEMMA NextMonthKeepsInv == Inv /\ TypeOK' /\ NextMonth => Inv'
<1> SUFFICES ASSUME Inv, TypeOK', NextMonth PROVE Inv'
    OBVIOUS
<1>1. /\ month' = month + 1 /\ UNCHANGED <<recorded, req>>
      /\ month \in Nat /\ month + 1 \in Month /\ month \in Month
      /\ Limit \in Nat \ {0} /\ Month \subseteq Nat
      /\ \A u \in User, m \in Month : recorded[u][m] \in Nat
    BY InvocationsAssumption DEF NextMonth, Inv, TypeOK, Month
<1>2. /\ Exposure(Req) \in Nat
      /\ \A u \in User, m \in Month, pcs \in {Admitted, Pending} :
            /\ Exposure(InFlight(u, m, pcs)) \in Nat
            /\ Exposure(InFlight(u, m, pcs)) <= Exposure(Req)
    BY ExposureMonotone DEF InFlight
<1>3. MonthOvershootBounded'
    <2> SUFFICES ASSUME NEW u \in User
                 PROVE  recorded[u][month + 1] + Exposure(InFlight(u, month + 1, Admitted))
                            < Limit + Exposure(Req)
        BY <1>1 DEF MonthOvershootBounded, Exposure, InFlight, Admitted
    <2>1. recorded[u][month + 1] = 0
        BY <1>1 DEF Inv, NothingAhead
    <2> QED BY <2>1, <1>1, <1>2
<1>4. PastBounded'
    <2> SUFFICES ASSUME NEW u \in User, NEW m \in Month, m < month + 1
                 PROVE  recorded[u][m] + Exposure(InFlight(u, m, Pending))
                            < Limit + Exposure(Req) + Exposure(Req)
        BY <1>1 DEF PastBounded, Exposure, InFlight, Pending, Admitted
    <2>1. CASE m < month
        BY <2>1 DEF Inv, PastBounded
    <2>2. CASE m = month
        <3>1. recorded[u][month] + Exposure(InFlight(u, month, Admitted))
                < Limit + Exposure(Req)
            BY DEF Inv, MonthOvershootBounded
        <3> QED BY <3>1, <2>2, <1>1, <1>2
    <2> QED BY <2>1, <2>2, <1>1
<1>5. NothingAhead'
    <2>1. \A u \in User, m \in Month : m > month + 1 => recorded[u][m] = 0
        BY <1>1 DEF Inv, NothingAhead
    <2>2. \A r \in Req : req[r] # Idle => req[r].since <= month + 1
        <3> TAKE r \in Req
        <3> HAVE req[r] # Idle
        <3>1. req[r] \in Request
            BY SlotMoves DEF Inv
        <3>2. req[r].since \in Nat
            BY <1>1, <3>1 DEF Request
        <3>3. req[r].since <= month
            BY DEF Inv, NothingAhead
        <3> QED BY <1>1, <3>2, <3>3
    <2> QED BY <1>1, <2>1, <2>2 DEF NothingAhead, Idle
<1> QED BY <1>3, <1>4, <1>5 DEF Inv

-----------------------------------------------------------------------------
LEMMA InvNext == Inv /\ [Next]_vars => Inv'
<1> SUFFICES ASSUME Inv, [Next]_vars PROVE Inv'
    OBVIOUS
<1>1. TypeOK'
    BY TypeNext DEF Inv
<1>2. ASSUME NEW r \in Req, CheckLimit(r) PROVE Inv'
    BY <1>1, <1>2, AdmitKeepsInv
<1>3. ASSUME NEW r \in Req, Record(r) PROVE Inv'
    BY <1>1, <1>3, RecordKeepsInv
<1>4. CASE NextMonth
    BY <1>1, <1>4, NextMonthKeepsInv
<1>5. CASE \/ \E r \in Req :
                \/ \E u \in User, f \in Function : Arrive(r, u, f)
                \/ LoadFunction(r) \/ CallModal(r)
                \/ CallRefused(r) \/ OutputsArrive(r)
           \/ \E f \in Function : DeleteFunction(f)
           \/ Restart \/ UNCHANGED vars
    BY <1>1, <1>5, QuietSteps, QuietKeepsInv DEF Inv
<1> QED BY <1>2, <1>3, <1>4, <1>5 DEF Next

LEMMA InvImpliesBounds == Inv => OvershootBounded
<1> SUFFICES ASSUME Inv, NEW u \in User, NEW m \in Month
             PROVE  recorded[u][m] < Limit + Exposure(Req) + Exposure(Req)
    BY DEF OvershootBounded
<1>1. /\ Exposure(Req) \in Nat
      /\ \A pcs \in {Admitted, Pending} : Exposure(InFlight(u, m, pcs)) \in Nat
    BY ExposureMonotone DEF InFlight
<1>2. recorded[u][m] \in Nat /\ Limit \in Nat \ {0} /\ month \in Nat /\ m \in Nat
    BY InvocationsAssumption DEF Inv, TypeOK, Month
<1>3. CASE m < month
    BY <1>1, <1>2, <1>3 DEF Inv, PastBounded
<1>4. CASE m = month
    BY <1>1, <1>2, <1>4 DEF Inv, MonthOvershootBounded
<1>5. CASE m > month
    BY <1>1, <1>2, <1>5 DEF Inv, NothingAhead
<1> QED BY <1>2, <1>3, <1>4, <1>5

LEMMA InvAlways == Spec => []Inv
BY InvInit, InvNext, PTL DEF Spec

\* Requests, usage and rows keep their types; what is recorded refers to a function
\* that exists.
THEOREM TypesKept == Spec => []TypeOK
<1>1. Inv => TypeOK
    BY DEF Inv
<1> QED BY <1>1, InvAlways, PTL

\* However many requests the service runs at once, and however checks, answers,
\* restarts and deletions fall between each other: while a month lasts, a user's
\* recorded usage stays within the limit plus one round of requests in flight.
THEOREM MonthTheorem == Spec => []MonthOvershootBounded
<1>1. Inv => MonthOvershootBounded
    BY DEF Inv
<1> QED BY <1>1, InvAlways, PTL

\* The turn of a month adds one more round, for ever.
THEOREM OvershootTheorem == Spec => []OvershootBounded
<1>1. Inv => OvershootBounded
    BY InvImpliesBounds DEF Inv
<1> QED BY <1>1, InvAlways, PTL

-----------------------------------------------------------------------------
(* Sums over finite sets *)

\* What holds of a set whenever it holds of its proper subsets holds of every finite set.
LEMMA SubsetInduction ==
    ASSUME NEW S, IsFiniteSet(S), NEW Good,
           \A T \in SUBSET S : (\A U \in SUBSET T : U # T => U \in Good) => T \in Good
    PROVE  SUBSET S \subseteq Good
<1> DEFINE Bad == {T \in SUBSET S : T \notin Good}
<1>1. Bad \subseteq FiniteSubsetsOf(S)
    BY FS_Subset DEF FiniteSubsetsOf
<1>2. SUFFICES ASSUME Bad # {} PROVE FALSE
    OBVIOUS
<1> HIDE DEF Bad
<1>3. PICK T \in Bad : \A U \in Bad : <<U, T>> \notin StrictSubsetOrdering(S)
    BY <1>1, <1>2, FS_StrictSubsetOrderingWellFounded, WFMin
<1>4. T \in SUBSET S /\ T \notin Good
    BY <1>3 DEF Bad
<1>5. ASSUME NEW U \in SUBSET T, U # T PROVE U \in Good
    <2>1. <<U, T>> \in StrictSubsetOrdering(S)
        BY <1>4, <1>5 DEF StrictSubsetOrdering
    <2> QED BY <1>3, <1>4, <2>1 DEF Bad
<1> QED BY <1>4, <1>5

Pick(T) == CHOOSE x \in T : TRUE

\* g adds up f over the subsets of S, one element at a time.
IsSum(g, f, S) ==
    g = [T \in SUBSET S |-> IF T = {} THEN 0 ELSE f[Pick(T)] + g[T \ {Pick(T)}]]

LEMMA IsSumFacts ==
    ASSUME NEW f, NEW S, NEW g, IsSum(g, f, S)
    PROVE  /\ g[{}] = 0
           /\ \A T \in SUBSET S : T # {} => g[T] = f[Pick(T)] + g[T \ {Pick(T)}]
<1> DEFINE e(T) == IF T = {} THEN 0 ELSE f[Pick(T)] + g[T \ {Pick(T)}]
<1>1. g = [T \in SUBSET S |-> e(T)]
    BY DEF IsSum
<1> HIDE DEF e
<1>2. \A T \in SUBSET S : g[T] = e(T)
    BY <1>1
<1> QED BY <1>2 DEF e

LEMMA PickIn == \A T : T # {} => Pick(T) \in T
BY DEF Pick

LEMMA SumUnique ==
    ASSUME NEW f, NEW S, IsFiniteSet(S), NEW T \in SUBSET S,
           NEW g, IsSum(g, f, S), NEW h, IsSum(h, f, T)
    PROVE  h[T] = g[T]
<1> DEFINE Good == {U \in SUBSET T : h[U] = g[U]}
<1>1. IsFiniteSet(T)
    BY FS_Subset
<1>2. ASSUME NEW U \in SUBSET T, \A V \in SUBSET U : V # U => V \in Good
      PROVE  U \in Good
    <2>1. CASE U = {}
        BY <2>1, IsSumFacts
    <2>2. CASE U # {}
        <3>1. Pick(U) \in U /\ h[U] = f[Pick(U)] + h[U \ {Pick(U)}]
            BY <2>2, IsSumFacts, PickIn
        <3>2. U \in SUBSET S /\ g[U] = f[Pick(U)] + g[U \ {Pick(U)}]
            BY <2>2, IsSumFacts
        <3>3. h[U \ {Pick(U)}] = g[U \ {Pick(U)}]
            BY <1>2, <3>1
        <3> QED BY <3>1, <3>2, <3>3
    <2> QED BY <2>1, <2>2
<1> HIDE DEF Good
<1>3. SUBSET T \subseteq Good
    BY <1>1, <1>2, SubsetInduction
<1> QED BY <1>3 DEF Good

LEMMA SumExists ==
    ASSUME NEW f, NEW S, IsFiniteSet(S)
    PROVE  \E g : IsSum(g, f, S)
<1> DEFINE Good == {T \in SUBSET S : \E g : IsSum(g, f, T)}
<1>1. ASSUME NEW T \in SUBSET S, \A U \in SUBSET T : U # T => U \in Good
      PROVE  T \in Good
    <2> DEFINE G(U) == CHOOSE g : IsSum(g, f, U)
               below(U) == G(U \ {Pick(U)})[U \ {Pick(U)}]
               g == [U \in SUBSET T |-> IF U = {} THEN 0 ELSE f[Pick(U)] + below(U)]
    <2>1. \A U \in SUBSET T : U # T => IsSum(G(U), f, U)
        BY <1>1
    <2>2. ASSUME NEW U \in SUBSET T, U # {} PROVE g[U \ {Pick(U)}] = below(U)
        <3> DEFINE V == U \ {Pick(U)}
        <3>1. V \in SUBSET T /\ V # T /\ IsFiniteSet(V)
            BY <2>2, FS_Subset DEF Pick
        <3>2. IsSum(G(V), f, V)
            BY <2>1, <3>1
        <3>3. CASE V = {}
            <4>1. G(V)[V] = 0
                BY <3>2, <3>3, IsSumFacts
            <4> QED BY <4>1, <3>1, <3>3
        <3>4. CASE V # {}
            <4> DEFINE W == V \ {Pick(V)}
            <4>1. W \in SUBSET V /\ W # T
                BY <3>1
            <4>2. IsSum(G(W), f, W)
                BY <2>1, <3>1, <4>1
            <4>3. G(W)[W] = G(V)[W]
                <5> HIDE DEF G, V, W
                <5> QED BY <3>1, <3>2, <4>1, <4>2, SumUnique
            <4>4. G(V)[V] = f[Pick(V)] + G(V)[W]
                <5> HIDE DEF G, V
                <5> QED BY <3>2, <3>4, IsSumFacts
            <4>5. g[V] = f[Pick(V)] + G(W)[W]
                BY <3>1, <3>4
            <4> QED BY <4>3, <4>4, <4>5
        <3> QED BY <3>3, <3>4
    <2> DEFINE d(U) == IF U = {} THEN 0 ELSE f[Pick(U)] + g[U \ {Pick(U)}]
               e(U) == IF U = {} THEN 0 ELSE f[Pick(U)] + below(U)
    <2>3. ASSUME NEW U \in SUBSET T PROVE d(U) = e(U)
        <3>1. CASE U = {}
            BY <3>1
        <3>2. CASE U # {}
            <4>1. g[U \ {Pick(U)}] = below(U)
                BY <2>2, <3>2
            <4> HIDE DEF g, below
            <4> QED BY <3>2, <4>1
        <3> QED BY <3>1, <3>2
    <2>4. g = [U \in SUBSET T |-> e(U)]
        OBVIOUS
    <2>5. g = [U \in SUBSET T |-> d(U)]
        <3> HIDE DEF g, d, e
        <3> QED BY <2>3, <2>4
    <2>6. IsSum(g, f, T)
        BY <2>5 DEF IsSum
    <2> QED BY <2>6
<1> HIDE DEF Good
<1>2. SUBSET S \subseteq Good
    BY <1>1, SubsetInduction
<1> QED BY <1>2 DEF Good

\* The sum of the values of f over S.
Sum(f, S) == FoldFunctionOnSet(+, 0, f, S)

LEMMA SumDefined ==
    ASSUME NEW f, NEW S, IsFiniteSet(S)
    PROVE  \E g : IsSum(g, f, S) /\ \A T \in SUBSET S : Sum(f, T) = g[T]
<1>1. PICK g : IsSum(g, f, S)
    BY SumExists
<1>2. ASSUME NEW T \in SUBSET S PROVE Sum(f, T) = g[T]
    <2> DEFINE h == CHOOSE h : IsSum(h, f, T)
    <2>1. Sum(f, T) = h[T]
        BY DEF Sum, FoldFunctionOnSet, MapThenFoldSet, IsSum, Pick
    <2>2. IsSum(h, f, T)
        BY SumExists, FS_Subset
    <2> HIDE DEF h
    <2> QED BY <1>1, <2>1, <2>2, SumUnique
<1> QED BY <1>1, <1>2

LEMMA SumStep ==
    ASSUME NEW f, NEW S, IsFiniteSet(S), S # {}
    PROVE  Pick(S) \in S /\ Sum(f, S) = f[Pick(S)] + Sum(f, S \ {Pick(S)})
<1>1. PICK g : IsSum(g, f, S) /\ \A T \in SUBSET S : Sum(f, T) = g[T]
    BY SumDefined
<1> HIDE DEF Sum
<1>2. Pick(S) \in S /\ g[S] = f[Pick(S)] + g[S \ {Pick(S)}]
    BY <1>1, IsSumFacts, PickIn
<1> QED BY <1>1, <1>2

LEMMA SumEmpty == ASSUME NEW f PROVE Sum(f, {}) = 0
<1>1. IsFiniteSet({})
    BY FS_EmptySet
<1>2. PICK g : IsSum(g, f, {}) /\ \A T \in SUBSET {} : Sum(f, T) = g[T]
    BY <1>1, SumDefined
<1> HIDE DEF Sum
<1> QED BY <1>2, IsSumFacts

LEMMA SumNat ==
    ASSUME NEW f, NEW S, IsFiniteSet(S), \A x \in S : f[x] \in Nat
    PROVE  Sum(f, S) \in Nat
<1> DEFINE Good == {T \in SUBSET S : Sum(f, T) \in Nat}
<1> HIDE DEF Sum
<1>1. ASSUME NEW T \in SUBSET S, \A U \in SUBSET T : U # T => U \in Good
      PROVE  T \in Good
    <2>1. CASE T = {}
        BY <2>1, SumEmpty
    <2>2. CASE T # {}
        <3>1. Pick(T) \in T /\ Sum(f, T) = f[Pick(T)] + Sum(f, T \ {Pick(T)})
            BY <2>2, FS_Subset, SumStep
        <3>2. Sum(f, T \ {Pick(T)}) \in Nat
            BY <1>1, <3>1
        <3> QED BY <3>1, <3>2
    <2> QED BY <2>1, <2>2
<1> HIDE DEF Good
<1>2. SUBSET S \subseteq Good
    BY <1>1, SubsetInduction
<1> QED BY <1>2 DEF Good

\* The order of the terms is nothing to the sum.
LEMMA SumRemove ==
    ASSUME NEW f, NEW S, IsFiniteSet(S), \A x \in S : f[x] \in Nat, NEW x \in S
    PROVE  Sum(f, S) = f[x] + Sum(f, S \ {x})
<1> DEFINE Good == {T \in SUBSET S : \A y \in T : Sum(f, T) = f[y] + Sum(f, T \ {y})}
<1> HIDE DEF Sum
<1>0. \A T \in SUBSET S : Sum(f, T) \in Nat
    BY SumNat, FS_Subset
<1>1. ASSUME NEW T \in SUBSET S, \A U \in SUBSET T : U # T => U \in Good
      PROVE  T \in Good
    <2> SUFFICES ASSUME NEW y \in T PROVE Sum(f, T) = f[y] + Sum(f, T \ {y})
        OBVIOUS
    <2> DEFINE c == Pick(T)
    <2>1. c \in T /\ Sum(f, T) = f[c] + Sum(f, T \ {c})
        BY FS_Subset, SumStep
    <2> HIDE DEF c
    <2>2. CASE y # c
        <3>1. T \ {c} \in Good /\ T \ {y} \in Good
            BY <1>1, <2>1
        <3>2. Sum(f, T \ {c}) = f[y] + Sum(f, (T \ {c}) \ {y})
            BY <2>1, <2>2, <3>1
        <3>3. Sum(f, T \ {y}) = f[c] + Sum(f, (T \ {y}) \ {c})
            BY <2>1, <2>2, <3>1
        <3>4. (T \ {c}) \ {y} = (T \ {y}) \ {c}
            OBVIOUS
        <3>5. (T \ {y}) \ {c} \in SUBSET S
            OBVIOUS
        <3>6. Sum(f, (T \ {y}) \ {c}) \in Nat /\ f[y] \in Nat /\ f[c] \in Nat
            BY <1>0, <2>1, <3>5
        <3> QED BY <2>1, <3>2, <3>3, <3>4, <3>6
    <2> QED BY <2>1, <2>2
<1> HIDE DEF Good
<1>2. SUBSET S \subseteq Good
    BY <1>1, SubsetInduction
<1> QED BY <1>2 DEF Good

\* Only the values in S count.
LEMMA SumAgree ==
    ASSUME NEW f, NEW h, NEW S, IsFiniteSet(S), \A x \in S : f[x] = h[x]
    PROVE  Sum(f, S) = Sum(h, S)
<1> DEFINE Good == {T \in SUBSET S : Sum(f, T) = Sum(h, T)}
<1> HIDE DEF Sum
<1>1. ASSUME NEW T \in SUBSET S, \A U \in SUBSET T : U # T => U \in Good
      PROVE  T \in Good
    <2>1. CASE T = {}
        BY <2>1, SumEmpty
    <2>2. CASE T # {}
        <3>1. Pick(T) \in T /\ Sum(f, T) = f[Pick(T)] + Sum(f, T \ {Pick(T)})
            BY <2>2, FS_Subset, SumStep
        <3>2. Sum(h, T) = h[Pick(T)] + Sum(h, T \ {Pick(T)})
            BY <2>2, FS_Subset, SumStep
        <3>3. T \ {Pick(T)} \in Good
            BY <1>1, <3>1
        <3> QED BY <3>1, <3>2, <3>3
    <2> QED BY <2>1, <2>2
<1> HIDE DEF Good
<1>2. SUBSET S \subseteq Good
    BY <1>1, SubsetInduction
<1> QED BY <1>2 DEF Good

\* A sum does not grow when terms leave it.
LEMMA SumSubset ==
    ASSUME NEW f, NEW S, IsFiniteSet(S), \A x \in S : f[x] \in Nat, NEW T \in SUBSET S
    PROVE  Sum(f, T) \in Nat /\ Sum(f, S) \in Nat /\ Sum(f, T) <= Sum(f, S)
<1> DEFINE Good == {R \in SUBSET S : \A U \in SUBSET R : Sum(f, U) <= Sum(f, R)}
<1> HIDE DEF Sum
<1>0. \A R \in SUBSET S : Sum(f, R) \in Nat
    BY SumNat, FS_Subset
<1>1. ASSUME NEW R \in SUBSET S, \A U \in SUBSET R : U # R => U \in Good
      PROVE  R \in Good
    <2> SUFFICES ASSUME NEW U \in SUBSET R PROVE Sum(f, U) <= Sum(f, R)
        OBVIOUS
    <2>1. CASE U = R
        BY <1>0, <2>1
    <2>2. CASE U # R
        <3>1. PICK x \in R : x \notin U
            BY <2>2
        <3>2. R \ {x} \in Good /\ U \in SUBSET (R \ {x})
            BY <1>1, <3>1
        <3>3. Sum(f, U) <= Sum(f, R \ {x})
            BY <3>2
        <3>4. Sum(f, R) = f[x] + Sum(f, R \ {x})
            BY FS_Subset, SumRemove
        <3>5. Sum(f, U) \in Nat /\ Sum(f, R \ {x}) \in Nat /\ f[x] \in Nat
            BY <1>0
        <3> QED BY <3>3, <3>4, <3>5
    <2> QED BY <2>1, <2>2
<1> HIDE DEF Good
<1>2. SUBSET S \subseteq Good
    BY <1>1, SubsetInduction
<1> QED BY <1>0, <1>2 DEF Good

LEMMA SumZero ==
    ASSUME NEW f, NEW S, IsFiniteSet(S), \A x \in S : f[x] = 0
    PROVE  Sum(f, S) = 0
<1> DEFINE Good == {T \in SUBSET S : Sum(f, T) = 0}
<1> HIDE DEF Sum
<1>1. ASSUME NEW T \in SUBSET S, \A U \in SUBSET T : U # T => U \in Good
      PROVE  T \in Good
    <2>1. CASE T = {}
        BY <2>1, SumEmpty
    <2>2. CASE T # {}
        <3>1. Pick(T) \in T /\ Sum(f, T) = f[Pick(T)] + Sum(f, T \ {Pick(T)})
            BY <2>2, FS_Subset, SumStep
        <3>2. Sum(f, T \ {Pick(T)}) = 0
            BY <1>1, <3>1
        <3> QED BY <3>1, <3>2
    <2> QED BY <2>1, <2>2
<1> HIDE DEF Good
<1>2. SUBSET S \subseteq Good
    BY <1>1, SubsetInduction
<1> QED BY <1>2 DEF Good

\* The library adds up a function the same way.
LEMMA FoldIsSum == ASSUME NEW f PROVE FoldFunction(+, 0, f) = Sum(f, DOMAIN f)
BY DEF FoldFunction, Sum

-----------------------------------------------------------------------------
(* What is recorded, and what is about to be, was incurred. *)

Usage == [r \in Req |-> req[r].usage]
Total(u) == Sum(recorded[u], Month)
Owed(u) == Sum(Usage, Recordable(u))

Charged == \A u \in User : Total(u) + Owed(u) <= incurred[u]

LEMMA RecordableFinite ==
    ASSUME NEW u PROVE IsFiniteSet(Recordable(u)) /\ Recordable(u) \subseteq Req
BY FS_Subset, InvocationsAssumption DEF Recordable

LEMMA MonthFinite == IsFiniteSet(Month)
BY FS_Interval, InvocationsAssumption DEF Month

LEMMA UsageNat ==
    ASSUME TypeOK, NEW u \in User, NEW r \in Recordable(u)
    PROVE  Usage[r] \in Nat /\ Usage[r] = req[r].usage /\ req[r] \in Request
<1>1. req[r] \in Request
    BY DEF Recordable, TypeOK, Idle
<1> QED BY <1>1, InvocationsAssumption DEF Usage, Recordable, Request, Cost

LEMMA SumsNat ==
    ASSUME TypeOK, NEW u \in User
    PROVE  Total(u) \in Nat /\ Owed(u) \in Nat /\ incurred[u] \in Nat
<1>1. \A m \in Month : recorded[u][m] \in Nat
    BY DEF TypeOK
<1>2. Total(u) \in Nat
    BY <1>1, MonthFinite, SumNat DEF Total
<1>3. \A r \in Recordable(u) : Usage[r] \in Nat
    BY UsageNat
<1>4. Owed(u) \in Nat
    BY <1>3, RecordableFinite, SumNat DEF Owed
<1> QED BY <1>2, <1>4 DEF TypeOK

LEMMA NextSums ==
    ASSUME NEW u
    PROVE  /\ Total(u)' = Sum(recorded'[u], Month)
           /\ Owed(u)' = Sum(Usage', Recordable(u)')
BY DEF Total, Owed, Sum, FoldFunctionOnSet, MapThenFoldSet, Month

LEMMA ChargedIsNeverOvercharged == TypeOK => (Charged <=> NeverOvercharged)
<1> SUFFICES ASSUME TypeOK, NEW u \in User
             PROVE  /\ Total(u) = FoldFunction(+, 0, recorded[u])
                    /\ Owed(u) = FoldFunction(+, 0, [r \in Recordable(u) |-> req[r].usage])
    BY DEF Charged, NeverOvercharged
<1>1. FoldFunction(+, 0, recorded[u]) = Sum(recorded[u], DOMAIN recorded[u])
    BY FoldIsSum
<1>2. DOMAIN recorded[u] = Month
    BY DEF TypeOK
<1> DEFINE own == [r \in Recordable(u) |-> req[r].usage]
<1>3. FoldFunction(+, 0, own) = Sum(own, DOMAIN own)
    BY FoldIsSum
<1>4. DOMAIN own = Recordable(u) /\ \A r \in Recordable(u) : own[r] = Usage[r]
    BY UsageNat
<1> HIDE DEF own
<1>5. Sum(own, Recordable(u)) = Sum(Usage, Recordable(u))
    BY <1>4, RecordableFinite, SumAgree
<1> QED BY <1>1, <1>2, <1>3, <1>4, <1>5 DEF Total, Owed, own

\* A step that records nothing and leaves no more to record.
LEMMA LosingKeepsCharged ==
    ASSUME TypeOK, TypeOK', Charged, UNCHANGED <<recorded, incurred>>,
           \A u \in User : \A r \in Recordable(u)' :
                r \in Recordable(u) /\ req'[r].usage = req[r].usage
    PROVE  Charged'
<1> SUFFICES ASSUME NEW u \in User PROVE Total(u)' + Owed(u)' <= incurred'[u]
    BY DEF Charged
<1>1. Total(u)' = Total(u) /\ incurred'[u] = incurred[u]
    BY NextSums DEF Total
<1> DEFINE Rec == Recordable(u)'
<1>2. Rec \subseteq Recordable(u) /\ Recordable(u) \subseteq Req
    BY DEF Recordable
<1>3. \A r \in Rec : Usage'[r] = Usage[r]
    BY <1>2 DEF Usage
<1>4. IsFiniteSet(Rec) /\ IsFiniteSet(Recordable(u))
    BY <1>2, RecordableFinite, FS_Subset
<1>5. \A r \in Recordable(u) : Usage[r] \in Nat
    BY UsageNat
<1>6. Owed(u)' = Sum(Usage', Rec)
    BY NextSums
<1> HIDE DEF Rec
<1>7. Sum(Usage', Rec) = Sum(Usage, Rec)
    BY <1>3, <1>4, SumAgree
<1>8. Sum(Usage, Rec) <= Owed(u) /\ Sum(Usage, Rec) \in Nat
    BY <1>2, <1>4, <1>5, SumSubset DEF Owed
<1> QED BY <1>1, <1>6, <1>7, <1>8, SumsNat DEF Charged

\* A call adds its usage, once or twice, to what was incurred and once to what is owed.
LEMMA CallKeepsCharged ==
    ASSUME TypeOK, TypeOK', Charged, NEW r \in Req, CallModal(r)
    PROVE  Charged'
<1>1. PICK usage \in Cost, calls \in {1, 2} :
        /\ Run(req[r].user, calls, usage)
        /\ req' = [req EXCEPT ![r] = [@ EXCEPT !.pc = "wait", !.usage = usage]]
    BY DEF CallModal
<1>2. req[r].pc = "call" /\ recorded' = recorded
    BY DEF CallModal, At, Unrecorded
<1>3. req[r] \in Request /\ usage \in Nat
    BY <1>2, SlotMoves, InvocationsAssumption DEF Idle, Cost
<1> DEFINE q == [req[r] EXCEPT !.pc = "wait", !.usage = usage]
<1> PICK u0 \in User : u0 = req[r].user
    BY <1>3 DEF Request
<1>4. q.pc = "wait" /\ q.usage = usage /\ q.user = u0 /\ u0 \in User
    BY <1>3 DEF Request
<1>5. req'[r] = q /\ \A s \in Req \ {r} : req'[s] = req[s]
    BY <1>1 DEF TypeOK
<1> HIDE DEF q
<1>6. Recordable(u0)' = Recordable(u0) \cup {r} /\ r \notin Recordable(u0)
    BY <1>2, <1>4, <1>5 DEF Recordable
<1>7. \A u \in User : u # u0 => Recordable(u)' = Recordable(u) /\ r \notin Recordable(u)
    BY <1>2, <1>4, <1>5 DEF Recordable
<1>8. \A s \in Req \ {r} : Usage'[s] = Usage[s]
    BY <1>5 DEF Usage
<1>9. Usage'[r] = usage
    BY <1>4, <1>5 DEF Usage
<1>10. ASSUME NEW u \in User
       PROVE  /\ Total(u)' = Total(u)
              /\ Sum(Usage', Recordable(u)) = Owed(u)
              /\ Owed(u)' = Sum(Usage', Recordable(u)')
    <2>1. \A s \in Recordable(u) : Usage'[s] = Usage[s]
        BY <1>6, <1>7, <1>8, RecordableFinite
    <2>2. Sum(Usage', Recordable(u)) = Sum(Usage, Recordable(u))
        BY <2>1, RecordableFinite, SumAgree
    <2> QED BY <1>2, <2>2, NextSums DEF Total, Owed
<1>11. Owed(u0)' = usage + Owed(u0)
    <2> DEFINE R == Recordable(u0)'
    <2>1. IsFiniteSet(R) /\ r \in R /\ R \ {r} = Recordable(u0)
        BY <1>6, RecordableFinite, FS_AddElement
    <2>2. \A s \in R : Usage'[s] \in Nat
        BY <1>3, <1>4, <1>6, <1>8, <1>9, UsageNat, RecordableFinite
    <2> HIDE DEF R
    <2>3. Sum(Usage', R) = Usage'[r] + Sum(Usage', R \ {r})
        BY <2>1, <2>2, SumRemove
    <2> QED BY <1>4, <1>9, <1>10, <2>1, <2>3 DEF R
<1>12. incurred'[u0] = incurred[u0] + calls * usage
        /\ \A u \in User : u # u0 => incurred'[u] = incurred[u]
    BY <1>1, <1>4 DEF Run, TypeOK
<1>13. calls * usage >= usage /\ calls * usage \in Nat
    BY <1>3
<1> SUFFICES ASSUME NEW u \in User PROVE Total(u)' + Owed(u)' <= incurred'[u]
    BY DEF Charged
<1>14. CASE u = u0
    <2>1. Total(u) + Owed(u) <= incurred[u]
        BY DEF Charged
    <2>2. Total(u) \in Nat /\ Owed(u) \in Nat /\ incurred[u] \in Nat
        BY SumsNat
    <2>3. /\ Total(u)' = Total(u) /\ Owed(u)' = usage + Owed(u)
          /\ incurred'[u] = incurred[u] + calls * usage
        BY <1>10, <1>11, <1>12, <1>14
    <2> QED BY <1>3, <1>13, <2>1, <2>2, <2>3
<1>15. CASE u # u0
    <2>1. Owed(u)' = Owed(u)
        BY <1>7, <1>10, <1>15
    <2> QED BY <1>10, <1>12, <1>15, <2>1 DEF Charged
<1> QED BY <1>14, <1>15

\* Recording moves a request's usage from what is owed to what is recorded.
LEMMA RecordKeepsCharged ==
    ASSUME TypeOK, TypeOK', Charged, NEW r \in Req, Record(r)
    PROVE  Charged'
<1>1. req[r].pc = "record" /\ incurred' = incurred
    BY DEF Record, At
<1>2. req[r] \in Request
    BY <1>1, SlotMoves DEF Idle
<1>3. PICK u0 \in User, m0 \in Month, n \in Nat :
        u0 = req[r].user /\ m0 = req[r].since /\ n = req[r].usage
    BY <1>2, InvocationsAssumption DEF Request, Cost
<1>4. req'[r] = Idle /\ \A s \in Req \ {r} : req'[s] = req[s]
    BY DEF Record, Finish, TypeOK
<1>5. \A u \in User : Recordable(u)' = Recordable(u) \ {r}
    BY <1>4 DEF Recordable, Idle
<1>6. CASE recorded' = recorded
    BY <1>1, <1>4, <1>5, <1>6, LosingKeepsCharged, RecordableFinite
<1>7. CASE recorded' = [recorded EXCEPT ![u0][m0] = @ + n]
    <2>1. r \in Recordable(u0) /\ \A u \in User : u # u0 => r \notin Recordable(u)
        BY <1>1, <1>3 DEF Recordable
    <2>2. ASSUME NEW u \in User
          PROVE  Owed(u)' = Sum(Usage, Recordable(u) \ {r})
        <3> DEFINE R == Recordable(u) \ {r}
        <3>1. Owed(u)' = Sum(Usage', R)
            BY <1>5, NextSums
        <3>2. IsFiniteSet(R) /\ \A s \in R : Usage'[s] = Usage[s]
            BY <1>4, RecordableFinite, FS_RemoveElement DEF Usage
        <3> HIDE DEF R
        <3>3. Sum(Usage', R) = Sum(Usage, R)
            BY <3>2, SumAgree
        <3> QED BY <3>1, <3>3 DEF R
    <2>3. Owed(u0) = n + Owed(u0)'
        <3>1. \A s \in Recordable(u0) : Usage[s] \in Nat
            BY <1>3, UsageNat
        <3>2. Sum(Usage, Recordable(u0)) = Usage[r] + Sum(Usage, Recordable(u0) \ {r})
            BY <2>1, <3>1, RecordableFinite, SumRemove
        <3> QED BY <1>3, <2>2, <3>2 DEF Owed, Usage
    <2>4. ASSUME NEW u \in User, u # u0
          PROVE  Owed(u)' = Owed(u) /\ Total(u)' = Total(u)
        <3>1. Recordable(u) \ {r} = Recordable(u) /\ recorded'[u] = recorded[u]
            BY <1>7, <2>1, <2>4 DEF TypeOK
        <3> QED BY <2>2, <3>1, NextSums DEF Owed, Total
    <2>5. Total(u0)' = Total(u0) + n
        <3> DEFINE f == recorded[u0]
                   h == recorded'[u0]
        <3>1. h[m0] = f[m0] + n
            BY <1>3, <1>7 DEF TypeOK
        <3>2. \A m \in Month : m # m0 => h[m] = f[m]
            BY <1>3, <1>7 DEF TypeOK
        <3>3. \A m \in Month : f[m] \in Nat /\ h[m] \in Nat
            BY <1>3 DEF TypeOK
        <3>4. Total(u0)' = Sum(h, Month)
            BY NextSums
        <3> HIDE DEF f, h
        <3>5. /\ Sum(f, Month) = f[m0] + Sum(f, Month \ {m0})
              /\ Sum(h, Month) = h[m0] + Sum(h, Month \ {m0})
            BY <1>3, <3>3, MonthFinite, SumRemove
        <3>6. IsFiniteSet(Month \ {m0})
            BY MonthFinite, FS_RemoveElement
        <3>7. Sum(h, Month \ {m0}) = Sum(f, Month \ {m0}) /\ Sum(f, Month \ {m0}) \in Nat
            BY <3>2, <3>3, <3>6, SumAgree, SumNat
        <3>8. Total(u0) = Sum(f, Month)
            BY DEF Total, f
        <3>9. f[m0] \in Nat
            BY <1>3, <3>3
        <3> QED BY <1>3, <3>1, <3>4, <3>5, <3>7, <3>8, <3>9
    <2> SUFFICES ASSUME NEW u \in User PROVE Total(u)' + Owed(u)' <= incurred'[u]
        BY DEF Charged
    <2>6. Total(u) + Owed(u) <= incurred[u] /\ incurred'[u] = incurred[u]
        BY <1>1 DEF Charged
    <2>7. Total(u) \in Nat /\ Owed(u) \in Nat /\ Owed(u)' \in Nat
        <3>1. Owed(u) \in Nat /\ Total(u) \in Nat
            BY SumsNat
        <3>2. \A s \in Recordable(u) \ {r} : Usage[s] \in Nat
            BY UsageNat
        <3>3. Sum(Usage, Recordable(u) \ {r}) \in Nat
            BY <3>2, RecordableFinite, FS_RemoveElement, SumNat
        <3> QED BY <2>2, <3>1, <3>3
    <2>8. CASE u = u0
        <3> QED BY <1>3, <2>3, <2>5, <2>6, <2>7, <2>8
    <2>9. CASE u # u0
        BY <2>4, <2>6, <2>9
    <2> QED BY <2>8, <2>9
<1> QED BY <1>3, <1>6, <1>7 DEF Record

LEMMA ChargedNext == TypeOK /\ TypeOK' /\ Charged /\ [Next]_vars => Charged'
<1> SUFFICES ASSUME TypeOK, TypeOK', Charged, [Next]_vars PROVE Charged'
    OBVIOUS
<1>1. ASSUME NEW r \in Req, NEW u \in User, NEW f \in Function, Arrive(r, u, f)
      PROVE  Charged'
    <2>1. /\ UNCHANGED <<recorded, incurred>>
          /\ req'[r].pc = "check" /\ \A s \in Req \ {r} : req'[s] = req[s]
        BY <1>1 DEF Arrive, Unrecorded, TypeOK
    <2> QED BY <2>1, LosingKeepsCharged DEF Recordable
<1>2. ASSUME NEW r \in Req, CheckLimit(r) \/ LoadFunction(r) \/ CallRefused(r)
      PROVE  Charged'
    <2>1. /\ UNCHANGED <<recorded, incurred>>
          /\ \A s \in Req \ {r} : req'[s] = req[s]
          /\ req'[r] = Idle \/ req'[r] = [req[r] EXCEPT !.pc = "load"]
                \/ req'[r] = [req[r] EXCEPT !.pc = "call"]
          /\ req[r] # Idle
        BY <1>2 DEF CheckLimit, LoadFunction, CallRefused, Unrecorded, Goto, Finish, TypeOK,
                    At, Idle
    <2>2. req[r] \in Request
        BY <2>1, SlotMoves
    <2>3. req'[r].pc \notin {"wait", "record"}
        BY <2>1, <2>2 DEF Idle, Request
    <2> QED BY <2>1, <2>3, LosingKeepsCharged DEF Recordable
<1>3. ASSUME NEW r \in Req, OutputsArrive(r) PROVE Charged'
    <2>1. /\ UNCHANGED <<recorded, incurred>> /\ req[r].pc = "wait"
          /\ req'[r] = [req[r] EXCEPT !.pc = "record"]
          /\ \A s \in Req \ {r} : req'[s] = req[s]
        BY <1>3 DEF OutputsArrive, Unrecorded, Goto, At, TypeOK
    <2>2. req[r] \in Request
        BY <2>1, SlotMoves DEF Idle
    <2>3. /\ req'[r].user = req[r].user /\ req'[r].usage = req[r].usage
          /\ req'[r].pc = "record"
        BY <2>1, <2>2 DEF Request
    <2> QED BY <2>1, <2>3, LosingKeepsCharged DEF Recordable
<1>4. CASE Restart
    BY <1>4, LosingKeepsCharged DEF Restart, Unrecorded, Recordable, Idle
<1>5. CASE NextMonth \/ (\E f \in Function : DeleteFunction(f)) \/ UNCHANGED vars
    BY <1>5, LosingKeepsCharged DEF NextMonth, DeleteFunction, vars, Recordable
<1>6. ASSUME NEW r \in Req, CallModal(r) PROVE Charged'
    BY <1>6, CallKeepsCharged
<1>7. ASSUME NEW r \in Req, Record(r) PROVE Charged'
    BY <1>7, RecordKeepsCharged
<1> QED BY <1>1, <1>2, <1>3, <1>4, <1>5, <1>6, <1>7 DEF Next

LEMMA ChargedInit == Init => Charged
<1> SUFFICES ASSUME Init, NEW u \in User
             PROVE  Total(u) = 0 /\ Owed(u) = 0 /\ incurred[u] = 0
    BY DEF Charged
<1>1. Recordable(u) = {}
    BY DEF Init, Recordable, Idle
<1>2. \A m \in Month : recorded[u][m] = 0
    BY DEF Init
<1> QED BY <1>1, <1>2, MonthFinite, SumEmpty, SumZero DEF Init, Total, Owed

\* No user's recorded usage, over all months and with what is about to be recorded,
\* ever exceeds what the calls Modal ran for the user came to: whatever is retried,
\* refused, deleted or forgotten by a restart.
THEOREM ChargeTheorem == Spec => []NeverOvercharged
<1>1. Inv => TypeOK
    BY DEF Inv
<1> QED BY <1>1, InvInit, InvAlways, ChargedInit, ChargedNext, ChargedIsNeverOvercharged, PTL
        DEF Spec
=============================================================================
