------------------------ MODULE Authentication_proof ------------------------
(***************************************************************************)
(* Proofs about SignUp, for any identities and any number of requests, and *)
(* about Authentication, which puts the token cache in front of it, for    *)
(* any tokens and times.                                                   *)
(***************************************************************************)
EXTENDS Authentication, TLAPS

\* What makes OneInserter inductive: types.
Inv == TypeOK /\ OneInserter

LEMMA InvInit == Init => Inv
BY DEF Init, Inv, TypeOK, OneInserter, Inserting, At, Idle, Request

LEMMA InvNext == Inv /\ [Next]_vars => Inv'
<1> SUFFICES ASSUME Inv, [Next]_vars PROVE Inv'
    OBVIOUS
<1> USE DEF Inv, TypeOK, OneInserter, Inserting, At, Idle, Request
<1>1. ASSUME NEW r \in Req, NEW i \in Identity, Lookup(r, i) PROVE Inv'
    BY <1>1 DEF Lookup
<1>2. ASSUME NEW r \in Req, Flush(r) PROVE Inv'
    BY <1>2 DEF Flush, Goto, Finish
<1>3. ASSUME NEW r \in Req, AddUserToGroup(r) PROVE Inv'
    BY <1>3 DEF AddUserToGroup, Goto, Finish, Answered
<1>4. ASSUME NEW r \in Req, Commit(r) PROVE Inv'
    BY <1>4 DEF Commit, Goto, Finish
<1>5. ASSUME NEW r \in Req, Serve(r) PROVE Inv'
    BY <1>5 DEF Serve, Finish
<1>6. CASE Restart
    BY <1>6 DEF Restart
<1>7. CASE UNCHANGED vars
    BY <1>7 DEF vars
<1> QED BY <1>1, <1>2, <1>3, <1>4, <1>5, <1>6, <1>7 DEF Next, Advance

\* A step of a request is a step of the promise for its identity, or none. A
\* request that asks for membership holds the insert: no account is there yet.
LEMMA StepKeepsPromise == Inv /\ [Next]_vars => [Promise!Next]_Stage
<1> SUFFICES ASSUME Inv, [Next]_vars PROVE [Promise!Next]_Stage
    OBVIOUS
<1> USE DEF Inv, TypeOK, At, Request, Idle, Stage,
            Promise!Next, Promise!Move, Promise!Join, Promise!Register, Promise!RegisterDeclined
<1>1. ASSUME NEW r \in Req, NEW i \in Identity, Lookup(r, i) PROVE UNCHANGED Stage
    BY <1>1 DEF Lookup
<1>2. ASSUME NEW r \in Req, Flush(r) \/ Serve(r) PROVE UNCHANGED Stage
    BY <1>2 DEF Flush, Serve
<1>3. ASSUME NEW r \in Req, AddUserToGroup(r) PROVE [Promise!Next]_Stage
    <2> DEFINE i == req[r].identity
    <2>1. i \in Identity /\ accounts' = accounts /\ group' \in {group, group \cup {i}}
        BY <1>3 DEF AddUserToGroup, Answered
    <2>2. i \notin accounts
        BY <1>3, <2>1 DEF AddUserToGroup, OneInserter, Inserting
    <2>3. CASE group' = group \/ i \in group
        BY <2>1, <2>3
    <2>4. CASE group' = group \cup {i} /\ i \notin group
        <3>1. Promise!Join(i)
            BY <2>1, <2>2, <2>4
        <3> QED BY <2>1, <3>1
    <2> QED BY <2>1, <2>3, <2>4
<1>4. ASSUME NEW r \in Req, Commit(r) PROVE [Promise!Next]_Stage
    <2> DEFINE i == req[r].identity
    <2>1. i \in Identity /\ group' = group /\ accounts' \in {accounts, accounts \cup {i}}
        BY <1>4 DEF Commit
    <2>2. CASE accounts' = accounts
        BY <2>1, <2>2
    <2>3. CASE accounts' = accounts \cup {i} /\ i \in group
        <3>1. i \notin accounts => Promise!Register(i)
            BY <2>1, <2>3
        <3> QED BY <2>1, <2>3, <3>1
    <2>4. CASE accounts' = accounts \cup {i} /\ i \notin group
        <3>1. i \notin accounts => Promise!RegisterDeclined(i)
            BY <2>1, <2>4
        <3> QED BY <2>1, <2>4, <3>1
    <2> QED BY <2>1, <2>2, <2>3, <2>4
<1>5. CASE Restart \/ UNCHANGED vars
    BY <1>5 DEF Restart, vars
<1> QED BY <1>1, <1>2, <1>3, <1>4, <1>5 DEF Next, Advance

\* The first state of every request's way is the promise's.
LEMMA InitKeepsPromise == Init => Promise!Init
BY DEF Init, Promise!Init, Stage

\* Signing up, whatever overlaps, fails or restarts, implements its promise.
THEOREM Implements == Spec => KeepsPromise
BY InvInit, InvNext, StepKeepsPromise, InitKeepsPromise, PTL
   DEF Spec, KeepsPromise, Promise!Spec

-----------------------------------------------------------------------------
(* The cache *)

Types ==
    /\ clock \in 0..Horizon
    /\ revoked \in [Token -> 0..Never]
    /\ cache \subseteq Token
    /\ DOMAIN expires \subseteq Token /\ \A t \in DOMAIN expires : expires[t] \in Nat
    /\ auth \in [Req -> AuthType \cup Evicting \cup {Unasked}]

\* A time says active no longer than the cache's time after it was stored,
\* which was no later than MaxCall after Globus said so.
EntriesFresh ==
    \A t \in DOMAIN expires :
        expires[t] <= clock + TTL /\ expires[t] <= revoked[t] + TTL + MaxCall

Carrying == {"answered", "storing", "evicting", "put"}

AnswersFresh ==
    \A r \in Req : auth[r].pc \in Carrying =>
        auth[r].at <= clock /\ clock <= auth[r].at + MaxCall
            /\ auth[r].at <= revoked[auth[r].token]

Past ==
    \A r \in Req : auth[r].pc = "honoured" => auth[r].at <= clock

AuthInv == Types /\ EntriesFresh /\ AnswersFresh /\ Past /\ StalenessBounded

LEMMA AuthInvInit == AuthInit => AuthInv
BY AuthAssumption
   DEF AuthAssumption, AuthInit, AuthInv, Types, EntriesFresh, AnswersFresh, Past, StalenessBounded,
       Never, Unasked, Carrying

\* A thread that decides keeps the invariant if what it relies on is fresh, or if
\* it knows that it is not.
LEMMA DecidedKeeps ==
    ASSUME AuthInv, NEW r \in Req, NEW t \in Token, NEW pc \in {"honoured", "unchecked"},
           pc = "honoured" => clock < revoked[t] + TTL + MaxCall,
           auth' = [auth EXCEPT ![r] = Decided(t, pc)],
           UNCHANGED <<clock, revoked>>
    PROVE  /\ auth' \in [Req -> AuthType \cup Evicting \cup {Unasked}]
           /\ AnswersFresh' /\ Past' /\ StalenessBounded'
<1> USE DEF AuthInv, Types
<1>1. Decided(t, pc) \in AuthType \cup {Unasked}
    BY DEF Decided, AuthType, Unasked
<1>2. Decided(t, pc).pc \in {"honoured", "unchecked", "idle"}
    BY DEF Decided, Unasked
<1>3. Decided(t, pc).pc = "honoured" =>
        pc = "honoured" /\ Decided(t, pc).at = clock /\ Decided(t, pc).token = t
    BY DEF Decided, Unasked
<1>4. /\ auth'[r] = Decided(t, pc)
      /\ \A q \in Req : q # r => auth'[q] = auth[q]
    OBVIOUS
<1> HIDE DEF AuthInv, Types
<1>5. auth' \in [Req -> AuthType \cup Evicting \cup {Unasked}]
    BY <1>1 DEF AuthInv, Types
<1>6. AnswersFresh'
    BY <1>2, <1>4 DEF AuthInv, AnswersFresh, Carrying
<1>7. Past'
    BY <1>3, <1>4 DEF AuthInv, Types, Past
<1>8. StalenessBounded'
    BY <1>3, <1>4 DEF AuthInv, StalenessBounded
<1> QED BY <1>5, <1>6, <1>7, <1>8

\* A thread that takes one of the steps of a store goes on with the answer it has.
LEMMA CarryingKeeps ==
    ASSUME AuthInv, NEW r \in Req, auth[r].pc \in Carrying,
           NEW next \in AuthType \cup Evicting,
           next.pc \in Carrying, next.token = auth[r].token, next.at = auth[r].at,
           auth' = [auth EXCEPT ![r] = next],
           UNCHANGED <<clock, revoked>>
    PROVE  /\ auth' \in [Req -> AuthType \cup Evicting \cup {Unasked}]
           /\ AnswersFresh' /\ Past' /\ StalenessBounded'
<1>1. /\ auth' \in [Req -> AuthType \cup Evicting \cup {Unasked}]
      /\ auth'[r] = next /\ \A q \in Req : q # r => auth'[q] = auth[q]
    BY DEF AuthInv, Types
<1>2. AnswersFresh'
    BY <1>1 DEF AuthInv, AnswersFresh
<1>3. Past' /\ StalenessBounded'
    BY <1>1 DEF AuthInv, Past, StalenessBounded, Carrying
<1> QED BY <1>1, <1>2, <1>3

\* So does the invariant when a thread gives up.
LEMMA GivingUpKeeps ==
    ASSUME AuthInv, NEW r \in Req, auth' = [auth EXCEPT ![r] = Unasked],
           UNCHANGED <<clock, revoked>>
    PROVE  /\ auth' \in [Req -> AuthType \cup Evicting \cup {Unasked}]
           /\ AnswersFresh' /\ Past' /\ StalenessBounded'
<1>1. /\ auth' \in [Req -> AuthType \cup Evicting \cup {Unasked}]
      /\ auth'[r] = Unasked /\ \A q \in Req : q # r => auth'[q] = auth[q]
    BY DEF AuthInv, Types
<1> QED BY <1>1 DEF AuthInv, AnswersFresh, Past, StalenessBounded, Unasked, Carrying

LEMMA AuthInvNext == AuthInv /\ [AuthNext]_allVars => AuthInv'
<1> SUFFICES ASSUME AuthInv, [AuthNext]_allVars PROVE AuthInv'
    OBVIOUS
<1> USE AuthAssumption DEF AuthAssumption
<1>a. /\ Types /\ EntriesFresh /\ AnswersFresh /\ Past /\ StalenessBounded
      /\ clock \in Nat /\ \A t \in Token : revoked[t] \in Nat
    BY DEF AuthInv, Types, Never
<1>1. ASSUME NEW r \in Req, NEW t \in Token, Present(r, t) PROVE AuthInv'
    <2>1. UNCHANGED <<clock, revoked, cache>>
        BY <1>1 DEF Present
    <2>2. CASE Hit(r, t)
        <3> DEFINE pc == IF Lost(t) THEN "unchecked" ELSE "honoured"
        <3>1. pc = "honoured" => clock < revoked[t] + TTL + MaxCall
            <4>1. CASE t \in DOMAIN expires
                <5>1. clock < expires[t] /\ expires[t] <= revoked[t] + TTL + MaxCall /\ expires[t] \in Nat
                    BY <1>a, <2>2, <4>1 DEF Hit, Fresh, EntriesFresh, Types
                <5> QED BY <1>a, <5>1
            <4>2. CASE t \notin DOMAIN expires /\ ~Lost(t)
                <5>1. PICK q \in Req : auth[q].pc = "put" /\ auth[q].token = t
                    BY <2>2, <4>2 DEF Hit, Fresh, Lost, Stamping
                <5>2. /\ auth[q].at \in Nat /\ clock <= auth[q].at + MaxCall
                      /\ auth[q].at <= revoked[t]
                    BY <1>a, <5>1 DEF AnswersFresh, Carrying, Types, AuthType, Evicting, Unasked
                <5> QED BY <1>a, <5>2
            <4> QED BY <4>1, <4>2
        <3>2. pc \in {"honoured", "unchecked"}
            OBVIOUS
        <3>3. auth' = [auth EXCEPT ![r] = Decided(t, pc)] /\ UNCHANGED expires
            BY <2>2 DEF Hit
        <3> HIDE DEF pc
        <3>4. /\ auth' \in [Req -> AuthType \cup Evicting \cup {Unasked}]
              /\ AnswersFresh' /\ Past' /\ StalenessBounded'
            BY <2>1, <3>1, <3>2, <3>3, DecidedKeeps
        <3>5. EntriesFresh' /\ Types'
            BY <1>a, <2>1, <3>3, <3>4 DEF EntriesFresh, Types
        <3> QED BY <3>4, <3>5 DEF AuthInv
    <2>3. CASE Miss(r, t)
        <3> DEFINE asked == [pc |-> "asking", token |-> t, at |-> 0]
        <3>1. asked \in AuthType
            BY DEF AuthType
        <3>2. /\ UNCHANGED expires
              /\ auth' \in [Req -> AuthType \cup Evicting \cup {Unasked}]
              /\ auth'[r] = asked /\ \A q \in Req : q # r => auth'[q] = auth[q]
            BY <1>a, <2>3, <3>1 DEF Miss, Types
        <3>3. Types' /\ EntriesFresh'
            BY <1>a, <2>1, <3>2 DEF Types, EntriesFresh
        <3>4. AnswersFresh' /\ Past' /\ StalenessBounded'
            BY <1>a, <2>1, <3>2 DEF AnswersFresh, Past, StalenessBounded, Carrying
        <3> QED BY <3>3, <3>4 DEF AuthInv
    <2> QED BY <1>1, <2>2, <2>3 DEF Present
<1>2. ASSUME NEW r \in Req, Introspect(r) PROVE AuthInv'
    <2>1. UNCHANGED <<clock, revoked, cache, expires>> /\ auth[r].pc = "asking"
        BY <1>2 DEF Introspect
    <2>2. EntriesFresh'
        BY <1>a, <2>1 DEF EntriesFresh
    <2>3. CASE /\ clock < revoked[auth[r].token]
               /\ auth' = [auth EXCEPT ![r] = [@ EXCEPT !.pc = "answered", !.at = clock]]
        <3>1. auth[r] \in AuthType
            BY <1>a, <2>1 DEF Types, Unasked, Evicting
        <3>2. /\ auth'[r] \in AuthType /\ auth'[r].pc = "answered"
              /\ auth'[r].at = clock /\ auth'[r].token = auth[r].token
            BY <1>a, <2>3, <3>1 DEF Types, AuthType
        <3>3. \A q \in Req : q # r => auth'[q] = auth[q]
            BY <1>a, <2>3 DEF Types
        <3>4. Types'
            BY <1>a, <2>1, <2>3, <3>2, <3>3 DEF Types
        <3>5. auth[r].token \in Token
            BY <3>1 DEF AuthType
        <3>6. AnswersFresh'
            BY <1>a, <2>1, <2>3, <3>2, <3>3, <3>5 DEF AnswersFresh
        <3>7. Past' /\ StalenessBounded'
            BY <1>a, <2>1, <3>2, <3>3 DEF Past, StalenessBounded
        <3> QED BY <2>2, <3>4, <3>6, <3>7 DEF AuthInv
    <2>4. CASE auth' = [auth EXCEPT ![r] = Unasked]
        BY <1>a, <2>1, <2>2, <2>4, GivingUpKeeps DEF Types, AuthInv
    <2> QED BY <1>2, <2>3, <2>4 DEF Introspect, Active
<1>3. ASSUME NEW r \in Req, NEW u \in Token, Evict(r, u) PROVE AuthInv'
    <2> DEFINE next == [pc |-> "evicting", token |-> auth[r].token, at |-> auth[r].at, victim |-> u]
    <2>1. /\ UNCHANGED <<clock, revoked, expires>> /\ cache' \subseteq cache
          /\ auth[r].pc \in {"answered", "storing"} /\ auth' = [auth EXCEPT ![r] = next]
        BY <1>3 DEF Evict
    <2>2. next \in Evicting
        BY <1>a, <2>1 DEF Types, AuthType, Evicting, Unasked
    <2>3. /\ auth' \in [Req -> AuthType \cup Evicting \cup {Unasked}]
          /\ AnswersFresh' /\ Past' /\ StalenessBounded'
        BY <2>1, <2>2, CarryingKeeps DEF Carrying
    <2> QED BY <1>a, <2>1, <2>3 DEF AuthInv, Types, EntriesFresh
<1>4. ASSUME NEW r \in Req, Unlink(r) PROVE AuthInv'
    <2> DEFINE next == [pc |-> "storing", token |-> auth[r].token, at |-> auth[r].at]
    <2>1. /\ UNCHANGED <<clock, revoked, cache>> /\ auth[r].pc = "evicting"
          /\ DOMAIN expires' \subseteq DOMAIN expires
          /\ \A t \in DOMAIN expires' : expires'[t] = expires[t]
          /\ \/ auth' = [auth EXCEPT ![r] = next]
             \/ auth' = [auth EXCEPT ![r] = Unasked]
        BY <1>4 DEF Unlink, Restrict
    <2>2. EntriesFresh'
        BY <1>a, <2>1 DEF EntriesFresh
    <2>3. next \in AuthType
        BY <1>a, <2>1 DEF Types, AuthType, Evicting, Unasked
    <2>4. /\ auth' \in [Req -> AuthType \cup Evicting \cup {Unasked}]
          /\ AnswersFresh' /\ Past' /\ StalenessBounded'
        <3>1. CASE auth' = [auth EXCEPT ![r] = next]
            BY <2>1, <2>3, <3>1, CarryingKeeps DEF Carrying
        <3>2. CASE auth' = [auth EXCEPT ![r] = Unasked]
            BY <2>1, <3>2, GivingUpKeeps
        <3> QED BY <2>1, <3>1, <3>2
    <2> QED BY <1>a, <2>1, <2>2, <2>4 DEF AuthInv, Types
<1>5. ASSUME NEW r \in Req, Put(r) PROVE AuthInv'
    <2> DEFINE next == [auth[r] EXCEPT !.pc = "put"]
    <2>1. /\ UNCHANGED <<clock, revoked, expires>> /\ cache' = cache \cup {auth[r].token}
          /\ auth[r].pc \in {"answered", "storing"} /\ auth' = [auth EXCEPT ![r] = next]
        BY <1>5 DEF Put
    <2>2. auth[r] \in AuthType
        BY <1>a, <2>1 DEF Types, Evicting, Unasked
    <2>3. /\ next \in AuthType /\ next.pc = "put" /\ next.token = auth[r].token
          /\ next.at = auth[r].at /\ auth[r].token \in Token
        BY <2>2 DEF AuthType
    <2> HIDE DEF next
    <2>4. /\ auth' \in [Req -> AuthType \cup Evicting \cup {Unasked}]
          /\ AnswersFresh' /\ Past' /\ StalenessBounded'
        BY <2>1, <2>3, CarryingKeeps DEF Carrying
    <2> QED BY <1>a, <2>1, <2>3, <2>4 DEF AuthInv, Types, EntriesFresh
<1>6. ASSUME NEW r \in Req, Stamp(r) PROVE AuthInv'
    <2> DEFINE t == auth[r].token
    <2>1. UNCHANGED <<clock, revoked, cache>> /\ auth[r].pc = "put"
        BY <1>6 DEF Stamp
    <2>2. /\ t \in Token /\ auth[r].at \in Nat /\ auth[r].at <= clock
          /\ clock <= auth[r].at + MaxCall /\ auth[r].at <= revoked[t]
        BY <1>a, <2>1 DEF Types, AuthType, Evicting, Unasked, AnswersFresh, Carrying
    <2>3. CASE /\ expires' = [u \in DOMAIN expires \cup {t} |->
                                IF u = t THEN clock + TTL ELSE expires[u]]
               /\ auth' = [auth EXCEPT ![r] = Decided(t, "honoured")]
        <3>1. clock < revoked[t] + TTL + MaxCall /\ clock + TTL <= revoked[t] + TTL + MaxCall
            BY <1>a, <2>2
        <3>2. /\ auth' \in [Req -> AuthType \cup Evicting \cup {Unasked}]
              /\ AnswersFresh' /\ Past' /\ StalenessBounded'
            BY <2>1, <2>2, <2>3, <3>1, DecidedKeeps
        <3>3. EntriesFresh'
            BY <1>a, <2>1, <2>2, <2>3, <3>1 DEF EntriesFresh
        <3>4. DOMAIN expires' \subseteq Token /\ \A u \in DOMAIN expires' : expires'[u] \in Nat
            BY <1>a, <2>2, <2>3 DEF Types
        <3> QED BY <1>a, <2>1, <3>2, <3>3, <3>4 DEF AuthInv, Types
    <2>4. CASE auth' = [auth EXCEPT ![r] = Unasked] /\ UNCHANGED expires
        BY <1>a, <2>1, <2>4, GivingUpKeeps DEF AuthInv, Types, EntriesFresh
    <2> QED BY <1>6, <2>3, <2>4 DEF Stamp
<1>7. ASSUME NEW r \in Req, Enter(r) PROVE AuthInv'
    <2>1. UNCHANGED <<clock, revoked, cache, expires>> /\ auth' = [auth EXCEPT ![r] = Unasked]
        BY <1>7 DEF Enter
    <2> QED BY <1>a, <2>1, GivingUpKeeps DEF AuthInv, Types, EntriesFresh
<1>8. ASSUME NEW t \in Token, Revoke(t) PROVE AuthInv'
    <2>1. UNCHANGED <<clock, cache, expires, auth>> /\ revoked' = [revoked EXCEPT ![t] = clock]
        BY <1>8 DEF Revoke
    <2>2. \A u \in Token : revoked'[u] = IF u = t THEN clock ELSE revoked[u]
        BY <1>a, <2>1 DEF Types
    <2>3. Types'
        BY <1>a, <2>1 DEF Types, Never
    <2>4. EntriesFresh'
        BY <1>a, <2>1, <2>2 DEF EntriesFresh, Types
    <2>5. Past'
        BY <1>a, <2>1 DEF Past
    <2>6. \A q \in Req : auth[q].pc \in Carrying \cup {"honoured"} =>
                auth[q].token \in Token /\ auth[q].at \in Nat
        BY <1>a DEF Types, AuthType, Evicting, Unasked, Carrying
    <2>7. AnswersFresh'
        BY <1>a, <2>1, <2>2, <2>6 DEF AnswersFresh
    <2>8. StalenessBounded'
        BY <1>a, <2>1, <2>2, <2>6 DEF StalenessBounded, Past
    <2> QED BY <2>3, <2>4, <2>5, <2>7, <2>8 DEF AuthInv
<1>9. CASE Tick
    <2>1. /\ UNCHANGED <<revoked, cache, expires, auth>> /\ clock' = clock + 1 /\ clock' \in 0..Horizon
          /\ Storing = {} /\ \A r \in Req : auth[r].pc = "answered" => clock < auth[r].at + MaxCall
        BY <1>9, <1>a DEF Tick, Types
    <2>2. \A r \in Req : auth[r].pc \in Carrying \cup {"honoured"} => auth[r].at \in Nat
        BY <1>a DEF Types, AuthType, Evicting, Unasked, Carrying
    <2>3. Types' /\ StalenessBounded'
        BY <1>a, <2>1 DEF Types, StalenessBounded
    <2>4. EntriesFresh'
        BY <1>a, <2>1 DEF EntriesFresh, Types
    <2>5. AnswersFresh' /\ Past'
        BY <1>a, <2>1, <2>2 DEF AnswersFresh, Past, Storing, Carrying
    <2> QED BY <2>3, <2>4, <2>5 DEF AuthInv
<1>10. CASE RestartAll
    <2>1. /\ UNCHANGED <<clock, revoked>> /\ cache' = {} /\ DOMAIN expires' = {}
          /\ auth' = [r \in Req |-> Unasked]
        BY <1>10 DEF RestartAll
    <2> QED BY <1>a, <2>1
            DEF AuthInv, Types, EntriesFresh, AnswersFresh, Past, StalenessBounded, Carrying, Unasked
<1>11. CASE UNCHANGED authVars
    BY <1>a, <1>11
       DEF authVars, AuthInv, Types, EntriesFresh, AnswersFresh, Past, StalenessBounded
<1> QED
    BY <1>1, <1>2, <1>3, <1>4, <1>5, <1>6, <1>7, <1>8, <1>9, <1>10, <1>11
    DEF AuthNext, allVars

\* No request that finds an entry with its time, or asks Globus, is let in with a
\* token inactive for longer than the cache's time and one call: for any number
\* of tokens and threads.
THEOREM StalenessTheorem == AuthSpec => []StalenessBounded
<1>1. AuthInv => StalenessBounded
    BY DEF AuthInv
<1> QED BY AuthInvInit, AuthInvNext, <1>1, PTL DEF AuthSpec

-----------------------------------------------------------------------------
(* Stores that do not overlap *)

\* A thread that evicts has taken the value before it takes the time.
TakenFirst == \A r \in Req : auth[r].pc = "evicting" => auth[r].victim \notin cache

TimesInv == NoneLost /\ TakenFirst

LEMMA TimesInit == AuthInit => TimesInv
BY DEF AuthInit, TimesInv, NoneLost, Lost, TakenFirst, Unasked

\* Only a store by another thread can put the value back in between.
LEMMA TimesNext ==
    AuthInv /\ TimesInv /\ StoresApart /\ StoresApart' /\ [AuthNext]_allVars => TimesInv'
<1> SUFFICES ASSUME AuthInv, TimesInv, StoresApart, StoresApart', [AuthNext]_allVars
             PROVE  TimesInv'
    OBVIOUS
<1>a. auth \in [Req -> AuthType \cup Evicting \cup {Unasked}]
    BY DEF AuthInv, Types
<1>b. \A t \in Token : t \in cache \ DOMAIN expires => \E q \in Req : auth[q].pc = "put" /\ auth[q].token = t
    BY DEF TimesInv, NoneLost, Lost, Stamping
\* A step that takes a thread from one state to another, neither of them in a
\* store, and leaves values and times alone.
<1>1. ASSUME NEW r \in Req, cache' = cache, DOMAIN expires' = DOMAIN expires,
             NEW to, auth' = [auth EXCEPT ![r] = to],
             to.pc \notin {"evicting"}, auth[r].pc # "put"
      PROVE  TimesInv'
    <2>1. auth'[r] = to /\ \A q \in Req : q # r => auth'[q] = auth[q]
        BY <1>a, <1>1
    <2>2. NoneLost'
        BY <1>b, <1>1, <2>1 DEF NoneLost, Lost, Stamping
    <2>3. TakenFirst'
        BY <1>1, <2>1 DEF TimesInv, TakenFirst
    <2> QED BY <2>2, <2>3 DEF TimesInv
<1>2. ASSUME NEW r \in Req, NEW t \in Token, Present(r, t) PROVE TimesInv'
    <2>1. cache' = cache /\ UNCHANGED expires /\ auth[r].pc # "put"
        BY <1>2 DEF Present, Hit, Miss, Unasked
    <2>2. CASE Hit(r, t)
        <3>1. \A pc \in {"honoured", "unchecked"} : Decided(t, pc).pc # "evicting"
            BY DEF Decided, Unasked
        <3> QED BY <1>1, <2>1, <2>2, <3>1 DEF Hit
    <2>3. CASE Miss(r, t)
        BY <1>1, <2>1, <2>3 DEF Miss
    <2> QED BY <1>2, <2>2, <2>3 DEF Present
<1>3. ASSUME NEW r \in Req, Introspect(r) PROVE TimesInv'
    <2>1. cache' = cache /\ UNCHANGED expires /\ auth[r].pc # "put"
        BY <1>3 DEF Introspect
    <2>2. CASE auth' = [auth EXCEPT ![r] = [@ EXCEPT !.pc = "answered", !.at = clock]]
        <3>1. auth[r] \in AuthType
            BY <1>3, <1>a DEF Introspect, Evicting, Unasked
        <3>2. [auth[r] EXCEPT !.pc = "answered", !.at = clock].pc # "evicting"
            BY <3>1 DEF AuthType
        <3> QED BY <1>1, <2>1, <2>2, <3>2
    <2>3. CASE auth' = [auth EXCEPT ![r] = Unasked]
        BY <1>1, <2>1, <2>3 DEF Unasked
    <2> QED BY <1>3, <2>2, <2>3 DEF Introspect
<1>4. ASSUME NEW r \in Req, NEW u \in Token, Evict(r, u) PROVE TimesInv'
    <2>1. /\ cache' = cache \ {u} /\ UNCHANGED expires /\ auth[r].pc # "put"
          /\ auth'[r].pc = "evicting" /\ auth'[r].victim = u
          /\ \A q \in Req : q # r => auth'[q] = auth[q]
        BY <1>4, <1>a DEF Evict
    <2>2. NoneLost'
        BY <1>b, <2>1 DEF NoneLost, Lost, Stamping
    <2>3. TakenFirst'
        BY <2>1 DEF TimesInv, TakenFirst
    <2> QED BY <2>2, <2>3 DEF TimesInv
<1>5. ASSUME NEW r \in Req, Unlink(r) PROVE TimesInv'
    <2>1. /\ cache' = cache /\ auth[r].pc = "evicting"
          /\ DOMAIN expires' = DOMAIN expires \ {auth[r].victim}
          /\ auth'[r].pc \notin {"evicting", "put"} /\ \A q \in Req : q # r => auth'[q] = auth[q]
        BY <1>5, <1>a DEF Unlink, Restrict, Unasked
    <2>2. NoneLost'
        BY <1>b, <2>1 DEF TimesInv, TakenFirst, NoneLost, Lost, Stamping
    <2>3. TakenFirst'
        BY <2>1 DEF TimesInv, TakenFirst
    <2> QED BY <2>2, <2>3 DEF TimesInv
<1>6. ASSUME NEW r \in Req, Put(r) PROVE TimesInv'
    <2>1. auth[r] \in AuthType
        BY <1>6, <1>a DEF Put, Evicting, Unasked
    <2>2. /\ cache' = cache \cup {auth[r].token} /\ UNCHANGED expires
          /\ auth'[r].pc = "put" /\ auth'[r].token = auth[r].token
          /\ \A q \in Req : q # r => auth'[q] = auth[q]
        BY <1>6, <1>a, <2>1 DEF Put, AuthType
    <2>3. NoneLost'
        BY <1>b, <2>2 DEF NoneLost, Lost, Stamping
    <2>4. \A q \in Req : auth'[q].pc # "evicting"
        BY <2>2 DEF StoresApart, Storing
    <2> QED BY <2>3, <2>4 DEF TimesInv, TakenFirst
<1>7. ASSUME NEW r \in Req, Stamp(r) PROVE TimesInv'
    <2>1. cache' = cache /\ auth[r].pc = "put" /\ Stamping(auth[r].token) = {r}
        BY <1>7 DEF Stamp, Stamping, StoresApart, Storing
    <2>2. /\ DOMAIN expires' = DOMAIN expires \cup {auth[r].token}
          /\ auth' = [auth EXCEPT ![r] = Decided(auth[r].token, "honoured")]
        BY <1>7, <2>1 DEF Stamp
    <2>3. auth'[r].pc # "evicting" /\ \A q \in Req : q # r => auth'[q] = auth[q]
        BY <1>a, <2>2 DEF Decided, Unasked
    <2>4. NoneLost'
        BY <1>b, <2>1, <2>2, <2>3 DEF NoneLost, Lost, Stamping
    <2>5. TakenFirst'
        BY <2>1, <2>3 DEF TimesInv, TakenFirst
    <2> QED BY <2>4, <2>5 DEF TimesInv
<1>8. ASSUME NEW r \in Req, Enter(r) PROVE TimesInv'
    BY <1>1, <1>8 DEF Enter, Unasked
<1>9. CASE RestartAll
    BY <1>9 DEF RestartAll, TimesInv, NoneLost, Lost, TakenFirst, Unasked
<1>10. CASE UNCHANGED <<cache, expires, auth>>
    BY <1>10 DEF TimesInv, NoneLost, Lost, Stamping, TakenFirst
<1> QED
    BY <1>2, <1>3, <1>4, <1>5, <1>6, <1>7, <1>8, <1>9, <1>10
    DEF AuthNext, allVars, authVars, Revoke, Tick

\* As long as no two threads store at once, every value in the cache has the time
\* that makes it expire.
THEOREM TimesTheorem == AuthSpec => TimesKept
<1>1. TimesInv => NoneLost
    BY DEF TimesInv
<1> QED BY AuthInvInit, AuthInvNext, TimesInit, TimesNext, <1>1, PTL DEF AuthSpec, TimesKept

-----------------------------------------------------------------------------
\* Behind the tokens, accounts are made as SignUp makes them.
LEMMA AuthIsSignUp == AuthInv /\ [AuthNext]_allVars => [Next]_vars
<1> SUFFICES ASSUME AuthInv, AuthNext PROVE [Next]_vars
    BY DEF allVars
<1>1. ASSUME NEW r \in Req, Enter(r) PROVE \E i \in Identity : Lookup(r, i)
    <2>1. auth[r].token \in Token
        BY <1>1 DEF Enter, AuthInv, Types, AuthType, Evicting, Unasked
    <2> QED BY <1>1, <2>1, AuthAssumption DEF Enter, AuthAssumption
<1> QED
    BY <1>1 DEF AuthNext, Next, Present, Introspect, Evict, Unlink, Put, Stamp, Revoke, Tick, RestartAll, allVars

LEMMA AlwaysSignUp == AuthSpec => Init /\ [][Next]_vars /\ []Inv
<1>1. AuthInit => Init
    BY DEF AuthInit
<1> QED BY InvInit, InvNext, AuthInvInit, AuthInvNext, AuthIsSignUp, <1>1, PTL DEF AuthSpec

\* Requests, accounts, the cache and the threads in front of it keep their types.
THEOREM AuthTypesKept == AuthSpec => []AuthTypeOK
<1>1. Inv /\ AuthInv => AuthTypeOK
    BY DEF Inv, AuthInv, Types, AuthTypeOK
<1> QED BY AlwaysSignUp, AuthInvInit, AuthInvNext, <1>1, PTL DEF AuthSpec

\* One request at a time inserts an identity, and none that has an account.
THEOREM InserterTheorem == AuthSpec => []OneInserter
<1>1. Inv => OneInserter
    BY DEF Inv
<1> QED BY AlwaysSignUp, <1>1, PTL

\* Requests that come in through the cache implement the promise of sign-up.
THEOREM AuthImplements == AuthSpec => KeepsPromise
BY AlwaysSignUp, StepKeepsPromise, InitKeepsPromise, PTL DEF KeepsPromise, Promise!Spec
=============================================================================
