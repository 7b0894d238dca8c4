--------------------------- MODULE Authentication ---------------------------
(***************************************************************************)
(* The way of a request to its account: the token's introspection at       *)
(* Globus, which globus_auth.py keeps for five minutes in a TTLCache       *)
(* without a lock (the dependencies run in a thread pool), the checks of   *)
(* auth_state.py, and then SignUp.                                         *)
(***************************************************************************)
EXTENDS SignUp, Integers, Functions

CONSTANTS
    Token, Owner,   \* Owner[t]: the identity Globus has issued t to
    Scoped,         \* the tokens with the service's scope
    Ending,         \* the tokens that may stop being active (all, or fewer as a bound)
    TTL,
    MaxCall,        \* how long an answer of Globus can take to reach the cache
    Horizon         \* where the clock stops

VARIABLES
    clock,
    revoked,        \* when each token stopped being active
    cache,          \* tokens with a value in the cache: all were found active
    expires,        \* tokens with a time in the cache, and that time
    auth            \* what each request's thread is doing

authVars == <<clock, revoked, cache, expires, auth>>
allVars == <<vars, authVars>>

AuthAssumption ==
    /\ Owner \in [Token -> Identity] /\ Scoped \subseteq Token /\ Ending \subseteq Token
    /\ TTL \in Nat \ {0} /\ MaxCall \in Nat /\ Horizon \in Nat

ASSUME AuthAssumption

Never == Horizon + 1

Unasked == [pc |-> "idle"]

AuthType ==
    [pc : {"asking", "answered", "storing", "put", "honoured", "unchecked"},
     token : Token, at : 0..Horizon]

Evicting == [pc : {"evicting"}, token : Token, at : 0..Horizon, victim : Token]

AuthInit ==
    /\ Init
    /\ clock = 0
    /\ revoked = [t \in Token |-> Never]
    /\ cache = {} /\ expires = [t \in {} |-> 0]
    /\ auth = [r \in Req |-> Unasked]

Active(t) == clock < revoked[t]

\* Threads inside a store.
Storing == {r \in Req : auth[r].pc \in {"storing", "evicting", "put"}}

\* Threads that have put the value of t and not yet its time.
Stamping(t) == {r \in Req : auth[r].pc = "put" /\ auth[r].token = t}

\* A value without a time never expires. A store leaves it so for a moment; the
\* value is lost if nobody is about to give it one.
Lost(t) == t \in cache \ DOMAIN expires /\ Stamping(t) = {}

\* Found by a lookup.
Fresh(t) == t \in cache /\ (t \in DOMAIN expires => clock < expires[t])

-----------------------------------------------------------------------------
\* The checks of authenticated(): 403 without the scope.
Decided(t, pc) ==
    IF t \in Scoped THEN [pc |-> pc, token |-> t, at |-> clock] ELSE Unasked

\* Mutant: the entry's time starts anew whenever it is used.
HitSliding(r, t) ==
    /\ Fresh(t)
    /\ auth' = [auth EXCEPT ![r] = Decided(t, IF Lost(t) THEN "unchecked" ELSE "honoured")]
    /\ expires' = IF t \in DOMAIN expires THEN [expires EXCEPT ![t] = clock + TTL] ELSE expires

Hit(r, t) ==
    /\ Fresh(t)
    /\ auth' = [auth EXCEPT ![r] = Decided(t, IF Lost(t) THEN "unchecked" ELSE "honoured")]
    /\ UNCHANGED expires

Miss(r, t) ==
    /\ ~Fresh(t)
    /\ auth' = [auth EXCEPT ![r] = [pc |-> "asking", token |-> t, at |-> 0]]
    /\ UNCHANGED expires

Present(r, t) ==
    /\ auth[r] = Unasked /\ At(r, "idle")
    /\ Hit(r, t) \/ Miss(r, t)
    /\ UNCHANGED <<vars, clock, revoked, cache>>

\* Globus answers for the token as it is now. 401 if it is not active, a 500
\* if the call fails; neither is cached.
Introspect(r) ==
    /\ auth[r].pc = "asking"
    /\ \/ /\ Active(auth[r].token)
          /\ auth' = [auth EXCEPT ![r] = [@ EXCEPT !.pc = "answered", !.at = clock]]
       \/ auth' = [auth EXCEPT ![r] = Unasked]
    /\ UNCHANGED <<vars, clock, revoked, cache, expires>>

\* A store makes room: an expired entry, or the least recently used of a full
\* cache, loses its value and then its time. How many go is left open, as the
\* count the cache goes by is kept without a lock too.
Evict(r, u) ==
    /\ auth[r].pc \in {"answered", "storing"}
    /\ u \in cache \cup DOMAIN expires
    /\ auth' = [auth EXCEPT ![r] =
                [pc |-> "evicting", token |-> @.token, at |-> @.at, victim |-> u]]
    /\ cache' = cache \ {u}
    /\ UNCHANGED <<vars, clock, revoked, expires>>

\* Another thread has removed what this one is removing: a KeyError, a 500.
Unlink(r) ==
    /\ auth[r].pc = "evicting"
    /\ auth' \in {[auth EXCEPT ![r] = [pc |-> "storing", token |-> @.token, at |-> @.at]],
                  [auth EXCEPT ![r] = Unasked]}
    /\ expires' = Restrict(expires, DOMAIN expires \ {auth[r].victim})
    /\ UNCHANGED <<vars, clock, revoked, cache>>

Put(r) ==
    /\ auth[r].pc \in {"answered", "storing"}
    /\ auth' = [auth EXCEPT ![r].pc = "put"]
    /\ cache' = cache \cup {auth[r].token}
    /\ UNCHANGED <<vars, clock, revoked, expires>>

\* Mutant: the time is only renewed, a new entry gets none.
StampRenewing(r) ==
    /\ auth[r].pc = "put"
    /\ auth' = [auth EXCEPT ![r] = Decided(auth[r].token, "honoured")]
    /\ expires' = [t \in DOMAIN expires |->
                    IF t = auth[r].token THEN clock + TTL ELSE expires[t]]
    /\ UNCHANGED <<vars, clock, revoked, cache>>

\* The time of an entry starts when it is stored, not when Globus answered. Of
\* two threads that store one token, one may fail on the other's unfinished entry.
Stamp(r) ==
    /\ auth[r].pc = "put"
    /\ LET t == auth[r].token IN
        \/ /\ expires' = [u \in DOMAIN expires \cup {t} |->
                            IF u = t THEN clock + TTL ELSE expires[u]]
           /\ auth' = [auth EXCEPT ![r] = Decided(t, "honoured")]
        \/ /\ Stamping(t) # {r}
           /\ auth' = [auth EXCEPT ![r] = Unasked]
           /\ UNCHANGED expires
    /\ UNCHANGED <<vars, clock, revoked, cache>>

\* authed_user takes over.
Enter(r) ==
    /\ auth[r].pc \in {"honoured", "unchecked"}
    /\ Lookup(r, Owner[auth[r].token])
    /\ auth' = [auth EXCEPT ![r] = Unasked]
    /\ UNCHANGED <<clock, revoked, cache, expires>>

\* Logged out, consent rescinded, or expired.
Revoke(t) ==
    /\ Active(t)
    /\ revoked' = [revoked EXCEPT ![t] = clock]
    /\ UNCHANGED <<vars, clock, cache, expires, auth>>

\* Stores only compute: the clock does not turn during one.
Tick ==
    /\ clock < Horizon
    /\ Storing = {}
    /\ \A r \in Req : auth[r].pc = "answered" => clock < auth[r].at + MaxCall
    /\ clock' = clock + 1
    /\ UNCHANGED <<vars, revoked, cache, expires, auth>>

\* The cache is the process's.
RestartAll ==
    /\ Restart
    /\ cache' = {} /\ expires' = [t \in {} |-> 0]
    /\ auth' = [r \in Req |-> Unasked]
    /\ UNCHANGED <<clock, revoked>>

AuthNext ==
    \/ \E r \in Req :
        \/ \E t \in Token : Present(r, t) \/ Evict(r, t)
        \/ Introspect(r) \/ Unlink(r) \/ Put(r) \/ Stamp(r) \/ Enter(r)
        \/ Advance(r) /\ UNCHANGED authVars
    \/ \E t \in Ending : Revoke(t)
    \/ Tick
    \/ RestartAll

AuthSpec ==
    /\ AuthInit /\ [][AuthNext]_allVars
    /\ \A r \in Req : WF_allVars(Advance(r) /\ UNCHANGED authVars)

-----------------------------------------------------------------------------
(* Properties *)

\* The types of sign-up and of the cache in front of it.
AuthTypeOK ==
    /\ TypeOK
    /\ clock \in 0..Horizon
    /\ revoked \in [Token -> 0..Never]
    /\ cache \subseteq Token
    /\ DOMAIN expires \subseteq Token /\ \A t \in DOMAIN expires : expires[t] \in Nat
    /\ auth \in [Req -> AuthType \cup Evicting \cup {Unasked}]

\* A request is let in with a token that was active at most the cache's time and
\* the delay of one answer ago, whoever stored the entry it found and whether or
\* not the token has been refused in between (globus_auth.py:13): unless it
\* found a value that overlapping stores have robbed of its time.
StalenessBounded ==
    \A r \in Req :
        auth[r].pc = "honoured" => auth[r].at < revoked[auth[r].token] + TTL + MaxCall

\* At most one thread stores.
StoresApart == \A r, s \in Storing : r = s

NoneLost == \A t \in Token : ~Lost(t)

\* The lock that cached() is not given (globus_auth.py:13) is all that the cache
\* lacks: if stores never overlap, every value has its time, whatever is evicted,
\* refused, revoked or restarted around them.
TimesKept == []StoresApart => []NoneLost
=============================================================================
