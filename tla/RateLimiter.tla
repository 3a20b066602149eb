----------------------------- MODULE RateLimiter -----------------------------
(***************************************************************************)
(* The rate limit in front of score_order (app/api/routes.py) for one      *)
(* client address: a counter in Redis, INCR by each call, that the call    *)
(* which created it puts to expire after 60 seconds.  INCR and EXPIRE are  *)
(* two round trips.  A window is the life of the counter's key.            *)
(***************************************************************************)
EXTENDS Naturals, FiniteSets

CONSTANTS
  Call,   \* calls of POST /v1/orders/score by the client
  Limit,  \* RATE_LIMIT_PER_MIN, 100 unless configured
  Env     \* what may go wrong, subset of EnvKind

EnvKind == {"redis_error", "api_crash"}

ASSUME LimiterAssumption == Limit \in Nat \ {0} /\ Env \subseteq EnvKind

VARIABLES
  pc,      \* where each call is, or how it ended
  count,   \* rate_limit:score:<ip>; 0 when there is no key
  ttl,     \* the key has an expiry
  current, \* the number each call was given by INCR
  window,  \* the window it was counted in
  opened,  \* windows opened so far
  orphaned \* history: a call ended between INCR and EXPIRE of a new key

vars == <<pc, count, ttl, current, window, opened, orphaned>>

CallPC == {"new", "expire", "decide", "admitted", "limited", "gone"}

Init ==
  /\ pc = [c \in Call |-> "new"]
  /\ count = 0
  /\ ttl = FALSE
  /\ current = [c \in Call |-> 0]
  /\ window = [c \in Call |-> 0]
  /\ opened = 0
  /\ orphaned = FALSE

Goto(c, place) == pc' = [pc EXCEPT ![c] = place]

\* INCR creates the key when there is none.
Bump ==
  /\ count' = count + 1
  /\ opened' = IF count = 0 THEN opened + 1 ELSE opened

\* The call that created the key goes on to set its expiry.
ExpireOnSecond == IF count = 1 THEN "expire" ELSE "decide"  \* mutant: off by one
AfterIncr == IF count = 0 THEN "expire" ELSE "decide"

Incr(c) ==
  /\ pc[c] = "new"
  /\ Bump
  /\ current' = [current EXCEPT ![c] = count + 1]
  /\ window' = [window EXCEPT ![c] = opened']
  /\ Goto(c, AfterIncr)
  /\ UNCHANGED <<ttl, orphaned>>

Expire(c) ==
  /\ pc[c] = "expire"
  /\ ttl' = (count > 0)
  /\ Goto(c, "decide")
  /\ UNCHANGED <<count, current, window, opened, orphaned>>

OneTooMany(c) == current[c] > Limit + 1  \* mutant: off by one
OverLimit(c) == current[c] > Limit

Decide(c) ==
  /\ pc[c] = "decide"
  /\ Goto(c, IF OverLimit(c) THEN "limited" ELSE "admitted")
  /\ UNCHANGED <<count, ttl, current, window, opened, orphaned>>

\* A RedisError of either command, applied by Redis or not, admits the call.
FailOpen(c) ==
  /\ "redis_error" \in Env
  /\ \/ pc[c] = "new" /\ UNCHANGED <<count, opened, orphaned>> /\ UNCHANGED ttl
     \/ pc[c] = "new" /\ Bump /\ orphaned' = (orphaned \/ count = 0) /\ UNCHANGED ttl
     \/ /\ pc[c] = "expire"
        /\ ttl' \in {ttl, count > 0}
        /\ orphaned' = TRUE
        /\ UNCHANGED <<count, opened>>
  /\ Goto(c, "admitted")
  /\ UNCHANGED <<current, window>>

\* The process dies, or the request is cancelled, between two awaits.
ApiCrash(c) ==
  /\ "api_crash" \in Env
  /\ pc[c] \in {"expire", "decide"}
  /\ Goto(c, "gone")
  /\ orphaned' = (orphaned \/ pc[c] = "expire")
  /\ UNCHANGED <<count, ttl, current, window, opened>>

\* mutant: the counter is reset, the key kept
CounterReset ==
  /\ ttl
  /\ count' = 0
  /\ UNCHANGED <<pc, ttl, current, window, opened, orphaned>>

\* Redis removes the key when its time has come.
WindowCloses ==
  /\ ttl
  /\ count' = 0
  /\ ttl' = FALSE
  /\ UNCHANGED <<pc, current, window, opened, orphaned>>

Limiter(c) == Incr(c) \/ Expire(c) \/ Decide(c) \/ FailOpen(c) \/ ApiCrash(c)

Quiet ==
  /\ \A c \in Call : pc[c] \in {"admitted", "limited", "gone"}
  /\ UNCHANGED vars

Next == (\E c \in Call : Limiter(c)) \/ WindowCloses \/ Quiet

Spec == Init /\ [][Next]_vars

\* A call under way goes on, and Redis honours an expiry.
FairSpec ==
  /\ Spec
  /\ \A c \in Call : WF_vars(Expire(c) \/ Decide(c))
  /\ WF_vars(WindowCloses)

-----------------------------------------------------------------------------
\* Every variable keeps its type, and only an existing key has an expiry.
LimiterTypeOK ==
  /\ pc \in [Call -> CallPC]
  /\ count \in Nat
  /\ ttl \in BOOLEAN
  /\ current \in [Call -> Nat]
  /\ window \in [Call -> Nat]
  /\ opened \in Nat
  /\ orphaned \in BOOLEAN
  /\ ttl => count > 0

Admitted(k) == {c \in Call : pc[c] = "admitted" /\ window[c] = k}

\* However calls overlap, and whichever of them dies, no window admits more
\* than RATE_LIMIT_PER_MIN of the calls that were told their number in it.
AdmitsAtMostLimit == \A k \in 1..opened : Cardinality(Admitted(k)) <= Limit

\* A window that has begun ends: no client is locked out for good, unless a call
\* died or lost Redis between the two commands.
WindowEnds ==
  \A k \in 1..Cardinality(Call) : (opened = k /\ count > 0) ~> (count = 0 \/ orphaned)
=============================================================================
