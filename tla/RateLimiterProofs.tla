--------------------------- MODULE RateLimiterProofs ---------------------------
(***************************************************************************)
(* Theorems about RateLimiter for any finite number of calls, any limit    *)
(* and every fault: no window admits more calls than the limit, because    *)
(* INCR gives the calls of a window different numbers; and a window has an *)
(* expiry, or the call that owes it one.                                   *)
(***************************************************************************)
EXTENDS RateLimiter, FiniteSetTheorems, TLAPS

USE LimiterAssumption

LEMMA LimiterInit == Init => LimiterTypeOK
<1> SUFFICES ASSUME Init PROVE LimiterTypeOK
  OBVIOUS
<1>1. ttl \in BOOLEAN /\ orphaned \in BOOLEAN /\ ~ttl
  BY Zenon DEF Init
<1>2. /\ pc \in [Call -> CallPC] /\ count \in Nat /\ opened \in Nat
      /\ current \in [Call -> Nat] /\ window \in [Call -> Nat]
  BY DEF Init, CallPC
<1>3. QED
  BY <1>1, <1>2, Zenon DEF LimiterTypeOK

LEMMA LimiterNext == LimiterTypeOK /\ [Next]_vars => LimiterTypeOK'
<1> SUFFICES ASSUME LimiterTypeOK, [Next]_vars PROVE LimiterTypeOK'
  OBVIOUS
<1> USE DEF LimiterTypeOK, CallPC, Goto
<1>1. ASSUME NEW c \in Call, Incr(c) PROVE LimiterTypeOK'
  BY <1>1 DEF Incr, Bump, AfterIncr
<1>2. ASSUME NEW c \in Call, Expire(c) PROVE LimiterTypeOK'
  BY <1>2 DEF Expire
<1>3. ASSUME NEW c \in Call, Decide(c) PROVE LimiterTypeOK'
  BY <1>3 DEF Decide
<1>4. ASSUME NEW c \in Call, FailOpen(c) PROVE LimiterTypeOK'
  <2>1. /\ pc' \in [Call -> CallPC] /\ count' \in Nat /\ opened' \in Nat
        /\ current' \in [Call -> Nat] /\ window' \in [Call -> Nat]
        /\ count' = count \/ count' = count + 1
    BY <1>4 DEF FailOpen, Bump
  <2>2. orphaned' \in BOOLEAN
    BY <1>4 DEF FailOpen
  <2>3. ttl' = ttl \/ (ttl' = (count > 0) /\ count' = count)
    BY <1>4, Zenon DEF FailOpen
  <2>4. ttl' \in BOOLEAN /\ (ttl' => count' > 0)
    <3>1. CASE ttl' = ttl
      BY <2>1, <3>1
    <3>2. CASE ttl' = (count > 0) /\ count' = count
      BY <3>2
    <3>3. QED
      BY <2>3, <3>1, <3>2
  <2>5. QED
    BY <2>1, <2>2, <2>4, Zenon
<1>5. ASSUME NEW c \in Call, ApiCrash(c) PROVE LimiterTypeOK'
  BY <1>5 DEF ApiCrash
<1>6. CASE WindowCloses
  <2>1. ttl' \in BOOLEAN /\ ~ttl'
    BY <1>6, Zenon DEF WindowCloses
  <2>2. /\ count' \in Nat
        /\ UNCHANGED <<pc, current, window, opened, orphaned>>
    BY <1>6 DEF WindowCloses
  <2>3. QED
    BY <2>1, <2>2, Zenon
<1>7. CASE Quiet \/ UNCHANGED vars
  BY <1>7 DEF Quiet, vars
<1>8. QED
  BY <1>1, <1>2, <1>3, <1>4, <1>5, <1>6, <1>7 DEF Next, Limiter

\* Type correctness, and only an existing counter has an expiry.
THEOREM LimiterTypeCorrect == Spec => []LimiterTypeOK
BY LimiterInit, LimiterNext, PTL DEF Spec

-----------------------------------------------------------------------------
\* Calls counted in one window have different numbers, which do not exceed its
\* counter as long as it is open; and a counted call that was admitted has a
\* number within the limit.  A call that lost Redis has no number.
NumbersInv ==
  /\ count > 0 => opened > 0
  /\ \A c \in Call :
       /\ window[c] \in 0..opened
       /\ pc[c] = "new" => window[c] = 0
       /\ window[c] > 0 => current[c] > 0
       /\ window[c] > 0 /\ window[c] = opened /\ count > 0 => current[c] <= count
       /\ pc[c] = "expire" => current[c] = 1
       /\ window[c] > 0 /\ pc[c] = "admitted" => current[c] <= Limit
  /\ \A c, d \in Call :
       window[c] > 0 /\ window[c] = window[d] /\ current[c] = current[d] => c = d

LEMMA NumbersNext ==
  ASSUME LimiterTypeOK, NumbersInv, [Next]_vars
  PROVE  NumbersInv'
<1>t. /\ pc \in [Call -> CallPC]
      /\ count \in Nat /\ opened \in Nat
      /\ current \in [Call -> Nat] /\ window \in [Call -> Nat]
  BY DEF LimiterTypeOK
<1>1. ASSUME NEW b \in Call, Incr(b) PROVE NumbersInv'
  <2>1. /\ pc[b] = "new" /\ window[b] = 0
        /\ count' = count + 1
        /\ opened' = IF count = 0 THEN opened + 1 ELSE opened
        /\ opened' \in Nat /\ opened' > 0
        /\ current' = [current EXCEPT ![b] = count + 1]
        /\ window' = [window EXCEPT ![b] = opened']
        /\ pc' = [pc EXCEPT ![b] = IF count = 0 THEN "expire" ELSE "decide"]
    BY <1>1, <1>t DEF Incr, Bump, AfterIncr, Goto, NumbersInv
  <2>2. ASSUME NEW c \in Call
        PROVE  /\ window'[c] \in 0..opened'
               /\ pc'[c] = "new" => window'[c] = 0
               /\ window'[c] > 0 => current'[c] > 0
               /\ window'[c] > 0 /\ window'[c] = opened' /\ count' > 0 => current'[c] <= count'
               /\ pc'[c] = "expire" => current'[c] = 1
               /\ window'[c] > 0 /\ pc'[c] = "admitted" => current'[c] <= Limit
    BY <1>t, <2>1 DEF NumbersInv
  <2>3. ASSUME NEW c \in Call, c # b, window'[c] > 0, window'[c] = opened'
        PROVE  current'[c] # current'[b]
    BY <1>t, <2>1, <2>3 DEF NumbersInv
  <2>4. ASSUME NEW c \in Call, NEW d \in Call,
               window'[c] > 0, window'[c] = window'[d], current'[c] = current'[d]
        PROVE  c = d
    BY <1>t, <2>1, <2>3, <2>4 DEF NumbersInv
  <2>5. QED
    BY <2>1, <2>2, <2>4, <1>t DEF NumbersInv
<1>2. ASSUME NEW b \in Call, Expire(b) PROVE NumbersInv'
  BY <1>2, <1>t DEF Expire, Goto, NumbersInv
<1>3. ASSUME NEW b \in Call, Decide(b) PROVE NumbersInv'
  BY <1>3, <1>t DEF Decide, OverLimit, Goto, NumbersInv
<1>4. ASSUME NEW b \in Call, FailOpen(b) PROVE NumbersInv'
  <2>1. /\ pc[b] \in {"new", "expire"}
        /\ \/ UNCHANGED <<count, opened>>
           \/ count' = count + 1 /\ opened' = IF count = 0 THEN opened + 1 ELSE opened
        /\ pc' = [pc EXCEPT ![b] = "admitted"]
        /\ UNCHANGED <<current, window>>
    BY <1>4 DEF FailOpen, Bump, Goto
  <2>2. window[b] = 0 \/ current[b] <= Limit
    BY <2>1 DEF NumbersInv
  <2>3. QED
    BY <1>t, <2>1, <2>2 DEF NumbersInv
<1>5. ASSUME NEW b \in Call, ApiCrash(b) PROVE NumbersInv'
  BY <1>5, <1>t DEF ApiCrash, Goto, NumbersInv
<1>6. CASE WindowCloses \/ Quiet \/ UNCHANGED vars
  BY <1>6, <1>t DEF WindowCloses, Quiet, vars, NumbersInv
<1>7. QED
  BY <1>1, <1>2, <1>3, <1>4, <1>5, <1>6 DEF Next, Limiter

\* The numbers of the calls admitted in a window are different and within
\* 1..Limit, so they are no more than that.
LEMMA FewAdmitted ==
  ASSUME LimiterTypeOK, NumbersInv, NEW k \in 1..opened
  PROVE  Cardinality(Admitted(k)) <= Limit
<1> DEFINE number == [c \in Admitted(k) |-> current[c]]
<1>1. \A c \in Admitted(k) : c \in Call /\ window[c] = k /\ current[c] \in 1..Limit
  BY DEF Admitted, NumbersInv, LimiterTypeOK
<1>2. \A c, d \in Admitted(k) : current[c] = current[d] => c = d
  BY <1>1 DEF NumbersInv, LimiterTypeOK
<1>3. number \in Injection(Admitted(k), 1..Limit)
  BY <1>1, <1>2 DEF Injection, IsInjective
<1>4. IsFiniteSet(1..Limit) /\ Cardinality(1..Limit) = Limit
  BY FS_Interval
<1> HIDE DEF number
<1>5. QED
  BY <1>3, <1>4, FS_Injection

\* The limit holds, however the calls overlap and whichever of them dies.
THEOREM LimitHolds == Spec => []AdmitsAtMostLimit
<1>1. Init => NumbersInv
  BY DEF Init, NumbersInv
<1>2. LimiterTypeOK /\ NumbersInv => AdmitsAtMostLimit
  BY FewAdmitted DEF AdmitsAtMostLimit
<1>3. QED
  BY <1>1, <1>2, NumbersNext, LimiterTypeCorrect, PTL DEF Spec

-----------------------------------------------------------------------------
\* A counter that nothing would ever remove is the mark of a call that died or
\* lost Redis: else it expires, or the call that created it is about to see to it.
WindowIsDue ==
  count > 0 => ttl \/ orphaned \/ \E c \in Call : pc[c] = "expire"

\* The safety half of WindowEnds: the two commands of score_order lock no client
\* out between them, under every fault.
THEOREM WindowsAreDue == Spec => []WindowIsDue
<1>1. Init => WindowIsDue
  BY DEF Init, WindowIsDue
<1>2. LimiterTypeOK /\ WindowIsDue /\ [Next]_vars => WindowIsDue'
  <2> SUFFICES ASSUME LimiterTypeOK, WindowIsDue, [Next]_vars PROVE WindowIsDue'
    OBVIOUS
  <2>t. pc \in [Call -> CallPC] /\ count \in Nat
    BY DEF LimiterTypeOK
  <2>1. ASSUME NEW c \in Call, Incr(c) PROVE WindowIsDue'
    <3>1. CASE count = 0
      BY <2>1, <2>t, <3>1 DEF Incr, AfterIncr, Goto, WindowIsDue
    <3>2. CASE count > 0
      BY <2>1, <2>t, <3>2 DEF Incr, Goto, WindowIsDue
    <3> QED BY <2>t, <3>1, <3>2
  <2>2. ASSUME NEW c \in Call, Expire(c) PROVE WindowIsDue'
    <3>1. count' = count /\ (count > 0 => ttl')
      BY <2>2, Zenon DEF Expire
    <3> QED BY <3>1 DEF WindowIsDue
  <2>3. ASSUME NEW c \in Call, Decide(c) PROVE WindowIsDue'
    BY <2>3, <2>t DEF Decide, Goto, WindowIsDue
  <2>4. ASSUME NEW c \in Call, FailOpen(c) PROVE WindowIsDue'
    <3>1. CASE pc[c] = "expire"
      <4>1. orphaned'
        BY <2>4, <3>1, Zenon DEF FailOpen
      <4> QED BY <4>1 DEF WindowIsDue
    <3>2. CASE pc[c] # "expire"
      <4>1. \A d \in Call : pc[d] = "expire" => pc'[d] = "expire"
        BY <2>4, <2>t, <3>2 DEF FailOpen, Goto
      <4>2. /\ ttl' = ttl
            /\ \/ count' = count /\ orphaned' = orphaned
               \/ orphaned' = (orphaned \/ count = 0)
        BY <2>4, <3>2, Zenon DEF FailOpen
      <4>3. ASSUME orphaned PROVE orphaned'
        BY <4>2, <4>3, Zenon
      <4>4. ASSUME count = 0, count' # count PROVE orphaned'
        BY <4>2, <4>4, Zenon
      <4> QED BY <2>t, <4>1, <4>2, <4>3, <4>4 DEF WindowIsDue
    <3> QED BY <3>1, <3>2
  <2>5. ASSUME NEW c \in Call, ApiCrash(c) PROVE WindowIsDue'
    <3>1. CASE pc[c] = "expire"
      <4>1. orphaned'
        BY <2>5, <3>1, Zenon DEF ApiCrash
      <4> QED BY <4>1 DEF WindowIsDue
    <3>2. CASE pc[c] # "expire"
      <4>1. ttl' = ttl /\ count' = count /\ (orphaned => orphaned')
        BY <2>5, Zenon DEF ApiCrash
      <4>2. \A d \in Call : pc[d] = "expire" => pc'[d] = "expire"
        BY <2>5, <2>t, <3>2 DEF ApiCrash, Goto
      <4> QED BY <4>1, <4>2 DEF WindowIsDue
    <3> QED BY <3>1, <3>2
  <2>6. CASE WindowCloses \/ Quiet \/ UNCHANGED vars
    BY <2>6 DEF WindowCloses, Quiet, vars, WindowIsDue
  <2> QED BY <2>1, <2>2, <2>3, <2>4, <2>5, <2>6 DEF Next, Limiter
<1> QED BY <1>1, <1>2, LimiterTypeCorrect, PTL DEF Spec
=============================================================================
