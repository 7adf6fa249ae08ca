---------------------------- MODULE RateLimiter ----------------------------
(***************************************************************************)
(* RateLimitMiddleware: every request outside /health and /ready reads the *)
(* clock, names the Redis counter of its bucket and of the current window  *)
(* of Window seconds, and sends INCR.  Whoever reads 1 back sends EXPIRE   *)
(* Window + 1 as a second command.  Any exception lets the request pass.   *)
(* Requests run concurrently: other steps come between reading the clock,  *)
(* INCR and EXPIRE.                                                        *)
(***************************************************************************)
EXTENDS Integers

CONSTANTS
    Addresses,      \* client addresses, or X-Forwarded-For
    Bearers,        \* strings a client sends after "Bearer ", tokens or not
    Prefix,         \* Prefix[b]: the first 32 characters of the string b
    Requests,       \* requests in flight at a time
    GuestLimit,     \* settings.rate_limit_guest
    UserLimit,      \* settings.rate_limit_user
    Window,         \* seconds in a window (60)
    MaxTime,        \* bound: the clock
    MaxCount        \* bound: INCRs on one key

ASSUME LimitsAssumption ==
    /\ GuestLimit \in Nat /\ UserLimit \in Nat
    /\ Window \in Nat \ {0} /\ MaxTime \in Nat /\ MaxCount \in Nat

VARIABLES
    now,
    count,      \* count[k]: the value of Redis key k, 0 when it is absent
    expiry,     \* expiry[k]: when k expires, or Never
    stage, req,    \* req[r]: bucket and window r has computed, and what INCR gave
    passed,     \* history: passed[k]: requests that INCR on k let pass while
                \* the window of k lasted
    taken,      \* history: taken[k]: INCRs on k
    dropped     \* history: keys whose EXPIRE failed or was never sent

limiterVars == <<now, count, expiry, stage, req, passed, taken, dropped>>

Never == -1
Times == 0..MaxTime
WindowOf(t) == t \div Window
Windows == 0..WindowOf(MaxTime)

(* _resolve_role: any string after "Bearer " makes a "user".  Nothing      *)
(* decodes it here, so it need not be a token of the server.               *)
Role(auth) == IF auth \in Bearers THEN "user" ELSE "guest"

(* _resolve_identifier: a guest counts by address, a user by the first 32  *)
(* characters of the string.  They lie inside the JWT header, which all    *)
(* tokens of the server have in common; any other string may have others.  *)
Identifier(auth) == IF Role(auth) = "guest" THEN <<"guest", auth>> ELSE <<"user", Prefix[auth]>>

Buckets == {Identifier(a) : a \in Addresses \cup Bearers}
Keys == Buckets \X Windows
Limit(b) == IF b[1] = "guest" THEN GuestLimit ELSE UserLimit

NoRequest == [key |-> <<>>, current |-> 0]

LimiterTypeOK ==
    /\ now \in Times
    /\ count \in [Keys -> 0..MaxCount]
    /\ expiry \in [Keys -> Nat \cup {Never}]
    /\ stage \in [Requests -> {"idle", "incr", "expire", "decide", "allowed", "refused"}]
    /\ req \in [Requests -> [key : Keys \cup {<<>>}, current : 0..MaxCount]]
    /\ passed \in [Keys -> 0..MaxCount]
    /\ taken \in [Keys -> 0..MaxCount]
    /\ dropped \in SUBSET Keys

LimiterInit ==
    /\ now = 0
    /\ count = [k \in Keys |-> 0]
    /\ expiry = [k \in Keys |-> Never]
    /\ stage = [r \in Requests |-> "idle"]
    /\ req = [r \in Requests |-> NoRequest]
    /\ passed = [k \in Keys |-> 0]
    /\ taken = [k \in Keys |-> 0]
    /\ dropped = {}

Advance(r, l) == stage' = [stage EXCEPT ![r] = l]
KeyOf(r) == req[r].key

-----------------------------------------------------------------------------
(* dispatch and the head of _check_rate_limit: the window is fixed here.   *)
Dispatch(r) ==
    /\ stage[r] = "idle"
    /\ \E auth \in Addresses \cup Bearers :
          req' = [req EXCEPT ![r] = [key |-> <<Identifier(auth), WindowOf(now)>>, current |-> 0]]
    /\ Advance(r, "incr")
    /\ UNCHANGED <<now, count, expiry, passed, taken, dropped>>

(* Redis runs INCR: an absent key starts from 0 and without a deadline.    *)
Increment(k) ==
    /\ taken[k] < MaxCount
    /\ count' = [count EXCEPT ![k] = @ + 1]
    /\ taken' = [taken EXCEPT ![k] = @ + 1]
    /\ passed' = IF count[k] + 1 <= Limit(k[1]) /\ WindowOf(now) = k[2]
                 THEN [passed EXCEPT ![k] = @ + 1] ELSE passed

(* Mutant of Incr: the second request sets the deadline.                   *)
IncrDeadlineLate(r) ==
    /\ stage[r] = "incr"
    /\ Increment(KeyOf(r))
    /\ req' = [req EXCEPT ![r].current = count[KeyOf(r)] + 1]
    /\ Advance(r, IF count[KeyOf(r)] = 1 THEN "expire" ELSE "decide")
    /\ UNCHANGED <<now, expiry, dropped>>

Incr(r) ==
    /\ stage[r] = "incr"
    /\ Increment(KeyOf(r))
    /\ req' = [req EXCEPT ![r].current = count[KeyOf(r)] + 1]
    /\ Advance(r, IF count[KeyOf(r)] = 0 THEN "expire" ELSE "decide")
    /\ UNCHANGED <<now, expiry, dropped>>

SetDeadline(r, ttl) ==
    /\ stage[r] = "expire"
    /\ expiry' = [expiry EXCEPT ![KeyOf(r)] = now + ttl]
    /\ Advance(r, "decide")
    /\ UNCHANGED <<now, count, req, passed, taken, dropped>>

(* Mutant of Expire: a deadline that may fall into the window.             *)
ExpireEarly(r) == SetDeadline(r, Window - 1)

Expire(r) == SetDeadline(r, Window + 1)

(* Mutant of Decide: the request that reaches the limit is refused.        *)
DecideStrict(r) ==
    /\ stage[r] = "decide"
    /\ Advance(r, IF req[r].current < Limit(KeyOf(r)[1]) THEN "allowed" ELSE "refused")
    /\ UNCHANGED <<now, count, expiry, req, passed, taken, dropped>>

(* current <= limit: call_next, or _rate_limit_response with status 429.   *)
Decide(r) ==
    /\ stage[r] = "decide"
    /\ Advance(r, IF req[r].current <= Limit(KeyOf(r)[1]) THEN "allowed" ELSE "refused")
    /\ UNCHANGED <<now, count, expiry, req, passed, taken, dropped>>

(* except Exception: the request is allowed.  The reply to INCR may be     *)
(* lost after INCR was run, and then nobody sends EXPIRE for a new key.    *)
FailOpen(r) ==
    /\ \/ /\ stage[r] = "incr"
          /\ UNCHANGED <<count, passed, taken, dropped>>
       \/ /\ stage[r] = "incr"
          /\ Increment(KeyOf(r))
          /\ dropped' = dropped \cup (IF count[KeyOf(r)] = 0 THEN {KeyOf(r)} ELSE {})
       \/ /\ stage[r] = "expire"
          /\ dropped' = dropped \cup {KeyOf(r)}
          /\ UNCHANGED <<count, passed, taken>>
    /\ Advance(r, "allowed")
    /\ UNCHANGED <<now, expiry, req>>

(* The response is sent, or the client goes away and the task is cancelled *)
(* (CancelledError is no Exception).                                       *)
Leave(r) ==
    /\ stage[r] # "idle"
    /\ dropped' = dropped \cup (IF stage[r] = "expire" THEN {KeyOf(r)} ELSE {})
    /\ Advance(r, "idle")
    /\ req' = [req EXCEPT ![r] = NoRequest]
    /\ UNCHANGED <<now, count, expiry, passed, taken>>

(* The clock moves on and Redis removes the keys whose deadline has come.  *)
Due(k, t) == expiry[k] # Never /\ expiry[k] <= t

Tick ==
    /\ now < MaxTime
    /\ now' = now + 1
    /\ count' = [k \in Keys |-> IF Due(k, now') THEN 0 ELSE count[k]]
    /\ expiry' = [k \in Keys |-> IF Due(k, now') THEN Never ELSE expiry[k]]
    /\ UNCHANGED <<stage, req, passed, taken, dropped>>

LimiterNext ==
    \/ Tick
    \/ \E r \in Requests :
          Dispatch(r) \/ Incr(r) \/ Expire(r) \/ Decide(r) \/ FailOpen(r) \/ Leave(r)

LimiterSpec == LimiterInit /\ [][LimiterNext]_limiterVars

-----------------------------------------------------------------------------
(* Properties. *)

(* However the requests of a bucket interleave, and whatever Redis commands *)
(* fail, at most `limit` of them pass on the counter of a window while the *)
(* window lasts: the key never expires inside its window.  (Failed         *)
(* commands let requests pass without the counter.)                        *)
WindowBound == \A k \in Keys : passed[k] <= Limit(k[1])

(* A 429 is never early: the bucket had its limit of requests in that      *)
(* window before the one that is refused.                                  *)
RefusedOverLimit == \A r \in Requests : stage[r] = "refused" => taken[KeyOf(r)] > Limit(KeyOf(r)[1])

(* A counter without a deadline stays in Redis for ever.  That happens     *)
(* only when the request that created it has lost its second command.      *)
CountersExpire == \A k \in Keys : count[k] > 0 /\ expiry[k] = Never =>
    k \in dropped \/ \E r \in Requests : stage[r] = "expire" /\ KeyOf(r) = k
=============================================================================
