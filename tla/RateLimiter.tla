----------------------------- MODULE RateLimiter -----------------------------
(***************************************************************************)
(* rateLimitMiddleware of apps/api-server/src/middleware/rate-limit.ts,    *)
(* split at its four Redis calls, over the sorted set it keeps per key.    *)
(* It is mounted before any authentication (index.ts:22), so the key is    *)
(* always the address, and a member "ip:now" is its millisecond alone:     *)
(* requests of one address in one millisecond share a member.  The API     *)
(* processes and Redis are taken to agree on the time.                     *)
(***************************************************************************)
EXTENDS Naturals, FiniteSets

CONSTANTS
  Requests,
  Address,       \* the address of each request
  ApiKey,        \* the API key it presents to the handlers behind
  Window,        \* WINDOW_MS
  Ttl,           \* the expiry of the key, WINDOW_MS rounded up to seconds
  MaxRequests,   \* MAX_REQUESTS
  MaxClock,      \* bound: milliseconds of a run
  MaxFaults      \* bound: failing Redis calls in a run

ASSUME LimiterAssumption ==
  /\ Window \in Nat \ {0} /\ Ttl \in Nat /\ Ttl >= Window
  /\ MaxRequests \in Nat /\ MaxClock \in Nat /\ MaxFaults \in Nat
  /\ DOMAIN Address = Requests /\ DOMAIN ApiKey = Requests

VARIABLES
  clock,
  log,           \* the stamps in the sorted set of each address
  expiry,        \* when Redis drops the set; 0: never
  req,           \* each request in the middleware
  faults

vars == <<clock, log, expiry, req, faults>>

Addresses == {Address[r] : r \in Requests}

PCs == {"idle", "add", "trim", "count", "expire",
        "passed", "refused", "unchecked", "gone"}

(* now: Date.now() on arrival; count: the answer of zcard; done: when the  *)
(* request left; lapsed: the set expired between its zadd and its expire.  *)
Request == [pc : PCs, now : 0..MaxClock, count : Nat, done : 0..MaxClock,
            lapsed : BOOLEAN]

TypeOK ==
  /\ clock \in 0..MaxClock
  /\ log \in [Addresses -> SUBSET (0..MaxClock)]
  /\ expiry \in [Addresses -> 0..(MaxClock + Ttl)]
  /\ req \in [Requests -> Request]
  /\ faults \in 0..MaxFaults

Init ==
  /\ clock = 0
  /\ log = [a \in Addresses |-> {}]
  /\ expiry = [a \in Addresses |-> 0]
  /\ req = [r \in Requests |-> [pc |-> "idle", now |-> 0, count |-> 0,
                                done |-> 0, lapsed |-> FALSE]]
  /\ faults = 0

-----------------------------------------------------------------------------
Jump(r, from, to) == req[r].pc = from /\ req' = [req EXCEPT ![r].pc = to]

Leave(r, from, to) ==
  /\ req[r].pc = from
  /\ req' = [req EXCEPT ![r].pc = to, ![r].done = clock]

InRedis(r) == req[r].pc \in {"add", "trim", "count", "expire"}

(* A set without members does not exist, and has no expiry.                *)
SetLog(a, stamps) ==
  /\ log' = [log EXCEPT ![a] = stamps]
  /\ expiry' = [expiry EXCEPT ![a] = IF stamps = {} THEN 0 ELSE @]

Added(r) == log[Address[r]] \cup {req[r].now}

Trimmed(r) == {t \in log[Address[r]] : t + Window > req[r].now}

Fault == faults < MaxFaults /\ faults' = faults + 1

(* The catch branch lets the request pass; the command may have run.       *)
FailsOpen(r, from, stamps) ==
  /\ Fault
  /\ Leave(r, from, "unchecked")
  /\ UNCHANGED <<log, expiry>> \/ SetLog(Address[r], stamps)

Arrive(r) ==
  /\ req[r].pc = "idle"
  /\ req' = [req EXCEPT ![r].pc = "add", ![r].now = clock]
  /\ UNCHANGED <<log, expiry, faults>>

Add(r) ==
  \/ Jump(r, "add", "trim") /\ SetLog(Address[r], Added(r)) /\ UNCHANGED faults
  \/ FailsOpen(r, "add", Added(r))

TrimAll(r) ==
  \/ Jump(r, "trim", "count") /\ SetLog(Address[r], {req[r].now}) /\ UNCHANGED faults
  \/ FailsOpen(r, "trim", {req[r].now})

TrimNothing(r) ==
  \/ Jump(r, "trim", "count") /\ UNCHANGED <<log, expiry, faults>>
  \/ FailsOpen(r, "trim", log[Address[r]])

Trim(r) ==
  \/ Jump(r, "trim", "count") /\ SetLog(Address[r], Trimmed(r)) /\ UNCHANGED faults
  \/ FailsOpen(r, "trim", Trimmed(r))

Count(r) ==
  \/ /\ req[r].pc = "count"
     /\ req' = [req EXCEPT ![r].pc = "expire",
                           ![r].count = Cardinality(log[Address[r]])]
     /\ UNCHANGED <<log, expiry, faults>>
  \/ FailsOpen(r, "count", log[Address[r]])

Verdict(r) == IF req[r].count > MaxRequests THEN "refused" ELSE "passed"

RenewExtends(a) ==
  expiry' = [expiry EXCEPT ![a] = IF log[a] = {} THEN 0 ELSE clock + @ + Ttl]

Renew(a) ==
  expiry' = [expiry EXCEPT ![a] = IF log[a] = {} THEN 0 ELSE clock + Ttl]

ExpireOnlyPassed(r) ==
  /\ Leave(r, "expire", Verdict(r))
  /\ IF Verdict(r) = "passed" THEN Renew(Address[r]) ELSE UNCHANGED expiry
  /\ UNCHANGED <<log, faults>>

(* expire, then the comparison with MAX_REQUESTS and the answer.           *)
Expire(r) ==
  /\ \/ Leave(r, "expire", Verdict(r)) /\ Renew(Address[r]) /\ UNCHANGED faults
     \/ Fault /\ Leave(r, "expire", "unchecked")
              /\ (Renew(Address[r]) \/ UNCHANGED expiry)
  /\ UNCHANGED log

(* The API process that serves r dies between two of its Redis calls, or   *)
(* before the answer of one; nobody runs the calls that were to follow.    *)
Die(r) ==
  /\ InRedis(r)
  /\ Leave(r, req[r].pc, "gone")
  /\ UNCHANGED <<log, expiry, faults>>

Due(a) == expiry[a] # 0 /\ expiry[a] <= clock + 1

(* A millisecond passes; Redis drops the sets that are due.                *)
Tick ==
  /\ clock < MaxClock
  /\ clock' = clock + 1
  /\ log' = [a \in Addresses |-> IF Due(a) THEN {} ELSE log[a]]
  /\ expiry' = [a \in Addresses |-> IF Due(a) THEN 0 ELSE expiry[a]]
  /\ req' = [r \in Requests |->
               IF Due(Address[r]) /\ req[r].pc \in {"trim", "count", "expire"}
               THEN [req[r] EXCEPT !.lapsed = TRUE] ELSE req[r]]
  /\ UNCHANGED faults

Handle(r) ==
  Arrive(r) \/ Add(r) \/ Trim(r) \/ Count(r) \/ Expire(r) \/ Die(r)

Next == Tick \/ \E r \in Requests : Handle(r) /\ UNCHANGED clock

Spec == Init /\ [][Next]_vars

-----------------------------------------------------------------------------
(* What the sliding window guarantees although its four calls interleave:  *)
(* of the requests answered within d milliseconds, any Window - d          *)
(* milliseconds hold passed ones in at most MaxRequests of them.  Slow     *)
(* requests shorten the window, as a later one may trim before they count; *)
(* requests whose set expires under them are not counted.                  *)
WindowLimit ==
  \A a \in Addresses, d \in 0..(Window - 1), t \in 0..clock :
    LET Recent == {r \in Requests :
          /\ Address[r] = a /\ req[r].pc = "passed" /\ ~req[r].lapsed
          /\ req[r].done <= req[r].now + d
          /\ req[r].now <= t /\ t < req[r].now + Window - d}
    IN  Cardinality({req[r].now : r \in Recent}) <= MaxRequests

(* Nobody is refused for what lies behind: more than MaxRequests requests  *)
(* of the address arrived within the window before the refused one, or     *)
(* later, or were still in Redis when it arrived (rate-limit.ts:26-38).    *)
RefusedForRecent ==
  \A r \in Requests :
    req[r].pc = "refused" =>
      Cardinality({q \in Requests :
        /\ Address[q] = Address[r] /\ req[q].pc # "idle"
        /\ \/ InRedis(q)
           \/ req[q].done >= req[r].now
           \/ req[q].now + Window > req[r].now}) > MaxRequests

(* Did r end without its expire, when no later request had come as far?    *)
CutShort(r) ==
  /\ req[r].pc \in {"unchecked", "gone"}
  /\ \A q \in Requests :
       Address[q] = Address[r] /\ req[q].pc \in {"passed", "refused"} =>
         req[q].done <= req[r].done

(* A set that exists expires unless a request is between its calls, or the *)
(* last to end was cut short by a failing call or the death of its process *)
(* (rate-limit.ts:25-30): the next request that ends repairs it.           *)
QuietSetExpires ==
  \A a \in Addresses :
    log[a] # {} /\ expiry[a] <= clock =>
      \E r \in Requests : Address[r] = a /\ (InRedis(r) \/ CutShort(r))

(* README.md:235 says the window is per key: a request is refused only for *)
(* what was sent with its own API key.                                     *)
PerKey ==
  \A r \in Requests :
    req[r].pc = "refused" =>
      Cardinality({q \in Requests :
        ApiKey[q] = ApiKey[r] /\ req[q].pc # "idle"}) > MaxRequests
=============================================================================
