-------------------------- MODULE RateLimiterProofs --------------------------
(***************************************************************************)
(* The rate limiter for every number of requests and addresses, every      *)
(* window and limit, and every interleaving of the four Redis calls.       *)
(***************************************************************************)
EXTENDS RateLimiter, FiniteSetTheorems, TLAPS

-----------------------------------------------------------------------------
(* Steps and types.                                                        *)

Stamps == 0..MaxClock

LEMMA AddressType == \A r \in Requests : Address[r] \in Addresses
  BY DEF Addresses

LEMMA RequestType ==
  ASSUME TypeOK, NEW r \in Requests
  PROVE  /\ req[r].pc \in PCs /\ req[r].now \in Stamps /\ req[r].count \in Nat
         /\ req[r].done \in Stamps /\ req[r].lapsed \in BOOLEAN
         /\ clock \in Stamps /\ clock \in Nat /\ req[r].now \in Nat /\ req[r].done \in Nat
         /\ log[Address[r]] \in SUBSET Stamps
         /\ expiry[Address[r]] \in Nat
  BY LimiterAssumption, AddressType DEF TypeOK, Request, Stamps

(* A set holds finitely many stamps.                                       *)
LEMMA LogFinite ==
  ASSUME TypeOK, NEW a \in Addresses
  PROVE  IsFiniteSet(log[a]) /\ Cardinality(log[a]) \in Nat
<1>1. IsFiniteSet(0..MaxClock)
  BY LimiterAssumption, FS_Interval
<1> QED
  BY <1>1, FS_Subset, FS_CardinalityType DEF TypeOK

LEMMA SetLogType ==
  ASSUME TypeOK, NEW a \in Addresses, NEW stamps \in SUBSET Stamps, SetLog(a, stamps)
  PROVE  /\ log' \in [Addresses -> SUBSET (0..MaxClock)]
         /\ expiry' \in [Addresses -> 0..(MaxClock + Ttl)]
         /\ log'[a] = stamps
         /\ expiry'[a] = IF stamps = {} THEN 0 ELSE expiry[a]
         /\ \A b \in Addresses : b # a => log'[b] = log[b] /\ expiry'[b] = expiry[b]
  BY LimiterAssumption DEF TypeOK, SetLog, Stamps

LEMMA RenewType ==
  ASSUME TypeOK, NEW a \in Addresses, Renew(a)
  PROVE  /\ expiry' \in [Addresses -> 0..(MaxClock + Ttl)]
         /\ expiry'[a] = IF log[a] = {} THEN 0 ELSE clock + Ttl
         /\ \A b \in Addresses : b # a => expiry'[b] = expiry[b]
  BY LimiterAssumption DEF TypeOK, Renew

(* What a request's own step does to its record, with the set it leaves:   *)
(* every step is one of these, and the other requests' records stay.       *)
LogAndExpiry(r, stamps) ==
  /\ log'[Address[r]] = stamps
  /\ expiry'[Address[r]] = IF stamps = {} THEN 0 ELSE expiry[Address[r]]

Arrives(r) ==
  /\ req[r].pc = "idle"
  /\ req'[r] = [req[r] EXCEPT !.pc = "add", !.now = clock]
  /\ UNCHANGED <<log, expiry, faults>>

Moves(r, from, to, stamps) ==
  /\ req[r].pc = from
  /\ req'[r] = [req[r] EXCEPT !.pc = to]
  /\ LogAndExpiry(r, stamps)
  /\ UNCHANGED faults

(* A call that fails, or the death of the process: the request is cut off. *)
CutOff(r) ==
  /\ \/ req'[r] = [req[r] EXCEPT !.pc = "unchecked", !.done = clock]
     \/ req'[r] = [req[r] EXCEPT !.pc = "gone", !.done = clock]
  /\ faults' \in {faults, faults + 1}

Fails(r, from, stamps) ==
  /\ req[r].pc = from
  /\ CutOff(r)
  /\ \/ LogAndExpiry(r, stamps)
     \/ UNCHANGED <<log, expiry>>

Counts(r) ==
  /\ req[r].pc = "count"
  /\ req'[r] = [req[r] EXCEPT !.pc = "expire",
                              !.count = Cardinality(log[Address[r]])]
  /\ UNCHANGED <<log, expiry, faults>>

Answers(r) ==
  /\ req[r].pc = "expire"
  /\ req'[r] = [req[r] EXCEPT !.pc = Verdict(r), !.done = clock]
  /\ expiry'[Address[r]] = IF log[Address[r]] = {} THEN 0 ELSE clock + Ttl
  /\ UNCHANGED <<log, faults>>

FailsLate(r) ==
  /\ req[r].pc = "expire"
  /\ CutOff(r)
  /\ expiry'[Address[r]] \in {expiry[Address[r]],
                              IF log[Address[r]] = {} THEN 0 ELSE clock + Ttl}
  /\ UNCHANGED log

Steps(r) ==
  /\ \/ Arrives(r)
     \/ Moves(r, "add", "trim", Added(r)) \/ Fails(r, "add", Added(r))
     \/ Moves(r, "trim", "count", Trimmed(r)) \/ Fails(r, "trim", Trimmed(r))
     \/ Counts(r) \/ Fails(r, "count", log[Address[r]])
     \/ Answers(r) \/ FailsLate(r)
  /\ \A q \in Requests : q # r => req'[q] = req[q]
  /\ \A b \in Addresses : b # Address[r] => log'[b] = log[b] /\ expiry'[b] = expiry[b]
  /\ UNCHANGED clock

LEMMA AddedTrimmed ==
  ASSUME TypeOK, NEW r \in Requests
  PROVE  Added(r) \in SUBSET Stamps /\ Trimmed(r) \in SUBSET Stamps
  BY RequestType DEF Added, Trimmed

LEMMA StepType ==
  ASSUME TypeOK, NEW r \in Requests, Handle(r), UNCHANGED clock
  PROVE  /\ Steps(r)
         /\ log' \in [Addresses -> SUBSET (0..MaxClock)]
         /\ expiry' \in [Addresses -> 0..(MaxClock + Ttl)]
         /\ req' \in [Requests -> Request]
         /\ faults' \in 0..MaxFaults
<1>1. /\ req \in [Requests -> Request] /\ Address[r] \in Addresses
      /\ log \in [Addresses -> SUBSET (0..MaxClock)]
      /\ expiry \in [Addresses -> 0..(MaxClock + Ttl)]
      /\ faults \in 0..MaxFaults /\ clock \in 0..MaxClock
      /\ faults \in Nat
  BY AddressType, LimiterAssumption DEF TypeOK
<1>2. ASSUME NEW from, NEW to \in PCs, Jump(r, from, to)
      PROVE  /\ req[r].pc = from /\ req'[r] = [req[r] EXCEPT !.pc = to]
             /\ \A q \in Requests : q # r => req'[q] = req[q]
             /\ req' \in [Requests -> Request]
  BY <1>1, <1>2 DEF Jump, Request
<1>3. ASSUME NEW from, NEW to \in PCs, Leave(r, from, to)
      PROVE  /\ req[r].pc = from
             /\ req'[r] = [req[r] EXCEPT !.pc = to, !.done = clock]
             /\ \A q \in Requests : q # r => req'[q] = req[q]
             /\ req' \in [Requests -> Request]
  BY <1>1, <1>3 DEF Leave, Request
<1>4. Fault => faults' = faults + 1 /\ faults' \in 0..MaxFaults
  BY <1>1, LimiterAssumption DEF Fault
<1>5. ASSUME NEW stamps \in SUBSET Stamps, SetLog(Address[r], stamps)
      PROVE  /\ LogAndExpiry(r, stamps)
             /\ log' \in [Addresses -> SUBSET (0..MaxClock)]
             /\ expiry' \in [Addresses -> 0..(MaxClock + Ttl)]
             /\ \A b \in Addresses : b # Address[r] =>
                  log'[b] = log[b] /\ expiry'[b] = expiry[b]
  BY <1>1, <1>5, SetLogType DEF LogAndExpiry
<1>6. ASSUME NEW from, NEW stamps \in SUBSET Stamps, FailsOpen(r, from, stamps)
      PROVE  /\ Fails(r, from, stamps) /\ faults' \in 0..MaxFaults
             /\ req' \in [Requests -> Request]
             /\ \A q \in Requests : q # r => req'[q] = req[q]
             /\ log' \in [Addresses -> SUBSET (0..MaxClock)]
             /\ expiry' \in [Addresses -> 0..(MaxClock + Ttl)]
             /\ \A b \in Addresses : b # Address[r] =>
                  log'[b] = log[b] /\ expiry'[b] = expiry[b]
  <2>1. "unchecked" \in PCs
    BY DEF PCs
  <2> QED
    BY <1>1, <1>3, <1>4, <1>5, <1>6, <2>1 DEF FailsOpen, Fails, CutOff
<1>7. CASE Arrive(r)
  <2>1. /\ Arrives(r) /\ \A q \in Requests : q # r => req'[q] = req[q]
        /\ req' \in [Requests -> Request]
    BY <1>1, <1>7 DEF Arrive, Arrives, Request, PCs
  <2> QED
    BY <1>1, <2>1 DEF Arrives, Steps
<1>8. CASE Add(r)
  BY <1>1, <1>2, <1>5, <1>6, <1>8, AddedTrimmed DEF Add, Steps, Moves, PCs
<1>9. CASE Trim(r)
  BY <1>1, <1>2, <1>5, <1>6, <1>9, AddedTrimmed DEF Trim, Steps, Moves, PCs
<1>10. CASE Count(r)
  <2>1. CASE FailsOpen(r, "count", log[Address[r]])
    BY <1>1, <1>6, <2>1 DEF Steps, Stamps
  <2>2. CASE ~FailsOpen(r, "count", log[Address[r]])
    <3> DEFINE n == Cardinality(log[Address[r]])
    <3>1. n \in Nat
      BY <1>1, LogFinite
    <3>2. /\ req[r].pc = "count"
          /\ req' = [req EXCEPT ![r].pc = "expire", ![r].count = n]
          /\ UNCHANGED <<log, expiry, faults>>
      BY <1>10, <2>2 DEF Count
    <3> HIDE DEF n
    <3>3. /\ req'[r] = [req[r] EXCEPT !.pc = "expire", !.count = n]
          /\ \A q \in Requests : q # r => req'[q] = req[q]
      BY <1>1, <3>2
    <3>4. req' \in [Requests -> Request]
      BY <1>1, <3>1, <3>2 DEF Request, PCs
    <3>5. Counts(r)
      BY <3>2, <3>3 DEF Counts, n
    <3> QED
      BY <1>1, <3>3, <3>4, <3>5 DEF Counts, Steps
  <2> QED
    BY <2>1, <2>2
<1>11. CASE Expire(r)
  <2>1. UNCHANGED log /\ Verdict(r) \in PCs /\ "unchecked" \in PCs
    BY <1>11 DEF Expire, Verdict, PCs
  <2>2. CASE Leave(r, "expire", Verdict(r)) /\ Renew(Address[r]) /\ UNCHANGED faults
    <3>1. /\ Answers(r) /\ expiry' \in [Addresses -> 0..(MaxClock + Ttl)]
          /\ \A b \in Addresses : b # Address[r] => expiry'[b] = expiry[b]
      BY <1>1, <1>3, <2>1, <2>2, RenewType DEF Answers
    <3> QED
      BY <1>1, <1>3, <2>1, <2>2, <3>1 DEF Steps
  <2>3. CASE /\ Fault /\ Leave(r, "expire", "unchecked")
             /\ (Renew(Address[r]) \/ UNCHANGED expiry)
    <3>1. /\ FailsLate(r) /\ expiry' \in [Addresses -> 0..(MaxClock + Ttl)]
          /\ \A b \in Addresses : b # Address[r] => expiry'[b] = expiry[b]
      BY <1>1, <1>3, <1>4, <2>1, <2>3, RenewType DEF FailsLate, CutOff
    <3> QED
      BY <1>1, <1>3, <1>4, <2>1, <2>3, <3>1 DEF Steps
  <2> QED
    BY <1>11, <2>2, <2>3 DEF Expire
<1>12. CASE Die(r)
  <2>1. req[r].pc \in {"add", "trim", "count", "expire"} /\ "gone" \in PCs
    BY <1>12 DEF Die, InRedis, PCs
  <2>2. /\ CutOff(r) /\ UNCHANGED <<log, expiry, faults>>
        /\ \A q \in Requests : q # r => req'[q] = req[q]
        /\ req' \in [Requests -> Request]
    BY <1>3, <1>12, <2>1 DEF Die, CutOff
  <2>3. \/ Fails(r, "add", Added(r)) \/ Fails(r, "trim", Trimmed(r))
        \/ Fails(r, "count", log[Address[r]]) \/ FailsLate(r)
    BY <2>1, <2>2 DEF Fails, FailsLate
  <2> QED
    BY <1>1, <2>2, <2>3 DEF Steps
<1> QED
  BY <1>7, <1>8, <1>9, <1>10, <1>11, <1>12 DEF Handle

(* A millisecond for one address and one request.                          *)
LEMMA TickType ==
  ASSUME TypeOK, Tick
  PROVE  /\ clock' = clock + 1 /\ clock' \in Stamps /\ UNCHANGED faults
         /\ \A a \in Addresses :
              \/ Due(a) /\ log'[a] = {} /\ expiry'[a] = 0
              \/ ~Due(a) /\ log'[a] = log[a] /\ expiry'[a] = expiry[a]
         /\ \A r \in Requests :
              /\ req'[r].pc = req[r].pc /\ req'[r].now = req[r].now
              /\ req'[r].count = req[r].count /\ req'[r].done = req[r].done
              /\ req[r].lapsed => req'[r].lapsed
              /\ Due(Address[r]) /\ req[r].pc \in {"trim", "count", "expire"} =>
                   req'[r].lapsed
<1>1. \A r \in Requests : req[r] \in Request
  BY DEF TypeOK
<1>2. clock' = clock + 1 /\ clock' \in Stamps /\ UNCHANGED faults
  BY LimiterAssumption DEF TypeOK, Tick, Stamps
<1>3. ASSUME NEW a \in Addresses
      PROVE  \/ Due(a) /\ log'[a] = {} /\ expiry'[a] = 0
             \/ ~Due(a) /\ log'[a] = log[a] /\ expiry'[a] = expiry[a]
  BY DEF Tick
<1>4. ASSUME NEW r \in Requests
      PROVE  /\ req'[r].pc = req[r].pc /\ req'[r].now = req[r].now
             /\ req'[r].count = req[r].count /\ req'[r].done = req[r].done
             /\ req[r].lapsed => req'[r].lapsed
             /\ Due(Address[r]) /\ req[r].pc \in {"trim", "count", "expire"} =>
                  req'[r].lapsed
  BY <1>1 DEF Tick, Request
<1> QED
  BY <1>2, <1>3, <1>4

LEMMA InitTypes == Init => TypeOK
  BY LimiterAssumption DEF Init, TypeOK, Request, PCs

LEMMA NextTypes == TypeOK /\ [Next]_vars => TypeOK'
<1> SUFFICES ASSUME TypeOK, [Next]_vars
             PROVE  TypeOK'
  OBVIOUS
<1>1. CASE UNCHANGED vars
  BY <1>1 DEF vars, TypeOK
<1>2. ASSUME NEW r \in Requests, Handle(r), UNCHANGED clock
      PROVE  TypeOK'
  BY <1>2, StepType DEF TypeOK
<1>3. CASE Tick
  <2>1. req' \in [Requests -> Request]
    BY <1>3 DEF Tick, TypeOK, Request
  <2>2. expiry' \in [Addresses -> 0..(MaxClock + Ttl)]
    BY <1>3, LimiterAssumption DEF Tick, TypeOK
  <2>3. log' \in [Addresses -> SUBSET (0..MaxClock)]
    BY <1>3 DEF Tick, TypeOK
  <2>4. clock' \in 0..MaxClock /\ faults' \in 0..MaxFaults
    BY <1>3, LimiterAssumption DEF Tick, TypeOK
  <2> QED
    BY <2>1, <2>2, <2>3, <2>4 DEF TypeOK
<1> QED
  BY <1>1, <1>2, <1>3 DEF Next

(* Every variable of the limiter keeps its type.                           *)
THEOREM LimiterTypeCorrect == Spec => []TypeOK
  BY InitTypes, NextTypes, PTL DEF Spec

(* What the other requests and the invariants need to know of a step.      *)
LEMMA OwnStep ==
  ASSUME TypeOK, NEW p \in Requests, Steps(p)
  PROVE  /\ req'[p].pc # "idle"
         /\ req[p].pc = "idle" => req'[p].pc = "add" /\ req'[p].now = clock
         /\ req[p].pc # "idle" => InRedis(p) /\ req'[p].now = req[p].now
         /\ req'[p].pc \notin {"add", "trim", "count", "expire"} => req'[p].done = clock
         /\ req'[p].lapsed = req[p].lapsed
         /\ faults \in Nat /\ faults' \in {faults, faults + 1}
<1>1. req[p] \in Request /\ faults \in Nat
  BY LimiterAssumption DEF TypeOK
<1> QED
  BY <1>1 DEF Steps, Arrives, Moves, Fails, Counts, Answers, FailsLate, CutOff, InRedis,
     Request, Verdict

LEMMA OwnLog ==
  ASSUME TypeOK, NEW p \in Requests, Steps(p), NEW t \in log'[Address[p]]
  PROVE  t \in log[Address[p]] \/ (req[p].pc = "add" /\ t = req[p].now)
  BY DEF Steps, Arrives, Moves, Fails, Counts, Answers, FailsLate, CutOff, LogAndExpiry,
     Added, Trimmed

-----------------------------------------------------------------------------
(* Stamps.                                                                 *)

(* Requests come from the past.                                            *)
ArrivedInv == \A r \in Requests : req[r].now <= clock

(* Every stamp in a set is that of a request that arrived.                 *)
SourceInv ==
  \A a \in Addresses : \A t \in log[a] :
    \E q \in Requests : Address[q] = a /\ req[q].pc # "idle" /\ req[q].now = t

LEMMA StepArrived ==
  ASSUME TypeOK, ArrivedInv, [Next]_vars
  PROVE  ArrivedInv'
<1>1. CASE UNCHANGED vars
  BY <1>1 DEF vars, ArrivedInv
<1>2. ASSUME NEW p \in Requests, Handle(p), UNCHANGED clock
      PROVE  ArrivedInv'
  <2>1. Steps(p) /\ clock \in Nat
    BY <1>2, StepType, LimiterAssumption DEF TypeOK
  <2> QED
    BY <1>2, <2>1, OwnStep DEF Steps, ArrivedInv
<1>3. CASE Tick
  <2>1. clock' = clock + 1 /\ \A r \in Requests : req'[r].now = req[r].now
    BY <1>3, TickType
  <2>2. \A r \in Requests : req[r].now \in Nat /\ clock \in Nat
    BY RequestType
  <2> QED
    BY <2>1, <2>2 DEF ArrivedInv
<1> QED
  BY <1>1, <1>2, <1>3 DEF Next

LEMMA StepSource ==
  ASSUME TypeOK, SourceInv, [Next]_vars
  PROVE  SourceInv'
<1>1. CASE UNCHANGED vars
  BY <1>1 DEF vars, SourceInv
<1>2. ASSUME NEW p \in Requests, Handle(p), UNCHANGED clock
      PROVE  SourceInv'
  <2>1. Steps(p)
    BY <1>2, StepType
  <2> SUFFICES ASSUME NEW a \in Addresses, NEW t \in log'[a]
               PROVE  \E q \in Requests :
                        Address[q] = a /\ req'[q].pc # "idle" /\ req'[q].now = t
    BY DEF SourceInv
  <2>2. CASE t \in log[a]
    <3>1. PICK q \in Requests : Address[q] = a /\ req[q].pc # "idle" /\ req[q].now = t
      BY <2>2 DEF SourceInv
    <3>2. req'[q].pc # "idle" /\ req'[q].now = t
      BY <2>1, <3>1, OwnStep DEF Steps
    <3> QED
      BY <3>1, <3>2
  <2>3. CASE t \notin log[a]
    <3>1. a = Address[p]
      BY <2>1, <2>3 DEF Steps
    <3>2. req[p].pc = "add" /\ t = req[p].now
      BY <2>1, <2>3, <3>1, OwnLog
    <3>3. req'[p].pc # "idle" /\ req'[p].now = t
      BY <2>1, <3>2, OwnStep
    <3> QED
      BY <3>1, <3>3
  <2> QED
    BY <2>2, <2>3
<1>3. CASE Tick
  <2>1. \A a \in Addresses : log'[a] = {} \/ log'[a] = log[a]
    BY <1>3, TickType
  <2>2. \A r \in Requests : req'[r].now = req[r].now /\ req'[r].pc = req[r].pc
    BY <1>3, TickType
  <2> QED
    BY <2>1, <2>2 DEF SourceInv
<1> QED
  BY <1>1, <1>2, <1>3 DEF Next

-----------------------------------------------------------------------------
(* Expiry.                                                                 *)

(* An expiry lies ahead, and a set without one is still being handled or   *)
(* was left by a request that was cut short.                               *)
Watched(a) == \E r \in Requests : Address[r] = a /\ (InRedis(r) \/ CutShort(r))

ExpiryInv ==
  /\ \A r \in Requests : req[r].done <= clock
  /\ \A a \in Addresses : /\ expiry[a] # 0 => expiry[a] > clock
                          /\ log[a] # {} /\ expiry[a] = 0 => Watched(a)

(* A request's own step sets when it was done, and to the present.         *)
LEMMA OwnDone ==
  ASSUME TypeOK, NEW p \in Requests, Steps(p)
  PROVE  /\ req'[p].done \in {req[p].done, clock}
         /\ \/ Answers(p)
            \/ InRedis(p)'
            \/ req'[p].pc \in {"unchecked", "gone"} /\ req'[p].done = clock
<1>1. req[p] \in Request
  BY DEF TypeOK
<1>2. CASE Answers(p)
  BY <1>1, <1>2 DEF Answers, Request
<1>3. CASE CutOff(p)
  BY <1>1, <1>3 DEF CutOff, Request
<1>4. CASE Arrives(p) \/ Counts(p)
  BY <1>1, <1>4 DEF Arrives, Counts, InRedis, Request
<1>5. CASE Moves(p, "add", "trim", Added(p)) \/ Moves(p, "trim", "count", Trimmed(p))
  BY <1>1, <1>5 DEF Moves, InRedis, Request
<1> QED
  BY <1>2, <1>3, <1>4, <1>5 DEF Steps, Fails, FailsLate

LEMMA StepExpiry ==
  ASSUME TypeOK, ExpiryInv, [Next]_vars
  PROVE  ExpiryInv'
<1>1. CASE UNCHANGED vars
  BY <1>1 DEF vars, ExpiryInv, Watched, InRedis, CutShort
<1>2. clock \in Nat /\ Ttl \in Nat \ {0} /\ \A r \in Requests : req[r].done \in Nat
  BY RequestType, LimiterAssumption DEF TypeOK
<1>3. ASSUME NEW p \in Requests, Handle(p), UNCHANGED clock
      PROVE  ExpiryInv'
  <2>1. Steps(p) /\ \A q \in Requests : q # p => req'[q] = req[q]
    BY <1>3, StepType DEF Steps
  <2>2. \A q \in Requests : req'[q].done <= clock
    BY <1>2, <2>1, OwnDone DEF ExpiryInv
  <2>3. ASSUME NEW a \in Addresses
        PROVE  /\ expiry'[a] # 0 => expiry'[a] > clock
               /\ log'[a] # {} /\ expiry'[a] = 0 => Watched(a)'
    <3>1. expiry[a] # 0 => expiry[a] > clock
      BY DEF ExpiryInv
    <3>2. CASE a # Address[p]
      <4>1. log'[a] = log[a] /\ expiry'[a] = expiry[a]
        BY <2>1, <3>2 DEF Steps
      <4>2. \A q \in Requests : Address[q] = a => req'[q] = req[q]
        BY <2>1, <3>2
      <4>3. Watched(a) => Watched(a)'
        BY <4>2 DEF Watched, InRedis, CutShort
      <4> QED
        BY <3>1, <4>1, <4>3 DEF ExpiryInv
    <3>3. CASE a = Address[p]
      <4>1. expiry'[a] \in {0, expiry[a], clock + Ttl}
        BY <2>1, <3>3 DEF Steps, Arrives, Moves, Fails, Counts, Answers, FailsLate,
           CutOff, LogAndExpiry
      <4>2. ASSUME log'[a] # {}, expiry'[a] = 0
            PROVE  Watched(a)'
        <5>1. ~Answers(p)
          BY <1>2, <3>3, <4>2 DEF Answers
        <5>2. CASE req'[p].pc \in {"unchecked", "gone"} /\ req'[p].done = clock
          BY <2>2, <3>3, <5>2 DEF Watched, CutShort
        <5> QED
          BY <2>1, <3>3, <5>1, <5>2, OwnDone DEF Watched
      <4> QED
        BY <1>2, <3>1, <4>1, <4>2
    <3> QED
      BY <3>2, <3>3
  <2> QED
    BY <1>3, <2>2, <2>3 DEF ExpiryInv
<1>4. CASE Tick
  <2>1. /\ clock' = clock + 1
        /\ \A q \in Requests : req'[q].pc = req[q].pc /\ req'[q].done = req[q].done
    BY <1>4, TickType
  <2>2. ASSUME NEW a \in Addresses
        PROVE  /\ expiry'[a] # 0 => expiry'[a] > clock'
               /\ log'[a] # {} /\ expiry'[a] = 0 => Watched(a)'
    <3>1. expiry[a] \in Nat
      BY LimiterAssumption DEF TypeOK
    <3>2. CASE log'[a] = {} /\ expiry'[a] = 0
      BY <3>2
    <3>3. CASE ~Due(a) /\ log'[a] = log[a] /\ expiry'[a] = expiry[a]
      <4>1. expiry'[a] # 0 => expiry'[a] > clock'
        BY <1>2, <2>1, <3>1, <3>3 DEF Due
      <4>2. Watched(a) => Watched(a)'
        BY <2>1 DEF Watched, InRedis, CutShort
      <4> QED
        BY <3>3, <4>1, <4>2 DEF ExpiryInv
    <3> QED
      BY <1>4, <3>2, <3>3, TickType
  <2>3. \A q \in Requests : req'[q].done <= clock'
    BY <1>2, <2>1 DEF ExpiryInv
  <2> QED
    BY <2>2, <2>3 DEF ExpiryInv
<1> QED
  BY <1>1, <1>3, <1>4 DEF Next

(* No set outlives its use: one that exists is going to expire, unless a   *)
(* request is at work on it or the last to end was cut short by a failing  *)
(* call or the death of its process.                                       *)
THEOREM QuietSetsExpire == Spec => []QuietSetExpires
<1>1. Init => ExpiryInv
  BY LimiterAssumption DEF Init, ExpiryInv
<1>2. TypeOK /\ ExpiryInv /\ [Next]_vars => ExpiryInv'
  BY StepExpiry
<1>3. TypeOK /\ ExpiryInv => QuietSetExpires
  <2> SUFFICES ASSUME TypeOK, ExpiryInv, NEW a \in Addresses, log[a] # {},
                      expiry[a] <= clock
               PROVE  Watched(a)
    BY DEF QuietSetExpires, Watched
  <2>1. expiry[a] \in Nat /\ clock \in Nat
    BY LimiterAssumption DEF TypeOK
  <2> QED
    BY <2>1 DEF ExpiryInv
<1> QED
  BY LimiterTypeCorrect, <1>1, <1>2, <1>3, PTL DEF Spec

-----------------------------------------------------------------------------
(* Refusals.                                                               *)

(* The requests that may count against r.                                  *)
Relevant(r) ==
  {q \in Requests :
     /\ Address[q] = Address[r] /\ req[q].pc # "idle"
     /\ \/ InRedis(q)
        \/ req[q].done >= req[r].now
        \/ req[q].now + Window > req[r].now}

Arrived == {q \in Requests : req[q].pc # "idle"}

(* What r counts once it trimmed: stamps of relevant requests only.        *)
CountedInv ==
  /\ IsFiniteSet(Arrived)
  /\ \A r \in Requests :
       /\ req[r].pc = "count" =>
            \A t \in log[Address[r]] : \E q \in Relevant(r) : req[q].now = t
       /\ req[r].pc \in {"expire", "refused"} =>
            req[r].count <= Cardinality(Relevant(r))
       /\ req[r].pc = "refused" => req[r].count > MaxRequests
       /\ req[r].pc = "passed" => req[r].count <= MaxRequests

(* Who is relevant to a request stays so.                                  *)
LEMMA RelevantGrows ==
  ASSUME TypeOK, ArrivedInv, [Next]_vars, NEW r \in Requests, req[r].pc # "idle"
  PROVE  /\ Relevant(r) \subseteq Relevant(r)'
         /\ \A q \in Requests : req[q].pc # "idle" =>
              req'[q].pc # "idle" /\ req'[q].now = req[q].now
<1>1. CASE UNCHANGED vars
  BY <1>1 DEF vars, Relevant, InRedis
<1>2. ASSUME NEW p \in Requests, Handle(p), UNCHANGED clock
      PROVE  /\ Relevant(r) \subseteq Relevant(r)'
             /\ \A q \in Requests : req[q].pc # "idle" =>
                  req'[q].pc # "idle" /\ req'[q].now = req[q].now
  <2>1. Steps(p)
    BY <1>2, StepType
  <2>2. \A q \in Requests : req[q].pc # "idle" =>
          req'[q].pc # "idle" /\ req'[q].now = req[q].now
    BY <2>1, OwnStep DEF Steps
  <2>3. req'[r].now = req[r].now /\ req[r].now <= clock
    BY <2>2 DEF ArrivedInv
  <2>4. ASSUME NEW q \in Relevant(r)
        PROVE  q \in Relevant(r)'
    <3>1. q \in Requests /\ Address[q] = Address[r] /\ req[q].pc # "idle"
      BY DEF Relevant
    <3>2. CASE q # p
      BY <2>1, <2>3, <2>4, <3>1, <3>2 DEF Steps, Relevant, InRedis
    <3>3. CASE q = p
      <4>1. InRedis(q)' \/ req'[q].done = clock
        BY <2>1, <3>3, OwnStep DEF InRedis
      <4>2. InRedis(q)' \/ req'[q].done >= req'[r].now
        BY <2>3, <4>1
      <4> QED
        BY <2>2, <3>1, <4>2 DEF Relevant
    <3> QED
      BY <3>2, <3>3
  <2> QED
    BY <2>2, <2>4
<1>3. CASE Tick
  BY <1>3, TickType DEF Relevant, InRedis
<1> QED
  BY <1>1, <1>2, <1>3 DEF Next

LEMMA RelevantFinite ==
  ASSUME IsFiniteSet(Arrived), NEW r
  PROVE  IsFiniteSet(Relevant(r)) /\ Cardinality(Relevant(r)) \in Nat
<1>1. Relevant(r) \subseteq Arrived
  BY DEF Relevant, Arrived
<1> QED
  BY <1>1, FS_Subset, FS_CardinalityType

LEMMA StepFinite ==
  ASSUME TypeOK, IsFiniteSet(Arrived), [Next]_vars
  PROVE  IsFiniteSet(Arrived')
<1>1. CASE UNCHANGED vars
  BY <1>1 DEF vars, Arrived
<1>2. ASSUME NEW p \in Requests, Handle(p), UNCHANGED clock
      PROVE  IsFiniteSet(Arrived')
  <2>1. Steps(p)
    BY <1>2, StepType
  <2>2. Arrived' \subseteq Arrived \cup {p}
    BY <2>1 DEF Steps, Arrived
  <2>3. IsFiniteSet(Arrived \cup {p})
    BY FS_AddElement
  <2> QED
    BY <2>2, <2>3, FS_Subset
<1>3. CASE Tick
  <2>1. Arrived' = Arrived
    BY <1>3, TickType DEF Arrived
  <2> QED
    BY <2>1
<1> QED
  BY <1>1, <1>2, <1>3 DEF Next

(* Requests whose stamps make up a set are as many as its stamps.          *)
LEMMA StampsCounted ==
  ASSUME NEW S, NEW T, IsFiniteSet(T), NEW f, \A t \in S : \E q \in T : f[q].now = t
  PROVE  Cardinality(S) <= Cardinality(T)
<1> DEFINE g == [t \in S |-> CHOOSE q \in T : f[q].now = t]
<1>1. \A t \in S : g[t] \in T /\ f[g[t]].now = t
  OBVIOUS
<1>2. g \in [S -> T]
  BY <1>1
<1> HIDE DEF g
<1>3. \A t, u \in S : g[t] = g[u] => t = u
  BY <1>1
<1>4. g \in Injection(S, T)
  BY <1>2, <1>3 DEF Injection, IsInjective
<1> QED
  BY <1>4, FS_Injection

(* What a counting request leaves behind: a verdict on what it counted.    *)
LEMMA CountedOther ==
  ASSUME TypeOK, ArrivedInv, CountedInv, SourceInv, [Next]_vars, NEW r \in Requests,
         req'[r].pc = "count"
  PROVE  \A t \in log'[Address[r]] : \E q \in Relevant(r)' : req'[q].now = t
<1>0. \A q \in Relevant(r) : q \in Requests /\ req[q].pc # "idle"
  BY DEF Relevant
<1>1. CASE UNCHANGED vars
  <2>1. req' = req /\ log' = log
    BY <1>1 DEF vars
  <2>2. \A t \in log[Address[r]] : \E q \in Relevant(r) : req[q].now = t
    BY <2>1 DEF CountedInv
  <2> QED
    BY <1>0, <2>1, <2>2, RelevantGrows
<1>2. ASSUME NEW p \in Requests, Handle(p), UNCHANGED clock
      PROVE  \A t \in log'[Address[r]] : \E q \in Relevant(r)' : req'[q].now = t
  <2> SUFFICES ASSUME NEW t \in log'[Address[r]]
               PROVE  \E q \in Relevant(r)' : req'[q].now = t
    OBVIOUS
  <2>1. Steps(p)
    BY <1>2, StepType
  <2>2. CASE p = r
    <3>1. Moves(r, "trim", "count", Trimmed(r))
      BY <2>1, <2>2 DEF Steps, Arrives, Moves, Fails, Counts, Answers, FailsLate, CutOff,
         Verdict, TypeOK, Request
    <3>2. t \in log[Address[r]] /\ t + Window > req[r].now /\ req[r].pc # "idle"
      BY <3>1 DEF Moves, LogAndExpiry, Trimmed
    <3>3. PICK q \in Requests : Address[q] = Address[r] /\ req[q].pc # "idle" /\ req[q].now = t
      BY <3>2, AddressType DEF SourceInv
    <3>4. q \in Relevant(r)
      BY <3>2, <3>3 DEF Relevant
    <3> QED
      BY <3>2, <3>3, <3>4, RelevantGrows
  <2>3. CASE p # r
    <3>1. req'[r] = req[r] /\ req[r].pc # "idle" /\ req[r].now <= clock
      BY <2>1, <2>3 DEF Steps, ArrivedInv
    <3>2. CASE t \in log[Address[r]]
      <4>1. PICK q \in Relevant(r) : req[q].now = t
        BY <3>1, <3>2 DEF CountedInv
      <4> QED
        BY <1>0, <3>1, <4>1, RelevantGrows
    <3>3. CASE t \notin log[Address[r]]
      <4>1. Address[p] = Address[r]
        BY <2>1, <3>3, AddressType DEF Steps
      <4>2. req[p].pc = "add" /\ t = req[p].now
        BY <2>1, <3>3, <4>1, OwnLog
      <4>3. /\ req'[p].now = t /\ req'[p].pc # "idle"
            /\ InRedis(p)' \/ req'[p].done = clock
        BY <2>1, <4>2, OwnStep DEF InRedis
      <4>4. p \in Relevant(r)'
        BY <3>1, <4>1, <4>3 DEF Relevant
      <4> QED
        BY <4>3, <4>4
    <3> QED
      BY <3>2, <3>3
  <2> QED
    BY <2>2, <2>3
<1>3. CASE Tick
  <2>1. /\ req[r].pc = "count"
        /\ log'[Address[r]] = log[Address[r]] \/ log'[Address[r]] = {}
    BY <1>3, TickType, AddressType
  <2>2. \A t \in log[Address[r]] : \E q \in Relevant(r) : req[q].now = t
    BY <2>1 DEF CountedInv
  <2> QED
    BY <1>0, <2>1, <2>2, RelevantGrows
<1> QED
  BY <1>1, <1>2, <1>3 DEF Next

LEMMA CountedVerdict ==
  ASSUME TypeOK, CountedInv, [Next]_vars, NEW r \in Requests,
         req'[r].pc \in {"expire", "refused", "passed"}
  PROVE  \/ /\ req[r].pc = "count" /\ req'[r].pc = "expire"
            /\ req'[r].count = Cardinality(log[Address[r]])
         \/ /\ req[r].pc \in {"expire", "refused", "passed"}
            /\ req[r].pc \in {"refused", "passed"} => req'[r].pc = req[r].pc
            /\ req'[r].count = req[r].count
            /\ req'[r].pc = "refused" => req'[r].count > MaxRequests
            /\ req'[r].pc = "passed" => req'[r].count <= MaxRequests
<1>0. req[r] \in Request /\ MaxRequests \in Nat
  BY LimiterAssumption DEF TypeOK
<1>1. /\ req[r].pc = "refused" => req[r].count > MaxRequests
      /\ req[r].pc = "passed" => req[r].count <= MaxRequests
  BY DEF CountedInv
<1>2. CASE UNCHANGED vars \/ Tick
  <2>1. req'[r].pc = req[r].pc /\ req'[r].count = req[r].count
    BY <1>2, TickType DEF vars
  <2> QED
    BY <1>1, <2>1
<1>3. ASSUME NEW p \in Requests, Handle(p), UNCHANGED clock
      PROVE  \/ /\ req[r].pc = "count" /\ req'[r].pc = "expire"
                /\ req'[r].count = Cardinality(log[Address[r]])
             \/ /\ req[r].pc \in {"expire", "refused", "passed"}
                /\ req[r].pc \in {"refused", "passed"} => req'[r].pc = req[r].pc
                /\ req'[r].count = req[r].count
                /\ req'[r].pc = "refused" => req'[r].count > MaxRequests
                /\ req'[r].pc = "passed" => req'[r].count <= MaxRequests
  <2>1. Steps(p)
    BY <1>3, StepType
  <2>2. CASE p # r
    BY <1>1, <2>1, <2>2 DEF Steps
  <2>3. CASE p = r
    <3>1. CASE Counts(r)
      BY <1>0, <3>1 DEF Counts, Request
    <3>2. CASE Answers(r)
      <4>1. /\ req[r].pc = "expire" /\ req'[r].pc = Verdict(r)
            /\ req'[r].count = req[r].count
        BY <1>0, <3>2 DEF Answers, Request
      <4>2. req[r].count \in Nat
        BY <1>0 DEF Request
      <4> QED
        BY <1>0, <4>1, <4>2 DEF Verdict
    <3>3. CASE ~Counts(r) /\ ~Answers(r)
      BY <1>0, <2>1, <2>3, <3>3 DEF Steps, Arrives, Moves, Fails, FailsLate, CutOff, Request
    <3> QED
      BY <3>1, <3>2, <3>3
  <2> QED
    BY <2>2, <2>3
<1> QED
  BY <1>2, <1>3 DEF Next

LEMMA StepCounted ==
  ASSUME TypeOK, ArrivedInv, SourceInv, CountedInv, [Next]_vars
  PROVE  CountedInv'
<1>1. IsFiniteSet(Arrived) /\ IsFiniteSet(Arrived')
  BY StepFinite DEF CountedInv
<1> SUFFICES ASSUME NEW r \in Requests
             PROVE  /\ req'[r].pc = "count" =>
                         \A t \in log'[Address[r]] :
                           \E q \in Relevant(r)' : req'[q].now = t
                    /\ req'[r].pc \in {"expire", "refused"} =>
                         req'[r].count <= Cardinality(Relevant(r)')
                    /\ req'[r].pc = "refused" => req'[r].count > MaxRequests
                    /\ req'[r].pc = "passed" => req'[r].count <= MaxRequests
  BY <1>1 DEF CountedInv
<1>2. req'[r].pc = "count" =>
        \A t \in log'[Address[r]] : \E q \in Relevant(r)' : req'[q].now = t
  BY CountedOther
<1>3. ASSUME req'[r].pc \in {"expire", "refused"}
      PROVE  req'[r].count <= Cardinality(Relevant(r)')
  <2>1. /\ req[r].pc \in {"count", "expire", "refused"}
        /\ req'[r].count = IF req[r].pc = "count" THEN Cardinality(log[Address[r]])
                                                  ELSE req[r].count
    BY <1>3, CountedVerdict
  <2>2. IsFiniteSet(Relevant(r)) /\ Cardinality(Relevant(r)) \in Nat
    BY <1>1, RelevantFinite
  <2>3. req'[r].count <= Cardinality(Relevant(r))
    <3>1. CASE req[r].pc = "count"
      <4>1. \A t \in log[Address[r]] : \E q \in Relevant(r) : req[q].now = t
        BY <3>1 DEF CountedInv
      <4> QED
        BY <2>1, <2>2, <3>1, <4>1, StampsCounted
    <3>2. CASE req[r].pc # "count"
      BY <2>1, <3>2 DEF CountedInv
    <3> QED
      BY <3>1, <3>2
  <2>4. Relevant(r) \subseteq Relevant(r)'
    BY <2>1, RelevantGrows
  <2>5. Relevant(r)' \subseteq Arrived'
    BY DEF Relevant, Arrived
  <2>6. IsFiniteSet(Relevant(r)') /\ Cardinality(Relevant(r)') \in Nat
    BY <1>1, <2>5, FS_Subset, FS_CardinalityType
  <2>7. Cardinality(Relevant(r)) <= Cardinality(Relevant(r)')
    BY <2>4, <2>6, FS_Subset
  <2>8. req'[r].count \in Nat
    BY NextTypes DEF TypeOK, Request
  <2> QED
    BY <2>2, <2>3, <2>6, <2>7, <2>8
<1>4. /\ req'[r].pc = "refused" => req'[r].count > MaxRequests
      /\ req'[r].pc = "passed" => req'[r].count <= MaxRequests
  BY CountedVerdict
<1> QED
  BY <1>2, <1>3, <1>4

StampInv == ArrivedInv /\ SourceInv /\ CountedInv

LEMMA InitStamps == Init => StampInv
<1> SUFFICES ASSUME Init
             PROVE  StampInv
  OBVIOUS
<1>1. ArrivedInv /\ SourceInv /\ Arrived = {}
  BY DEF Init, ArrivedInv, SourceInv, Arrived
<1>2. \A r \in Requests : req[r].pc = "idle"
  BY DEF Init
<1> QED
  BY <1>1, <1>2, FS_EmptySet DEF StampInv, CountedInv

(* What the counted stamps say of the requests that left them holds in     *)
(* every state.                                                            *)
THEOREM StampInvariant == Spec => []StampInv
<1>1. TypeOK /\ StampInv /\ [Next]_vars => StampInv'
  BY StepArrived, StepSource, StepCounted DEF StampInv
<1> QED
  BY LimiterTypeCorrect, InitStamps, <1>1, PTL DEF Spec

(* Nobody is refused for what lies behind: more than MaxRequests requests  *)
(* of the address arrived within the window before the refused one, or     *)
(* later, or were still between their Redis calls when it arrived.         *)
THEOREM RefusalsAreRecent == Spec => []RefusedForRecent
<1>1. TypeOK /\ StampInv => RefusedForRecent
  <2> SUFFICES ASSUME TypeOK, StampInv, NEW r \in Requests, req[r].pc = "refused"
               PROVE  Cardinality(Relevant(r)) > MaxRequests
    BY DEF RefusedForRecent, Relevant
  <2>1. Cardinality(Relevant(r)) \in Nat
    BY RelevantFinite DEF StampInv, CountedInv
  <2>2. /\ req[r].count > MaxRequests /\ req[r].count <= Cardinality(Relevant(r))
        /\ req[r].count \in Nat
    BY RequestType DEF StampInv, CountedInv
  <2> QED
    BY <2>1, <2>2, LimiterAssumption
<1> QED
  BY LimiterTypeCorrect, StampInvariant, <1>1, PTL

-----------------------------------------------------------------------------
(* The window.                                                             *)

(* r's stamp must be in the set: it was added, did not expire under r and  *)
(* is not a window old.                                                    *)
Kept(r) ==
  /\ req[r].pc \in {"trim", "count", "expire", "passed"}
  /\ ~req[r].lapsed
  /\ clock < req[r].now + Window

KeptInv ==
  \A r \in Requests :
    Kept(r) =>
      /\ req[r].now \in log[Address[r]]
      /\ req[r].pc = "passed" => expiry[Address[r]] >= req[r].now + Window

(* No step of a request takes a fresh stamp away or shortens its expiry.   *)
LEMMA FreshStampStays ==
  ASSUME TypeOK, ArrivedInv, NEW p \in Requests, Steps(p),
         NEW a \in Addresses, NEW t \in log[a], t <= clock, clock < t + Window
  PROVE  /\ t \in log'[a]
         /\ expiry[a] >= t + Window => expiry'[a] >= t + Window
<1>1. CASE a # Address[p]
  BY <1>1 DEF Steps
<1>2. CASE a = Address[p]
  <2>1. /\ t \in Nat /\ req[p].now \in Nat /\ clock \in Nat /\ expiry[a] \in Nat
        /\ Window \in Nat /\ Ttl \in Nat /\ Ttl >= Window /\ req[p].now <= clock
    BY <1>2, RequestType, LimiterAssumption DEF ArrivedInv, Stamps
  <2>2. t \in Added(p) /\ t \in Trimmed(p)
    BY <1>2, <2>1 DEF Added, Trimmed
  <2>3. /\ t \in log'[a]
        /\ expiry'[a] \in {expiry[a], clock + Ttl}
    BY <1>2, <2>2 DEF Steps, Arrives, Moves, Fails, Counts, Answers, FailsLate, CutOff,
       LogAndExpiry
  <2> QED
    BY <2>1, <2>3
<1> QED
  BY <1>1, <1>2

LEMMA StepKept ==
  ASSUME TypeOK, ArrivedInv, KeptInv, [Next]_vars
  PROVE  KeptInv'
<1>1. CASE UNCHANGED vars
  BY <1>1 DEF vars, KeptInv, Kept
<1> SUFFICES ASSUME NEW r \in Requests, Kept(r)', ~UNCHANGED vars
             PROVE  /\ req'[r].now \in log'[Address[r]]
                    /\ req'[r].pc = "passed" =>
                         expiry'[Address[r]] >= req'[r].now + Window
  BY <1>1 DEF KeptInv
<1> DEFINE a == Address[r]
<1>2. /\ req[r] \in Request /\ a \in Addresses /\ clock \in Nat /\ Window \in Nat
      /\ req[r].now \in Nat /\ expiry[a] \in Nat /\ req[r].now <= clock
      /\ Ttl \in Nat /\ Ttl >= Window
  BY RequestType, AddressType, LimiterAssumption DEF TypeOK, ArrivedInv
<1>3. ASSUME NEW p \in Requests, Handle(p), UNCHANGED clock
      PROVE  /\ req'[r].now \in log'[a]
             /\ req'[r].pc = "passed" => expiry'[a] >= req'[r].now + Window
  <2>1. Steps(p)
    BY <1>3, StepType
  <2>2. CASE Kept(r)
    <3>1. /\ req[r].now \in log[a]
          /\ req[r].pc = "passed" => expiry[a] >= req[r].now + Window
          /\ clock < req[r].now + Window
      BY <2>2 DEF KeptInv, Kept
    <3>2. /\ req[r].now \in log'[a]
          /\ expiry[a] >= req[r].now + Window => expiry'[a] >= req[r].now + Window
      BY <1>2, <2>1, <3>1, FreshStampStays
    <3>3. CASE p # r
      BY <2>1, <3>1, <3>2, <3>3 DEF Steps
    <3>4. CASE p = r
      <4>1. req'[r].now = req[r].now
        BY <2>1, <2>2, <3>4, OwnStep DEF Kept
      <4>2. ASSUME req'[r].pc = "passed"
            PROVE  expiry'[a] >= req[r].now + Window
        <5>1. Answers(r)
          BY <1>2, <2>1, <3>4, <4>2 DEF Steps, Arrives, Moves, Fails, Counts,
             FailsLate, CutOff, Request
        <5>2. expiry'[a] = clock + Ttl
          BY <3>1, <5>1 DEF Answers
        <5> QED
          BY <1>2, <5>2
      <4> QED
        BY <3>2, <4>1, <4>2
    <3> QED
      BY <3>3, <3>4
  <2>3. CASE ~Kept(r)
    <3>1. p = r
      BY <1>3, <2>1, <2>3 DEF Steps, Kept
    <3>2. /\ req'[r].lapsed = req[r].lapsed
          /\ req[r].pc # "idle" /\ req'[r].now = req[r].now
      BY <2>1, <3>1, OwnStep DEF Kept
    <3>3. Moves(r, "add", "trim", Added(r))
      BY <1>2, <1>3, <2>1, <2>3, <3>1, <3>2
      DEF Steps, Arrives, Moves, Fails, Counts, Answers, FailsLate, CutOff, Request, Kept
    <3> QED
      BY <1>2, <3>2, <3>3 DEF Moves, LogAndExpiry, Added, Request
  <2> QED
    BY <2>2, <2>3
<1>4. CASE Tick
  <2>1. /\ clock' = clock + 1
        /\ req'[r].pc = req[r].pc /\ req'[r].now = req[r].now
        /\ req[r].lapsed => req'[r].lapsed
        /\ Due(a) /\ req[r].pc \in {"trim", "count", "expire"} => req'[r].lapsed
        /\ Due(a) \/ (log'[a] = log[a] /\ expiry'[a] = expiry[a])
    BY <1>2, <1>4, TickType
  <2>2. /\ Kept(r) /\ clock + 1 < req[r].now + Window
        /\ ~(Due(a) /\ req[r].pc \in {"trim", "count", "expire"})
    BY <1>2, <2>1 DEF Kept
  <2>3. /\ req[r].now \in log[a]
        /\ req[r].pc = "passed" => expiry[a] >= req[r].now + Window
    BY <2>2 DEF KeptInv
  <2>4. ~Due(a)
    BY <1>2, <2>2, <2>3 DEF Due, Kept
  <2> QED
    BY <2>1, <2>3, <2>4
<1> QED
  BY <1>3, <1>4 DEF Next

(* The requests, answered or about to be, that count within d milliseconds *)
(* and whose shortened window holds t.                                     *)
OnTime(r, d) ==
  \/ req[r].pc = "expire" /\ clock <= req[r].now + d
  \/ req[r].pc = "passed" /\ req[r].done <= req[r].now + d

Held(a, d, t) ==
  {r \in Requests :
     /\ Address[r] = a /\ OnTime(r, d) /\ ~req[r].lapsed
     /\ req[r].now <= t /\ t < req[r].now + Window - d}

(* Of any of them, the one that counted last counted the stamps of all.    *)
SawAll(Q) == \E r \in Q : Cardinality({req[q].now : q \in Q}) <= req[r].count

LastSawAll ==
  \A a \in Addresses, d \in 0..(Window - 1), t \in Nat :
    \A Q \in SUBSET Held(a, d, t) : Q # {} => SawAll(Q)

(* Nobody joins them but by counting.                                      *)
Joins(r) ==
  /\ req[r].pc = "count" /\ req'[r].pc = "expire"
  /\ req'[r].now = req[r].now /\ (req[r].lapsed => req'[r].lapsed)
  /\ req'[r].count = Cardinality(log[Address[r]])
  /\ UNCHANGED <<clock, log>>

HeldStep ==
  \A r \in Requests :
    \/ Joins(r)
    \/ /\ \A d \in Nat : OnTime(r, d)' => OnTime(r, d)
       /\ req'[r].pc \in {"expire", "passed"} =>
            /\ req'[r].now = req[r].now /\ req'[r].count = req[r].count
            /\ req[r].lapsed => req'[r].lapsed

LEMMA StepHeld ==
  ASSUME TypeOK, [Next]_vars
  PROVE  HeldStep
<1> SUFFICES ASSUME NEW r \in Requests
             PROVE  \/ Joins(r)
                    \/ /\ \A d \in Nat : OnTime(r, d)' => OnTime(r, d)
                       /\ req'[r].pc \in {"expire", "passed"} =>
                            /\ req'[r].now = req[r].now /\ req'[r].count = req[r].count
                            /\ req[r].lapsed => req'[r].lapsed
  BY DEF HeldStep
<1>1. CASE UNCHANGED vars
  BY <1>1 DEF vars, OnTime
<1>2. /\ req[r] \in Request /\ clock \in Nat /\ req[r].now \in Nat
  BY RequestType DEF TypeOK
<1>3. ASSUME NEW p \in Requests, Handle(p), UNCHANGED clock
      PROVE  \/ Joins(r)
             \/ /\ \A d \in Nat : OnTime(r, d)' => OnTime(r, d)
                /\ req'[r].pc \in {"expire", "passed"} =>
                     /\ req'[r].now = req[r].now /\ req'[r].count = req[r].count
                     /\ req[r].lapsed => req'[r].lapsed
  <2>1. Steps(p)
    BY <1>3, StepType
  <2>2. CASE p # r
    BY <1>3, <2>1, <2>2 DEF Steps, OnTime
  <2>3. CASE p = r
    <3>1. CASE Counts(r)
      <4>1. /\ req'[r].pc = "expire" /\ req'[r].now = req[r].now
            /\ req'[r].count = Cardinality(log[Address[r]])
            /\ req'[r].lapsed = req[r].lapsed
        BY <1>2, <3>1 DEF Counts, Request
      <4> QED
        BY <1>3, <3>1, <4>1 DEF Counts, Joins
    <3>2. CASE Answers(r)
      <4>1. /\ req[r].pc = "expire" /\ req'[r].done = clock
            /\ req'[r].pc \in {"refused", "passed"} /\ req'[r].now = req[r].now
            /\ req'[r].count = req[r].count /\ req'[r].lapsed = req[r].lapsed
        BY <1>2, <3>2 DEF Answers, Verdict, Request
      <4> QED
        BY <4>1 DEF OnTime
    <3>3. CASE ~Counts(r) /\ ~Answers(r)
      <4>1. req'[r].pc \notin {"expire", "passed"}
        BY <1>2, <2>1, <2>3, <3>3 DEF Steps, Arrives, Moves, Fails, FailsLate, CutOff, Request
      <4> QED
        BY <4>1 DEF OnTime
    <3> QED
      BY <3>1, <3>2, <3>3
  <2> QED
    BY <2>2, <2>3
<1>4. CASE Tick
  <2>1. /\ clock' = clock + 1
        /\ req'[r].pc = req[r].pc /\ req'[r].now = req[r].now
        /\ req'[r].count = req[r].count /\ req'[r].done = req[r].done
        /\ req[r].lapsed => req'[r].lapsed
    BY <1>4, TickType
  <2>2. \A d \in Nat : OnTime(r, d)' => OnTime(r, d)
    BY <1>2, <2>1 DEF OnTime
  <2> QED
    BY <2>1, <2>2
<1> QED
  BY <1>1, <1>3, <1>4 DEF Next

LEMMA StepSawAll ==
  ASSUME TypeOK, KeptInv, LastSawAll, [Next]_vars
  PROVE  LastSawAll'
<1> SUFFICES ASSUME NEW a \in Addresses, NEW d \in 0..(Window - 1), NEW t \in Nat,
                    NEW Q \in SUBSET Held(a, d, t)', Q # {}
             PROVE  \E r \in Q : Cardinality({req'[q].now : q \in Q}) <= req'[r].count
  BY DEF LastSawAll, SawAll
<1>1. HeldStep /\ d \in Nat /\ Window \in Nat /\ clock \in Nat
  BY StepHeld, LimiterAssumption DEF TypeOK
<1>2. \A q \in Q : /\ q \in Requests /\ Address[q] = a /\ OnTime(q, d)'
                   /\ ~req'[q].lapsed /\ req'[q].pc \in {"expire", "passed"}
                   /\ req'[q].now <= t /\ t < req'[q].now + Window - d
  BY DEF Held, OnTime
<1>3. CASE \A q \in Q : ~Joins(q)
  <2>1. \A q \in Q : /\ req'[q].now = req[q].now /\ req'[q].count = req[q].count
                     /\ OnTime(q, d) /\ ~req[q].lapsed
    BY <1>1, <1>2, <1>3 DEF HeldStep
  <2>2. Q \in SUBSET Held(a, d, t)
    BY <1>2, <2>1 DEF Held
  <2>3. PICK r \in Q : Cardinality({req[q].now : q \in Q}) <= req[r].count
    BY <2>2 DEF LastSawAll, SawAll
  <2>4. {req'[q].now : q \in Q} = {req[q].now : q \in Q}
    BY <2>1
  <2> QED
    BY <2>1, <2>3, <2>4
<1>4. ASSUME NEW r \in Q, Joins(r)
      PROVE  Cardinality({req'[q].now : q \in Q}) <= req'[r].count
  <2>1. /\ r \in Requests /\ Address[r] = a /\ clock <= req[r].now + d
        /\ req'[r].now = req[r].now /\ req[r].now <= t
        /\ req'[r].count = Cardinality(log[a]) /\ UNCHANGED clock
    BY <1>2, <1>4 DEF Joins, OnTime
  <2>2. ASSUME NEW q \in Q
        PROVE  req'[q].now \in log[a]
    <3>1. /\ req'[q].now = req[q].now /\ ~req[q].lapsed
          /\ req[q].pc \in {"count", "expire", "passed"}
      BY <1>1, <1>2 DEF HeldStep, Joins, OnTime
    <3>2. /\ q \in Requests /\ Address[q] = a /\ req[q].now \in Nat /\ req[r].now \in Nat
          /\ t < req[q].now + Window - d
      BY <1>2, <2>1, <3>1, RequestType
    <3>3. clock < req[q].now + Window
      BY <1>1, <2>1, <3>2
    <3> QED
      BY <3>1, <3>2, <3>3 DEF KeptInv, Kept
  <2>3. {req'[q].now : q \in Q} \subseteq log[a]
    BY <2>2
  <2> QED
    BY <2>1, <2>3, LogFinite, FS_Subset
<1> QED
  BY <1>3, <1>4

WindowInv == ArrivedInv /\ KeptInv /\ LastSawAll

LEMMA InitWindow == Init => WindowInv
<1> SUFFICES ASSUME Init
             PROVE  WindowInv
  OBVIOUS
<1>1. \A r \in Requests : req[r].pc = "idle" /\ req[r].now = 0
  BY DEF Init
<1>2. ArrivedInv /\ KeptInv
  BY <1>1 DEF Init, ArrivedInv, KeptInv, Kept
<1>3. \A a, d, t : Held(a, d, t) = {}
  BY <1>1 DEF Held, OnTime
<1> QED
  BY <1>2, <1>3 DEF WindowInv, LastSawAll

LEMMA PassedAreLimited ==
  ASSUME TypeOK, StampInv, LastSawAll,
         NEW a \in Addresses, NEW d \in 0..(Window - 1), NEW t \in Nat,
         NEW Q \in SUBSET Held(a, d, t), \A q \in Q : req[q].pc = "passed"
  PROVE  Cardinality({req[q].now : q \in Q}) <= MaxRequests
<1> DEFINE N == {req[q].now : q \in Q}
<1>1. MaxRequests \in Nat /\ MaxClock \in Nat
  BY LimiterAssumption
<1>2. Q = {} => N = {}
  OBVIOUS
<1>3. Q # {} => \E r \in Q : Cardinality(N) <= req[r].count
  BY DEF LastSawAll, SawAll
<1>4. \A r \in Q : req[r].count <= MaxRequests /\ req[r].count \in Nat
  BY RequestType DEF StampInv, CountedInv, Held
<1>5. N \subseteq 0..MaxClock
  BY RequestType DEF Stamps, Held
<1> HIDE DEF N
<1>6. IsFiniteSet(0..MaxClock)
  BY <1>1, FS_Interval
<1>7. Cardinality(N) \in Nat
  BY <1>5, <1>6, FS_Subset, FS_CardinalityType
<1>8. N = {} => Cardinality(N) = 0
  BY FS_EmptySet
<1>9. Cardinality(N) <= MaxRequests
  BY <1>1, <1>2, <1>3, <1>4, <1>7, <1>8
<1> QED
  BY <1>9 DEF N

(* Although the four calls interleave, the sliding window bounds what it   *)
(* lets pass: of the requests answered within d milliseconds, any          *)
(* Window - d milliseconds hold passed ones at MaxRequests instants at     *)
(* most.                                                                   *)
THEOREM WindowIsLimited == Spec => []WindowLimit
<1>1. TypeOK /\ WindowInv /\ [Next]_vars => WindowInv'
  BY StepArrived, StepKept, StepSawAll DEF WindowInv
<1>2. TypeOK /\ WindowInv /\ StampInv => WindowLimit
  <2> SUFFICES ASSUME TypeOK, WindowInv, StampInv,
                      NEW a \in Addresses, NEW d \in 0..(Window - 1), NEW t \in 0..clock
               PROVE  LET Q == {r \in Requests :
                        /\ Address[r] = a /\ req[r].pc = "passed" /\ ~req[r].lapsed
                        /\ req[r].done <= req[r].now + d
                        /\ req[r].now <= t /\ t < req[r].now + Window - d}
                      IN  Cardinality({req[r].now : r \in Q}) <= MaxRequests
    BY DEF WindowLimit
  <2> DEFINE Q == {r \in Requests :
                        /\ Address[r] = a /\ req[r].pc = "passed" /\ ~req[r].lapsed
                        /\ req[r].done <= req[r].now + d
                        /\ req[r].now <= t /\ t < req[r].now + Window - d}
  <2>1. Q \in SUBSET Held(a, d, t) /\ \A q \in Q : req[q].pc = "passed"
    BY DEF Held, OnTime
  <2>2. t \in Nat
    BY LimiterAssumption DEF TypeOK
  <2> HIDE DEF Q
  <2>3. Cardinality({req[r].now : r \in Q}) <= MaxRequests
    BY <2>1, <2>2, PassedAreLimited DEF WindowInv
  <2> QED
    BY <2>3 DEF Q
<1> QED
  BY LimiterTypeCorrect, StampInvariant, InitWindow, <1>1, <1>2, PTL DEF Spec
=============================================================================
