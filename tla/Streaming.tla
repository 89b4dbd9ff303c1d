----------------------------- MODULE Streaming -----------------------------
(***************************************************************************)
(* What a client learns of its execution: the pipeline, the Redis client   *)
(* each worker publishes with, the gateway that forwards the events, and   *)
(* clients that subscribe and then read the row once with                  *)
(* GET /v1/executions/:id.                                                 *)
(***************************************************************************)
EXTENDS Pipeline, Gateway

VARIABLES
  redisPub,  \* the ioredis client each worker publishes with
  voice,     \* the workers that published events of each execution (history)
  resent,    \* the executions with an event sent once more (history)
  view,      \* the status each client read since its socket is in a room
  lost       \* has an event for the gateway ever been lost (history)

pubVars == <<redisPub, voice, resent>>
streamVars == <<vars, gatewayVars, pubVars, view, lost>>

Message == [exec : Executions, type : EventTypes]

(* queued: not in Redis yet; unanswered: in Redis, but a reply may be      *)
(* missing.  Both stay in order.                                           *)
Commands == [queued : Seq(Message), unanswered : Seq(Message)]

NoCommands == [queued |-> <<>>, unanswered |-> <<>>]

StreamTypeOK ==
  /\ TypeOK
  /\ GatewayTypeOK
  /\ redisPub \in [Workers -> Commands]
  /\ voice \in [Executions -> SUBSET Workers]
  /\ resent \subseteq Executions
  /\ view \in [Clients -> Statuses \cup {None}]
  /\ lost \in BOOLEAN

StreamInit ==
  /\ Init
  /\ GatewayInit
  /\ redisPub = [w \in Workers |-> NoCommands]
  /\ voice = [e \in Executions |-> {}]
  /\ resent = {}
  /\ view = [c \in Clients |-> None]
  /\ lost = FALSE

-----------------------------------------------------------------------------
(* The event a run is about to publish.                                    *)
Publishing(s) == run[s].pc \in {"announce", "log", "publish", "publishFailed"}

EventOf(s) ==
  CASE run[s].pc = "announce" -> "started"
    [] run[s].pc = "log"      -> "log"
    [] run[s].pc = "publish"  -> IF TimedOut(s) THEN "timeout" ELSE "completed"
    [] OTHER                  -> "failed"

LostIf(gone) == lost' = (lost \/ gone)

(* publishEvent hands the message to its worker's client and goes on.      *)
PublishStep(s) ==
  /\ Publishing(s)
  /\ SlotStep(s)
  /\ redisPub' = [redisPub EXCEPT ![Host[s]].queued =
                    Append(@, [exec |-> Exec(s), type |-> EventOf(s)])]
  /\ voice' = [voice EXCEPT ![Exec(s)] = @ \cup {Host[s]}]
  /\ UNCHANGED <<gatewayVars, resent, view, lost>>

(* The oldest command reaches Redis, which hands the message on at once.   *)
Transmit(w) ==
  /\ redisPub[w].queued # <<>>
  /\ LET m == Head(redisPub[w].queued) IN
       /\ redisPub' = [redisPub EXCEPT ![w] =
            [queued |-> Tail(@.queued), unanswered |-> Append(@.unanswered, m)]]
       /\ Deliver(m.exec, m.type)
       /\ LostIf(m.type \in Channels /\ ~link)
  /\ UNCHANGED <<vars, voice, resent, view>>

(* It is given up and the rejection swallowed (executor.ts:14).            *)
Swallow(w) ==
  /\ redisPub[w].queued # <<>>
  /\ redisPub' = [redisPub EXCEPT ![w].queued = Tail(@)]
  /\ LostIf(Head(redisPub[w].queued).type \in Channels)
  /\ UNCHANGED <<vars, gatewayVars, voice, resent, view>>

(* The connection breaks and the next one starts with the commands whose   *)
(* replies were missing.                                                   *)
Resend(w) ==
  /\ Drop
  /\ LET sent == redisPub[w].unanswered IN
       \E i \in 1..Len(sent) :
         /\ redisPub' = [redisPub EXCEPT ![w] =
              [queued |-> SubSeq(sent, i, Len(sent)) \o @.queued, unanswered |-> <<>>]]
         /\ resent' = resent \cup {sent[j].exec : j \in i..Len(sent)}
  /\ UNCHANGED <<vars, wire, link, joined, heard, voice, view, lost>>

(* A worker process that ends, by itself or not, takes its client with it. *)
WorkerStep(w) ==
  /\ ExitStep(w) \/ BootStep(w) \/ WorkerOutage(w)
  /\ IF worker'[w] = "down"
     THEN /\ redisPub' = [redisPub EXCEPT ![w] = NoCommands]
          /\ LET left == redisPub[w].queued IN
               LostIf(\E i \in 1..Len(left) : left[i].type \in Channels)
     ELSE UNCHANGED <<redisPub, lost>>
  /\ UNCHANGED <<gatewayVars, voice, resent, view>>

QuietStep ==
  /\ \/ \E s \in Slots : ~Publishing(s) /\ SlotStep(s)
     \/ \E e \in Executions :
          RouteStep(e) \/ FetchStep(e) \/ QueueStep(e) \/ LoseLockStep(e)
     \/ ApiCrashStep
  /\ UNCHANGED <<gatewayVars, pubVars, view, lost>>

(* Only a read after the join is remembered: subscribing is not answered,  *)
(* so an earlier read tells the client nothing about what it may miss.     *)
Read(c) ==
  /\ Targets(c, Watched[c]) # {}
  /\ view[c] = None
  /\ view' = [view EXCEPT ![c] = row[Watched[c]].status]
  /\ UNCHANGED <<vars, gatewayVars, pubVars, lost>>

ForwardStep == Forward /\ UNCHANGED <<vars, pubVars, view, lost>>

(* The id a client subscribes with is the one its 201 answer gave it.      *)
SubscribeStep(c) ==
  /\ route[Watched[c]] = "accepted"
  /\ Subscribe(c)
  /\ UNCHANGED <<vars, pubVars, view, lost>>

UnsubscribeStep(c) ==
  /\ Unsubscribe(c)
  /\ view' = [view EXCEPT ![c] = None]
  /\ UNCHANGED <<vars, pubVars, lost>>

LinkDownStep ==
  /\ LinkDown
  /\ LostIf(wire # <<>>)
  /\ UNCHANGED <<vars, pubVars, view>>

LinkUpStep == LinkUp /\ UNCHANGED <<vars, pubVars, view, lost>>

RestartStep ==
  /\ Restart
  /\ LostIf(wire # <<>>)
  /\ view' = [c \in Clients |-> None]
  /\ UNCHANGED <<vars, pubVars>>

StreamNext ==
  \/ \E s \in Slots : PublishStep(s)
  \/ \E w \in Workers : WorkerStep(w) \/ Transmit(w) \/ Swallow(w) \/ Resend(w)
  \/ QuietStep
  \/ \E c \in Clients : Read(c) \/ SubscribeStep(c) \/ UnsubscribeStep(c)
  \/ ForwardStep \/ LinkDownStep \/ LinkUpStep \/ RestartStep

StreamSpec == StreamInit /\ [][StreamNext]_streamVars

-----------------------------------------------------------------------------
(* Is t the last event c heard of its execution, log lines aside?          *)
HeardLast(c, t) ==
  \E i \in 1..Len(heard[c]) :
    /\ heard[c][i] = t
    /\ \A j \in (i + 1)..Len(heard[c]) : heard[c][j] = "log"

(* What the client takes for the outcome: the last final event it heard,   *)
(* and without one the status it read.                                     *)
Believed(c) ==
  CASE HeardLast(c, "completed") -> "COMPLETED"
    [] HeardLast(c, "failed")    -> "FAILED"
    [] OTHER                     -> view[c]

(* Did at most one worker publish events of e?  Each has its own           *)
(* connection, and what one hands over first may reach Redis last.         *)
OneVoice(e) == \A v, w \in voice[e] : v = w

(* A client that joined, then read the row, ends up believing what the row *)
(* says, if no event was lost and one worker published them all.  The      *)
(* exceptions are the timeout, whose event is not subscribed               *)
(* (ws-server/src/index.ts:76), and the late QUEUED (execute.ts:45);       *)
(* worker outages and more failing calls than attempts can end a job       *)
(* without an event.                                                       *)
LearnsOutcome ==
  \A c \in Clients :
    LET e == Watched[c] IN
      /\ Settled(e) /\ view[c] # None
      /\ wire = <<>> /\ \A w \in Workers : redisPub[w].queued = <<>>
      /\ ~lost /\ OneVoice(e) /\ outages = 0 /\ faults <= Attempts
      => row[e].status \in {Believed(c), "TIMEOUT", "QUEUED"}

(* execution:completed is the last a client hears of a job that never      *)
(* stalled: no log or failure follows it, and it comes once per room,      *)
(* unless another worker's connection held the former back or a broken     *)
(* connection made ioredis send an event again.                            *)
CompletedIsLast ==
  \A c \in Clients :
    LET e == Watched[c] IN
      job[e].stalls = 0 /\ OneVoice(e) /\ e \notin resent =>
        LET done == {i \in 1..Len(heard[c]) : heard[c][i] = "completed"} IN
          /\ \A i \in done : i..Len(heard[c]) \subseteq done
          /\ Cardinality(done) <= Cardinality(joined[c])
=============================================================================
