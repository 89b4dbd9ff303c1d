------------------------------ MODULE Gateway ------------------------------
(***************************************************************************)
(* The WebSocket gateway, apps/ws-server/src/index.ts, between Redis       *)
(* pub/sub and the sockets of its clients.  Redis delivers a message to    *)
(* the subscriptions it has at that moment and keeps nothing; messages of  *)
(* one connection stay in order.  Rooms live in the gateway's memory and   *)
(* are read when a message is handled, not when it was published.          *)
(***************************************************************************)
EXTENDS Naturals, Sequences, FiniteSets, ExecutionIds

CONSTANTS
  Clients,    \* sockets that passed the handshake
  Watched,    \* the execution each of them is interested in
  Wanted,     \* the rooms each of them asks for, of the two below
  InSession,  \* the executions whose job carries a session id
  MaxDrops    \* bound: lost subscriptions, gateway restarts, disconnects

(* The room of an execution, and that of the session it belongs to.        *)
Rooms == {"execution", "session"}

ASSUME GatewayAssumption ==
  /\ Watched \in [Clients -> Executions]
  /\ Wanted \in [Clients -> SUBSET Rooms]
  /\ InSession \subseteq Executions
  /\ MaxDrops \in Nat

VARIABLES
  wire,       \* messages delivered to the gateway, not yet handled
  link,       \* is the gateway's connection to Redis subscribed
  joined,     \* the rooms each client's socket is in
  heard,      \* event types each socket received since it joined
  drops

gatewayVars == <<wire, link, joined, heard, drops>>

FewChannels == {"log", "completed"}

(* sub.subscribe(LOG, COMPLETED, FAILED): timeout is not among them.       *)
Channels == {"log", "completed", "failed"}

GatewayTypeOK ==
  /\ wire \in Seq([exec : Executions, type : {"log", "completed", "failed"}])
  /\ link \in BOOLEAN
  /\ joined \in [Clients -> SUBSET Rooms]
  /\ heard \in [Clients -> Seq({"log", "completed", "failed"})]
  /\ drops \in 0..MaxDrops

GatewayInit ==
  /\ wire = <<>>
  /\ link = TRUE
  /\ joined = [c \in Clients |-> {}]
  /\ heard = [c \in Clients |-> <<>>]
  /\ drops = 0

Drop == drops < MaxDrops /\ drops' = drops + 1

-----------------------------------------------------------------------------
DeliverAll(e, t) ==
  /\ wire' = IF link THEN Append(wire, [exec |-> e, type |-> t]) ELSE wire
  /\ UNCHANGED <<link, joined, heard, drops>>

(* Redis hands a published message to the subscription, if there is one.   *)
Deliver(e, t) ==
  /\ wire' = IF link /\ t \in Channels
             THEN Append(wire, [exec |-> e, type |-> t]) ELSE wire
  /\ UNCHANGED <<link, joined, heard, drops>>

(* The rooms of c a message about e is emitted to.                         *)
Targets(c, e) ==
  {r \in joined[c] : Watched[c] = e /\ (r = "session" => e \in InSession)}

(* Two emits: a client in both rooms receives the event twice.             *)
Received(c, m) ==
  heard[c] \o [i \in 1..Cardinality(Targets(c, m.exec)) |-> m.type]

ForwardLatest ==
  /\ wire # <<>>
  /\ heard' = [c \in Clients |-> Received(c, wire[Len(wire)])]
  /\ wire' = SubSeq(wire, 1, Len(wire) - 1)
  /\ UNCHANGED <<link, joined, drops>>

(* sub.on('message').                                                      *)
Forward ==
  /\ wire # <<>>
  /\ heard' = [c \in Clients |-> Received(c, Head(wire))]
  /\ wire' = Tail(wire)
  /\ UNCHANGED <<link, joined, drops>>

(* 'subscribe:execution' or 'subscribe:session' reaches the gateway; the   *)
(* client is not told.                                                     *)
Subscribe(c) ==
  /\ \E r \in Wanted[c] \ joined[c] : joined' = [joined EXCEPT ![c] = @ \cup {r}]
  /\ UNCHANGED <<wire, link, heard, drops>>

(* 'unsubscribe:...' of a room, or a disconnect, after which the client's  *)
(* new socket is in no room.  heard starts over.                           *)
Unsubscribe(c) ==
  /\ Drop
  /\ \E rest \in SUBSET joined[c] :
       /\ rest # joined[c]
       /\ joined' = [joined EXCEPT ![c] = rest]
  /\ heard' = [heard EXCEPT ![c] = <<>>]
  /\ UNCHANGED <<wire, link>>

(* The Redis connection breaks, with whatever was still on it, and ioredis *)
(* subscribes again later.                                                 *)
LinkDown ==
  /\ Drop
  /\ link
  /\ link' = FALSE
  /\ wire' = <<>>
  /\ UNCHANGED <<joined, heard>>

LinkUp ==
  /\ ~link
  /\ link' = TRUE
  /\ UNCHANGED <<wire, joined, heard, drops>>

(* The gateway shuts down or dies; a new one has no rooms.                 *)
Restart ==
  /\ Drop
  /\ wire' = <<>>
  /\ link' = FALSE
  /\ joined' = [c \in Clients |-> {}]
  /\ heard' = [c \in Clients |-> <<>>]
=============================================================================
