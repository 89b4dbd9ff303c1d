------------------------------ MODULE ApiKeys ------------------------------
(***************************************************************************)
(* API keys live twice: as rows of api_keys in PostgreSQL, which the REST  *)
(* API asks (middleware/auth.ts), and as a Redis set, which the WebSocket  *)
(* gateway asks (ws-server/src/index.ts:23).  routes/api-keys.ts writes    *)
(* the row and then the set, in two calls; a failure of the second is      *)
(* logged and forgotten.  The scripts create-key.ts and seed.ts make the   *)
(* same two calls in a process of their own.                               *)
(***************************************************************************)
EXTENDS Naturals

CONSTANTS
  Keys,
  Revocations,   \* DELETE /v1/api-keys/:id requests
  Entries,       \* REST requests and WebSocket handshakes
  KeyOf,         \* the key each of the two names or belongs to
  MaxFaults      \* bound: failing calls and API crashes in a run

ASSUME KeysAssumption ==
  /\ KeyOf \in [Revocations \cup Entries -> Keys]
  /\ MaxFaults \in Nat

VARIABLES
  row,           \* api_keys, per key
  mirror,        \* the Redis set exebox:api_keys
  creation,      \* the request or script that creates each key
  revocation,
  entry,
  faults

vars == <<row, mirror, creation, revocation, entry, faults>>

(* early: the key's creation had not been answered when this found it.     *)
Revocation == [pc : {"idle", "found", "revoked", "answered", "failed"},
               early : BOOLEAN]

(* Routes with authMiddleware(), the list of executions behind             *)
(* authMiddleware(false), GET /v1/executions/:id, which has no middleware  *)
(* of its own, and the gateway.                                            *)
Doors == {"required", "optional", "open", "ws"}

(* bearer: does it present the key.                                        *)
(* after: a revocation of the key had been answered before this arrived.   *)
Entry == [pc : {"idle", "look", "touch", "admitted", "refused", "failed"},
          door : Doors, bearer : BOOLEAN, after : BOOLEAN]

TypeOK ==
  /\ row \in [Keys -> {"absent", "valid", "revoked"}]
  /\ mirror \subseteq Keys
  /\ creation \in [Keys -> {"idle", "inserted", "answered", "failed"}]
  /\ revocation \in [Revocations -> Revocation]
  /\ entry \in [Entries -> Entry]
  /\ faults \in 0..MaxFaults

Init ==
  /\ row = [k \in Keys |-> "absent"]
  /\ mirror = {}
  /\ creation = [k \in Keys |-> "idle"]
  /\ revocation = [v \in Revocations |-> [pc |-> "idle", early |-> FALSE]]
  /\ entry = [n \in Entries |-> [pc |-> "idle", door |-> "required",
                                  bearer |-> FALSE, after |-> FALSE]]
  /\ faults = 0

Fault == faults < MaxFaults /\ faults' = faults + 1

-----------------------------------------------------------------------------
(* POST /v1/api-keys: insert the row, mirror it, answer with the key.      *)
CreationStep(k, from, to) ==
  creation[k] = from /\ creation' = [creation EXCEPT ![k] = to]

Inserted(k) == row' = [row EXCEPT ![k] = "valid"]

Mirrored(k) == mirror' = mirror \cup {k}

InsertAndAnswer(k) ==
  /\ CreationStep(k, "idle", "answered") /\ Inserted(k)
  /\ UNCHANGED <<mirror, faults>>

Insert(k) ==
  /\ \/ CreationStep(k, "idle", "inserted") /\ Inserted(k) /\ UNCHANGED faults
     \/ CreationStep(k, "idle", "failed") /\ Fault /\ (Inserted(k) \/ UNCHANGED row)
  /\ UNCHANGED mirror

(* syncToRedis swallows a failing sadd, which may have been applied.       *)
Sync(k) ==
  /\ CreationStep(k, "inserted", "answered")
  /\ \/ Mirrored(k) /\ UNCHANGED faults
     \/ Fault /\ (Mirrored(k) \/ UNCHANGED mirror)
  /\ UNCHANGED row

(* A script whose sadd throws, or that dies before it, ends without        *)
(* showing the key.                                                        *)
ScriptFails(k) ==
  /\ CreationStep(k, "inserted", "failed")
  /\ Fault
  /\ Mirrored(k) \/ UNCHANGED mirror
  /\ UNCHANGED row

-----------------------------------------------------------------------------
(* DELETE /v1/api-keys/:id: find the row, revoke it, drop it from the set. *)
RevocationStep(v, from, to) ==
  /\ revocation[v].pc = from
  /\ revocation' = [revocation EXCEPT ![v].pc = to]

Dropped(v) == mirror' = mirror \ {KeyOf[v]}

Revoked(v) == row' = [row EXCEPT ![KeyOf[v]] = "revoked"]

FindAndDrop(v) ==
  /\ row[KeyOf[v]] # "absent"
  /\ RevocationStep(v, "idle", "found")
  /\ Dropped(v)
  /\ UNCHANGED <<row, faults>>

(* A revocation of a key without a row, or whose lookup throws, changes    *)
(* nothing and is left out.                                                *)
Find(v) ==
  /\ revocation[v].pc = "idle"
  /\ row[KeyOf[v]] # "absent"
  /\ revocation' = [revocation EXCEPT ![v] =
       [pc |-> "found", early |-> creation[KeyOf[v]] = "inserted"]]
  /\ UNCHANGED <<row, mirror, faults>>

RevokeDeletes(v) ==
  /\ RevocationStep(v, "found", "revoked")
  /\ row' = [row EXCEPT ![KeyOf[v]] = "deleted"]
  /\ UNCHANGED <<mirror, faults>>

Revoke(v) ==
  /\ \/ RevocationStep(v, "found", "revoked") /\ Revoked(v) /\ UNCHANGED faults
     \/ RevocationStep(v, "found", "failed") /\ Fault /\ (Revoked(v) \/ UNCHANGED row)
  /\ UNCHANGED mirror

DropSkipped(v) ==
  /\ RevocationStep(v, "revoked", "answered")
  /\ UNCHANGED <<row, mirror, faults>>

(* removeFromRedis swallows a failing srem.                                *)
Drop(v) ==
  /\ RevocationStep(v, "revoked", "answered")
  /\ \/ Dropped(v) /\ UNCHANGED faults
     \/ Fault /\ (Dropped(v) \/ UNCHANGED mirror)
  /\ UNCHANGED row

-----------------------------------------------------------------------------
(* authMiddleware and the handshake of the gateway.                        *)
EntryStep(n, from, to) ==
  /\ entry[n].pc = from
  /\ entry' = [entry EXCEPT ![n].pc = to]
  /\ UNCHANGED <<row, mirror, creation, revocation>>

(* A client can present a key once its creation was answered.              *)
Arrive(n) ==
  /\ entry[n].pc = "idle"
  /\ \E door \in Doors, bearer \in BOOLEAN :
       /\ bearer => creation[KeyOf[n]] = "answered"
       /\ entry' = [entry EXCEPT ![n] =
            [pc |-> "look", door |-> door, bearer |-> bearer,
             after |-> \E v \in Revocations : /\ KeyOf[v] = KeyOf[n]
                                              /\ revocation[v].pc = "answered"]]
  /\ UNCHANGED <<row, mirror, creation, revocation, faults>>

(* May n pass without anybody looking at a key?                            *)
Unasked(n) ==
  entry[n].door = "open" \/ (entry[n].door = "optional" /\ ~entry[n].bearer)

WalkIn(n) ==
  /\ Unasked(n)
  /\ EntryStep(n, "look", "admitted")
  /\ UNCHANGED faults

(* No Authorization header where one is required, or no token.             *)
TurnAway(n) ==
  /\ ~Unasked(n) /\ ~entry[n].bearer
  /\ EntryStep(n, "look", "refused")
  /\ UNCHANGED faults

(* apiKey.findUnique and the check of revoked.                             *)
LookUp(n) ==
  /\ entry[n].door \in {"required", "optional"} /\ entry[n].bearer
  /\ \/ EntryStep(n, "look", IF row[KeyOf[n]] = "valid" THEN "touch" ELSE "refused")
        /\ UNCHANGED faults
     \/ EntryStep(n, "look", "failed") /\ Fault

(* The update of lastUsedAt, then next().                                  *)
Touch(n) ==
  \/ EntryStep(n, "touch", "admitted") /\ UNCHANGED faults
  \/ EntryStep(n, "touch", "failed") /\ Fault

(* io.use: sismember.                                                      *)
Handshake(n) ==
  /\ entry[n].door = "ws" /\ entry[n].bearer
  /\ \/ EntryStep(n, "look", IF KeyOf[n] \in mirror THEN "admitted" ELSE "refused")
        /\ UNCHANGED faults
     \/ EntryStep(n, "look", "failed") /\ Fault

-----------------------------------------------------------------------------
(* The API process dies with its requests; scripts and the gateway's       *)
(* handshakes go on.  A call that was applied just before counts as        *)
(* answered.                                                               *)
Crash ==
  /\ Fault
  /\ \E byScript \in SUBSET Keys :
       creation' = [k \in Keys |->
         IF creation[k] = "inserted" /\ k \notin byScript
         THEN "failed" ELSE creation[k]]
  /\ revocation' = [v \in Revocations |->
       IF revocation[v].pc \in {"found", "revoked"}
       THEN [revocation[v] EXCEPT !.pc = "failed"] ELSE revocation[v]]
  /\ entry' = [n \in Entries |->
       IF entry[n].pc \in {"look", "touch"} /\ entry[n].door # "ws"
       THEN [entry[n] EXCEPT !.pc = "failed"] ELSE entry[n]]
  /\ UNCHANGED <<row, mirror>>

Create(k) ==
  /\ Insert(k) \/ Sync(k) \/ ScriptFails(k)
  /\ UNCHANGED <<revocation, entry>>

Remove(v) == (Find(v) \/ Revoke(v) \/ Drop(v)) /\ UNCHANGED <<creation, entry>>

Enter(n) ==
  Arrive(n) \/ WalkIn(n) \/ TurnAway(n) \/ LookUp(n) \/ Touch(n) \/ Handshake(n)

Next ==
  \/ \E k \in Keys : Create(k)
  \/ \E v \in Revocations : Remove(v)
  \/ \E n \in Entries : Enter(n)
  \/ Crash

Spec == Init /\ [][Next]_vars

-----------------------------------------------------------------------------
RevocationsOf(k) == {v \in Revocations : KeyOf[v] = k}

(* Whoever looks at a key turns away one whose revocation was answered     *)
(* before: the REST routes that ask for it always, the gateway unless a    *)
(* call failed or the revocation found the key (its id is listed by then)  *)
(* while its creation was in flight, whose sadd may follow the srem        *)
(* (api-keys.ts:55, :115).  Its client still gets in where nobody asks.    *)
NoEntryAfterRevocation ==
  \A n \in Entries :
    entry[n].after /\ entry[n].pc = "admitted" /\ ~Unasked(n) =>
      /\ entry[n].door = "ws"
      /\ faults > 0 \/ \E v \in RevocationsOf(KeyOf[n]) : revocation[v].early

(* A key its client was given is refused only once some request went as    *)
(* far as to revoke its row, or a call failed: the set never loses a key   *)
(* before the row does.                                                    *)
RefusedMeansRevoked ==
  \A n \in Entries :
    entry[n].pc = "refused" /\ entry[n].bearer =>
      \/ \E v \in RevocationsOf(KeyOf[n]) :
           revocation[v].pc \in {"revoked", "answered"}
      \/ faults > 0

(* README.md:136 has every request but two require an API key: an admitted *)
(* one presented a key, and none whose revocation had been answered.       *)
KeyRequired ==
  \A n \in Entries :
    entry[n].pc = "admitted" /\ entry[n].door # "ws" =>
      entry[n].bearer /\ ~entry[n].after

(* When no request on a key is in flight, row and set agree on it, with    *)
(* the same two exceptions.                                                *)
CopiesAgree ==
  \A k \in Keys :
    /\ faults = 0
    /\ creation[k] # "inserted"
    /\ \A v \in RevocationsOf(k) : /\ revocation[v].pc \notin {"found", "revoked"}
                                   /\ ~revocation[v].early
    => (k \in mirror <=> row[k] = "valid")
=============================================================================
