--------------------------- MODULE ApiKeysProofs ---------------------------
(***************************************************************************)
(* The two copies of the API keys, for any keys, requests and failures.    *)
(***************************************************************************)
EXTENDS ApiKeys, TLAPS

USE KeysAssumption

(* A row exists exactly as far as its creation says.                       *)
StageInv ==
  \A k \in Keys :
    /\ creation[k] = "idle" => row[k] = "absent"
    /\ creation[k] \in {"inserted", "answered"} => row[k] # "absent"

(* What a revocation has done to the row stays done.                       *)
RevocationInv ==
  \A v \in Revocations :
    /\ revocation[v].pc # "idle" => row[KeyOf[v]] # "absent"
    /\ revocation[v].early => revocation[v].pc # "idle"
    /\ revocation[v].pc \in {"revoked", "answered"} => row[KeyOf[v]] = "revoked"

(* As long as nothing failed: the set follows the row, a revoked row has   *)
(* its revocation, and one that was not early finds the sadd behind it.    *)
MirrorInv ==
  \A k \in Keys :
    /\ creation[k] # "failed"
    /\ k \in mirror => creation[k] = "answered"
    /\ creation[k] = "answered" /\ row[k] = "valid" => k \in mirror

RevokedInv ==
  \A k \in Keys :
    row[k] = "revoked" =>
      \E v \in RevocationsOf(k) : revocation[v].pc \in {"revoked", "answered"}

DroppedInv ==
  \A v \in Revocations :
    /\ revocation[v].pc # "idle" /\ ~revocation[v].early =>
         creation[KeyOf[v]] = "answered"
    /\ revocation[v].pc = "answered" /\ ~revocation[v].early =>
         KeyOf[v] \notin mirror

CleanInv == faults = 0 => MirrorInv /\ RevokedInv /\ DroppedInv

(* An entry that came after a revocation finds its traces; one that is     *)
(* past the lookup of its row cannot have come after it.                   *)
EntryOK(n) ==
  /\ entry[n].pc # "idle" /\ entry[n].bearer => creation[KeyOf[n]] = "answered"
  /\ entry[n].pc = "touch" => entry[n].bearer /\ entry[n].door \in {"required", "optional"}
  /\ entry[n].after =>
       \E v \in RevocationsOf(KeyOf[n]) : revocation[v].pc = "answered"
  /\ entry[n].after /\ entry[n].pc \in {"touch", "admitted"} /\ ~Unasked(n) =>
       /\ entry[n].door = "ws"
       /\ faults > 0 \/ \E v \in RevocationsOf(KeyOf[n]) : revocation[v].early
  /\ entry[n].pc = "refused" /\ entry[n].bearer =>
       \/ \E v \in RevocationsOf(KeyOf[n]) :
            revocation[v].pc \in {"revoked", "answered"}
       \/ faults > 0

EntryInv == \A n \in Entries : EntryOK(n)

KeysInv ==
  TypeOK /\ StageInv /\ RevocationInv /\ CleanInv /\ EntryInv

-----------------------------------------------------------------------------
(* Nothing exists at first.                                                *)
LEMMA KeysInitInv == Init => KeysInv
  BY DEF Init, KeysInv, TypeOK, Revocation, Entry, Doors, StageInv, RevocationInv,
     CleanInv, MirrorInv, RevokedInv, DroppedInv, EntryInv, EntryOK,
     RevocationsOf

(* What the lookup of a revocation leaves behind.                          *)
LEMMA FindStep ==
  ASSUME TypeOK, NEW v \in Revocations, Find(v)
  PROVE  /\ revocation' \in [Revocations -> Revocation]
         /\ revocation[v].pc = "idle" /\ revocation'[v].pc = "found"
         /\ revocation'[v].early <=> creation[KeyOf[v]] = "inserted"
         /\ \A w \in Revocations : w # v => revocation'[w] = revocation[w]
         /\ row[KeyOf[v]] # "absent"
         /\ UNCHANGED <<row, mirror, faults>>
<1>1. PICK b \in BOOLEAN : b <=> creation[KeyOf[v]] = "inserted"
  OBVIOUS
<1>2. (creation[KeyOf[v]] = "inserted") = b
  BY <1>1, Zenon
<1>3. revocation' = [revocation EXCEPT ![v] = [pc |-> "found", early |-> b]]
  BY <1>2, Zenon DEF Find
<1>4. revocation'[v] = [pc |-> "found", early |-> b]
  BY <1>3 DEF TypeOK
<1> QED
  BY <1>1, <1>3, <1>4 DEF Find, TypeOK, Revocation

(* A step of an entry moves its pc and nothing else.                       *)
LEMMA EntryMoves ==
  ASSUME TypeOK, NEW n \in Entries, NEW from, NEW to, EntryStep(n, from, to)
  PROVE  /\ entry'[n] = [entry[n] EXCEPT !.pc = to]
         /\ entry'[n].pc = to
         /\ entry'[n].door = entry[n].door
         /\ entry'[n].bearer = entry[n].bearer
         /\ entry'[n].after = entry[n].after
<1>1. entry[n] \in Entry
  BY DEF TypeOK
<1>2. entry'[n] = [entry[n] EXCEPT !.pc = to]
  BY DEF EntryStep, TypeOK
<1>3. /\ [entry[n] EXCEPT !.pc = to].pc = to
      /\ [entry[n] EXCEPT !.pc = to].door = entry[n].door
      /\ [entry[n] EXCEPT !.pc = to].bearer = entry[n].bearer
      /\ [entry[n] EXCEPT !.pc = to].after = entry[n].after
  BY <1>1 DEF Entry
<1> QED
  BY <1>2, <1>3, Zenon

(* The types are kept by every step.                                       *)
LEMMA KeysStepType == TypeOK /\ [Next]_vars => TypeOK'
<1> SUFFICES ASSUME TypeOK, [Next]_vars
             PROVE  TypeOK'
  OBVIOUS
<1> USE DEF TypeOK, Fault
<1>1. ASSUME NEW k \in Keys, Create(k)
      PROVE  TypeOK'
  BY <1>1 DEF Create, Insert, Sync, ScriptFails, CreationStep, Inserted, Mirrored
<1>2. ASSUME NEW v \in Revocations, Remove(v)
      PROVE  TypeOK'
  <2>1. CASE Find(v)
    BY <1>2, <2>1, FindStep DEF Remove
  <2>2. CASE Revoke(v)
    BY <1>2, <2>2 DEF Remove, Revoke, RevocationStep, Revoked, Revocation
  <2>3. CASE Drop(v)
    BY <1>2, <2>3 DEF Remove, Drop, RevocationStep, Dropped, Revocation
  <2> QED
    BY <1>2, <2>1, <2>2, <2>3 DEF Remove
<1>3. ASSUME NEW n \in Entries, Enter(n)
      PROVE  TypeOK'
  <2>1. CASE Arrive(n)
    BY <2>1 DEF Arrive, Entry
  <2>5. CASE WalkIn(n) \/ TurnAway(n)
    BY <2>5 DEF WalkIn, TurnAway, EntryStep, Entry
  <2>2. CASE LookUp(n)
    <3>1. ASSUME NEW to \in {"touch", "refused", "failed"}, EntryStep(n, "look", to)
          PROVE  entry' \in [Entries -> Entry]
      BY <3>1 DEF EntryStep, Entry
    <3>2. entry' \in [Entries -> Entry]
      BY <2>2, <3>1 DEF LookUp
    <3> QED
      BY <2>2, <3>2 DEF LookUp, EntryStep
  <2>3. CASE Touch(n)
    BY <2>3 DEF Touch, EntryStep, Entry
  <2>4. CASE Handshake(n)
    BY <2>4 DEF Handshake, EntryStep, Entry
  <2> QED
    BY <1>3, <2>1, <2>2, <2>3, <2>4, <2>5 DEF Enter
<1>4. CASE Crash
  <2>1. ASSUME NEW n \in Entries
        PROVE  [entry[n] EXCEPT !.pc = "failed"] \in Entry
    BY DEF Entry
  <2>2. entry' \in [Entries -> Entry]
    BY <1>4, <2>1 DEF Crash
  <2>3. revocation' \in [Revocations -> Revocation]
    BY <1>4 DEF Crash, Revocation
  <2> QED
    BY <1>4, <2>2, <2>3 DEF Crash
<1>5. CASE UNCHANGED vars
  BY <1>5 DEF vars
<1> QED
  BY <1>1, <1>2, <1>3, <1>4, <1>5 DEF Next

(* Rows follow the creations and revocations that write them.              *)
LEMMA KeysStepRows ==
  TypeOK /\ StageInv /\ RevocationInv /\ [Next]_vars =>
    StageInv' /\ RevocationInv'
<1> SUFFICES ASSUME TypeOK, StageInv, RevocationInv, [Next]_vars
             PROVE  StageInv' /\ RevocationInv'
  OBVIOUS
<1> USE DEF TypeOK, StageInv, RevocationInv
<1>1. ASSUME NEW k \in Keys, Create(k)
      PROVE  StageInv' /\ RevocationInv'
  BY <1>1 DEF Create, Insert, Sync, ScriptFails, CreationStep, Inserted
<1>2. ASSUME NEW v \in Revocations, Remove(v)
      PROVE  StageInv' /\ RevocationInv'
  <2>1. CASE Find(v)
    BY <1>2, <2>1, FindStep DEF Remove
  <2>2. CASE Revoke(v)
    BY <1>2, <2>2 DEF Remove, Revoke, RevocationStep, Revoked, Revocation
  <2>3. CASE Drop(v)
    BY <1>2, <2>3 DEF Remove, Drop, RevocationStep, Revocation
  <2> QED
    BY <1>2, <2>1, <2>2, <2>3 DEF Remove
<1>3. ASSUME NEW n \in Entries, Enter(n)
      PROVE  UNCHANGED <<row, mirror, creation, revocation>>
  BY <1>3 DEF Enter, Arrive, WalkIn, TurnAway, LookUp, Touch, Handshake, EntryStep
<1>4. CASE Crash
  BY <1>4 DEF Crash, Revocation
<1>5. CASE UNCHANGED vars
  BY <1>5 DEF vars
<1> QED
  BY <1>1, <1>2, <1>3, <1>4, <1>5 DEF Next

(* Until something fails, the set follows the row.                         *)
LEMMA KeysStepClean ==
  KeysInv /\ [Next]_vars => CleanInv'
<1> SUFFICES ASSUME KeysInv, [Next]_vars, faults' = 0
             PROVE  (MirrorInv /\ RevokedInv /\ DroppedInv)'
  BY DEF CleanInv
<1>1. faults = 0 /\ ~Fault
  BY DEF KeysInv, TypeOK, Next, vars, Create, Insert, Sync, ScriptFails, Remove, Find,
     Revoke, Drop, Enter, Arrive, WalkIn, TurnAway, LookUp, Touch, Handshake, Crash,
     Fault
<1>2. TypeOK /\ StageInv /\ RevocationInv /\ MirrorInv /\ RevokedInv /\ DroppedInv
  BY <1>1 DEF KeysInv, CleanInv
<1> USE <1>2 DEF TypeOK
<1>3. ASSUME NEW k \in Keys, Insert(k), UNCHANGED revocation
      PROVE  (MirrorInv /\ RevokedInv /\ DroppedInv)'
  BY <1>1, <1>3 DEF Insert, CreationStep, Inserted, StageInv, RevocationInv,
     MirrorInv, RevokedInv, DroppedInv, RevocationsOf
<1>4. ASSUME NEW k \in Keys, Sync(k), UNCHANGED revocation
      PROVE  (MirrorInv /\ RevokedInv /\ DroppedInv)'
  BY <1>1, <1>4 DEF Sync, CreationStep, Mirrored, MirrorInv, RevokedInv,
     DroppedInv, RevocationsOf, Revocation
<1>5. ASSUME NEW v \in Revocations, Find(v), UNCHANGED creation
      PROVE  (MirrorInv /\ RevokedInv /\ DroppedInv)'
  BY <1>5, FindStep DEF StageInv, MirrorInv, RevokedInv, DroppedInv, RevocationsOf
<1>6. ASSUME NEW v \in Revocations, Revoke(v), UNCHANGED creation
      PROVE  (MirrorInv /\ RevokedInv /\ DroppedInv)'
  <2>1. /\ revocation[v].pc = "found"
        /\ revocation' = [revocation EXCEPT ![v].pc = "revoked"]
        /\ row' = [row EXCEPT ![KeyOf[v]] = "revoked"]
        /\ UNCHANGED <<mirror, creation>>
    BY <1>1, <1>6 DEF Revoke, RevocationStep, Revoked
  <2>2. /\ revocation'[v].pc = "revoked"
        /\ revocation'[v].early = revocation[v].early
        /\ \A w \in Revocations : w # v => revocation'[w] = revocation[w]
    BY <2>1 DEF Revocation
  <2>3. MirrorInv' /\ DroppedInv'
    BY <2>1, <2>2 DEF MirrorInv, DroppedInv
  <2>4. RevokedInv'
    BY <2>1, <2>2 DEF RevokedInv, RevocationsOf
  <2> QED
    BY <2>3, <2>4
<1>7. ASSUME NEW v \in Revocations, Drop(v), UNCHANGED creation
      PROVE  (MirrorInv /\ RevokedInv /\ DroppedInv)'
  BY <1>1, <1>7 DEF Drop, RevocationStep, Dropped, RevocationInv, MirrorInv,
     RevokedInv, DroppedInv, RevocationsOf, Revocation
<1>8. CASE UNCHANGED <<row, mirror, creation, revocation>>
  BY <1>8 DEF MirrorInv, RevokedInv, DroppedInv, RevocationsOf
<1>9. ASSUME NEW n \in Entries, Enter(n)
      PROVE  UNCHANGED <<row, mirror, creation, revocation>>
  BY <1>9 DEF Enter, Arrive, WalkIn, TurnAway, LookUp, Touch, Handshake, EntryStep
<1>10. ~Crash /\ \A k \in Keys : ~ScriptFails(k)
  BY <1>1 DEF Crash, ScriptFails
<1> QED
  BY <1>3, <1>4, <1>5, <1>6, <1>7, <1>8, <1>9, <1>10
     DEF Next, vars, Create, Remove

(* What no step takes back: answers, what was early, and failures.         *)
AnswersKept ==
  /\ \A k \in Keys : creation[k] = "answered" => creation'[k] = "answered"
  /\ \A v \in Revocations :
       /\ revocation[v].pc \in {"revoked", "answered"} =>
            revocation'[v].pc \in {"revoked", "answered"} \/ faults' > 0
       /\ revocation[v].pc = "answered" => revocation'[v].pc = "answered"
       /\ revocation[v].pc # "idle" => revocation'[v].early = revocation[v].early
  /\ faults > 0 => faults' > 0

(* Every step keeps them.                                                  *)
LEMMA KeysStepKeeps == TypeOK /\ [Next]_vars => AnswersKept
<1> SUFFICES ASSUME TypeOK, [Next]_vars
             PROVE  AnswersKept
  OBVIOUS
<1> USE DEF TypeOK, Fault, AnswersKept
<1>1. ASSUME NEW k \in Keys, Create(k)
      PROVE  AnswersKept
  BY <1>1 DEF Create, Insert, Sync, ScriptFails, CreationStep
<1>2. ASSUME NEW v \in Revocations, Remove(v)
      PROVE  AnswersKept
  <2>1. CASE Find(v)
    BY <1>2, <2>1, FindStep DEF Remove
  <2>2. CASE Revoke(v)
    BY <1>2, <2>2 DEF Remove, Revoke, RevocationStep, Revocation
  <2>3. CASE Drop(v)
    BY <1>2, <2>3 DEF Remove, Drop, RevocationStep, Revocation
  <2> QED
    BY <1>2, <2>1, <2>2, <2>3 DEF Remove
<1>3. ASSUME NEW n \in Entries, Enter(n)
      PROVE  AnswersKept
  BY <1>3 DEF Enter, Arrive, WalkIn, TurnAway, LookUp, Touch, Handshake, EntryStep
<1>4. CASE Crash
  BY <1>4 DEF Crash, Revocation
<1>5. CASE UNCHANGED vars
  BY <1>5 DEF vars
<1> QED
  BY <1>1, <1>2, <1>3, <1>4, <1>5 DEF Next

(* What is known of an entry survives the steps of all others.             *)
LEMMA EntryFrame ==
  ASSUME KeysInv, AnswersKept, NEW n \in Entries, EntryOK(n),
         \/ entry'[n] = entry[n]
         \/ /\ entry'[n] = [entry[n] EXCEPT !.pc = "failed"]
            /\ entry[n].pc # "idle"
  PROVE  EntryOK(n)'
<1> USE DEF KeysInv, TypeOK, RevocationInv, AnswersKept, EntryOK, RevocationsOf, Unasked
<1>1. KeyOf[n] \in Keys /\ entry[n] \in Entry
  OBVIOUS
<1>2. CASE entry'[n] = entry[n]
  BY <1>1, <1>2
<1>3. CASE entry'[n] = [entry[n] EXCEPT !.pc = "failed"] /\ entry[n].pc # "idle"
  BY <1>1, <1>3 DEF Entry
<1> QED
  BY <1>2, <1>3

(* An entry that arrives, or takes its next step, finds the traces of the  *)
(* revocations answered before.                                            *)
LEMMA EntryOwnStep ==
  ASSUME KeysInv, NEW n \in Entries, Enter(n), AnswersKept
  PROVE  EntryOK(n)'
<1> USE DEF KeysInv, TypeOK, EntryInv, EntryOK, RevocationsOf, Unasked
<1>1. KeyOf[n] \in Keys /\ entry[n] \in Entry
  OBVIOUS
<1>2. CASE Arrive(n)
  <2>1. /\ entry'[n].pc = "look"
        /\ entry'[n].bearer => creation[KeyOf[n]] = "answered"
    BY <1>2 DEF Arrive
  <2>2. entry'[n].after => \E v \in Revocations : /\ KeyOf[v] = KeyOf[n]
                                                /\ revocation[v].pc = "answered"
    BY <1>2 DEF Arrive
  <2> QED
    BY <1>2, <2>1, <2>2 DEF Arrive
<1>6. CASE WalkIn(n) \/ TurnAway(n)
  <2>1. /\ entry[n].pc = "look" /\ UNCHANGED <<row, mirror, creation, revocation, faults>>
        /\ \/ Unasked(n) /\ entry'[n].pc = "admitted"
           \/ ~entry[n].bearer /\ entry'[n].pc = "refused"
        /\ entry'[n].door = entry[n].door /\ entry'[n].after = entry[n].after
        /\ entry'[n].bearer = entry[n].bearer
    BY <1>1, <1>6 DEF WalkIn, TurnAway, EntryStep, Entry
  <2> QED
    BY <2>1
<1>3. CASE LookUp(n)
  <2>1. entry[n].door \in {"required", "optional"} /\ entry[n].bearer
        /\ entry[n].pc = "look" /\ UNCHANGED <<row, mirror, creation, revocation>>
    BY <1>3 DEF LookUp, EntryStep
  <2>2. entry'[n].door = entry[n].door /\ entry'[n].after = entry[n].after
        /\ entry'[n].bearer = entry[n].bearer
    BY <1>3, EntryMoves, Zenon DEF LookUp
  <2>3. CASE entry'[n].pc = "touch"
    <3>1. row[KeyOf[n]] = "valid"
      BY <1>1, <1>3, <2>3 DEF LookUp, EntryStep, Entry
    <3>2. ~entry[n].after
      BY <3>1 DEF RevocationInv
    <3> QED
      BY <2>1, <2>2, <2>3, <3>2
  <2>4. CASE entry'[n].pc = "refused"
    <3>1. row[KeyOf[n]] # "valid" /\ UNCHANGED faults
      BY <1>1, <1>3, <2>4 DEF LookUp, EntryStep, Entry
    <3>2. row[KeyOf[n]] = "revoked"
      BY <1>1, <2>1, <3>1 DEF StageInv
    <3>3. \/ faults > 0
          \/ \E v \in RevocationsOf(KeyOf[n]) :
               revocation[v].pc \in {"revoked", "answered"}
      BY <1>1, <3>2 DEF CleanInv, RevokedInv
    <3> QED
      BY <2>1, <2>2, <2>4, <3>1, <3>3
  <2>5. CASE entry'[n].pc = "failed"
    BY <2>1, <2>2, <2>5
  <2>6. entry'[n].pc \in {"touch", "refused", "failed"}
    BY <1>1, <1>3 DEF LookUp, EntryStep, Entry
  <2> QED
    BY <2>3, <2>4, <2>5, <2>6
<1>4. CASE Touch(n)
  BY <1>1, <1>4 DEF Touch, EntryStep, Entry
<1>5. CASE Handshake(n)
  <2>1. entry[n].door = "ws" /\ entry[n].bearer /\ entry[n].pc = "look"
        /\ UNCHANGED <<row, mirror, creation, revocation>>
    BY <1>5 DEF Handshake, EntryStep
  <2>2. entry'[n].door = "ws" /\ entry'[n].after = entry[n].after
        /\ entry'[n].bearer = entry[n].bearer
    BY <1>5, <2>1, EntryMoves, Zenon DEF Handshake
  <2>3. CASE entry'[n].pc = "admitted"
    <3>1. KeyOf[n] \in mirror /\ UNCHANGED faults
      BY <1>1, <1>5, <2>3 DEF Handshake, EntryStep, Entry
    <3>2. entry[n].after =>
            faults > 0 \/ \E v \in RevocationsOf(KeyOf[n]) : revocation[v].early
      BY <3>1 DEF CleanInv, DroppedInv
    <3> QED
      BY <2>1, <2>2, <2>3, <3>1, <3>2
  <2>4. CASE entry'[n].pc = "refused"
    <3>1. KeyOf[n] \notin mirror /\ UNCHANGED faults
      BY <1>1, <1>5, <2>4 DEF Handshake, EntryStep, Entry
    <3>2. faults = 0 => row[KeyOf[n]] = "revoked"
      BY <1>1, <2>1, <3>1 DEF CleanInv, MirrorInv, StageInv
    <3>3. \/ faults > 0
          \/ \E v \in RevocationsOf(KeyOf[n]) :
               revocation[v].pc \in {"revoked", "answered"}
      BY <1>1, <3>2 DEF CleanInv, RevokedInv
    <3> QED
      BY <2>1, <2>2, <2>4, <3>1, <3>3
  <2>5. CASE entry'[n].pc = "failed"
    BY <2>1, <2>2, <2>5
  <2>6. entry'[n].pc \in {"admitted", "refused", "failed"}
    BY <1>1, <1>5 DEF Handshake, EntryStep, Entry
  <2> QED
    BY <2>3, <2>4, <2>5, <2>6
<1> QED
  BY <1>2, <1>3, <1>4, <1>5, <1>6 DEF Enter

(* Entries stay honest over every step.                                    *)
LEMMA KeysStepEntry == KeysInv /\ [Next]_vars => EntryInv'
<1> SUFFICES ASSUME KeysInv, [Next]_vars, NEW n \in Entries
             PROVE  EntryOK(n)'
  BY DEF EntryInv
<1>1. AnswersKept /\ EntryOK(n) /\ entry \in [Entries -> Entry]
  BY KeysStepKeeps DEF KeysInv, EntryInv, TypeOK
<1>2. CASE Enter(n)
  BY <1>1, <1>2, EntryOwnStep
<1>3. ASSUME NEW m \in Entries, Enter(m), m # n
      PROVE  entry'[n] = entry[n]
  BY <1>1, <1>3 DEF Enter, Arrive, WalkIn, TurnAway, LookUp, Touch, Handshake, EntryStep
<1>4. CASE Crash
  <2>1. \/ entry'[n] = entry[n]
        \/ /\ entry'[n] = [entry[n] EXCEPT !.pc = "failed"]
           /\ entry[n].pc # "idle"
    BY <1>4 DEF Crash
  <2> QED
    BY <1>1, <2>1, EntryFrame
<1>5. CASE UNCHANGED entry
  BY <1>1, <1>5, EntryFrame
<1> QED
  BY <1>1, <1>2, <1>3, <1>4, <1>5, EntryFrame DEF Next, vars, Create, Remove

-----------------------------------------------------------------------------
(* The inductive invariant holds throughout.                               *)
THEOREM KeysInvariant == Spec => []KeysInv
<1>1. KeysInv /\ [Next]_vars => KeysInv'
  BY KeysStepType, KeysStepRows, KeysStepClean, KeysStepEntry DEF KeysInv
<1> QED
  BY KeysInitInv, <1>1, PTL DEF Spec

(* Types, for any keys and requests.                                       *)
THEOREM KeysTypeCorrect == Spec => []TypeOK
<1>1. KeysInv => TypeOK
  BY DEF KeysInv
<1> QED
  BY KeysInvariant, <1>1, PTL

(* Wherever a key is looked at, one whose revocation was answered is       *)
(* turned away, but for the two exceptions at the gateway.                 *)
THEOREM RevokedStaysOut == Spec => []NoEntryAfterRevocation
<1>1. KeysInv => NoEntryAfterRevocation
  BY DEF KeysInv, EntryInv, EntryOK, NoEntryAfterRevocation, Unasked
<1> QED
  BY KeysInvariant, <1>1, PTL

(* A refusal has a revocation or a failure behind it.                      *)
THEOREM RefusalHasReason == Spec => []RefusedMeansRevoked
<1>1. KeysInv => RefusedMeansRevoked
  BY DEF KeysInv, EntryInv, EntryOK, RefusedMeansRevoked
<1> QED
  BY KeysInvariant, <1>1, PTL

(* Without failures and early revocations, quiet copies agree.             *)
THEOREM QuietCopiesAgree == Spec => []CopiesAgree
<1>1. KeysInv => CopiesAgree
  <2> SUFFICES ASSUME KeysInv, NEW k \in Keys, faults = 0,
                      creation[k] # "inserted",
                      \A v \in RevocationsOf(k) :
                        /\ revocation[v].pc \notin {"found", "revoked"}
                        /\ ~revocation[v].early
               PROVE  k \in mirror <=> row[k] = "valid"
    BY DEF CopiesAgree
  <2> USE DEF KeysInv, TypeOK, CleanInv
  <2>1. creation[k] \in {"idle", "answered"}
    BY DEF MirrorInv
  <2>2. row[k] = "valid" => k \in mirror
    BY <2>1 DEF MirrorInv, StageInv
  <2>3. row[k] = "revoked" => k \notin mirror
    BY DEF RevokedInv, DroppedInv, RevocationsOf
  <2>4. row[k] = "absent" => k \notin mirror
    BY <2>1 DEF MirrorInv, StageInv
  <2> QED
    BY <2>2, <2>3, <2>4
<1> QED
  BY KeysInvariant, <1>1, PTL
=============================================================================
