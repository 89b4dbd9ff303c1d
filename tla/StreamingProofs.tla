--------------------------- MODULE StreamingProofs ---------------------------
(***************************************************************************)
(* The publishers, the gateway and its clients on top of the pipeline, for *)
(* every number of executions, workers, clients, faults, outages and       *)
(* broken connections.                                                     *)
(***************************************************************************)
EXTENDS Streaming, OutcomeProofs, SequenceTheorems

-----------------------------------------------------------------------------
(* What a sequence of messages says of one execution.                      *)

(* Nothing at all.                                                         *)
Silent(q, e) == \A i \in 1..Len(q) : q[i].exec # e

Final == {"completed", "failed"}

IsFinal(m, e) == m.exec = e /\ m.type \in Final

Says(m, e, t) == m.exec = e /\ m.type = t

(* Nothing final.                                                          *)
Quiet(q, e) == \A i \in 1..Len(q) : ~IsFinal(q[i], e)

(* The last final message about e is a t.                                  *)
Closes(q, e, t) ==
  \E i \in 1..Len(q) :
    Says(q[i], e, t) /\ \A j \in (i + 1)..Len(q) : ~IsFinal(q[j], e)

Completes(q, e) == \E i \in 1..Len(q) : Says(q[i], e, "completed")

(* Whatever is completed has nothing about e behind it.                    *)
Ends(q, e) ==
  \A i \in 1..Len(q) : Says(q[i], e, "completed") =>
    \A j \in (i + 1)..Len(q) : q[j].exec # e

LEMMA EmptySays ==
  ASSUME NEW e
  PROVE  /\ Silent(<<>>, e) /\ Quiet(<<>>, e) /\ Ends(<<>>, e)
         /\ ~Completes(<<>>, e) /\ \A t : ~Closes(<<>>, e, t)
  BY DEF Silent, Quiet, Ends, Completes, Closes

LEMMA SilentSays ==
  ASSUME NEW S, NEW q \in Seq(S), NEW e, Silent(q, e)
  PROVE  Quiet(q, e) /\ Ends(q, e) /\ ~Completes(q, e) /\ \A t : ~Closes(q, e, t)
  BY DEF Silent, Quiet, Ends, Completes, Closes, Says, IsFinal

(* One message more.                                                       *)
LEMMA AppendSays ==
  ASSUME NEW S, NEW q \in Seq(S), NEW m \in S, NEW e
  PROVE  LET r == Append(q, m) IN
         /\ Silent(q, e) /\ m.exec # e => Silent(r, e)
         /\ Quiet(q, e) /\ ~IsFinal(m, e) => Quiet(r, e)
         /\ Completes(r, e) => Completes(q, e) \/ Says(m, e, "completed")
         /\ Ends(q, e) /\ (m.exec # e \/ ~Completes(q, e)) => Ends(r, e)
         /\ \A t : /\ Closes(q, e, t) /\ ~IsFinal(m, e) => Closes(r, e, t)
                   /\ Says(m, e, t) => Closes(r, e, t)
<1> DEFINE r == Append(q, m)
           n == Len(q)
<1>1. /\ n \in Nat /\ Len(r) = n + 1
      /\ \A i \in 1..n : r[i] = q[i]
      /\ r[n + 1] = m
  BY AppendProperties, LenProperties
<1> HIDE DEF r
<1>2. \A i \in 1..Len(r) : i \in 1..n \/ i = n + 1
  BY <1>1
<1>3. Silent(q, e) /\ m.exec # e => Silent(r, e)
  BY <1>1, <1>2 DEF Silent
<1>4. Quiet(q, e) /\ ~IsFinal(m, e) => Quiet(r, e)
  BY <1>1, <1>2 DEF Quiet
<1>5. Completes(r, e) => Completes(q, e) \/ Says(m, e, "completed")
  BY <1>1, <1>2 DEF Completes
<1>6. ASSUME Ends(q, e), m.exec # e \/ ~Completes(q, e)
      PROVE  Ends(r, e)
  <2> SUFFICES ASSUME NEW i \in 1..Len(r), Says(r[i], e, "completed"),
                      NEW j \in (i + 1)..Len(r)
               PROVE  r[j].exec # e
    BY DEF Ends
  <2>1. i \in 1..n /\ Says(q[i], e, "completed") /\ j \in 1..Len(r)
    BY <1>1
  <2>2. m.exec # e
    BY <1>6, <2>1 DEF Completes
  <2>3. j \in 1..n => q[j].exec # e
    BY <1>6, <2>1 DEF Ends
  <2> QED
    BY <1>1, <1>2, <2>1, <2>2, <2>3
<1>7. ASSUME NEW t, Closes(q, e, t), ~IsFinal(m, e)
      PROVE  Closes(r, e, t)
  <2>1. PICK i \in 1..n :
          Says(q[i], e, t) /\ \A j \in (i + 1)..n : ~IsFinal(q[j], e)
    BY <1>7 DEF Closes
  <2>2. i \in 1..Len(r) /\ Says(r[i], e, t)
    BY <1>1, <2>1
  <2>3. ASSUME NEW j \in (i + 1)..Len(r)
        PROVE  ~IsFinal(r[j], e)
    <3>1. j = n + 1 \/ j \in (i + 1)..n
      BY <1>1
    <3>2. j \in (i + 1)..n => r[j] = q[j]
      BY <1>1
    <3> QED
      BY <1>1, <1>7, <2>1, <3>1, <3>2
  <2> QED
    BY <2>2, <2>3 DEF Closes
<1>8. ASSUME NEW t, Says(m, e, t)
      PROVE  Closes(r, e, t)
  BY <1>1, <1>8 DEF Closes
<1> QED
  BY <1>3, <1>4, <1>5, <1>6, <1>7, <1>8 DEF r

(* Without its first message.                                              *)
LEMMA TailSays ==
  ASSUME NEW S, NEW q \in Seq(S), q # <<>>, NEW e
  PROVE  LET r == Tail(q)
             m == Head(q)
         IN
         /\ Silent(q, e) => Silent(r, e) /\ m.exec # e
         /\ Quiet(q, e) => Quiet(r, e) /\ ~IsFinal(m, e)
         /\ Completes(r, e) \/ Says(m, e, "completed") => Completes(q, e)
         /\ Ends(q, e) => Ends(r, e)
         /\ Ends(q, e) /\ Says(m, e, "completed") => Silent(r, e)
         /\ \A t : Closes(q, e, t) =>
              Closes(r, e, t) \/ (Says(m, e, t) /\ Quiet(r, e))
<1> DEFINE r == Tail(q)
           m == Head(q)
           n == Len(q)
<1>1. /\ n \in Nat \ {0} /\ Len(r) = n - 1
      /\ \A i \in 1..Len(r) : r[i] = q[i + 1]
      /\ m = q[1]
  BY HeadTailProperties, EmptySeq
<1> HIDE DEF r, m
<1>2. \A i \in 1..Len(r) : i + 1 \in 1..n
  BY <1>1
<1>3. 1 \in 1..n
  BY <1>1
<1>4. Silent(q, e) => Silent(r, e) /\ m.exec # e
  BY <1>1, <1>2, <1>3 DEF Silent
<1>5. Quiet(q, e) => Quiet(r, e) /\ ~IsFinal(m, e)
  BY <1>1, <1>2, <1>3 DEF Quiet
<1>6. Completes(r, e) \/ Says(m, e, "completed") => Completes(q, e)
  BY <1>1, <1>2, <1>3 DEF Completes
<1>7. ASSUME Ends(q, e)
      PROVE  Ends(r, e)
  <2> SUFFICES ASSUME NEW i \in 1..Len(r), Says(r[i], e, "completed"),
                      NEW j \in (i + 1)..Len(r)
               PROVE  r[j].exec # e
    BY DEF Ends
  <2>1. i + 1 \in 1..n /\ j \in 1..Len(r) /\ j + 1 \in ((i + 1) + 1)..n
    BY <1>1
  <2> QED
    BY <1>1, <1>7, <2>1 DEF Ends
<1>8. ASSUME Ends(q, e), Says(m, e, "completed")
      PROVE  Silent(r, e)
  <2>1. \A j \in (1 + 1)..n : q[j].exec # e
    BY <1>1, <1>3, <1>8 DEF Ends
  <2>2. \A i \in 1..Len(r) : i + 1 \in (1 + 1)..n
    BY <1>1
  <2> QED
    BY <1>1, <2>1, <2>2 DEF Silent
<1>9. ASSUME NEW t, Closes(q, e, t)
      PROVE  Closes(r, e, t) \/ (Says(m, e, t) /\ Quiet(r, e))
  <2>1. PICK i \in 1..n :
          Says(q[i], e, t) /\ \A j \in (i + 1)..n : ~IsFinal(q[j], e)
    BY <1>9 DEF Closes
  <2>2. CASE i = 1
    <3>1. \A j \in 1..Len(r) : j + 1 \in (i + 1)..n
      BY <1>1, <2>2
    <3> QED
      BY <1>1, <2>1, <2>2, <3>1 DEF Quiet
  <2>3. CASE i # 1
    <3>1. i - 1 \in 1..Len(r) /\ r[i - 1] = q[i]
      BY <1>1, <2>3
    <3>2. ASSUME NEW j \in ((i - 1) + 1)..Len(r)
          PROVE  ~IsFinal(r[j], e)
      <4>1. j \in 1..Len(r) /\ j + 1 \in (i + 1)..n
        BY <1>1, <3>2
      <4> QED
        BY <1>1, <2>1, <4>1
    <3> QED
      BY <2>1, <3>1, <3>2 DEF Closes
  <2> QED
    BY <2>2, <2>3
<1> QED
  BY <1>4, <1>5, <1>6, <1>7, <1>8, <1>9 DEF r, m

(* Two sequences, one after the other.                                     *)
LEMMA ConcatSays ==
  ASSUME NEW S, NEW p \in Seq(S), NEW q \in Seq(S), NEW e
  PROVE  LET r == p \o q IN
         /\ Silent(p, e) /\ Silent(q, e) => Silent(r, e)
         /\ Quiet(p, e) /\ Quiet(q, e) => Quiet(r, e)
         /\ Silent(p, e) /\ Completes(r, e) => Completes(q, e)
         /\ Silent(p, e) /\ Ends(q, e) => Ends(r, e)
         /\ \A t : /\ Closes(q, e, t) => Closes(r, e, t)
                   /\ Closes(p, e, t) /\ Quiet(q, e) => Closes(r, e, t)
<1> DEFINE r == p \o q
           k == Len(p)
           n == Len(q)
<1>1. /\ k \in Nat /\ n \in Nat /\ Len(r) = k + n
      /\ \A i \in 1..(k + n) : r[i] = IF i <= k THEN p[i] ELSE q[i - k]
  BY ConcatProperties, LenProperties
<1> HIDE DEF r
<1>2. /\ \A i \in 1..k : i \in 1..Len(r) /\ r[i] = p[i]
      /\ \A i \in (k + 1)..Len(r) : i - k \in 1..n /\ r[i] = q[i - k]
      /\ \A i \in 1..n : k + i \in (k + 1)..Len(r) /\ r[k + i] = q[i]
  BY <1>1
<1>3. \A i \in 1..Len(r) : i \in 1..k \/ i \in (k + 1)..Len(r)
  BY <1>1
<1>4. Silent(p, e) /\ Silent(q, e) => Silent(r, e)
  BY <1>2, <1>3 DEF Silent
<1>5. Quiet(p, e) /\ Quiet(q, e) => Quiet(r, e)
  BY <1>2, <1>3 DEF Quiet
<1>6. ASSUME Silent(p, e), Completes(r, e)
      PROVE  Completes(q, e)
  <2>1. PICK i \in 1..Len(r) : Says(r[i], e, "completed")
    BY <1>6 DEF Completes
  <2>2. i \in (k + 1)..Len(r)
    BY <1>2, <1>3, <1>6, <2>1 DEF Silent, Says
  <2>3. i - k \in 1..n /\ Says(q[i - k], e, "completed")
    BY <1>2, <2>1, <2>2
  <2> QED
    BY <2>3 DEF Completes
<1>7. ASSUME Silent(p, e), Ends(q, e)
      PROVE  Ends(r, e)
  <2> SUFFICES ASSUME NEW i \in 1..Len(r), Says(r[i], e, "completed"),
                      NEW j \in (i + 1)..Len(r)
               PROVE  r[j].exec # e
    BY DEF Ends
  <2>1. i \in (k + 1)..Len(r)
    BY <1>2, <1>3, <1>7 DEF Silent, Says
  <2>2. i - k \in 1..n /\ Says(q[i - k], e, "completed")
    BY <1>2, <2>1
  <2>3. j \in (k + 1)..Len(r) /\ j - k \in ((i - k) + 1)..n
    BY <1>1, <2>1
  <2> QED
    BY <1>2, <1>7, <2>2, <2>3 DEF Ends
<1>8. ASSUME NEW t, Closes(q, e, t)
      PROVE  Closes(r, e, t)
  <2>1. PICK i \in 1..n :
          Says(q[i], e, t) /\ \A j \in (i + 1)..n : ~IsFinal(q[j], e)
    BY <1>8 DEF Closes
  <2>2. k + i \in 1..Len(r) /\ Says(r[k + i], e, t)
    BY <1>1, <1>2, <2>1
  <2>3. \A j \in ((k + i) + 1)..Len(r) : j \in (k + 1)..Len(r) /\ j - k \in (i + 1)..n
    BY <1>1
  <2> QED
    BY <1>2, <2>1, <2>2, <2>3 DEF Closes
<1>9. ASSUME NEW t, Closes(p, e, t), Quiet(q, e)
      PROVE  Closes(r, e, t)
  <2>1. PICK i \in 1..k :
          Says(p[i], e, t) /\ \A j \in (i + 1)..k : ~IsFinal(p[j], e)
    BY <1>9 DEF Closes
  <2>2. i \in 1..Len(r) /\ Says(r[i], e, t)
    BY <1>2, <2>1
  <2>3. ASSUME NEW j \in (i + 1)..Len(r)
        PROVE  ~IsFinal(r[j], e)
    <3>1. j \in (i + 1)..k \/ j \in (k + 1)..Len(r)
      BY <1>1
    <3>2. j \in (i + 1)..k => j \in 1..k
      BY <1>1
    <3> QED
      BY <1>2, <1>9, <2>1, <3>1, <3>2 DEF Quiet
  <2> QED
    BY <2>2, <2>3 DEF Closes
<1> QED
  BY <1>4, <1>5, <1>6, <1>7, <1>8, <1>9 DEF r

(* What is left of a sequence from some place on.                          *)
LEMMA SuffixSays ==
  ASSUME NEW S, NEW q \in Seq(S), NEW k \in 1..Len(q), NEW e
  PROVE  LET r == SubSeq(q, k, Len(q)) IN
         /\ r \in Seq(S)
         /\ Silent(q, e) => Silent(r, e)
         /\ (\A j \in k..Len(q) : q[j].exec # e) => Silent(r, e)
         /\ Quiet(q, e) => Quiet(r, e)
         /\ \A t : Closes(q, e, t) => Closes(r, e, t) \/ Quiet(r, e)
<1> DEFINE r == SubSeq(q, k, Len(q))
           n == Len(q)
<1>1. n \in Nat /\ k \in 1..n /\ \A i \in k..n : q[i] \in S
  BY LenProperties
<1>2. /\ r \in Seq(S) /\ Len(r) = (n - k) + 1
      /\ \A i \in 1..Len(r) : r[i] = q[(k + i) - 1]
  <2>1. k \in Int /\ n \in Int /\ k <= n
    BY <1>1
  <2>2. /\ r \in Seq(S) /\ Len(r) = IF k <= n THEN n - k + 1 ELSE 0
        /\ \A i \in 1..(n - k + 1) : r[i] = q[k + i - 1]
    BY <1>1, <2>1, SubSeqProperties
  <2> QED
    BY <2>1, <2>2
<1> HIDE DEF r
<1>3. /\ \A i \in 1..Len(r) : (k + i) - 1 \in k..n /\ (k + i) - 1 \in 1..n
      /\ \A i \in k..n : (i - k) + 1 \in 1..Len(r) /\ r[(i - k) + 1] = q[i]
  BY <1>1, <1>2
<1>4. /\ Silent(q, e) => Silent(r, e)
      /\ (\A j \in k..n : q[j].exec # e) => Silent(r, e)
      /\ Quiet(q, e) => Quiet(r, e)
  BY <1>2, <1>3 DEF Silent, Quiet
<1>5. ASSUME NEW t, Closes(q, e, t)
      PROVE  Closes(r, e, t) \/ Quiet(r, e)
  <2>1. PICK i \in 1..n :
          Says(q[i], e, t) /\ \A j \in (i + 1)..n : ~IsFinal(q[j], e)
    BY <1>5 DEF Closes
  <2>2. CASE i < k
    <3>1. \A j \in k..n : j \in (i + 1)..n
      BY <1>1, <2>2
    <3> QED
      BY <1>2, <1>3, <2>1, <3>1 DEF Quiet
  <2>3. CASE ~(i < k)
    <3>1. i \in k..n /\ (i - k) + 1 \in 1..Len(r) /\ r[(i - k) + 1] = q[i]
      BY <1>1, <1>3, <2>3
    <3>2. \A j \in (((i - k) + 1) + 1)..Len(r) :
            j \in 1..Len(r) /\ (k + j) - 1 \in (i + 1)..n
      BY <1>1, <1>2, <3>1
    <3> QED
      BY <1>2, <2>1, <3>1, <3>2 DEF Closes
  <2> QED
    BY <2>2, <2>3
<1> QED
  BY <1>2, <1>4, <1>5 DEF r


-----------------------------------------------------------------------------
(* The pipeline underneath.                                                *)

(* The publishers and the gateway only listen: every step is one of the    *)
(* pipeline or leaves the pipeline as it is.                               *)
LEMMA StreamStepIsStep == [StreamNext]_streamVars => [Next]_vars
<1> SUFFICES ASSUME [StreamNext]_streamVars
             PROVE  [Next]_vars
  OBVIOUS
<1>1. CASE UNCHANGED streamVars
  BY <1>1 DEF streamVars
<1>2. ASSUME NEW s \in Slots, PublishStep(s)
      PROVE  Next
  BY <1>2 DEF PublishStep, Next
<1>3. CASE QuietStep
  BY <1>3 DEF QuietStep, Next
<1>4. ASSUME NEW w \in Workers, WorkerStep(w)
      PROVE  Next
  BY <1>4 DEF WorkerStep, Next
<1>5. ASSUME NEW w \in Workers, Transmit(w) \/ Swallow(w) \/ Resend(w)
      PROVE  UNCHANGED vars
  BY <1>5 DEF Transmit, Swallow, Resend
<1>6. ASSUME NEW c \in Clients, Read(c) \/ SubscribeStep(c) \/ UnsubscribeStep(c)
      PROVE  UNCHANGED vars
  BY <1>6 DEF Read, SubscribeStep, UnsubscribeStep
<1>7. CASE ForwardStep \/ LinkDownStep \/ LinkUpStep \/ RestartStep
  BY <1>7 DEF ForwardStep, LinkDownStep, LinkUpStep, RestartStep
<1> QED
  BY <1>1, <1>2, <1>3, <1>4, <1>5, <1>6, <1>7 DEF StreamNext

(* Streaming implements the pipeline: everything proved of it holds here.  *)
THEOREM StreamingUsesPipeline == StreamSpec => Spec
<1>1. StreamInit => Init
  BY DEF StreamInit
<1> QED
  BY <1>1, StreamStepIsStep, PTL DEF StreamSpec, Spec

-----------------------------------------------------------------------------
(* Types.                                                                  *)

Types == {"log", "completed", "failed"}

Messages == [exec : Executions, type : Types]

(* The same with the sets of messages named.                               *)
LEMMA GatewayTypes ==
  GatewayTypeOK <=>
    /\ wire \in Seq(Messages) /\ link \in BOOLEAN
    /\ joined \in [Clients -> SUBSET Rooms] /\ heard \in [Clients -> Seq(Types)]
    /\ drops \in 0..MaxDrops
  BY DEF GatewayTypeOK, Messages, Types

LEMMA MessageType ==
  /\ \A m \in Messages : m.exec \in Executions /\ m.type \in Types
  /\ \A e \in Executions, t \in Types : [exec |-> e, type |-> t] \in Messages
  BY DEF Messages

Queued(w) == redisPub[w].queued
Unanswered(w) == redisPub[w].unanswered

PubTypeOK ==
  /\ redisPub \in [Workers -> Commands]
  /\ voice \in [Executions -> SUBSET Workers]
  /\ resent \subseteq Executions

LEMMA PubTypes ==
  ASSUME PubTypeOK, NEW w \in Workers
  PROVE  /\ Queued(w) \in Seq(Message) /\ Unanswered(w) \in Seq(Message)
         /\ redisPub[w] = [queued |-> Queued(w), unanswered |-> Unanswered(w)]
  BY DEF PubTypeOK, Commands, Queued, Unanswered

LEMMA CommandsType ==
  ASSUME NEW q \in Seq(Message), NEW u \in Seq(Message)
  PROVE  [queued |-> q, unanswered |-> u] \in Commands
  BY DEF Commands

LEMMA NoCommandsType == NoCommands \in Commands
<1>1. <<>> \in Seq(Message)
  BY EmptySeq
<1> QED
  BY <1>1 DEF NoCommands, Commands

LEMMA InitStreamTypes == StreamInit => StreamTypeOK
<1> SUFFICES ASSUME StreamInit PROVE StreamTypeOK
  OBVIOUS
<1>1. TypeOK
  BY InitTypeOK DEF StreamInit
<1>2. GatewayTypeOK
  BY GatewayAssumption DEF StreamInit, GatewayInit, GatewayTypeOK
<1>3. PubTypeOK
  BY NoCommandsType DEF StreamInit, PubTypeOK
<1> QED
  BY <1>1, <1>2, <1>3 DEF StreamInit, StreamTypeOK, PubTypeOK

(* What a run hands over.                                                  *)
Word(s) == [exec |-> Exec(s), type |-> EventOf(s)]

LEMMA WordType ==
  ASSUME PInv, NEW s \in Slots, Publishing(s)
  PROVE  /\ Exec(s) \in Executions /\ EventOf(s) \in EventTypes
         /\ Word(s) \in Message /\ Word(s).exec = Exec(s) /\ Word(s).type = EventOf(s)
         /\ Runs(s, Exec(s)) /\ run[s].pc # "resolved"
<1>1. Exec(s) \in Executions
  BY DEF Publishing, PInv, RunInv, Exec
<1>2. EventOf(s) \in EventTypes
  BY DEF EventOf, EventTypes
<1> QED
  BY <1>1, <1>2 DEF Word, Message, Publishing, Runs, Exec

(* What a step of the publishers does to one client.                       *)
LEMMA PublishEffect ==
  ASSUME PubTypeOK, PInv, NEW s \in Slots, PublishStep(s), NEW v \in Workers
  PROVE  /\ Queued(v)' = IF v = Host[s] THEN Append(Queued(v), Word(s)) ELSE Queued(v)
         /\ Unanswered(v)' = Unanswered(v)
         /\ voice' = [voice EXCEPT ![Exec(s)] = @ \cup {Host[s]}]
  BY PubTypes, ExecutorAssumption
  DEF PublishStep, PubTypeOK, Commands, Queued, Unanswered, Word

LEMMA TransmitEffect ==
  ASSUME PubTypeOK, NEW w \in Workers, Transmit(w), NEW v \in Workers
  PROVE  /\ Queued(w) # <<>> /\ Head(Queued(w)) \in Message
         /\ Queued(v)' = IF v = w THEN Tail(Queued(v)) ELSE Queued(v)
         /\ Unanswered(v)' = IF v = w THEN Append(Unanswered(v), Head(Queued(v)))
                                      ELSE Unanswered(v)
         /\ Deliver(Head(Queued(w)).exec, Head(Queued(w)).type)
<1>1. /\ Queued(w) # <<>> /\ Deliver(Head(Queued(w)).exec, Head(Queued(w)).type)
      /\ redisPub' = [redisPub EXCEPT ![w] =
           [queued |-> Tail(Queued(w)),
            unanswered |-> Append(Unanswered(w), Head(Queued(w)))]]
  BY DEF Transmit, Queued, Unanswered, PubTypeOK
<1>2. Head(Queued(w)) \in Message
  BY <1>1, PubTypes, HeadTailProperties
<1>3. /\ redisPub'[v] = IF v = w THEN [queued |-> Tail(Queued(w)),
                            unanswered |-> Append(Unanswered(w), Head(Queued(w)))]
                                 ELSE redisPub[v]
  BY <1>1 DEF PubTypeOK
<1> QED
  BY <1>1, <1>2, <1>3 DEF Queued, Unanswered

LEMMA SwallowEffect ==
  ASSUME PubTypeOK, NEW w \in Workers, Swallow(w), NEW v \in Workers
  PROVE  /\ Queued(w) # <<>>
         /\ Queued(v)' = IF v = w THEN Tail(Queued(v)) ELSE Queued(v)
         /\ Unanswered(v)' = Unanswered(v)
  BY PubTypes DEF Swallow, PubTypeOK, Commands, Queued, Unanswered

(* The commands that go out again, and those that wait behind them.        *)
Again(w, i) == SubSeq(Unanswered(w), i, Len(Unanswered(w)))

LEMMA ResendEffect ==
  ASSUME PubTypeOK, NEW w \in Workers, Resend(w)
  PROVE  \E i \in 1..Len(Unanswered(w)) :
           /\ Again(w, i) \in Seq(Message)
           /\ \A v \in Workers :
                /\ Queued(v)' = IF v = w THEN Again(v, i) \o Queued(v) ELSE Queued(v)
                /\ Unanswered(v)' = IF v = w THEN <<>> ELSE Unanswered(v)
           /\ resent' = resent \cup
                {Unanswered(w)[j].exec : j \in i..Len(Unanswered(w))}
<1>1. PICK i \in 1..Len(Unanswered(w)) :
        /\ redisPub' = [redisPub EXCEPT ![w] =
             [queued |-> Again(w, i) \o Queued(w), unanswered |-> <<>>]]
        /\ resent' = resent \cup
             {Unanswered(w)[j].exec : j \in i..Len(Unanswered(w))}
  BY DEF Resend, Queued, Unanswered, Again, PubTypeOK
<1>2. Again(w, i) \in Seq(Message)
  BY PubTypes, SuffixSays DEF Again
<1>3. ASSUME NEW v \in Workers
      PROVE  /\ Queued(v)' = IF v = w THEN Again(v, i) \o Queued(v) ELSE Queued(v)
             /\ Unanswered(v)' = IF v = w THEN <<>> ELSE Unanswered(v)
  <2>1. redisPub'[v] = IF v = w THEN [queued |-> Again(w, i) \o Queued(w),
                                      unanswered |-> <<>>]
                                ELSE redisPub[v]
    BY <1>1 DEF PubTypeOK
  <2> QED
    BY <2>1 DEF Queued, Unanswered
<1> QED
  BY <1>1, <1>2, <1>3

LEMMA WorkerEffect ==
  ASSUME PubTypeOK, NEW w \in Workers, WorkerStep(w), NEW v \in Workers
  PROVE  /\ Queued(v)' = Queued(v) \/ Queued(v)' = <<>>
         /\ Unanswered(v)' = Unanswered(v) \/ Unanswered(v)' = <<>>
         /\ redisPub' \in [Workers -> Commands]
         /\ OtherStep /\ UNCHANGED events
<1>1. /\ OtherStep /\ UNCHANGED events
      /\ redisPub' = [redisPub EXCEPT ![w] = NoCommands] \/ redisPub' = redisPub
  BY DEF WorkerStep, OtherStep, ExitStep, BootStep, WorkerOutage
<1>2. redisPub'[v] = redisPub[v] \/ redisPub'[v] = NoCommands
  BY <1>1 DEF PubTypeOK
<1>3. redisPub' \in [Workers -> Commands]
  BY <1>1, NoCommandsType DEF PubTypeOK
<1> QED
  BY <1>1, <1>2, <1>3 DEF Queued, Unanswered, NoCommands

(* Every other step leaves the publishers alone.                           *)
LEMMA PubSteps ==
  ASSUME [StreamNext]_streamVars
  PROVE  \/ \E s \in Slots : PublishStep(s)
         \/ \E w \in Workers : WorkerStep(w) \/ Transmit(w) \/ Swallow(w) \/ Resend(w)
         \/ UNCHANGED pubVars
  BY DEF StreamNext, streamVars, QuietStep, Read, SubscribeStep, UnsubscribeStep,
     ForwardStep, LinkDownStep, LinkUpStep, RestartStep

LEMMA StepPubTypes ==
  ASSUME PInv, PubTypeOK, [StreamNext]_streamVars
  PROVE  PubTypeOK'
<1>1. ASSUME NEW s \in Slots, PublishStep(s)
      PROVE  PubTypeOK'
  <2>1. Word(s) \in Message /\ Host[s] \in Workers /\ Publishing(s)
    BY <1>1, WordType, ExecutorAssumption DEF PublishStep
  <2>2. Append(Queued(Host[s]), Word(s)) \in Seq(Message)
    BY <2>1, PubTypes, AppendProperties
  <2>3. redisPub' = [redisPub EXCEPT ![Host[s]].queued = Append(Queued(Host[s]), Word(s))]
    BY <1>1, <2>1 DEF PublishStep, Word, Queued, PubTypeOK
  <2>4. redisPub' \in [Workers -> Commands]
    BY <2>1, <2>2, <2>3 DEF PubTypeOK, Commands
  <2> QED
    BY <1>1, <2>1, <2>4 DEF PublishStep, PubTypeOK
<1>2. ASSUME NEW w \in Workers, WorkerStep(w)
      PROVE  PubTypeOK'
  BY <1>2, WorkerEffect DEF WorkerStep, PubTypeOK
<1>3. ASSUME NEW w \in Workers, Transmit(w)
      PROVE  PubTypeOK'
  <2>1. Queued(w) # <<>> /\ Queued(w) \in Seq(Message) /\ Unanswered(w) \in Seq(Message)
    BY <1>3, PubTypes, TransmitEffect
  <2>2. /\ Tail(Queued(w)) \in Seq(Message)
        /\ Append(Unanswered(w), Head(Queued(w))) \in Seq(Message)
    BY <2>1, HeadTailProperties, AppendProperties
  <2>3. redisPub' = [redisPub EXCEPT ![w] =
          [queued |-> Tail(Queued(w)),
           unanswered |-> Append(Unanswered(w), Head(Queued(w)))]]
    BY <1>3 DEF Transmit, Queued, Unanswered, PubTypeOK
  <2> QED
    BY <1>3, <2>2, <2>3, CommandsType DEF Transmit, PubTypeOK
<1>4. ASSUME NEW w \in Workers, Swallow(w)
      PROVE  PubTypeOK'
  <2>1. Queued(w) # <<>> /\ Queued(w) \in Seq(Message) /\ Unanswered(w) \in Seq(Message)
    BY <1>4, PubTypes, SwallowEffect
  <2>2. Tail(Queued(w)) \in Seq(Message)
    BY <2>1, HeadTailProperties
  <2>3. redisPub' = [redisPub EXCEPT ![w].queued = Tail(Queued(w))]
    BY <1>4 DEF Swallow, Queued, PubTypeOK
  <2>4. redisPub' \in [Workers -> Commands]
    BY <2>2, <2>3 DEF PubTypeOK, Commands
  <2> QED
    BY <1>4, <2>4 DEF Swallow, PubTypeOK
<1>5. ASSUME NEW w \in Workers, Resend(w)
      PROVE  PubTypeOK'
  <2>1. PICK i \in 1..Len(Unanswered(w)) :
          /\ redisPub' = [redisPub EXCEPT ![w] =
               [queued |-> Again(w, i) \o Queued(w), unanswered |-> <<>>]]
          /\ resent' = resent \cup
               {Unanswered(w)[j].exec : j \in i..Len(Unanswered(w))}
    BY <1>5 DEF Resend, Queued, Unanswered, Again, PubTypeOK
  <2>2. Queued(w) \in Seq(Message) /\ Unanswered(w) \in Seq(Message)
        /\ Again(w, i) \in Seq(Message)
    BY PubTypes, SuffixSays DEF Again
  <2>3. Again(w, i) \o Queued(w) \in Seq(Message) /\ <<>> \in Seq(Message)
    BY <2>2, ConcatProperties, EmptySeq
  <2>4. \A j \in i..Len(Unanswered(w)) : Unanswered(w)[j].exec \in Executions
    <3> SUFFICES ASSUME NEW j \in i..Len(Unanswered(w))
                 PROVE  Unanswered(w)[j].exec \in Executions
      OBVIOUS
    <3>1. j \in 1..Len(Unanswered(w))
      BY <2>2, LenProperties
    <3>2. Unanswered(w)[j] \in Message
      BY <2>2, <3>1, ElementOfSeq
    <3> QED
      BY <3>2 DEF Message
  <2>5. redisPub' \in [Workers -> Commands]
    BY <2>1, <2>3, CommandsType DEF PubTypeOK
  <2>6. resent' \subseteq Executions
    BY <2>1, <2>4 DEF PubTypeOK
  <2> QED
    BY <1>5, <2>5, <2>6 DEF Resend, PubTypeOK
<1>6. CASE UNCHANGED pubVars
  BY <1>6 DEF pubVars, PubTypeOK
<1> QED
  BY <1>1, <1>2, <1>3, <1>4, <1>5, <1>6, PubSteps

(* A client sits in at most the rooms it asked for.                        *)
LEMMA TargetsFinite ==
  ASSUME GatewayTypeOK, NEW c \in Clients, NEW e
  PROVE  /\ IsFiniteSet(joined[c]) /\ IsFiniteSet(Targets(c, e))
         /\ Cardinality(Targets(c, e)) \in Nat /\ Cardinality(joined[c]) \in Nat
         /\ Cardinality(Targets(c, e)) <= Cardinality(joined[c])
<1>1. IsFiniteSet({"execution"} \cup {"session"})
  BY FS_Singleton, FS_AddElement
<1>2. Rooms = {"execution"} \cup {"session"}
  BY DEF Rooms
<1>3. joined[c] \subseteq Rooms /\ Targets(c, e) \subseteq joined[c]
  BY DEF GatewayTypeOK, Targets
<1>4. IsFiniteSet(joined[c])
  BY <1>1, <1>2, <1>3, FS_Subset
<1> QED
  BY <1>3, <1>4, FS_Subset, FS_CardinalityType

(* What a message adds to what a client heard: a copy for each room.       *)
Copies(c, m) == [i \in 1..Cardinality(Targets(c, m.exec)) |-> m.type]

LEMMA ReceivedType ==
  ASSUME GatewayTypeOK, NEW c \in Clients, NEW m \in Messages
  PROVE  /\ Received(c, m) = heard[c] \o Copies(c, m)
         /\ Copies(c, m) \in Seq(Types) /\ Received(c, m) \in Seq(Types)
         /\ Len(Copies(c, m)) = Cardinality(Targets(c, m.exec))
<1> DEFINE n == Cardinality(Targets(c, m.exec))
<1>1. heard[c] \in Seq(Types) /\ m.type \in Types /\ n \in Nat
  BY TargetsFinite, GatewayTypes, MessageType
<1>2. Received(c, m) = heard[c] \o Copies(c, m)
  BY DEF Received, Copies
<1> DEFINE t == m.type
<1>3. Copies(c, m) = [i \in 1..n |-> t]
  BY DEF Copies
<1> HIDE DEF n, t
<1>4. [i \in 1..n |-> t] \in Seq(Types) /\ Len([i \in 1..n |-> t]) = n
  BY <1>1 DEF t
<1>5. Copies(c, m) \in Seq(Types) /\ Len(Copies(c, m)) = n
  BY <1>3, <1>4
<1> QED
  BY <1>1, <1>2, <1>5, ConcatProperties DEF n

LEMMA DeliverType ==
  ASSUME GatewayTypeOK, NEW e \in Executions, NEW t, Deliver(e, t)
  PROVE  GatewayTypeOK'
<1>1. wire \in Seq(Messages)
  BY GatewayTypes
<1>2. wire' \in Seq(Messages)
  <2>1. CASE link /\ t \in Channels
    <3>1. [exec |-> e, type |-> t] \in Messages
      BY <2>1, MessageType DEF Channels, Types
    <3>2. wire' = Append(wire, [exec |-> e, type |-> t])
      BY <2>1 DEF Deliver
    <3> QED
      BY <1>1, <3>1, <3>2, AppendProperties
  <2>2. CASE ~(link /\ t \in Channels)
    BY <1>1, <2>2 DEF Deliver
  <2> QED
    BY <2>1, <2>2
<1> QED
  BY <1>2 DEF Deliver, GatewayTypeOK, Types, Messages

LEMMA ForwardType ==
  ASSUME GatewayTypeOK, Forward
  PROVE  GatewayTypeOK'
<1>1. wire \in Seq(Messages) /\ wire # <<>>
  BY GatewayTypes DEF Forward
<1>2. Head(wire) \in Messages /\ Tail(wire) \in Seq(Messages)
  BY <1>1, HeadTailProperties
<1>3. heard' \in [Clients -> Seq(Types)]
  BY <1>2, ReceivedType DEF Forward
<1>4. wire' \in Seq(Messages)
  BY <1>2 DEF Forward
<1> QED
  BY <1>3, <1>4 DEF Forward, GatewayTypeOK, Types, Messages

(* Transmit is the only step that puts a message on the wire.              *)
LEMMA DeliveryType ==
  ASSUME GatewayTypeOK, PubTypeOK, NEW w \in Workers, Transmit(w)
  PROVE  GatewayTypeOK'
<1>1. Head(Queued(w)) \in Message
  BY TransmitEffect
<1>2. Head(Queued(w)).exec \in Executions
  BY <1>1 DEF Message
<1> QED
  BY <1>2, TransmitEffect, DeliverType

LEMMA StreamStepTypes ==
  ASSUME PInv, StreamTypeOK, [StreamNext]_streamVars
  PROVE  StreamTypeOK'
<1>1. TypeOK'
  BY StreamStepIsStep, NextBasics
<1>2. /\ GatewayTypeOK /\ view \in [Clients -> Statuses \cup {None}] /\ lost \in BOOLEAN
      /\ row \in [Executions -> Row]
  BY DEF StreamTypeOK, PInv, TypeOK, StoreTypeOK
<1>3. drops \in 0..MaxDrops /\ (Drop => drops' \in 0..MaxDrops)
  BY <1>2, GatewayAssumption DEF GatewayTypeOK, Drop
<1>4. PubTypeOK /\ PubTypeOK'
  BY StepPubTypes DEF StreamTypeOK, PubTypeOK
<1>5. SUFFICES /\ GatewayTypeOK' /\ view' \in [Clients -> Statuses \cup {None}]
               /\ lost' \in BOOLEAN
  BY <1>4, <1>1 DEF StreamTypeOK, PubTypeOK
<1>6. CASE UNCHANGED streamVars \/ QuietStep
  BY <1>2, <1>6 DEF streamVars, QuietStep, gatewayVars, GatewayTypeOK
<1>7. ASSUME NEW s \in Slots, PublishStep(s)
      PROVE  /\ GatewayTypeOK' /\ view' \in [Clients -> Statuses \cup {None}]
             /\ lost' \in BOOLEAN
  BY <1>2, <1>7 DEF PublishStep, gatewayVars, GatewayTypeOK
<1>8. ASSUME NEW w \in Workers, WorkerStep(w) \/ Swallow(w)
       PROVE  /\ GatewayTypeOK' /\ view' \in [Clients -> Statuses \cup {None}]
              /\ lost' \in BOOLEAN
  BY <1>2, <1>8 DEF WorkerStep, Swallow, LostIf, gatewayVars, GatewayTypeOK
<1>9. ASSUME NEW w \in Workers, Transmit(w)
       PROVE  /\ GatewayTypeOK' /\ view' \in [Clients -> Statuses \cup {None}]
              /\ lost' \in BOOLEAN
  <2>1. GatewayTypeOK'
    BY <1>4, <1>2, <1>9, DeliveryType
  <2> QED
    BY <1>2, <1>9, <2>1 DEF Transmit, LostIf
<1>10. ASSUME NEW w \in Workers, Resend(w)
       PROVE  /\ GatewayTypeOK' /\ view' \in [Clients -> Statuses \cup {None}]
              /\ lost' \in BOOLEAN
  BY <1>2, <1>3, <1>10 DEF Resend, GatewayTypeOK
<1>11. ASSUME NEW c \in Clients, Read(c)
      PROVE  /\ GatewayTypeOK' /\ view' \in [Clients -> Statuses \cup {None}]
             /\ lost' \in BOOLEAN
  <2>1. row[Watched[c]].status \in Statuses
    BY <1>2, GatewayAssumption DEF Row
  <2> QED
    BY <1>2, <1>11, <2>1 DEF Read, gatewayVars, GatewayTypeOK
<1>12. ASSUME NEW c \in Clients, SubscribeStep(c)
      PROVE  /\ GatewayTypeOK' /\ view' \in [Clients -> Statuses \cup {None}]
             /\ lost' \in BOOLEAN
  <2>1. PICK r \in Wanted[c] \ joined[c] : joined' = [joined EXCEPT ![c] = @ \cup {r}]
    BY <1>12 DEF SubscribeStep, Subscribe
  <2>2. Wanted[c] \subseteq Rooms
    BY GatewayAssumption
  <2>3. joined' \in [Clients -> SUBSET Rooms]
    BY <1>2, <2>1, <2>2 DEF GatewayTypeOK
  <2> QED
    BY <1>2, <1>12, <2>3 DEF SubscribeStep, Subscribe, GatewayTypeOK
<1>13. ASSUME NEW c \in Clients, UnsubscribeStep(c)
      PROVE  /\ GatewayTypeOK' /\ view' \in [Clients -> Statuses \cup {None}]
             /\ lost' \in BOOLEAN
  <2>1. PICK rest \in SUBSET joined[c] : joined' = [joined EXCEPT ![c] = rest]
    BY <1>13 DEF UnsubscribeStep, Unsubscribe
  <2>2. joined' \in [Clients -> SUBSET Rooms]
    BY <1>2, <2>1 DEF GatewayTypeOK
  <2>3. <<>> \in Seq(Types) /\ heard \in [Clients -> Seq(Types)]
    BY <1>2, GatewayTypes, EmptySeq
  <2>4. heard' \in [Clients -> Seq(Types)]
    BY <1>13, <2>3 DEF UnsubscribeStep, Unsubscribe
  <2>5. view' \in [Clients -> Statuses \cup {None}]
    BY <1>2, <1>13 DEF UnsubscribeStep
  <2> QED
    BY <1>2, <1>3, <1>13, <2>2, <2>4, <2>5
    DEF UnsubscribeStep, Unsubscribe, GatewayTypeOK, Types
<1>14. CASE ForwardStep
  BY <1>2, <1>14, ForwardType DEF ForwardStep
<1>15. CASE LinkDownStep \/ RestartStep
  <2>1. /\ <<>> \in Seq(Types) /\ <<>> \in Seq(Messages)
        /\ wire \in Seq(Messages) /\ link \in BOOLEAN
        /\ joined \in [Clients -> SUBSET Rooms] /\ heard \in [Clients -> Seq(Types)]
    BY <1>2, GatewayTypes, EmptySeq
  <2>2. wire' = <<>> /\ link' \in BOOLEAN /\ drops' \in 0..MaxDrops /\ lost' \in BOOLEAN
    BY <1>3, <1>15, <2>1 DEF LinkDownStep, LinkDown, RestartStep, Restart, LostIf
  <2>3. /\ joined' \in [Clients -> SUBSET Rooms] /\ heard' \in [Clients -> Seq(Types)]
        /\ view' \in [Clients -> Statuses \cup {None}]
    BY <1>2, <1>15, <2>1 DEF LinkDownStep, LinkDown, RestartStep, Restart
  <2>4. GatewayTypeOK'
    BY <2>1, <2>2, <2>3 DEF GatewayTypeOK, Types, Messages
  <2> QED
    BY <2>2, <2>3, <2>4
<1>16. CASE LinkUpStep
  BY <1>2, <1>16 DEF LinkUpStep, LinkUp, GatewayTypeOK
<1> QED
  BY <1>6, <1>7, <1>11, <1>12, <1>13, <1>14, <1>15, <1>16,
     <1>8, <1>9, <1>10 DEF StreamNext

(* Every variable of the publishers, the gateway and the clients keeps its *)
(* type.                                                                   *)
THEOREM StreamTypeCorrect == StreamSpec => []StreamTypeOK
<1>1. StreamSpec => []PInv
  BY StreamingUsesPipeline, PipelineInvariant, PTL
<1>2. PInv /\ StreamTypeOK /\ [StreamNext]_streamVars => StreamTypeOK'
  BY StreamStepTypes
<1> QED
  BY <1>1, <1>2, InitStreamTypes, PTL DEF StreamSpec

-----------------------------------------------------------------------------
(* Events.                                                                 *)

(* A run publishes "completed" once it stored the outcome, and nothing     *)
(* after it.                                                               *)
LEMMA SlotStepEvents ==
  ASSUME PInv, NEW s \in Slots, SlotStep(s)
  PROVE  /\ \A e \in Executions : events[e] \subseteq events'[e]
         /\ \A e \in Executions :
              "completed" \in events'[e] /\ "completed" \notin events[e] =>
                e = Exec(s) /\ run[s].pc = "publish" /\ run'[s].pc = "resolved"
<1>1. /\ events \in [Executions -> SUBSET EventTypes] /\ run \in [Slots -> Run]
      /\ Exec(s) \in Executions
  BY SlotSteps DEF PInv, TypeOK, ExecutorTypeOK, Steps
<1>2. ASSUME NEW t, Publish(Exec(s), t)
      PROVE  /\ \A e \in Executions : events[e] \subseteq events'[e]
             /\ \A e \in Executions : e # Exec(s) => events'[e] = events[e]
             /\ events'[Exec(s)] \subseteq events[Exec(s)] \cup {t}
  BY <1>1, <1>2 DEF Publish
<1>3. CASE UNCHANGED events
  BY <1>3
<1>4. CASE Announce(s)
  BY <1>2, <1>4 DEF Announce
<1>5. CASE Log(s)
  BY <1>2, <1>5 DEF Log
<1>6. CASE PublishFailed(s)
  BY <1>2, <1>6 DEF PublishFailed
<1>7. CASE PublishOutcome(s)
  <2>1. run[s].pc = "publish" /\ run'[s].pc = "resolved"
    BY <1>1, <1>7 DEF PublishOutcome, Jump, Run
  <2>2. PICK t : Publish(Exec(s), t)
    BY <1>7 DEF PublishOutcome
  <2> QED
    BY <1>2, <2>1, <2>2
<1> QED
  BY <1>3, <1>4, <1>5, <1>6, <1>7
  DEF SlotStep, Process, Begin, RunSandbox, RecordTimeout, RecordCompleted,
      FinalProgress, Catch, Settle

(* A run publishes what EventOf says.                                      *)
LEMMA EventsTold ==
  ASSUME PInv, NEW s \in Slots, Publishing(s), SlotStep(s)
  PROVE  EventOf(s) \in events'[Exec(s)]
<1>1. events \in [Executions -> SUBSET EventTypes] /\ Exec(s) \in Executions
  BY WordType DEF PInv, TypeOK, ExecutorTypeOK
<1>2. \A t : Publish(Exec(s), t) => t \in events'[Exec(s)]
  BY <1>1 DEF Publish
<1>3. Announce(s) \/ Log(s) \/ PublishOutcome(s) \/ PublishFailed(s)
  BY DEF Publishing, SlotStep, Process, Begin, RunSandbox, RecordTimeout,
     RecordCompleted, FinalProgress, Catch, Settle
<1> QED
  BY <1>2, <1>3 DEF Announce, Log, PublishOutcome, PublishFailed, EventOf

LEMMA OtherStepEvents == OtherStep => UNCHANGED events
  BY DEF OtherStep, vars, workerVars, RouteStep, FetchStep, Fetch, QueueStep,
     LoseLockStep, ExitStep, BootStep, WorkerOutage, ApiCrashStep, ApiCrash

(* Besides its run, only a stalled check takes an active job further, and  *)
(* a completed one stays completed.                                        *)
LEMMA OtherStepStays ==
  ASSUME PInv, OtherStep, NEW e \in Executions,
         job[e].state \in {"active", "completed"}, job'[e].stalls = job[e].stalls
  PROVE  job'[e].state = job[e].state
<1>1. job \in [Executions -> Job] /\ job[e].stalls \in Nat
  BY DEF PInv, TypeOK, QueueTypeOK, Job
<1>2. ASSUME NEW x \in Executions,
             Add(x) \/ Promote(x) \/ ExpireLock(x) \/ MoveStalled(x)
      PROVE  job'[e].state = job[e].state
  BY <1>1, <1>2 DEF Add, Promote, ExpireLock, MoveStalled, Job
<1>3. ASSUME NEW x \in Executions, NEW s \in Slots, Take(x, s)
      PROVE  job'[e].state = job[e].state
  BY <1>1, <1>3 DEF Take, Job
<1>4. CASE UNCHANGED job
  BY <1>4
<1>5. ASSUME NEW x \in Executions, RouteStep(x)
      PROVE  UNCHANGED job \/ Add(x)
  BY <1>5 DEF RouteStep, Submit, CreateRow, Enqueue, MarkQueued
<1>6. ASSUME NEW x \in Executions, FetchStep(x)
      PROVE  \E s \in Slots : Take(x, s)
  BY <1>6 DEF FetchStep, Fetch
<1>7. ASSUME NEW x \in Executions, QueueStep(x) \/ LoseLockStep(x)
      PROVE  Promote(x) \/ ExpireLock(x) \/ MoveStalled(x)
  BY <1>7 DEF QueueStep, LoseLockStep, ExpireDeadLock, CheckStalled, LoseLock
<1>8. CASE UNCHANGED vars \/ ApiCrashStep
              \/ \E w \in Workers : ExitStep(w) \/ BootStep(w) \/ WorkerOutage(w)
  BY <1>4, <1>8 DEF vars, ApiCrashStep, ApiCrash, ExitStep, BootStep, WorkerOutage
<1> QED
  BY <1>2, <1>3, <1>4, <1>5, <1>6, <1>7, <1>8 DEF OtherStep

(* Once execution:completed of a job that never stalled is out, its run    *)
(* has nothing left to publish and no other run can start.                 *)
SentInv ==
  \A e \in Executions :
    job[e].stalls = 0 /\ "completed" \in events[e] =>
      /\ job[e].state \in {"active", "completed"}
      /\ \A s \in Slots : Runs(s, e) => run[s].pc = "resolved"

LEMMA SlotStepSent ==
  ASSUME PInv, ZombieInv, SentInv, NEW s \in Slots, SlotStep(s),
         NEW e \in Executions, job[e].stalls = 0, "completed" \in events'[e]
  PROVE  /\ job'[e].state \in {"active", "completed"}
         /\ \A t \in Slots :
              run'[t].pc # "idle" /\ run'[t].exec = e => run'[t].pc = "resolved"
<1>1. /\ Steps(s) /\ SlotFrame(s) /\ SlotFlow(s) /\ JobFlow(s)
      /\ job \in [Executions -> Job] /\ run \in [Slots -> Run]
  BY SlotSteps DEF Steps, PInv, TypeOK, QueueTypeOK, ExecutorTypeOK
<1>2. CASE e # Exec(s)
  <2>1. /\ job'[e] = job[e] /\ events'[e] = events[e]
        /\ \A t \in Slots : run'[t] = run[t] \/ run'[t].exec # e \/ run'[t].pc = "idle"
    BY <1>1, <1>2 DEF SlotFrame, Exec
  <2> QED
    BY <2>1 DEF SentInv, Runs
<1>3. CASE e = Exec(s)
  <2>1. Runs(s, e)
    BY <1>1, <1>3 DEF SlotFrame, Runs, Exec
  <2>2. job[e].state = "active" /\ \A t \in Slots : Runs(t, e) => t = s
    BY <2>1, SoloRun
  <2>3. \A t \in Slots : t # s => ~(run'[t].pc # "idle" /\ run'[t].exec = e)
    BY <1>1, <2>2 DEF SlotFrame, Runs
  <2>4. CASE "completed" \in events[e]
    <3>1. run[s].pc = "resolved"
      BY <2>1, <2>4 DEF SentInv
    <3>2. run'[s].pc = "idle"
      BY <1>1, <3>1 DEF SlotFlow, Idle
    <3>3. UNCHANGED job \/ MoveToCompleted(e, s)
      BY <1>1, <1>3, <3>1 DEF JobFlow
    <3>4. job'[e].state \in {"active", "completed"}
      BY <1>1, <2>2, <3>3 DEF MoveToCompleted, Job
    <3> QED
      BY <2>3, <3>2, <3>4
  <2>5. CASE "completed" \notin events[e]
    <3>1. run'[s].pc = "resolved"
      BY <2>5, SlotStepEvents
    <3>2. UNCHANGED job
      BY <1>1, <3>1 DEF JobFlow
    <3> QED
      BY <2>2, <2>3, <3>1, <3>2
  <2> QED
    BY <2>4, <2>5
<1> QED
  BY <1>2, <1>3

LEMMA OtherStepSent ==
  ASSUME PInv, SentInv, OtherStep, NEW e \in Executions,
         job[e].stalls = 0, job'[e].stalls = 0, "completed" \in events'[e]
  PROVE  /\ job'[e].state \in {"active", "completed"}
         /\ \A t \in Slots :
              run'[t].pc # "idle" /\ run'[t].exec = e => run'[t].pc = "resolved"
<1>1. RunsBesides /\ UNCHANGED events
  BY OtherSteps, OtherStepEvents
<1>2. /\ job[e].state \in {"active", "completed"}
      /\ \A t \in Slots : Runs(t, e) => run[t].pc = "resolved"
  BY <1>1 DEF SentInv
<1>3. job'[e].state = job[e].state
  BY <1>2, OtherStepStays
<1>4. ASSUME NEW t \in Slots, run'[t].pc # "idle", run'[t].exec = e
      PROVE  run'[t].pc = "resolved"
  <2>1. CASE run'[t] = run[t]
    BY <1>2, <1>4, <2>1 DEF Runs
  <2>2. CASE run'[t] = Idle
    BY <1>4, <2>2, StartedRun
  <2>3. ASSUME NEW x \in Executions, Take(x, t), run'[t] = Started(x)
        PROVE  FALSE
    <3>1. x = e
      BY <1>4, <2>3, StartedRun
    <3> QED
      BY <1>2, <2>3, <3>1 DEF Take
  <2> QED
    BY <1>1, <2>1, <2>2, <2>3 DEF RunsBesides
<1> QED
  BY <1>2, <1>3, <1>4

(* What every step does to the events and the stalls.                      *)
LEMMA StepGrows ==
  ASSUME PInv, [Next]_vars, NEW e \in Executions
  PROVE  /\ events[e] \subseteq events'[e]
         /\ job'[e].stalls = 0 => job[e].stalls = 0
<1>1. events[e] \subseteq events'[e]
  BY StepIsSlotOrOther, SlotStepEvents, OtherStepEvents
<1>2. job'[e].stalls = 0 => job[e].stalls = 0
  BY NextIsQueueStep, NextBasics, StallsGrow DEF PInv, TypeOK
<1> QED
  BY <1>1, <1>2

LEMMA StepSent == PInv /\ ZombieInv /\ SentInv /\ [Next]_vars => SentInv'
<1> SUFFICES ASSUME PInv, ZombieInv, SentInv, [Next]_vars,
                    NEW e \in Executions, job'[e].stalls = 0, "completed" \in events'[e]
             PROVE  /\ job'[e].state \in {"active", "completed"}
                    /\ \A t \in Slots :
                         run'[t].pc # "idle" /\ run'[t].exec = e =>
                           run'[t].pc = "resolved"
  BY DEF SentInv, Runs
<1>1. job[e].stalls = 0
  BY StepGrows
<1> QED
  BY <1>1, StepIsSlotOrOther, SlotStepSent, OtherStepSent


-----------------------------------------------------------------------------
(* What reaches a client, and in which order.                              *)

(* Only a worker that published events of e has any in its client.         *)
VoiceInv ==
  \A e \in Executions, w \in Workers :
    w \notin voice[e] => Silent(Queued(w), e) /\ Silent(Unanswered(w), e)

(* One run after the other, on one connection that never went back.        *)
Single(e) == job[e].stalls = 0 /\ OneVoice(e) /\ e \notin resent

HeardDone(c) == \E k \in 1..Len(heard[c]) : heard[c][k] = "completed"

(* While it waits in the client, completed is the last about its           *)
(* execution; then on the wire; and then there is nothing more to hear.    *)
QueueOrder(e) ==
  \A w \in Workers :
    Ends(Queued(w), e) /\ (Completes(Queued(w), e) => "completed" \in events[e])

WireOrder(e) ==
  /\ Ends(wire, e)
  /\ Completes(wire, e) =>
       "completed" \in events[e] /\ \A w \in Workers : Silent(Queued(w), e)

HeardOrder(e) ==
  \A c \in Clients : Watched[c] = e /\ HeardDone(c) =>
    /\ "completed" \in events[e] /\ Silent(wire, e)
    /\ \A w \in Workers : Silent(Queued(w), e)

OrderInv ==
  \A e \in Executions : Single(e) => QueueOrder(e) /\ WireOrder(e) /\ HeardOrder(e)

LEMMA VoiceGrows ==
  ASSUME PInv, PubTypeOK, [StreamNext]_streamVars, NEW e \in Executions
  PROVE  voice[e] \subseteq voice'[e] /\ resent \subseteq resent'
<1>1. ASSUME NEW s \in Slots, PublishStep(s)
      PROVE  voice[e] \subseteq voice'[e] /\ UNCHANGED resent
  BY <1>1, WordType DEF PublishStep, PubTypeOK
<1>2. ASSUME NEW w \in Workers, WorkerStep(w) \/ Transmit(w) \/ Swallow(w) \/ Resend(w)
      PROVE  UNCHANGED voice /\ resent \subseteq resent'
  BY <1>2 DEF WorkerStep, Transmit, Swallow, Resend
<1> QED
  BY <1>1, <1>2, PubSteps DEF pubVars

LEMMA StepVoice ==
  ASSUME PInv, PubTypeOK, VoiceInv, [StreamNext]_streamVars
  PROVE  VoiceInv'
<1> SUFFICES ASSUME NEW e \in Executions, NEW v \in Workers
             PROVE  v \notin voice'[e] =>
                      Silent(Queued(v), e)' /\ Silent(Unanswered(v), e)'
  BY DEF VoiceInv
<1>1. v \notin voice[e] => Silent(Queued(v), e) /\ Silent(Unanswered(v), e)
  BY DEF VoiceInv
<1>2. Queued(v) \in Seq(Message) /\ Unanswered(v) \in Seq(Message)
  BY PubTypes
<1>3. Silent(<<>>, e)
  BY EmptySays
<1>4. ASSUME NEW s \in Slots, PublishStep(s)
      PROVE  v \notin voice'[e] => Silent(Queued(v), e)' /\ Silent(Unanswered(v), e)'
  <2>1. /\ Word(s) \in Message /\ Word(s).exec = Exec(s) /\ Exec(s) \in Executions
        /\ Host[s] \in Workers
    BY <1>4, WordType, ExecutorAssumption DEF PublishStep
  <2>2. /\ Queued(v)' = IF v = Host[s] THEN Append(Queued(v), Word(s)) ELSE Queued(v)
        /\ Unanswered(v)' = Unanswered(v)
        /\ voice' = [voice EXCEPT ![Exec(s)] = @ \cup {Host[s]}]
    BY <1>4, PublishEffect
  <2>3. voice[e] \subseteq voice'[e] /\ (v = Host[s] /\ e = Exec(s) => v \in voice'[e])
    BY <2>1, <2>2 DEF PubTypeOK
  <2>4. Silent(Queued(v), e) /\ Word(s).exec # e => Silent(Append(Queued(v), Word(s)), e)
    BY <1>2, <2>1, AppendSays
  <2>5. v \notin voice'[e] => Silent(Queued(v), e)'
    BY <1>1, <2>1, <2>2, <2>3, <2>4 DEF Silent
  <2>6. v \notin voice'[e] => Silent(Unanswered(v), e)'
    BY <1>1, <2>2, <2>3 DEF Silent
  <2> QED
    BY <2>5, <2>6
<1>5. ASSUME NEW w \in Workers, Transmit(w)
      PROVE  UNCHANGED voice /\ (v \notin voice'[e] =>
               Silent(Queued(v), e)' /\ Silent(Unanswered(v), e)')
  <2>1. /\ Queued(w) # <<>> /\ Head(Queued(w)) \in Message
        /\ Queued(v)' = IF v = w THEN Tail(Queued(v)) ELSE Queued(v)
        /\ Unanswered(v)' = IF v = w THEN Append(Unanswered(v), Head(Queued(v)))
                                     ELSE Unanswered(v)
    BY <1>5, TransmitEffect
  <2>2. UNCHANGED voice
    BY <1>5 DEF Transmit
  <2>3. CASE v = w
    <3>1. Silent(Queued(v), e) =>
            Silent(Tail(Queued(v)), e) /\ Head(Queued(v)).exec # e
      BY <1>2, <2>1, <2>3, TailSays
    <3>2. Silent(Unanswered(v), e) /\ Head(Queued(v)).exec # e =>
            Silent(Append(Unanswered(v), Head(Queued(v))), e)
      BY <1>2, <2>1, <2>3, AppendSays
    <3> QED
      BY <1>1, <2>1, <2>2, <2>3, <3>1, <3>2 DEF Silent
  <2>4. CASE v # w
    BY <1>1, <2>1, <2>2, <2>4 DEF Silent
  <2> QED
    BY <2>2, <2>3, <2>4
<1>6. ASSUME NEW w \in Workers, Swallow(w)
      PROVE  UNCHANGED voice /\ (v \notin voice'[e] =>
               Silent(Queued(v), e)' /\ Silent(Unanswered(v), e)')
  <2>1. /\ Queued(w) # <<>>
        /\ Queued(v)' = IF v = w THEN Tail(Queued(v)) ELSE Queued(v)
        /\ Unanswered(v)' = Unanswered(v)
    BY <1>6, SwallowEffect
  <2>2. UNCHANGED voice
    BY <1>6 DEF Swallow
  <2>3. v = w /\ Silent(Queued(v), e) => Silent(Tail(Queued(v)), e)
    BY <1>2, <2>1, TailSays
  <2> QED
    BY <1>1, <2>1, <2>2, <2>3 DEF Silent
<1>7. ASSUME NEW w \in Workers, Resend(w)
      PROVE  UNCHANGED voice /\ (v \notin voice'[e] =>
               Silent(Queued(v), e)' /\ Silent(Unanswered(v), e)')
  <2>1. PICK i \in 1..Len(Unanswered(w)) :
           \A x \in Workers :
             /\ Queued(x)' = IF x = w THEN Again(x, i) \o Queued(x) ELSE Queued(x)
             /\ Unanswered(x)' = IF x = w THEN <<>> ELSE Unanswered(x)
    BY <1>7, ResendEffect
  <2>2. UNCHANGED voice
    BY <1>7 DEF Resend
  <2>3. CASE v = w
    <3>1. /\ Again(v, i) \in Seq(Message)
          /\ Silent(Unanswered(v), e) => Silent(Again(v, i), e)
      BY <1>2, <2>3, SuffixSays DEF Again
    <3>2. Silent(Again(v, i), e) /\ Silent(Queued(v), e) =>
            Silent(Again(v, i) \o Queued(v), e)
      BY <1>2, <3>1, ConcatSays
    <3>3. Queued(v)' = Again(v, i) \o Queued(v) /\ Unanswered(v)' = <<>>
      BY <2>1, <2>3
    <3> QED
      BY <1>1, <1>3, <2>2, <3>1, <3>2, <3>3 DEF Silent
  <2>4. CASE v # w
    <3>1. Queued(v)' = Queued(v) /\ Unanswered(v)' = Unanswered(v)
      BY <2>1, <2>4
    <3> QED
      BY <1>1, <2>2, <3>1 DEF Silent
  <2> QED
    BY <2>2, <2>3, <2>4
<1>8. ASSUME NEW w \in Workers, WorkerStep(w)
      PROVE  UNCHANGED voice /\ (v \notin voice'[e] =>
               Silent(Queued(v), e)' /\ Silent(Unanswered(v), e)')
  <2>1. /\ Queued(v)' = Queued(v) \/ Queued(v)' = <<>>
        /\ Unanswered(v)' = Unanswered(v) \/ Unanswered(v)' = <<>>
    BY <1>8, WorkerEffect
  <2> QED
    BY <1>1, <1>3, <1>8, <2>1 DEF WorkerStep, Silent
<1>9. CASE UNCHANGED pubVars
  BY <1>1, <1>9 DEF pubVars, Queued, Unanswered, Silent
<1> QED
  BY <1>4, <1>5, <1>6, <1>7, <1>8, <1>9, PubSteps

(* What the conditions of an order say of the step before.                 *)
LEMMA SingleBefore ==
  ASSUME PInv, PubTypeOK, [StreamNext]_streamVars, NEW e \in Executions
  PROVE  /\ OneVoice(e)' => OneVoice(e)
         /\ Single(e)' => Single(e)
         /\ events[e] \subseteq events'[e]
<1>1. /\ events[e] \subseteq events'[e]
      /\ job'[e].stalls = 0 => job[e].stalls = 0
  BY StreamStepIsStep, StepGrows
<1>2. voice[e] \subseteq voice'[e] /\ resent \subseteq resent'
  BY VoiceGrows
<1>3. OneVoice(e)' => OneVoice(e)
  BY <1>2 DEF OneVoice
<1> QED
  BY <1>1, <1>2, <1>3 DEF Single

(* Then one client at most says anything of e.                             *)
LEMMA OthersSilent ==
  ASSUME VoiceInv, NEW e \in Executions, OneVoice(e),
         NEW w \in Workers, ~Silent(Queued(w), e), NEW v \in Workers, v # w
  PROVE  Silent(Queued(v), e) /\ Silent(Unanswered(v), e)
  BY DEF VoiceInv, OneVoice

(* A run still to publish of e has its completed before it.                *)
LEMMA PublishOrder ==
  ASSUME PInv, StreamTypeOK, SentInv, NEW e \in Executions, Single(e),
         QueueOrder(e), WireOrder(e), HeardOrder(e),
         events[e] \subseteq events'[e], NEW s \in Slots, PublishStep(s)
  PROVE  QueueOrder(e)' /\ WireOrder(e)' /\ HeardOrder(e)'
<1>1. /\ PubTypeOK /\ UNCHANGED <<wire, heard>> /\ Publishing(s) /\ SlotStep(s)
      /\ Host[s] \in Workers
  BY ExecutorAssumption DEF PublishStep, gatewayVars, StreamTypeOK, PubTypeOK
<1>2. /\ Word(s) \in Message /\ Word(s).exec = Exec(s) /\ Word(s).type = EventOf(s)
      /\ Runs(s, Exec(s)) /\ run[s].pc # "resolved"
  BY <1>1, WordType
<1>3. \A v \in Workers :
        Queued(v)' = IF v = Host[s] THEN Append(Queued(v), Word(s)) ELSE Queued(v)
  BY <1>1, PublishEffect
<1>4. CASE Exec(s) # e
  <2>1. ASSUME NEW v \in Workers
        PROVE  /\ Ends(Queued(v), e) => Ends(Queued(v), e)'
               /\ Completes(Queued(v), e)' => Completes(Queued(v), e)
               /\ Silent(Queued(v), e) => Silent(Queued(v), e)'
    <3>1. CASE v = Host[s]
      <4>1. Queued(v) \in Seq(Message) /\ Queued(v)' = Append(Queued(v), Word(s))
        BY <1>1, <1>3, <3>1, PubTypes
      <4> DEFINE r == Append(Queued(v), Word(s))
      <4>2. /\ Ends(Queued(v), e) => Ends(r, e)
            /\ Completes(r, e) => Completes(Queued(v), e)
            /\ Silent(Queued(v), e) => Silent(r, e)
        BY <1>2, <1>4, <4>1, AppendSays DEF Says
      <4> QED
        BY <4>1, <4>2 DEF Ends, Completes, Silent
    <3>2. CASE v # Host[s]
      BY <1>3, <3>2 DEF Ends, Completes, Silent
    <3> QED
      BY <3>1, <3>2
  <2>2. QueueOrder(e)'
    BY <2>1 DEF QueueOrder
  <2>3. WireOrder(e)'
    BY <1>1, <2>1 DEF WireOrder, Ends, Completes
  <2>4. HeardOrder(e)'
    BY <1>1, <2>1 DEF HeardOrder, HeardDone, Silent
  <2> QED
    BY <2>2, <2>3, <2>4
<1>5. CASE Exec(s) = e
  <2>1. "completed" \notin events[e]
    BY <1>2, <1>5 DEF SentInv, Single
  <2>2. /\ ~Completes(wire, e) /\ \A c \in Clients : Watched[c] = e => ~HeardDone(c)
        /\ \A v \in Workers : ~Completes(Queued(v), e)
    BY <2>1 DEF QueueOrder, WireOrder, HeardOrder
  <2>3. EventOf(s) \in events'[e]
    BY <1>1, <1>5, EventsTold
  <2>4. ASSUME NEW v \in Workers
        PROVE  Ends(Queued(v), e)' /\ (Completes(Queued(v), e)' => "completed" \in events'[e])
    <3>1. CASE v = Host[s]
      <4>1. Queued(v) \in Seq(Message) /\ Queued(v)' = Append(Queued(v), Word(s))
        BY <1>1, <1>3, <3>1, PubTypes
      <4> DEFINE r == Append(Queued(v), Word(s))
      <4>2. Ends(r, e) /\ (Completes(r, e) => Says(Word(s), e, "completed"))
        BY <1>2, <2>2, <4>1, AppendSays DEF QueueOrder
      <4> QED
        BY <1>2, <2>3, <4>1, <4>2 DEF Ends, Completes, Says
    <3>2. CASE v # Host[s]
      BY <1>3, <2>2, <3>2 DEF QueueOrder, Ends, Completes
    <3> QED
      BY <3>1, <3>2
  <2>5. Ends(wire, e)' /\ ~Completes(wire, e)'
    BY <1>1, <2>2 DEF WireOrder, Ends, Completes
  <2>6. \A c \in Clients : Watched[c] = e => ~HeardDone(c)'
    BY <1>1, <2>2 DEF HeardDone
  <2> QED
    BY <2>4, <2>5, <2>6 DEF QueueOrder, WireOrder, HeardOrder
<1> QED
  BY <1>4, <1>5

(* A command that goes to Redis takes its place behind what went before.   *)
LEMMA TransmitOrder ==
  ASSUME StreamTypeOK, VoiceInv, NEW e \in Executions, Single(e),
         QueueOrder(e), WireOrder(e), HeardOrder(e), NEW w \in Workers, Transmit(w)
  PROVE  QueueOrder(e)' /\ WireOrder(e)' /\ HeardOrder(e)'
<1> DEFINE m == Head(Queued(w))
<1>1. /\ PubTypeOK /\ GatewayTypeOK /\ UNCHANGED <<heard, events>>
      /\ wire \in Seq(Messages)
  BY GatewayTypes DEF Transmit, Deliver, vars, StreamTypeOK, PubTypeOK
<1>2. /\ Queued(w) # <<>> /\ m \in Message /\ Deliver(m.exec, m.type)
      /\ \A v \in Workers :
           Queued(v)' = IF v = w THEN Tail(Queued(v)) ELSE Queued(v)
  BY <1>1, TransmitEffect
<1>3. Queued(w) \in Seq(Message) /\ Queued(w)' = Tail(Queued(w))
  BY <1>1, <1>2, PubTypes
<1>4. /\ Silent(Queued(w), e) => Silent(Queued(w), e)' /\ m.exec # e
      /\ Completes(Queued(w), e)' \/ Says(m, e, "completed") => Completes(Queued(w), e)
      /\ Ends(Queued(w), e) => Ends(Queued(w), e)'
      /\ Ends(Queued(w), e) /\ Says(m, e, "completed") => Silent(Queued(w), e)'
  <2> DEFINE r == Tail(Queued(w))
  <2>1. /\ Silent(Queued(w), e) => Silent(r, e) /\ m.exec # e
        /\ Completes(r, e) \/ Says(m, e, "completed") => Completes(Queued(w), e)
        /\ Ends(Queued(w), e) => Ends(r, e)
        /\ Ends(Queued(w), e) /\ Says(m, e, "completed") => Silent(r, e)
    BY <1>2, <1>3, TailSays
  <2> QED
    BY <1>3, <2>1 DEF Silent, Completes, Ends
<1>5. ASSUME NEW v \in Workers
      PROVE  /\ Silent(Queued(v), e) => Silent(Queued(v), e)'
             /\ Completes(Queued(v), e)' => Completes(Queued(v), e)
             /\ Ends(Queued(v), e) => Ends(Queued(v), e)'
  <2>1. CASE v = w
    BY <1>4, <2>1
  <2>2. CASE v # w
    BY <1>2, <2>2 DEF Silent, Completes, Ends
  <2> QED
    BY <2>1, <2>2
<1>6. QueueOrder(e)'
  BY <1>1, <1>5 DEF QueueOrder
<1>7. m.exec = e => ~Completes(wire, e) /\ \A c \in Clients : Watched[c] = e => ~HeardDone(c)
  BY <1>4 DEF WireOrder, HeardOrder
<1>8. Says(m, e, "completed") => "completed" \in events[e] /\ \A v \in Workers : Silent(Queued(v), e)'
  <2> SUFFICES ASSUME Says(m, e, "completed"), NEW v \in Workers
               PROVE  "completed" \in events[e] /\ Silent(Queued(v), e)'
    BY <1>4 DEF QueueOrder
  <2>1. "completed" \in events[e] /\ Silent(Queued(w), e)'
    BY <1>4 DEF QueueOrder
  <2>2. ~Silent(Queued(w), e)
    BY <1>4 DEF Says
  <2>3. v # w => Silent(Queued(v), e)'
    BY <1>5, <2>2, OthersSilent DEF Single
  <2> QED
    BY <2>1, <2>3
<1>9. CASE UNCHANGED wire
  <2>1. WireOrder(e)'
    BY <1>1, <1>5, <1>9 DEF WireOrder, Ends, Completes
  <2>2. HeardOrder(e)'
    BY <1>1, <1>5, <1>9 DEF HeardOrder, HeardDone, Silent
  <2> QED
    BY <1>6, <2>1, <2>2
<1>10. CASE link /\ m.type \in Channels
  <2> DEFINE d == [exec |-> m.exec, type |-> m.type]
  <2>1. d \in Messages /\ d.exec = m.exec /\ d.type = m.type
    BY <1>2, <1>10 DEF Message, Messages, Channels, Types
  <2>2. wire' = Append(wire, d)
    BY <1>2, <1>10 DEF Deliver
  <2> HIDE DEF d
  <2>3. /\ Silent(wire, e) /\ d.exec # e => Silent(wire', e)
        /\ Completes(wire', e) => Completes(wire, e) \/ Says(d, e, "completed")
        /\ Ends(wire, e) /\ (d.exec # e \/ ~Completes(wire, e)) => Ends(wire', e)
    BY <1>1, <2>1, <2>2, AppendSays
  <2>4. Says(d, e, "completed") => Says(m, e, "completed")
    BY <2>1 DEF Says
  <2>5. Ends(wire', e)
    BY <1>7, <2>1, <2>3 DEF WireOrder
  <2>6. Completes(wire', e) =>
          "completed" \in events'[e] /\ \A v \in Workers : Silent(Queued(v), e)'
    BY <1>1, <1>5, <1>8, <2>3, <2>4 DEF WireOrder
  <2>7. ASSUME NEW c \in Clients, Watched[c] = e, HeardDone(c)'
        PROVE  /\ "completed" \in events'[e] /\ Silent(wire', e)
               /\ \A v \in Workers : Silent(Queued(v), e)'
    <3>1. HeardDone(c)
      BY <1>1, <2>7 DEF HeardDone
    <3>2. /\ "completed" \in events[e] /\ Silent(wire, e)
          /\ \A v \in Workers : Silent(Queued(v), e)
      BY <2>7, <3>1 DEF HeardOrder
    <3> QED
      BY <1>1, <1>5, <1>7, <2>1, <2>3, <2>7, <3>1, <3>2
  <2>8. WireOrder(e)'
    BY <2>5, <2>6 DEF WireOrder, Ends, Completes
  <2>9. HeardOrder(e)'
    BY <2>7 DEF HeardOrder, Silent
  <2> QED
    BY <1>6, <2>8, <2>9
<1> QED
  BY <1>2, <1>9, <1>10 DEF Deliver

(* A client that gives up a command, goes back or dies says no more than   *)
(* it would have.                                                          *)
LEMMA FewerOrder ==
  ASSUME NEW e \in Executions, QueueOrder(e), WireOrder(e), HeardOrder(e),
         UNCHANGED <<wire, heard, events>>,
         \A v \in Workers :
           /\ Silent(Queued(v), e) => Silent(Queued(v), e)'
           /\ Completes(Queued(v), e)' => Completes(Queued(v), e)
           /\ Ends(Queued(v), e) => Ends(Queued(v), e)'
  PROVE  QueueOrder(e)' /\ WireOrder(e)' /\ HeardOrder(e)'
<1>1. QueueOrder(e)'
  BY DEF QueueOrder
<1>2. WireOrder(e)'
  BY DEF WireOrder, Ends, Completes
<1>3. HeardOrder(e)'
  BY DEF HeardOrder, HeardDone, Silent
<1> QED
  BY <1>1, <1>2, <1>3

LEMMA ClientOrder ==
  ASSUME StreamTypeOK, NEW e \in Executions, e \notin resent',
         QueueOrder(e), WireOrder(e), HeardOrder(e),
         NEW w \in Workers, WorkerStep(w) \/ Swallow(w) \/ Resend(w)
  PROVE  QueueOrder(e)' /\ WireOrder(e)' /\ HeardOrder(e)'
<1>1. PubTypeOK
  BY DEF StreamTypeOK, PubTypeOK
<1> SUFFICES ASSUME NEW v \in Workers
             PROVE  /\ Silent(Queued(v), e) => Silent(Queued(v), e)'
                    /\ Completes(Queued(v), e)' => Completes(Queued(v), e)
                    /\ Ends(Queued(v), e) => Ends(Queued(v), e)'
                    /\ UNCHANGED <<wire, heard, events>>
  <2>1. UNCHANGED <<wire, heard, events>>
    BY <1>1, WorkerEffect DEF WorkerStep, Swallow, Resend, gatewayVars, vars
  <2> QED
    BY <2>1, FewerOrder
<1>2. Queued(v) \in Seq(Message) /\ UNCHANGED <<wire, heard, events>>
  BY <1>1, PubTypes, WorkerEffect DEF WorkerStep, Swallow, Resend, gatewayVars, vars
<1>3. CASE Queued(v)' = Queued(v)
  BY <1>2, <1>3 DEF Silent, Completes, Ends
<1>4. CASE Queued(v)' = <<>>
  <2>1. Silent(<<>>, e) /\ ~Completes(<<>>, e) /\ Ends(<<>>, e)
    BY EmptySays
  <2> QED
    BY <1>2, <1>4, <2>1 DEF Silent, Completes, Ends
<1>5. CASE v = w /\ Swallow(w)
  <2>1. Queued(v) # <<>> /\ Queued(v)' = Tail(Queued(v))
    BY <1>1, <1>5, SwallowEffect
  <2> DEFINE r == Tail(Queued(v))
  <2>2. /\ Silent(Queued(v), e) => Silent(r, e)
        /\ Completes(r, e) => Completes(Queued(v), e)
        /\ Ends(Queued(v), e) => Ends(r, e)
    BY <1>2, <2>1, TailSays
  <2> QED
    BY <1>2, <2>1, <2>2 DEF Silent, Completes, Ends
<1>6. CASE v = w /\ Resend(w)
  <2>1. PICK i \in 1..Len(Unanswered(w)) :
          /\ Again(w, i) \in Seq(Message)
          /\ \A x \in Workers :
               Queued(x)' = IF x = w THEN Again(x, i) \o Queued(x) ELSE Queued(x)
          /\ resent' = resent \cup
               {Unanswered(w)[j].exec : j \in i..Len(Unanswered(w))}
    BY <1>1, <1>6, ResendEffect
  <2>2. Unanswered(v) \in Seq(Message)
        /\ \A j \in i..Len(Unanswered(v)) : Unanswered(v)[j].exec # e
    BY <1>1, <1>6, <2>1, PubTypes
  <2>3. Silent(Again(v, i), e)
    BY <1>6, <2>1, <2>2, SuffixSays DEF Again
  <2> DEFINE r == Again(v, i) \o Queued(v)
  <2>4. /\ Silent(Queued(v), e) => Silent(r, e)
        /\ Completes(r, e) => Completes(Queued(v), e)
        /\ Ends(Queued(v), e) => Ends(r, e)
    BY <1>2, <1>6, <2>1, <2>3, ConcatSays
  <2>5. Queued(v)' = r
    BY <1>6, <2>1
  <2> QED
    BY <1>2, <2>4, <2>5 DEF Silent, Completes, Ends
<1>7. Queued(v)' = Queued(v) \/ Queued(v)' = <<>> \/ (v = w /\ (Swallow(w) \/ Resend(w)))
  BY <1>1, WorkerEffect, SwallowEffect, ResendEffect
<1> QED
  BY <1>3, <1>4, <1>5, <1>6, <1>7

(* The steps of the gateway by what they do to the sockets: the oldest     *)
(* message is handed on, or at most some are lost.                         *)
Loses ==
  \A c \in Clients :
    \/ heard'[c] = <<>>
    \/ heard'[c] = heard[c] /\ joined[c] \subseteq joined'[c]

LEMMA GatewaySteps ==
  ASSUME StreamTypeOK, [StreamNext]_streamVars
  PROVE  /\ Forward \/ Loses
         /\ UNCHANGED pubVars => Forward \/ (Loses /\ (wire' = wire \/ wire' = <<>>))
<1>1. /\ joined \in [Clients -> SUBSET Rooms]
      /\ heard \in [Clients -> Seq(Types)]
      /\ redisPub \in [Workers -> Commands]
  BY GatewayTypes DEF StreamTypeOK
<1>2. CASE UNCHANGED gatewayVars
  BY <1>2 DEF gatewayVars, Loses
<1>3. ASSUME NEW w \in Workers, Transmit(w)
      PROVE  Loses /\ ~UNCHANGED pubVars
  <2>1. PubTypeOK
    BY DEF StreamTypeOK, PubTypeOK
  <2>2. Queued(w) # <<>> /\ Queued(w)' = Tail(Queued(w)) /\ Queued(w) \in Seq(Message)
    BY <1>3, <2>1, TransmitEffect, PubTypes
  <2>3. Len(Queued(w)) \in Nat /\ Len(Queued(w)') = Len(Queued(w)) - 1
    BY <2>2, HeadTailProperties, LenProperties
  <2>4. Queued(w)' # Queued(w)
    BY <2>3
  <2> QED
    BY <1>3, <2>4 DEF Transmit, Deliver, Loses, pubVars, Queued
<1>4. ASSUME NEW w \in Workers, WorkerStep(w) \/ Swallow(w) \/ Resend(w)
      PROVE  Loses /\ wire' = wire
  BY <1>4 DEF WorkerStep, Swallow, Resend, gatewayVars, Loses
<1>5. ASSUME NEW c \in Clients, SubscribeStep(c)
      PROVE  Loses /\ wire' = wire
  BY <1>1, <1>5 DEF SubscribeStep, Subscribe, Loses
<1>6. ASSUME NEW c \in Clients, UnsubscribeStep(c)
      PROVE  Loses /\ wire' = wire
  <2>1. /\ wire' = wire /\ heard'[c] = <<>>
        /\ \A d \in Clients : d # c => heard'[d] = heard[d] /\ joined'[d] = joined[d]
    BY <1>1, <1>6 DEF UnsubscribeStep, Unsubscribe
  <2> QED
    BY <2>1 DEF Loses
<1>7. CASE LinkDownStep \/ RestartStep \/ LinkUpStep
  BY <1>7 DEF LinkDownStep, LinkDown, RestartStep, Restart, LinkUpStep, LinkUp, Loses
<1>8. CASE ForwardStep
  BY <1>8 DEF ForwardStep
<1>9. ASSUME NEW c \in Clients, Read(c)
      PROVE  UNCHANGED gatewayVars
  BY <1>9 DEF Read
<1>10. ASSUME NEW s \in Slots, PublishStep(s)
       PROVE  UNCHANGED gatewayVars
  BY <1>10 DEF PublishStep
<1> QED
  BY <1>2, <1>3, <1>4, <1>5, <1>6, <1>7, <1>8, <1>9, <1>10
  DEF StreamNext, streamVars, QuietStep

(* What one client makes of a message that is handed on.                   *)
LEMMA Hearing ==
  ASSUME GatewayTypeOK, Forward, NEW c \in Clients
  PROVE  \E n \in Nat :
           /\ n # 0 <=> wire[1].exec = Watched[c] /\ Targets(c, Watched[c]) # {}
           /\ n <= Cardinality(joined[c])
           /\ Len(heard[c]) \in Nat /\ Len(heard'[c]) = Len(heard[c]) + n
           /\ \A i \in 1..Len(heard[c]) : heard'[c][i] = heard[c][i]
           /\ \A i \in (Len(heard[c]) + 1)..(Len(heard[c]) + n) :
                heard'[c][i] = wire[1].type
<1> DEFINE m == Head(wire)
           n == Cardinality(Targets(c, m.exec))
<1>1. wire \in Seq(Messages) /\ wire # <<>> /\ heard[c] \in Seq(Types)
  BY GatewayTypes DEF Forward
<1>2. m \in Messages /\ m = wire[1]
  <2>1. m \in Messages
    BY <1>1, HeadTailProperties
  <2>2. m = wire[1]
    BY <1>1
  <2> QED
    BY <2>1, <2>2
<1>3. n \in Nat /\ n <= Cardinality(joined[c])
  BY TargetsFinite
<1>4. n # 0 <=> m.exec = Watched[c] /\ Targets(c, Watched[c]) # {}
  <2>1. m.exec # Watched[c] => Targets(c, m.exec) = {}
    BY DEF Targets
  <2>2. IsFiniteSet(Targets(c, m.exec))
    BY TargetsFinite
  <2>3. n = 0 <=> Targets(c, m.exec) = {}
    BY <2>2, FS_EmptySet
  <2> QED
    BY <2>1, <2>3
<1>5. /\ heard'[c] = heard[c] \o Copies(c, m)
      /\ Copies(c, m) \in Seq(Types) /\ Len(Copies(c, m)) = n
  BY <1>2, ReceivedType DEF Forward
<1>6. \A i \in 1..n : Copies(c, m)[i] = m.type
  BY DEF Copies
<1> HIDE DEF m, n
<1>7. /\ Len(heard[c]) \in Nat /\ Len(heard'[c]) = Len(heard[c]) + n
      /\ \A i \in 1..Len(heard[c]) : heard'[c][i] = heard[c][i]
      /\ \A i \in (Len(heard[c]) + 1)..(Len(heard[c]) + n) :
           heard'[c][i] = Copies(c, m)[i - Len(heard[c])]
  <2>1. Len(heard[c]) \in Nat
    BY <1>1, LenProperties
  <2>2. /\ Len(heard'[c]) = Len(heard[c]) + n
        /\ \A i \in 1..(Len(heard[c]) + n) :
             heard'[c][i] = IF i <= Len(heard[c]) THEN heard[c][i]
                                                  ELSE Copies(c, m)[i - Len(heard[c])]
    <3> DEFINE k == Copies(c, m)
               r == heard'[c]
               h == heard[c]
    <3>1. h \in Seq(Types) /\ k \in Seq(Types) /\ r = h \o k /\ Len(k) = n
      BY <1>1, <1>5
    <3> HIDE DEF h, k, r
    <3>2. /\ Len(h \o k) = Len(h) + Len(k)
          /\ \A i \in 1..(Len(h) + Len(k)) :
               (h \o k)[i] = IF i <= Len(h) THEN h[i] ELSE k[i - Len(h)]
      BY <3>1, ConcatProperties
    <3>3. /\ Len(r) = Len(h) + n
          /\ \A i \in 1..(Len(h) + n) :
               r[i] = IF i <= Len(h) THEN h[i] ELSE k[i - Len(h)]
      BY <3>1, <3>2
    <3> QED
      BY <3>3 DEF h, k, r
  <2> QED
    BY <1>3, <2>1, <2>2
<1>8. \A i \in (Len(heard[c]) + 1)..(Len(heard[c]) + n) : i - Len(heard[c]) \in 1..n
  BY <1>3, <1>7
<1> QED
  BY <1>2, <1>3, <1>4, <1>6, <1>7, <1>8

LEMMA WireMoves ==
  ASSUME GatewayTypeOK, Forward
  PROVE  /\ Len(wire) \in Nat \ {0} /\ Len(wire') = Len(wire) - 1
         /\ \A i \in 1..Len(wire') : wire'[i] = wire[i + 1]
<1>1. wire \in Seq(Messages) /\ wire # <<>> /\ wire' = Tail(wire)
  BY GatewayTypes DEF Forward
<1> QED
  BY <1>1, HeadTailProperties, EmptySeq, LenProperties

(* What the gateway does to a message keeps the order.                     *)
LEMMA GatewayOrder ==
  ASSUME StreamTypeOK, [StreamNext]_streamVars, UNCHANGED pubVars,
         NEW e \in Executions, events[e] \subseteq events'[e],
         QueueOrder(e), WireOrder(e), HeardOrder(e)
  PROVE  QueueOrder(e)' /\ WireOrder(e)' /\ HeardOrder(e)'
<1>1. GatewayTypeOK /\ wire \in Seq(Messages)
  BY GatewayTypes DEF StreamTypeOK
<1>2. \A w \in Workers : Silent(Queued(w), e) => Silent(Queued(w), e)'
  BY DEF pubVars, Queued, Silent
<1>3. QueueOrder(e)'
  BY DEF pubVars, Queued, QueueOrder, Ends, Completes
<1>4. CASE Forward
  <2> DEFINE m == Head(wire)
             r == Tail(wire)
  <2>1. wire # <<>> /\ wire' = r /\ m = wire[1]
    BY <1>1, <1>4 DEF Forward
  <2>2. /\ Silent(wire, e) => Silent(r, e)
        /\ Completes(r, e) \/ Says(m, e, "completed") => Completes(wire, e)
        /\ Ends(wire, e) => Ends(r, e)
        /\ Ends(wire, e) /\ Says(m, e, "completed") => Silent(r, e)
    BY <1>1, <2>1, TailSays
  <2>3. WireOrder(e)'
    BY <1>2, <2>1, <2>2 DEF WireOrder, Ends, Completes
  <2>4. ASSUME NEW c \in Clients, Watched[c] = e, HeardDone(c)'
        PROVE  HeardDone(c) \/ Says(m, e, "completed")
    <3>1. PICK n \in Nat :
            /\ n # 0 => wire[1].exec = Watched[c]
            /\ Len(heard[c]) \in Nat /\ Len(heard'[c]) = Len(heard[c]) + n
            /\ \A i \in 1..Len(heard[c]) : heard'[c][i] = heard[c][i]
            /\ \A i \in (Len(heard[c]) + 1)..(Len(heard[c]) + n) :
                 heard'[c][i] = wire[1].type
      BY <1>1, <1>4, Hearing
    <3>2. PICK k \in 1..Len(heard'[c]) : heard'[c][k] = "completed"
      BY <2>4 DEF HeardDone
    <3>3. CASE k \in 1..Len(heard[c])
      BY <3>1, <3>2, <3>3 DEF HeardDone
    <3>4. CASE k \notin 1..Len(heard[c])
      <4>1. n # 0 /\ k \in (Len(heard[c]) + 1)..(Len(heard[c]) + n)
        BY <3>1, <3>4
      <4> QED
        BY <2>1, <2>4, <3>1, <3>2, <4>1 DEF Says
    <3> QED
      BY <3>3, <3>4
  <2>5. HeardOrder(e)'
    <3> SUFFICES ASSUME NEW c \in Clients, Watched[c] = e, HeardDone(c)'
                 PROVE  /\ "completed" \in events'[e] /\ Silent(wire', e)
                        /\ \A w \in Workers : Silent(Queued(w), e)'
      BY DEF HeardOrder, Silent
    <3>1. CASE HeardDone(c)
      BY <1>2, <2>1, <2>2, <3>1 DEF HeardOrder
    <3>2. CASE Says(m, e, "completed")
      BY <1>2, <2>1, <2>2, <3>2 DEF WireOrder
    <3> QED
      BY <2>4, <3>1, <3>2
  <2> QED
    BY <1>3, <2>3, <2>5
<1>5. CASE Loses /\ (wire' = wire \/ wire' = <<>>)
  <2>1. /\ Silent(wire, e) => Silent(wire', e)
        /\ Ends(wire', e) /\ (Completes(wire', e) => Completes(wire, e))
    BY <1>5, EmptySays DEF WireOrder
  <2>2. WireOrder(e)'
    BY <1>2, <2>1 DEF WireOrder, Ends, Completes
  <2>3. \A c \in Clients : HeardDone(c)' => HeardDone(c)
    <3> SUFFICES ASSUME NEW c \in Clients, HeardDone(c)'
                 PROVE  HeardDone(c)
      OBVIOUS
    <3>1. heard'[c] # <<>>
      BY DEF HeardDone
    <3> QED
      BY <1>5, <3>1 DEF Loses, HeardDone
  <2>4. HeardOrder(e)'
    BY <1>2, <2>1, <2>3 DEF HeardOrder, Silent
  <2> QED
    BY <1>3, <2>2, <2>4
<1> QED
  BY <1>4, <1>5, GatewaySteps

LEMMA StepOrder ==
  ASSUME PInv, StreamTypeOK, SentInv, VoiceInv, OrderInv, [StreamNext]_streamVars
  PROVE  OrderInv'
<1> SUFFICES ASSUME NEW e \in Executions, Single(e)'
             PROVE  QueueOrder(e)' /\ WireOrder(e)' /\ HeardOrder(e)'
  BY DEF OrderInv
<1>1. Single(e) /\ events[e] \subseteq events'[e] /\ e \notin resent'
  BY SingleBefore DEF StreamTypeOK, PubTypeOK, Single
<1>2. QueueOrder(e) /\ WireOrder(e) /\ HeardOrder(e)
  BY <1>1 DEF OrderInv
<1>3. ASSUME NEW s \in Slots, PublishStep(s)
      PROVE  QueueOrder(e)' /\ WireOrder(e)' /\ HeardOrder(e)'
  BY <1>1, <1>2, <1>3, PublishOrder
<1>4. ASSUME NEW w \in Workers, Transmit(w)
      PROVE  QueueOrder(e)' /\ WireOrder(e)' /\ HeardOrder(e)'
  BY <1>1, <1>2, <1>4, TransmitOrder
<1>5. ASSUME NEW w \in Workers, WorkerStep(w) \/ Swallow(w) \/ Resend(w)
      PROVE  QueueOrder(e)' /\ WireOrder(e)' /\ HeardOrder(e)'
  BY <1>1, <1>2, <1>5, ClientOrder
<1>6. CASE UNCHANGED pubVars
  BY <1>1, <1>2, <1>6, GatewayOrder
<1> QED
  BY <1>3, <1>4, <1>5, <1>6, PubSteps

(* What a client heard as completed.                                       *)
Done(c) == {i \in 1..Len(heard[c]) : heard[c][i] = "completed"}

DoneLast(c) ==
  /\ \A i \in Done(c) : i..Len(heard[c]) \subseteq Done(c)
  /\ Cardinality(Done(c)) <= Cardinality(joined[c])

LEMMA CompletedIsDoneLast ==
  CompletedIsLast <=> \A c \in Clients : Single(Watched[c]) => DoneLast(c)
  BY DEF CompletedIsLast, Single, DoneLast, Done

(* A message that is handed on leaves what a client heard in order.        *)
LEMMA ForwardDone ==
  ASSUME OrderInv, StreamTypeOK, Forward,
         NEW c \in Clients, Single(Watched[c]), DoneLast(c)
  PROVE  DoneLast(c)'
<1>1. GatewayTypeOK /\ UNCHANGED joined
  BY DEF StreamTypeOK, Forward
<1>2. PICK n \in Nat :
        /\ n # 0 => wire[1].exec = Watched[c]
        /\ n <= Cardinality(joined[c])
        /\ Len(heard[c]) \in Nat /\ Len(heard'[c]) = Len(heard[c]) + n
        /\ \A i \in 1..Len(heard[c]) : heard'[c][i] = heard[c][i]
        /\ \A i \in (Len(heard[c]) + 1)..(Len(heard[c]) + n) :
             heard'[c][i] = wire[1].type
  BY <1>1, Hearing
<1>3. Len(wire) \in Nat \ {0}
  BY <1>1, WireMoves
<1> DEFINE L == Len(heard[c])
<1>4. CASE n = 0
  <2>1. Done(c)' = Done(c) /\ Len(heard'[c]) = Len(heard[c])
    BY <1>2, <1>4 DEF Done
  <2> QED
    BY <1>1, <2>1 DEF DoneLast
<1>5. CASE n # 0
  <2>1. \A k \in 1..L : heard[c][k] # "completed"
    <3>1. Watched[c] \in Executions
      BY GatewayAssumption
    <3>2. ~Silent(wire, Watched[c])
      BY <1>2, <1>3, <1>5 DEF Silent
    <3> QED
      BY <3>1, <3>2 DEF OrderInv, HeardOrder, HeardDone
  <2>2. CASE wire[1].type = "completed"
    <3>1. Done(c)' = (L + 1)..(L + n)
      BY <1>2, <2>1, <2>2 DEF Done
    <3>2. Cardinality((L + 1)..(L + n)) = n
      <4>1. L + 1 \in Int /\ L + n \in Int
        BY <1>2
      <4>2. Cardinality((L + 1)..(L + n)) =
              IF L + 1 > L + n THEN 0 ELSE (L + n) - (L + 1) + 1
        BY <4>1, FS_Interval
      <4> QED
        BY <1>2, <1>5, <4>2
    <3>3. Cardinality(Done(c)') <= Cardinality(joined'[c])
      BY <1>1, <1>2, <3>1, <3>2
    <3>4. \A i \in Done(c)' : i..Len(heard'[c]) \subseteq Done(c)'
      BY <1>2, <3>1
    <3> QED
      BY <3>3, <3>4 DEF DoneLast
  <2>3. CASE wire[1].type # "completed"
    <3>1. Done(c)' = {}
      BY <1>2, <2>1, <2>3 DEF Done
    <3>2. Cardinality(joined[c]) \in Nat /\ Cardinality({}) = 0
      BY <1>1, TargetsFinite, FS_EmptySet
    <3> QED
      BY <1>1, <3>1, <3>2 DEF DoneLast
  <2> QED
    BY <2>2, <2>3
<1> QED
  BY <1>4, <1>5

LEMMA StepDone ==
  ASSUME PInv, OrderInv, CompletedIsLast, StreamTypeOK, [StreamNext]_streamVars
  PROVE  CompletedIsLast'
<1>1. GatewayTypeOK /\ (Forward \/ Loses)
  BY GatewaySteps DEF StreamTypeOK
<1>2. GatewayTypeOK'
  BY StreamStepTypes DEF StreamTypeOK
<1> SUFFICES ASSUME NEW c \in Clients, Single(Watched[c])'
             PROVE  DoneLast(c)'
  BY DEF CompletedIsLast, Single, DoneLast, Done
<1>3. Single(Watched[c])
  BY SingleBefore, GatewayAssumption DEF StreamTypeOK, PubTypeOK
<1>4. DoneLast(c)
  BY <1>3, CompletedIsDoneLast
<1>5. CASE Forward
  BY <1>3, <1>4, <1>5, ForwardDone
<1>6. /\ IsFiniteSet(joined[c]) /\ Cardinality(joined[c]) \in Nat
  BY <1>1, GatewayAssumption, TargetsFinite
<1>7. joined' \in [Clients -> SUBSET Rooms]
  BY <1>2 DEF GatewayTypeOK
<1>8. IsFiniteSet(joined'[c])
  <2>1. IsFiniteSet({"execution"} \cup {"session"})
    BY FS_Singleton, FS_AddElement
  <2>2. joined'[c] \subseteq {"execution"} \cup {"session"}
    BY <1>7 DEF Rooms
  <2> QED
    BY <2>1, <2>2, FS_Subset
<1>9. CASE heard'[c] = <<>>
  <2>1. Done(c)' = {}
    BY <1>9 DEF Done
  <2>2. Cardinality(joined'[c]) \in Nat /\ Cardinality({}) = 0
    BY <1>8, FS_CardinalityType, FS_EmptySet
  <2> QED
    BY <2>1, <2>2 DEF DoneLast
<1>10. CASE heard'[c] = heard[c] /\ joined[c] \subseteq joined'[c]
  <2>1. Done(c)' = Done(c) /\ IsFiniteSet(Done(c))
    <3>1. Done(c)' = Done(c)
      BY <1>10 DEF Done
    <3>2. Len(heard[c]) \in Nat
      BY <1>1, GatewayTypes, LenProperties
    <3>3. IsFiniteSet(1..Len(heard[c]))
      BY <3>2, FS_Interval
    <3> QED
      BY <3>1, <3>3, FS_Subset DEF Done
  <2>2. /\ Cardinality(joined[c]) <= Cardinality(joined'[c])
        /\ Cardinality(joined'[c]) \in Nat /\ Cardinality(Done(c)) \in Nat
    BY <1>8, <1>10, <2>1, FS_Subset, FS_CardinalityType
  <2> QED
    BY <1>4, <1>6, <1>10, <2>1, <2>2 DEF DoneLast
<1> QED
  BY <1>1, <1>5, <1>9, <1>10 DEF Loses

StreamInv ==
  /\ SentInv
  /\ VoiceInv
  /\ OrderInv
  /\ CompletedIsLast

LEMMA InitStream == StreamInit => StreamInv
<1> SUFFICES ASSUME StreamInit
             PROVE  StreamInv
  OBVIOUS
<1>1. SentInv
  BY DEF StreamInit, Init, ExecutorInit, SentInv
<1>2. \A w \in Workers : Queued(w) = <<>> /\ Unanswered(w) = <<>>
  BY DEF StreamInit, Queued, Unanswered, NoCommands
<1>3. VoiceInv
  BY <1>2, EmptySays DEF VoiceInv
<1>4. ASSUME NEW e \in Executions
      PROVE  QueueOrder(e) /\ WireOrder(e) /\ HeardOrder(e)
  <2>1. wire = <<>> /\ \A c \in Clients : ~HeardDone(c)
    BY DEF StreamInit, GatewayInit, HeardDone
  <2> QED
    BY <1>2, <2>1, EmptySays DEF QueueOrder, WireOrder, HeardOrder
<1>5. ASSUME NEW c \in Clients
      PROVE  DoneLast(c)
  <2>1. Done(c) = {} /\ joined[c] = {}
    BY DEF StreamInit, GatewayInit, Done
  <2> QED
    BY <2>1, FS_EmptySet DEF DoneLast
<1> QED
  BY <1>1, <1>3, <1>4, <1>5, CompletedIsDoneLast DEF StreamInv, OrderInv

(* execution:completed is the last a client hears of a job that never      *)
(* stalled, once for each of its rooms, as long as one worker published of *)
(* it and none of its events was sent again: late publishes, retries,      *)
(* failed attempts, lost subscriptions and restarts of the gateway put     *)
(* nothing behind it.                                                      *)
THEOREM CompletedComesLast == StreamSpec => []CompletedIsLast
<1>1. StreamSpec => []PInv
  BY StreamingUsesPipeline, PipelineInvariant, PTL
<1>2. StreamInit => ZombieInv
  BY InitZombies DEF StreamInit
<1>3. PInv /\ ZombieInv /\ [StreamNext]_streamVars => ZombieInv'
  BY StreamStepIsStep, StepZombies
<1>4. PInv /\ ZombieInv /\ StreamTypeOK /\ StreamInv /\ [StreamNext]_streamVars
        => StreamInv'
  BY StreamStepIsStep, StepSent, StepVoice, StepOrder, StepDone
  DEF StreamInv, StreamTypeOK, PubTypeOK
<1>5. StreamInv => CompletedIsLast
  BY DEF StreamInv
<1> QED
  BY <1>1, <1>2, <1>3, <1>4, <1>5, InitStream, StreamTypeCorrect, PTL DEF StreamSpec

-----------------------------------------------------------------------------
(* What a run and a completed job show in the row while all is calm: the   *)
(* outcome of that very run, unless the route's late update hides it.      *)
StoredInv ==
  /\ \A s \in Slots :
       LET status == row[run[s].exec].status IN
         /\ run[s].pc = "progress" => ~TimedOut(s) /\ status \in {"COMPLETED", "QUEUED"}
         /\ run[s].pc = "publish" =>
              IF TimedOut(s) THEN status \in {"TIMEOUT", "QUEUED"}
                             ELSE status \in {"COMPLETED", "QUEUED"}
         /\ run[s].pc = "resolved" => status \in {"COMPLETED", "TIMEOUT", "QUEUED"}
  /\ \A e \in Executions :
       job[e].state = "completed" =>
         row[e].status \in {"COMPLETED", "TIMEOUT", "QUEUED"}

LEMMA SlotStepStored ==
  ASSUME PInv, Calm, StoredInv, NEW s \in Slots, SlotStep(s)
  PROVE  StoredInv'
<1> SUFFICES ASSUME NEW e \in Executions, e = Exec(s)
             PROVE  StoredInv'
  BY SlotSteps DEF Steps
<1>1. /\ SlotFrame(s) /\ JobFlow(s) /\ SlotFlow(s)
      /\ run \in [Slots -> Run] /\ job \in [Executions -> Job] /\ RunInv
      /\ row \in [Executions -> Row]
  BY SlotSteps DEF Steps, PInv, TypeOK, ExecutorTypeOK, QueueTypeOK, StoreTypeOK
<1>2. /\ Holds(e, s)
      /\ \A t \in Slots : t # s /\ run[t].pc # "idle" => run[t].exec # e
  BY SlotStepCalm
<1>3. run[s].exec = e /\ (run'[s].pc # "idle" => run'[s].exec = e)
  BY <1>1 DEF SlotFrame, Exec
<1>4. /\ run'[s].pc = "progress" =>
           /\ run[s].pc = "record" /\ ~TimedOut(s) /\ run'[s].outcome = run[s].outcome
           /\ row'[e] = CompletedRow(e, run[s].case)
      /\ run'[s].pc = "publish" =>
           /\ run'[s].outcome = run[s].outcome
           /\ \/ run[s].pc = "record" /\ TimedOut(s) /\ row'[e] = TimeoutRow(e)
              \/ run[s].pc = "progress" /\ row'[e] = row[e]
      /\ run'[s].pc = "resolved" => run[s].pc = "publish" /\ row'[e] = row[e]
  BY <1>1 DEF SlotFlow, MovesTo, Throws, Run, Idle
<1>5. /\ TimeoutRow(e).status = "TIMEOUT"
      /\ \A n \in Nat : CompletedRow(e, n).status = "COMPLETED"
      /\ run[s].case \in Nat
  BY <1>1 DEF TimeoutRow, CompletedRow, Row, Run
<1>6. run'[s].pc # "idle" /\ run'[s].outcome = run[s].outcome =>
        (TimedOut(s)' <=> TimedOut(s))
  BY <1>3 DEF TimedOut, Exec
<1>7. /\ run[s].pc = "progress" => ~TimedOut(s) /\ row[e].status \in {"COMPLETED", "QUEUED"}
      /\ run[s].pc = "publish" => row[e].status \in {"COMPLETED", "TIMEOUT", "QUEUED"}
      /\ run[s].pc = "resolved" => row[e].status \in {"COMPLETED", "TIMEOUT", "QUEUED"}
  BY <1>3 DEF StoredInv
<1>8. /\ run'[s].pc = "progress" =>
           ~TimedOut(s)' /\ row'[e].status \in {"COMPLETED", "QUEUED"}
      /\ run'[s].pc = "publish" =>
           IF TimedOut(s)' THEN row'[e].status \in {"TIMEOUT", "QUEUED"}
                           ELSE row'[e].status \in {"COMPLETED", "QUEUED"}
      /\ run'[s].pc = "resolved" => row'[e].status \in {"COMPLETED", "TIMEOUT", "QUEUED"}
  BY <1>4, <1>5, <1>6, <1>7
<1>9. ASSUME NEW t \in Slots, t # s, run[t].pc # "idle"
      PROVE  /\ run'[t] = run[t] /\ run[t].exec \in Executions
             /\ row'[run[t].exec] = row[run[t].exec] /\ (TimedOut(t)' <=> TimedOut(t))
  BY <1>1, <1>2, <1>3, <1>9 DEF SlotFrame, RunInv, TimedOut, Exec
<1>10. ASSUME NEW t \in Slots, run'[t].pc # "idle"
       PROVE  LET status == row'[run'[t].exec].status IN
                /\ run'[t].pc = "progress" =>
                     ~TimedOut(t)' /\ status \in {"COMPLETED", "QUEUED"}
                /\ run'[t].pc = "publish" =>
                     IF TimedOut(t)' THEN status \in {"TIMEOUT", "QUEUED"}
                                     ELSE status \in {"COMPLETED", "QUEUED"}
                /\ run'[t].pc = "resolved" =>
                     status \in {"COMPLETED", "TIMEOUT", "QUEUED"}
  <2>1. CASE t = s
    BY <1>3, <1>8, <1>10, <2>1
  <2>2. CASE t # s
    <3>1. run'[t] = run[t] /\ run[t].pc # "idle"
      BY <1>1, <1>10, <2>2 DEF SlotFrame
    <3> QED
      BY <1>9, <2>2, <3>1 DEF StoredInv
  <2> QED
    BY <2>1, <2>2
<1>11. ASSUME NEW x \in Executions, job'[x].state = "completed"
       PROVE  row'[x].status \in {"COMPLETED", "TIMEOUT", "QUEUED"}
  <2>1. CASE x # e
    BY <1>1, <1>11, <2>1 DEF SlotFrame, StoredInv
  <2>2. CASE x = e
    <3>1. run[s].pc = "resolved" /\ row'[e] = row[e]
      BY <1>1, <1>2, <1>11, <2>2 DEF JobFlow, SlotFlow, Holds, MoveToFailed, Job
    <3> QED
      BY <1>7, <2>2, <3>1
  <2> QED
    BY <2>1, <2>2
<1> QED
  BY <1>10, <1>11 DEF StoredInv

(* What no other step takes back of the row of a job that was tried.       *)
LEMMA OtherStepRow ==
  ASSUME PInv, OtherStep, NEW e \in Executions,
         job[e].invoked > 0 \/ job[e].state # "absent"
  PROVE  row'[e] = row[e] \/ row'[e].status = "QUEUED"
<1>1. RowsBesides /\ row \in [Executions -> Row]
  BY OtherSteps DEF PInv, TypeOK, StoreTypeOK
<1>2. NoJob.state = "absent" /\ NoJob.invoked = 0
  BY DEF NoJob
<1>3. WithStatus(e, "QUEUED").status = "QUEUED"
  BY <1>1 DEF WithStatus, Row
<1> QED
  BY <1>1, <1>2, <1>3 DEF RowsBesides

LEMMA OtherStepStored ==
  ASSUME PInv, StoredInv, OtherStep
  PROVE  StoredInv'
<1>1. RunsBesides /\ RunInv
  BY OtherSteps DEF PInv
<1>2. ASSUME NEW t \in Slots, run'[t].pc \in {"progress", "publish", "resolved"}
      PROVE  /\ run'[t] = run[t] /\ (TimedOut(t)' <=> TimedOut(t))
             /\ \/ row'[run[t].exec] = row[run[t].exec]
                \/ row'[run[t].exec].status = "QUEUED"
  <2>1. run'[t] = run[t]
    BY <1>1, <1>2, StartedRun DEF RunsBesides
  <2>2. run[t].exec \in Executions /\ job[run[t].exec].invoked > 0
    BY <1>1, <1>2, <2>1 DEF RunInv
  <2> QED
    BY <2>1, <2>2, OtherStepRow DEF TimedOut, Exec
<1>3. ASSUME NEW t \in Slots
      PROVE  LET status == row'[run'[t].exec].status IN
               /\ run'[t].pc = "progress" =>
                    ~TimedOut(t)' /\ status \in {"COMPLETED", "QUEUED"}
               /\ run'[t].pc = "publish" =>
                    IF TimedOut(t)' THEN status \in {"TIMEOUT", "QUEUED"}
                                    ELSE status \in {"COMPLETED", "QUEUED"}
               /\ run'[t].pc = "resolved" =>
                    status \in {"COMPLETED", "TIMEOUT", "QUEUED"}
  BY <1>2 DEF StoredInv
<1>4. ASSUME NEW e \in Executions, job'[e].state = "completed"
      PROVE  row'[e].status \in {"COMPLETED", "TIMEOUT", "QUEUED"}
  <2>1. job[e].state = "completed"
    BY <1>4, OtherStepKeeps
  <2> QED
    BY <2>1, OtherStepRow DEF StoredInv
<1> QED
  BY <1>3, <1>4 DEF StoredInv

(* The run of e has said all it will, successfully or in vain; a failure   *)
(* that took two faults in one attempt may have passed in silence.         *)
Won(e) ==
  \/ job[e].state = "completed"
  \/ \E s \in Slots : Runs(s, e) /\ run[s].pc = "resolved"

Gone(e) ==
  \/ job[e].state = "failed" /\ faults <= job[e].made
  \/ \E s \in Slots : Runs(s, e) /\ run[s].pc = "rejected" /\ faults <= job[e].made + 1

(* Then no run publishes anything more of it.                              *)
LEMMA NothingToSay ==
  ASSUME Calm, NEW e \in Executions, Won(e) \/ Gone(e),
         NEW s \in Slots, run[s].pc \notin {"idle", "resolved", "rejected"}
  PROVE  Exec(s) # e
BY DEF Calm, Won, Gone, Holds, Runs, Exec

(* The run that got there said so with its last event.                     *)
SpeaksLast(s, e, from, to) ==
  SlotStep(s) /\ Exec(s) = e /\ run[s].pc = from /\ run'[s].pc = to

LEMMA SlotStepEnds ==
  ASSUME PInv, Calm, FaultsPaid, NEW s \in Slots, SlotStep(s), NEW e \in Executions
  PROVE  /\ Won(e)' => Won(e) \/ SpeaksLast(s, e, "publish", "resolved")
         /\ Gone(e)' => Gone(e) \/ SpeaksLast(s, e, "publishFailed", "rejected")
         /\ Won(e) \/ Gone(e) => row'[e] = row[e]
<1>1. /\ SlotFrame(s) /\ JobFlow(s) /\ SlotFlow(s)
      /\ faults \in Nat /\ faults' \in {faults, faults + 1}
      /\ run \in [Slots -> Run] /\ job \in [Executions -> Job] /\ RunInv
      /\ Exec(s) \in Executions /\ job[e].made \in Nat
  BY SlotSteps DEF Steps, PInv, TypeOK, ExecutorTypeOK, QueueTypeOK, Job
<1>2. /\ Holds(Exec(s), s)
      /\ \A t \in Slots : t # s /\ run[t].pc # "idle" => run[t].exec # Exec(s)
  BY SlotStepCalm
<1>3. CASE e # Exec(s)
  <2>1. job'[e] = job[e] /\ row'[e] = row[e]
    BY <1>1, <1>3 DEF SlotFrame
  <2>2. \A t \in Slots : Runs(t, e)' => Runs(t, e) /\ run'[t] = run[t]
    BY <1>1, <1>3 DEF SlotFrame, Runs, Exec
  <2>3. Won(e)' => Won(e)
    BY <2>1, <2>2 DEF Won
  <2>4. Gone(e)' => Gone(e)
    BY <1>1, <2>1, <2>2 DEF Gone
  <2> QED
    BY <2>1, <2>3, <2>4
<1>4. CASE e = Exec(s)
  <2>1. \A t \in Slots : Runs(t, e)' => t = s
    BY <1>1, <1>2, <1>4 DEF SlotFrame, Runs, Exec
  <2>2. run[s].exec = e /\ run[s].pc # "idle" /\ Runs(s, e)
    BY <1>1, <1>4 DEF SlotFrame, Runs, Exec
  <2>3. worker[Host[s]] # "stopping"
    BY ExecutorAssumption DEF Calm
  <2>4. /\ run'[s].pc = "resolved" => run[s].pc = "publish"
        /\ run'[s].pc = "rejected" =>
             run[s].pc = "publishFailed" \/ (run[s].pc = "catch" /\ faults' = faults + 1)
        /\ run[s].pc \in {"resolved", "rejected"} => row'[e] = row[e]
    BY <1>1, <1>4, <2>3 DEF SlotFlow, MovesTo, Throws, Run, Idle
  <2>5. run'[s].pc \in {"resolved", "rejected"} => job'[e] = job[e]
    BY <1>1, <1>4 DEF JobFlow
  <2>6. run[s].pc = "catch" => job[e].made < faults
    BY <2>2 DEF FaultsPaid
  <2>7. job'[e].state = "completed" => run[s].pc = "resolved"
    BY <1>1, <1>2, <1>4 DEF JobFlow, Holds, MoveToFailed, Job
  <2>8. job'[e].state = "failed" =>
          run[s].pc = "rejected" /\ job'[e].made = job[e].made + 1
    BY <1>1, <1>2, <1>4 DEF JobFlow, Holds, MoveToCompleted, MoveToFailed, Job
  <2>9. Won(e)' => Won(e) \/ SpeaksLast(s, e, "publish", "resolved")
    BY <1>4, <2>1, <2>2, <2>4, <2>7 DEF Won, SpeaksLast
  <2>10. Gone(e)' => Gone(e) \/ SpeaksLast(s, e, "publishFailed", "rejected")
    <3>1. CASE job'[e].state = "failed" /\ faults' <= job'[e].made
      BY <1>1, <2>2, <2>8, <3>1 DEF Gone
    <3>2. CASE run'[s].pc = "rejected" /\ faults' <= job'[e].made + 1
      BY <1>1, <1>4, <2>4, <2>5, <2>6, <3>2 DEF SpeaksLast
    <3> QED
      BY <2>1, <3>1, <3>2 DEF Gone
  <2>11. Won(e) \/ Gone(e) => row'[e] = row[e]
    <3>1. \A t \in Slots : Runs(t, e) => t = s
      BY <1>2, <1>4 DEF Runs
    <3>2. job[e].state = "active"
      BY <1>2, <1>4 DEF Holds
    <3> QED
      BY <2>4, <3>1, <3>2 DEF Won, Gone
  <2> QED
    BY <2>9, <2>10, <2>11
<1> QED
  BY <1>3, <1>4

LEMMA OtherStepEnds ==
  ASSUME PInv, Calm, OtherStep, CalmOther, NEW e \in Executions
  PROVE  /\ Won(e)' => Won(e)
         /\ Gone(e)' => Gone(e)
         /\ Won(e) \/ Gone(e) => row'[e] = row[e] \/ row'[e].status = "QUEUED"
<1>1. /\ RunsBesides /\ RunInv /\ faults \in Nat /\ faults' \in {faults, faults + 1}
      /\ job[e].made \in Nat /\ job'[e].made = job[e].made
      /\ job'[e].state = "failed" => job[e].state = "failed"
      /\ job'[e].state = "completed" => job[e].state = "completed"
  BY OtherSteps, OtherStepKeeps, FaultsAssumption
  DEF PInv, TypeOK, QueueTypeOK, StoreTypeOK, Job, CalmOther
<1>2. ASSUME NEW t \in Slots, run'[t].pc \in {"resolved", "rejected"}
      PROVE  run'[t] = run[t]
  BY <1>1, <1>2, StartedRun DEF RunsBesides, Calm
<1>3. Won(e)' => Won(e)
  BY <1>1, <1>2 DEF Won, Runs
<1>4. Gone(e)' => Gone(e)
  BY <1>1, <1>2 DEF Gone, Runs
<1>5. Won(e) \/ Gone(e) => job[e].invoked > 0 \/ job[e].state # "absent"
  BY <1>1 DEF Won, Gone, Runs, RunInv
<1> QED
  BY <1>3, <1>4, <1>5, OtherStepRow

-----------------------------------------------------------------------------
(* What a client believes, once it heard all that is under way.            *)

HeardQuiet(c) == \A i \in 1..Len(heard[c]) : heard[c][i] = "log"

(* A client that heard nothing final goes by the status it read, or will   *)
(* read.                                                                   *)
Reaches(c, t, status) ==
  \/ Closes(wire, Watched[c], t)
  \/ /\ Quiet(wire, Watched[c])
     /\ HeardLast(c, t) \/ (HeardQuiet(c) /\ view[c] \in {None, status})

(* Before that it is the last word a worker's client has, and nothing but  *)
(* the last word can be sent again.                                        *)
Agrees(c, t, status) ==
  LET e == Watched[c] IN
    \/ \E w \in Workers : Closes(Queued(w), e, t)
    \/ /\ \A w \in Workers :
            /\ Quiet(Queued(w), e)
            /\ Quiet(Unanswered(w), e) \/ Closes(Unanswered(w), e, t)
       /\ Reaches(c, t, status)

Told(c, t, status) == row[Watched[c]].status = status => Agrees(c, t, status)

(* A client outside the rooms of its execution heard and read nothing, and *)
(* nobody is in a room of an execution whose request was not answered.     *)
JoinInv ==
  \A c \in Clients :
    /\ Targets(c, Watched[c]) = {} => Len(heard[c]) = 0 /\ view[c] = None
    /\ joined[c] # {} => route[Watched[c]] = "accepted"

AcceptedInv ==
  \A e \in Executions :
    route[e] \in {"enqueued", "accepted"} => job[e].state # "absent"

(* Steps of the gateway by what they do to one client.                     *)
Watches(c) ==
  \/ /\ heard'[c] = heard[c] /\ view'[c] = view[c]
     /\ joined[c] \subseteq joined'[c]
     /\ joined'[c] # joined[c] => route[Watched[c]] = "accepted"
  \/ /\ heard'[c] = heard[c] /\ joined'[c] = joined[c] /\ UNCHANGED row
     /\ Targets(c, Watched[c]) # {} /\ view'[c] = row[Watched[c]].status
  \/ heard'[c] = <<>> /\ view'[c] = None /\ joined'[c] \subseteq joined[c]

LEMMA WatchSteps ==
  ASSUME StreamTypeOK, [StreamNext]_streamVars
  PROVE  /\ \/ UNCHANGED <<heard, joined, view>>
            \/ Forward /\ UNCHANGED <<view, pubVars>>
            \/ /\ wire' = wire \/ lost'
               /\ UNCHANGED pubVars
               /\ \A c \in Clients : Watches(c)
         /\ lost => lost'
<1>1. /\ joined \in [Clients -> SUBSET Rooms] /\ heard \in [Clients -> Seq(Types)]
      /\ view \in [Clients -> Statuses \cup {None}]
  BY GatewayTypes DEF StreamTypeOK
<1>2. CASE UNCHANGED <<gatewayVars, view, lost>>
  BY <1>2 DEF gatewayVars
<1>3. ASSUME NEW s \in Slots, PublishStep(s)
      PROVE  UNCHANGED <<heard, joined, view>> /\ (lost => lost')
  BY <1>3 DEF PublishStep, gatewayVars
<1>4. ASSUME NEW w \in Workers, WorkerStep(w) \/ Transmit(w) \/ Swallow(w) \/ Resend(w)
      PROVE  UNCHANGED <<heard, joined, view>> /\ (lost => lost')
  <2>1. UNCHANGED <<heard, joined, view>>
    BY <1>4 DEF WorkerStep, Transmit, Deliver, Swallow, Resend, gatewayVars
  <2>2. CASE WorkerStep(w)
    <3>1. CASE worker'[w] = "down"
      BY <2>1, <2>2, <3>1 DEF WorkerStep, LostIf
    <3>2. CASE worker'[w] # "down"
      BY <2>1, <2>2, <3>2 DEF WorkerStep
    <3> QED
      BY <3>1, <3>2
  <2>3. CASE Transmit(w)
    BY <2>1, <2>3 DEF Transmit, LostIf
  <2>4. CASE Swallow(w)
    BY <2>1, <2>4 DEF Swallow, LostIf
  <2>5. CASE Resend(w)
    BY <2>1, <2>5 DEF Resend
  <2> QED
    BY <1>4, <2>2, <2>3, <2>4, <2>5
<1>5. ASSUME NEW c \in Clients, Read(c)
      PROVE  wire' = wire /\ UNCHANGED pubVars /\ (\A d \in Clients : Watches(d)) /\ (lost => lost')
  <2>1. /\ UNCHANGED <<gatewayVars, pubVars, lost, row>> /\ Targets(c, Watched[c]) # {}
        /\ view'[c] = row[Watched[c]].status
        /\ \A d \in Clients : d # c => view'[d] = view[d]
    BY <1>1, <1>5 DEF Read, vars
  <2> QED
    BY <2>1 DEF gatewayVars, Watches
<1>6. ASSUME NEW c \in Clients, SubscribeStep(c)
      PROVE  wire' = wire /\ UNCHANGED pubVars /\ (\A d \in Clients : Watches(d)) /\ (lost => lost')
  <2>1. /\ UNCHANGED <<wire, heard, view, lost, pubVars>> /\ route[Watched[c]] = "accepted"
        /\ joined[c] \subseteq joined'[c]
        /\ \A d \in Clients : d # c => joined'[d] = joined[d]
    BY <1>1, <1>6 DEF SubscribeStep, Subscribe
  <2> QED
    BY <2>1 DEF Watches
<1>7. ASSUME NEW c \in Clients, UnsubscribeStep(c)
      PROVE  wire' = wire /\ UNCHANGED pubVars /\ (\A d \in Clients : Watches(d)) /\ (lost => lost')
  <2>1. /\ UNCHANGED <<wire, lost, pubVars>> /\ heard'[c] = <<>> /\ view'[c] = None
        /\ joined'[c] \subseteq joined[c]
        /\ \A d \in Clients : d # c => joined'[d] = joined[d] /\ heard'[d] = heard[d]
                                       /\ view'[d] = view[d]
    BY <1>1, <1>7 DEF UnsubscribeStep, Unsubscribe
  <2> QED
    BY <2>1 DEF Watches
<1>8. CASE ForwardStep
  BY <1>8 DEF ForwardStep
<1>9. CASE LinkDownStep \/ LinkUpStep
  <2>1. /\ UNCHANGED <<heard, view, joined, pubVars>> /\ (lost => lost')
        /\ wire' = wire \/ lost'
    <3>1. CASE LinkDownStep
      <4>1. wire # <<>> => lost'
        BY <3>1 DEF LinkDownStep, LostIf
      <4> QED
        BY <3>1, <4>1 DEF LinkDownStep, LinkDown, LostIf
    <3>2. CASE LinkUpStep
      BY <3>2 DEF LinkUpStep, LinkUp
    <3> QED
      BY <1>9, <3>1, <3>2
  <2> QED
    BY <2>1 DEF Watches
<1>10. CASE RestartStep
  <2>1. \A c \in Clients : heard'[c] = <<>> /\ view'[c] = None /\ joined'[c] = {}
    BY <1>10 DEF RestartStep, Restart
  <2> QED
    BY <1>10, <2>1 DEF RestartStep, Restart, LostIf, Watches
<1> QED
  BY <1>2, <1>3, <1>4, <1>5, <1>6, <1>7, <1>8, <1>9, <1>10
  DEF StreamNext, streamVars, QuietStep

(* An answer stands, and it is given only once the job was added.          *)
LEMMA AcceptedStays ==
  ASSUME PInv, [Next]_vars, NEW e \in Executions, route[e] = "accepted"
  PROVE  route'[e] = "accepted"
<1>1. CASE \E s \in Slots : SlotStep(s)
  BY <1>1 DEF SlotStep
<1>2. CASE OtherStep
  BY <1>2, OtherStepKeeps
<1> QED
  BY <1>1, <1>2, StepIsSlotOrOther

LEMMA StepAccepted ==
  ASSUME PInv, AcceptedInv, [Next]_vars
  PROVE  AcceptedInv'
<1> SUFFICES ASSUME NEW e \in Executions, route'[e] \in {"enqueued", "accepted"},
                    job[e].state = "absent"
             PROVE  job'[e].state # "absent"
  BY NextBasics DEF AcceptedInv
<1>1. route \in [Executions -> RouteStates] /\ job \in [Executions -> Job]
  BY DEF PInv, TypeOK, RouteTypeOK, QueueTypeOK
<1>2. route[e] \notin {"enqueued", "accepted"}
  BY DEF AcceptedInv
<1>3. ASSUME NEW x \in Executions, RouteStep(x)
      PROVE  job'[e].state # "absent"
  <2>1. CASE CreateRow(x) \/ MarkQueued(x)
    BY <1>1, <1>2, <2>1 DEF CreateRow, MarkQueued, Goto
  <2>2. CASE Enqueue(x)
    BY <1>1, <1>2, <2>2 DEF Enqueue, Add, Goto, Job
  <2> QED
    BY <1>3, <2>1, <2>2 DEF RouteStep, Submit
<1>4. CASE UNCHANGED route
  BY <1>2, <1>4
<1>5. CASE ApiCrashStep
  BY <1>1, <1>2, <1>5 DEF ApiCrashStep, ApiCrash
<1> QED
  BY <1>3, <1>4, <1>5
  DEF Next, vars, SlotStep, FetchStep, QueueStep, LoseLockStep, ExitStep, BootStep,
      WorkerOutage

LEMMA StepJoin ==
  ASSUME PInv, StreamTypeOK, JoinInv, [StreamNext]_streamVars
  PROVE  JoinInv'
<1> SUFFICES ASSUME NEW c \in Clients, NEW e \in Executions, e = Watched[c]
             PROVE  /\ Targets(c, e)' = {} => Len(heard'[c]) = 0 /\ view'[c] = None
                    /\ joined'[c] # {} => route'[e] = "accepted"
  BY GatewayAssumption DEF JoinInv
<1>1. /\ Targets(c, e) = {} => Len(heard[c]) = 0 /\ view[c] = None
      /\ joined[c] # {} => route[e] = "accepted"
  BY DEF JoinInv
<1>2. joined[c] \subseteq joined'[c] => Targets(c, e) \subseteq Targets(c, e)'
  BY DEF Targets
<1>3. route[e] = "accepted" => route'[e] = "accepted"
  BY StreamStepIsStep, AcceptedStays
<1>4. CASE UNCHANGED <<heard, joined, view>>
  BY <1>1, <1>2, <1>3, <1>4
<1>5. CASE Forward /\ UNCHANGED view
  <2>1. UNCHANGED joined /\ Targets(c, e)' = Targets(c, e)
    BY <1>5 DEF Forward, Targets
  <2>2. Targets(c, e) = {} => Len(heard'[c]) = Len(heard[c])
    BY <1>5, Hearing DEF StreamTypeOK
  <2> QED
    BY <1>1, <1>3, <1>5, <2>1, <2>2
<1>6. CASE Watches(c)
  <2>1. Len(<<>>) = 0
    OBVIOUS
  <2>2. CASE heard'[c] = <<>> /\ view'[c] = None /\ joined'[c] \subseteq joined[c]
    BY <1>1, <1>3, <2>1, <2>2
  <2>3. CASE heard'[c] = heard[c] /\ joined[c] \subseteq joined'[c] /\ view'[c] = view[c]
             /\ (joined'[c] # joined[c] => route[e] = "accepted")
    BY <1>1, <1>2, <1>3, <2>3
  <2>4. CASE joined'[c] = joined[c] /\ Targets(c, e) # {}
    BY <1>1, <1>2, <1>3, <2>4
  <2> QED
    BY <1>6, <2>2, <2>3, <2>4 DEF Watches
<1> QED
  BY <1>4, <1>5, <1>6, WatchSteps

(* A message that is handed on brings a client nearer to its belief.       *)
LEMMA ForwardReaches ==
  ASSUME StreamTypeOK, JoinInv, Forward, UNCHANGED view,
         NEW c \in Clients, NEW t, NEW status, Reaches(c, t, status)
  PROVE  Reaches(c, t, status)'
<1> DEFINE e == Watched[c]
           L == Len(heard[c])
           m == Head(wire)
           r == Tail(wire)
<1>1. /\ GatewayTypeOK /\ wire \in Seq(Messages) /\ wire # <<>>
      /\ wire' = r /\ m = wire[1] /\ m \in Messages
  <2>1. GatewayTypeOK /\ wire \in Seq(Messages) /\ wire # <<>> /\ wire' = r
    BY GatewayTypes DEF StreamTypeOK, Forward
  <2> QED
    BY <2>1, HeadTailProperties
<1> HIDE DEF m, r
<1>2. PICK n \in Nat :
        /\ n # 0 <=> wire[1].exec = Watched[c] /\ Targets(c, Watched[c]) # {}
        /\ Len(heard[c]) \in Nat /\ Len(heard'[c]) = Len(heard[c]) + n
        /\ \A i \in 1..Len(heard[c]) : heard'[c][i] = heard[c][i]
        /\ \A i \in (Len(heard[c]) + 1)..(Len(heard[c]) + n) :
             heard'[c][i] = wire[1].type
  BY <1>1, Hearing
<1>3. /\ n # 0 <=> m.exec = e /\ Targets(c, e) # {}
      /\ L \in Nat /\ Len(heard'[c]) = L + n
      /\ \A i \in 1..L : heard'[c][i] = heard[c][i]
      /\ \A i \in (L + 1)..(L + n) : heard'[c][i] = m.type
  BY <1>1, <1>2
<1>4. /\ Quiet(wire, e) => Quiet(r, e) /\ ~IsFinal(m, e)
      /\ Closes(wire, e, t) => Closes(r, e, t) \/ (Says(m, e, t) /\ Quiet(r, e))
  BY <1>1, TailSays DEF m, r
<1>5. m.type \in Types
  BY <1>1, MessageType
<1>6. CASE Closes(r, e, t)
  BY <1>1, <1>6 DEF Reaches, Closes
<1>7. CASE Says(m, e, t) /\ Quiet(r, e)
  <2>1. CASE n # 0
    <3>1. /\ L + n \in 1..Len(heard'[c]) /\ heard'[c][L + n] = t
          /\ \A j \in (L + n + 1)..Len(heard'[c]) : heard'[c][j] = "log"
      BY <1>3, <1>7, <2>1 DEF Says
    <3> QED
      BY <1>1, <1>7, <3>1 DEF Reaches, HeardLast, Quiet
  <2>2. CASE n = 0
    <3>1. Len(heard[c]) = 0 /\ view[c] = None
      BY <1>3, <1>7, <2>2 DEF JoinInv, Says
    <3>2. HeardQuiet(c)' /\ view'[c] = None
      BY <1>3, <2>2, <3>1 DEF HeardQuiet
    <3> QED
      BY <1>1, <1>7, <3>2 DEF Reaches, Quiet
  <2> QED
    BY <1>3, <2>1, <2>2
<1>8. CASE Quiet(wire, e) /\ (HeardLast(c, t) \/ (HeardQuiet(c) /\ view[c] \in {None, status}))
  <2>1. \A i \in (L + 1)..Len(heard'[c]) : heard'[c][i] = "log"
    <3>1. n # 0 => m.type = "log"
      BY <1>3, <1>4, <1>5, <1>8 DEF IsFinal, Final, Types
    <3> QED
      BY <1>3, <3>1
  <2>2. HeardLast(c, t) => HeardLast(c, t)'
    <3> SUFFICES ASSUME NEW i \in 1..L, heard[c][i] = t,
                        \A j \in (i + 1)..L : heard[c][j] = "log"
                 PROVE  HeardLast(c, t)'
      BY DEF HeardLast
    <3>1. i \in 1..Len(heard'[c]) /\ heard'[c][i] = t
      BY <1>3
    <3>2. \A j \in (i + 1)..Len(heard'[c]) : heard'[c][j] = "log"
      BY <1>3, <2>1
    <3> QED
      BY <3>1, <3>2 DEF HeardLast
  <2>3. HeardQuiet(c) => HeardQuiet(c)'
    BY <1>3, <2>1 DEF HeardQuiet
  <2> QED
    BY <1>1, <1>4, <1>8, <2>2, <2>3 DEF Reaches, Quiet
<1> QED
  BY <1>4, <1>6, <1>7, <1>8 DEF Reaches

(* A message behind the others that says nothing final changes nothing.    *)
LEMMA DeliverReaches ==
  ASSUME StreamTypeOK, NEW m \in Message, Deliver(m.exec, m.type), UNCHANGED view,
         NEW c \in Clients, NEW t, NEW status
  PROVE  /\ Reaches(c, t, status) /\ ~IsFinal(m, Watched[c]) => Reaches(c, t, status)'
         /\ Says(m, Watched[c], t) /\ link /\ t \in Channels => Reaches(c, t, status)'
<1> DEFINE e == Watched[c]
           d == [exec |-> m.exec, type |-> m.type]
<1>1. wire \in Seq(Messages) /\ UNCHANGED heard
  BY GatewayTypes DEF StreamTypeOK, Deliver
<1>2. CASE link /\ m.type \in Channels
  <2>1. d \in Messages /\ d.exec = m.exec /\ d.type = m.type /\ wire' = Append(wire, d)
    BY <1>2 DEF Message, Messages, Channels, Types, Deliver
  <2>2. /\ IsFinal(d, e) => IsFinal(m, e)
        /\ Says(m, e, t) => Says(d, e, t)
    BY <2>1 DEF IsFinal, Says
  <2> HIDE DEF d
  <2>3. /\ Quiet(wire, e) /\ ~IsFinal(d, e) => Quiet(wire', e)
        /\ Closes(wire, e, t) /\ ~IsFinal(d, e) => Closes(wire', e, t)
        /\ Says(d, e, t) => Closes(wire', e, t)
    BY <1>1, <2>1, AppendSays
  <2>4. ASSUME Reaches(c, t, status), ~IsFinal(m, e)
        PROVE  Reaches(c, t, status)'
    BY <1>1, <2>2, <2>3, <2>4 DEF Reaches, Closes, Quiet, HeardLast, HeardQuiet
  <2>5. ASSUME Says(m, e, t)
        PROVE  Reaches(c, t, status)'
    BY <2>2, <2>3, <2>5 DEF Reaches, Closes
  <2> QED
    BY <2>4, <2>5
<1>3. CASE ~(link /\ m.type \in Channels)
  <2>1. UNCHANGED wire /\ ~(Says(m, e, t) /\ link /\ t \in Channels)
    BY <1>3 DEF Deliver, Says
  <2> QED
    BY <1>1, <2>1 DEF Reaches, Closes, Quiet, HeardLast, HeardQuiet
<1> QED
  BY <1>2, <1>3

LEMMA SameReaches ==
  ASSUME UNCHANGED <<wire, heard, view>>, NEW c, NEW t, NEW status,
         Reaches(c, t, status)
  PROVE  Reaches(c, t, status)'
BY DEF Reaches, Closes, Quiet, HeardLast, HeardQuiet

(* The wire only changes with a publisher, a handed-on or a lost message.  *)
LEMMA WireSteps ==
  ASSUME [StreamNext]_streamVars, ~\E w \in Workers : Transmit(w)
  PROVE  wire' = wire \/ lost' \/ (Forward /\ UNCHANGED view)
<1>1. CASE LinkDownStep \/ RestartStep
  <2>1. wire # <<>> => lost'
    BY <1>1 DEF LinkDownStep, RestartStep, LostIf
  <2>2. wire' = <<>>
    BY <1>1 DEF LinkDownStep, LinkDown, RestartStep, Restart
  <2> QED
    BY <2>1, <2>2
<1>2. CASE ForwardStep
  BY <1>2 DEF ForwardStep
<1>3. ASSUME NEW c \in Clients, Read(c) \/ SubscribeStep(c) \/ UnsubscribeStep(c)
      PROVE  wire' = wire
  BY <1>3 DEF Read, SubscribeStep, Subscribe, UnsubscribeStep, Unsubscribe, gatewayVars
<1>4. CASE LinkUpStep \/ QuietStep \/ UNCHANGED streamVars
  BY <1>4 DEF LinkUpStep, LinkUp, QuietStep, streamVars, gatewayVars
<1>5. ASSUME NEW s \in Slots, PublishStep(s)
      PROVE  wire' = wire
  BY <1>5 DEF PublishStep, gatewayVars
<1>6. ASSUME NEW w \in Workers, WorkerStep(w) \/ Swallow(w) \/ Resend(w)
      PROVE  wire' = wire
  BY <1>6 DEF WorkerStep, Swallow, Resend, gatewayVars
<1> QED
  BY <1>1, <1>2, <1>3, <1>4, <1>5, <1>6 DEF StreamNext

(* The gateway and the client's own steps.                                 *)
LEMMA GatewayReaches ==
  ASSUME StreamTypeOK, JoinInv, [StreamNext]_streamVars, UNCHANGED pubVars, ~lost',
         NEW c \in Clients, NEW t, NEW status, row[Watched[c]].status = status,
         ~\E w \in Workers : Transmit(w), Reaches(c, t, status)
  PROVE  Reaches(c, t, status)'
<1>1. CASE Forward /\ UNCHANGED view
  BY <1>1, ForwardReaches
<1>2. CASE UNCHANGED <<wire, heard, view>>
  BY <1>2, SameReaches
<1>3. CASE wire' = wire /\ Watches(c)
  <2>1. CASE heard'[c] = heard[c] /\ view'[c] \in {view[c], status}
    BY <1>3, <2>1 DEF Reaches, Closes, Quiet, HeardLast, HeardQuiet
  <2>2. CASE heard'[c] = <<>> /\ view'[c] = None
    <3>1. HeardQuiet(c)'
      BY <2>2 DEF HeardQuiet
    <3> QED
      BY <1>3, <2>2, <3>1 DEF Reaches, Closes, Quiet
  <2> QED
    BY <1>3, <2>1, <2>2 DEF Watches
<1>4. CASE UNCHANGED <<heard, joined, view>>
  <2>1. wire' = wire \/ lost' \/ Forward
    BY WatchSteps, WireSteps
  <2> QED
    BY <1>2, <1>4, <2>1, ForwardReaches
<1> QED
  BY <1>1, <1>3, <1>4, WatchSteps

(* A run that publishes of another execution, or says nothing final.       *)
LEMMA PublishAgrees ==
  ASSUME PInv, StreamTypeOK, NEW s \in Slots, PublishStep(s),
         NEW c \in Clients, Exec(s) # Watched[c],
         NEW t, NEW status, Agrees(c, t, status)
  PROVE  Agrees(c, t, status)'
<1> DEFINE e == Watched[c]
<1>1. PubTypeOK /\ UNCHANGED <<wire, heard, view>>
  BY DEF StreamTypeOK, PubTypeOK, PublishStep, gatewayVars
<1>2. Word(s) \in Message /\ ~IsFinal(Word(s), e)
  BY WordType DEF PublishStep, IsFinal
<1>3. ASSUME NEW w \in Workers
      PROVE  /\ Closes(Queued(w), e, t) => Closes(Queued(w)', e, t)
             /\ Quiet(Queued(w), e) => Quiet(Queued(w)', e)
             /\ Unanswered(w)' = Unanswered(w)
  <2>1. Queued(w) \in Seq(Message)
    BY <1>1, PubTypes
  <2>2. /\ Closes(Queued(w), e, t) => Closes(Append(Queued(w), Word(s)), e, t)
        /\ Quiet(Queued(w), e) => Quiet(Append(Queued(w), Word(s)), e)
    BY <1>2, <2>1, AppendSays
  <2> QED
    BY <1>1, <2>2, PublishEffect
<1>4. Reaches(c, t, status) => Reaches(c, t, status)'
  BY <1>1, SameReaches
<1> QED
  BY <1>3, <1>4 DEF Agrees, Closes, Quiet

(* The last word goes to Redis, or what goes to Redis is none.             *)
LEMMA TransmitAgrees ==
  ASSUME StreamTypeOK, VoiceInv, NEW w \in Workers, Transmit(w), ~lost',
         NEW c \in Clients, OneVoice(Watched[c]), NEW t \in Channels, NEW status,
         Agrees(c, t, status)
  PROVE  Agrees(c, t, status)'
<1> DEFINE e == Watched[c]
           m == Head(Queued(w))
<1>1. /\ PubTypeOK /\ UNCHANGED view /\ e \in Executions
      /\ m.type \in Channels => link
  BY GatewayAssumption
  DEF StreamTypeOK, PubTypeOK, Transmit, LostIf, Queued
<1>2. /\ Queued(w) # <<>> /\ m \in Message /\ Deliver(m.exec, m.type)
      /\ \A v \in Workers :
           /\ Queued(v)' = IF v = w THEN Tail(Queued(v)) ELSE Queued(v)
           /\ Unanswered(v)' = IF v = w THEN Append(Unanswered(v), Head(Queued(v)))
                                        ELSE Unanswered(v)
  BY <1>1, TransmitEffect
<1>3. Queued(w) \in Seq(Message) /\ Unanswered(w) \in Seq(Message)
  BY <1>1, PubTypes
<1>4. /\ Quiet(Queued(w), e) => Quiet(Tail(Queued(w)), e) /\ ~IsFinal(m, e)
      /\ Closes(Queued(w), e, t) =>
           Closes(Tail(Queued(w)), e, t) \/ (Says(m, e, t) /\ Quiet(Tail(Queued(w)), e))
  BY <1>2, <1>3, TailSays
<1>5. /\ Quiet(Unanswered(w), e) /\ ~IsFinal(m, e) => Quiet(Append(Unanswered(w), m), e)
      /\ Closes(Unanswered(w), e, t) /\ ~IsFinal(m, e) =>
           Closes(Append(Unanswered(w), m), e, t)
      /\ Says(m, e, t) => Closes(Append(Unanswered(w), m), e, t)
  BY <1>2, <1>3, AppendSays
<1>6. /\ Queued(w)' = Tail(Queued(w)) /\ Unanswered(w)' = Append(Unanswered(w), m)
      /\ \A v \in Workers : v # w =>
           Queued(v)' = Queued(v) /\ Unanswered(v)' = Unanswered(v)
  BY <1>2
<1>7. /\ Reaches(c, t, status) /\ ~IsFinal(m, e) => Reaches(c, t, status)'
      /\ Says(m, e, t) /\ link => Reaches(c, t, status)'
  BY <1>1, <1>2, DeliverReaches
<1> HIDE DEF m
<1>8. ASSUME NEW v \in Workers, Closes(Queued(v), e, t)
      PROVE  Agrees(c, t, status)'
  <2>1. CASE v # w
    BY <1>6, <1>8, <2>1 DEF Agrees, Closes
  <2>2. CASE v = w /\ Closes(Tail(Queued(w)), e, t)
    BY <1>6, <2>2 DEF Agrees, Closes
  <2>3. CASE v = w /\ Says(m, e, t) /\ Quiet(Tail(Queued(w)), e)
    <3>1. Reaches(c, t, status)'
      BY <1>1, <1>7, <2>3 DEF Says
    <3>2. ~Silent(Queued(w), e)
      BY <1>8, <2>3 DEF Closes, Says, Silent
    <3>3. ASSUME NEW x \in Workers
          PROVE  /\ Quiet(Queued(x)', e)
                 /\ Quiet(Unanswered(x)', e) \/ Closes(Unanswered(x)', e, t)
      <4>1. CASE x = w
        BY <1>5, <1>6, <2>3, <4>1
      <4>2. CASE x # w
        <5>1. Silent(Queued(x), e) /\ Silent(Unanswered(x), e)
          BY <1>1, <3>2, <4>2, OthersSilent
        <5>2. Quiet(Queued(x), e) /\ Quiet(Unanswered(x), e)
          BY <1>1, <5>1, PubTypes, SilentSays
        <5> QED
          BY <1>6, <4>2, <5>2
      <4> QED
        BY <4>1, <4>2
    <3> QED
      BY <3>1, <3>3 DEF Agrees, Quiet, Closes
  <2> QED
    BY <1>4, <1>8, <2>1, <2>2, <2>3
<1>9. ASSUME Reaches(c, t, status),
             \A v \in Workers :
               /\ Quiet(Queued(v), e)
               /\ Quiet(Unanswered(v), e) \/ Closes(Unanswered(v), e, t)
      PROVE  Agrees(c, t, status)'
  <2>1. ~IsFinal(m, e) /\ Reaches(c, t, status)'
    BY <1>4, <1>7, <1>9
  <2>2. ASSUME NEW v \in Workers
        PROVE  /\ Quiet(Queued(v)', e)
               /\ Quiet(Unanswered(v)', e) \/ Closes(Unanswered(v)', e, t)
    <3>1. CASE v = w
      BY <1>4, <1>5, <1>6, <1>9, <2>1, <3>1
    <3>2. CASE v # w
      BY <1>6, <1>9, <3>2
    <3> QED
      BY <3>1, <3>2
  <2> QED
    BY <2>1, <2>2 DEF Agrees, Quiet, Closes
<1> QED
  BY <1>8, <1>9 DEF Agrees

LEMMA SwallowAgrees ==
  ASSUME StreamTypeOK, NEW w \in Workers, Swallow(w), ~lost',
         NEW c \in Clients, NEW t \in Channels, NEW status, Agrees(c, t, status)
  PROVE  Agrees(c, t, status)'
<1> DEFINE e == Watched[c]
           m == Head(Queued(w))
<1>1. /\ PubTypeOK /\ UNCHANGED <<wire, heard, view>>
      /\ m.type \notin Channels
  BY DEF StreamTypeOK, PubTypeOK, Swallow, gatewayVars, LostIf, Queued
<1>2. /\ Queued(w) # <<>> /\ Queued(w) \in Seq(Message)
      /\ \A v \in Workers :
           /\ Queued(v)' = IF v = w THEN Tail(Queued(v)) ELSE Queued(v)
           /\ Unanswered(v)' = Unanswered(v)
  BY <1>1, SwallowEffect, PubTypes
<1>3. /\ Quiet(Queued(w), e) => Quiet(Tail(Queued(w)), e)
      /\ Closes(Queued(w), e, t) => Closes(Tail(Queued(w)), e, t) \/ Says(m, e, t)
  BY <1>2, TailSays
<1>4. ~Says(m, e, t)
  BY <1>1 DEF Says
<1>5. Reaches(c, t, status) => Reaches(c, t, status)'
  BY <1>1, SameReaches
<1>6. ASSUME NEW v \in Workers
      PROVE  /\ Closes(Queued(v), e, t) => Closes(Queued(v)', e, t)
             /\ Quiet(Queued(v), e) => Quiet(Queued(v)', e)
             /\ Unanswered(v)' = Unanswered(v)
  BY <1>2, <1>3, <1>4
<1> QED
  BY <1>5, <1>6 DEF Agrees, Closes, Quiet

(* What goes out again ends with the last word, or holds nothing final.    *)
LEMMA ResendAgrees ==
  ASSUME StreamTypeOK, NEW w \in Workers, Resend(w),
         NEW c \in Clients, NEW t, NEW status, Agrees(c, t, status)
  PROVE  Agrees(c, t, status)'
<1> DEFINE e == Watched[c]
<1>1. PubTypeOK /\ UNCHANGED <<wire, heard, view>>
  BY DEF StreamTypeOK, PubTypeOK, Resend
<1>2. PICK i \in 1..Len(Unanswered(w)) :
        /\ Again(w, i) \in Seq(Message)
        /\ \A v \in Workers :
             /\ Queued(v)' = IF v = w THEN Again(v, i) \o Queued(v) ELSE Queued(v)
             /\ Unanswered(v)' = IF v = w THEN <<>> ELSE Unanswered(v)
  BY <1>1, ResendEffect
<1>3. Queued(w) \in Seq(Message) /\ Unanswered(w) \in Seq(Message)
  BY <1>1, PubTypes
<1>4. /\ Quiet(Unanswered(w), e) => Quiet(Again(w, i), e)
      /\ Closes(Unanswered(w), e, t) => Closes(Again(w, i), e, t) \/ Quiet(Again(w, i), e)
  BY <1>3, SuffixSays DEF Again
<1> DEFINE r == Again(w, i) \o Queued(w)
<1>5. /\ Quiet(Again(w, i), e) /\ Quiet(Queued(w), e) => Quiet(r, e)
      /\ Closes(Queued(w), e, t) => Closes(r, e, t)
      /\ Closes(Again(w, i), e, t) /\ Quiet(Queued(w), e) => Closes(r, e, t)
  BY <1>2, <1>3, ConcatSays
<1>6. /\ Queued(w)' = r /\ Unanswered(w)' = <<>>
      /\ \A v \in Workers : v # w =>
           Queued(v)' = Queued(v) /\ Unanswered(v)' = Unanswered(v)
  BY <1>2
<1>7. Quiet(<<>>, e)
  BY EmptySays
<1>8. Reaches(c, t, status) => Reaches(c, t, status)'
  BY <1>1, SameReaches
<1> HIDE DEF r
<1>9. ASSUME NEW v \in Workers, Closes(Queued(v), e, t)
      PROVE  Agrees(c, t, status)'
  <2>1. Closes(Queued(v)', e, t)
    BY <1>5, <1>6, <1>9
  <2> QED
    BY <2>1 DEF Agrees, Closes
<1>10. ASSUME Reaches(c, t, status),
              \A v \in Workers :
                /\ Quiet(Queued(v), e)
                /\ Quiet(Unanswered(v), e) \/ Closes(Unanswered(v), e, t)
       PROVE  Agrees(c, t, status)'
  <2>1. CASE Closes(Again(w, i), e, t)
    <3>1. Closes(Queued(w)', e, t)
      BY <1>5, <1>6, <1>10, <2>1
    <3> QED
      BY <3>1 DEF Agrees, Closes
  <2>2. CASE Quiet(Again(w, i), e)
    <3>1. ASSUME NEW v \in Workers
          PROVE  /\ Quiet(Queued(v)', e)
                 /\ Quiet(Unanswered(v)', e) \/ Closes(Unanswered(v)', e, t)
      BY <1>5, <1>6, <1>7, <1>10, <2>2
    <3> QED
      BY <1>8, <1>10, <3>1 DEF Agrees, Quiet, Closes
  <2> QED
    BY <1>4, <1>10, <2>1, <2>2
<1> QED
  BY <1>9, <1>10 DEF Agrees

(* Without an outage no worker ends.                                       *)
LEMMA NoWorkerStep ==
  ASSUME Calm, outages = 0, outages' = 0, NEW w \in Workers
  PROVE  ~WorkerStep(w)
<1>1. worker[w] = "up"
  BY DEF Calm
<1>2. ~ExitStep(w) /\ ~BootStep(w)
  BY <1>1 DEF ExitStep, Exit, BootStep, Boot
<1>3. ~WorkerOutage(w)
  <2>1. ~Outage
    BY DEF Outage
  <2> QED
    BY <2>1 DEF WorkerOutage
<1> QED
  BY <1>2, <1>3 DEF WorkerStep

(* Nothing but a final event of its own changes what a client will         *)
(* believe, unless something is lost.                                      *)
LEMMA ToldStays ==
  ASSUME PInv, StreamTypeOK, VoiceInv, JoinInv, [StreamNext]_streamVars, ~lost',
         Calm, outages = 0, outages' = 0,
         NEW c \in Clients, OneVoice(Watched[c]),
         NEW t \in Channels, NEW status, status # "QUEUED", Told(c, t, status),
         \/ row'[Watched[c]] = row[Watched[c]]
         \/ row'[Watched[c]].status = "QUEUED",
         \A s \in Slots : Publishing(s) => Exec(s) # Watched[c]
  PROVE  Told(c, t, status)'
<1> SUFFICES ASSUME row'[Watched[c]].status = status
             PROVE  Agrees(c, t, status)'
  BY DEF Told
<1>1. row[Watched[c]].status = status /\ Agrees(c, t, status)
  BY DEF Told
<1>2. ASSUME NEW s \in Slots, PublishStep(s)
      PROVE  Agrees(c, t, status)'
  BY <1>1, <1>2, PublishAgrees DEF PublishStep
<1>3. ASSUME NEW w \in Workers, Transmit(w)
      PROVE  Agrees(c, t, status)'
  BY <1>1, <1>3, TransmitAgrees
<1>4. ASSUME NEW w \in Workers, Swallow(w)
      PROVE  Agrees(c, t, status)'
  BY <1>1, <1>4, SwallowAgrees
<1>5. ASSUME NEW w \in Workers, Resend(w)
      PROVE  Agrees(c, t, status)'
  BY <1>1, <1>5, ResendAgrees
<1>6. CASE UNCHANGED pubVars /\ ~\E w \in Workers : Transmit(w)
  <2>1. \A w \in Workers : Queued(w)' = Queued(w) /\ Unanswered(w)' = Unanswered(w)
    BY <1>6 DEF pubVars, Queued, Unanswered
  <2>2. Reaches(c, t, status) => Reaches(c, t, status)'
    BY <1>1, <1>6, GatewayReaches
  <2> QED
    BY <1>1, <2>1, <2>2 DEF Agrees, Closes, Quiet
<1> QED
  BY <1>2, <1>3, <1>4, <1>5, <1>6, NoWorkerStep, PubSteps

(* The last event of a run goes to its worker's client.                    *)
LEMMA LastWord ==
  ASSUME PInv, StreamTypeOK, [StreamNext]_streamVars,
         NEW s \in Slots, Publishing(s), run'[s].pc \in {"resolved", "rejected"}
  PROVE  PublishStep(s)
<1>1. run[s].pc \notin {"idle", "resolved", "rejected"}
  BY DEF Publishing
<1>2. ASSUME NEW t \in Slots, SlotStep(t)
      PROVE  t = s
  <2>1. SlotFrame(t)
    BY <1>2, SlotSteps DEF Steps
  <2> QED
    BY <1>1, <2>1 DEF SlotFrame
<1>3. ~OtherStep
  <2> SUFFICES ASSUME OtherStep PROVE FALSE
    OBVIOUS
  <2>1. RunsBesides
    BY OtherSteps
  <2> QED
    BY <1>1, <2>1, StartedRun DEF RunsBesides
<1>4. ~QuietStep
  BY <1>2, <1>3 DEF QuietStep, OtherStep
<1>5. ~UNCHANGED vars
  BY <1>3 DEF OtherStep
<1>6. \A w \in Workers : ~(WorkerStep(w) \/ Transmit(w) \/ Swallow(w) \/ Resend(w))
  BY <1>3, <1>5 DEF WorkerStep, OtherStep, Transmit, Swallow, Resend
<1>7. \E t \in Slots : PublishStep(t)
  BY <1>4, <1>5, <1>6 DEF StreamNext, streamVars, Read, SubscribeStep, UnsubscribeStep,
     ForwardStep, LinkDownStep, LinkUpStep, RestartStep
<1> QED
  BY <1>2, <1>7 DEF PublishStep

LEMMA LastWordTells ==
  ASSUME PInv, StreamTypeOK, NEW s \in Slots, PublishStep(s),
         NEW c \in Clients, Exec(s) = Watched[c], NEW t, EventOf(s) = t, NEW status
  PROVE  Agrees(c, t, status)'
<1> DEFINE e == Watched[c]
           w == Host[s]
<1>1. /\ PubTypeOK /\ w \in Workers /\ Word(s) \in Message
      /\ Says(Word(s), e, EventOf(s))
  BY ExecutorAssumption, WordType DEF StreamTypeOK, PubTypeOK, PublishStep, Says
<1>2. Queued(w) \in Seq(Message) /\ Queued(w)' = Append(Queued(w), Word(s))
  BY <1>1, PubTypes, PublishEffect
<1>3. Closes(Append(Queued(w), Word(s)), e, t)
  BY <1>1, <1>2, AppendSays
<1>4. Closes(Queued(w), e, t)'
  BY <1>2, <1>3 DEF Closes
<1> QED
  BY <1>1, <1>4 DEF Agrees

-----------------------------------------------------------------------------
(* Once the last word of an execution is said, every client is told or is  *)
(* going to read it.                                                       *)
LearnInv ==
  /\ StoredInv
  /\ \A c \in Clients :
       ~lost /\ OneVoice(Watched[c]) =>
         /\ Won(Watched[c]) => Told(c, "completed", "COMPLETED")
         /\ Gone(Watched[c]) => Told(c, "failed", "FAILED")

CalmLearnInv == outages = 0 => LearnInv

LEMMA StepLearn ==
  ASSUME PInv, Calm, FaultsPaid, outages = 0, outages' = 0, StreamTypeOK, VoiceInv,
         JoinInv, LearnInv, [StreamNext]_streamVars
  PROVE  LearnInv'
<1>1. [Next]_vars /\ (OtherStep \/ \E s \in Slots : SlotStep(s))
  BY StreamStepIsStep, StepIsSlotOrOther
<1>2. StoredInv'
  BY <1>1, SlotStepStored, OtherStepStored DEF LearnInv
<1> SUFFICES ASSUME NEW c \in Clients, NEW e \in Executions, e = Watched[c], ~lost',
                    OneVoice(e)'
             PROVE  /\ Won(e)' => Told(c, "completed", "COMPLETED")'
                    /\ Gone(e)' => Told(c, "failed", "FAILED")'
  BY <1>2, GatewayAssumption DEF LearnInv
<1>3. OneVoice(e)
  BY SingleBefore DEF StreamTypeOK, PubTypeOK
<1>4. /\ Won(e) => Told(c, "completed", "COMPLETED")
      /\ Gone(e) => Told(c, "failed", "FAILED")
  BY <1>3, WatchSteps DEF LearnInv
<1>5. Won(e) \/ Gone(e) => row'[e] = row[e] \/ row'[e].status = "QUEUED"
  BY <1>1, SlotStepEnds, OtherStepEnds, OtherStepCalm
<1>6. Won(e) \/ Gone(e) => \A s \in Slots : Publishing(s) => Exec(s) # e
  BY NothingToSay DEF Publishing
<1>7. /\ Won(e) => Told(c, "completed", "COMPLETED")'
      /\ Gone(e) => Told(c, "failed", "FAILED")'
  BY <1>3, <1>4, <1>5, <1>6, ToldStays DEF Channels
<1>8. ASSUME NEW s \in Slots, SpeaksLast(s, e, "publish", "resolved")
      PROVE  Told(c, "completed", "COMPLETED")'
  <2>1. /\ run[s].pc = "publish" /\ Publishing(s) /\ run'[s].pc = "resolved"
        /\ run[s].exec = e /\ Exec(s) = e
    BY <1>8 DEF SpeaksLast, Publishing, Exec
  <2>2. row'[e] = row[e]
    BY <1>8, <2>1, SlotSteps DEF SpeaksLast, Steps, SlotFlow
  <2>3. CASE TimedOut(s)
    <3>1. row[e].status \in {"TIMEOUT", "QUEUED"}
      BY <2>1, <2>3 DEF LearnInv, StoredInv
    <3> QED
      BY <2>2, <3>1 DEF Told
  <2>4. CASE ~TimedOut(s)
    <3>1. EventOf(s) = "completed" /\ PublishStep(s)
      BY <2>1, <2>4, LastWord DEF EventOf
    <3> QED
      BY <2>1, <3>1, LastWordTells DEF Told
  <2> QED
    BY <2>3, <2>4
<1>9. ASSUME NEW s \in Slots, SpeaksLast(s, e, "publishFailed", "rejected")
      PROVE  Told(c, "failed", "FAILED")'
  <2>1. /\ run[s].pc = "publishFailed" /\ Publishing(s) /\ run'[s].pc = "rejected"
        /\ Exec(s) = e
    BY <1>9 DEF SpeaksLast, Publishing
  <2>2. EventOf(s) = "failed" /\ PublishStep(s)
    BY <2>1, LastWord DEF EventOf
  <2> QED
    BY <2>1, <2>2, LastWordTells DEF Told
<1>10. CASE OtherStep
  BY <1>7, <1>10, OtherStepEnds, OtherStepCalm
<1>11. CASE \E s \in Slots : SlotStep(s)
  BY <1>7, <1>8, <1>9, <1>11, SlotStepEnds
<1> QED
  BY <1>1, <1>10, <1>11

(* A client does not believe both.                                         *)
LEMMA OneIsLast ==
  ASSUME NEW c \in Clients
  PROVE  ~(HeardLast(c, "completed") /\ HeardLast(c, "failed"))
<1> SUFFICES ASSUME NEW i \in 1..Len(heard[c]), heard[c][i] = "failed",
                    \A k \in (i + 1)..Len(heard[c]) : heard[c][k] = "log",
                    NEW j \in 1..Len(heard[c]), heard[c][j] = "completed",
                    \A k \in (j + 1)..Len(heard[c]) : heard[c][k] = "log"
             PROVE  FALSE
  BY DEF HeardLast
<1>1. i = j \/ j \in (i + 1)..Len(heard[c]) \/ i \in (j + 1)..Len(heard[c])
  OBVIOUS
<1> QED
  BY <1>1

(* What the invariants say once all is settled and heard.                  *)
LEMMA SettledIsLearnt ==
  ASSUME PInv, CalmInv, AcceptedInv, JoinInv, CalmLearnInv
  PROVE  LearnsOutcome
<1> SUFFICES ASSUME NEW c \in Clients, NEW e \in Executions, e = Watched[c],
                    Settled(e), wire = <<>>, view[c] # None, ~lost, outages = 0,
                    \A w \in Workers : redisPub[w].queued = <<>>,
                    OneVoice(e), faults <= Attempts
             PROVE  row[e].status \in {Believed(c), "TIMEOUT", "QUEUED"}
  BY GatewayAssumption DEF LearnsOutcome
<1>1. Calm /\ FaultsPaid /\ LearnInv
  BY DEF CalmInv, CalmLearnInv
<1>2. job[e].state # "absent"
  <2>1. joined[c] # {}
    BY DEF JoinInv, Targets
  <2> QED
    BY <2>1 DEF JoinInv, AcceptedInv
<1>3. \A t, status : Agrees(c, t, status) =>
        HeardLast(c, t) \/ (HeardQuiet(c) /\ view[c] = status)
  BY EmptySays DEF Agrees, Reaches, Queued
<1>4. CASE job[e].state = "completed"
  <2>1. row[e].status \in {"COMPLETED", "TIMEOUT", "QUEUED"} /\ Won(e)
    BY <1>1, <1>4 DEF LearnInv, StoredInv, Won
  <2>2. row[e].status = "COMPLETED" =>
          HeardLast(c, "completed") \/ (HeardQuiet(c) /\ view[c] = "COMPLETED")
    BY <1>1, <1>3, <2>1 DEF LearnInv, Told
  <2>3. HeardQuiet(c) => ~HeardLast(c, "completed") /\ ~HeardLast(c, "failed")
    BY DEF HeardQuiet, HeardLast
  <2>4. row[e].status = "COMPLETED" => Believed(c) = "COMPLETED"
    BY <2>2, <2>3, OneIsLast DEF Believed
  <2> QED
    BY <2>1, <2>4
<1>5. CASE job[e].state = "failed"
  <2>1. job[e].made \in Nat /\ faults \in Nat /\ Attempts \in Nat
    BY FaultsAssumption, QueueAssumption
    DEF PInv, TypeOK, QueueTypeOK, StoreTypeOK, Job
  <2>2. Attempts <= job[e].made /\ (Shown(e) \/ job[e].made < faults)
    BY <1>1, <1>5 DEF FaultsPaid
  <2>3. Shown(e) /\ Gone(e)
    BY <1>5, <2>1, <2>2 DEF Gone
  <2>4. row[e].status = "FAILED" =>
          HeardLast(c, "failed") \/ (HeardQuiet(c) /\ view[c] = "FAILED")
    BY <1>1, <1>3, <2>3 DEF LearnInv, Told
  <2>5. HeardQuiet(c) => ~HeardLast(c, "completed") /\ ~HeardLast(c, "failed")
    BY DEF HeardQuiet, HeardLast
  <2>6. ~(HeardLast(c, "completed") /\ HeardLast(c, "failed"))
    BY OneIsLast
  <2>7. row[e].status = "FAILED" => Believed(c) = "FAILED"
    BY <2>4, <2>5, <2>6 DEF Believed
  <2> QED
    BY <2>3, <2>7 DEF Shown
<1> QED
  BY <1>2, <1>4, <1>5 DEF Settled, Finished

(* A client that joined and then read the row believes in the end what the *)
(* row says, unless a message was lost or several workers published: whatever  *)
(* was published late or again, whatever attempts failed and calls threw   *)
(* in between, for any number of clients, rooms and executions.  The       *)
(* exceptions are the timeout, which has no channel, and the late QUEUED.  *)
THEOREM OutcomeIsLearnt == StreamSpec => []LearnsOutcome
<1>1. StreamSpec => []PInv
  BY StreamingUsesPipeline, PipelineInvariant, PTL
<1>2. StreamInit => CalmInv /\ AcceptedInv /\ JoinInv /\ CalmLearnInv
  <2> SUFFICES ASSUME StreamInit
               PROVE  CalmInv /\ AcceptedInv /\ JoinInv /\ LearnInv
    BY DEF CalmLearnInv
  <2>1. CalmInv
    BY InitCalm DEF StreamInit
  <2>2. AcceptedInv
    BY DEF StreamInit, Init, RouteInit, AcceptedInv
  <2>3. JoinInv
    BY DEF StreamInit, GatewayInit, JoinInv
  <2>4. /\ \A s \in Slots : run[s].pc = "idle"
        /\ \A e \in Executions : job[e].state = "absent"
    BY DEF StreamInit, Init, ExecutorInit, Idle, QueueInit, NoJob
  <2>5. StoredInv
    BY <2>4 DEF StoredInv
  <2>6. \A e \in Executions : ~Won(e) /\ ~Gone(e)
    BY <2>4 DEF Won, Gone
  <2> QED
    BY <2>1, <2>2, <2>3, <2>5, <2>6, GatewayAssumption DEF LearnInv
<1>3. PInv /\ CalmInv /\ [StreamNext]_streamVars => CalmInv'
  BY StreamStepIsStep, StepCalm
<1>4. PInv /\ AcceptedInv /\ [StreamNext]_streamVars => AcceptedInv'
  BY StreamStepIsStep, StepAccepted
<1>5. PInv /\ StreamTypeOK /\ JoinInv /\ [StreamNext]_streamVars => JoinInv'
  BY StepJoin
<1>6. PInv /\ StreamTypeOK /\ CalmInv /\ VoiceInv /\ JoinInv /\ CalmLearnInv
        /\ [StreamNext]_streamVars => CalmLearnInv'
  BY StreamStepIsStep, OutagesStay, StepLearn DEF CalmInv, CalmLearnInv
<1>7. StreamInit => VoiceInv
  BY InitStream DEF StreamInv
<1>8. PInv /\ StreamTypeOK /\ VoiceInv /\ [StreamNext]_streamVars => VoiceInv'
  BY StepVoice DEF StreamTypeOK, PubTypeOK
<1>9. PInv /\ CalmInv /\ AcceptedInv /\ JoinInv /\ CalmLearnInv => LearnsOutcome
  BY SettledIsLearnt
<1> QED
  BY <1>1, <1>2, <1>3, <1>4, <1>5, <1>6, <1>9, <1>7, <1>8,
     StreamTypeCorrect, PTL DEF StreamSpec
=============================================================================
