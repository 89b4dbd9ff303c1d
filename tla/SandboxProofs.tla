---------------------------- MODULE SandboxProofs ----------------------------
(***************************************************************************)
(* The sandbox for every number of concurrent calls and any amount of      *)
(* output.                                                                 *)
(***************************************************************************)
EXTENDS Sandbox, TLAPS

-----------------------------------------------------------------------------
(* The inductive invariant: where the container, its output, the result    *)
(* and the workspace of a call are at each of its awaits.                  *)

BoxInv(c) ==
  /\ call[c].pc \in {"idle", "prepare", "inspect", "pull", "create"} =>
       box[c].state = "none"
  /\ call[c].pc = "start" => box[c].state = "created"
  /\ call[c].pc \in {"attach", "race", "wait"} => box[c].state \in {"running", "exited"}
  /\ call[c].pc = "remove" => box[c].state = "exited"

OutputInv(c) ==
  /\ call[c].pc = "race" => call[c].missed <= box[c].written
  /\ call[c].pc \in {"wait", "remove"} =>
       \/ call[c].cut
       \/ /\ box[c].state = "exited"
          /\ call[c].heard + call[c].missed = box[c].written

ResultInv(c) ==
  /\ call[c].pc \in {"cleanup", "returned"} <=> call[c].result # "none"
  /\ call[c].result = "output" =>
       /\ box[c].state = "removed"
       /\ call[c].cut \/ call[c].heard + call[c].missed = box[c].written

DirInv(c) ==
  /\ call[c].pc \in {"inspect", "pull", "create", "start", "attach", "race", "wait",
                     "remove"} => dir[c]
  /\ call[c].pc = "cleanup" => box[c].state = "none" \/ dir[c]

ImageInv(c) == call[c].pc = "create" => image

CallInv(c) == BoxInv(c) /\ OutputInv(c) /\ ResultInv(c) /\ DirInv(c) /\ ImageInv(c)

SandboxInv == TypeOK /\ \A c \in Calls : CallInv(c)

LEMMA InitSandboxInv == Init => SandboxInv
  BY MaxOutputAssumption DEF Init, SandboxInv, TypeOK, Call, Box, PCs, CallInv, BoxInv,
     OutputInv, ResultInv, DirInv, ImageInv

-----------------------------------------------------------------------------
(* What one step may do.                                                   *)

(* A step of one call or of its program touches no other call, and no step *)
(* takes the image away.                                                   *)
Alone(c) ==
  /\ \A d \in Calls : d # c =>
       call'[d] = call[d] /\ box'[d] = box[d] /\ (dir[d] => dir'[d])
  /\ image => image'

(* For the others the invariant survives such a step.                      *)
LEMMA OthersKeep ==
  ASSUME NEW c \in Calls, Alone(c), \A d \in Calls : CallInv(d), CallInv(c)'
  PROVE  \A d \in Calls : CallInv(d)'
<1> SUFFICES ASSUME NEW d \in Calls, d # c
             PROVE  CallInv(d)'
  OBVIOUS
<1>1. call'[d] = call[d] /\ box'[d] = box[d] /\ (dir[d] => dir'[d]) /\ (image => image')
  BY DEF Alone
<1>2. CallInv(d)
  OBVIOUS
<1> QED
  BY <1>1, <1>2 DEF CallInv, BoxInv, OutputInv, ResultInv, DirInv, ImageInv

Kept(c) == TypeOK' /\ Alone(c) /\ CallInv(c)'

(* What a call still knows after it moved.                                 *)
Remembers(c) ==
  /\ call'[c].missed = call[c].missed /\ call'[c].heard = call[c].heard
  /\ call'[c].cut <=> call[c].cut

(* A move of one call, with the types it keeps.                            *)
CallMoves(c, from, to, res) ==
  /\ call' \in [Calls -> Call]
  /\ \A d \in Calls : d # c => call'[d] = call[d]
  /\ call[c].pc = from /\ call'[c].pc = to /\ call'[c].result = res
  /\ Remembers(c)

LEMMA Jumps ==
  ASSUME TypeOK, NEW c \in Calls, NEW from, NEW to \in PCs, Jump(c, from, to)
  PROVE  CallMoves(c, from, to, call[c].result)
  BY DEF TypeOK, Call, Jump, CallMoves, Remembers

LEMMA Leaves ==
  ASSUME TypeOK, NEW c \in Calls, NEW from,
         NEW res \in {"none", "output", "timeout", "error"}, Leave(c, from, res)
  PROVE  CallMoves(c, from, "cleanup", res)
  BY DEF TypeOK, Call, PCs, Leave, CallMoves, Remembers

BoxMoves(c, st) ==
  /\ box' \in [Calls -> Box]
  /\ \A d \in Calls : d # c => box'[d] = box[d]
  /\ box'[c].state = st /\ box'[c].written = box[c].written

LEMMA BoxBecomes ==
  ASSUME TypeOK, NEW c \in Calls,
         NEW st \in {"none", "created", "running", "exited", "removed", "killed"},
         Becomes(c, st)
  PROVE  BoxMoves(c, st)
  BY DEF TypeOK, Box, Becomes, BoxMoves

(* A move of the workspace.                                                *)
LEMMA DirMoves ==
  ASSUME TypeOK, NEW c \in Calls, NEW made \in BOOLEAN,
         dir' = [dir EXCEPT ![c] = made]
  PROVE  /\ dir' \in [Calls -> BOOLEAN]
         /\ \A d \in Calls : d # c => (dir[d] => dir'[d])
         /\ made => dir'[c]
  BY DEF TypeOK

(* The calls before the container exists.                                  *)
LEMMA SetupKeeps ==
  ASSUME TypeOK, NEW c \in Calls, CallInv(c),
         Invoke(c) \/ Prepare(c) \/ Inspect(c) \/ Pull(c)
  PROVE  Kept(c)
<1> USE DEF PCs
<1>1. CASE Invoke(c)
  <2>1. CallMoves(c, "idle", "prepare", call[c].result) /\ UNCHANGED <<box, dir, image>>
    BY <1>1, Jumps DEF Invoke
  <2>2. TypeOK' /\ Alone(c)
    BY <2>1 DEF CallMoves, TypeOK, Alone
  <2>3. CallInv(c)'
    BY <2>1 DEF CallMoves, CallInv, BoxInv, OutputInv, ResultInv, DirInv, ImageInv
  <2> QED
    BY <2>2, <2>3 DEF Kept
<1>2. CASE Prepare(c)
  <2>1. UNCHANGED <<box, image>>
    BY <1>2 DEF Prepare
  <2>2. PICK made \in BOOLEAN :
          /\ dir' = [dir EXCEPT ![c] = made]
          /\ \/ CallMoves(c, "prepare", "inspect", call[c].result) /\ made
             \/ CallMoves(c, "prepare", "cleanup", "error")
    BY <1>2, Jumps, Leaves DEF Prepare
  <2>3. /\ dir' \in [Calls -> BOOLEAN]
        /\ \A d \in Calls : d # c => (dir[d] => dir'[d])
        /\ made => dir'[c]
    BY <2>2, DirMoves
  <2>4. TypeOK' /\ Alone(c)
    BY <2>1, <2>2, <2>3 DEF CallMoves, TypeOK, Alone
  <2>5. CallInv(c)'
    BY <2>1, <2>2, <2>3
    DEF CallMoves, CallInv, BoxInv, OutputInv, ResultInv, DirInv, ImageInv
  <2> QED
    BY <2>4, <2>5 DEF Kept
<1>3. CASE Inspect(c)
  <2>1. /\ UNCHANGED <<box, dir, image>>
        /\ \/ image /\ CallMoves(c, "inspect", "create", call[c].result)
           \/ CallMoves(c, "inspect", "pull", call[c].result)
    BY <1>3, Jumps DEF Inspect
  <2>2. TypeOK' /\ Alone(c)
    BY <2>1 DEF CallMoves, TypeOK, Alone
  <2>3. CallInv(c)'
    BY <2>1 DEF CallMoves, CallInv, BoxInv, OutputInv, ResultInv, DirInv, ImageInv
  <2> QED
    BY <2>2, <2>3 DEF Kept
<1>4. CASE Pull(c)
  <2>1. /\ UNCHANGED <<box, dir>>
        /\ \/ image' = TRUE /\ CallMoves(c, "pull", "create", call[c].result)
           \/ image' = image /\ CallMoves(c, "pull", "cleanup", "error")
    BY <1>4, Jumps, Leaves DEF Pull
  <2>2. TypeOK' /\ Alone(c)
    BY <2>1 DEF CallMoves, TypeOK, Alone
  <2>3. CallInv(c)'
    BY <2>1 DEF CallMoves, CallInv, BoxInv, OutputInv, ResultInv, DirInv, ImageInv
  <2> QED
    BY <2>2, <2>3 DEF Kept
<1> QED
  BY <1>1, <1>2, <1>3, <1>4

(* The calls that make the container run.                                  *)
LEMMA LaunchKeeps ==
  ASSUME TypeOK, NEW c \in Calls, CallInv(c), Create(c) \/ Start(c) \/ Attach(c)
  PROVE  Kept(c)
<1> USE DEF PCs
<1>1. CASE Create(c)
  <2>1. /\ UNCHANGED <<dir, image>>
        /\ \/ /\ CallMoves(c, "create", "start", call[c].result)
              /\ BoxMoves(c, "created")
           \/ /\ CallMoves(c, "create", "cleanup", "error")
              /\ UNCHANGED box \/ BoxMoves(c, "created")
    BY <1>1, Jumps, Leaves, BoxBecomes DEF Create, Request
  <2>2. TypeOK' /\ Alone(c)
    BY <2>1 DEF CallMoves, BoxMoves, TypeOK, Alone
  <2>3. CallInv(c)'
    BY <2>1
    DEF CallMoves, BoxMoves, CallInv, BoxInv, OutputInv, ResultInv, DirInv, ImageInv
  <2> QED
    BY <2>2, <2>3 DEF Kept
<1>2. CASE Start(c)
  <2>1. /\ UNCHANGED <<dir, image>>
        /\ \/ /\ CallMoves(c, "start", "attach", call[c].result)
              /\ BoxMoves(c, "running")
           \/ /\ CallMoves(c, "start", "cleanup", "error")
              /\ UNCHANGED box \/ BoxMoves(c, "running")
    BY <1>2, Jumps, Leaves, BoxBecomes DEF Start, Request
  <2>2. TypeOK' /\ Alone(c)
    BY <2>1 DEF CallMoves, BoxMoves, TypeOK, Alone
  <2>3. CallInv(c)'
    BY <2>1
    DEF CallMoves, BoxMoves, CallInv, BoxInv, OutputInv, ResultInv, DirInv, ImageInv
  <2> QED
    BY <2>2, <2>3 DEF Kept
<1>3. CASE Attach(c)
  <2>1. UNCHANGED <<box, dir, image>>
    BY <1>3 DEF Attach
  <2>2. CASE /\ call[c].pc = "attach"
             /\ call' = [call EXCEPT ![c].pc = "race", ![c].missed = box[c].written]
    <3>1. box[c].written \in 0..MaxOutput
      BY DEF TypeOK, Box
    <3>2. /\ call' \in [Calls -> Call] /\ \A d \in Calls : d # c => call'[d] = call[d]
          /\ call'[c].pc = "race" /\ call'[c].missed = box[c].written
          /\ call'[c].result = call[c].result
      BY <2>2, <3>1 DEF TypeOK, Call
    <3>3. TypeOK' /\ Alone(c)
      BY <2>1, <3>2 DEF TypeOK, Alone
    <3>4. CallInv(c)'
      BY <2>1, <2>2, <3>1, <3>2
      DEF CallInv, BoxInv, OutputInv, ResultInv, DirInv, ImageInv
    <3> QED
      BY <3>3, <3>4 DEF Kept
  <2>3. CASE Leave(c, "attach", "error")
    <3>1. CallMoves(c, "attach", "cleanup", "error")
      BY <2>3, Leaves
    <3>2. TypeOK' /\ Alone(c)
      BY <2>1, <3>1 DEF CallMoves, TypeOK, Alone
    <3>3. CallInv(c)'
      BY <2>1, <3>1 DEF CallMoves, CallInv, BoxInv, OutputInv, ResultInv, DirInv, ImageInv
    <3> QED
      BY <3>2, <3>3 DEF Kept
  <2> QED
    BY <1>3, <2>2, <2>3 DEF Attach
<1> QED
  BY <1>1, <1>2, <1>3

(* The end of the stream, its failures and the timer.                      *)
LEMMA RaceKeeps ==
  ASSUME TypeOK, NEW c \in Calls, CallInv(c),
         StreamEnd(c) \/ StreamCut(c) \/ StreamError(c) \/ Timer(c)
  PROVE  Kept(c)
<1> USE DEF PCs
<1>1. UNCHANGED <<box, dir, image>> /\ call[c].pc = "race"
  BY DEF StreamEnd, StreamCut, StreamError, Timer, Leave
<1>2. CASE StreamEnd(c) \/ StreamCut(c)
  <2>1. /\ box[c].written \in 0..MaxOutput /\ call[c].missed \in 0..MaxOutput
        /\ call[c].missed <= box[c].written
    BY <1>1 DEF TypeOK, Box, Call, CallInv, OutputInv
  <2>2. box[c].written - call[c].missed \in 0..MaxOutput
    BY <2>1, MaxOutputAssumption
  <2>3. /\ call' \in [Calls -> Call] /\ \A d \in Calls : d # c => call'[d] = call[d]
        /\ call'[c].pc = "wait" /\ call'[c].missed = call[c].missed
        /\ call'[c].heard = box[c].written - call[c].missed
        /\ call'[c].result = call[c].result
        /\ call'[c].cut \/ box[c].state = "exited"
    <3>1. CASE StreamEnd(c)
      BY <2>2, <3>1 DEF StreamEnd, TypeOK, Call
    <3>2. CASE StreamCut(c)
      BY <2>2, <3>2 DEF StreamCut, TypeOK, Call
    <3> QED
      BY <1>2, <3>1, <3>2
  <2>4. TypeOK' /\ Alone(c)
    BY <1>1, <2>3 DEF TypeOK, Alone
  <2>5. call'[c].heard + call'[c].missed = box[c].written
    BY <2>1, <2>3
  <2>6. CallInv(c)'
    BY <1>1, <2>3, <2>5 DEF CallInv, BoxInv, OutputInv, ResultInv, DirInv, ImageInv
  <2> QED
    BY <2>4, <2>6 DEF Kept
<1>3. CASE StreamError(c) \/ Timer(c)
  <2>1. PICK res \in {"error", "timeout"} : CallMoves(c, "race", "cleanup", res)
    BY <1>3, Leaves DEF StreamError, Timer
  <2>2. TypeOK' /\ Alone(c)
    BY <1>1, <2>1 DEF CallMoves, TypeOK, Alone
  <2>3. CallInv(c)'
    BY <1>1, <2>1 DEF CallMoves, CallInv, BoxInv, OutputInv, ResultInv, DirInv, ImageInv
  <2> QED
    BY <2>2, <2>3 DEF Kept
<1> QED
  BY <1>2, <1>3

(* The calls after the stream.                                             *)
LEMMA EndKeeps ==
  ASSUME TypeOK, NEW c \in Calls, CallInv(c),
         Wait(c) \/ WaitError(c) \/ Remove(c) \/ Cleanup(c)
  PROVE  Kept(c)
<1> USE DEF PCs
<1>1. CASE Wait(c) \/ WaitError(c)
  <2>1. /\ UNCHANGED <<box, dir, image>>
        /\ \/ /\ CallMoves(c, "wait", "remove", call[c].result)
              /\ box[c].state = "exited"
           \/ CallMoves(c, "wait", "cleanup", "error")
    BY <1>1, Jumps, Leaves DEF Wait, WaitError
  <2>2. TypeOK' /\ Alone(c)
    BY <2>1 DEF CallMoves, TypeOK, Alone
  <2>3. CallInv(c)'
    BY <2>1 DEF CallMoves, Remembers, CallInv, BoxInv, OutputInv, ResultInv, DirInv, ImageInv
  <2> QED
    BY <2>2, <2>3 DEF Kept
<1>2. CASE Remove(c)
  <2>1. box[c].state = "exited"
    BY <1>2 DEF Remove, Leave, CallInv, BoxInv
  <2>2. /\ UNCHANGED <<dir, image>>
        /\ \/ CallMoves(c, "remove", "cleanup", "output") /\ BoxMoves(c, "removed")
           \/ /\ CallMoves(c, "remove", "cleanup", "error")
              /\ UNCHANGED box \/ BoxMoves(c, "removed")
    BY <1>2, <2>1, Leaves, BoxBecomes DEF Remove
  <2>3. TypeOK' /\ Alone(c)
    BY <2>2 DEF CallMoves, BoxMoves, TypeOK, Alone
  <2>4. CallInv(c)'
    BY <2>2 DEF CallMoves, BoxMoves, Remembers, CallInv, BoxInv, OutputInv, ResultInv,
       DirInv, ImageInv
  <2> QED
    BY <2>3, <2>4 DEF Kept
<1>3. CASE Cleanup(c)
  <2>1. UNCHANGED <<box, image>> /\ CallMoves(c, "cleanup", "returned", call[c].result)
    BY <1>3, Jumps DEF Cleanup
  <2>2. PICK kept \in BOOLEAN : dir' = [dir EXCEPT ![c] = dir[c] /\ kept]
    BY <1>3 DEF Cleanup
  <2>3. (dir[c] /\ kept) \in BOOLEAN
    OBVIOUS
  <2>4. /\ dir' \in [Calls -> BOOLEAN]
        /\ \A d \in Calls : d # c => (dir[d] => dir'[d])
    BY <2>2, <2>3, DirMoves
  <2>5. TypeOK' /\ Alone(c)
    BY <2>1, <2>4 DEF CallMoves, TypeOK, Alone
  <2>6. CallInv(c)'
    BY <2>1 DEF CallMoves, Remembers, CallInv, BoxInv, OutputInv, ResultInv, DirInv, ImageInv
  <2> QED
    BY <2>5, <2>6 DEF Kept
<1> QED
  BY <1>1, <1>2, <1>3

(* The program: it writes, and it ends, only while its container runs.     *)
LEMMA ProgramKeeps ==
  ASSUME TypeOK, NEW c \in Calls, CallInv(c), WriteOutput(c) \/ ProgramExit(c)
  PROVE  Kept(c)
<1>1. UNCHANGED <<call, dir, image>> /\ box[c].state = "running"
  BY DEF WriteOutput, ProgramExit
<1>2. CASE WriteOutput(c)
  <2>1. box[c].written \in 0..MaxOutput /\ box[c].written + 1 \in 0..MaxOutput
    BY <1>2, MaxOutputAssumption DEF TypeOK, Box, WriteOutput
  <2>2. /\ box' \in [Calls -> Box] /\ \A d \in Calls : d # c => box'[d] = box[d]
        /\ box'[c].state = "running" /\ box'[c].written = box[c].written + 1
    BY <1>1, <1>2, <2>1 DEF WriteOutput, TypeOK, Box
  <2>3. TypeOK' /\ Alone(c)
    BY <1>1, <2>2 DEF TypeOK, Alone
  <2>4. call[c].missed \in Nat
    BY MaxOutputAssumption DEF TypeOK, Call
  <2>5. CallInv(c)'
    BY <1>1, <2>1, <2>2, <2>4 DEF CallInv, BoxInv, OutputInv, ResultInv, DirInv, ImageInv
  <2> QED
    BY <2>3, <2>5 DEF Kept
<1>3. CASE ProgramExit(c)
  <2>1. BoxMoves(c, "exited")
    BY <1>3, BoxBecomes DEF ProgramExit
  <2>2. TypeOK' /\ Alone(c)
    BY <1>1, <2>1 DEF BoxMoves, TypeOK, Alone
  <2>3. CallInv(c)'
    BY <1>1, <2>1 DEF BoxMoves, CallInv, BoxInv, OutputInv, ResultInv, DirInv, ImageInv
  <2> QED
    BY <2>2, <2>3 DEF Kept
<1> QED
  BY <1>2, <1>3

LEMMA NextSandboxInv == SandboxInv /\ [Next]_vars => SandboxInv'
<1> SUFFICES ASSUME SandboxInv, [Next]_vars
             PROVE  SandboxInv'
  OBVIOUS
<1>1. CASE UNCHANGED vars
  BY <1>1 DEF vars, SandboxInv, TypeOK, CallInv, BoxInv, OutputInv, ResultInv, DirInv,
     ImageInv
<1>2. ASSUME NEW c \in Calls,
             \/ Invoke(c) \/ Continue(c)
             \/ StreamCut(c) \/ StreamError(c) \/ WaitError(c)
             \/ WriteOutput(c) \/ ProgramExit(c)
      PROVE  SandboxInv'
  <2>1. Kept(c)
    BY <1>2, SetupKeeps, LaunchKeeps, RaceKeeps, EndKeeps, ProgramKeeps
    DEF SandboxInv, Continue
  <2> QED
    BY <2>1, OthersKeep DEF Kept, SandboxInv
<1> QED
  BY <1>1, <1>2 DEF Next

-----------------------------------------------------------------------------
(* Theorems.                                                               *)

(* The inductive invariant holds throughout.                               *)
THEOREM SandboxInvariant == Spec => []SandboxInv
  BY InitSandboxInv, NextSandboxInv, PTL DEF Spec

(* Every variable keeps its type.                                          *)
THEOREM SandboxTypeCorrect == Spec => []TypeOK
<1>1. SandboxInv => TypeOK
  BY DEF SandboxInv
<1> QED
  BY SandboxInvariant, <1>1, PTL

(* A call that returned without an error let its program run to its own    *)
(* end and removed the container (index.ts:150-163).                       *)
THEOREM SuccessLeavesNothing == Spec => []SuccessIsFinal
<1>1. SandboxInv => SuccessIsFinal
  BY DEF SandboxInv, CallInv, ResultInv, SuccessIsFinal
<1> QED
  BY SandboxInvariant, <1>1, PTL

(* Unless the stream was cut, a successful call loses only what was        *)
(* written between start and attach (index.ts:104-110).                    *)
THEOREM OutputIsComplete == Spec => []OnlyGapIsLost
<1>1. SandboxInv => OnlyGapIsLost
  BY DEF SandboxInv, CallInv, ResultInv, OnlyGapIsLost
<1> QED
  BY SandboxInvariant, <1>1, PTL

(* No call creates a container before its image is there.                  *)
THEOREM CreateHasImage == Spec => []ImageReady
<1>1. SandboxInv => ImageReady
  BY DEF SandboxInv, CallInv, ImageInv, ImageReady
<1> QED
  BY SandboxInvariant, <1>1, PTL

(* A running program keeps its workspace while its call waits for it, and  *)
(* loses it only to a timeout or an error.                                 *)
THEOREM WorkspaceOutlivesRun == Spec => []FilesWhileAwaited
<1>1. SandboxInv => FilesWhileAwaited
  <2> SUFFICES ASSUME SandboxInv, NEW c \in Calls, box[c].state = "running", ~dir[c]
               PROVE  call[c].pc = "returned" /\ call[c].result \in {"timeout", "error"}
    BY DEF FilesWhileAwaited
  <2>1. call[c] \in Call
    BY DEF SandboxInv, TypeOK
  <2>2. BoxInv(c) /\ ResultInv(c) /\ DirInv(c)
    BY DEF SandboxInv, CallInv
  <2> QED
    BY <2>1, <2>2 DEF Call, PCs, BoxInv, ResultInv, DirInv
<1> QED
  BY SandboxInvariant, <1>1, PTL
=============================================================================
