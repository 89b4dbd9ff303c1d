------------------------------ MODULE Sandbox ------------------------------
(***************************************************************************)
(* executeInSandbox of libs/sandbox/src/index.ts, split at its awaits, with *)
(* the container it drives.  The calls of one worker share the Docker      *)
(* image.  Docker is external: any request may fail, and a failed request  *)
(* may have taken effect; the program writes and exits when it likes.      *)
(***************************************************************************)
EXTENDS Naturals

CONSTANTS
  Calls,       \* concurrent invocations of executeInSandbox
  MaxOutput    \* bound: chunks of output a program writes

ASSUME MaxOutputAssumption == MaxOutput \in Nat

VARIABLES
  call,        \* control and result of each invocation
  box,         \* its container
  dir,         \* does its workspace directory exist
  image        \* is the language image present locally

vars == <<call, box, dir, image>>

PCs == {"idle", "prepare", "inspect", "pull", "create", "start", "attach",
        "race", "wait", "remove", "cleanup", "returned"}

(* missed: chunks written before attach, which attach without logs never   *)
(* replays; heard: chunks received; cut: the stream ended before the exit. *)
(* A container is removed after its exit or killed by remove({force}).     *)
Call == [pc : PCs, result : {"none", "output", "timeout", "error"},
         missed : 0..MaxOutput, heard : 0..MaxOutput, cut : BOOLEAN]

Box == [state : {"none", "created", "running", "exited", "removed", "killed"},
        written : 0..MaxOutput]

TypeOK ==
  /\ call \in [Calls -> Call]
  /\ box \in [Calls -> Box]
  /\ dir \in [Calls -> BOOLEAN]
  /\ image \in BOOLEAN

Init ==
  /\ call = [c \in Calls |-> [pc |-> "idle", result |-> "none",
                              missed |-> 0, heard |-> 0, cut |-> FALSE]]
  /\ box = [c \in Calls |-> [state |-> "none", written |-> 0]]
  /\ dir = [c \in Calls |-> FALSE]
  /\ image \in BOOLEAN

-----------------------------------------------------------------------------
Jump(c, from, to) ==
  /\ call[c].pc = from
  /\ call' = [call EXCEPT ![c].pc = to]

(* Every way out of the try block goes through finally.                    *)
Leave(c, from, result) ==
  /\ call[c].pc = from
  /\ call' = [call EXCEPT ![c].pc = "cleanup", ![c].result = result]

Becomes(c, st) == box' = [box EXCEPT ![c].state = st]

(* A Docker request: on success the container is in state st and the call  *)
(* goes on; on failure it may or may not be, and the call leaves.          *)
Request(c, from, st, to) ==
  \/ Jump(c, from, to) /\ Becomes(c, st)
  \/ Leave(c, from, "error") /\ (UNCHANGED box \/ Becomes(c, st))

Invoke(c) == Jump(c, "idle", "prepare") /\ UNCHANGED <<box, dir, image>>

(* mkdir and the source and stdin files.                                   *)
Prepare(c) ==
  /\ \/ Jump(c, "prepare", "inspect") /\ dir' = [dir EXCEPT ![c] = TRUE]
     \/ Leave(c, "prepare", "error") /\ \E made \in BOOLEAN :
                                          dir' = [dir EXCEPT ![c] = made]
  /\ UNCHANGED <<box, image>>

InspectOnly(c) ==
  /\ Jump(c, "inspect", "create")
  /\ UNCHANGED <<box, dir, image>>

(* Any failure of inspect counts as a missing image.                       *)
Inspect(c) ==
  /\ \/ image /\ Jump(c, "inspect", "create")
     \/ Jump(c, "inspect", "pull")
  /\ UNCHANGED <<box, dir, image>>

Pull(c) ==
  /\ \/ Jump(c, "pull", "create") /\ image' = TRUE
     \/ Leave(c, "pull", "error") /\ UNCHANGED image
  /\ UNCHANGED <<box, dir>>

Create(c) ==
  /\ Request(c, "create", "created", "start")
  /\ UNCHANGED <<dir, image>>

StartCleansUp(c) ==
  /\ Request(c, "start", "running", "attach")
  /\ dir' = [dir EXCEPT ![c] = FALSE]
  /\ UNCHANGED image

Start(c) ==
  /\ Request(c, "start", "running", "attach")
  /\ UNCHANGED <<dir, image>>

(* attach({stream, stdout, stderr}), after start: what was written so far  *)
(* is not part of the stream.                                              *)
Attach(c) ==
  /\ \/ /\ call[c].pc = "attach"
        /\ call' = [call EXCEPT ![c].pc = "race",
                                ![c].missed = box[c].written]
     \/ Leave(c, "attach", "error")
  /\ UNCHANGED <<box, dir, image>>

StreamEndReplayed(c) ==
  /\ call[c].pc = "race"
  /\ box[c].state = "exited"
  /\ call' = [call EXCEPT ![c].pc = "wait",
                          ![c].heard = box[c].written + call[c].missed]
  /\ UNCHANGED <<box, dir, image>>

(* Promise.race: the end of the stream, its error, or the timer.           *)
StreamEnd(c) ==
  /\ call[c].pc = "race"
  /\ box[c].state = "exited"
  /\ call' = [call EXCEPT ![c].pc = "wait",
                          ![c].heard = box[c].written - call[c].missed]
  /\ UNCHANGED <<box, dir, image>>

StreamCut(c) ==
  /\ call[c].pc = "race"
  /\ box[c].state = "running"
  /\ call' = [call EXCEPT ![c].pc = "wait", ![c].cut = TRUE,
                          ![c].heard = box[c].written - call[c].missed]
  /\ UNCHANGED <<box, dir, image>>

StreamError(c) == Leave(c, "race", "error") /\ UNCHANGED <<box, dir, image>>

TimerKeepsOutput(c) == Leave(c, "race", "output") /\ UNCHANGED <<box, dir, image>>

TimerAfterExit(c) ==
  /\ box[c].state = "exited"
  /\ Leave(c, "race", "timeout")
  /\ UNCHANGED <<box, dir, image>>

Timer(c) == Leave(c, "race", "timeout") /\ UNCHANGED <<box, dir, image>>

WaitSkipped(c) ==
  /\ Jump(c, "wait", "remove")
  /\ UNCHANGED <<box, dir, image>>

(* container.wait() answers once the program exited.  No timer runs.       *)
Wait(c) ==
  /\ box[c].state = "exited"
  /\ Jump(c, "wait", "remove")
  /\ UNCHANGED <<box, dir, image>>

WaitError(c) == Leave(c, "wait", "error") /\ UNCHANGED <<box, dir, image>>

(* stats (its failure is swallowed), then remove({force}), then the result.*)
Remove(c) ==
  /\ LET gone == IF box[c].state = "running" THEN "killed" ELSE "removed"
     IN  \/ Leave(c, "remove", "output") /\ Becomes(c, gone)
         \/ Leave(c, "remove", "error") /\ (UNCHANGED box \/ Becomes(c, gone))
  /\ UNCHANGED <<dir, image>>

(* finally: rm -rf of the workspace, whose failure is ignored.             *)
Cleanup(c) ==
  /\ Jump(c, "cleanup", "returned")
  /\ \E kept \in BOOLEAN : dir' = [dir EXCEPT ![c] = dir[c] /\ kept]
  /\ UNCHANGED <<box, image>>

-----------------------------------------------------------------------------
(* The program in the container.                                           *)
WriteOutput(c) ==
  /\ box[c].state = "running"
  /\ box[c].written < MaxOutput
  /\ box' = [box EXCEPT ![c].written = @ + 1]
  /\ UNCHANGED <<call, dir, image>>

ProgramExit(c) ==
  /\ box[c].state = "running"
  /\ Becomes(c, "exited")
  /\ UNCHANGED <<call, dir, image>>

-----------------------------------------------------------------------------
(* A step the call takes by itself, or when Docker or the timer answers.   *)
Continue(c) ==
  \/ Prepare(c) \/ Inspect(c) \/ Pull(c) \/ Create(c) \/ Start(c) \/ Attach(c)
  \/ StreamEnd(c) \/ Timer(c)
  \/ Wait(c) \/ Remove(c) \/ Cleanup(c)

Next ==
  \E c \in Calls :
    \/ Invoke(c) \/ Continue(c)
    \/ StreamCut(c) \/ StreamError(c) \/ WaitError(c)
    \/ WriteOutput(c) \/ ProgramExit(c)

Spec == Init /\ [][Next]_vars

(* Every awaited request is answered and the timer fires.  The stream need *)
(* not fail, and the program may run forever.                              *)
Fairness == \A c \in Calls : WF_vars(Continue(c))

FairSpec == Spec /\ Fairness

-----------------------------------------------------------------------------
Orphaned(c) == box[c].state \in {"created", "running", "exited"}

(* A result without an error means the program ran to its own end and left *)
(* nothing behind in Docker, although the stream, the timer and the exit   *)
(* race each other (index.ts:150-163).                                     *)
SuccessIsFinal ==
  \A c \in Calls :
    call[c].pc = "returned" /\ call[c].result = "output" =>
      box[c].state = "removed"

(* Unless Docker cut the stream, a successful call returns all the program *)
(* wrote from the moment of attach on: only the gap between start and      *)
(* attach (index.ts:104-110) loses output.                                 *)
OnlyGapIsLost ==
  \A c \in Calls :
    call[c].result = "output" /\ ~call[c].cut =>
      call[c].heard + call[c].missed = box[c].written

(* A call never looks for its image in vain: each of two calls that find   *)
(* it missing waits for a pull before it creates a container.              *)
ImageReady == \A c \in Calls : call[c].pc = "create" => image

(* The program is never left without its source while the call still waits *)
(* for it: the workspace outlives every state but the last.                *)
FilesWhileAwaited ==
  \A c \in Calls :
    box[c].state = "running" /\ ~dir[c] =>
      call[c].pc = "returned" /\ call[c].result \in {"timeout", "error"}

(* A program that never ends does not hold its call: the timer ends the    *)
(* race.  The exception is a stream cut before the exit, after which       *)
(* container.wait() (index.ts:151) has no timer.                           *)
CallReturns ==
  \A c \in Calls :
    call[c].pc = "prepare" ~>
      \/ call[c].pc = "returned"
      \/ call[c].pc = "wait" /\ call[c].cut

(* removeAfter: true (index.ts:22) says the container goes away after use. *)
RemovedAfterTimeout ==
  \A c \in Calls :
    call[c].pc = "returned" /\ call[c].result = "timeout" => ~Orphaned(c)
=============================================================================
