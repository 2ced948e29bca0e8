------------------------- MODULE ContainerExecution -------------------------
(***************************************************************************)
(* The container executions of one campaign: runContainerExecution and     *)
(* startAndCollect of src/engine/container.ts against a container daemon.  *)
(* Each execution creates a container of its own, uploads the workspace,   *)
(* starts the process, inspects it, downloads the report and removes the   *)
(* container; each of these is one request to the daemon.                  *)
(*                                                                         *)
(* A request is sent by the command line or, when there is one, over the   *)
(* control connection of src/engine/docker-stdio.ts ("start" always by the *)
(* command line).  A request that fails, or is given up at its timeout,    *)
(* may have been carried out, may never be, or may be later on.  Any doubt *)
(* poisons the control connection for the rest of the campaign, and only   *)
(* the two requests that clean up are tried again by the command line.     *)
(***************************************************************************)
EXTENDS Integers

CONSTANTS
  Codes,          \* the exit codes of a model, 0 among them
  Killed          \* the exit code of a killed process
ASSUME ContainerAssumption == Codes \subseteq Nat /\ {0, Killed} \subseteq Codes

VARIABLES
  control,     \* the control connection: "none" | "alive" | "poisoned"
  poisonedBefore,  \* it was poisoned before this execution began
  pc,          \* the request to send next, or "returned" | "threw"
  call,        \* the request that is out, or NoCall
  late,        \* requests given up that the daemon may still carry out
  container,   \* the container of this execution, as the daemon has it
  created,     \* "create" was answered
  run,         \* what the attached "start" ended with
  outcome,     \* the result of the execution, NoOutcome before there is one
  failed       \* an error waits for the removal

vars == <<control, poisonedBefore, pc, call, late, container, created, run, outcome, failed>>

Requests == {"create", "upload", "start", "kill", "inspect", "download", "rm"}

NoCode == -1   \* an exit code of null
NoCall == [op |-> "none"]
NoRun == [outcome |-> "none"]
NoOutcome == [outcome |-> "none"]

NoContainer == [state |-> "absent", code |-> 0, whole |-> FALSE]

InfrastructureFailure == [outcome |-> "INFRA_ERROR", exit |-> NoCode, report |-> "none"]

-----------------------------------------------------------------------------
Init ==
  /\ control \in {"none", "alive"} /\ poisonedBefore = FALSE
  /\ pc = "create" /\ call = NoCall /\ late = {}
  /\ container = NoContainer
  /\ created = FALSE /\ run = NoRun /\ outcome = NoOutcome /\ failed = FALSE

ended == pc \in {"returned", "threw"}

(* The next execution of the campaign, after one that returned. *)
NextExecution ==
  /\ pc = "returned"
  /\ poisonedBefore' = (control = "poisoned")
  /\ pc' = "create" /\ late' = {} /\ container' = NoContainer
  /\ created' = FALSE /\ run' = NoRun /\ outcome' = NoOutcome /\ failed' = FALSE
  /\ UNCHANGED <<control, call>>

-----------------------------------------------------------------------------
(* The daemon.                                                             *)

(* A request is carried out: what it does to the container. *)
Effect(op) ==
  CASE op = "create" /\ container.state = "absent" -> [container EXCEPT !.state = "created"]
    [] op = "upload" /\ container.state = "created" -> [container EXCEPT !.whole = TRUE]
    [] op = "start" /\ container.state = "created" -> [container EXCEPT !.state = "running"]
    [] op = "kill" /\ container.state = "running" ->
         [container EXCEPT !.state = "exited", !.code = Killed]
    [] op = "rm" /\ container.state \in {"created", "running", "exited"} ->
         [container EXCEPT !.state = "removed"]
    [] OTHER -> container

(* The requests that succeed in this state of the container. *)
Possible(op) ==
  CASE op = "create" -> container.state = "absent"
    [] op \in {"upload", "start"} -> container.state = "created"
    [] op = "kill" -> container.state = "running"
    [] OTHER -> container.state \in {"created", "running", "exited"}

(* What "inspect" answers, and what "download" finds: the report is only   *)
(* complete when the process is over, and there may be none.               *)
Seen ==
  [state : {container.state}, code : {container.code},
   report : {IF container.state = "exited" THEN "complete" ELSE "partial", "none"}]

CarryOut ==
  /\ call # NoCall /\ call.sent /\ ~call.applied
  /\ Possible(call.op)
  /\ container' = Effect(call.op)
  /\ \E seen \in Seen : call' = [call EXCEPT !.applied = TRUE, !.seen = seen]
  /\ UNCHANGED <<control, poisonedBefore, pc, late, created, run, outcome, failed>>

CarryOutLate(op) ==
  /\ op \in late
  /\ late' = late \ {op}
  /\ container' = Effect(op)
  /\ UNCHANGED <<control, poisonedBefore, pc, call, created, run, outcome, failed>>

(* The process in the container ends by itself or by its limits. *)
ProcessEnds(code) ==
  /\ container.state = "running"
  /\ container' = [container EXCEPT !.state = "exited", !.code = code]
  /\ UNCHANGED <<control, poisonedBefore, pc, call, late, created, run, outcome, failed>>

-----------------------------------------------------------------------------
(* runtime()                                                               *)

Connection(op) == IF op = "start" \/ control = "none" THEN "cli" ELSE "stdio"

Request(op, via) ==
  [op |-> op, via |-> via, sent |-> via = "cli" \/ control = "alive", applied |-> FALSE,
   seen |-> [state |-> "absent", code |-> 0, report |-> "none"]]

Send ==
  /\ call = NoCall /\ pc \in Requests
  /\ call' = Request(pc, Connection(pc))
  /\ UNCHANGED <<control, poisonedBefore, pc, late, container, created, run, outcome, failed>>

(* Only cleanup can retry after an ambiguous failure of the connection. *)
Retried(op) == call.via = "stdio" /\ op \in {"kill", "rm"}

(* The answer of a request that is out.  A failure leaves open whether the *)
(* daemon will carry out what it has not done yet, and poisons the control *)
(* connection.                                                             *)
Answered(ok) ==
  IF ok THEN call.applied /\ UNCHANGED <<control, late>>
  ELSE /\ control' = IF call.via = "stdio" THEN "poisoned" ELSE control
       /\ late' \in {late, late \cup (IF call.sent /\ ~call.applied THEN {call.op} ELSE {})}

Waiting(op) == call # NoCall /\ call.op = op

(* The failed clean-up request is sent again, by the command line. *)
Retry ==
  /\ call # NoCall /\ Retried(call.op)
  /\ Answered(FALSE)
  /\ call' = Request(call.op, "cli")
  /\ UNCHANGED <<poisonedBefore, pc, container, created, run, outcome, failed>>

(* The connection breaks while none of its requests is out. *)
ConnectionBreaks ==
  /\ control = "alive" /\ (call # NoCall => call.via = "cli")
  /\ control' = "poisoned"
  /\ UNCHANGED <<poisonedBefore, pc, call, late, container, created, run, outcome, failed>>

(* The command line cannot even be run: the working directory is gone. *)
RuntimeThrows ==
  /\ call # NoCall /\ call.via = "cli" /\ ~call.applied
  /\ call' = NoCall /\ failed' = TRUE
  /\ pc' = IF call.op = "rm" THEN "threw" ELSE "rm"
  /\ UNCHANGED <<control, poisonedBefore, late, container, created, run, outcome>>

-----------------------------------------------------------------------------
(* runSingleContainerExecution and startAndCollect: the answers.           *)

CreateAnswered(ok) ==
  /\ Waiting("create") /\ (ok \/ ~Retried("create")) /\ Answered(ok)
  /\ call' = NoCall /\ created' = ok
  /\ pc' = IF ok THEN "upload" ELSE "rm"
  /\ outcome' = IF ok THEN outcome ELSE InfrastructureFailure
  /\ UNCHANGED <<poisonedBefore, container, run, failed>>

(* Mutant: a failed upload is tried again. *)
UploadTriedAgain(ok) ==
  /\ Waiting("upload") /\ Answered(ok)
  /\ call' = NoCall
  /\ pc' = IF ok THEN "start" ELSE "upload"
  /\ UNCHANGED <<poisonedBefore, container, created, run, outcome, failed>>

UploadAnswered(ok) ==
  /\ Waiting("upload") /\ (ok \/ ~Retried("upload")) /\ Answered(ok)
  /\ call' = NoCall
  /\ pc' = IF ok THEN "start" ELSE "rm"
  /\ outcome' = IF ok THEN outcome ELSE InfrastructureFailure
  /\ UNCHANGED <<poisonedBefore, container, created, run, failed>>

(* The attached command ends: at its timeout, by a failure of its own, or  *)
(* with a code, which need not be the code of the container.               *)
StartEnds(last) ==
  /\ Waiting("start") /\ Answered(FALSE)
  /\ call' = NoCall /\ run' = last
  /\ IF last.outcome = "TIMEOUT"
     THEN /\ pc' = "kill"
          /\ outcome' = [outcome |-> "TIMEOUT", exit |-> NoCode, report |-> "none"]
     ELSE pc' = "inspect" /\ UNCHANGED outcome
  /\ UNCHANGED <<poisonedBefore, container, created, failed>>

(* Mutant: the status of the container is not looked at. *)
AgreesOnCode(seen) == run.outcome # "INFRA_ERROR" /\ seen.code = run.exit

(* The inspected state bears out the code of the attached command. *)
Agrees(seen) ==
  /\ run.outcome # "INFRA_ERROR"
  /\ seen.state = "exited" /\ seen.code = run.exit

(* "wanted": the adapter expects a report. *)
InspectAnswered(ok, wanted) ==
  /\ Waiting("inspect") /\ (ok \/ ~Retried("inspect")) /\ Answered(ok)
  /\ call' = NoCall
  /\ IF ok /\ Agrees(call.seen)
     THEN /\ outcome' = [outcome |-> IF call.seen.code = 0 THEN "PASS" ELSE "PROCESS_CRASH",
                         exit |-> call.seen.code, report |-> "none"]
          /\ pc' = IF wanted THEN "download" ELSE "rm"
     ELSE /\ outcome' = InfrastructureFailure
          /\ pc' = IF ok /\ call.seen.state = "running" THEN "kill" ELSE "rm"
  /\ UNCHANGED <<poisonedBefore, container, created, run, failed>>

(* Mutant: the kill is repeated until it worked. *)
KillUntilDone(ok) ==
  /\ Waiting("kill") /\ (ok \/ ~Retried("kill")) /\ Answered(ok)
  /\ call' = NoCall /\ pc' = IF ok THEN "rm" ELSE "kill"
  /\ UNCHANGED <<poisonedBefore, container, created, run, outcome, failed>>

(* Whether the kill worked is not looked at. *)
KillAnswered(ok) ==
  /\ Waiting("kill") /\ (ok \/ ~Retried("kill")) /\ Answered(ok)
  /\ call' = NoCall /\ pc' = "rm"
  /\ UNCHANGED <<poisonedBefore, container, created, run, outcome, failed>>

DownloadAnswered(ok) ==
  /\ Waiting("download") /\ (ok \/ ~Retried("download")) /\ Answered(ok)
  /\ call' = NoCall /\ pc' = "rm"
  /\ outcome' = IF ok THEN [outcome EXCEPT !.report = call.seen.report] ELSE outcome
  /\ UNCHANGED <<poisonedBefore, container, created, run, failed>>

(* Mutant: a failed removal is not reported. *)
RmUnchecked(ok) ==
  /\ Waiting("rm") /\ (ok \/ ~Retried("rm")) /\ Answered(ok)
  /\ call' = NoCall
  /\ pc' = IF failed THEN "threw" ELSE "returned"
  /\ UNCHANGED <<poisonedBefore, container, created, run, outcome, failed>>

(* A failed removal is an error when the container is known to exist. *)
RmAnswered(ok) ==
  /\ Waiting("rm") /\ (ok \/ ~Retried("rm")) /\ Answered(ok)
  /\ call' = NoCall
  /\ pc' = IF failed \/ (~ok /\ created) THEN "threw" ELSE "returned"
  /\ UNCHANGED <<poisonedBefore, container, created, run, outcome, failed>>

Attached ==
  {[outcome |-> "TIMEOUT", exit |-> NoCode], [outcome |-> "INFRA_ERROR", exit |-> NoCode]}
  \cup {[outcome |-> IF code = 0 THEN "PASS" ELSE "PROCESS_CRASH", exit |-> code] : code \in Codes}

Reply(ok) ==
  \/ CreateAnswered(ok) \/ UploadAnswered(ok) \/ KillAnswered(ok)
  \/ DownloadAnswered(ok) \/ RmAnswered(ok)
  \/ \E wanted \in BOOLEAN : InspectAnswered(ok, wanted)
  \/ ~ok /\ Retry

Engine ==
  \/ Send \/ RuntimeThrows
  \/ \E ok \in BOOLEAN : Reply(ok)
  \/ \E last \in Attached : StartEnds(last)

Next ==
  \/ Engine
  \/ CarryOut \/ (\E op \in Requests : CarryOutLate(op))
  \/ \E code \in Codes : ProcessEnds(code)
  \/ ConnectionBreaks \/ NextExecution

Spec == Init /\ [][Next]_vars

-----------------------------------------------------------------------------
(* A result with an exit code is what the process in the container did:    *)
(* the container ran on the complete workspace and exited with that code,  *)
(* and a report was read after it had exited.  Neither a lost attachment,  *)
(* nor a failed upload, nor a request carried out late can make one up.    *)
ResultIsGenuine ==
  outcome.outcome \in {"PASS", "PROCESS_CRASH"} =>
    /\ container.state \in {"exited", "removed"} /\ container.whole
    /\ container.code = outcome.exit
    /\ outcome.report # "partial"

(* An execution that returns has removed the container it knows of; one    *)
(* that could not remove it throws.                                        *)
RemovedOrReported == (pc = "returned" /\ created) => container.state = "removed"

(* Once the control connection is in doubt, the rest of the campaign       *)
(* creates nothing: every later execution is an infrastructure failure.    *)
NothingAfterPoison ==
  poisonedBefore => /\ container = NoContainer
                    /\ pc = "returned" => outcome.outcome = "INFRA_ERROR"

(* A control connection never sends two requests that create, fill or      *)
(* start the same container: what is in doubt is not repeated.             *)
NotRepeated ==
  [][\A op \in {"create", "upload", "start"} :
       (call' \notin {call, NoCall} /\ call'.op = op /\ ~call'.applied) =>
         /\ call = NoCall
         /\ op \notin late
         /\ op = "create" => container.state = "absent"
         /\ op = "upload" => ~container.whole]_vars

(* The comment on runContainerExecution (src/engine/container.ts:707):     *)
(* "Executes one adapter process in a fresh container and always removes   *)
(* that container."  A "create" that was given up and yet carried out      *)
(* defeats it: its container may be left without any error.                *)
AlwaysRemoved ==
  (pc = "returned" /\ late = {}) => container.state \in {"absent", "removed"}

=============================================================================
