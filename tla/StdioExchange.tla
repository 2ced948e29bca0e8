---------------------------- MODULE StdioExchange ----------------------------
(***************************************************************************)
(* The Docker control connection of src/engine/docker-stdio.ts: one        *)
(* subprocess, one HTTP connection over its pipes, one exchange at a time. *)
(* An exchange is a race of the delivery of the request, the response, the *)
(* failures of both, the end of the subprocess, and a timer.  Each action  *)
(* is one callback of the event loop or one step of the peer.              *)
(***************************************************************************)
EXTENDS Integers

CONSTANT MaximumBytes   \* the limit of a response, a natural number

VARIABLES
  alive,      \* the connection may be used
  child,      \* the subprocess: "running" | "killed" | "closed"
  state,      \* the current one: "idle" | "open" | "succeeded" | "failed"
  timer,      \* its timer is armed
  body,       \* its request: "unproduced" (a stream) | "ended" | "flushed" | "cut"
  delivered,  \* inputDelivered
  response,   \* what came back: [length, part : "none" | "partial" | "whole" | "refused"]
  completed,  \* completedResponse is set
  closing     \* close(): "no" | "waiting" | "done"

connectionVars == <<alive, child>>
exchangeVars == <<state, timer, body, delivered, response, completed>>
vars == <<connectionVars, exchangeVars, closing>>

NoResponse == [length |-> 0, part |-> "none"]

Init ==
  /\ alive = TRUE /\ child = "running"
  /\ state = "idle" /\ timer = FALSE
  /\ body = "flushed" /\ delivered = FALSE /\ response = NoResponse /\ completed = FALSE
  /\ closing = "no"

(* The connection is given up and its subprocess killed. *)
Poison ==
  /\ alive' = FALSE
  /\ child' = IF child = "running" THEN "killed" ELSE child

(* A request with a buffered body, or none, is ended at once; a stream is  *)
(* still to be produced.  On a dead connection the exchange throws.        *)
Begin(stream) ==
  /\ closing = "no" /\ state # "open"
  /\ alive
  /\ state' = "open" /\ timer' = TRUE
  /\ body' = IF stream THEN "unproduced" ELSE "ended"
  /\ delivered' = ~stream
  /\ response' = NoResponse /\ completed' = FALSE
  /\ UNCHANGED <<connectionVars, closing>>

(* Mutant: a complete response is enough. *)
SucceedOnResponse(isDelivered, isFlushed, isCompleted) ==
  IF isCompleted THEN state' = "succeeded" /\ timer' = FALSE ELSE UNCHANGED <<state, timer>>

(* The exchange succeeds when its request is delivered and flushed and its *)
(* response complete, in whatever order they come about.                   *)
Succeed(isDelivered, isFlushed, isCompleted) ==
  IF isDelivered /\ isFlushed /\ isCompleted THEN state' = "succeeded" /\ timer' = FALSE
  ELSE UNCHANGED <<state, timer>>

Fail == state' = "failed" /\ timer' = FALSE /\ Poison

Open == state = "open"

-----------------------------------------------------------------------------
(* The request.                                                            *)

(* The last chunk of the stream was written. *)
StreamEnds ==
  /\ Open /\ body = "unproduced"
  /\ body' = "ended" /\ delivered' = TRUE
  /\ Succeed(TRUE, FALSE, completed)
  /\ UNCHANGED <<connectionVars, response, completed, closing>>

(* The source of the stream fails, or a write of it. *)
StreamFails ==
  /\ Open /\ body = "unproduced"
  /\ body' = "cut"
  /\ Fail
  /\ UNCHANGED <<delivered, response, completed, closing>>

RequestFlushed ==
  /\ Open /\ body = "ended"
  /\ body' = "flushed"
  /\ Succeed(delivered, TRUE, completed)
  /\ UNCHANGED <<connectionVars, delivered, response, completed, closing>>

-----------------------------------------------------------------------------
(* The response, which may come before the request is flushed.             *)

TooLong(length) == length > MaximumBytes

ResponseData ==
  /\ Open /\ response.part \in {"none", "partial"}
  /\ response' = [length |-> response.length + 1, part |-> "partial"]
  /\ IF TooLong(response.length + 1) THEN Fail ELSE UNCHANGED <<state, timer, connectionVars>>
  /\ UNCHANGED <<body, delivered, completed, closing>>

(* The response ends: complete and 2xx, or not. *)
ResponseEnds(part) ==
  /\ Open /\ response.part \in {"none", "partial"}
  /\ response' = [response EXCEPT !.part = part]
  /\ IF part = "whole"
     THEN completed' = TRUE /\ Succeed(delivered, body = "flushed", TRUE)
            /\ UNCHANGED connectionVars
     ELSE Fail /\ UNCHANGED completed
  /\ UNCHANGED <<body, delivered, closing>>

-----------------------------------------------------------------------------
(* What ends an exchange from outside.                                     *)

TimerFires ==
  /\ timer
  /\ IF Open THEN Fail ELSE timer' = FALSE /\ UNCHANGED <<state, connectionVars>>
  /\ UNCHANGED <<body, delivered, response, completed, closing>>

(* A pipe, the socket or the subprocess fails, during an exchange or       *)
(* between two; the request that is out gets an error.                     *)
ConnectionBreaks ==
  /\ alive
  /\ IF Open THEN Fail ELSE Poison /\ UNCHANGED <<state, timer>>
  /\ UNCHANGED <<body, delivered, response, completed, closing>>

ChildCloses ==
  /\ child # "closed"
  /\ child' = "closed" /\ alive' = FALSE
  /\ IF Open THEN state' = "failed" /\ timer' = FALSE ELSE UNCHANGED <<state, timer>>
  /\ closing' = IF closing = "waiting" THEN "done" ELSE closing
  /\ UNCHANGED <<body, delivered, response, completed>>

(* close() gives the connection up and waits for the subprocess, or for    *)
(* its own timer.                                                          *)
Close ==
  /\ closing = "no" /\ ~Open
  /\ Poison
  /\ closing' = IF child = "closed" THEN "done" ELSE "waiting"
  /\ UNCHANGED exchangeVars

CloseTimerFires ==
  /\ closing = "waiting"
  /\ closing' = "done"
  /\ UNCHANGED <<connectionVars, exchangeVars>>

-----------------------------------------------------------------------------
(* A connection that can be used carries nothing of an earlier exchange:   *)
(* its request left whole and its response was read to the end and within  *)
(* the limit.  So no exchange is ever answered by the response to an       *)
(* earlier request, and a doubtful exchange is the last of its connection. *)
NoCrossTalk ==
  (alive /\ state \notin {"idle", "open"}) =>
    /\ body = "flushed" /\ delivered
    /\ response.part = "whole" /\ response.length <= MaximumBytes

=============================================================================
