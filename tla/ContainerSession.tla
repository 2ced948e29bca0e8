-------------------------- MODULE ContainerSession --------------------------
(***************************************************************************)
(* The container executions of one campaign, composed: the requests of     *)
(* ContainerExecution, the control connection of StdioExchange that        *)
(* carries them when there is one, and the UploadCache that the uploads    *)
(* are read from.                                                          *)
(*                                                                         *)
(* A request over the control connection is an exchange: it begins when    *)
(* the request is sent, and the promise of the exchange resumes the engine *)
(* in the same turn of the event loop, so the step that settles the        *)
(* exchange also answers the request.  The stream of an upload is the      *)
(* archive being read: its last chunk completes both, and a request that   *)
(* fails abandons the archive.  The command line has no exchange.          *)
(*                                                                         *)
(* An answer that is complete but not the expected one is refused like an  *)
(* incomplete one, and poisons the connection as the exchange does.        *)
(***************************************************************************)
EXTENDS ContainerExecution

CONSTANTS
  ResponseLimit,  \* the limit of a response of the control connection
  Keys,           \* workspace identities
  SizeOf,         \* the size of the archive of each
  StoreLimit,     \* the budget of the archives kept
  Chunks          \* the sizes of the chunks of a model
ASSUME SessionAssumption ==
  /\ ResponseLimit \in Nat /\ StoreLimit \in Nat
  /\ SizeOf \in [Keys -> Nat \ {0}] /\ Chunks \subseteq Nat \ {0}

VARIABLES alive, child, state, timer, body, delivered, response, completed, closing
VARIABLES entries, bytes, upload

linkVars == <<alive, child, state, timer, body, delivered, response, completed, closing>>
storeVars == <<entries, bytes, upload>>
sessionVars == <<vars, linkVars, storeVars>>

Link == INSTANCE StdioExchange WITH MaximumBytes <- ResponseLimit
Store == INSTANCE UploadCache WITH MaximumBytes <- StoreLimit

SessionInit == Init /\ Link!Init /\ Store!Init

-----------------------------------------------------------------------------
(* Sending.                                                                *)

ByLink == call # NoCall /\ call.via = "stdio" /\ call.sent
Uploading == upload # Store!NoUpload

(* The archive is opened by the first chunk that is asked for, so a request*)
(* on a poisoned connection leaves the store alone.                        *)
SendRequest ==
  /\ Send
  /\ IF call'.via = "stdio" /\ call'.sent THEN Link!Begin(pc = "upload") ELSE UNCHANGED linkVars
  /\ IF pc = "upload" /\ call'.sent
     THEN \E key \in Keys : Store!Reuse(key) \/ Store!Produce(key)
     ELSE UNCHANGED storeVars

(* Nothing is carried out late of an archive that was not sent whole. *)
AbandonUpload ==
  IF Uploading THEN Store!Abandon /\ "upload" \notin late' ELSE UNCHANGED storeVars

ReadChunk ==
  /\ \E chunk \in Chunks : Store!Deliver(chunk)
  /\ UNCHANGED <<vars, linkVars>>

-----------------------------------------------------------------------------
(* The command line.                                                       *)

CliSent ==
  /\ ~ByLink /\ Store!Complete
  /\ UNCHANGED <<vars, linkVars>>

(* A request of the command line succeeds when its input was taken whole.  *)
(* A request on a poisoned connection is refused without being sent.       *)
CliAnswers ==
  /\ call # NoCall /\ ~ByLink
  /\ \/ ~Uploading /\ Reply(TRUE) /\ UNCHANGED storeVars
     \/ (Reply(FALSE) \/ RuntimeThrows \/ \E last \in Attached : StartEnds(last))
        /\ AbandonUpload
  /\ UNCHANGED linkVars

-----------------------------------------------------------------------------
(* The control connection.                                                 *)

(* What the exchange that is out comes to. *)
Settle ==
  CASE state' = "open" -> UNCHANGED <<vars, storeVars>>
    [] state' = "succeeded" -> Reply(TRUE) /\ UNCHANGED storeVars
    [] OTHER -> Reply(FALSE) /\ AbandonUpload

StreamSent ==
  /\ ByLink
  /\ Link!StreamEnds /\ Store!Complete
  /\ UNCHANGED vars

(* The daemon only answers with success what it has carried out. *)
ResponseArrives ==
  /\ ByLink
  /\ \/ Link!ResponseData
     \/ call.applied /\ Link!ResponseEnds("whole")
     \/ Link!ResponseEnds("refused")
  /\ Settle

ExchangeTimesOut == ByLink /\ Link!TimerFires /\ Settle

ExchangeContinues ==
  /\ ByLink
  /\ Link!StreamFails \/ Link!RequestFlushed \/ Link!ConnectionBreaks \/ Link!ChildCloses
  /\ Settle

(* The connection between two exchanges, or after its end. *)
LinkAtRest ==
  /\ ~ByLink
  /\ Link!ConnectionBreaks \/ Link!ChildCloses
  /\ ConnectionBreaks \/ (control # "alive" /\ UNCHANGED vars)
  /\ UNCHANGED storeVars

(* The campaign ends: verifyCampaignWithTrace closes the connection. *)
CloseLink ==
  /\ ended /\ control # "none"
  /\ Link!Close
  /\ control' = "poisoned"
  /\ UNCHANGED <<poisonedBefore, pc, call, late, container, created, run, outcome, failed, storeVars>>

CloseTimer == Link!CloseTimerFires /\ UNCHANGED <<vars, storeVars>>

-----------------------------------------------------------------------------
(* The daemon and its process, which extract an archive once it is whole;  *)
(* and the next execution, of any workspace.                               *)

Daemon ==
  /\ \/ CarryOut /\ (call.op = "upload" => ~Uploading)
     \/ \E op \in Requests : CarryOutLate(op)
     \/ \E code \in Codes : ProcessEnds(code)
  /\ UNCHANGED <<linkVars, storeVars>>

Continue ==
  /\ closing = "no" /\ NextExecution
  /\ UNCHANGED <<linkVars, storeVars>>

StoredDamage ==
  /\ ended
  /\ \E key \in Keys : Store!Damage(key)
  /\ UNCHANGED <<vars, linkVars>>

SessionNext ==
  \/ SendRequest \/ ReadChunk \/ CliSent \/ CliAnswers
  \/ StreamSent \/ ResponseArrives \/ ExchangeTimesOut \/ ExchangeContinues
  \/ LinkAtRest \/ CloseLink \/ CloseTimer
  \/ Daemon \/ Continue \/ StoredDamage

(* A command has a timeout and so has an exchange and the closing of the   *)
(* connection, so SendRequest, CliAnswers, ExchangeTimesOut and CloseTimer *)
(* are fair; the daemon, the process and the peer owe nothing.             *)

-----------------------------------------------------------------------------
(* A connection that can be used carries nothing of an earlier request,    *)
(* and one in doubt is the last: nothing is created after it any more.     *)
DoubtIsFinal == Link!NoCrossTalk /\ NothingAfterPoison

(* A result is what the process did on the whole workspace, and what was   *)
(* uploaded, from the workspace or from the archives kept, was all of it.  *)
GenuineOnWhole == ResultIsGenuine /\ Store!OnlyWhole

(* What every session comes to again and again, whatever the daemon, the   *)
(* process and the peer do or fail to do: the execution has ended, and so  *)
(* has the closing of the connection.                                      *)
SessionAtRest == ended /\ closing # "waiting"
=============================================================================
