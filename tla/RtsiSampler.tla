----------------------------- MODULE RtsiSampler -----------------------------
(***************************************************************************)
(* EliteRtsiProcessSampler: a one-shot child process that records the      *)
(* robot's telemetry, a pipe back to its parent, two events, and the       *)
(* parent's start, finish and cancel.  A module that owns a sampler EXTENDS *)
(* this one, calls BeginStart, BeginFinish or BeginCancel, and goes on when *)
(* the call is over (call = "none") by looking at returned.                 *)
(*                                                                         *)
(* Every wait of the parent has a time limit, so it may give up before any *)
(* answer of the worker; a terminated worker dies, or outlives the join.   *)
(***************************************************************************)
EXTENDS Naturals, Sequences

CONSTANTS
    MinTrace,   \* telemetry samples a result needs (three in the code)
    MaxTrace    \* bound: samples the worker is followed for

ASSUME TraceAssumption ==
    /\ MinTrace \in Nat /\ MaxTrace \in Nat
    /\ 1 <= MinTrace /\ MinTrace <= MaxTrace

VARIABLES
    worker,     \* "none", "connecting", "sampling", "leaving", "sent" or "gone"
    exitcode,   \* 0, or 1 for a worker that was killed or crashed
    outcome,    \* what the worker is about to send when it is leaving
    samples,    \* length of the trace it has retained
    pipe,       \* messages sent and not yet received
    readOpen,   \* the parent's end of the pipe
    stopEvent, discardEvent,
    started, finished,  \* the parent's _started and _finished
    call,       \* the parent's call: "none", "start", "finish" or "cancel"
    message,    \* what that call received, "none" before
    returned    \* how the latest call ended: "ok" or "raised"

workerVars == <<worker, exitcode, outcome, samples>>
parentVars == <<readOpen, stopEvent, discardEvent, started, finished>>
callVars == <<call, message, returned>>
samplerVars == <<workerVars, pipe, parentVars, callVars>>

Messages == {"ready", "result", "cancelled", "error"}

SamplerTypes ==
    /\ worker \in {"none", "connecting", "sampling", "leaving", "sent", "gone"}
    /\ exitcode \in {0, 1}
    /\ outcome \in Messages
    /\ samples \in 0 .. MaxTrace
    /\ pipe \in Seq(Messages)
    /\ readOpen \in BOOLEAN
    /\ stopEvent \in BOOLEAN /\ discardEvent \in BOOLEAN
    /\ started \in BOOLEAN /\ finished \in BOOLEAN
    /\ call \in {"none", "start", "finish", "cancel"}
    /\ message \in Messages \cup {"none"}
    /\ returned \in {"ok", "raised"}

WorkerAlive == worker \in {"connecting", "sampling", "leaving", "sent"}

SamplerInit ==
    /\ worker = "none" /\ exitcode = 0 /\ outcome = "result" /\ samples = 0
    /\ pipe = <<>>
    /\ readOpen = FALSE /\ stopEvent = FALSE /\ discardEvent = FALSE
    /\ started = FALSE /\ finished = FALSE
    /\ call = "none" /\ message = "none" /\ returned = "ok"

\* a new sampler object of the factory; the old one is forgotten
FreshSampler ==
    /\ worker' = "none" /\ exitcode' = 0 /\ outcome' = "result" /\ samples' = 0
    /\ pipe' = <<>>
    /\ readOpen' = FALSE /\ stopEvent' = FALSE /\ discardEvent' = FALSE
    /\ started' = FALSE /\ finished' = FALSE
    /\ call' = "none" /\ message' = "none" /\ returned' = "ok"

-----------------------------------------------------------------------------
(* The worker process.                                                     *)

Leave(o) ==
    /\ worker' = "leaving"
    /\ outcome' = o

WorkerConnect ==
    /\ worker = "connecting"
    /\ \/ /\ worker' = "sampling"
          /\ samples' = 1
          /\ pipe' = IF readOpen THEN Append(pipe, "ready") ELSE pipe
          /\ UNCHANGED outcome
       \/ /\ Leave("error")
          /\ UNCHANGED <<samples, pipe>>
    /\ UNCHANGED <<exitcode, parentVars, callVars>>

WorkerSample ==
    /\ worker = "sampling"
    /\ ~stopEvent
    /\ \/ /\ samples < MaxTrace
          /\ samples' = samples + 1
          /\ UNCHANGED <<worker, outcome>>
       \/ /\ Leave("error")
          /\ UNCHANGED samples
    /\ UNCHANGED <<exitcode, pipe, parentVars, callVars>>

\* the loop sees the stop event; the last packet is retained if it is newer
WorkerLeave ==
    /\ worker = "sampling"
    /\ stopEvent
    /\ Leave(IF discardEvent THEN "cancelled" ELSE "result")
    /\ samples' \in {samples, samples + 1} \cap (0 .. MaxTrace)
    /\ UNCHANGED <<exitcode, pipe, parentVars, callVars>>

WorkerSend ==
    /\ worker = "leaving"
    /\ worker' = "sent"
    /\ pipe' = IF readOpen THEN Append(pipe, outcome) ELSE pipe
    /\ UNCHANGED <<exitcode, outcome, samples, parentVars, callVars>>

WorkerExit ==
    /\ worker = "sent"
    /\ worker' = "gone"
    /\ UNCHANGED <<exitcode, outcome, samples, pipe, parentVars, callVars>>

WorkerCrash ==
    /\ WorkerAlive
    /\ worker' = "gone"
    /\ exitcode' = 1
    /\ UNCHANGED <<outcome, samples, pipe, parentVars, callVars>>

WorkerStep ==
    \/ WorkerConnect \/ WorkerSample \/ WorkerLeave
    \/ WorkerSend \/ WorkerExit \/ WorkerCrash

-----------------------------------------------------------------------------
(* The parent.                                                             *)

Return(how) ==
    /\ call' = "none"
    /\ message' = "none"
    /\ returned' = how

\* _terminate_worker: the join after the signal has a limit of its own
TerminateWorker ==
    /\ readOpen' = FALSE
    /\ \/ /\ WorkerAlive
          /\ worker' = "gone"
          /\ exitcode' = 1
       \/ UNCHANGED <<worker, exitcode>>
    /\ UNCHANGED <<outcome, samples>>

BeginStart ==
    /\ ~started
    /\ started' = TRUE
    /\ readOpen' = TRUE
    /\ \/ /\ worker' = "connecting"
          /\ call' = "start" /\ message' = "none" /\ returned' = "ok"
       \/ /\ worker' = "gone"      \* the process could not be spawned
          /\ Return("raised")
    /\ UNCHANGED <<exitcode, outcome, samples, pipe, stopEvent, discardEvent, finished>>

BeginFinish ==
    /\ started /\ ~finished
    /\ finished' = TRUE
    /\ stopEvent' = TRUE
    /\ call' = "finish" /\ message' = "none" /\ returned' = "ok"
    /\ UNCHANGED <<workerVars, pipe, readOpen, discardEvent, started>>

\* a worker that is already gone, or was never started, needs no answer
BeginCancel ==
    /\ finished' = TRUE
    /\ IF WorkerAlive
       THEN /\ discardEvent' = TRUE
            /\ stopEvent' = TRUE
            /\ call' = "cancel" /\ message' = "none" /\ returned' = "ok"
            /\ UNCHANGED readOpen
       ELSE /\ readOpen' = FALSE
            /\ Return("ok")
            /\ UNCHANGED <<discardEvent, stopEvent>>
    /\ UNCHANGED <<workerVars, pipe, started>>

\* a startup that is answered by "ready" is over without a join
Receive ==
    /\ call # "none" /\ message = "none"
    /\ readOpen
    /\ pipe # <<>>
    /\ pipe' = Tail(pipe)
    /\ CASE call = "start" /\ Head(pipe) = "ready" ->
                /\ Return("ok")
                /\ UNCHANGED <<workerVars, parentVars>>
         [] call = "start" /\ Head(pipe) # "ready" ->
                /\ TerminateWorker
                /\ Return("raised")
                /\ UNCHANGED <<stopEvent, discardEvent, started, finished>>
         [] OTHER ->
                /\ message' = Head(pipe)
                /\ UNCHANGED <<call, returned, workerVars, parentVars>>

\* nothing came in time, or the worker's end of the pipe is closed
ReceiveFails ==
    /\ call # "none" /\ message = "none"
    /\ readOpen
    /\ pipe = <<>>
    /\ TerminateWorker
    /\ Return("raised")
    /\ UNCHANGED <<pipe, stopEvent, discardEvent, started, finished>>

\* an earlier call has closed the pipe: poll itself raises
ReceiveClosed ==
    /\ call # "none" /\ message = "none"
    /\ ~readOpen
    /\ Return("raised")
    /\ UNCHANGED <<workerVars, pipe, parentVars>>

\* mutant: the length of the trace is not looked at
ShortAnswer == message \in {"cancelled", "result"}

\* what the call may take for a success
GoodAnswer ==
    \/ call = "finish" /\ message = "result" /\ samples >= MinTrace
    \/ call = "cancel" /\ message \in {"cancelled", "result"}

Join ==
    /\ message # "none"
    /\ worker = "gone"
    /\ readOpen' = IF exitcode = 0 THEN FALSE ELSE readOpen
    /\ Return(IF exitcode = 0 /\ GoodAnswer THEN "ok" ELSE "raised")
    /\ UNCHANGED <<workerVars, pipe, stopEvent, discardEvent, started, finished>>

JoinFails ==
    /\ message # "none"
    /\ WorkerAlive
    /\ TerminateWorker
    /\ Return("raised")
    /\ UNCHANGED <<pipe, stopEvent, discardEvent, started, finished>>

ParentStep == Receive \/ ReceiveFails \/ ReceiveClosed \/ Join \/ JoinFails

SamplerStep == WorkerStep \/ ParentStep
=============================================================================
