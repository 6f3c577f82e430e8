------------------------------ MODULE PtyActor ------------------------------
(***************************************************************************)
(* One pane's PTY I/O actor (src/pty/actor/unix.rs): the actor thread that *)
(* owns the PTY master, and the threads that reach it through cloned       *)
(* handles.  Writers are the tasks that type into the pane, Server is the  *)
(* server's main thread (handoff calls, resizes, shutdown), Responder a    *)
(* thread that answers terminal queries, Prober the agent detector asking  *)
(* for the foreground process group.                                       *)
(*                                                                         *)
(* A step ends where another thread can observe the state: the gate mutex  *)
(* is held from a check to the wake that follows the send, the response    *)
(* mutex from producing a response to queueing it.  Bytes are abstracted   *)
(* to chunks of ChunkLen units, numbered per stream in the order in which  *)
(* they are accepted; the winsize to the number of the resize asking for   *)
(* it.  Every recv_timeout may expire at any moment.                       *)
(***************************************************************************)
EXTENDS Integers, Sequences, FiniteSets

CONSTANTS
    Writers,        \* tasks that send user input
    Buffer,         \* ACTOR_COMMAND_BUFFER
    ChunkLen,       \* units of one chunk: a write may take any part of it
    MaxInputs,      \* bound: user inputs accepted
    MaxCalls,       \* bound: handoff calls made by the server thread
    MaxResponses,   \* bound: terminal responses produced
    MaxResizes,     \* bound: resizes requested
    MaxProbes,      \* bound: foreground process group queries
    Server, Responder, Prober   \* the other threads

Threads == Writers \cup {Server, Responder, Prober}

ASSUME ConstantsAssumption ==
    /\ Buffer \in Nat \ {0}
    /\ ChunkLen \in Nat \ {0}
    /\ MaxInputs \in Nat
    /\ MaxCalls \in Nat
    /\ MaxResponses \in Nat
    /\ MaxResizes \in Nat
    /\ MaxProbes \in Nat

ASSUME ThreadsAssumption ==
    /\ Writers \cap {Server, Responder, Prober} = {}
    /\ Server # Responder /\ Server # Prober /\ Responder # Prober
    /\ Responder \notin {"free", "actor"}

VARIABLES
    \* shared between the handles and the actor
    gate,       \* UserWriteGate.accepting: "open" or "closed"
    dataq,      \* the bounded data channel: numbers of user inputs
    controlq,   \* the control channel: [cmd, call]
    resizeReq,  \* SharedPtyControls.resize, 0 for None
    nudgeReq,   \* SharedPtyControls.nudge, 0 for None
    responses,  \* SharedPtyControls.terminal_responses
    order,      \* holder of the response_order mutex, or "free"
    wake,       \* a byte is in the wake pipe
    waking,     \* threads that have queued work and not yet called wake_actor
    \* the callers
    wpc,        \* writer: "idle", "reserving" or "permitted"
    srv,        \* server thread: which handoff call it is in
    call,       \* number of the server thread's latest call
    reply,      \* what came back on the latest call's reply channel
    \* the actor thread
    pc, state, serving, pending, offset,
    \* history and environment
    accepted,   \* user inputs accepted so far (their callers saw Ok)
    settled,    \* last user input written to the PTY or lost to a write error
    generated,  \* terminal responses produced so far
    wanted,     \* PaneRuntime.current_size: the size last asked for
    ptySize,    \* the PTY's winsize
    overtaken,  \* a resize was requested while a nudge was still queued
    stuck,      \* a rollback did not come back with Ok
    probes

queueVars == <<dataq, controlq>>
controlVars == <<resizeReq, nudgeReq, responses, order>>
sizeVars == <<wanted, ptySize, overtaken>>
callerVars == <<wpc, srv, call>>
actorVars == <<pc, state, serving, pending, offset>>
vars == <<gate, queueVars, controlVars, wake, waking, callerVars, reply,
          actorVars, accepted, settled, generated, sizeVars, stuck, probes>>

User(n) == [kind |-> "user", n |-> n]
Response(n) == [kind |-> "response", n |-> n]
Report(n) == [kind |-> "report", n |-> n]
Users(q) == [i \in DOMAIN q |-> User(q[i])]
Responses(q) == [i \in DOMAIN q |-> Response(q[i])]
Chunks == [kind : {"user", "response", "report"}, n : Nat]
Commands == {"Begin", "Duplicate", "Probe", "Rollback", "Release", "Shutdown"}

Alive == pc # "exited"

-----------------------------------------------------------------------------
(* PtyIoActor::spawn: a live pane starts Running with the gate open, an    *)
(* imported one Quiesced with the gate closed, waiting to be unpaused.     *)
Init ==
    /\ \/ state = "Running" /\ gate = "open" /\ srv = "idle"
       \/ state = "Quiesced" /\ gate = "closed" /\ srv = "paused"
    /\ dataq = <<>> /\ controlq = <<>>
    /\ resizeReq = 0 /\ nudgeReq = 0 /\ responses = <<>> /\ order = "free"
    /\ wake = FALSE /\ waking = {}
    /\ wpc = [w \in Writers |-> "idle"]
    /\ call = 0 /\ reply = "none"
    /\ pc = "control" /\ serving = 0 /\ pending = <<>> /\ offset = 0
    /\ accepted = 0 /\ settled = 0 /\ generated = 0
    /\ wanted = 0 /\ ptySize = 0 /\ overtaken = FALSE
    /\ stuck = FALSE /\ probes = 0

-----------------------------------------------------------------------------
(* The handles.                                                            *)

\* A writer and begin_handoff hold the gate mutex until they have woken the
\* actor.
GateFree == \A t \in waking : t \notin Writers /\ ~(t = Server /\ srv = "begin")

Free(t) == t \notin waking

\* wake_actor, the last step of every handle method that queued work.
WakeActor(t) ==
    /\ t \in waking
    /\ waking' = waking \ {t}
    /\ wake' = TRUE
    /\ UNCHANGED <<gate, queueVars, controlVars, callerVars, reply, actorVars,
                   accepted, settled, generated, sizeVars, stuck, probes>>

\* Permits handed out by reserve() count against the channel's capacity.
HasCapacity ==
    Len(dataq) + Cardinality({w \in Writers : wpc[w] = "permitted"}) < Buffer

writerFrame == <<controlq, controlVars, wake, srv, call, reply, actorVars,
                 settled, generated, sizeVars, stuck, probes>>

\* Mutant: the data is sent without waking the actor.
EnqueueSilently(w) ==
    /\ accepted < MaxInputs
    /\ accepted' = accepted + 1
    /\ dataq' = IF Alive THEN Append(dataq, accepted + 1) ELSE dataq
    /\ waking' = waking

\* permit.send and try_send: the receiver is gone once the actor has exited,
\* and a permit taken before that still reports success.
Enqueue(w) ==
    /\ accepted < MaxInputs
    /\ accepted' = accepted + 1
    /\ dataq' = IF Alive THEN Append(dataq, accepted + 1) ELSE dataq
    /\ waking' = waking \cup {w}

\* write_user_input, up to the await: the first look at the gate.
WriteCheck(w) ==
    /\ Free(w) /\ wpc[w] = "idle" /\ GateFree
    /\ gate = "open"
    /\ wpc' = [wpc EXCEPT ![w] = "reserving"]
    /\ UNCHANGED <<gate, dataq, waking, accepted, writerFrame>>

\* data_tx.reserve().await resolves: with a permit, or with an error.
WriteReserve(w) ==
    /\ wpc[w] = "reserving"
    /\ Alive => HasCapacity
    /\ wpc' = [wpc EXCEPT ![w] = IF Alive THEN "permitted" ELSE "idle"]
    /\ UNCHANGED <<gate, dataq, waking, accepted, writerFrame>>

\* Mutant: the gate is not looked at again after the await.
WriteSendUnchecked(w) ==
    /\ wpc[w] = "permitted" /\ GateFree
    /\ Enqueue(w)
    /\ wpc' = [wpc EXCEPT ![w] = "idle"]
    /\ UNCHANGED <<gate, writerFrame>>

\* write_user_input after the await: the second look at the gate.
WriteSend(w) ==
    /\ wpc[w] = "permitted" /\ GateFree
    /\ IF gate = "open" THEN Enqueue(w) ELSE UNCHANGED <<dataq, waking, accepted>>
    /\ wpc' = [wpc EXCEPT ![w] = "idle"]
    /\ UNCHANGED <<gate, writerFrame>>

\* try_write_user_input; a closed gate, a full or a closed channel only
\* report an error.
TryWrite(w) ==
    /\ Free(w) /\ wpc[w] = "idle" /\ GateFree
    /\ gate = "open" /\ Alive /\ HasCapacity
    /\ Enqueue(w)
    /\ UNCHANGED <<gate, wpc, writerFrame>>

\* write_terminal_response: the response is produced under response_order ...
RespondProduce ==
    /\ Free(Responder) /\ order = "free"
    /\ generated < MaxResponses
    /\ generated' = generated + 1
    /\ order' = Responder
    /\ UNCHANGED <<gate, queueVars, resizeReq, nudgeReq, responses, wake, waking,
                   callerVars, reply, actorVars, accepted, settled, sizeVars,
                   stuck, probes>>

\* ... and queued before it is released.
RespondQueue ==
    /\ order = Responder
    /\ responses' = Append(responses, generated)
    /\ order' = "free"
    /\ waking' = waking \cup {Responder}
    /\ UNCHANGED <<gate, queueVars, resizeReq, nudgeReq, wake, callerVars, reply,
                   actorVars, accepted, settled, generated, sizeVars, stuck, probes>>

\* PaneRuntime::resize (a different size only) and the handle's resize: the
\* latest request replaces the one still queued, with the reports it carries.
Resize ==
    /\ Free(Server) /\ srv = "idle"
    /\ wanted < MaxResizes
    /\ wanted' = wanted + 1
    /\ resizeReq' = wanted + 1
    /\ overtaken' = (overtaken \/ nudgeReq # 0)
    /\ waking' = waking \cup {Server}
    /\ UNCHANGED <<gate, queueVars, nudgeReq, responses, order, wake, callerVars,
                   reply, actorVars, accepted, settled, generated, ptySize, stuck,
                   probes>>

\* nudge_child_redraw_after_handoff, with the pane's current size.
Nudge ==
    /\ Free(Server) /\ srv = "idle"
    /\ wanted # 0
    /\ nudgeReq' = wanted
    /\ waking' = waking \cup {Server}
    /\ UNCHANGED <<gate, queueVars, resizeReq, responses, order, wake, callerVars,
                   reply, actorVars, accepted, settled, generated, sizeVars, stuck,
                   probes>>

\* foreground_process_group_id; nothing depends on its answer here.
Probe ==
    /\ Free(Prober) /\ Alive
    /\ probes < MaxProbes
    /\ probes' = probes + 1
    /\ controlq' = Append(controlq, [cmd |-> "Probe", call |-> 0])
    /\ waking' = waking \cup {Prober}
    /\ UNCHANGED <<gate, dataq, controlVars, wake, callerVars, reply, actorVars,
                   accepted, settled, generated, sizeVars, stuck>>

serverFrame == <<dataq, controlVars, wake, wpc, actorVars, accepted, settled,
                 generated, sizeVars, probes>>

\* A call of the server thread: the command with a fresh reply channel.
Send(cmd, waiting) ==
    /\ call < MaxCalls
    /\ call' = call + 1
    /\ controlq' = Append(controlq, [cmd |-> cmd, call |-> call + 1])
    /\ reply' = "none"
    /\ srv' = waiting
    /\ waking' = waking \cup {Server}

\* control_tx.send fails once the actor has exited.
SendFails(next) == srv' = next /\ UNCHANGED <<call, controlq, reply, waking>>

\* begin_handoff: the gate closes and the command is sent under one lock.
BeginHandoff ==
    /\ Free(Server) /\ srv = "idle" /\ GateFree
    /\ IF Alive
       THEN gate' = "closed" /\ Send("Begin", "begin")
       ELSE gate' = "open" /\ SendFails("idle")
    /\ UNCHANGED <<serverFrame, stuck>>

BeginReturns ==
    /\ Free(Server) /\ srv = "begin" /\ reply = "ok"
    /\ srv' = "paused"
    /\ UNCHANGED <<gate, controlq, waking, call, reply, serverFrame, stuck>>

\* rollback_handoff, sent when begin_handoff failed or timed out, when the
\* handoff failed later, or to unpause an imported pane.
RollbackHandoff ==
    /\ Free(Server)
    /\ srv \in {"paused", "ready"} \/ (srv = "begin" /\ reply # "ok")
    /\ IF Alive
       THEN Send("Rollback", "rollback") /\ stuck' = stuck
       ELSE SendFails("idle") /\ stuck' = TRUE
    /\ UNCHANGED <<gate, serverFrame>>

\* Mutant: a successful rollback forgets to open the gate.
RollbackReturnsClosed ==
    /\ Free(Server) /\ srv = "rollback"
    /\ stuck' = (stuck \/ reply # "ok")
    /\ srv' = "idle"
    /\ UNCHANGED <<gate, controlq, waking, call, reply, serverFrame>>

\* Its reply: only Ok opens the gate again; a timeout leaves it closed.
RollbackReturns ==
    /\ Free(Server) /\ srv = "rollback"
    /\ IF reply = "ok" THEN GateFree /\ gate' = "open" ELSE gate' = gate
    /\ stuck' = (stuck \/ reply # "ok")
    /\ srv' = "idle"
    /\ UNCHANGED <<controlq, waking, call, reply, serverFrame>>

\* duplicate_for_handoff and its answer: an fd, an error or a timeout.
DuplicateForHandoff ==
    /\ Free(Server) /\ srv = "paused"
    /\ IF Alive THEN Send("Duplicate", "duplicate") ELSE SendFails("paused")
    /\ UNCHANGED <<gate, serverFrame, stuck>>

DuplicateReturns ==
    /\ Free(Server) /\ srv = "duplicate"
    /\ srv' = IF reply = "ok" THEN "ready" ELSE "paused"
    /\ UNCHANGED <<gate, controlq, waking, call, reply, serverFrame, stuck>>

\* release_after_commit; its failure is only logged.
ReleaseAfterCommit ==
    /\ Free(Server) /\ srv = "ready" /\ GateFree
    /\ gate' = "closed"
    /\ IF Alive THEN Send("Release", "release") ELSE SendFails("released")
    /\ UNCHANGED <<serverFrame, stuck>>

ReleaseReturns ==
    /\ Free(Server) /\ srv = "release"
    /\ srv' = "released"
    /\ UNCHANGED <<gate, controlq, waking, call, reply, serverFrame, stuck>>

\* shutdown: a closed pane, a released one, or an import that is abandoned.
\* The handles go away after it, so the channels never disconnect first.
Shutdown ==
    /\ Free(Server) /\ srv \in {"idle", "paused", "released"} /\ GateFree
    /\ gate' = "closed"
    /\ srv' = "gone"
    /\ IF Alive
       THEN /\ controlq' = Append(controlq, [cmd |-> "Shutdown", call |-> 0])
            /\ waking' = waking \cup {Server}
       ELSE UNCHANGED <<controlq, waking>>
    /\ UNCHANGED <<call, reply, serverFrame, stuck>>

-----------------------------------------------------------------------------
(* The actor thread.                                                       *)

handleFrame == <<gate, waking, callerVars, accepted, overtaken, wanted, stuck,
                 probes>>

\* Mutant: all calls share one reply channel, so a late answer is taken for
\* the answer to the latest call.
ReplyToAnyone(c, result) == reply' = result

\* reply.send(...): a receiver whose call has timed out is gone.
Reply(c, result) == reply' = IF c = call THEN result ELSE reply

\* drain_control_commands finds the channel empty.
ControlEmpty ==
    /\ pc = "control" /\ controlq = <<>>
    /\ pc' = "data"
    /\ UNCHANGED <<queueVars, controlVars, wake, reply, state, serving, pending,
                   offset, settled, generated, ptySize, handleFrame>>

Receive(cmd) ==
    /\ pc = "control" /\ controlq # <<>>
    /\ Head(controlq).cmd = cmd
    /\ controlq' = Tail(controlq)
    /\ UNCHANGED <<controlVars, wake, offset, settled, generated, ptySize,
                   handleFrame>>

\* begin_handoff in the actor, up to its flush loop: every input accepted
\* before the gate closed moves to the pending writes.
HandleBegin ==
    /\ Receive("Begin")
    /\ pending' = pending \o Users(dataq)
    /\ dataq' = <<>>
    /\ serving' = Head(controlq).call
    /\ pc' = "apply"
    /\ UNCHANGED <<state, reply>>

\* handle_control_command: only a quiesced PTY is duplicated, and dup can fail.
HandleDuplicate ==
    /\ Receive("Duplicate")
    /\ \E result \in {"ok", "err"} :
          /\ result = "ok" => state = "Quiesced"
          /\ Reply(Head(controlq).call, result)
    /\ UNCHANGED <<dataq, pc, state, serving, pending>>

HandleProbe ==
    /\ Receive("Probe")
    /\ UNCHANGED <<dataq, reply, pc, state, serving, pending>>

HandleRollback ==
    /\ Receive("Rollback")
    /\ IF state = "Released"
       THEN Reply(Head(controlq).call, "err") /\ state' = state
       ELSE Reply(Head(controlq).call, "ok") /\ state' = "Running"
    /\ UNCHANGED <<dataq, pc, serving, pending>>

HandleRelease ==
    /\ Receive("Release")
    /\ state' = "Released"
    /\ pending' = <<>>
    /\ Reply(Head(controlq).call, "ok")
    /\ pc' = "exited"
    /\ UNCHANGED <<dataq, serving>>

HandleShutdown ==
    /\ Receive("Shutdown")
    /\ pc' = "exited"
    /\ UNCHANGED <<dataq, reply, state, serving, pending>>

\* Mutant: input taken from the channel is put in front of what is pending.
DrainDataInFront ==
    /\ pc = "data"
    /\ IF dataq = <<>>
       THEN pc' = "apply" /\ UNCHANGED <<dataq, pending>>
       ELSE /\ dataq' = Tail(dataq)
            /\ pending' = IF state = "Running"
                          THEN <<User(Head(dataq))>> \o pending
                          ELSE pending
            /\ pc' = pc
    /\ UNCHANGED <<controlq, controlVars, wake, reply, state, serving, offset,
                   settled, generated, ptySize, handleFrame>>

\* drain_data_commands, one try_recv at a time; handle_data_command drops the
\* input unless the actor is Running.
DrainData ==
    /\ pc = "data"
    /\ IF dataq = <<>>
       THEN pc' = "apply" /\ UNCHANGED <<dataq, pending>>
       ELSE /\ dataq' = Tail(dataq)
            /\ pending' = IF state = "Running"
                          THEN Append(pending, User(Head(dataq)))
                          ELSE pending
            /\ pc' = pc
    /\ UNCHANGED <<controlq, controlVars, wake, reply, state, serving, offset,
                   settled, generated, ptySize, handleFrame>>

\* apply_pending_controls: resize with its reports, then the nudge (which ends
\* on the size it carries), then the queued responses.
ApplyControls ==
    /\ pc = "apply"
    /\ ptySize' = IF nudgeReq # 0 THEN nudgeReq
                  ELSE IF resizeReq # 0 THEN resizeReq ELSE ptySize
    /\ pending' = pending \o (IF resizeReq # 0 THEN <<Report(resizeReq)>> ELSE <<>>)
                          \o Responses(responses)
    /\ resizeReq' = 0 /\ nudgeReq' = 0 /\ responses' = <<>>
    /\ pc' = "flush"
    /\ UNCHANGED <<queueVars, order, wake, reply, state, serving, offset, settled,
                   generated, handleFrame>>

\* Where the run loop and begin_handoff's loop go on after PTY I/O.
AfterFlush == IF pc = "flush" \/ serving # 0 THEN "poll" ELSE "control"

flushFrame == <<queueVars, controlVars, wake, reply, state, serving, generated,
                ptySize, handleFrame>>

\* flush_pending_writes_once stops: nothing is left, or the PTY takes no more
\* for now (WouldBlock, Interrupted, a zero write).
FlushStops ==
    /\ pc \in {"flush", "flushReady"}
    /\ pc' = AfterFlush
    /\ UNCHANGED <<pending, offset, settled, flushFrame>>

\* Mutant: a completely written chunk stays at the front (> for >=).
FlushWriteOffByOne ==
    /\ pc \in {"flush", "flushReady"} /\ pending # <<>>
    /\ \E k \in 1 .. (ChunkLen - offset) :
          IF offset + k > ChunkLen
          THEN /\ pending' = Tail(pending)
               /\ offset' = 0
               /\ settled' = IF Head(pending).kind = "user" THEN Head(pending).n
                             ELSE settled
          ELSE offset' = offset + k /\ UNCHANGED <<pending, settled>>
    /\ UNCHANGED <<pc, flushFrame>>

\* One write of k units of the chunk at the front.
FlushWrite ==
    /\ pc \in {"flush", "flushReady"} /\ pending # <<>>
    /\ \E k \in 1 .. (ChunkLen - offset) :
          IF offset + k = ChunkLen
          THEN /\ pending' = Tail(pending)
               /\ offset' = 0
               /\ settled' = IF Head(pending).kind = "user" THEN Head(pending).n
                             ELSE settled
          ELSE offset' = offset + k /\ UNCHANGED <<pending, settled>>
    /\ UNCHANGED <<pc, flushFrame>>

\* Any other write error discards everything pending.
FlushFails ==
    /\ pc \in {"flush", "flushReady"} /\ pending # <<>>
    /\ pending' = <<>> /\ offset' = 0
    /\ settled' = accepted - Len(dataq)
    /\ pc' = AfterFlush
    /\ UNCHANGED flushFrame

ioFrame == <<queueVars, controlVars, pending, offset, settled, generated,
             ptySize, handleFrame>>

\* poll_pty_and_wake in the run loop.  A wake is served before PTY readiness.
PollWake ==
    /\ pc = "poll" /\ serving = 0 /\ wake
    /\ wake' = FALSE
    /\ pc' = "control"
    /\ UNCHANGED <<reply, state, serving, ioFrame>>

PollReadable ==
    /\ pc = "poll" /\ serving = 0 /\ ~wake /\ state = "Running"
    /\ pc' = "read"
    /\ UNCHANGED <<wake, reply, state, serving, ioFrame>>

PollWritable ==
    /\ pc = "poll" /\ serving = 0 /\ ~wake /\ pending # <<>>
    /\ pc' = "flushReady"
    /\ UNCHANGED <<wake, reply, state, serving, ioFrame>>

\* ACTOR_IDLE_POLL_MS expires.
PollIdle ==
    /\ pc = "poll" /\ serving = 0 /\ ~wake
    /\ pc' = "control"
    /\ UNCHANGED <<wake, reply, state, serving, ioFrame>>

\* poll or the drain of the wake pipe fails: the loop breaks.
PollFails ==
    /\ pc = "poll" /\ serving = 0
    /\ pc' = "exited"
    /\ UNCHANGED <<wake, reply, state, serving, ioFrame>>

\* begin_handoff's loop ends: everything is written, the actor is quiesced.
QuiesceDone ==
    /\ pc = "poll" /\ serving # 0 /\ pending = <<>>
    /\ state' = "Quiesced"
    /\ Reply(serving, "ok")
    /\ serving' = 0
    /\ pc' = "control"
    /\ UNCHANGED <<wake, ioFrame>>

\* HANDOFF_DRAIN_TIMEOUT passes, or poll fails: begin_handoff returns Err.
QuiesceFails ==
    /\ pc = "poll" /\ serving # 0 /\ pending # <<>>
    /\ Reply(serving, "err")
    /\ serving' = 0
    /\ pc' = "control"
    /\ UNCHANGED <<wake, state, ioFrame>>

\* Its poll returns: the wake pipe is drained and the PTY read or written.
QuiescePoll ==
    /\ pc = "poll" /\ serving # 0 /\ pending # <<>>
    /\ wake' = FALSE
    /\ \E ready \in {"read", "flushReady"} : pc' = ready
    /\ UNCHANGED <<reply, state, serving, ioFrame>>

\* Mutant: on_read does not take the response_order mutex.
ReadOutputUnordered ==
    /\ pc = "read"
    /\ generated < MaxResponses
    /\ generated' = generated + 1
    /\ pc' = "reading"
    /\ UNCHANGED <<queueVars, resizeReq, nudgeReq, responses, order, wake, reply,
                   state, serving, pending, offset, settled, ptySize, handleFrame>>

\* read_once: on_read runs under response_order and may produce a response.
ReadOutput ==
    /\ pc = "read" /\ order = "free"
    /\ \/ /\ generated < MaxResponses
          /\ generated' = generated + 1
          /\ order' = "actor"
          /\ pc' = "reading"
       \/ /\ pc' = "taking"
          /\ UNCHANGED <<generated, order>>
    /\ UNCHANGED <<queueVars, resizeReq, nudgeReq, responses, wake, reply, state,
                   serving, pending, offset, settled, ptySize, handleFrame>>

ReadQueue ==
    /\ pc = "reading"
    /\ responses' = Append(responses, generated)
    /\ order' = "free"
    /\ pc' = "taking"
    /\ UNCHANGED <<queueVars, resizeReq, nudgeReq, wake, reply, state, serving,
                   pending, offset, settled, generated, ptySize, handleFrame>>

\* The responses queued by then, the responder's too, become pending writes.
ReadTake ==
    /\ pc = "taking"
    /\ pending' = pending \o Responses(responses)
    /\ responses' = <<>>
    /\ pc' = "flushReady"
    /\ UNCHANGED <<queueVars, resizeReq, nudgeReq, order, wake, reply, state,
                   serving, offset, settled, generated, ptySize, handleFrame>>

\* WouldBlock or Interrupted.
ReadNothing ==
    /\ pc = "read"
    /\ pc' = "flushReady"
    /\ UNCHANGED <<wake, reply, state, serving, ioFrame>>

\* End of file or a read error: the loop breaks, begin_handoff returns Err.
ReadClosed ==
    /\ pc = "read"
    /\ IF serving # 0
       THEN Reply(serving, "err") /\ serving' = 0 /\ pc' = "control"
       ELSE pc' = "exited" /\ UNCHANGED <<reply, serving>>
    /\ UNCHANGED <<wake, state, ioFrame>>

-----------------------------------------------------------------------------
Handles ==
    \/ \E t \in Threads : WakeActor(t)
    \/ \E w \in Writers :
          WriteCheck(w) \/ WriteReserve(w) \/ WriteSend(w) \/ TryWrite(w)
    \/ RespondProduce \/ RespondQueue \/ Resize \/ Nudge \/ Probe
    \/ BeginHandoff \/ BeginReturns \/ RollbackHandoff \/ RollbackReturns
    \/ DuplicateForHandoff \/ DuplicateReturns
    \/ ReleaseAfterCommit \/ ReleaseReturns \/ Shutdown

HandleControl ==
    \/ HandleBegin \/ HandleDuplicate \/ HandleProbe \/ HandleRollback
    \/ HandleRelease \/ HandleShutdown

\* Steps the actor takes without anything from outside.
ActorOwn ==
    \/ ControlEmpty \/ HandleControl \/ DrainData \/ ApplyControls
    \/ QuiesceDone \/ QuiescePoll \/ ReadOutput \/ ReadQueue \/ ReadTake

Actor ==
    \/ ActorOwn
    \/ FlushStops \/ FlushWrite \/ FlushFails
    \/ PollWake \/ PollReadable \/ PollWritable \/ PollIdle \/ PollFails
    \/ QuiesceFails \/ ReadNothing \/ ReadClosed

Next == Handles \/ Actor

Spec == Init /\ [][Next]_vars

(***************************************************************************)
(* Fairness: the actor thread and a thread about to wake it are scheduled; *)
(* poll reports a wake byte and a writable PTY, and a child that keeps     *)
(* reading makes some write succeed.  The idle timeout is not assumed to   *)
(* fire, nor output to arrive: work must not depend on either.             *)
(***************************************************************************)
Fairness ==
    /\ WF_vars(ActorOwn) /\ WF_vars(FlushStops)
    /\ WF_vars(PollWake) /\ WF_vars(PollWritable) /\ SF_vars(FlushWrite)
    /\ \A t \in Threads : WF_vars(WakeActor(t))
    /\ WF_vars(RespondQueue)

FairSpec == Spec /\ Fairness

-----------------------------------------------------------------------------
(* Properties.                                                             *)

FlagsOK == wake \in BOOLEAN /\ overtaken \in BOOLEAN /\ stuck \in BOOLEAN

HandlesOK ==
    /\ gate \in {"open", "closed"} /\ dataq \in Seq(Nat) /\ responses \in Seq(Nat)
    /\ controlq \in Seq([cmd : Commands, call : Nat])
    /\ resizeReq \in Nat /\ nudgeReq \in Nat
    /\ order \in {"free", "actor", Responder}
    /\ waking \subseteq Threads
    /\ wpc \in [Writers -> {"idle", "reserving", "permitted"}]
    /\ srv \in {"idle", "begin", "rollback", "paused", "duplicate", "ready",
                "release", "released", "gone"}
    /\ call \in Nat /\ reply \in {"none", "ok", "err"}

ActorOK ==
    /\ pc \in {"control", "data", "apply", "flush", "poll", "read", "reading",
               "taking", "flushReady", "exited"}
    /\ state \in {"Running", "Quiesced", "Released"}
    /\ serving \in Nat /\ pending \in Seq(Chunks)
    /\ offset \in 0 .. (ChunkLen - 1)
    /\ accepted \in Nat /\ settled \in Int /\ generated \in Nat
    /\ wanted \in Nat /\ ptySize \in Nat /\ probes \in Nat

\* The values the handles' and the actor's state can take.
TypeOK == FlagsOK /\ HandlesOK /\ ActorOK

\* User input taken out of the data channel so far.
Taken == accepted - Len(dataq)

\* While the actor lives, every accepted user input is settled, pending or
\* queued, exactly once and in the order of acceptance: no interleaving of
\* writers, handoff calls and the actor drops, repeats or reorders input
\* (write_user_input's second gate check, handle_data_command's drop).
InFlight ==
    Alive =>
      /\ settled <= Taken
      /\ \A i \in 1 .. Len(dataq) : dataq[i] = Taken + i
      /\ \A i \in 1 .. Len(pending) :
            pending[i].kind = "user" => pending[i].n \in (settled + 1) .. Taken
      /\ \A n \in (settled + 1) .. Taken :
            \E i \in 1 .. Len(pending) : pending[i] = User(n)
      /\ \A i, j \in 1 .. Len(pending) :
            (i < j /\ pending[i].kind = "user" /\ pending[j].kind = "user")
               => pending[i].n < pending[j].n

\* A quiesced actor has no user input left anywhere, so the fd it duplicates
\* can be handed over; a released one had settled all it ever accepted.
QuiescedIsDrained ==
    /\ state = "Quiesced" /\ Alive =>
         /\ dataq = <<>>
         /\ \A i \in 1 .. Len(pending) : pending[i].kind # "user"
    /\ state = "Released" => settled = accepted

\* The gate is open only while the actor runs and no begin_handoff is under
\* way or queued: a late answer to a timed-out call never opens it early.
OpenGateMeansRunning ==
    gate = "open" /\ Alive =>
      /\ state = "Running" /\ serving = 0
      /\ \A i \in 1 .. Len(controlq) : controlq[i].cmd # "Begin"

\* Call numbers identify a reply's addressee: they grow along the control
\* channel, and the command of the call being waited for is the one sent.
CallNumbers ==
    LET Q == 1 .. Len(controlq) IN
    /\ serving <= call
    /\ pc \in {"control", "data"} => serving = 0
    /\ \A i \in Q : controlq[i].call <= call
    /\ \A i \in Q : controlq[i].call = 0 <=> controlq[i].cmd \in {"Probe", "Shutdown"}
    /\ \A i, j \in Q : i < j /\ controlq[j].call # 0
                          => controlq[i].call < controlq[j].call
    /\ serving # 0 => \A i \in Q : controlq[i].call # 0 => serving < controlq[i].call
    /\ \A i \in Q : controlq[i].call = call /\ call # 0 =>
          /\ srv = "begin" => controlq[i].cmd = "Begin"
          /\ srv = "rollback" => controlq[i].cmd = "Rollback"
          /\ Alive /\ controlq[i].cmd = "Begin" => srv = "begin"
    /\ Alive /\ serving # 0 /\ serving = call => srv = "begin"
    /\ srv \in {"begin", "rollback"} => call # 0

\* No command in the control channel will change the actor's phase.
NoPhaseChange ==
    \A i \in 1 .. Len(controlq) : controlq[i].cmd \notin {"Begin", "Rollback"}

\* What the server thread may conclude about the actor from where it stands.
HandoffPhases ==
    /\ Alive /\ serving # 0 => dataq = <<>>
    /\ Alive /\ srv = "begin" /\ reply = "ok" =>
          state = "Quiesced" /\ serving = 0 /\ NoPhaseChange
    /\ Alive /\ srv = "rollback" /\ reply = "ok" =>
          state = "Running" /\ serving = 0 /\ NoPhaseChange
    /\ Alive /\ srv \in {"paused", "duplicate", "ready", "release", "released"} =>
          state = "Quiesced" /\ serving = 0 /\ NoPhaseChange
    /\ srv \in {"begin", "rollback", "paused", "duplicate", "ready", "release",
                "released", "gone"} => gate = "closed"
    /\ \A i \in 1 .. Len(controlq) : Alive /\ controlq[i].cmd = "Release" =>
          /\ state = "Quiesced" /\ serving = 0 /\ NoPhaseChange
          /\ srv \in {"release", "released", "gone"}
    /\ state = "Released" => ~Alive /\ srv \in {"release", "released", "gone"}

\* The inductive strengthening of the handoff properties.
IInv == TypeOK /\ CallNumbers /\ HandoffPhases /\ InFlight /\ QuiescedIsDrained
           /\ OpenGateMeansRunning

\* Back outside a handoff the gate is open again, unless a rollback was not
\* answered with Ok within its timeout: then typing stays refused.
GateReopens == srv = "idle" /\ gate = "closed" => stuck

\* Terminal responses, produced by the actor and by other threads, reach the
\* PTY in the order of their production; size reports in the order of resizes.
StreamsInOrder ==
    LET stream == pending \o Responses(responses)
    IN  \A i, j \in 1 .. Len(stream) :
           i < j /\ stream[i].kind = stream[j].kind => stream[i].n < stream[j].n

\* Once no request is queued the PTY has the size last asked for, unless a
\* resize overtook a queued nudge, which is then applied after it.
SizeSettles ==
    resizeReq = 0 /\ nudgeReq = 0 => ptySize = wanted \/ overtaken

\* What other threads leave for the actor in separate slots and queues is
\* applied in the order in which it was made: responses, size reports and the
\* size itself (drain_immediate_terminal_bytes, process_controls).
OrderKept == StreamsInOrder /\ SizeSettles

\* With a child that keeps reading, input accepted from the user reaches the
\* PTY (or the pane ends), without help from the idle timeout.
InputSettles ==
    \A n \in 1 .. MaxInputs : accepted >= n ~> settled >= n \/ ~Alive

=============================================================================
