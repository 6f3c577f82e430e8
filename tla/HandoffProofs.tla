--------------------------- MODULE HandoffProofs ---------------------------
(***************************************************************************)
(* Proofs about the two sides of a live handoff, for any number of panes   *)
(* and writers and any bounds: first PtyActor, the actor of one pane that  *)
(* is paused, duplicated, rolled back or released, then LiveHandoff, the   *)
(* servers and the importer that ask it to.  Each has an inductive         *)
(* invariant of its own, IInv and HandoffIInv.  IInv joins what the        *)
(* handles know (CallNumbers, HandoffPhases) to what happens to user input *)
(* (InFlight).                                                             *)
(***************************************************************************)
EXTENDS PtyActor, LiveHandoff, SequenceTheorems, TLAPS

-----------------------------------------------------------------------------
(* The sequences of the model.                                             *)

\* Users turns queued inputs into pending chunks, one for one.
LEMMA UsersFacts ==
    ASSUME NEW q \in Seq(Nat)
    PROVE  /\ Users(q) \in Seq(Chunks)
           /\ Len(Users(q)) = Len(q)
           /\ \A i \in 1 .. Len(q) : Users(q)[i] = User(q[i])
<1>1. \A i \in 1 .. Len(q) : User(q[i]) \in Chunks
  BY DEF User, Chunks
<1>2. Users(q) \in [1 .. Len(q) -> Chunks]
  BY <1>1 DEF Users
<1> QED
  BY <1>2 DEF Users

\* So does Responses, with chunks that are no user input.
LEMMA ResponsesFacts ==
    ASSUME NEW q \in Seq(Nat)
    PROVE  /\ Responses(q) \in Seq(Chunks)
           /\ Len(Responses(q)) = Len(q)
           /\ \A i \in 1 .. Len(q) : Responses(q)[i] = Response(q[i])
<1>1. \A i \in 1 .. Len(q) : Response(q[i]) \in Chunks
  BY DEF Response, Chunks
<1>2. Responses(q) \in [1 .. Len(q) -> Chunks]
  BY <1>1 DEF Responses
<1> QED
  BY <1>2 DEF Responses

\* The fronts of the control channel and of the pending writes.
LEMMA QueueFacts ==
    ASSUME HandlesOK, ActorOK
    PROVE  /\ call \in Nat /\ serving \in Nat
           /\ Len(controlq) \in Nat
           /\ \A i \in 1 .. Len(controlq) : controlq[i].call \in Nat
           /\ controlq # <<>> => Head(controlq).call \in Nat
           /\ pending # <<>> => /\ Tail(pending) \in Seq(Chunks)
                                /\ Head(pending) \in Chunks
                                /\ Head(pending).n \in Nat
<1>1. controlq # <<>> => Head(controlq) \in [cmd : Commands, call : Nat]
  BY HeadTailProperties DEF HandlesOK
<1>2. \A i \in 1 .. Len(controlq) : controlq[i] \in [cmd : Commands, call : Nat]
  BY ElementOfSeq DEF HandlesOK
<1>3. pending # <<>> => Head(pending) \in Chunks /\ Tail(pending) \in Seq(Chunks)
  BY HeadTailProperties DEF ActorOK
<1> QED
  BY <1>1, <1>2, <1>3, SMTT(30) DEF Chunks, HandlesOK, ActorOK

\* The control channel after a command was sent, element by element.
AppendEffect(cmd, n) ==
    /\ Len(controlq') = Len(controlq) + 1
    /\ \A i \in 1 .. Len(controlq') :
          \/ i \in 1 .. Len(controlq) /\ controlq'[i] = controlq[i]
          \/ i = Len(controlq) + 1 /\ controlq'[i].cmd = cmd /\ controlq'[i].call = n

LEMMA AppendFacts ==
    ASSUME HandlesOK, NEW cmd \in Commands, NEW n \in Nat,
           controlq' = Append(controlq, [cmd |-> cmd, call |-> n])
    PROVE  AppendEffect(cmd, n) /\ controlq' \in Seq([cmd : Commands, call : Nat])
<1> DEFINE e == [cmd |-> cmd, call |-> n]
<1>1. e \in [cmd : Commands, call : Nat] /\ e.cmd = cmd /\ e.call = n
  OBVIOUS
<1> HIDE DEF e
<1> QED
  BY <1>1, AppendProperties DEF HandlesOK, AppendEffect, e

\* The control channel after a command was received.
PopEffect ==
    /\ Len(controlq') = Len(controlq) - 1
    /\ \A i \in 1 .. Len(controlq') : controlq'[i] = controlq[i + 1]

LEMMA PopFacts ==
    ASSUME HandlesOK, controlq # <<>>, controlq' = Tail(controlq)
    PROVE  PopEffect
BY DEF HandlesOK, PopEffect

\* What a call of the server thread leaves behind.
SendEffect(cmd, waiting) ==
    /\ AppendEffect(cmd, call + 1)
    /\ call' = call + 1 /\ reply' = "none" /\ srv' = waiting
    /\ waking' \subseteq Threads

LEMMA SendFacts ==
    ASSUME HandlesOK, NEW cmd \in Commands, NEW waiting, Send(cmd, waiting)
    PROVE  /\ SendEffect(cmd, waiting)
           /\ controlq' \in Seq([cmd : Commands, call : Nat])
<1>1. call + 1 \in Nat
  BY DEF HandlesOK
<1>2. /\ AppendEffect(cmd, call + 1)
      /\ controlq' \in Seq([cmd : Commands, call : Nat])
  BY <1>1, AppendFacts DEF Send
<1> QED
  BY <1>2 DEF Send, SendEffect, HandlesOK, Threads

-----------------------------------------------------------------------------
(* Type correctness.                                                       *)

\* The Boolean flags.
LEMMA FlagsStep ==
    FlagsOK /\ [Next]_vars => FlagsOK'
<1> SUFFICES ASSUME FlagsOK, [Next]_vars PROVE FlagsOK'
  OBVIOUS
<1> USE DEF FlagsOK
<1>1. ASSUME NEW t \in Threads, WakeActor(t) PROVE FlagsOK'
  BY <1>1, Zenon DEF WakeActor, queueVars, controlVars, sizeVars, callerVars,
      actorVars
<1>2. ASSUME NEW w \in Writers, WriteCheck(w) PROVE FlagsOK'
  BY <1>2, Zenon DEF WriteCheck, writerFrame, queueVars, controlVars, sizeVars,
      callerVars, actorVars
<1>3. ASSUME NEW w \in Writers, WriteReserve(w) PROVE FlagsOK'
  BY <1>3, Zenon DEF WriteReserve, writerFrame, Alive, queueVars, controlVars,
      sizeVars, callerVars, actorVars
<1>4. ASSUME NEW w \in Writers, WriteSend(w) PROVE FlagsOK'
  BY <1>4, Zenon DEF WriteSend, Enqueue, writerFrame, Alive, queueVars,
      controlVars, sizeVars, callerVars, actorVars
<1>5. ASSUME NEW w \in Writers, TryWrite(w) PROVE FlagsOK'
  BY <1>5, Zenon DEF TryWrite, Enqueue, writerFrame, Alive, queueVars,
      controlVars, sizeVars, callerVars, actorVars
<1>6. CASE RespondProduce
  BY <1>6, Zenon DEF RespondProduce, queueVars, controlVars, sizeVars,
      callerVars, actorVars
<1>7. CASE RespondQueue
  BY <1>7, Zenon DEF RespondQueue, queueVars, controlVars, sizeVars,
      callerVars, actorVars
<1>8. CASE Resize
  BY <1>8, Zenon DEF Resize, queueVars, controlVars, sizeVars, callerVars,
      actorVars
<1>9. CASE Nudge
  BY <1>9, Zenon DEF Nudge, queueVars, controlVars, sizeVars, callerVars,
      actorVars
<1>10. CASE Probe
  BY <1>10, Zenon DEF Probe, Alive, Commands, queueVars, controlVars, sizeVars,
      callerVars, actorVars
<1>11. CASE BeginHandoff
  BY <1>11, Zenon DEF BeginHandoff, Send, SendFails, serverFrame, Alive,
      Commands, queueVars, controlVars, sizeVars, callerVars, actorVars
<1>12. CASE BeginReturns
  BY <1>12, Zenon DEF BeginReturns, serverFrame, queueVars, controlVars,
      sizeVars, callerVars, actorVars
<1>13. CASE RollbackHandoff
  BY <1>13, Zenon DEF RollbackHandoff, Send, SendFails, serverFrame, Alive,
      Commands, queueVars, controlVars, sizeVars, callerVars, actorVars
<1>14. CASE RollbackReturns
  BY <1>14, Zenon DEF RollbackReturns, serverFrame, queueVars, controlVars,
      sizeVars, callerVars, actorVars
<1>15. CASE DuplicateForHandoff
  BY <1>15, Zenon DEF DuplicateForHandoff, Send, SendFails, serverFrame, Alive,
      Commands, queueVars, controlVars, sizeVars, callerVars, actorVars
<1>16. CASE DuplicateReturns
  BY <1>16, Zenon DEF DuplicateReturns, serverFrame, queueVars, controlVars,
      sizeVars, callerVars, actorVars
<1>17. CASE ReleaseAfterCommit
  BY <1>17, Zenon DEF ReleaseAfterCommit, Send, SendFails, serverFrame, Alive,
      Commands, queueVars, controlVars, sizeVars, callerVars, actorVars
<1>18. CASE ReleaseReturns
  BY <1>18, Zenon DEF ReleaseReturns, serverFrame, queueVars, controlVars,
      sizeVars, callerVars, actorVars
<1>19. CASE Shutdown
  BY <1>19, Zenon DEF Shutdown, serverFrame, Alive, Commands, queueVars,
      controlVars, sizeVars, callerVars, actorVars
<1>20. CASE ControlEmpty
  BY <1>20, Zenon DEF ControlEmpty, handleFrame, queueVars, controlVars,
      sizeVars, callerVars, actorVars
<1>21. CASE HandleBegin
  BY <1>21, Zenon DEF HandleBegin, Receive, Reply, handleFrame, Users, User,
      Chunks, queueVars, controlVars, sizeVars, callerVars, actorVars
<1>22. CASE HandleDuplicate
  BY <1>22, Zenon DEF HandleDuplicate, Receive, Reply, handleFrame, queueVars,
      controlVars, sizeVars, callerVars, actorVars
<1>23. CASE HandleProbe
  BY <1>23, Zenon DEF HandleProbe, Receive, Reply, handleFrame, queueVars,
      controlVars, sizeVars, callerVars, actorVars
<1>24. CASE HandleRollback
  BY <1>24, Zenon DEF HandleRollback, Receive, Reply, handleFrame, queueVars,
      controlVars, sizeVars, callerVars, actorVars
<1>25. CASE HandleRelease
  BY <1>25, Zenon DEF HandleRelease, Receive, Reply, handleFrame, queueVars,
      controlVars, sizeVars, callerVars, actorVars
<1>26. CASE HandleShutdown
  BY <1>26, Zenon DEF HandleShutdown, Receive, Reply, handleFrame, queueVars,
      controlVars, sizeVars, callerVars, actorVars
<1>27. CASE DrainData
  BY <1>27, Zenon DEF DrainData, handleFrame, User, Chunks, queueVars,
      controlVars, sizeVars, callerVars, actorVars
<1>28. CASE ApplyControls
  BY <1>28, Zenon DEF ApplyControls, handleFrame, Responses, Response, Report,
      Chunks, queueVars, controlVars, sizeVars, callerVars, actorVars
<1>29. CASE FlushStops
  BY <1>29, Zenon DEF FlushStops, AfterFlush, flushFrame, handleFrame,
      queueVars, controlVars, sizeVars, callerVars, actorVars
<1>30. CASE FlushWrite
  BY <1>30, Zenon DEF FlushWrite, flushFrame, handleFrame, Chunks, queueVars,
      controlVars, sizeVars, callerVars, actorVars
<1>31. CASE FlushFails
  BY <1>31, Zenon DEF FlushFails, AfterFlush, flushFrame, handleFrame,
      queueVars, controlVars, sizeVars, callerVars, actorVars
<1>32. CASE PollWake
  BY <1>32, Zenon DEF PollWake, ioFrame, handleFrame, queueVars, controlVars,
      sizeVars, callerVars, actorVars
<1>33. CASE PollReadable
  BY <1>33, Zenon DEF PollReadable, ioFrame, handleFrame, queueVars,
      controlVars, sizeVars, callerVars, actorVars
<1>34. CASE PollWritable
  BY <1>34, Zenon DEF PollWritable, ioFrame, handleFrame, queueVars,
      controlVars, sizeVars, callerVars, actorVars
<1>35. CASE PollIdle
  BY <1>35, Zenon DEF PollIdle, ioFrame, handleFrame, queueVars, controlVars,
      sizeVars, callerVars, actorVars
<1>36. CASE PollFails
  BY <1>36, Zenon DEF PollFails, ioFrame, handleFrame, queueVars, controlVars,
      sizeVars, callerVars, actorVars
<1>37. CASE QuiesceDone
  BY <1>37, Zenon DEF QuiesceDone, Reply, ioFrame, handleFrame, queueVars,
      controlVars, sizeVars, callerVars, actorVars
<1>38. CASE QuiesceFails
  BY <1>38, Zenon DEF QuiesceFails, Reply, ioFrame, handleFrame, queueVars,
      controlVars, sizeVars, callerVars, actorVars
<1>39. CASE QuiescePoll
  BY <1>39, Zenon DEF QuiescePoll, ioFrame, handleFrame, queueVars,
      controlVars, sizeVars, callerVars, actorVars
<1>40. CASE ReadOutput
  BY <1>40, Zenon DEF ReadOutput, handleFrame, queueVars, controlVars,
      sizeVars, callerVars, actorVars
<1>41. CASE ReadQueue
  BY <1>41, Zenon DEF ReadQueue, handleFrame, queueVars, controlVars, sizeVars,
      callerVars, actorVars
<1>42. CASE ReadTake
  BY <1>42, Zenon DEF ReadTake, handleFrame, Responses, Response, Chunks,
      queueVars, controlVars, sizeVars, callerVars, actorVars
<1>43. CASE ReadNothing
  BY <1>43, Zenon DEF ReadNothing, ioFrame, handleFrame, queueVars,
      controlVars, sizeVars, callerVars, actorVars
<1>44. CASE ReadClosed
  BY <1>44, Zenon DEF ReadClosed, Reply, ioFrame, handleFrame, queueVars,
      controlVars, sizeVars, callerVars, actorVars
<1>45. CASE UNCHANGED vars
  BY <1>45, Zenon DEF vars, queueVars, controlVars, sizeVars, callerVars,
      actorVars
<1> QED
  BY <1>1, <1>2, <1>3, <1>4, <1>5, <1>6, <1>7, <1>8, <1>9, <1>10, <1>11, <1>12,
      <1>13, <1>14, <1>15, <1>16, <1>17, <1>18, <1>19, <1>20, <1>21, <1>22,
      <1>23, <1>24, <1>25, <1>26, <1>27, <1>28, <1>29, <1>30, <1>31, <1>32,
      <1>33, <1>34, <1>35, <1>36, <1>37, <1>38, <1>39, <1>40, <1>41, <1>42,
      <1>43, <1>44, <1>45 DEF Next, Handles, Actor,
      ActorOwn, HandleControl

\* What the handles share and the callers keep.
LEMMA HandlesStep ==
    HandlesOK /\ ActorOK /\ [Next]_vars => HandlesOK'
<1> SUFFICES ASSUME HandlesOK, ActorOK, [Next]_vars PROVE HandlesOK'
  OBVIOUS
<1>1. ASSUME NEW w \in Writers, WriteSend(w) PROVE HandlesOK'
  <2>1. dataq' \in Seq(Nat) /\ waking' \subseteq Threads
    <3>1. CASE gate = "open"
      <4>1. Append(dataq, accepted + 1) \in Seq(Nat)
        BY AppendProperties DEF HandlesOK, ActorOK
      <4>2. /\ dataq' \in {dataq, Append(dataq, accepted + 1)}
            /\ waking' = waking \cup {w}
        BY <3>1, <1>1 DEF WriteSend, Enqueue
      <4> QED
        BY <4>1, <4>2 DEF HandlesOK, Threads
    <3>2. CASE gate # "open"
      BY <3>2, <1>1 DEF WriteSend, HandlesOK
    <3> QED
      BY <3>1, <3>2
  <2> QED
    BY <2>1, <1>1 DEF WriteSend, writerFrame, controlVars, HandlesOK
<1>2. CASE BeginHandoff
  <2>1. CASE Alive
    <3>1. Send("Begin", "begin")
      BY <2>1, <1>2 DEF BeginHandoff
    <3>2. /\ SendEffect("Begin", "begin")
          /\ controlq' \in Seq([cmd : Commands, call : Nat])
      BY <3>1, SendFacts DEF Commands
    <3> QED
      BY <2>1, <3>2, <1>2 DEF BeginHandoff, SendEffect,
      AppendEffect, serverFrame,
      HandlesOK, queueVars, controlVars, sizeVars, callerVars,
      actorVars
  <2>2. CASE ~Alive
    BY <2>2, <1>2 DEF BeginHandoff, SendFails, serverFrame,
      HandlesOK, queueVars, controlVars, sizeVars, callerVars,
      actorVars
  <2> QED
    BY <2>1, <2>2
<1>3. CASE RollbackHandoff
  <2>1. CASE Alive
    <3>1. Send("Rollback", "rollback")
      BY <2>1, <1>3 DEF RollbackHandoff
    <3>2. /\ SendEffect("Rollback", "rollback")
          /\ controlq' \in Seq([cmd : Commands, call : Nat])
      BY <3>1, SendFacts DEF Commands
    <3> QED
      BY <2>1, <3>2, <1>3 DEF RollbackHandoff, SendEffect,
      AppendEffect, serverFrame,
      HandlesOK, queueVars, controlVars, sizeVars, callerVars,
      actorVars
  <2>2. CASE ~Alive
    BY <2>2, <1>3 DEF RollbackHandoff, SendFails, serverFrame,
      HandlesOK, queueVars, controlVars, sizeVars, callerVars,
      actorVars
  <2> QED
    BY <2>1, <2>2
<1>4. CASE DuplicateForHandoff
  <2>1. CASE Alive
    <3>1. Send("Duplicate", "duplicate")
      BY <2>1, <1>4 DEF DuplicateForHandoff
    <3>2. /\ SendEffect("Duplicate", "duplicate")
          /\ controlq' \in Seq([cmd : Commands, call : Nat])
      BY <3>1, SendFacts DEF Commands
    <3> QED
      BY <2>1, <3>2, <1>4 DEF DuplicateForHandoff, SendEffect,
      AppendEffect, serverFrame,
      HandlesOK, queueVars, controlVars, sizeVars, callerVars,
      actorVars
  <2>2. CASE ~Alive
    BY <2>2, <1>4 DEF DuplicateForHandoff, SendFails, serverFrame,
      HandlesOK, queueVars, controlVars, sizeVars, callerVars,
      actorVars
  <2> QED
    BY <2>1, <2>2
<1>5. CASE ReleaseAfterCommit
  <2>1. CASE Alive
    <3>1. Send("Release", "release")
      BY <2>1, <1>5 DEF ReleaseAfterCommit
    <3>2. /\ SendEffect("Release", "release")
          /\ controlq' \in Seq([cmd : Commands, call : Nat])
      BY <3>1, SendFacts DEF Commands
    <3> QED
      BY <2>1, <3>2, <1>5 DEF ReleaseAfterCommit, SendEffect,
      AppendEffect, serverFrame,
      HandlesOK, queueVars, controlVars, sizeVars, callerVars,
      actorVars
  <2>2. CASE ~Alive
    BY <2>2, <1>5 DEF ReleaseAfterCommit, SendFails, serverFrame,
      HandlesOK, queueVars, controlVars, sizeVars, callerVars,
      actorVars
  <2> QED
    BY <2>1, <2>2
<1>6. CASE Shutdown
  <2>1. CASE Alive
    <3>1. [cmd |-> "Shutdown", call |-> 0] \in [cmd : Commands, call : Nat]
      BY DEF Commands
    <3>2. /\ controlq' = Append(controlq, [cmd |-> "Shutdown", call |-> 0])
          /\ waking' = waking \cup {Server}
      BY <2>1, <1>6 DEF Shutdown
    <3>3. controlq' \in Seq([cmd : Commands, call : Nat]) /\ waking' \subseteq Threads
      BY <3>1, <3>2, AppendProperties DEF Threads, HandlesOK
    <3> QED
      BY <3>3, <1>6 DEF Shutdown, serverFrame, controlVars, HandlesOK
  <2>2. CASE ~Alive
    BY <2>2, <1>6 DEF Shutdown, serverFrame, controlVars, HandlesOK
  <2> QED
    BY <2>1, <2>2
<1>7. CASE DrainData
  <2>1. dataq' \in Seq(Nat)
    BY <1>7, HeadTailProperties DEF DrainData, HandlesOK
  <2> QED
    BY <2>1, <1>7 DEF DrainData, controlVars, handleFrame, callerVars,
       HandlesOK
<1> USE ConstantsAssumption, ThreadsAssumption DEF HandlesOK, ActorOK, Threads
<1>8. ASSUME NEW t \in Threads, WakeActor(t) PROVE HandlesOK'
  BY <1>8 DEF WakeActor, queueVars, controlVars, sizeVars, callerVars,
      actorVars
<1>9. ASSUME NEW w \in Writers, WriteCheck(w) PROVE HandlesOK'
  BY <1>9 DEF WriteCheck, writerFrame, queueVars, controlVars, sizeVars,
      callerVars, actorVars
<1>10. ASSUME NEW w \in Writers, WriteReserve(w) PROVE HandlesOK'
  BY <1>10 DEF WriteReserve, writerFrame, Alive, queueVars, controlVars,
      sizeVars, callerVars, actorVars
<1>11. ASSUME NEW w \in Writers, TryWrite(w) PROVE HandlesOK'
  BY <1>11 DEF TryWrite, Enqueue, writerFrame, Alive, queueVars, controlVars,
      sizeVars, callerVars, actorVars
<1>12. CASE RespondProduce
  BY <1>12 DEF RespondProduce, queueVars, controlVars, sizeVars, callerVars,
      actorVars
<1>13. CASE RespondQueue
  BY <1>13 DEF RespondQueue, queueVars, controlVars, sizeVars, callerVars,
      actorVars
<1>14. CASE Resize
  BY <1>14 DEF Resize, queueVars, controlVars, sizeVars, callerVars, actorVars
<1>15. CASE Nudge
  BY <1>15 DEF Nudge, queueVars, controlVars, sizeVars, callerVars, actorVars
<1>16. CASE Probe
  BY <1>16 DEF Probe, Alive, Commands, queueVars, controlVars, sizeVars,
      callerVars, actorVars
<1>17. CASE BeginReturns
  BY <1>17 DEF BeginReturns, serverFrame, queueVars, controlVars, sizeVars,
      callerVars, actorVars
<1>18. CASE RollbackReturns
  BY <1>18 DEF RollbackReturns, serverFrame, queueVars, controlVars, sizeVars,
      callerVars, actorVars
<1>19. CASE DuplicateReturns
  BY <1>19 DEF DuplicateReturns, serverFrame, queueVars, controlVars, sizeVars,
      callerVars, actorVars
<1>20. CASE ReleaseReturns
  BY <1>20 DEF ReleaseReturns, serverFrame, queueVars, controlVars, sizeVars,
      callerVars, actorVars
<1>21. CASE ControlEmpty
  BY <1>21 DEF ControlEmpty, handleFrame, queueVars, controlVars, sizeVars,
      callerVars, actorVars
<1>22. CASE HandleBegin
  BY <1>22 DEF HandleBegin, Receive, Reply, handleFrame, Users, User, Chunks,
      queueVars, controlVars, sizeVars, callerVars, actorVars
<1>23. CASE HandleDuplicate
  BY <1>23 DEF HandleDuplicate, Receive, Reply, handleFrame, queueVars,
      controlVars, sizeVars, callerVars, actorVars
<1>24. CASE HandleProbe
  BY <1>24 DEF HandleProbe, Receive, Reply, handleFrame, queueVars,
      controlVars, sizeVars, callerVars, actorVars
<1>25. CASE HandleRollback
  BY <1>25 DEF HandleRollback, Receive, Reply, handleFrame, queueVars,
      controlVars, sizeVars, callerVars, actorVars
<1>26. CASE HandleRelease
  BY <1>26 DEF HandleRelease, Receive, Reply, handleFrame, queueVars,
      controlVars, sizeVars, callerVars, actorVars
<1>27. CASE HandleShutdown
  BY <1>27 DEF HandleShutdown, Receive, Reply, handleFrame, queueVars,
      controlVars, sizeVars, callerVars, actorVars
<1>28. CASE ApplyControls
  BY <1>28 DEF ApplyControls, handleFrame, Responses, Response, Report, Chunks,
      queueVars, controlVars, sizeVars, callerVars, actorVars
<1>29. CASE FlushStops
  BY <1>29 DEF FlushStops, AfterFlush, flushFrame, handleFrame, queueVars,
      controlVars, sizeVars, callerVars, actorVars
<1>30. CASE FlushWrite
  BY <1>30 DEF FlushWrite, flushFrame, handleFrame, Chunks, queueVars,
      controlVars, sizeVars, callerVars, actorVars
<1>31. CASE FlushFails
  BY <1>31 DEF FlushFails, AfterFlush, flushFrame, handleFrame, queueVars,
      controlVars, sizeVars, callerVars, actorVars
<1>32. CASE PollWake
  BY <1>32 DEF PollWake, ioFrame, handleFrame, queueVars, controlVars,
      sizeVars, callerVars, actorVars
<1>33. CASE PollReadable
  BY <1>33 DEF PollReadable, ioFrame, handleFrame, queueVars, controlVars,
      sizeVars, callerVars, actorVars
<1>34. CASE PollWritable
  BY <1>34 DEF PollWritable, ioFrame, handleFrame, queueVars, controlVars,
      sizeVars, callerVars, actorVars
<1>35. CASE PollIdle
  BY <1>35 DEF PollIdle, ioFrame, handleFrame, queueVars, controlVars,
      sizeVars, callerVars, actorVars
<1>36. CASE PollFails
  BY <1>36 DEF PollFails, ioFrame, handleFrame, queueVars, controlVars,
      sizeVars, callerVars, actorVars
<1>37. CASE QuiesceDone
  BY <1>37 DEF QuiesceDone, Reply, ioFrame, handleFrame, queueVars,
      controlVars, sizeVars, callerVars, actorVars
<1>38. CASE QuiesceFails
  BY <1>38 DEF QuiesceFails, Reply, ioFrame, handleFrame, queueVars,
      controlVars, sizeVars, callerVars, actorVars
<1>39. CASE QuiescePoll
  BY <1>39 DEF QuiescePoll, ioFrame, handleFrame, queueVars, controlVars,
      sizeVars, callerVars, actorVars
<1>40. CASE ReadOutput
  BY <1>40 DEF ReadOutput, handleFrame, queueVars, controlVars, sizeVars,
      callerVars, actorVars
<1>41. CASE ReadQueue
  BY <1>41 DEF ReadQueue, handleFrame, queueVars, controlVars, sizeVars,
      callerVars, actorVars
<1>42. CASE ReadTake
  BY <1>42 DEF ReadTake, handleFrame, Responses, Response, Chunks, queueVars,
      controlVars, sizeVars, callerVars, actorVars
<1>43. CASE ReadNothing
  BY <1>43 DEF ReadNothing, ioFrame, handleFrame, queueVars, controlVars,
      sizeVars, callerVars, actorVars
<1>44. CASE ReadClosed
  BY <1>44 DEF ReadClosed, Reply, ioFrame, handleFrame, queueVars, controlVars,
      sizeVars, callerVars, actorVars
<1>45. CASE UNCHANGED vars
  BY <1>45 DEF vars, queueVars, controlVars, sizeVars, callerVars, actorVars
<1> QED
  BY <1>1, <1>2, <1>3, <1>4, <1>5, <1>6, <1>7, <1>8, <1>9, <1>10, <1>11, <1>12,
      <1>13, <1>14, <1>15, <1>16, <1>17, <1>18, <1>19, <1>20, <1>21, <1>22,
      <1>23, <1>24, <1>25, <1>26, <1>27, <1>28, <1>29, <1>30, <1>31, <1>32,
      <1>33, <1>34, <1>35, <1>36, <1>37, <1>38, <1>39, <1>40, <1>41, <1>42,
      <1>43, <1>44, <1>45 DEF Next, Handles, Actor,
      ActorOwn, HandleControl

\* What the actor keeps, and the history.
LEMMA ActorTypeStep ==
    HandlesOK /\ ActorOK /\ [Next]_vars => ActorOK'
<1> SUFFICES ASSUME HandlesOK, ActorOK, [Next]_vars PROVE ActorOK'
  OBVIOUS
<1>1. CASE HandleBegin
  <2>1. pending' \in Seq(Chunks)
    BY <1>1, UsersFacts, ConcatProperties DEF HandleBegin, HandlesOK, ActorOK
  <2>2. Head(controlq).call \in Nat
    BY <1>1, QueueFacts DEF HandleBegin, Receive
  <2> QED
    BY <2>1, <2>2, <1>1 DEF HandleBegin, Receive, handleFrame, ActorOK
<1>2. CASE DrainData
  <2>1. pending' \in Seq(Chunks)
    <3>1. CASE dataq = <<>>
      BY <3>1, <1>2 DEF DrainData, ActorOK
    <3>2. CASE dataq # <<>>
      <4>1. Head(dataq) \in Nat
        BY <3>2, HeadTailProperties DEF HandlesOK
      <4>2. User(Head(dataq)) \in Chunks
        BY <4>1 DEF User, Chunks
      <4>3. Append(pending, User(Head(dataq))) \in Seq(Chunks)
        BY <4>2, AppendProperties DEF ActorOK
      <4>4. pending' \in {pending, Append(pending, User(Head(dataq)))}
        BY <3>2, <1>2 DEF DrainData
      <4> QED
        BY <4>3, <4>4 DEF ActorOK
    <3> QED
      BY <3>1, <3>2
  <2> QED
    BY <2>1, <1>2 DEF DrainData, handleFrame, ActorOK
<1>3. CASE ApplyControls
  <2>1. Report(resizeReq) \in Chunks
    BY DEF Report, Chunks, HandlesOK
  <2>2. (IF resizeReq # 0 THEN <<Report(resizeReq)>> ELSE <<>>) \in Seq(Chunks)
    BY <2>1
  <2>3. pending' \in Seq(Chunks)
    BY <2>2, <1>3, ResponsesFacts, ConcatProperties DEF ApplyControls,
       HandlesOK, ActorOK
  <2> QED
    BY <2>3, <1>3 DEF ApplyControls, handleFrame, HandlesOK, ActorOK
<1>4. CASE FlushWrite
  <2>1. pending # <<>>
    BY <1>4 DEF FlushWrite
  <2>2. Tail(pending) \in Seq(Chunks) /\ Head(pending).n \in Nat
    BY <2>1, QueueFacts
  <2>3. PICK k \in 1 .. (ChunkLen - offset) :
          IF offset + k = ChunkLen
          THEN /\ pending' = Tail(pending)
               /\ offset' = 0
               /\ settled' = IF Head(pending).kind = "user" THEN Head(pending).n
                             ELSE settled
          ELSE offset' = offset + k /\ UNCHANGED <<pending, settled>>
    BY <1>4 DEF FlushWrite
  <2>4. pending' \in Seq(Chunks) /\ settled' \in Int /\ offset' \in 0 .. (ChunkLen - 1)
    BY <2>2, <2>3, ConstantsAssumption, SMTT(30) DEF ActorOK
  <2> QED
    BY <2>4, <1>4 DEF FlushWrite, flushFrame, handleFrame, ActorOK
<1>5. CASE ReadTake
  <2>1. pending' \in Seq(Chunks)
    BY <1>5, ResponsesFacts, ConcatProperties DEF ReadTake, HandlesOK, ActorOK
  <2> QED
    BY <2>1, <1>5 DEF ReadTake, handleFrame, ActorOK
<1> USE ConstantsAssumption DEF HandlesOK, ActorOK
<1>6. ASSUME NEW t \in Threads, WakeActor(t) PROVE ActorOK'
  BY <1>6 DEF WakeActor, queueVars, controlVars, sizeVars, callerVars,
      actorVars
<1>7. ASSUME NEW w \in Writers, WriteCheck(w) PROVE ActorOK'
  BY <1>7 DEF WriteCheck, writerFrame, queueVars, controlVars, sizeVars,
      callerVars, actorVars
<1>8. ASSUME NEW w \in Writers, WriteReserve(w) PROVE ActorOK'
  BY <1>8 DEF WriteReserve, writerFrame, Alive, queueVars, controlVars,
      sizeVars, callerVars, actorVars
<1>9. ASSUME NEW w \in Writers, WriteSend(w) PROVE ActorOK'
  BY <1>9 DEF WriteSend, Enqueue, writerFrame, Alive, queueVars, controlVars,
      sizeVars, callerVars, actorVars
<1>10. ASSUME NEW w \in Writers, TryWrite(w) PROVE ActorOK'
  BY <1>10 DEF TryWrite, Enqueue, writerFrame, Alive, queueVars, controlVars,
      sizeVars, callerVars, actorVars
<1>11. CASE RespondProduce
  BY <1>11 DEF RespondProduce, queueVars, controlVars, sizeVars, callerVars,
      actorVars
<1>12. CASE RespondQueue
  BY <1>12 DEF RespondQueue, queueVars, controlVars, sizeVars, callerVars,
      actorVars
<1>13. CASE Resize
  BY <1>13 DEF Resize, queueVars, controlVars, sizeVars, callerVars, actorVars
<1>14. CASE Nudge
  BY <1>14 DEF Nudge, queueVars, controlVars, sizeVars, callerVars, actorVars
<1>15. CASE Probe
  BY <1>15 DEF Probe, Alive, Commands, queueVars, controlVars, sizeVars,
      callerVars, actorVars
<1>16. CASE BeginHandoff
  BY <1>16 DEF BeginHandoff, Send, SendFails, serverFrame, Alive, Commands,
      queueVars, controlVars, sizeVars, callerVars, actorVars
<1>17. CASE BeginReturns
  BY <1>17 DEF BeginReturns, serverFrame, queueVars, controlVars, sizeVars,
      callerVars, actorVars
<1>18. CASE RollbackHandoff
  BY <1>18 DEF RollbackHandoff, Send, SendFails, serverFrame, Alive, Commands,
      queueVars, controlVars, sizeVars, callerVars, actorVars
<1>19. CASE RollbackReturns
  BY <1>19 DEF RollbackReturns, serverFrame, queueVars, controlVars, sizeVars,
      callerVars, actorVars
<1>20. CASE DuplicateForHandoff
  BY <1>20 DEF DuplicateForHandoff, Send, SendFails, serverFrame, Alive,
      Commands, queueVars, controlVars, sizeVars, callerVars, actorVars
<1>21. CASE DuplicateReturns
  BY <1>21 DEF DuplicateReturns, serverFrame, queueVars, controlVars, sizeVars,
      callerVars, actorVars
<1>22. CASE ReleaseAfterCommit
  BY <1>22 DEF ReleaseAfterCommit, Send, SendFails, serverFrame, Alive,
      Commands, queueVars, controlVars, sizeVars, callerVars, actorVars
<1>23. CASE ReleaseReturns
  BY <1>23 DEF ReleaseReturns, serverFrame, queueVars, controlVars, sizeVars,
      callerVars, actorVars
<1>24. CASE Shutdown
  BY <1>24 DEF Shutdown, serverFrame, Alive, Commands, queueVars, controlVars,
      sizeVars, callerVars, actorVars
<1>25. CASE ControlEmpty
  BY <1>25 DEF ControlEmpty, handleFrame, queueVars, controlVars, sizeVars,
      callerVars, actorVars
<1>26. CASE HandleDuplicate
  BY <1>26 DEF HandleDuplicate, Receive, Reply, handleFrame, queueVars,
      controlVars, sizeVars, callerVars, actorVars
<1>27. CASE HandleProbe
  BY <1>27 DEF HandleProbe, Receive, Reply, handleFrame, queueVars,
      controlVars, sizeVars, callerVars, actorVars
<1>28. CASE HandleRollback
  BY <1>28 DEF HandleRollback, Receive, Reply, handleFrame, queueVars,
      controlVars, sizeVars, callerVars, actorVars
<1>29. CASE HandleRelease
  BY <1>29 DEF HandleRelease, Receive, Reply, handleFrame, queueVars,
      controlVars, sizeVars, callerVars, actorVars
<1>30. CASE HandleShutdown
  BY <1>30 DEF HandleShutdown, Receive, Reply, handleFrame, queueVars,
      controlVars, sizeVars, callerVars, actorVars
<1>31. CASE FlushStops
  BY <1>31 DEF FlushStops, AfterFlush, flushFrame, handleFrame, queueVars,
      controlVars, sizeVars, callerVars, actorVars
<1>32. CASE FlushFails
  BY <1>32 DEF FlushFails, AfterFlush, flushFrame, handleFrame, queueVars,
      controlVars, sizeVars, callerVars, actorVars
<1>33. CASE PollWake
  BY <1>33 DEF PollWake, ioFrame, handleFrame, queueVars, controlVars,
      sizeVars, callerVars, actorVars
<1>34. CASE PollReadable
  BY <1>34 DEF PollReadable, ioFrame, handleFrame, queueVars, controlVars,
      sizeVars, callerVars, actorVars
<1>35. CASE PollWritable
  BY <1>35 DEF PollWritable, ioFrame, handleFrame, queueVars, controlVars,
      sizeVars, callerVars, actorVars
<1>36. CASE PollIdle
  BY <1>36 DEF PollIdle, ioFrame, handleFrame, queueVars, controlVars,
      sizeVars, callerVars, actorVars
<1>37. CASE PollFails
  BY <1>37 DEF PollFails, ioFrame, handleFrame, queueVars, controlVars,
      sizeVars, callerVars, actorVars
<1>38. CASE QuiesceDone
  BY <1>38 DEF QuiesceDone, Reply, ioFrame, handleFrame, queueVars,
      controlVars, sizeVars, callerVars, actorVars
<1>39. CASE QuiesceFails
  BY <1>39 DEF QuiesceFails, Reply, ioFrame, handleFrame, queueVars,
      controlVars, sizeVars, callerVars, actorVars
<1>40. CASE QuiescePoll
  BY <1>40 DEF QuiescePoll, ioFrame, handleFrame, queueVars, controlVars,
      sizeVars, callerVars, actorVars
<1>41. CASE ReadOutput
  BY <1>41 DEF ReadOutput, handleFrame, queueVars, controlVars, sizeVars,
      callerVars, actorVars
<1>42. CASE ReadQueue
  BY <1>42 DEF ReadQueue, handleFrame, queueVars, controlVars, sizeVars,
      callerVars, actorVars
<1>43. CASE ReadNothing
  BY <1>43 DEF ReadNothing, ioFrame, handleFrame, queueVars, controlVars,
      sizeVars, callerVars, actorVars
<1>44. CASE ReadClosed
  BY <1>44 DEF ReadClosed, Reply, ioFrame, handleFrame, queueVars, controlVars,
      sizeVars, callerVars, actorVars
<1>45. CASE UNCHANGED vars
  BY <1>45 DEF vars, queueVars, controlVars, sizeVars, callerVars, actorVars
<1> QED
  BY <1>1, <1>2, <1>3, <1>4, <1>5, <1>6, <1>7, <1>8, <1>9, <1>10, <1>11, <1>12,
      <1>13, <1>14, <1>15, <1>16, <1>17, <1>18, <1>19, <1>20, <1>21, <1>22,
      <1>23, <1>24, <1>25, <1>26, <1>27, <1>28, <1>29, <1>30, <1>31, <1>32,
      <1>33, <1>34, <1>35, <1>36, <1>37, <1>38, <1>39, <1>40, <1>41, <1>42,
      <1>43, <1>44, <1>45 DEF Next, Handles, Actor,
      ActorOwn, HandleControl

-----------------------------------------------------------------------------
(* The numbering of calls.                                                 *)

\* A new call has the highest number of all.
LEMMA SentNumbers ==
    ASSUME HandlesOK, ActorOK, CallNumbers,
           NEW cmd \in Commands \ {"Probe", "Shutdown"}, NEW waiting,
           waiting = "begin" <=> cmd = "Begin",
           waiting = "rollback" => cmd = "Rollback",
           SendEffect(cmd, waiting), UNCHANGED <<pc, serving>>
    PROVE  CallNumbers'
<1>1. (serving <= call)'
  BY QueueFacts DEF CallNumbers, SendEffect, AppendEffect, Alive
<1>2. (pc \in {"control", "data"} => serving = 0)'
  BY QueueFacts DEF CallNumbers, SendEffect, AppendEffect, Alive
<1>3. (\A i \in 1 .. Len(controlq) : controlq[i].call <= call)'
  BY QueueFacts DEF CallNumbers, SendEffect, AppendEffect, Alive
<1>4. (\A i \in 1 .. Len(controlq) :
          controlq[i].call = 0 <=> controlq[i].cmd \in {"Probe", "Shutdown"})'
  BY QueueFacts DEF CallNumbers, SendEffect, AppendEffect, Alive
<1>5. (\A i, j \in 1 .. Len(controlq) :
          i < j /\ controlq[j].call # 0 => controlq[i].call < controlq[j].call)'
  BY QueueFacts, SMTT(30) DEF CallNumbers, SendEffect, AppendEffect, Alive
<1>6. (serving # 0 => \A i \in 1 .. Len(controlq) :
          controlq[i].call # 0 => serving < controlq[i].call)'
  BY QueueFacts DEF CallNumbers, SendEffect, AppendEffect, Alive
<1>7. (\A i \in 1 .. Len(controlq) : controlq[i].call = call /\ call # 0 =>
          /\ srv = "begin" => controlq[i].cmd = "Begin"
          /\ srv = "rollback" => controlq[i].cmd = "Rollback"
          /\ Alive /\ controlq[i].cmd = "Begin" => srv = "begin")'
  BY QueueFacts DEF CallNumbers, SendEffect, AppendEffect, Alive
<1>8. (Alive /\ serving # 0 /\ serving = call => srv = "begin")'
  BY QueueFacts DEF CallNumbers, SendEffect, AppendEffect, Alive
<1>9. (srv \in {"begin", "rollback"} => call # 0)'
  BY QueueFacts DEF CallNumbers, SendEffect, AppendEffect, Alive
<1> QED
  BY <1>1, <1>2, <1>3, <1>4, <1>5, <1>6, <1>7, <1>8, <1>9 DEF CallNumbers

\* Commands without a reply are numbered 0.
LEMMA UnnumberedNumbers ==
    ASSUME HandlesOK, ActorOK, CallNumbers,
           NEW cmd \in {"Probe", "Shutdown"}, AppendEffect(cmd, 0),
           srv' = srv \/ (srv' = "gone" /\ srv \notin {"begin", "rollback"}),
           UNCHANGED <<call, pc, serving>>
    PROVE  CallNumbers'
<1>1. (serving <= call)'
  BY QueueFacts DEF CallNumbers, AppendEffect, Alive
<1>2. (pc \in {"control", "data"} => serving = 0)'
  BY QueueFacts DEF CallNumbers, AppendEffect, Alive
<1>3. (\A i \in 1 .. Len(controlq) : controlq[i].call <= call)'
  BY QueueFacts DEF CallNumbers, AppendEffect, Alive
<1>4. (\A i \in 1 .. Len(controlq) :
          controlq[i].call = 0 <=> controlq[i].cmd \in {"Probe", "Shutdown"})'
  BY QueueFacts DEF CallNumbers, AppendEffect, Alive
<1>5. (\A i, j \in 1 .. Len(controlq) :
          i < j /\ controlq[j].call # 0 => controlq[i].call < controlq[j].call)'
  BY QueueFacts DEF CallNumbers, AppendEffect, Alive
<1>6. (serving # 0 => \A i \in 1 .. Len(controlq) :
          controlq[i].call # 0 => serving < controlq[i].call)'
  BY QueueFacts DEF CallNumbers, AppendEffect, Alive
<1>7. (\A i \in 1 .. Len(controlq) : controlq[i].call = call /\ call # 0 =>
          /\ srv = "begin" => controlq[i].cmd = "Begin"
          /\ srv = "rollback" => controlq[i].cmd = "Rollback"
          /\ Alive /\ controlq[i].cmd = "Begin" => srv = "begin")'
  BY QueueFacts DEF CallNumbers, AppendEffect, Alive
<1>8. (Alive /\ serving # 0 /\ serving = call => srv = "begin")'
  BY QueueFacts DEF CallNumbers, AppendEffect, Alive
<1>9. (srv \in {"begin", "rollback"} => call # 0)'
  BY QueueFacts, SMTT(30) DEF CallNumbers, AppendEffect, Alive
<1> QED
  BY <1>1, <1>2, <1>3, <1>4, <1>5, <1>6, <1>7, <1>8, <1>9 DEF CallNumbers

\* A reply finds the call it answers.
LEMMA CallNumbersStep ==
    HandlesOK /\ ActorOK /\ CallNumbers /\ HandoffPhases /\ [Next]_vars
       => CallNumbers'
<1> SUFFICES ASSUME HandlesOK, ActorOK, CallNumbers, HandoffPhases, [Next]_vars PROVE CallNumbers'
  OBVIOUS
<1>1. CASE Probe
  BY <1>1, AppendFacts, UnnumberedNumbers DEF Probe, Commands, callerVars, actorVars
<1>2. CASE BeginHandoff
  <2>1. CASE Alive
    <3>1. Send("Begin", "begin") /\ UNCHANGED <<pc, serving>>
      BY <2>1, <1>2 DEF BeginHandoff, serverFrame, actorVars
    <3> QED
      BY <3>1, SendFacts, SentNumbers DEF Commands
  <2>2. CASE ~Alive
    BY <2>2, <1>2, QueueFacts DEF BeginHandoff, SendFails, serverFrame, actorVars,
       CallNumbers, Alive
  <2> QED
    BY <2>1, <2>2
<1>3. CASE BeginReturns
  <2>1. Alive => serving = 0 /\ NoPhaseChange
    BY <1>3 DEF BeginReturns, HandoffPhases
  <2> QED
    BY <2>1, <1>3, QueueFacts DEF BeginReturns, NoPhaseChange, serverFrame, actorVars,
       CallNumbers, Alive
<1>4. CASE RollbackHandoff
  <2>1. CASE Alive
    <3>1. Send("Rollback", "rollback") /\ UNCHANGED <<pc, serving>>
      BY <2>1, <1>4 DEF RollbackHandoff, serverFrame, actorVars
    <3> QED
      BY <3>1, SendFacts, SentNumbers DEF Commands
  <2>2. CASE ~Alive
    BY <2>2, <1>4, QueueFacts DEF RollbackHandoff, SendFails, serverFrame, actorVars,
       CallNumbers, Alive
  <2> QED
    BY <2>1, <2>2
<1>5. CASE DuplicateForHandoff
  <2>1. CASE Alive
    <3>1. Send("Duplicate", "duplicate") /\ UNCHANGED <<pc, serving>>
      BY <2>1, <1>5 DEF DuplicateForHandoff, serverFrame, actorVars
    <3> QED
      BY <3>1, SendFacts, SentNumbers DEF Commands
  <2>2. CASE ~Alive
    BY <2>2, <1>5, QueueFacts DEF DuplicateForHandoff, SendFails, serverFrame, actorVars,
       CallNumbers, Alive
  <2> QED
    BY <2>1, <2>2
<1>6. CASE ReleaseAfterCommit
  <2>1. CASE Alive
    <3>1. Send("Release", "release") /\ UNCHANGED <<pc, serving>>
      BY <2>1, <1>6 DEF ReleaseAfterCommit, serverFrame, actorVars
    <3> QED
      BY <3>1, SendFacts, SentNumbers DEF Commands
  <2>2. CASE ~Alive
    BY <2>2, <1>6, QueueFacts DEF ReleaseAfterCommit, SendFails, serverFrame, actorVars,
       CallNumbers, Alive
  <2> QED
    BY <2>1, <2>2
<1>7. CASE Shutdown
  <2>1. CASE Alive
    BY <2>1, <1>7, AppendFacts, UnnumberedNumbers DEF Shutdown, Commands,
       serverFrame, actorVars
  <2>2. CASE ~Alive
    BY <2>2, <1>7 DEF Shutdown, serverFrame, actorVars, CallNumbers, Alive
  <2> QED
    BY <2>1, <2>2
<1>8. CASE HandleBegin
  <2>1. PopEffect
    BY <1>8, PopFacts DEF HandleBegin, Receive
  <2>2. /\ Head(controlq) = controlq[1] /\ controlq[1].cmd = "Begin"
        /\ Len(controlq) >= 1
    BY <1>8 DEF HandleBegin, Receive, HandlesOK
  <2>3. controlq[1].call \in Nat /\ controlq[1].call # 0 /\ serving' = controlq[1].call
    BY <2>2, <1>8, QueueFacts DEF HandleBegin, Receive, CallNumbers
  <2>4. UNCHANGED <<call, srv>> /\ pc = "control" /\ pc' = "apply"
    BY <1>8 DEF HandleBegin, Receive, handleFrame, callerVars
  <2>11. (serving <= call)'
    BY <2>1, <2>2, <2>3, <2>4, QueueFacts DEF PopEffect, CallNumbers, Alive
  <2>12. (pc \in {"control", "data"} => serving = 0)'
    BY <2>1, <2>2, <2>3, <2>4, QueueFacts DEF PopEffect, CallNumbers, Alive
  <2>13. (\A i \in 1 .. Len(controlq) : controlq[i].call <= call)'
    BY <2>1, <2>2, <2>3, <2>4, QueueFacts, SMTT(30) DEF PopEffect, CallNumbers, Alive
  <2>14. (\A i \in 1 .. Len(controlq) :
            controlq[i].call = 0 <=> controlq[i].cmd \in {"Probe", "Shutdown"})'
    BY <2>1, <2>2, <2>3, <2>4, QueueFacts DEF PopEffect, CallNumbers, Alive
  <2>15. ASSUME NEW i \in 1 .. Len(controlq'), NEW j \in 1 .. Len(controlq'),
                i < j, controlq'[j].call # 0
         PROVE  controlq'[i].call < controlq'[j].call
    <3>1. i + 1 \in 1 .. Len(controlq) /\ j + 1 \in 1 .. Len(controlq)
      BY <2>1, QueueFacts DEF PopEffect
    <3> QED
      BY <2>1, <2>15, <3>1 DEF PopEffect, CallNumbers
  <2>16. (serving # 0 => \A i \in 1 .. Len(controlq) :
            controlq[i].call # 0 => serving < controlq[i].call)'
    BY <2>1, <2>2, <2>3, <2>4, QueueFacts DEF PopEffect, CallNumbers, Alive
  <2>17. (\A i \in 1 .. Len(controlq) : controlq[i].call = call /\ call # 0 =>
            /\ srv = "begin" => controlq[i].cmd = "Begin"
            /\ srv = "rollback" => controlq[i].cmd = "Rollback"
            /\ Alive /\ controlq[i].cmd = "Begin" => srv = "begin")'
    BY <2>1, <2>2, <2>3, <2>4, QueueFacts DEF PopEffect, CallNumbers, Alive
  <2>5. 1 \in 1 .. Len(controlq) /\ Alive
    BY <2>2, <2>4, QueueFacts DEF Alive
  <2>18. (Alive /\ serving # 0 /\ serving = call => srv = "begin")'
    BY <2>2, <2>3, <2>4, <2>5 DEF CallNumbers
  <2>19. (srv \in {"begin", "rollback"} => call # 0)'
    BY <2>1, <2>2, <2>3, <2>4, QueueFacts DEF PopEffect, CallNumbers, Alive
  <2> QED
    BY <2>11, <2>12, <2>13, <2>14, <2>15, <2>16, <2>17, <2>18, <2>19 DEF CallNumbers
<1> USE DEF HandlesOK, ActorOK, CallNumbers, Alive
<1>9. ASSUME NEW t \in Threads, WakeActor(t) PROVE CallNumbers'
  BY <1>9 DEF WakeActor, queueVars, controlVars, sizeVars, callerVars,
      actorVars
<1>10. ASSUME NEW w \in Writers, WriteCheck(w) PROVE CallNumbers'
  BY <1>10 DEF WriteCheck, writerFrame, queueVars, controlVars, sizeVars,
      callerVars, actorVars
<1>11. ASSUME NEW w \in Writers, WriteReserve(w) PROVE CallNumbers'
  BY <1>11 DEF WriteReserve, writerFrame, Alive, queueVars, controlVars,
      sizeVars, callerVars, actorVars
<1>12. ASSUME NEW w \in Writers, WriteSend(w) PROVE CallNumbers'
  BY <1>12 DEF WriteSend, Enqueue, writerFrame, Alive, queueVars, controlVars,
      sizeVars, callerVars, actorVars
<1>13. ASSUME NEW w \in Writers, TryWrite(w) PROVE CallNumbers'
  BY <1>13 DEF TryWrite, Enqueue, writerFrame, Alive, queueVars, controlVars,
      sizeVars, callerVars, actorVars
<1>14. CASE RespondProduce
  BY <1>14 DEF RespondProduce, queueVars, controlVars, sizeVars, callerVars,
      actorVars
<1>15. CASE RespondQueue
  BY <1>15 DEF RespondQueue, queueVars, controlVars, sizeVars, callerVars,
      actorVars
<1>16. CASE Resize
  BY <1>16 DEF Resize, queueVars, controlVars, sizeVars, callerVars, actorVars
<1>17. CASE Nudge
  BY <1>17 DEF Nudge, queueVars, controlVars, sizeVars, callerVars, actorVars
<1>18. CASE RollbackReturns
  BY <1>18 DEF RollbackReturns, serverFrame, queueVars, controlVars, sizeVars,
      callerVars, actorVars
<1>19. CASE DuplicateReturns
  BY <1>19 DEF DuplicateReturns, serverFrame, queueVars, controlVars, sizeVars,
      callerVars, actorVars
<1>20. CASE ReleaseReturns
  BY <1>20 DEF ReleaseReturns, serverFrame, queueVars, controlVars, sizeVars,
      callerVars, actorVars
<1>21. CASE ControlEmpty
  BY <1>21 DEF ControlEmpty, handleFrame, queueVars, controlVars, sizeVars,
      callerVars, actorVars
<1>22. CASE HandleDuplicate
  BY <1>22 DEF HandleDuplicate, Receive, Reply, handleFrame, queueVars,
      controlVars, sizeVars, callerVars, actorVars
<1>23. CASE HandleProbe
  BY <1>23 DEF HandleProbe, Receive, Reply, handleFrame, queueVars,
      controlVars, sizeVars, callerVars, actorVars
<1>24. CASE HandleRollback
  BY <1>24 DEF HandleRollback, Receive, Reply, handleFrame, queueVars,
      controlVars, sizeVars, callerVars, actorVars
<1>25. CASE HandleRelease
  BY <1>25, SMTT(30) DEF HandleRelease, Receive, Reply, handleFrame, queueVars,
      controlVars, sizeVars, callerVars, actorVars
<1>26. CASE HandleShutdown
  BY <1>26 DEF HandleShutdown, Receive, Reply, handleFrame, queueVars,
      controlVars, sizeVars, callerVars, actorVars
<1>27. CASE DrainData
  BY <1>27 DEF DrainData, handleFrame, User, Chunks, queueVars, controlVars,
      sizeVars, callerVars, actorVars
<1>28. CASE ApplyControls
  BY <1>28 DEF ApplyControls, handleFrame, Responses, Response, Report, Chunks,
      queueVars, controlVars, sizeVars, callerVars, actorVars
<1>29. CASE FlushStops
  BY <1>29 DEF FlushStops, AfterFlush, flushFrame, handleFrame, queueVars,
      controlVars, sizeVars, callerVars, actorVars
<1>30. CASE FlushWrite
  BY <1>30 DEF FlushWrite, flushFrame, handleFrame, Chunks, queueVars,
      controlVars, sizeVars, callerVars, actorVars
<1>31. CASE FlushFails
  BY <1>31 DEF FlushFails, AfterFlush, flushFrame, handleFrame, queueVars,
      controlVars, sizeVars, callerVars, actorVars
<1>32. CASE PollWake
  BY <1>32 DEF PollWake, ioFrame, handleFrame, queueVars, controlVars,
      sizeVars, callerVars, actorVars
<1>33. CASE PollReadable
  BY <1>33 DEF PollReadable, ioFrame, handleFrame, queueVars, controlVars,
      sizeVars, callerVars, actorVars
<1>34. CASE PollWritable
  BY <1>34 DEF PollWritable, ioFrame, handleFrame, queueVars, controlVars,
      sizeVars, callerVars, actorVars
<1>35. CASE PollIdle
  BY <1>35 DEF PollIdle, ioFrame, handleFrame, queueVars, controlVars,
      sizeVars, callerVars, actorVars
<1>36. CASE PollFails
  BY <1>36 DEF PollFails, ioFrame, handleFrame, queueVars, controlVars,
      sizeVars, callerVars, actorVars
<1>37. CASE QuiesceDone
  BY <1>37 DEF QuiesceDone, Reply, ioFrame, handleFrame, queueVars,
      controlVars, sizeVars, callerVars, actorVars
<1>38. CASE QuiesceFails
  BY <1>38 DEF QuiesceFails, Reply, ioFrame, handleFrame, queueVars,
      controlVars, sizeVars, callerVars, actorVars
<1>39. CASE QuiescePoll
  BY <1>39 DEF QuiescePoll, ioFrame, handleFrame, queueVars, controlVars,
      sizeVars, callerVars, actorVars
<1>40. CASE ReadOutput
  BY <1>40 DEF ReadOutput, handleFrame, queueVars, controlVars, sizeVars,
      callerVars, actorVars
<1>41. CASE ReadQueue
  BY <1>41 DEF ReadQueue, handleFrame, queueVars, controlVars, sizeVars,
      callerVars, actorVars
<1>42. CASE ReadTake
  BY <1>42 DEF ReadTake, handleFrame, Responses, Response, Chunks, queueVars,
      controlVars, sizeVars, callerVars, actorVars
<1>43. CASE ReadNothing
  BY <1>43 DEF ReadNothing, ioFrame, handleFrame, queueVars, controlVars,
      sizeVars, callerVars, actorVars
<1>44. CASE ReadClosed
  BY <1>44 DEF ReadClosed, Reply, ioFrame, handleFrame, queueVars, controlVars,
      sizeVars, callerVars, actorVars
<1>45. CASE UNCHANGED vars
  BY <1>45, SMTT(30) DEF vars, queueVars, controlVars, sizeVars, callerVars, actorVars
<1> QED
  BY <1>1, <1>2, <1>3, <1>4, <1>5, <1>6, <1>7, <1>8, <1>9, <1>10, <1>11, <1>12,
      <1>13, <1>14, <1>15, <1>16, <1>17, <1>18, <1>19, <1>20, <1>21, <1>22,
      <1>23, <1>24, <1>25, <1>26, <1>27, <1>28, <1>29, <1>30, <1>31, <1>32,
      <1>33, <1>34, <1>35, <1>36, <1>37, <1>38, <1>39, <1>40, <1>41, <1>42,
      <1>43, <1>44, <1>45 DEF Next, Handles, Actor,
      ActorOwn, HandleControl

-----------------------------------------------------------------------------
(* The handoff protocol between the server thread and the actor.           *)

\* Where the server thread stands tells where the actor is.
LEMMA HandoffPhasesStep ==
    HandlesOK /\ ActorOK /\ CallNumbers /\ HandoffPhases /\ OpenGateMeansRunning
       /\ [Next]_vars => HandoffPhases'
<1> SUFFICES ASSUME HandlesOK, ActorOK, CallNumbers, HandoffPhases,
         OpenGateMeansRunning, [Next]_vars PROVE HandoffPhases'
  OBVIOUS
<1>1. CASE Probe
  <2>1. AppendEffect("Probe", 0)
    BY <1>1, AppendFacts DEF Probe, Commands
  <2> QED
    BY <2>1, <1>1, QueueFacts DEF Probe, AppendEffect, callerVars, actorVars,
       HandoffPhases, NoPhaseChange, Alive
<1>2. CASE BeginHandoff
  <2>1. CASE Alive
    <3>1. Send("Begin", "begin")
      BY <2>1, <1>2 DEF BeginHandoff
    <3>2. /\ SendEffect("Begin", "begin")
          /\ controlq' \in Seq([cmd : Commands, call : Nat])
      BY <3>1, SendFacts DEF Commands
    <3> QED
      BY <2>1, <3>2, <1>2, QueueFacts DEF BeginHandoff, SendEffect,
      AppendEffect, serverFrame,
      HandoffPhases, NoPhaseChange, Alive, queueVars, controlVars, sizeVars, callerVars,
      actorVars
  <2>2. CASE ~Alive
    BY <2>2, <1>2, QueueFacts DEF BeginHandoff, SendFails, serverFrame,
      HandoffPhases, NoPhaseChange, Alive, queueVars, controlVars, sizeVars, callerVars,
      actorVars
  <2> QED
    BY <2>1, <2>2
<1>3. CASE RollbackHandoff
  <2>1. CASE Alive
    <3>1. Send("Rollback", "rollback")
      BY <2>1, <1>3 DEF RollbackHandoff
    <3>2. /\ SendEffect("Rollback", "rollback")
          /\ controlq' \in Seq([cmd : Commands, call : Nat])
      BY <3>1, SendFacts DEF Commands
    <3> QED
      BY <2>1, <3>2, <1>3, QueueFacts DEF RollbackHandoff, SendEffect,
      AppendEffect, serverFrame,
      HandoffPhases, NoPhaseChange, Alive, queueVars, controlVars, sizeVars, callerVars,
      actorVars
  <2>2. CASE ~Alive
    BY <2>2, <1>3, QueueFacts DEF RollbackHandoff, SendFails, serverFrame,
      HandoffPhases, NoPhaseChange, Alive, queueVars, controlVars, sizeVars, callerVars,
      actorVars
  <2> QED
    BY <2>1, <2>2
<1>4. CASE DuplicateForHandoff
  <2>1. CASE Alive
    <3>1. Send("Duplicate", "duplicate")
      BY <2>1, <1>4 DEF DuplicateForHandoff
    <3>2. /\ SendEffect("Duplicate", "duplicate")
          /\ controlq' \in Seq([cmd : Commands, call : Nat])
      BY <3>1, SendFacts DEF Commands
    <3> QED
      BY <2>1, <3>2, <1>4, QueueFacts DEF DuplicateForHandoff, SendEffect,
      AppendEffect, serverFrame,
      HandoffPhases, NoPhaseChange, Alive, queueVars, controlVars, sizeVars, callerVars,
      actorVars
  <2>2. CASE ~Alive
    BY <2>2, <1>4, QueueFacts DEF DuplicateForHandoff, SendFails, serverFrame,
      HandoffPhases, NoPhaseChange, Alive, queueVars, controlVars, sizeVars, callerVars,
      actorVars
  <2> QED
    BY <2>1, <2>2
<1>5. CASE ReleaseAfterCommit
  <2>1. CASE Alive
    <3>1. Send("Release", "release")
      BY <2>1, <1>5 DEF ReleaseAfterCommit
    <3>2. /\ SendEffect("Release", "release")
          /\ controlq' \in Seq([cmd : Commands, call : Nat])
      BY <3>1, SendFacts DEF Commands
    <3> QED
      BY <2>1, <3>2, <1>5, QueueFacts DEF ReleaseAfterCommit, SendEffect,
      AppendEffect, serverFrame,
      HandoffPhases, NoPhaseChange, Alive, queueVars, controlVars, sizeVars, callerVars,
      actorVars
  <2>2. CASE ~Alive
    BY <2>2, <1>5, QueueFacts DEF ReleaseAfterCommit, SendFails, serverFrame,
      HandoffPhases, NoPhaseChange, Alive, queueVars, controlVars, sizeVars, callerVars,
      actorVars
  <2> QED
    BY <2>1, <2>2
<1>6. CASE Shutdown
  <2>1. CASE Alive
    <3>1. AppendEffect("Shutdown", 0)
      BY <2>1, <1>6, AppendFacts DEF Shutdown, Commands
    <3> QED
      BY <2>1, <3>1, <1>6, QueueFacts DEF Shutdown, AppendEffect, serverFrame,
         actorVars, HandoffPhases, NoPhaseChange, Alive
  <2>2. CASE ~Alive
    BY <2>2, <1>6, QueueFacts DEF Shutdown, serverFrame, actorVars, HandoffPhases,
       NoPhaseChange, Alive
  <2> QED
    BY <2>1, <2>2
<1>7. CASE HandleDuplicate
  <2>1. PopEffect /\ Len(controlq) >= 1 /\ controlq[1].cmd = "Duplicate"
    BY <1>7, PopFacts DEF HandleDuplicate, Receive, HandlesOK
  <2>2. reply' = reply \/ (controlq[1].call = call /\ call # 0)
    BY <2>1, <1>7, QueueFacts DEF HandleDuplicate, Receive, Reply, CallNumbers
  <2> QED
    BY <2>1, <2>2, <1>7, QueueFacts DEF HandleDuplicate, Receive, PopEffect,
       handleFrame, callerVars, CallNumbers, HandoffPhases, NoPhaseChange, Alive
<1>8. CASE HandleRollback
  <2>1. PopEffect /\ Len(controlq) >= 1 /\ controlq[1].cmd = "Rollback"
    BY <1>8, PopFacts DEF HandleRollback, Receive, HandlesOK
  <2> QED
    BY <2>1, <1>8, QueueFacts DEF HandleRollback, Receive, Reply, PopEffect,
       handleFrame, callerVars, CallNumbers, HandoffPhases, NoPhaseChange, Alive
<1>9. CASE QuiesceDone
  BY <1>9, QueueFacts DEF QuiesceDone, Reply, ioFrame, handleFrame, callerVars,
     queueVars, CallNumbers, HandoffPhases, NoPhaseChange, Alive
<1> USE DEF HandlesOK, ActorOK, CallNumbers, HandoffPhases,
       OpenGateMeansRunning, NoPhaseChange, Alive
<1>10. ASSUME NEW t \in Threads, WakeActor(t) PROVE HandoffPhases'
  BY <1>10 DEF WakeActor, queueVars, controlVars, sizeVars, callerVars,
      actorVars
<1>11. ASSUME NEW w \in Writers, WriteCheck(w) PROVE HandoffPhases'
  BY <1>11 DEF WriteCheck, writerFrame, queueVars, controlVars, sizeVars,
      callerVars, actorVars
<1>12. ASSUME NEW w \in Writers, WriteReserve(w) PROVE HandoffPhases'
  BY <1>12 DEF WriteReserve, writerFrame, Alive, queueVars, controlVars,
      sizeVars, callerVars, actorVars
<1>13. ASSUME NEW w \in Writers, WriteSend(w) PROVE HandoffPhases'
  BY <1>13 DEF WriteSend, Enqueue, writerFrame, Alive, queueVars, controlVars,
      sizeVars, callerVars, actorVars
<1>14. ASSUME NEW w \in Writers, TryWrite(w) PROVE HandoffPhases'
  BY <1>14 DEF TryWrite, Enqueue, writerFrame, Alive, queueVars, controlVars,
      sizeVars, callerVars, actorVars
<1>15. CASE RespondProduce
  BY <1>15 DEF RespondProduce, queueVars, controlVars, sizeVars, callerVars,
      actorVars
<1>16. CASE RespondQueue
  BY <1>16 DEF RespondQueue, queueVars, controlVars, sizeVars, callerVars,
      actorVars
<1>17. CASE Resize
  BY <1>17 DEF Resize, queueVars, controlVars, sizeVars, callerVars, actorVars
<1>18. CASE Nudge
  BY <1>18 DEF Nudge, queueVars, controlVars, sizeVars, callerVars, actorVars
<1>19. CASE BeginReturns
  BY <1>19 DEF BeginReturns, serverFrame, queueVars, controlVars, sizeVars,
      callerVars, actorVars
<1>20. CASE RollbackReturns
  BY <1>20 DEF RollbackReturns, serverFrame, queueVars, controlVars, sizeVars,
      callerVars, actorVars
<1>21. CASE DuplicateReturns
  BY <1>21 DEF DuplicateReturns, serverFrame, queueVars, controlVars, sizeVars,
      callerVars, actorVars
<1>22. CASE ReleaseReturns
  BY <1>22 DEF ReleaseReturns, serverFrame, queueVars, controlVars, sizeVars,
      callerVars, actorVars
<1>23. CASE ControlEmpty
  BY <1>23 DEF ControlEmpty, handleFrame, queueVars, controlVars, sizeVars,
      callerVars, actorVars
<1>24. CASE HandleBegin
  BY <1>24 DEF HandleBegin, Receive, Reply, handleFrame, Users, User, Chunks,
      queueVars, controlVars, sizeVars, callerVars, actorVars
<1>25. CASE HandleProbe
  BY <1>25 DEF HandleProbe, Receive, Reply, handleFrame, queueVars,
      controlVars, sizeVars, callerVars, actorVars
<1>26. CASE HandleRelease
  BY <1>26 DEF HandleRelease, Receive, Reply, handleFrame, queueVars,
      controlVars, sizeVars, callerVars, actorVars
<1>27. CASE HandleShutdown
  BY <1>27 DEF HandleShutdown, Receive, Reply, handleFrame, queueVars,
      controlVars, sizeVars, callerVars, actorVars
<1>28. CASE DrainData
  BY <1>28 DEF DrainData, handleFrame, User, Chunks, queueVars, controlVars,
      sizeVars, callerVars, actorVars
<1>29. CASE ApplyControls
  BY <1>29 DEF ApplyControls, handleFrame, Responses, Response, Report, Chunks,
      queueVars, controlVars, sizeVars, callerVars, actorVars
<1>30. CASE FlushStops
  BY <1>30 DEF FlushStops, AfterFlush, flushFrame, handleFrame, queueVars,
      controlVars, sizeVars, callerVars, actorVars
<1>31. CASE FlushWrite
  BY <1>31 DEF FlushWrite, flushFrame, handleFrame, Chunks, queueVars,
      controlVars, sizeVars, callerVars, actorVars
<1>32. CASE FlushFails
  BY <1>32 DEF FlushFails, AfterFlush, flushFrame, handleFrame, queueVars,
      controlVars, sizeVars, callerVars, actorVars
<1>33. CASE PollWake
  BY <1>33 DEF PollWake, ioFrame, handleFrame, queueVars, controlVars,
      sizeVars, callerVars, actorVars
<1>34. CASE PollReadable
  BY <1>34 DEF PollReadable, ioFrame, handleFrame, queueVars, controlVars,
      sizeVars, callerVars, actorVars
<1>35. CASE PollWritable
  BY <1>35 DEF PollWritable, ioFrame, handleFrame, queueVars, controlVars,
      sizeVars, callerVars, actorVars
<1>36. CASE PollIdle
  BY <1>36 DEF PollIdle, ioFrame, handleFrame, queueVars, controlVars,
      sizeVars, callerVars, actorVars
<1>37. CASE PollFails
  BY <1>37 DEF PollFails, ioFrame, handleFrame, queueVars, controlVars,
      sizeVars, callerVars, actorVars
<1>38. CASE QuiesceFails
  BY <1>38 DEF QuiesceFails, Reply, ioFrame, handleFrame, queueVars,
      controlVars, sizeVars, callerVars, actorVars
<1>39. CASE QuiescePoll
  BY <1>39 DEF QuiescePoll, ioFrame, handleFrame, queueVars, controlVars,
      sizeVars, callerVars, actorVars
<1>40. CASE ReadOutput
  BY <1>40 DEF ReadOutput, handleFrame, queueVars, controlVars, sizeVars,
      callerVars, actorVars
<1>41. CASE ReadQueue
  BY <1>41 DEF ReadQueue, handleFrame, queueVars, controlVars, sizeVars,
      callerVars, actorVars
<1>42. CASE ReadTake
  BY <1>42 DEF ReadTake, handleFrame, Responses, Response, Chunks, queueVars,
      controlVars, sizeVars, callerVars, actorVars
<1>43. CASE ReadNothing
  BY <1>43 DEF ReadNothing, ioFrame, handleFrame, queueVars, controlVars,
      sizeVars, callerVars, actorVars
<1>44. CASE ReadClosed
  BY <1>44 DEF ReadClosed, Reply, ioFrame, handleFrame, queueVars, controlVars,
      sizeVars, callerVars, actorVars
<1>45. CASE UNCHANGED vars
  BY <1>45 DEF vars, queueVars, controlVars, sizeVars, callerVars, actorVars
<1> QED
  BY <1>1, <1>2, <1>3, <1>4, <1>5, <1>6, <1>7, <1>8, <1>9, <1>10, <1>11, <1>12,
      <1>13, <1>14, <1>15, <1>16, <1>17, <1>18, <1>19, <1>20, <1>21, <1>22,
      <1>23, <1>24, <1>25, <1>26, <1>27, <1>28, <1>29, <1>30, <1>31, <1>32,
      <1>33, <1>34, <1>35, <1>36, <1>37, <1>38, <1>39, <1>40, <1>41, <1>42,
      <1>43, <1>44, <1>45 DEF Next, Handles, Actor,
      ActorOwn, HandleControl

-----------------------------------------------------------------------------
(* User input in flight.                                                   *)

\* An input that is sent joins the end of the data channel.
LEMMA EnqueueInFlight ==
    ASSUME HandlesOK, ActorOK, InFlight, NEW w, Enqueue(w),
           UNCHANGED <<pending, settled, pc>>
    PROVE  InFlight'
<1>1. CASE Alive
  <2>1. accepted + 1 \in Nat /\ dataq' = Append(dataq, accepted + 1)
    BY <1>1 DEF Enqueue, ActorOK
  <2>2. /\ Len(dataq) \in Nat /\ Len(dataq') = Len(dataq) + 1
        /\ \A i \in 1 .. Len(dataq) : dataq'[i] = dataq[i]
        /\ dataq'[Len(dataq) + 1] = accepted + 1
    BY <2>1, AppendProperties DEF HandlesOK
  <2>3. UNCHANGED Taken /\ Taken \in Int /\ accepted = Taken + Len(dataq)
    BY <2>2 DEF Taken, Enqueue, ActorOK
  <2>4. \A i \in 1 .. Len(dataq) : dataq[i] = Taken + i
    BY <1>1 DEF InFlight
  <2>5. \A i \in 1 .. Len(dataq') : dataq'[i] = Taken + i
    BY <2>2, <2>3, <2>4
  <2> QED
    BY <1>1, <2>3, <2>5 DEF InFlight
<1>2. CASE ~Alive
  BY <1>2 DEF InFlight, Alive
<1> QED
  BY <1>1, <1>2

\* Chunks that are no user input may join the end of the pending writes.
LEMMA ExtendInFlight ==
    ASSUME ActorOK, InFlight, Alive, UNCHANGED <<dataq, accepted, settled>>,
           NEW x \in Seq(Chunks), \A i \in 1 .. Len(x) : x[i].kind # "user",
           pending' = pending \o x
    PROVE  InFlight'
<1> DEFINE m == Len(pending)
<1>1. /\ m \in Nat /\ Len(x) \in Nat /\ Len(pending') = m + Len(x)
      /\ \A i \in 1 .. m : pending'[i] = pending[i]
      /\ \A i \in (m + 1) .. (m + Len(x)) : pending'[i] = x[i - m]
  BY ConcatProperties DEF ActorOK
<1>2. UNCHANGED Taken
  BY DEF Taken
<1>3. \A i \in 1 .. Len(pending') : pending'[i].kind = "user" => i \in 1 .. m
  BY <1>1
<1>4. \A i \in 1 .. Len(pending') :
         pending'[i].kind = "user" => pending'[i].n \in (settled + 1) .. Taken
  BY <1>1, <1>3 DEF InFlight
<1>5. ASSUME NEW n \in (settled + 1) .. Taken
      PROVE  \E i \in 1 .. Len(pending') : pending'[i] = User(n)
  <2>1. PICK i \in 1 .. m : pending[i] = User(n)
    BY DEF InFlight
  <2> QED
    BY <1>1, <2>1
<1>6. \A i, j \in 1 .. Len(pending') :
         (i < j /\ pending'[i].kind = "user" /\ pending'[j].kind = "user")
            => pending'[i].n < pending'[j].n
  BY <1>1, <1>3 DEF InFlight
<1> QED
  BY <1>2, <1>4, <1>5, <1>6 DEF InFlight

\* What apply_pending_controls adds is no user input.
LEMMA AppliedFacts ==
    ASSUME HandlesOK
    PROVE  LET x == (IF resizeReq # 0 THEN <<Report(resizeReq)>> ELSE <<>>)
                       \o Responses(responses)
           IN  x \in Seq(Chunks) /\ \A i \in 1 .. Len(x) : x[i].kind # "user"
<1> DEFINE r == IF resizeReq # 0 THEN <<Report(resizeReq)>> ELSE <<>>
           s == Responses(responses)
<1>1. r \in Seq(Chunks) /\ \A i \in 1 .. Len(r) : r[i].kind # "user"
  <2>1. Report(resizeReq) \in Chunks /\ Report(resizeReq).kind # "user"
    BY DEF HandlesOK, Report, Chunks
  <2>2. CASE resizeReq # 0
    BY <2>1, <2>2
  <2>3. CASE resizeReq = 0
    BY <2>3
  <2> QED
    BY <2>2, <2>3
<1>2. s \in Seq(Chunks) /\ \A i \in 1 .. Len(s) : s[i].kind # "user"
  <2>1. responses \in Seq(Nat)
    BY DEF HandlesOK
  <2>2. /\ s \in Seq(Chunks) /\ Len(s) = Len(responses)
        /\ \A i \in 1 .. Len(responses) : s[i] = Response(responses[i])
    BY <2>1, ResponsesFacts
  <2>3. \A n : Response(n).kind # "user"
    BY DEF Response
  <2> HIDE DEF s
  <2> QED
    BY <2>2, <2>3
<1> HIDE DEF r, s
<1>3. /\ r \o s \in Seq(Chunks) /\ Len(r) \in Nat /\ Len(s) \in Nat
      /\ \A i \in 1 .. Len(r \o s) :
            \/ i \in 1 .. Len(r) /\ (r \o s)[i] = r[i]
            \/ i - Len(r) \in 1 .. Len(s) /\ (r \o s)[i] = s[i - Len(r)]
  BY <1>1, <1>2, ConcatProperties
<1>4. \A i \in 1 .. Len(r \o s) : (r \o s)[i].kind # "user"
  BY <1>1, <1>2, <1>3, SMTT(30)
<1> QED
  BY <1>3, <1>4 DEF r, s

\* No step loses, repeats or reorders accepted input.
LEMMA InFlightStep ==
    HandlesOK /\ ActorOK /\ HandoffPhases /\ InFlight /\ QuiescedIsDrained
       /\ OpenGateMeansRunning /\ [Next]_vars => InFlight'
<1> SUFFICES ASSUME HandlesOK, ActorOK, HandoffPhases, InFlight,
         QuiescedIsDrained, OpenGateMeansRunning, [Next]_vars PROVE InFlight'
  OBVIOUS
<1>1. ASSUME NEW w \in Writers, WriteSend(w) PROVE InFlight'
  <2>1. CASE gate = "open"
    BY <2>1, <1>1, EnqueueInFlight DEF WriteSend, writerFrame, actorVars
  <2>2. CASE gate # "open"
    BY <2>2, <1>1 DEF WriteSend, writerFrame, actorVars, InFlight, Taken, Alive
  <2> QED
    BY <2>1, <2>2
<1>2. ASSUME NEW w \in Writers, TryWrite(w) PROVE InFlight'
  BY <1>2, EnqueueInFlight DEF TryWrite, writerFrame, actorVars
<1>3. CASE HandleBegin
  <2> DEFINE m == Len(pending)
  <2>1. /\ pending' = pending \o Users(dataq) /\ dataq' = <<>>
        /\ UNCHANGED <<accepted, settled>> /\ pc = "control"
    BY <1>3 DEF HandleBegin, Receive, handleFrame
  <2>2. /\ m \in Nat /\ Len(dataq) \in Nat /\ Len(pending') = m + Len(dataq)
        /\ \A i \in 1 .. m : pending'[i] = pending[i]
        /\ \A i \in (m + 1) .. (m + Len(dataq)) : pending'[i] = User(dataq[i - m])
    <3>1. dataq \in Seq(Nat) /\ pending \in Seq(Chunks)
      BY DEF HandlesOK, ActorOK
    <3>2. /\ Users(dataq) \in Seq(Chunks) /\ Len(Users(dataq)) = Len(dataq)
          /\ \A i \in 1 .. Len(dataq) : Users(dataq)[i] = User(dataq[i])
      BY <3>1, UsersFacts
    <3>3. /\ Len(pending \o Users(dataq)) = m + Len(dataq)
          /\ \A i \in 1 .. (m + Len(dataq)) : (pending \o Users(dataq))[i] =
                IF i <= m THEN pending[i] ELSE Users(dataq)[i - m]
      <4>1. /\ Len(pending \o Users(dataq)) = Len(pending) + Len(Users(dataq))
            /\ \A i \in 1 .. (Len(pending) + Len(Users(dataq))) :
                  (pending \o Users(dataq))[i] =
                     IF i <= Len(pending) THEN pending[i]
                     ELSE Users(dataq)[i - Len(pending)]
        BY <3>1, <3>2, ConcatProperties
      <4> QED
        BY <3>2, <4>1
    <3> QED
      BY <2>1, <3>1, <3>2, <3>3, SMTT(30)
  <2>3. \A i \in (m + 1) .. (m + Len(dataq)) : pending'[i] = User(Taken + i - m)
    <3>1. \A i \in 1 .. Len(dataq) : dataq[i] = Taken + i
      BY <2>1 DEF InFlight, Alive
    <3>2. Taken \in Int
      BY <2>2 DEF Taken, ActorOK
    <3> HIDE DEF m
    <3>3. ASSUME NEW i \in (m + 1) .. (m + Len(dataq))
          PROVE  pending'[i] = User(Taken + i - m)
      <4>1. i - m \in 1 .. Len(dataq) /\ Taken + (i - m) = Taken + i - m
        BY <2>2, <3>2
      <4> QED
        BY <2>2, <3>1, <4>1
    <3> QED
      BY <3>3
  <2>4. /\ Taken \in Int /\ Taken' = Taken + Len(dataq)
    BY <2>1, <2>2 DEF Taken, ActorOK
  <2> HIDE DEF m
  <2>5. ASSUME NEW n \in (settled + 1) .. Taken'
        PROVE  \E i \in 1 .. Len(pending') : pending'[i] = User(n)
    <3>1. CASE n <= Taken
      <4>1. PICK i \in 1 .. m : pending[i] = User(n)
        BY <2>1, <2>2, <2>4, <3>1 DEF InFlight, Alive, ActorOK, m
      <4> QED
        BY <2>2, <4>1
    <3>2. CASE n > Taken
      <4>1. n - Taken + m \in (m + 1) .. (m + Len(dataq))
        BY <2>2, <2>4, <3>2 DEF ActorOK
      <4>2. pending'[n - Taken + m] = User(n)
        BY <2>2, <2>3, <2>4, <4>1
      <4> QED
        BY <2>2, <4>1, <4>2
    <3> QED
      BY <3>1, <3>2, <2>4 DEF ActorOK
  <2>6. ASSUME NEW i \in 1 .. Len(pending'), pending'[i].kind = "user"
        PROVE  /\ pending'[i].n \in (settled + 1) .. Taken'
               /\ i <= m => pending[i].kind = "user" /\ pending'[i] = pending[i]
                           /\ pending'[i].n <= Taken
               /\ i > m => pending'[i].n = Taken + i - m
    <3>1. CASE i <= m
      <4>1. i \in 1 .. Len(pending) /\ pending'[i] = pending[i]
        BY <2>2, <2>6, <3>1 DEF m
      <4>2. pending[i].n \in (settled + 1) .. Taken
        BY <2>1, <2>6, <4>1 DEF InFlight, Alive
      <4>3. settled \in Int /\ Len(dataq) \in Nat
        BY <2>2 DEF ActorOK
      <4>4. pending[i].n \in (settled + 1) .. Taken' /\ pending[i].n <= Taken
        BY <2>4, <4>2, <4>3
      <4>5. ~(i > m)
        BY <2>2, <3>1
      <4> QED
        BY <2>6, <4>1, <4>4, <4>5
    <3>2. CASE i > m
      <4>1. pending'[i] = User(Taken + i - m)
        BY <2>2, <2>3, <3>2
      <4> QED
        BY <2>1, <2>2, <2>4, <3>2, <4>1, SMTT(30) DEF User, InFlight, Alive, ActorOK
    <3> QED
      BY <3>1, <3>2, <2>2
  <2>7. ASSUME NEW i \in 1 .. Len(pending'), NEW j \in 1 .. Len(pending'), i < j,
               pending'[i].kind = "user", pending'[j].kind = "user"
        PROVE  pending'[i].n < pending'[j].n
    <3>1. CASE j <= m
      BY <2>1, <2>2, <2>6, <2>7, <3>1 DEF InFlight, Alive, m
    <3>2. CASE i <= m /\ j > m
      BY <2>2, <2>4, <2>6, <2>7, <3>2 DEF ActorOK
    <3>3. CASE i > m
      <4>1. pending'[i].n = Taken + i - m /\ pending'[j].n = Taken + j - m
        BY <2>2, <2>6, <2>7, <3>3
      <4> QED
        BY <2>2, <2>4, <2>7, <4>1
    <3> QED
      BY <3>1, <3>2, <3>3, <2>2, <2>7
  <2>8. settled' <= Taken'
    BY <2>1, <2>2, <2>4 DEF InFlight, Alive, ActorOK
  <2>9. UNCHANGED settled /\ Len(dataq') = 0
    BY <2>1
  <2> QED
    BY <2>5, <2>6, <2>7, <2>8, <2>9 DEF InFlight
<1>4. CASE DrainData
  <2>1. CASE dataq = <<>>
    BY <2>1, <1>4 DEF DrainData, handleFrame, InFlight, Taken, Alive
  <2>2. CASE dataq # <<>>
    <3>1. state = "Running"
      BY <2>2, <1>4 DEF DrainData, QuiescedIsDrained, HandoffPhases, Alive, ActorOK
    <3>2. /\ dataq' = Tail(dataq) /\ pending' = Append(pending, User(Head(dataq)))
          /\ UNCHANGED <<accepted, settled, pc>> /\ Alive
      BY <2>2, <3>1, <1>4 DEF DrainData, handleFrame, Alive
    <3>3. /\ Len(dataq) \in Nat /\ Len(dataq) >= 1 /\ Len(dataq') = Len(dataq) - 1
          /\ \A i \in 1 .. Len(dataq') : dataq'[i] = dataq[i + 1]
          /\ Head(dataq) = dataq[1]
      BY <2>2, <3>2 DEF HandlesOK
    <3>4. /\ Head(dataq) = Taken + 1 /\ Taken \in Int /\ Taken' = Taken + 1
      BY <3>2, <3>3 DEF InFlight, Taken, ActorOK
    <3>5. User(Taken + 1) \in Chunks
      BY <3>3, <3>4, HeadTailProperties, <2>2 DEF User, Chunks, HandlesOK
    <3>6. /\ Len(pending) \in Nat /\ Len(pending') = Len(pending) + 1
          /\ \A i \in 1 .. Len(pending) : pending'[i] = pending[i]
          /\ pending'[Len(pending) + 1] = User(Taken + 1)
      BY <3>2, <3>4, <3>5, AppendProperties DEF ActorOK
    <3>7. \A i \in 1 .. Len(dataq') : dataq'[i] = Taken' + i
      <4>1. \A i \in 1 .. Len(dataq) : dataq[i] = Taken + i
        BY <3>2 DEF InFlight
      <4> QED
        BY <3>3, <3>4, <4>1
    <3>8. \A i \in 1 .. Len(pending') :
             pending'[i].kind = "user" => pending'[i].n \in (settled + 1) .. Taken'
      <4> SUFFICES ASSUME NEW i \in 1 .. Len(pending'), pending'[i].kind = "user"
                   PROVE  pending'[i].n \in (settled + 1) .. Taken'
        OBVIOUS
      <4>1. settled \in Int /\ settled <= Taken
        BY <3>2 DEF InFlight, ActorOK
      <4>2. CASE i \in 1 .. Len(pending)
        <5>1. pending[i].n \in (settled + 1) .. Taken
          BY <3>2, <3>6, <4>2 DEF InFlight
        <5> QED
          BY <3>4, <3>6, <4>1, <4>2, <5>1
      <4>3. CASE i = Len(pending) + 1
        <5>1. pending'[i].n = Taken + 1
          BY <3>6, <4>3 DEF User
        <5> QED
          BY <3>4, <4>1, <5>1
      <4> QED
        BY <3>6, <4>2, <4>3
    <3>9. \A n \in (settled + 1) .. Taken' :
             \E i \in 1 .. Len(pending') : pending'[i] = User(n)
      BY <3>2, <3>4, <3>6 DEF InFlight, ActorOK
    <3>10. \A i, j \in 1 .. Len(pending') :
             (i < j /\ pending'[i].kind = "user" /\ pending'[j].kind = "user")
                => pending'[i].n < pending'[j].n
      BY <3>2, <3>4, <3>6, SMTT(30) DEF InFlight, User, ActorOK
    <3>11. settled' <= Taken'
      BY <3>2, <3>4 DEF InFlight, ActorOK
    <3> QED
      BY <3>2, <3>7, <3>8, <3>9, <3>10, <3>11 DEF InFlight
  <2> QED
    BY <2>1, <2>2
<1>5. CASE ApplyControls
  <2> DEFINE r == IF resizeReq # 0 THEN <<Report(resizeReq)>> ELSE <<>>
             x == r \o Responses(responses)
  <2>1. x \in Seq(Chunks) /\ \A i \in 1 .. Len(x) : x[i].kind # "user"
    BY AppliedFacts
  <2>2. pending' = pending \o x /\ UNCHANGED <<dataq, accepted, settled>> /\ Alive
    <3>1. pending \in Seq(Chunks) /\ r \in Seq(Chunks) /\ Responses(responses) \in Seq(Chunks)
      <4>1. Report(resizeReq) \in Chunks
        BY DEF HandlesOK, Report, Chunks
      <4> QED
        BY <4>1, ResponsesFacts DEF HandlesOK, ActorOK
    <3>2. pending' = (pending \o r) \o Responses(responses)
      BY <1>5 DEF ApplyControls
    <3> HIDE DEF r
    <3>3. pending' = pending \o x
      BY <3>1, <3>2, ConcatAssociative, SMTT(30)
    <3> QED
      BY <3>3, <1>5 DEF ApplyControls, queueVars, handleFrame, Alive
  <2> QED
    BY <2>1, <2>2, ExtendInFlight
<1>6. CASE FlushWrite
  <2>1. pending # <<>> /\ Alive /\ UNCHANGED <<dataq, accepted, pc>>
    BY <1>6 DEF FlushWrite, flushFrame, queueVars, handleFrame, Alive
  <2>2. CASE UNCHANGED <<pending, settled>>
    BY <2>1, <2>2 DEF InFlight, Taken, Alive
  <2>3. CASE /\ pending' = Tail(pending)
             /\ settled' = IF Head(pending).kind = "user" THEN Head(pending).n
                           ELSE settled
    <3>1. /\ Len(pending) \in Nat /\ Len(pending) >= 1
          /\ Len(pending') = Len(pending) - 1 /\ Head(pending) = pending[1]
          /\ \A i \in 1 .. Len(pending') : pending'[i] = pending[i + 1]
      BY <2>1, <2>3 DEF ActorOK
    <3>2. UNCHANGED Taken /\ Taken \in Int
      BY <2>1 DEF Taken, HandlesOK, ActorOK
    <3>3. /\ settled' \in Int /\ settled <= settled' /\ settled' <= Taken
          /\ pending[1].kind = "user" => settled' = pending[1].n
          /\ pending[1].kind # "user" => settled' = settled
      BY <2>1, <2>3, <3>1, <3>2 DEF InFlight, ActorOK
    <3>4. ASSUME NEW i \in 1 .. Len(pending'), pending'[i].kind = "user"
          PROVE  pending'[i].n \in (settled' + 1) .. Taken
      <4>1. i + 1 \in 1 .. Len(pending) /\ 1 \in 1 .. Len(pending) /\ 1 < i + 1
        BY <3>1
      <4>2. pending[i + 1].kind = "user" /\ pending'[i].n = pending[i + 1].n
        BY <3>1, <3>4
      <4> QED
        BY <2>1, <3>2, <3>3, <4>1, <4>2, SMTT(30) DEF InFlight, ActorOK
    <3>5. ASSUME NEW n \in (settled' + 1) .. Taken
          PROVE  \E i \in 1 .. Len(pending') : pending'[i] = User(n)
      <4>1. n \in (settled + 1) .. Taken
        BY <3>2, <3>3 DEF ActorOK
      <4>2. PICK k \in 1 .. Len(pending) : pending[k] = User(n)
        BY <2>1, <4>1 DEF InFlight
      <4>3. pending[k].kind = "user" /\ pending[k].n = n
        BY <4>2 DEF User
      <4>4. k # 1
        <5>1. k = 1 => settled' = n
          BY <3>3, <4>3
        <5>2. \A a, b, c \in Int : c \in (a + 1) .. b => c # a
          OBVIOUS
        <5>3. n \in Int
          BY <3>2, <3>3
        <5>4. n # settled'
          BY <3>2, <3>3, <5>2, <5>3
        <5> QED
          BY <5>1, <5>4
      <4>5. k - 1 \in 1 .. Len(pending') /\ pending'[k - 1] = pending[k]
        BY <3>1, <4>4
      <4> QED
        BY <4>2, <4>5
    <3>6. \A i, j \in 1 .. Len(pending') :
             (i < j /\ pending'[i].kind = "user" /\ pending'[j].kind = "user")
                => pending'[i].n < pending'[j].n
      <4>1. \A i, j \in 1 .. Len(pending) :
               (i < j /\ pending[i].kind = "user" /\ pending[j].kind = "user")
                  => pending[i].n < pending[j].n
        BY <2>1 DEF InFlight
      <4>2. \A i, j \in 1 .. Len(pending') : i < j =>
               /\ i + 1 \in 1 .. Len(pending) /\ j + 1 \in 1 .. Len(pending)
               /\ i + 1 < j + 1
        BY <3>1
      <4> QED
        BY <3>1, <4>1, <4>2
    <3> QED
      BY <2>1, <3>2, <3>3, <3>4, <3>5, <3>6 DEF InFlight, Alive
  <2> QED
    BY <2>2, <2>3, <1>6 DEF FlushWrite
<1>7. CASE ReadTake
  <2>1. /\ Responses(responses) \in Seq(Chunks)
        /\ \A i \in 1 .. Len(Responses(responses)) :
              Responses(responses)[i].kind # "user"
    <3>1. responses \in Seq(Nat)
      BY DEF HandlesOK
    <3>2. /\ Responses(responses) \in Seq(Chunks)
          /\ Len(Responses(responses)) = Len(responses)
          /\ \A i \in 1 .. Len(responses) :
                Responses(responses)[i] = Response(responses[i])
      BY <3>1, ResponsesFacts
    <3>3. \A n : Response(n).kind # "user"
      BY DEF Response
    <3> QED
      BY <3>2, <3>3
  <2>2. /\ pending' = pending \o Responses(responses)
        /\ UNCHANGED <<dataq, accepted, settled>> /\ Alive
    BY <1>7 DEF ReadTake, queueVars, handleFrame, Alive
  <2> QED
    BY <2>1, <2>2, ExtendInFlight
<1> USE ConstantsAssumption DEF HandlesOK, ActorOK, InFlight, Alive, Taken
<1>8. ASSUME NEW t \in Threads, WakeActor(t) PROVE InFlight'
  BY <1>8 DEF WakeActor, queueVars, controlVars, sizeVars, callerVars,
      actorVars
<1>9. ASSUME NEW w \in Writers, WriteCheck(w) PROVE InFlight'
  BY <1>9 DEF WriteCheck, writerFrame, queueVars, controlVars, sizeVars,
      callerVars, actorVars
<1>10. ASSUME NEW w \in Writers, WriteReserve(w) PROVE InFlight'
  BY <1>10 DEF WriteReserve, writerFrame, Alive, queueVars, controlVars,
      sizeVars, callerVars, actorVars
<1>11. CASE RespondProduce
  BY <1>11 DEF RespondProduce, queueVars, controlVars, sizeVars, callerVars,
      actorVars
<1>12. CASE RespondQueue
  BY <1>12 DEF RespondQueue, queueVars, controlVars, sizeVars, callerVars,
      actorVars
<1>13. CASE Resize
  BY <1>13 DEF Resize, queueVars, controlVars, sizeVars, callerVars, actorVars
<1>14. CASE Nudge
  BY <1>14 DEF Nudge, queueVars, controlVars, sizeVars, callerVars, actorVars
<1>15. CASE Probe
  BY <1>15 DEF Probe, Alive, Commands, queueVars, controlVars, sizeVars,
      callerVars, actorVars
<1>16. CASE BeginHandoff
  BY <1>16 DEF BeginHandoff, Send, SendFails, serverFrame, Alive, Commands,
      queueVars, controlVars, sizeVars, callerVars, actorVars
<1>17. CASE BeginReturns
  BY <1>17 DEF BeginReturns, serverFrame, queueVars, controlVars, sizeVars,
      callerVars, actorVars
<1>18. CASE RollbackHandoff
  BY <1>18 DEF RollbackHandoff, Send, SendFails, serverFrame, Alive, Commands,
      queueVars, controlVars, sizeVars, callerVars, actorVars
<1>19. CASE RollbackReturns
  BY <1>19 DEF RollbackReturns, serverFrame, queueVars, controlVars, sizeVars,
      callerVars, actorVars
<1>20. CASE DuplicateForHandoff
  BY <1>20 DEF DuplicateForHandoff, Send, SendFails, serverFrame, Alive,
      Commands, queueVars, controlVars, sizeVars, callerVars, actorVars
<1>21. CASE DuplicateReturns
  BY <1>21 DEF DuplicateReturns, serverFrame, queueVars, controlVars, sizeVars,
      callerVars, actorVars
<1>22. CASE ReleaseAfterCommit
  BY <1>22 DEF ReleaseAfterCommit, Send, SendFails, serverFrame, Alive,
      Commands, queueVars, controlVars, sizeVars, callerVars, actorVars
<1>23. CASE ReleaseReturns
  BY <1>23 DEF ReleaseReturns, serverFrame, queueVars, controlVars, sizeVars,
      callerVars, actorVars
<1>24. CASE Shutdown
  BY <1>24 DEF Shutdown, serverFrame, Alive, Commands, queueVars, controlVars,
      sizeVars, callerVars, actorVars
<1>25. CASE ControlEmpty
  BY <1>25 DEF ControlEmpty, handleFrame, queueVars, controlVars, sizeVars,
      callerVars, actorVars
<1>26. CASE HandleDuplicate
  BY <1>26 DEF HandleDuplicate, Receive, Reply, handleFrame, queueVars,
      controlVars, sizeVars, callerVars, actorVars
<1>27. CASE HandleProbe
  BY <1>27 DEF HandleProbe, Receive, Reply, handleFrame, queueVars,
      controlVars, sizeVars, callerVars, actorVars
<1>28. CASE HandleRollback
  BY <1>28 DEF HandleRollback, Receive, Reply, handleFrame, queueVars,
      controlVars, sizeVars, callerVars, actorVars
<1>29. CASE HandleRelease
  BY <1>29 DEF HandleRelease, Receive, Reply, handleFrame, queueVars,
      controlVars, sizeVars, callerVars, actorVars
<1>30. CASE HandleShutdown
  BY <1>30 DEF HandleShutdown, Receive, Reply, handleFrame, queueVars,
      controlVars, sizeVars, callerVars, actorVars
<1>31. CASE FlushStops
  BY <1>31 DEF FlushStops, AfterFlush, flushFrame, handleFrame, queueVars,
      controlVars, sizeVars, callerVars, actorVars
<1>32. CASE FlushFails
  BY <1>32 DEF FlushFails, AfterFlush, flushFrame, handleFrame, queueVars,
      controlVars, sizeVars, callerVars, actorVars
<1>33. CASE PollWake
  BY <1>33 DEF PollWake, ioFrame, handleFrame, queueVars, controlVars,
      sizeVars, callerVars, actorVars
<1>34. CASE PollReadable
  BY <1>34 DEF PollReadable, ioFrame, handleFrame, queueVars, controlVars,
      sizeVars, callerVars, actorVars
<1>35. CASE PollWritable
  BY <1>35 DEF PollWritable, ioFrame, handleFrame, queueVars, controlVars,
      sizeVars, callerVars, actorVars
<1>36. CASE PollIdle
  BY <1>36 DEF PollIdle, ioFrame, handleFrame, queueVars, controlVars,
      sizeVars, callerVars, actorVars
<1>37. CASE PollFails
  BY <1>37 DEF PollFails, ioFrame, handleFrame, queueVars, controlVars,
      sizeVars, callerVars, actorVars
<1>38. CASE QuiesceDone
  BY <1>38 DEF QuiesceDone, Reply, ioFrame, handleFrame, queueVars,
      controlVars, sizeVars, callerVars, actorVars
<1>39. CASE QuiesceFails
  BY <1>39 DEF QuiesceFails, Reply, ioFrame, handleFrame, queueVars,
      controlVars, sizeVars, callerVars, actorVars
<1>40. CASE QuiescePoll
  BY <1>40 DEF QuiescePoll, ioFrame, handleFrame, queueVars, controlVars,
      sizeVars, callerVars, actorVars
<1>41. CASE ReadOutput
  BY <1>41 DEF ReadOutput, handleFrame, queueVars, controlVars, sizeVars,
      callerVars, actorVars
<1>42. CASE ReadQueue
  BY <1>42 DEF ReadQueue, handleFrame, queueVars, controlVars, sizeVars,
      callerVars, actorVars
<1>43. CASE ReadNothing
  BY <1>43 DEF ReadNothing, ioFrame, handleFrame, queueVars, controlVars,
      sizeVars, callerVars, actorVars
<1>44. CASE ReadClosed
  BY <1>44 DEF ReadClosed, Reply, ioFrame, handleFrame, queueVars, controlVars,
      sizeVars, callerVars, actorVars
<1>45. CASE UNCHANGED vars
  BY <1>45 DEF vars, queueVars, controlVars, sizeVars, callerVars, actorVars
<1> QED
  BY <1>1, <1>2, <1>3, <1>4, <1>5, <1>6, <1>7, <1>8, <1>9, <1>10, <1>11, <1>12,
      <1>13, <1>14, <1>15, <1>16, <1>17, <1>18, <1>19, <1>20, <1>21, <1>22,
      <1>23, <1>24, <1>25, <1>26, <1>27, <1>28, <1>29, <1>30, <1>31, <1>32,
      <1>33, <1>34, <1>35, <1>36, <1>37, <1>38, <1>39, <1>40, <1>41, <1>42,
      <1>43, <1>44, <1>45 DEF Next, Handles, Actor,
      ActorOwn, HandleControl

\* A quiesced actor gets no user input; a released one had none left.
LEMMA DrainedStep ==
    HandlesOK /\ ActorOK /\ HandoffPhases /\ InFlight /\ QuiescedIsDrained
       /\ OpenGateMeansRunning /\ [Next]_vars => QuiescedIsDrained'
<1> SUFFICES ASSUME HandlesOK, ActorOK, HandoffPhases, InFlight,
         QuiescedIsDrained, OpenGateMeansRunning, [Next]_vars PROVE QuiescedIsDrained'
  OBVIOUS
<1>1. CASE HandleRelease
  <2>1. Alive /\ state = "Quiesced" /\ UNCHANGED <<accepted, settled>>
    <3>1. 1 \in 1 .. Len(controlq) /\ controlq[1].cmd = "Release" /\ Alive
      BY <1>1 DEF HandleRelease, Receive, HandlesOK, Alive
    <3> QED
      BY <3>1, <1>1 DEF HandleRelease, Receive, handleFrame, HandoffPhases
  <2>2. dataq = <<>> /\ \A i \in 1 .. Len(pending) : pending[i].kind # "user"
    BY <2>1 DEF QuiescedIsDrained
  <2>3. Taken = accepted
    BY <2>2 DEF Taken, ActorOK
  <2>4. settled <= accepted /\ \A n \in (settled + 1) .. accepted :
           \E i \in 1 .. Len(pending) : pending[i] = User(n)
    BY <2>1, <2>3 DEF InFlight
  <2>5. settled = accepted
    <3>1. \A n : User(n).kind = "user"
      BY DEF User
    <3>2. (settled + 1) .. accepted = {}
      BY <2>2, <2>4, <3>1
    <3> QED
      BY <2>4, <3>2 DEF ActorOK
  <2>6. ~Alive'
    BY <1>1 DEF HandleRelease, Alive
  <2> QED
    BY <2>1, <2>5, <2>6 DEF QuiescedIsDrained
<1>2. CASE ApplyControls
  <2> DEFINE r == IF resizeReq # 0 THEN <<Report(resizeReq)>> ELSE <<>>
             x == r \o Responses(responses)
  <2>1. x \in Seq(Chunks) /\ \A i \in 1 .. Len(x) : x[i].kind # "user"
    BY AppliedFacts
  <2>2. /\ pending' = (pending \o r) \o Responses(responses)
        /\ UNCHANGED <<dataq, state>> /\ Alive /\ state # "Released"
    BY <1>2 DEF ApplyControls, queueVars, Alive, HandoffPhases
  <2>3. pending \in Seq(Chunks) /\ r \in Seq(Chunks) /\ Responses(responses) \in Seq(Chunks)
    <3>1. Report(resizeReq) \in Chunks
      BY DEF HandlesOK, Report, Chunks
    <3> QED
      BY <3>1, ResponsesFacts DEF HandlesOK, ActorOK
  <2> HIDE DEF r
  <2>4. pending' = pending \o x
    BY <2>2, <2>3, ConcatAssociative
  <2>5. /\ Len(pending) \in Nat /\ Len(x) \in Nat
        /\ Len(pending \o x) = Len(pending) + Len(x)
        /\ \A i \in 1 .. (Len(pending) + Len(x)) : (pending \o x)[i] =
              IF i <= Len(pending) THEN pending[i] ELSE x[i - Len(pending)]
    BY <2>1, <2>3, ConcatProperties
  <2> HIDE DEF x
  <2>6. ASSUME \A i \in 1 .. Len(pending) : pending[i].kind # "user"
        PROVE  \A i \in 1 .. Len(pending') : pending'[i].kind # "user"
    BY <2>1, <2>4, <2>5, <2>6
  <2> QED
    BY <2>2, <2>6 DEF QuiescedIsDrained, Alive
<1>3. CASE FlushWrite
  <2>1. /\ pending # <<>> /\ UNCHANGED <<dataq, accepted, pc, state>>
        /\ Alive /\ state # "Released"
    BY <1>3 DEF FlushWrite, flushFrame, queueVars, handleFrame, Alive, HandoffPhases
  <2>2. /\ Len(Tail(pending)) = Len(pending) - 1 /\ Len(pending) \in Nat
        /\ \A i \in 1 .. Len(Tail(pending)) : Tail(pending)[i] = pending[i + 1]
    BY <2>1, HeadTailProperties DEF ActorOK
  <2>3. pending' \in {pending, Tail(pending)}
    BY <1>3 DEF FlushWrite
  <2>4. ASSUME \A i \in 1 .. Len(pending) : pending[i].kind # "user"
        PROVE  \A i \in 1 .. Len(pending') : pending'[i].kind # "user"
    <3>1. CASE pending' = pending
      BY <2>4, <3>1
    <3>2. CASE pending' = Tail(pending)
      <4>1. ASSUME NEW i \in 1 .. Len(Tail(pending))
            PROVE  Tail(pending)[i].kind # "user"
        <5>1. i + 1 \in 1 .. Len(pending) /\ Tail(pending)[i] = pending[i + 1]
          BY <2>2
        <5> QED
          BY <2>4, <5>1
      <4> QED
        BY <3>2, <4>1
    <3> QED
      BY <2>3, <3>1, <3>2
  <2> QED
    BY <2>1, <2>4 DEF QuiescedIsDrained, Alive
<1> USE DEF HandlesOK, ActorOK, HandoffPhases, OpenGateMeansRunning,
       QuiescedIsDrained, Alive, Taken
<1>4. ASSUME NEW t \in Threads, WakeActor(t) PROVE QuiescedIsDrained'
  BY <1>4 DEF WakeActor, queueVars, controlVars, sizeVars, callerVars,
      actorVars
<1>5. ASSUME NEW w \in Writers, WriteCheck(w) PROVE QuiescedIsDrained'
  BY <1>5 DEF WriteCheck, writerFrame, queueVars, controlVars, sizeVars,
      callerVars, actorVars
<1>6. ASSUME NEW w \in Writers, WriteReserve(w) PROVE QuiescedIsDrained'
  BY <1>6 DEF WriteReserve, writerFrame, Alive, queueVars, controlVars,
      sizeVars, callerVars, actorVars
<1>7. ASSUME NEW w \in Writers, WriteSend(w) PROVE QuiescedIsDrained'
  BY <1>7 DEF WriteSend, Enqueue, writerFrame, Alive, queueVars, controlVars,
      sizeVars, callerVars, actorVars
<1>8. ASSUME NEW w \in Writers, TryWrite(w) PROVE QuiescedIsDrained'
  BY <1>8 DEF TryWrite, Enqueue, writerFrame, Alive, queueVars, controlVars,
      sizeVars, callerVars, actorVars
<1>9. CASE RespondProduce
  BY <1>9 DEF RespondProduce, queueVars, controlVars, sizeVars, callerVars,
      actorVars
<1>10. CASE RespondQueue
  BY <1>10 DEF RespondQueue, queueVars, controlVars, sizeVars, callerVars,
      actorVars
<1>11. CASE Resize
  BY <1>11 DEF Resize, queueVars, controlVars, sizeVars, callerVars, actorVars
<1>12. CASE Nudge
  BY <1>12 DEF Nudge, queueVars, controlVars, sizeVars, callerVars, actorVars
<1>13. CASE Probe
  BY <1>13 DEF Probe, Alive, Commands, queueVars, controlVars, sizeVars,
      callerVars, actorVars
<1>14. CASE BeginHandoff
  BY <1>14 DEF BeginHandoff, Send, SendFails, serverFrame, Alive, Commands,
      queueVars, controlVars, sizeVars, callerVars, actorVars
<1>15. CASE BeginReturns
  BY <1>15 DEF BeginReturns, serverFrame, queueVars, controlVars, sizeVars,
      callerVars, actorVars
<1>16. CASE RollbackHandoff
  BY <1>16 DEF RollbackHandoff, Send, SendFails, serverFrame, Alive, Commands,
      queueVars, controlVars, sizeVars, callerVars, actorVars
<1>17. CASE RollbackReturns
  BY <1>17 DEF RollbackReturns, serverFrame, queueVars, controlVars, sizeVars,
      callerVars, actorVars
<1>18. CASE DuplicateForHandoff
  BY <1>18 DEF DuplicateForHandoff, Send, SendFails, serverFrame, Alive,
      Commands, queueVars, controlVars, sizeVars, callerVars, actorVars
<1>19. CASE DuplicateReturns
  BY <1>19 DEF DuplicateReturns, serverFrame, queueVars, controlVars, sizeVars,
      callerVars, actorVars
<1>20. CASE ReleaseAfterCommit
  BY <1>20 DEF ReleaseAfterCommit, Send, SendFails, serverFrame, Alive,
      Commands, queueVars, controlVars, sizeVars, callerVars, actorVars
<1>21. CASE ReleaseReturns
  BY <1>21 DEF ReleaseReturns, serverFrame, queueVars, controlVars, sizeVars,
      callerVars, actorVars
<1>22. CASE Shutdown
  BY <1>22 DEF Shutdown, serverFrame, Alive, Commands, queueVars, controlVars,
      sizeVars, callerVars, actorVars
<1>23. CASE ControlEmpty
  BY <1>23 DEF ControlEmpty, handleFrame, queueVars, controlVars, sizeVars,
      callerVars, actorVars
<1>24. CASE HandleBegin
  BY <1>24 DEF HandleBegin, Receive, Reply, handleFrame, Users, User, Chunks,
      queueVars, controlVars, sizeVars, callerVars, actorVars
<1>25. CASE HandleDuplicate
  BY <1>25 DEF HandleDuplicate, Receive, Reply, handleFrame, queueVars,
      controlVars, sizeVars, callerVars, actorVars
<1>26. CASE HandleProbe
  BY <1>26 DEF HandleProbe, Receive, Reply, handleFrame, queueVars,
      controlVars, sizeVars, callerVars, actorVars
<1>27. CASE HandleRollback
  BY <1>27 DEF HandleRollback, Receive, Reply, handleFrame, queueVars,
      controlVars, sizeVars, callerVars, actorVars
<1>28. CASE HandleShutdown
  BY <1>28 DEF HandleShutdown, Receive, Reply, handleFrame, queueVars,
      controlVars, sizeVars, callerVars, actorVars
<1>29. CASE DrainData
  BY <1>29 DEF DrainData, handleFrame, User, Chunks, queueVars, controlVars,
      sizeVars, callerVars, actorVars
<1>30. CASE FlushStops
  BY <1>30 DEF FlushStops, AfterFlush, flushFrame, handleFrame, queueVars,
      controlVars, sizeVars, callerVars, actorVars
<1>31. CASE FlushFails
  BY <1>31 DEF FlushFails, AfterFlush, flushFrame, handleFrame, queueVars,
      controlVars, sizeVars, callerVars, actorVars
<1>32. CASE PollWake
  BY <1>32 DEF PollWake, ioFrame, handleFrame, queueVars, controlVars,
      sizeVars, callerVars, actorVars
<1>33. CASE PollReadable
  BY <1>33 DEF PollReadable, ioFrame, handleFrame, queueVars, controlVars,
      sizeVars, callerVars, actorVars
<1>34. CASE PollWritable
  BY <1>34 DEF PollWritable, ioFrame, handleFrame, queueVars, controlVars,
      sizeVars, callerVars, actorVars
<1>35. CASE PollIdle
  BY <1>35 DEF PollIdle, ioFrame, handleFrame, queueVars, controlVars,
      sizeVars, callerVars, actorVars
<1>36. CASE PollFails
  BY <1>36 DEF PollFails, ioFrame, handleFrame, queueVars, controlVars,
      sizeVars, callerVars, actorVars
<1>37. CASE QuiesceDone
  BY <1>37 DEF QuiesceDone, Reply, ioFrame, handleFrame, queueVars,
      controlVars, sizeVars, callerVars, actorVars
<1>38. CASE QuiesceFails
  BY <1>38 DEF QuiesceFails, Reply, ioFrame, handleFrame, queueVars,
      controlVars, sizeVars, callerVars, actorVars
<1>39. CASE QuiescePoll
  BY <1>39 DEF QuiescePoll, ioFrame, handleFrame, queueVars, controlVars,
      sizeVars, callerVars, actorVars
<1>40. CASE ReadOutput
  BY <1>40 DEF ReadOutput, handleFrame, queueVars, controlVars, sizeVars,
      callerVars, actorVars
<1>41. CASE ReadQueue
  BY <1>41 DEF ReadQueue, handleFrame, queueVars, controlVars, sizeVars,
      callerVars, actorVars
<1>42. CASE ReadTake
  BY <1>42 DEF ReadTake, handleFrame, Responses, Response, Chunks, queueVars,
      controlVars, sizeVars, callerVars, actorVars
<1>43. CASE ReadNothing
  BY <1>43 DEF ReadNothing, ioFrame, handleFrame, queueVars, controlVars,
      sizeVars, callerVars, actorVars
<1>44. CASE ReadClosed
  BY <1>44 DEF ReadClosed, Reply, ioFrame, handleFrame, queueVars, controlVars,
      sizeVars, callerVars, actorVars
<1>45. CASE UNCHANGED vars
  BY <1>45 DEF vars, queueVars, controlVars, sizeVars, callerVars, actorVars
<1> QED
  BY <1>1, <1>2, <1>3, <1>4, <1>5, <1>6, <1>7, <1>8, <1>9, <1>10, <1>11, <1>12,
      <1>13, <1>14, <1>15, <1>16, <1>17, <1>18, <1>19, <1>20, <1>21, <1>22,
      <1>23, <1>24, <1>25, <1>26, <1>27, <1>28, <1>29, <1>30, <1>31, <1>32,
      <1>33, <1>34, <1>35, <1>36, <1>37, <1>38, <1>39, <1>40, <1>41, <1>42,
      <1>43, <1>44, <1>45 DEF Next, Handles, Actor,
      ActorOwn, HandleControl

\* The gate opens only on the answer to the latest rollback.
LEMMA OpenGateStep ==
    HandlesOK /\ ActorOK /\ CallNumbers /\ HandoffPhases /\ OpenGateMeansRunning
       /\ [Next]_vars => OpenGateMeansRunning'
<1> SUFFICES ASSUME HandlesOK, ActorOK, CallNumbers, HandoffPhases,
         OpenGateMeansRunning, [Next]_vars PROVE OpenGateMeansRunning'
  OBVIOUS
<1> USE DEF HandlesOK, ActorOK, HandoffPhases, OpenGateMeansRunning,
       NoPhaseChange, Alive
<1>1. ASSUME NEW t \in Threads, WakeActor(t) PROVE OpenGateMeansRunning'
  BY <1>1 DEF WakeActor, queueVars, controlVars, sizeVars, callerVars,
      actorVars
<1>2. ASSUME NEW w \in Writers, WriteCheck(w) PROVE OpenGateMeansRunning'
  BY <1>2 DEF WriteCheck, writerFrame, queueVars, controlVars, sizeVars,
      callerVars, actorVars
<1>3. ASSUME NEW w \in Writers, WriteReserve(w) PROVE OpenGateMeansRunning'
  BY <1>3 DEF WriteReserve, writerFrame, Alive, queueVars, controlVars,
      sizeVars, callerVars, actorVars
<1>4. ASSUME NEW w \in Writers, WriteSend(w) PROVE OpenGateMeansRunning'
  BY <1>4 DEF WriteSend, Enqueue, writerFrame, Alive, queueVars, controlVars,
      sizeVars, callerVars, actorVars
<1>5. ASSUME NEW w \in Writers, TryWrite(w) PROVE OpenGateMeansRunning'
  BY <1>5 DEF TryWrite, Enqueue, writerFrame, Alive, queueVars, controlVars,
      sizeVars, callerVars, actorVars
<1>6. CASE RespondProduce
  BY <1>6 DEF RespondProduce, queueVars, controlVars, sizeVars, callerVars,
      actorVars
<1>7. CASE RespondQueue
  BY <1>7 DEF RespondQueue, queueVars, controlVars, sizeVars, callerVars,
      actorVars
<1>8. CASE Resize
  BY <1>8 DEF Resize, queueVars, controlVars, sizeVars, callerVars, actorVars
<1>9. CASE Nudge
  BY <1>9 DEF Nudge, queueVars, controlVars, sizeVars, callerVars, actorVars
<1>10. CASE Probe
  BY <1>10, SMTT(30) DEF Probe, Alive, Commands, queueVars, controlVars, sizeVars,
      callerVars, actorVars
<1>11. CASE BeginHandoff
  BY <1>11 DEF BeginHandoff, Send, SendFails, serverFrame, Alive, Commands,
      queueVars, controlVars, sizeVars, callerVars, actorVars
<1>12. CASE BeginReturns
  BY <1>12 DEF BeginReturns, serverFrame, queueVars, controlVars, sizeVars,
      callerVars, actorVars
<1>13. CASE RollbackHandoff
  BY <1>13 DEF RollbackHandoff, Send, SendFails, serverFrame, Alive, Commands,
      queueVars, controlVars, sizeVars, callerVars, actorVars
<1>14. CASE RollbackReturns
  BY <1>14 DEF RollbackReturns, serverFrame, queueVars, controlVars, sizeVars,
      callerVars, actorVars
<1>15. CASE DuplicateForHandoff
  BY <1>15 DEF DuplicateForHandoff, Send, SendFails, serverFrame, Alive,
      Commands, queueVars, controlVars, sizeVars, callerVars, actorVars
<1>16. CASE DuplicateReturns
  BY <1>16 DEF DuplicateReturns, serverFrame, queueVars, controlVars, sizeVars,
      callerVars, actorVars
<1>17. CASE ReleaseAfterCommit
  BY <1>17 DEF ReleaseAfterCommit, Send, SendFails, serverFrame, Alive,
      Commands, queueVars, controlVars, sizeVars, callerVars, actorVars
<1>18. CASE ReleaseReturns
  BY <1>18 DEF ReleaseReturns, serverFrame, queueVars, controlVars, sizeVars,
      callerVars, actorVars
<1>19. CASE Shutdown
  BY <1>19 DEF Shutdown, serverFrame, Alive, Commands, queueVars, controlVars,
      sizeVars, callerVars, actorVars
<1>20. CASE ControlEmpty
  BY <1>20 DEF ControlEmpty, handleFrame, queueVars, controlVars, sizeVars,
      callerVars, actorVars
<1>21. CASE HandleBegin
  BY <1>21 DEF HandleBegin, Receive, Reply, handleFrame, Users, User, Chunks,
      queueVars, controlVars, sizeVars, callerVars, actorVars
<1>22. CASE HandleDuplicate
  BY <1>22 DEF HandleDuplicate, Receive, Reply, handleFrame, queueVars,
      controlVars, sizeVars, callerVars, actorVars
<1>23. CASE HandleProbe
  BY <1>23 DEF HandleProbe, Receive, Reply, handleFrame, queueVars,
      controlVars, sizeVars, callerVars, actorVars
<1>24. CASE HandleRollback
  BY <1>24 DEF HandleRollback, Receive, Reply, handleFrame, queueVars,
      controlVars, sizeVars, callerVars, actorVars
<1>25. CASE HandleRelease
  BY <1>25 DEF HandleRelease, Receive, Reply, handleFrame, queueVars,
      controlVars, sizeVars, callerVars, actorVars
<1>26. CASE HandleShutdown
  BY <1>26 DEF HandleShutdown, Receive, Reply, handleFrame, queueVars,
      controlVars, sizeVars, callerVars, actorVars
<1>27. CASE DrainData
  BY <1>27 DEF DrainData, handleFrame, User, Chunks, queueVars, controlVars,
      sizeVars, callerVars, actorVars
<1>28. CASE ApplyControls
  BY <1>28 DEF ApplyControls, handleFrame, Responses, Response, Report, Chunks,
      queueVars, controlVars, sizeVars, callerVars, actorVars
<1>29. CASE FlushStops
  BY <1>29 DEF FlushStops, AfterFlush, flushFrame, handleFrame, queueVars,
      controlVars, sizeVars, callerVars, actorVars
<1>30. CASE FlushWrite
  BY <1>30 DEF FlushWrite, flushFrame, handleFrame, Chunks, queueVars,
      controlVars, sizeVars, callerVars, actorVars
<1>31. CASE FlushFails
  BY <1>31 DEF FlushFails, AfterFlush, flushFrame, handleFrame, queueVars,
      controlVars, sizeVars, callerVars, actorVars
<1>32. CASE PollWake
  BY <1>32 DEF PollWake, ioFrame, handleFrame, queueVars, controlVars,
      sizeVars, callerVars, actorVars
<1>33. CASE PollReadable
  BY <1>33 DEF PollReadable, ioFrame, handleFrame, queueVars, controlVars,
      sizeVars, callerVars, actorVars
<1>34. CASE PollWritable
  BY <1>34 DEF PollWritable, ioFrame, handleFrame, queueVars, controlVars,
      sizeVars, callerVars, actorVars
<1>35. CASE PollIdle
  BY <1>35 DEF PollIdle, ioFrame, handleFrame, queueVars, controlVars,
      sizeVars, callerVars, actorVars
<1>36. CASE PollFails
  BY <1>36 DEF PollFails, ioFrame, handleFrame, queueVars, controlVars,
      sizeVars, callerVars, actorVars
<1>37. CASE QuiesceDone
  BY <1>37 DEF QuiesceDone, Reply, ioFrame, handleFrame, queueVars,
      controlVars, sizeVars, callerVars, actorVars
<1>38. CASE QuiesceFails
  BY <1>38 DEF QuiesceFails, Reply, ioFrame, handleFrame, queueVars,
      controlVars, sizeVars, callerVars, actorVars
<1>39. CASE QuiescePoll
  BY <1>39 DEF QuiescePoll, ioFrame, handleFrame, queueVars, controlVars,
      sizeVars, callerVars, actorVars
<1>40. CASE ReadOutput
  BY <1>40 DEF ReadOutput, handleFrame, queueVars, controlVars, sizeVars,
      callerVars, actorVars
<1>41. CASE ReadQueue
  BY <1>41 DEF ReadQueue, handleFrame, queueVars, controlVars, sizeVars,
      callerVars, actorVars
<1>42. CASE ReadTake
  BY <1>42 DEF ReadTake, handleFrame, Responses, Response, Chunks, queueVars,
      controlVars, sizeVars, callerVars, actorVars
<1>43. CASE ReadNothing
  BY <1>43 DEF ReadNothing, ioFrame, handleFrame, queueVars, controlVars,
      sizeVars, callerVars, actorVars
<1>44. CASE ReadClosed
  BY <1>44 DEF ReadClosed, Reply, ioFrame, handleFrame, queueVars, controlVars,
      sizeVars, callerVars, actorVars
<1>45. CASE UNCHANGED vars
  BY <1>45 DEF vars, queueVars, controlVars, sizeVars, callerVars, actorVars
<1> QED
  BY <1>1, <1>2, <1>3, <1>4, <1>5, <1>6, <1>7, <1>8, <1>9, <1>10, <1>11, <1>12,
      <1>13, <1>14, <1>15, <1>16, <1>17, <1>18, <1>19, <1>20, <1>21, <1>22,
      <1>23, <1>24, <1>25, <1>26, <1>27, <1>28, <1>29, <1>30, <1>31, <1>32,
      <1>33, <1>34, <1>35, <1>36, <1>37, <1>38, <1>39, <1>40, <1>41, <1>42,
      <1>43, <1>44, <1>45 DEF Next, Handles, Actor,
      ActorOwn, HandleControl

-----------------------------------------------------------------------------
(* The theorems.                                                           *)

\* A freshly spawned actor, running or imported, satisfies the invariant.
LEMMA InitInv == Init => IInv
<1> SUFFICES ASSUME Init PROVE IInv
  OBVIOUS
<1>1. FlagsOK
  BY Zenon DEF Init, FlagsOK
<1>2. HandlesOK /\ ActorOK
  BY ConstantsAssumption DEF Init, HandlesOK, ActorOK
<1>3. CallNumbers /\ HandoffPhases /\ OpenGateMeansRunning
  BY DEF Init, CallNumbers, HandoffPhases, OpenGateMeansRunning, NoPhaseChange, Alive
<1>4. InFlight /\ QuiescedIsDrained
  BY DEF Init, InFlight, QuiescedIsDrained, Taken, Alive
<1> QED
  BY <1>1, <1>2, <1>3, <1>4 DEF IInv, TypeOK

\* Every step of the handles, the actor and the PTY preserves the invariant.
LEMMA NextInv == IInv /\ [Next]_vars => IInv'
<1> SUFFICES ASSUME IInv, [Next]_vars PROVE IInv'
  OBVIOUS
<1>1. TypeOK'
  BY FlagsStep, HandlesStep, ActorTypeStep DEF IInv, TypeOK
<1>2. CallNumbers'
  BY CallNumbersStep DEF IInv, TypeOK
<1>3. HandoffPhases'
  BY HandoffPhasesStep DEF IInv, TypeOK
<1>4. InFlight'
  BY InFlightStep DEF IInv, TypeOK
<1>5. QuiescedIsDrained'
  BY DrainedStep DEF IInv, TypeOK
<1>6. OpenGateMeansRunning'
  BY OpenGateStep DEF IInv, TypeOK
<1> QED
  BY <1>1, <1>2, <1>3, <1>4, <1>5, <1>6 DEF IInv

\* The inductive invariant of the PTY actor and its handles.
THEOREM Invariance == Spec => []IInv
  BY InitInv, NextInv, PTL DEF Spec

\* Type correctness of the PTY actor and of what its handles share.
THEOREM TypeCorrect == Spec => []TypeOK
<1>1. IInv => TypeOK
  BY DEF IInv
<1> QED
  BY <1>1, Invariance, PTL

\* While the actor lives, accepted user input is neither lost, nor repeated,
\* nor reordered, whatever the writers and the handoff calls do.
THEOREM InputConserved == Spec => []InFlight
<1>1. IInv => InFlight
  BY DEF IInv
<1> QED
  BY <1>1, Invariance, PTL

\* A quiesced PTY holds back no user input, and a released one has settled
\* all the input it accepted.
THEOREM HandoffLosesNothing == Spec => []QuiescedIsDrained
<1>1. IInv => QuiescedIsDrained
  BY DEF IInv
<1> QED
  BY <1>1, Invariance, PTL

\* The gate for user input is open only while the actor runs: late replies to
\* calls that timed out never open it.
THEOREM GateSafe == Spec => []OpenGateMeansRunning
<1>1. IInv => OpenGateMeansRunning
  BY DEF IInv
<1> QED
  BY <1>1, Invariance, PTL
-----------------------------------------------------------------------------
(* The strengthening for the order in which responses, size reports and    *)
(* sizes reach the PTY.                                                    *)

\* The latest request is for the size last asked for; so is a queued nudge,
\* unless a resize overtook it.
SizesOK ==
    /\ resizeReq # 0 => resizeReq = wanted
    /\ nudgeReq # 0 => nudgeReq = wanted \/ overtaken
    /\ SizeSettles

\* Queued responses are numbered in the order of their production, after the
\* ones already pending; the one being produced is in neither queue.
ResponsesOK ==
    /\ pc = "reading" => order = "actor"
    /\ \A i, j \in 1 .. Len(responses) : i < j => responses[i] < responses[j]
    /\ \A i \in 1 .. Len(responses) :
          responses[i] <= generated /\ (order # "free" => responses[i] < generated)
    /\ \A i \in 1 .. Len(pending) : pending[i].kind = "response" =>
          /\ pending[i].n <= generated
          /\ order # "free" => pending[i].n < generated
          /\ \A j \in 1 .. Len(responses) : pending[i].n < responses[j]

\* A pending size report is older than the resize that is queued.
ReportsOK ==
    \A i \in 1 .. Len(pending) : pending[i].kind = "report" =>
       pending[i].n <= wanted /\ (resizeReq # 0 => pending[i].n < resizeReq)

\* The pending chunks of each kind are in order.
PendingOrder ==
    \A i, j \in 1 .. Len(pending) :
       i < j /\ pending[i].kind = pending[j].kind => pending[i].n < pending[j].n



\* What the order depends on, and the steps that change it.
orderVars == <<pending, responses, generated, order, resizeReq, nudgeReq, wanted,
               overtaken, ptySize>>

Moves ==
    \/ RespondProduce \/ RespondQueue \/ Resize \/ Nudge
    \/ HandleBegin \/ HandleRelease \/ DrainData \/ ApplyControls
    \/ FlushWrite \/ FlushFails \/ ReadOutput \/ ReadQueue \/ ReadTake

LEMMA Elsewhere ==
    ASSUME [Next]_vars, ~Moves
    PROVE  UNCHANGED orderVars /\ (pc' = "reading" => pc = "reading")
<1> USE DEF orderVars
<1> DEFINE Goal == UNCHANGED orderVars /\ (pc' = "reading" => pc = "reading")
<1>1. ASSUME NEW t \in Threads, WakeActor(t) PROVE Goal
  BY <1>1 DEF WakeActor, queueVars, controlVars, sizeVars, callerVars,
      actorVars
<1>2. ASSUME NEW w \in Writers, WriteCheck(w) PROVE Goal
  BY <1>2 DEF WriteCheck, writerFrame, queueVars, controlVars, sizeVars,
      callerVars, actorVars
<1>3. ASSUME NEW w \in Writers, WriteReserve(w) PROVE Goal
  BY <1>3 DEF WriteReserve, writerFrame, queueVars, controlVars, sizeVars,
      callerVars, actorVars
<1>4. ASSUME NEW w \in Writers, WriteSend(w) PROVE Goal
  BY <1>4 DEF WriteSend, Enqueue, writerFrame, queueVars, controlVars,
      sizeVars, callerVars, actorVars
<1>5. ASSUME NEW w \in Writers, TryWrite(w) PROVE Goal
  BY <1>5 DEF TryWrite, Enqueue, writerFrame, queueVars, controlVars,
      sizeVars, callerVars, actorVars
<1>6. CASE Probe
  BY <1>6 DEF Probe, queueVars, controlVars, sizeVars, callerVars, actorVars
<1>7. CASE BeginHandoff
  BY <1>7 DEF BeginHandoff, Send, SendFails, serverFrame, queueVars,
      controlVars, sizeVars, callerVars, actorVars
<1>8. CASE BeginReturns
  BY <1>8 DEF BeginReturns, serverFrame, queueVars, controlVars, sizeVars,
      callerVars, actorVars
<1>9. CASE RollbackHandoff
  BY <1>9 DEF RollbackHandoff, Send, SendFails, serverFrame, queueVars,
      controlVars, sizeVars, callerVars, actorVars
<1>10. CASE RollbackReturns
  BY <1>10 DEF RollbackReturns, serverFrame, queueVars, controlVars, sizeVars,
      callerVars, actorVars
<1>11. CASE DuplicateForHandoff
  BY <1>11 DEF DuplicateForHandoff, Send, SendFails, serverFrame, queueVars,
      controlVars, sizeVars, callerVars, actorVars
<1>12. CASE DuplicateReturns
  BY <1>12 DEF DuplicateReturns, serverFrame, queueVars, controlVars,
      sizeVars, callerVars, actorVars
<1>13. CASE ReleaseAfterCommit
  BY <1>13 DEF ReleaseAfterCommit, Send, SendFails, serverFrame, queueVars,
      controlVars, sizeVars, callerVars, actorVars
<1>14. CASE ReleaseReturns
  BY <1>14 DEF ReleaseReturns, serverFrame, queueVars, controlVars, sizeVars,
      callerVars, actorVars
<1>15. CASE Shutdown
  BY <1>15 DEF Shutdown, serverFrame, queueVars, controlVars, sizeVars,
      callerVars, actorVars
<1>16. CASE ControlEmpty
  BY <1>16 DEF ControlEmpty, handleFrame, queueVars, controlVars, sizeVars,
      callerVars, actorVars
<1>17. CASE HandleDuplicate
  BY <1>17 DEF HandleDuplicate, Receive, handleFrame, queueVars, controlVars,
      sizeVars, callerVars, actorVars
<1>18. CASE HandleProbe
  BY <1>18 DEF HandleProbe, Receive, handleFrame, queueVars, controlVars,
      sizeVars, callerVars, actorVars
<1>19. CASE HandleRollback
  BY <1>19 DEF HandleRollback, Receive, handleFrame, queueVars, controlVars,
      sizeVars, callerVars, actorVars
<1>20. CASE HandleShutdown
  BY <1>20 DEF HandleShutdown, Receive, handleFrame, queueVars, controlVars,
      sizeVars, callerVars, actorVars
<1>21. CASE FlushStops
  BY <1>21 DEF FlushStops, AfterFlush, flushFrame, handleFrame, queueVars,
      controlVars, sizeVars, callerVars, actorVars
<1>22. CASE PollWake
  BY <1>22 DEF PollWake, ioFrame, handleFrame, queueVars, controlVars,
      sizeVars, callerVars, actorVars
<1>23. CASE PollReadable
  BY <1>23 DEF PollReadable, ioFrame, handleFrame, queueVars, controlVars,
      sizeVars, callerVars, actorVars
<1>24. CASE PollWritable
  BY <1>24 DEF PollWritable, ioFrame, handleFrame, queueVars, controlVars,
      sizeVars, callerVars, actorVars
<1>25. CASE PollIdle
  BY <1>25 DEF PollIdle, ioFrame, handleFrame, queueVars, controlVars,
      sizeVars, callerVars, actorVars
<1>26. CASE PollFails
  BY <1>26 DEF PollFails, ioFrame, handleFrame, queueVars, controlVars,
      sizeVars, callerVars, actorVars
<1>27. CASE QuiesceDone
  BY <1>27 DEF QuiesceDone, ioFrame, handleFrame, queueVars, controlVars,
      sizeVars, callerVars, actorVars
<1>28. CASE QuiesceFails
  BY <1>28 DEF QuiesceFails, ioFrame, handleFrame, queueVars, controlVars,
      sizeVars, callerVars, actorVars
<1>29. CASE QuiescePoll
  BY <1>29 DEF QuiescePoll, ioFrame, handleFrame, queueVars, controlVars,
      sizeVars, callerVars, actorVars
<1>30. CASE ReadNothing
  BY <1>30 DEF ReadNothing, ioFrame, handleFrame, queueVars, controlVars,
      sizeVars, callerVars, actorVars
<1>31. CASE ReadClosed
  BY <1>31 DEF ReadClosed, ioFrame, handleFrame, queueVars, controlVars,
      sizeVars, callerVars, actorVars
<1>32. CASE UNCHANGED vars
  BY <1>32 DEF vars, queueVars, controlVars, sizeVars, callerVars, actorVars
<1> QED
  BY <1>1, <1>2, <1>3, <1>4, <1>5, <1>6, <1>7, <1>8, <1>9, <1>10, <1>11,
      <1>12, <1>13, <1>14, <1>15, <1>16, <1>17, <1>18, <1>19, <1>20, <1>21,
      <1>22, <1>23, <1>24, <1>25, <1>26, <1>27, <1>28, <1>29, <1>30, <1>31,
      <1>32 DEF Moves, Next, Handles, Actor, ActorOwn, HandleControl

\* The sizes: a request names the size last asked for, and so does what the
\* PTY was given last.
LEMMA SizesStep == ASSUME HandlesOK, ActorOK, FlagsOK, SizesOK, [Next]_vars PROVE SizesOK'
<1> USE DEF SizesOK, SizeSettles
<1>1. CASE Resize
  <2>1. wanted' = wanted + 1 /\ resizeReq' = wanted + 1 /\ nudgeReq' = nudgeReq
    BY <1>1 DEF Resize
  <2>2. nudgeReq # 0 => overtaken'
    BY <1>1 DEF Resize
  <2> QED
    BY <2>1, <2>2 DEF HandlesOK, ActorOK
<1>2. CASE Nudge
  <2>1. nudgeReq' = wanted /\ wanted # 0 /\ UNCHANGED <<resizeReq, wanted>>
    BY <1>2 DEF Nudge, sizeVars
  <2> QED
    BY <2>1
<1>3. CASE ApplyControls
  <2>1. /\ resizeReq' = 0 /\ nudgeReq' = 0 /\ UNCHANGED <<wanted, overtaken>>
        /\ ptySize' = IF nudgeReq # 0 THEN nudgeReq
                      ELSE IF resizeReq # 0 THEN resizeReq ELSE ptySize
    BY <1>3 DEF ApplyControls, handleFrame
  <2> QED
    BY <2>1
<1>4. CASE UNCHANGED <<resizeReq, nudgeReq, wanted, overtaken, ptySize>>
  BY <1>4
<1>5. CASE Moves /\ ~Resize /\ ~Nudge /\ ~ApplyControls
  BY <1>4, <1>5 DEF Moves, RespondProduce, RespondQueue, HandleBegin, HandleRelease,
      Receive, DrainData, FlushWrite, FlushFails, ReadOutput, ReadQueue, ReadTake,
      flushFrame, handleFrame, controlVars, sizeVars
<1> QED
  BY <1>1, <1>2, <1>3, <1>4, <1>5, Elsewhere DEF Moves, orderVars

\* The gate after a rollback, or a begin_handoff that could not be sent.
LEMMA GateStep == ASSUME FlagsOK, GateReopens, [Next]_vars PROVE GateReopens'
<1> USE DEF GateReopens
<1>1. CASE UNCHANGED <<srv, gate, stuck>>
  BY <1>1
<1>2. CASE BeginHandoff
  <2>1. (srv' = "begin") \/ (gate' = "open")
    BY <1>2 DEF BeginHandoff, Send
  <2> QED
    BY <2>1
<1>3. CASE RollbackHandoff
  <2>1. (srv' = "rollback") \/ stuck'
    BY <1>3 DEF RollbackHandoff, Send
  <2> QED
    BY <2>1
<1>4. CASE RollbackReturns
  <2>1. (gate' = "open") \/ stuck'
    BY <1>4 DEF RollbackReturns
  <2> QED
    BY <2>1
<1>5. CASE \/ BeginReturns \/ DuplicateForHandoff \/ DuplicateReturns
           \/ ReleaseAfterCommit \/ ReleaseReturns \/ Shutdown
  <2>1. srv' # "idle"
    BY <1>5 DEF BeginReturns, DuplicateForHandoff, DuplicateReturns,
        ReleaseAfterCommit, ReleaseReturns, Shutdown, Send, SendFails
  <2> QED
    BY <2>1
<1>6. CASE \/ \E t \in Threads : WakeActor(t)
           \/ \E w \in Writers :
                 WriteCheck(w) \/ WriteReserve(w) \/ WriteSend(w) \/ TryWrite(w)
           \/ RespondProduce \/ RespondQueue \/ Resize \/ Nudge \/ Probe
  BY <1>1, <1>6 DEF WakeActor, WriteCheck, WriteReserve, WriteSend, TryWrite, writerFrame,
      RespondProduce, RespondQueue, Resize, Nudge, Probe, callerVars
<1>7. CASE Actor
  BY <1>1, <1>7 DEF Actor, ActorOwn, HandleControl, ControlEmpty, HandleBegin,
      HandleDuplicate, HandleProbe, HandleRollback, HandleRelease, HandleShutdown,
      Receive, DrainData, ApplyControls, FlushStops, FlushWrite, FlushFails, PollWake,
      PollReadable, PollWritable, PollIdle, PollFails, QuiesceDone, QuiesceFails,
      QuiescePoll, ReadOutput, ReadQueue, ReadTake, ReadNothing, ReadClosed,
      flushFrame, ioFrame, handleFrame, callerVars
<1>8. CASE UNCHANGED vars
  BY <1>1, <1>8 DEF vars, callerVars
<1> QED
  BY <1>2, <1>3, <1>4, <1>5, <1>6, <1>7, <1>8 DEF Next, Handles

-----------------------------------------------------------------------------
(* How the pending chunks change: they grow at the end and shrink at the   *)
(* front.                                                                  *)

\* The ordering invariants that speak of pending chunks.
OrderInv == ResponsesOK /\ ReportsOK /\ PendingOrder

\* What the constructors of chunks carry.
LEMMA ChunkFields ==
    \A n : /\ User(n).kind = "user"
          /\ Response(n).kind = "response" /\ Response(n).n = n
          /\ Report(n).kind = "report" /\ Report(n).n = n
BY DEF User, Response, Report

LEMMA PendingNumbers == ASSUME ActorOK PROVE \A i \in 1 .. Len(pending) : pending[i].n \in Nat
<1>1. \A i \in 1 .. Len(pending) : pending[i] \in Chunks
  BY ElementOfSeq DEF ActorOK
<1> QED
  BY <1>1 DEF Chunks

\* A concatenation, part by part.
LEMMA ConcatParts ==
    ASSUME NEW s \in Seq(Chunks), NEW t \in Seq(Chunks)
    PROVE  /\ s \o t \in Seq(Chunks) /\ Len(s) \in Nat /\ Len(t) \in Nat
           /\ Len(s \o t) = Len(s) + Len(t)
           /\ \A i \in 1 .. Len(s) : (s \o t)[i] = s[i]
           /\ \A i \in 1 .. Len(t) : (s \o t)[Len(s) + i] = t[i]
<1>1. /\ s \o t \in Seq(Chunks) /\ Len(s) \in Nat /\ Len(t) \in Nat
      /\ Len(s \o t) = Len(s) + Len(t)
  BY ConcatProperties
<1>2. \A i \in 1 .. Len(s) + Len(t) :
         (s \o t)[i] = IF i <= Len(s) THEN s[i] ELSE t[i - Len(s)]
  BY ConcatProperties
<1>3. ASSUME NEW i \in 1 .. Len(t) PROVE (s \o t)[Len(s) + i] = t[i]
  <2>1. /\ Len(s) + i \in 1 .. Len(s) + Len(t) /\ ~(Len(s) + i <= Len(s))
        /\ (Len(s) + i) - Len(s) = i
    BY <1>1
  <2> QED
    BY <1>2, <2>1
<1> QED
  BY <1>1, <1>2, <1>3

LEMMA Grown ==
    ASSUME ActorOK, NEW x \in Seq(Chunks), pending' = pending \o x
    PROVE  /\ Len(pending) \in Nat /\ Len(x) \in Nat
           /\ Len(pending') = Len(pending) + Len(x)
           /\ \A i \in 1 .. Len(pending') :
                 \/ i \in 1 .. Len(pending) /\ pending'[i] = pending[i]
                 \/ i - Len(pending) \in 1 .. Len(x) /\ pending'[i] = x[i - Len(pending)]
BY ConcatProperties, SMTT(30) DEF ActorOK

\* Input of the user does not disturb the other streams.
LEMMA UsersAdded ==
    ASSUME HandlesOK, ActorOK, OrderInv, InFlight', Alive', pc' # "reading",
           UNCHANGED <<responses, generated, order, resizeReq, wanted>>,
           NEW x \in Seq(Chunks), pending' = pending \o x,
           \A i \in 1 .. Len(x) : x[i].kind = "user"
    PROVE  OrderInv'
<1>1. \A i \in 1 .. Len(pending') : pending'[i].kind # "user" =>
         i \in 1 .. Len(pending) /\ pending'[i] = pending[i]
  BY Grown
<1>2. ResponsesOK' /\ ReportsOK'
  BY <1>1 DEF OrderInv, ResponsesOK, ReportsOK
<1>3. ASSUME NEW i \in 1 .. Len(pending'), NEW j \in 1 .. Len(pending'), i < j,
             pending'[i].kind = pending'[j].kind
      PROVE  pending'[i].n < pending'[j].n
  <2>1. CASE pending'[i].kind = "user"
    BY <1>3, <2>1 DEF InFlight
  <2>2. CASE pending'[i].kind # "user"
    BY <1>1, <1>3, <2>2 DEF OrderInv, PendingOrder
  <2> QED
    BY <2>1, <2>2
<1> QED
  BY <1>2, <1>3 DEF OrderInv, PendingOrder

\* The queued responses move behind what is pending, after at most one report
\* (d of them).
LEMMA ResponsesAdded ==
    ASSUME HandlesOK, ActorOK, OrderInv, pc' # "reading", resizeReq # 0 => resizeReq = wanted,
           UNCHANGED <<generated, order, wanted>>, responses' = <<>>,
           NEW d \in {0, 1}, d = 1 => resizeReq # 0 /\ resizeReq' = 0,
           d = 0 => resizeReq' = resizeReq,
           NEW m \in Nat, m = Len(pending),
           NEW k \in Nat, k = Len(responses), Len(pending') = m + d + k,
           \A i \in 1 .. m : pending'[i] = pending[i],
           d = 1 => pending'[m + 1] = Report(resizeReq),
           \A i \in 1 .. k : pending'[m + d + i] = Response(responses[i])
    PROVE  OrderInv'
<1>1. \A i \in 1 .. Len(pending') :
         \/ i \in 1 .. m
         \/ d = 1 /\ i = m + 1
         \/ i - m - d \in 1 .. k /\ i = m + d + (i - m - d)
  <2> TAKE i \in 1 .. Len(pending')
  <2>1. m \in Nat /\ k \in Nat /\ d \in {0, 1} /\ i \in 1 .. (m + d + k)
    OBVIOUS
  <2> QED
    BY <2>1
<1>2. \A i \in 1 .. Len(pending') :
         \/ i \in 1 .. m /\ pending'[i] = pending[i]
         \/ i = m + 1 /\ d = 1 /\ pending'[i].kind = "report" /\ pending'[i].n = resizeReq
         \/ /\ i - m - d \in 1 .. k /\ pending'[i].kind = "response"
            /\ pending'[i].n = responses[i - m - d]
  <2>1. \A i \in 1 .. k : /\ pending'[m + d + i].kind = "response"
                          /\ pending'[m + d + i].n = responses[i]
    BY ChunkFields
  <2>2. d = 1 => pending'[m + 1].kind = "report" /\ pending'[m + 1].n = resizeReq
    BY ChunkFields
  <2> QED
    BY <1>1, <2>1, <2>2
<1>3. \A i \in 1 .. k : responses[i] \in Nat
  BY DEF HandlesOK
<1>4. \A i \in 1 .. m : pending[i].n \in Nat
  BY PendingNumbers
<1>5. ResponsesOK'
  <2>1. ASSUME NEW i \in 1 .. Len(pending'), pending'[i].kind = "response"
        PROVE  pending'[i].n <= generated /\ (order # "free" => pending'[i].n < generated)
    BY <1>2, <2>1 DEF OrderInv, ResponsesOK
  <2> QED
    BY <2>1 DEF ResponsesOK
<1>6. ReportsOK'
  <2>1. ASSUME NEW i \in 1 .. Len(pending'), pending'[i].kind = "report"
        PROVE  pending'[i].n <= wanted /\ (resizeReq' # 0 => pending'[i].n < resizeReq')
    <3>1. CASE i \in 1 .. m /\ pending'[i] = pending[i]
      BY <2>1, <3>1 DEF OrderInv, ReportsOK
    <3>2. CASE i = m + 1 /\ d = 1 /\ pending'[i].n = resizeReq
      BY <3>2 DEF ActorOK
    <3> QED
      BY <1>2, <2>1, <3>1, <3>2
  <2> QED
    BY <2>1 DEF ReportsOK
<1>7. ASSUME NEW i \in 1 .. Len(pending'), NEW j \in 1 .. Len(pending'), i < j,
             pending'[i].kind = pending'[j].kind
      PROVE  pending'[i].n < pending'[j].n
  <2>1. CASE j \in 1 .. m /\ pending'[j] = pending[j]
    <3>1. i \in 1 .. m /\ pending'[i] = pending[i]
      BY <1>7, <2>1
    <3> QED
      BY <1>7, <2>1, <3>1 DEF OrderInv, PendingOrder
  <2>2. CASE j = m + 1 /\ d = 1 /\ pending'[j].kind = "report" /\ pending'[j].n = resizeReq
    <3>1. i \in 1 .. m /\ pending'[i] = pending[i]
      BY <1>7, <2>2
    <3> QED
      BY <1>7, <2>2, <3>1 DEF OrderInv, ReportsOK
  <2>3. CASE /\ j - m - d \in 1 .. k /\ pending'[j].kind = "response"
             /\ pending'[j].n = responses[j - m - d]
    <3>1. CASE i \in 1 .. m /\ pending'[i] = pending[i]
      BY <1>7, <2>3, <3>1 DEF OrderInv, ResponsesOK
    <3>2. CASE i - m - d \in 1 .. k /\ pending'[i].n = responses[i - m - d]
      <4>1. i - m - d < j - m - d
        BY <1>7
      <4> QED
        BY <2>3, <3>2, <4>1 DEF OrderInv, ResponsesOK
    <3> QED
      BY <1>2, <1>7, <2>3, <3>1, <3>2
  <2> QED
    BY <1>2, <2>1, <2>2, <2>3
<1> QED
  BY <1>5, <1>6, <1>7 DEF OrderInv, PendingOrder

\* Writing the chunk at the front, or dropping them all, reorders nothing.
LEMMA Shrunk ==
    ASSUME ActorOK, OrderInv, pc' # "reading",
           UNCHANGED <<responses, generated, order, resizeReq, wanted>>,
           \/ UNCHANGED pending
           \/ pending # <<>> /\ pending' = Tail(pending)
           \/ pending' = <<>>
    PROVE  OrderInv'
<1>1. CASE UNCHANGED pending
  BY <1>1 DEF OrderInv, ResponsesOK, ReportsOK, PendingOrder
<1>2. CASE pending' = <<>>
  BY <1>2 DEF OrderInv, ResponsesOK, ReportsOK, PendingOrder
<1>3. CASE pending # <<>> /\ pending' = Tail(pending)
  <2>1. /\ Len(pending) \in Nat /\ Len(pending') = Len(pending) - 1
        /\ \A i \in 1 .. Len(pending') : pending'[i] = pending[i + 1]
    BY <1>3 DEF ActorOK
  <2>2. \A i \in 1 .. Len(pending') : i + 1 \in 1 .. Len(pending)
    BY <2>1
  <2>3. ResponsesOK' /\ ReportsOK'
    BY <2>1, <2>2 DEF OrderInv, ResponsesOK, ReportsOK
  <2>4. ASSUME NEW i \in 1 .. Len(pending'), NEW j \in 1 .. Len(pending'), i < j,
               pending'[i].kind = pending'[j].kind
        PROVE  pending'[i].n < pending'[j].n
    <3>1. /\ i + 1 \in 1 .. Len(pending) /\ j + 1 \in 1 .. Len(pending) /\ i + 1 < j + 1
          /\ pending'[i] = pending[i + 1] /\ pending'[j] = pending[j + 1]
      BY <2>1, <2>2, <2>4
    <3> QED
      BY <2>4, <3>1 DEF OrderInv, PendingOrder
  <2> QED
    BY <2>3, <2>4 DEF OrderInv, PendingOrder
<1> QED
  BY <1>1, <1>2, <1>3

\* A response is produced, and queued behind the ones before it.
LEMMA Produced ==
    ASSUME HandlesOK, ActorOK, OrderInv, order = "free", pc # "reading",
           pc' = "reading" => order' = "actor",
           UNCHANGED <<pending, responses, resizeReq, wanted>>,
           generated' = generated + 1 \/ (generated' = generated /\ order' = "free")
    PROVE  OrderInv'
<1>1. \A i \in 1 .. Len(responses) : responses[i] \in Nat
  BY DEF HandlesOK
<1>2. \A i \in 1 .. Len(pending) : pending[i].n \in Nat
  BY PendingNumbers
<1>3. \A n \in Nat : n <= generated => n <= generated' /\ (order' # "free" => n < generated')
  BY DEF ActorOK
<1>4. ResponsesOK'
  BY <1>1, <1>2, <1>3 DEF OrderInv, ResponsesOK
<1>5. ReportsOK' /\ PendingOrder'
  BY DEF OrderInv, ReportsOK, PendingOrder
<1> QED
  BY <1>4, <1>5 DEF OrderInv

LEMMA Queued ==
    ASSUME HandlesOK, ActorOK, OrderInv, order # "free", order' = "free",
           pc' # "reading", responses' = Append(responses, generated),
           UNCHANGED <<pending, generated, resizeReq, wanted>>
    PROVE  OrderInv'
<1>1. /\ Len(responses) \in Nat /\ Len(responses') = Len(responses) + 1
      /\ \A i \in 1 .. Len(responses') :
            \/ i \in 1 .. Len(responses) /\ responses'[i] = responses[i]
            \/ i = Len(responses) + 1 /\ responses'[i] = generated
  BY AppendProperties DEF HandlesOK, ActorOK
<1>2. \A i \in 1 .. Len(responses) : responses[i] \in Nat
  BY DEF HandlesOK
<1>3. ResponsesOK'
  <2>1. \A i, j \in 1 .. Len(responses') : i < j => responses'[i] < responses'[j]
    BY <1>1, <1>2 DEF OrderInv, ResponsesOK
  <2>2. \A i \in 1 .. Len(responses') : responses'[i] <= generated
    BY <1>1, <1>2 DEF OrderInv, ResponsesOK, ActorOK
  <2>3. \A i \in 1 .. Len(pending) : pending[i].kind = "response" =>
           \A j \in 1 .. Len(responses') : pending[i].n < responses'[j]
    BY <1>1 DEF OrderInv, ResponsesOK
  <2>4. \A i \in 1 .. Len(pending) : pending[i].kind = "response" => pending[i].n <= generated
    BY DEF OrderInv, ResponsesOK
  <2> QED
    BY <2>1, <2>2, <2>3, <2>4 DEF ResponsesOK
<1>4. ReportsOK' /\ PendingOrder'
  BY DEF OrderInv, ReportsOK, PendingOrder
<1> QED
  BY <1>3, <1>4 DEF OrderInv

-----------------------------------------------------------------------------
\* Every step keeps each stream in order.
LEMMA OrderStep ==
    ASSUME IInv, SizesOK, OrderInv, [Next]_vars PROVE OrderInv'
<1> USE DEF IInv, TypeOK
<1>1. CASE RespondProduce
  <2>1. order = "free" /\ generated' = generated + 1 /\ order' = Responder
    BY <1>1 DEF RespondProduce
  <2>2. UNCHANGED <<pending, responses, resizeReq, wanted, pc>>
    BY <1>1 DEF RespondProduce, actorVars, sizeVars
  <2>3. pc # "reading"
    BY <2>1 DEF OrderInv, ResponsesOK
  <2> QED
    BY <2>1, <2>2, <2>3, Produced
<1>2. CASE RespondQueue
  <2>1. order = Responder /\ order' = "free" /\ responses' = Append(responses, generated)
    BY <1>2 DEF RespondQueue
  <2>2. UNCHANGED <<pending, generated, resizeReq, wanted, pc>>
    BY <1>2 DEF RespondQueue, actorVars, sizeVars
  <2>3. order # "free" /\ order # "actor"
    BY <2>1, ThreadsAssumption
  <2>4. pc # "reading"
    BY <2>3 DEF OrderInv, ResponsesOK
  <2> QED
    BY <2>1, <2>2, <2>3, <2>4, Queued
<1>3. CASE Resize
  <2>1. wanted' = wanted + 1 /\ resizeReq' = wanted + 1
    BY <1>3 DEF Resize
  <2>2. UNCHANGED <<pending, responses, generated, order, pc>>
    BY <1>3 DEF Resize, actorVars
  <2>3. \A i \in 1 .. Len(pending) : pending[i].n \in Nat
    BY PendingNumbers
  <2>4. ReportsOK'
    BY <2>1, <2>2, <2>3 DEF OrderInv, ReportsOK, ActorOK
  <2> QED
    BY <2>2, <2>4 DEF OrderInv, ResponsesOK, PendingOrder
<1>4. CASE Nudge
  BY <1>4 DEF Nudge, actorVars, sizeVars, OrderInv, ResponsesOK, ReportsOK, PendingOrder
<1>5. CASE HandleBegin
  <2>1. /\ pending' = pending \o Users(dataq) /\ pc' = "apply"
        /\ UNCHANGED <<responses, generated, order, resizeReq, wanted>>
    BY <1>5 DEF HandleBegin, Receive, controlVars, handleFrame
  <2>2. /\ Users(dataq) \in Seq(Chunks)
        /\ \A i \in 1 .. Len(Users(dataq)) : Users(dataq)[i].kind = "user"
    BY UsersFacts, ChunkFields DEF HandlesOK
  <2>3. InFlight' /\ Alive'
    BY <2>1, InFlightStep DEF Alive
  <2> QED
    BY <2>1, <2>2, <2>3, UsersAdded
<1>6. CASE HandleRelease
  BY <1>6, Shrunk DEF HandleRelease, Receive, controlVars, handleFrame
<1>7. CASE DrainData
  <2>1. /\ UNCHANGED <<responses, generated, order, resizeReq, wanted>>
        /\ pc' \in {"data", "apply"}
    BY <1>7 DEF DrainData, controlVars, handleFrame
  <2>2. CASE UNCHANGED pending
    BY <2>1, <2>2, Shrunk
  <2>3. CASE dataq # <<>> /\ pending' = Append(pending, User(Head(dataq)))
    <3>1. Head(dataq) \in Nat
      BY <2>3 DEF HandlesOK
    <3>2. User(Head(dataq)) \in Chunks /\ User(Head(dataq)).kind = "user"
      BY <3>1 DEF User, Chunks
    <3> DEFINE x == <<User(Head(dataq))>>
    <3>3. x \in Seq(Chunks) /\ \A i \in 1 .. Len(x) : x[i].kind = "user"
      BY <3>2
    <3>4. pending' = pending \o x
      BY <2>3, <3>2, AppendIsConcat DEF ActorOK
    <3>5. InFlight' /\ Alive'
      BY <2>1, InFlightStep DEF Alive
    <3> HIDE DEF x
    <3> QED
      BY <2>1, <3>3, <3>4, <3>5, UsersAdded
  <2> QED
    BY <1>7, <2>2, <2>3 DEF DrainData
<1>8. CASE ApplyControls
  <2> DEFINE r == IF resizeReq # 0 THEN <<Report(resizeReq)>> ELSE <<>>
             d == IF resizeReq # 0 THEN 1 ELSE 0
             q == Responses(responses)
  <2>1. /\ pending' = (pending \o r) \o q /\ pc' = "flush" /\ responses' = <<>>
        /\ resizeReq' = 0 /\ UNCHANGED <<generated, order, wanted>>
    BY <1>8 DEF ApplyControls, handleFrame
  <2>2. /\ q \in Seq(Chunks) /\ Len(q) = Len(responses) /\ Len(responses) \in Nat
        /\ \A i \in 1 .. Len(responses) : q[i] = Response(responses[i])
    BY ResponsesFacts DEF HandlesOK
  <2>3. /\ r \in Seq(Chunks) /\ Len(r) = d /\ d \in {0, 1}
        /\ d = 1 => r[1] = Report(resizeReq) /\ resizeReq # 0
        /\ d = 0 => resizeReq = 0
    <3>1. Report(resizeReq) \in Chunks
      BY DEF Report, Chunks, HandlesOK
    <3> QED
      BY <3>1
  <2> HIDE DEF r, d, q
  <2>4. /\ Len(pending) \in Nat
        /\ pending \o r \in Seq(Chunks) /\ Len(pending \o r) = Len(pending) + d
        /\ \A i \in 1 .. Len(pending) : (pending \o r)[i] = pending[i]
        /\ d = 1 => (pending \o r)[Len(pending) + 1] = r[1]
    BY <2>3, ConcatParts DEF ActorOK
  <2>5. /\ Len(pending') = Len(pending) + d + Len(responses)
        /\ \A i \in 1 .. (Len(pending) + d) : pending'[i] = (pending \o r)[i]
        /\ \A i \in 1 .. Len(responses) : pending'[Len(pending) + d + i] = q[i]
    <3> DEFINE s == pending \o r
    <3>1. s \in Seq(Chunks) /\ Len(s) = Len(pending) + d /\ pending' = s \o q
      BY <2>1, <2>4
    <3> HIDE DEF s
    <3>2. /\ Len(s \o q) = Len(s) + Len(q)
          /\ \A i \in 1 .. Len(s) : (s \o q)[i] = s[i]
          /\ \A i \in 1 .. Len(q) : (s \o q)[Len(s) + i] = q[i]
      BY <2>2, <3>1, ConcatParts
    <3>3. /\ Len(pending') = Len(s) + Len(responses)
          /\ \A i \in 1 .. Len(s) : pending'[i] = s[i]
          /\ \A i \in 1 .. Len(responses) : pending'[Len(s) + i] = q[i]
      BY <2>2, <3>1, <3>2
    <3> QED
      BY <3>1, <3>3 DEF s
  <2>6. /\ \A i \in 1 .. Len(pending) : pending'[i] = pending[i]
        /\ d = 1 => pending'[Len(pending) + 1] = Report(resizeReq)
        /\ \A i \in 1 .. Len(responses) :
              pending'[Len(pending) + d + i] = Response(responses[i])
    <3>1. \A i \in 1 .. Len(pending) : i \in 1 .. (Len(pending) + d)
      BY <2>3, <2>4
    <3>2. d = 1 => Len(pending) + 1 \in 1 .. (Len(pending) + d)
      BY <2>3, <2>4
    <3> QED
      BY <2>2, <2>3, <2>4, <2>5, <3>1, <3>2
  <2>7. resizeReq # 0 => resizeReq = wanted
    BY DEF SizesOK
  <2> QED
    BY <2>1, <2>2, <2>3, <2>4, <2>5, <2>6, <2>7, ResponsesAdded
<1>9. CASE FlushWrite
  <2>1. /\ UNCHANGED <<responses, generated, order, resizeReq, wanted, pc>>
        /\ UNCHANGED pending \/ (pending # <<>> /\ pending' = Tail(pending))
        /\ pc \in {"flush", "flushReady"}
    BY <1>9 DEF FlushWrite, flushFrame, controlVars, handleFrame
  <2> QED
    BY <2>1, Shrunk
<1>10. CASE FlushFails
  <2>1. /\ UNCHANGED <<responses, generated, order, resizeReq, wanted>>
        /\ pending' = <<>> /\ pc' # "reading"
    BY <1>10 DEF FlushFails, AfterFlush, flushFrame, controlVars, handleFrame
  <2> QED
    BY <2>1, Shrunk
<1>11. CASE ReadOutput
  <2>1. /\ order = "free" /\ pc # "reading"
        /\ pc' = "reading" => order' = "actor"
        /\ UNCHANGED <<pending, responses, resizeReq, wanted>>
        /\ generated' = generated + 1 \/ (generated' = generated /\ order' = "free")
    BY <1>11 DEF ReadOutput, handleFrame
  <2> QED
    BY <2>1, Produced
<1>12. CASE ReadQueue
  <2>1. /\ pc = "reading" /\ order' = "free" /\ pc' = "taking"
        /\ responses' = Append(responses, generated)
        /\ UNCHANGED <<pending, generated, resizeReq, wanted>>
    BY <1>12 DEF ReadQueue, handleFrame
  <2>2. order # "free"
    BY <2>1 DEF OrderInv, ResponsesOK
  <2> QED
    BY <2>1, <2>2, Queued
<1>13. CASE ReadTake
  <2> DEFINE q == Responses(responses)
  <2>1. /\ pending' = pending \o q /\ responses' = <<>> /\ pc' = "flushReady"
        /\ UNCHANGED <<generated, order, wanted, resizeReq>>
    BY <1>13 DEF ReadTake, handleFrame
  <2>2. /\ q \in Seq(Chunks) /\ Len(q) = Len(responses) /\ Len(responses) \in Nat
        /\ \A i \in 1 .. Len(responses) : q[i] = Response(responses[i])
    BY ResponsesFacts DEF HandlesOK
  <2> HIDE DEF q
  <2>3. /\ Len(pending) \in Nat /\ Len(pending') = Len(pending) + 0 + Len(responses)
        /\ \A i \in 1 .. Len(pending) : pending'[i] = pending[i]
        /\ \A i \in 1 .. Len(responses) : pending'[Len(pending) + 0 + i] = q[i]
    <3>1. pending \in Seq(Chunks)
      BY DEF ActorOK
    <3>2. /\ Len(pending) \in Nat /\ Len(pending \o q) = Len(pending) + Len(q)
          /\ \A i \in 1 .. Len(pending) : (pending \o q)[i] = pending[i]
          /\ \A i \in 1 .. Len(q) : (pending \o q)[Len(pending) + i] = q[i]
      BY <2>2, <3>1, ConcatParts
    <3>3. Len(pending) + 0 = Len(pending)
      BY <3>2
    <3> QED
      BY <2>1, <2>2, <3>2, <3>3
  <2>4. \A i \in 1 .. Len(responses) : pending'[Len(pending) + 0 + i] = Response(responses[i])
    BY <2>2, <2>3
  <2>5. resizeReq # 0 => resizeReq = wanted
    BY DEF SizesOK
  <2> QED
    BY <2>1, <2>2, <2>3, <2>4, <2>5, ResponsesAdded
<1>14. CASE ~Moves
  <2>1. UNCHANGED orderVars /\ (pc' = "reading" => pc = "reading")
    BY <1>14, Elsewhere
  <2> QED
    BY <2>1 DEF orderVars, OrderInv, ResponsesOK, ReportsOK, PendingOrder
<1> QED
  BY <1>1, <1>2, <1>3, <1>4, <1>5, <1>6, <1>7, <1>8, <1>9, <1>10, <1>11, <1>12,
      <1>13, <1>14 DEF Moves

\* The strengthened invariant, which also has the gate's state after a handoff.
THEOREM OrderInvariance == Spec => [](IInv /\ GateReopens /\ SizesOK /\ OrderInv)
<1>1. Init => GateReopens /\ SizesOK /\ OrderInv
  BY DEF Init, GateReopens, SizesOK, SizeSettles, OrderInv, ResponsesOK, ReportsOK,
      PendingOrder
<1>2. IInv /\ GateReopens /\ SizesOK /\ OrderInv /\ [Next]_vars
        => (IInv /\ GateReopens /\ SizesOK /\ OrderInv)'
  BY NextInv, GateStep, SizesStep, OrderStep DEF IInv, TypeOK
<1> QED
  BY InitInv, <1>1, <1>2, PTL DEF Spec

\* Outside a handoff a pane takes input again, unless a rollback went unanswered.
THEOREM GateNotForgotten == Spec => []GateReopens
  BY OrderInvariance, PTL

\* Responses, size reports and sizes reach the PTY in the order in which other
\* threads made them, whichever of them the actor finds first.
THEOREM StreamsKeepTheirOrder == Spec => []OrderKept
<1>1. ASSUME IInv, SizesOK, OrderInv PROVE OrderKept
  <2> DEFINE q == Responses(responses)
             stream == pending \o q
             m == Len(pending)
  <2>1. /\ pending \in Seq(Chunks) /\ q \in Seq(Chunks) /\ Len(q) = Len(responses)
        /\ \A i \in 1 .. Len(responses) : q[i] = Response(responses[i])
    BY <1>1, ResponsesFacts DEF IInv, TypeOK, HandlesOK, ActorOK
  <2>2. \A i \in 1 .. Len(responses) : q[i].kind = "response" /\ q[i].n = responses[i]
    BY <2>1, ChunkFields
  <2> HIDE DEF q
  <2>3. /\ m \in Nat /\ Len(responses) \in Nat
        /\ \A i \in 1 .. Len(stream) :
              \/ i \in 1 .. m /\ stream[i] = pending[i]
              \/ i - m \in 1 .. Len(responses) /\ i > m /\ stream[i] = q[i - m]
    BY <1>1, <2>1, ConcatProperties, SMTT(30) DEF IInv, TypeOK, HandlesOK
  <2> HIDE DEF stream, m
  <2>4. ASSUME NEW i \in 1 .. Len(stream), NEW j \in 1 .. Len(stream), i < j,
               stream[i].kind = stream[j].kind
        PROVE  stream[i].n < stream[j].n
    <3>1. CASE j \in 1 .. m /\ stream[j] = pending[j]
      <4>1. i \in 1 .. m /\ stream[i] = pending[i]
        BY <2>3, <2>4, <3>1
      <4> QED
        BY <1>1, <2>4, <3>1, <4>1 DEF OrderInv, PendingOrder, m
    <3>2. CASE j - m \in 1 .. Len(responses) /\ j > m /\ stream[j] = q[j - m]
      <4>1. CASE i \in 1 .. m /\ stream[i] = pending[i]
        BY <1>1, <2>2, <2>4, <3>2, <4>1 DEF OrderInv, ResponsesOK, m
      <4>2. CASE i - m \in 1 .. Len(responses) /\ stream[i] = q[i - m]
        <5>1. i - m < j - m
          BY <2>3, <2>4
        <5> QED
          BY <1>1, <2>2, <3>2, <4>2, <5>1 DEF OrderInv, ResponsesOK
      <4> QED
        BY <2>3, <4>1, <4>2
    <3> QED
      BY <2>3, <3>1, <3>2
  <2>5. StreamsInOrder
    BY <2>4 DEF StreamsInOrder, stream, q
  <2> QED
    BY <1>1, <2>5 DEF OrderKept, SizesOK
<1> QED
  BY <1>1, OrderInvariance, PTL


-----------------------------------------------------------------------------
(***************************************************************************)
(* LiveHandoff: its inductive invariant, that the protocol implements      *)
(* PaneOwnership, and that whichever way an attempt ends, somebody serves  *)
(* every pane.                                                             *)
(***************************************************************************)

(* A step that leaves the readers and the commit alone is a stutter.       *)
LEMMA Stutter ==
    UNCHANGED <<panes, reader, newReading, committed>>
      => UNCHANGED <<Reads, committed>>
BY DEF Reads

(* Every step keeps the types: the flags, ... *)
LEMMA ServerFlagsStep == ASSUME HandoffIInv, [HandoffNext]_handoffVars PROVE ServerFlagsOK'
<1> USE DEF HandoffIInv
<1>1. CASE StartHandoff
  BY <1>1 DEF StartHandoff, oldVars, newVars, streamVars, publicVars, history,
      HandoffTypeOK, ServerFlagsOK
<1>2. ASSUME NEW p \in panes, PausePane(p) PROVE ServerFlagsOK'
  BY <1>2 DEF PausePane, startFrame, oldVars, newVars, streamVars, publicVars,
      history, HandoffTypeOK, ServerFlagsOK
<1>3. ASSUME NEW p \in panes, Duplicate(p) PROVE ServerFlagsOK'
  BY <1>3 DEF Duplicate, Abort, KillImporter, Without, oldVars, newVars,
      streamVars, publicVars, history, HandoffTypeOK, ServerFlagsOK
<1>4. ASSUME NEW p \in panes, RollbackPane(p) PROVE ServerFlagsOK'
  BY <1>4 DEF RollbackPane, startFrame, oldVars, newVars, streamVars,
      publicVars, history, HandoffTypeOK, ServerFlagsOK
<1>5. ASSUME NEW p \in panes, ReleasePane(p) PROVE ServerFlagsOK'
  BY <1>5 DEF ReleasePane, startFrame, oldVars, newVars, streamVars,
      publicVars, history, HandoffTypeOK, ServerFlagsOK
<1>6. CASE SpawnImport
  BY <1>6 DEF SpawnImport, oldVars, newVars, streamVars, publicVars, history,
      HandoffTypeOK, ServerFlagsOK
<1>7. CASE SendManifest
  BY <1>7 DEF SendManifest, oldVars, newVars, streamVars, publicVars, history,
      HandoffTypeOK, ServerFlagsOK
<1>8. CASE SendFds
  BY <1>8 DEF SendFds, oldVars, newVars, streamVars, publicVars, history,
      HandoffTypeOK, ServerFlagsOK
<1>9. CASE Restored
  BY <1>9 DEF Restored, RemoveOwnSockets, Without, oldVars, newVars,
      streamVars, publicVars, history, HandoffTypeOK, ServerFlagsOK
<1>10. CASE WaitFails
  BY <1>10 DEF WaitFails, Abort, KillImporter, Without, oldVars, newVars,
      streamVars, publicVars, history, HandoffTypeOK, ServerFlagsOK
<1>11. CASE Commit
  BY <1>11 DEF Commit, oldVars, newVars, streamVars, publicVars, history,
      HandoffTypeOK, ServerFlagsOK
<1>12. CASE ReadyFails
  BY <1>12 DEF ReadyFails, KillImporter, Without, oldVars, newVars,
      streamVars, publicVars, history, HandoffTypeOK, ServerFlagsOK
<1>13. CASE RestoreApi
  BY <1>13 DEF RestoreApi, restoreFrame, oldVars, newVars, streamVars,
      publicVars, history, HandoffTypeOK, ServerFlagsOK
<1>14. CASE RestoreClient
  BY <1>14 DEF RestoreClient, restoreFrame, oldVars, newVars, streamVars,
      publicVars, history, HandoffTypeOK, ServerFlagsOK
<1>15. CASE RestoreFails
  BY <1>15 DEF RestoreFails, restoreFrame, Without, oldVars, newVars,
      streamVars, publicVars, history, HandoffTypeOK, ServerFlagsOK
<1>16. CASE RollbackDone
  BY <1>16 DEF RollbackDone, startFrame, oldVars, newVars, streamVars,
      publicVars, history, HandoffTypeOK, ServerFlagsOK
<1>17. CASE OwnedAck
  BY <1>17 DEF OwnedAck, oldVars, newVars, streamVars, publicVars, history,
      HandoffTypeOK, ServerFlagsOK
<1>18. CASE OldCrashes
  BY <1>18 DEF OldCrashes, Without, OldUp, oldVars, newVars, streamVars,
      publicVars, history, HandoffTypeOK, ServerFlagsOK
<1>19. CASE Connect
  BY <1>19 DEF Connect, importFrame, OldUp, oldVars, newVars, streamVars,
      publicVars, history, HandoffTypeOK, ServerFlagsOK
<1>20. CASE ReadManifest
  BY <1>20 DEF ReadManifest, importFrame, OldUp, oldVars, newVars, streamVars,
      publicVars, history, HandoffTypeOK, ServerFlagsOK
<1>21. CASE ReceiveFds
  BY <1>21 DEF ReceiveFds, importFrame, OldUp, oldVars, newVars, streamVars,
      publicVars, history, HandoffTypeOK, ServerFlagsOK
<1>22. CASE SocketsClosed
  BY <1>22 DEF SocketsClosed, importFrame, oldVars, newVars, streamVars,
      publicVars, history, HandoffTypeOK, ServerFlagsOK
<1>23. CASE BindApi
  BY <1>23 DEF BindApi, importFrame, oldVars, newVars, streamVars, publicVars,
      history, HandoffTypeOK, ServerFlagsOK
<1>24. CASE BindClient
  BY <1>24 DEF BindClient, importFrame, OldUp, oldVars, newVars, streamVars,
      publicVars, history, HandoffTypeOK, ServerFlagsOK
<1>25. CASE TakeOwnership
  BY <1>25 DEF TakeOwnership, importFrame, oldVars, newVars, streamVars,
      publicVars, history, HandoffTypeOK, ServerFlagsOK
<1>26. CASE ReportOwned
  BY <1>26 DEF ReportOwned, importFrame, OldUp, oldVars, newVars, streamVars,
      publicVars, history, HandoffTypeOK, ServerFlagsOK
<1>27. CASE ImporterFails
  BY <1>27 DEF ImporterFails, importFrame, oldVars, newVars, streamVars,
      publicVars, history, HandoffTypeOK, ServerFlagsOK
<1>28. CASE ImporterExits
  BY <1>28 DEF ImporterExits, Without, oldVars, newVars, streamVars,
      publicVars, history, HandoffTypeOK, ServerFlagsOK
<1>29. ASSUME NEW p \in panes, UnpausePane(p) PROVE ServerFlagsOK'
  BY <1>29 DEF UnpausePane, oldVars, newVars, streamVars, publicVars, history,
      HandoffTypeOK, ServerFlagsOK
<1>30. CASE OtherStarts
  BY <1>30 DEF OtherStarts, otherFrame, oldVars, newVars, streamVars,
      publicVars, history, HandoffTypeOK, ServerFlagsOK
<1>31. CASE OtherBinds
  BY <1>31 DEF OtherBinds, otherFrame, oldVars, newVars, streamVars,
      publicVars, history, HandoffTypeOK, ServerFlagsOK
<1>32. CASE OtherStops
  BY <1>32 DEF OtherStops, otherFrame, Without, oldVars, newVars, streamVars,
      publicVars, history, HandoffTypeOK, ServerFlagsOK
<1>33. CASE UNCHANGED handoffVars
  BY <1>33 DEF handoffVars, oldVars, newVars, streamVars, publicVars, history,
      HandoffTypeOK, ServerFlagsOK
<1> QED
  BY <1>1, <1>2, <1>3, <1>4, <1>5, <1>6, <1>7, <1>8, <1>9, <1>10, <1>11,
      <1>12, <1>13, <1>14, <1>15, <1>16, <1>17, <1>18, <1>19, <1>20, <1>21,
      <1>22, <1>23, <1>24, <1>25, <1>26, <1>27, <1>28, <1>29, <1>30, <1>31,
      <1>32, <1>33 DEF HandoffNext, OldServer, Importer, Other

(* ... the lines in the stream, ... *)
LEMMA StreamStep == ASSUME HandoffIInv, [HandoffNext]_handoffVars PROVE StreamOK'
<1> USE DEF HandoffIInv
<1>1. CASE StartHandoff
  BY <1>1 DEF StartHandoff, oldVars, newVars, streamVars, publicVars, history,
      HandoffTypeOK, StreamOK
<1>2. ASSUME NEW p \in panes, PausePane(p) PROVE StreamOK'
  BY <1>2 DEF PausePane, startFrame, oldVars, newVars, streamVars, publicVars,
      history, HandoffTypeOK, StreamOK
<1>3. ASSUME NEW p \in panes, Duplicate(p) PROVE StreamOK'
  <2>1. CASE UNCHANGED <<toOld, toNew>>
    BY <2>1 DEF HandoffTypeOK, StreamOK
  <2>2. CASE toOld' = <<>> /\ toNew' = <<>>
    BY <2>2 DEF StreamOK
  <2> QED
    BY <1>3, <2>1, <2>2 DEF Duplicate, Abort, KillImporter, streamVars
<1>4. ASSUME NEW p \in panes, RollbackPane(p) PROVE StreamOK'
  BY <1>4 DEF RollbackPane, startFrame, oldVars, newVars, streamVars,
      publicVars, history, HandoffTypeOK, StreamOK
<1>5. ASSUME NEW p \in panes, ReleasePane(p) PROVE StreamOK'
  BY <1>5 DEF ReleasePane, startFrame, oldVars, newVars, streamVars,
      publicVars, history, HandoffTypeOK, StreamOK
<1>6. CASE SpawnImport
  <2>1. CASE UNCHANGED <<toOld, toNew>>
    BY <2>1 DEF HandoffTypeOK, StreamOK
  <2>2. CASE toOld' = <<>> /\ toNew' = <<>>
    BY <2>2 DEF StreamOK
  <2> QED
    BY <1>6, <2>1, <2>2 DEF SpawnImport
<1>7. CASE SendManifest
  BY <1>7 DEF SendManifest, oldVars, newVars, streamVars, publicVars, history,
      HandoffTypeOK, StreamOK
<1>8. CASE SendFds
  BY <1>8 DEF SendFds, oldVars, newVars, streamVars, publicVars, history,
      HandoffTypeOK, StreamOK
<1>9. CASE Restored
  BY <1>9 DEF Restored, RemoveOwnSockets, Without, oldVars, newVars,
      streamVars, publicVars, history, HandoffTypeOK, StreamOK
<1>10. CASE WaitFails
  BY <1>10 DEF WaitFails, Abort, KillImporter, Without, oldVars, newVars,
      streamVars, publicVars, history, HandoffTypeOK, StreamOK
<1>11. CASE Commit
  BY <1>11 DEF Commit, oldVars, newVars, streamVars, publicVars, history,
      HandoffTypeOK, StreamOK
<1>12. CASE ReadyFails
  BY <1>12 DEF ReadyFails, KillImporter, Without, oldVars, newVars,
      streamVars, publicVars, history, HandoffTypeOK, StreamOK
<1>13. CASE RestoreApi
  BY <1>13 DEF RestoreApi, restoreFrame, oldVars, newVars, streamVars,
      publicVars, history, HandoffTypeOK, StreamOK
<1>14. CASE RestoreClient
  BY <1>14 DEF RestoreClient, restoreFrame, oldVars, newVars, streamVars,
      publicVars, history, HandoffTypeOK, StreamOK
<1>15. CASE RestoreFails
  BY <1>15 DEF RestoreFails, restoreFrame, Without, oldVars, newVars,
      streamVars, publicVars, history, HandoffTypeOK, StreamOK
<1>16. CASE RollbackDone
  BY <1>16 DEF RollbackDone, startFrame, oldVars, newVars, streamVars,
      publicVars, history, HandoffTypeOK, StreamOK
<1>17. CASE OwnedAck
  BY <1>17 DEF OwnedAck, oldVars, newVars, streamVars, publicVars, history,
      HandoffTypeOK, StreamOK
<1>18. CASE OldCrashes
  BY <1>18 DEF OldCrashes, Without, OldUp, oldVars, newVars, streamVars,
      publicVars, history, HandoffTypeOK, StreamOK
<1>19. CASE Connect
  BY <1>19 DEF Connect, importFrame, OldUp, oldVars, newVars, streamVars,
      publicVars, history, HandoffTypeOK, StreamOK
<1>20. CASE ReadManifest
  BY <1>20 DEF ReadManifest, importFrame, OldUp, oldVars, newVars, streamVars,
      publicVars, history, HandoffTypeOK, StreamOK
<1>21. CASE ReceiveFds
  BY <1>21 DEF ReceiveFds, importFrame, OldUp, oldVars, newVars, streamVars,
      publicVars, history, HandoffTypeOK, StreamOK
<1>22. CASE SocketsClosed
  BY <1>22 DEF SocketsClosed, importFrame, oldVars, newVars, streamVars,
      publicVars, history, HandoffTypeOK, StreamOK
<1>23. CASE BindApi
  BY <1>23 DEF BindApi, importFrame, oldVars, newVars, streamVars, publicVars,
      history, HandoffTypeOK, StreamOK
<1>24. CASE BindClient
  BY <1>24 DEF BindClient, importFrame, OldUp, oldVars, newVars, streamVars,
      publicVars, history, HandoffTypeOK, StreamOK
<1>25. CASE TakeOwnership
  BY <1>25 DEF TakeOwnership, importFrame, oldVars, newVars, streamVars,
      publicVars, history, HandoffTypeOK, StreamOK
<1>26. CASE ReportOwned
  BY <1>26 DEF ReportOwned, importFrame, OldUp, oldVars, newVars, streamVars,
      publicVars, history, HandoffTypeOK, StreamOK
<1>27. CASE ImporterFails
  BY <1>27 DEF ImporterFails, importFrame, oldVars, newVars, streamVars,
      publicVars, history, HandoffTypeOK, StreamOK
<1>28. CASE ImporterExits
  BY <1>28 DEF ImporterExits, Without, oldVars, newVars, streamVars,
      publicVars, history, HandoffTypeOK, StreamOK
<1>29. ASSUME NEW p \in panes, UnpausePane(p) PROVE StreamOK'
  BY <1>29 DEF UnpausePane, oldVars, newVars, streamVars, publicVars, history,
      HandoffTypeOK, StreamOK
<1>30. CASE OtherStarts
  BY <1>30 DEF OtherStarts, otherFrame, oldVars, newVars, streamVars,
      publicVars, history, HandoffTypeOK, StreamOK
<1>31. CASE OtherBinds
  BY <1>31 DEF OtherBinds, otherFrame, oldVars, newVars, streamVars,
      publicVars, history, HandoffTypeOK, StreamOK
<1>32. CASE OtherStops
  BY <1>32 DEF OtherStops, otherFrame, Without, oldVars, newVars, streamVars,
      publicVars, history, HandoffTypeOK, StreamOK
<1>33. CASE UNCHANGED handoffVars
  BY <1>33 DEF handoffVars, oldVars, newVars, streamVars, publicVars, history,
      HandoffTypeOK, StreamOK
<1> QED
  BY <1>1, <1>2, <1>3, <1>4, <1>5, <1>6, <1>7, <1>8, <1>9, <1>10, <1>11,
      <1>12, <1>13, <1>14, <1>15, <1>16, <1>17, <1>18, <1>19, <1>20, <1>21,
      <1>22, <1>23, <1>24, <1>25, <1>26, <1>27, <1>28, <1>29, <1>30, <1>31,
      <1>32, <1>33 DEF HandoffNext, OldServer, Importer, Other

(* ... and the state of the servers. *)
LEMMA ServersStep == ASSUME HandoffIInv, [HandoffNext]_handoffVars PROVE ServersOK'
<1> USE DEF HandoffIInv
<1>1. CASE StartHandoff
  BY <1>1 DEF StartHandoff, oldVars, newVars, streamVars, publicVars, history,
      HandoffTypeOK, ServersOK, Sockets
<1>2. ASSUME NEW p \in panes, PausePane(p) PROVE ServersOK'
  BY <1>2 DEF PausePane, startFrame, oldVars, newVars, streamVars, publicVars,
      history, HandoffTypeOK, ServersOK, Sockets
<1>3. ASSUME NEW p \in panes, Duplicate(p) PROVE ServersOK'
  BY <1>3 DEF Duplicate, Abort, KillImporter, Without, oldVars, newVars,
      streamVars, publicVars, history, HandoffTypeOK, ServersOK, Sockets
<1>4. ASSUME NEW p \in panes, RollbackPane(p) PROVE ServersOK'
  BY <1>4 DEF RollbackPane, startFrame, oldVars, newVars, streamVars,
      publicVars, history, HandoffTypeOK, ServersOK, Sockets
<1>5. ASSUME NEW p \in panes, ReleasePane(p) PROVE ServersOK'
  BY <1>5 DEF ReleasePane, startFrame, oldVars, newVars, streamVars,
      publicVars, history, HandoffTypeOK, ServersOK, Sockets
<1>6. CASE SpawnImport
  BY <1>6 DEF SpawnImport, oldVars, newVars, streamVars, publicVars, history,
      HandoffTypeOK, ServersOK, Sockets
<1>7. CASE SendManifest
  BY <1>7 DEF SendManifest, oldVars, newVars, streamVars, publicVars, history,
      HandoffTypeOK, ServersOK, Sockets
<1>8. CASE SendFds
  BY <1>8 DEF SendFds, oldVars, newVars, streamVars, publicVars, history,
      HandoffTypeOK, ServersOK, Sockets
<1>9. CASE Restored
  BY <1>9 DEF Restored, RemoveOwnSockets, Without, oldVars, newVars,
      streamVars, publicVars, history, HandoffTypeOK, ServersOK, Sockets
<1>10. CASE WaitFails
  BY <1>10 DEF WaitFails, Abort, KillImporter, Without, oldVars, newVars,
      streamVars, publicVars, history, HandoffTypeOK, ServersOK, Sockets
<1>11. CASE Commit
  BY <1>11 DEF Commit, oldVars, newVars, streamVars, publicVars, history,
      HandoffTypeOK, ServersOK, Sockets
<1>12. CASE ReadyFails
  BY <1>12 DEF ReadyFails, KillImporter, Without, oldVars, newVars,
      streamVars, publicVars, history, HandoffTypeOK, ServersOK, Sockets
<1>13. CASE RestoreApi
  BY <1>13 DEF RestoreApi, restoreFrame, oldVars, newVars, streamVars,
      publicVars, history, HandoffTypeOK, ServersOK, Sockets
<1>14. CASE RestoreClient
  BY <1>14 DEF RestoreClient, restoreFrame, oldVars, newVars, streamVars,
      publicVars, history, HandoffTypeOK, ServersOK, Sockets
<1>15. CASE RestoreFails
  BY <1>15 DEF RestoreFails, restoreFrame, Without, oldVars, newVars,
      streamVars, publicVars, history, HandoffTypeOK, ServersOK, Sockets
<1>16. CASE RollbackDone
  BY <1>16 DEF RollbackDone, startFrame, oldVars, newVars, streamVars,
      publicVars, history, HandoffTypeOK, ServersOK, Sockets
<1>17. CASE OwnedAck
  BY <1>17 DEF OwnedAck, oldVars, newVars, streamVars, publicVars, history,
      HandoffTypeOK, ServersOK, Sockets
<1>18. CASE OldCrashes
  BY <1>18 DEF OldCrashes, Without, OldUp, oldVars, newVars, streamVars,
      publicVars, history, HandoffTypeOK, ServersOK, Sockets
<1>19. CASE Connect
  BY <1>19 DEF Connect, importFrame, OldUp, oldVars, newVars, streamVars,
      publicVars, history, HandoffTypeOK, ServersOK, Sockets
<1>20. CASE ReadManifest
  BY <1>20 DEF ReadManifest, importFrame, OldUp, oldVars, newVars, streamVars,
      publicVars, history, HandoffTypeOK, ServersOK, Sockets
<1>21. CASE ReceiveFds
  BY <1>21 DEF ReceiveFds, importFrame, oldVars, newVars, publicVars, HandoffTypeOK,
      ServersOK, CommitPhases
<1>22. CASE SocketsClosed
  BY <1>22 DEF SocketsClosed, importFrame, oldVars, newVars, streamVars,
      publicVars, history, HandoffTypeOK, ServersOK, Sockets
<1>23. CASE BindApi
  BY <1>23 DEF BindApi, importFrame, oldVars, newVars, streamVars, publicVars,
      history, HandoffTypeOK, ServersOK, Sockets
<1>24. CASE BindClient
  BY <1>24 DEF BindClient, importFrame, OldUp, oldVars, newVars, streamVars,
      publicVars, history, HandoffTypeOK, ServersOK, Sockets
<1>25. CASE TakeOwnership
  BY <1>25 DEF TakeOwnership, importFrame, oldVars, newVars, streamVars,
      publicVars, history, HandoffTypeOK, ServersOK, Sockets
<1>26. CASE ReportOwned
  BY <1>26 DEF ReportOwned, importFrame, OldUp, oldVars, newVars, streamVars,
      publicVars, history, HandoffTypeOK, ServersOK, Sockets
<1>27. CASE ImporterFails
  BY <1>27 DEF ImporterFails, importFrame, oldVars, newVars, streamVars,
      publicVars, history, HandoffTypeOK, ServersOK, Sockets
<1>28. CASE ImporterExits
  BY <1>28 DEF ImporterExits, Without, oldVars, newVars, streamVars,
      publicVars, history, HandoffTypeOK, ServersOK, Sockets
<1>29. ASSUME NEW p \in panes, UnpausePane(p) PROVE ServersOK'
  BY <1>29 DEF UnpausePane, oldVars, newVars, streamVars, publicVars, history,
      HandoffTypeOK, ServersOK, Sockets
<1>30. CASE OtherStarts
  BY <1>30 DEF OtherStarts, otherFrame, oldVars, newVars, streamVars,
      publicVars, history, HandoffTypeOK, ServersOK, Sockets
<1>31. CASE OtherBinds
  BY <1>31 DEF OtherBinds, otherFrame, oldVars, newVars, streamVars,
      publicVars, history, HandoffTypeOK, ServersOK, Sockets
<1>32. CASE OtherStops
  BY <1>32 DEF OtherStops, otherFrame, Without, oldVars, newVars, streamVars,
      publicVars, history, HandoffTypeOK, ServersOK, Sockets
<1>33. CASE UNCHANGED handoffVars
  BY <1>33 DEF handoffVars, oldVars, newVars, streamVars, publicVars, history,
      HandoffTypeOK, ServersOK, Sockets
<1> QED
  BY <1>1, <1>2, <1>3, <1>4, <1>5, <1>6, <1>7, <1>8, <1>9, <1>10, <1>11,
      <1>12, <1>13, <1>14, <1>15, <1>16, <1>17, <1>18, <1>19, <1>20, <1>21,
      <1>22, <1>23, <1>24, <1>25, <1>26, <1>27, <1>28, <1>29, <1>30, <1>31,
      <1>32, <1>33 DEF HandoffNext, OldServer, Importer, Other

(* No step commits twice, or lets the importer act before the commit. *)
LEMMA CommitStep == ASSUME HandoffIInv, [HandoffNext]_handoffVars PROVE CommitPhases'
<1> USE DEF HandoffIInv
<1>1. CASE StartHandoff
  BY <1>1 DEF StartHandoff, oldVars, newVars, streamVars, publicVars, history,
      HandoffTypeOK, StreamOK, ServersOK, CommitPhases
<1>2. ASSUME NEW p \in panes, PausePane(p) PROVE CommitPhases'
  BY <1>2 DEF PausePane, startFrame, oldVars, newVars, streamVars, publicVars,
      history, HandoffTypeOK, StreamOK, ServersOK, CommitPhases
<1>3. ASSUME NEW p \in panes, Duplicate(p) PROVE CommitPhases'
  BY <1>3 DEF Duplicate, Abort, KillImporter, Without, oldVars, newVars,
      streamVars, publicVars, history, HandoffTypeOK, StreamOK, ServersOK,
      CommitPhases
<1>4. ASSUME NEW p \in panes, RollbackPane(p) PROVE CommitPhases'
  BY <1>4 DEF RollbackPane, startFrame, oldVars, newVars, streamVars,
      publicVars, history, HandoffTypeOK, StreamOK, ServersOK, CommitPhases
<1>5. ASSUME NEW p \in panes, ReleasePane(p) PROVE CommitPhases'
  BY <1>5 DEF ReleasePane, startFrame, oldVars, newVars, streamVars,
      publicVars, history, HandoffTypeOK, StreamOK, ServersOK, CommitPhases
<1>6. CASE SpawnImport
  BY <1>6 DEF SpawnImport, oldVars, newVars, streamVars, publicVars, history,
      HandoffTypeOK, StreamOK, ServersOK, CommitPhases
<1>7. CASE SendManifest
  BY <1>7 DEF SendManifest, oldVars, newVars, streamVars, publicVars, history,
      HandoffTypeOK, StreamOK, ServersOK, CommitPhases
<1>8. CASE SendFds
  BY <1>8 DEF SendFds, oldVars, newVars, streamVars, publicVars, history,
      HandoffTypeOK, StreamOK, ServersOK, CommitPhases
<1>9. CASE Restored
  BY <1>9 DEF Restored, RemoveOwnSockets, Without, oldVars, newVars,
      streamVars, publicVars, history, HandoffTypeOK, StreamOK, ServersOK,
      CommitPhases
<1>10. CASE WaitFails
  BY <1>10 DEF WaitFails, Abort, KillImporter, Without, oldVars, newVars,
      streamVars, publicVars, history, HandoffTypeOK, StreamOK, ServersOK,
      CommitPhases
<1>11. CASE Commit
  BY <1>11 DEF Commit, oldVars, newVars, streamVars, publicVars, history,
      HandoffTypeOK, StreamOK, ServersOK, CommitPhases
<1>12. CASE ReadyFails
  BY <1>12 DEF ReadyFails, KillImporter, Without, oldVars, newVars,
      streamVars, publicVars, history, HandoffTypeOK, StreamOK, ServersOK,
      CommitPhases
<1>13. CASE RestoreApi
  BY <1>13 DEF RestoreApi, restoreFrame, oldVars, newVars, streamVars,
      publicVars, history, HandoffTypeOK, StreamOK, ServersOK, CommitPhases
<1>14. CASE RestoreClient
  BY <1>14 DEF RestoreClient, restoreFrame, oldVars, newVars, streamVars,
      publicVars, history, HandoffTypeOK, StreamOK, ServersOK, CommitPhases
<1>15. CASE RestoreFails
  BY <1>15 DEF RestoreFails, restoreFrame, Without, oldVars, newVars,
      streamVars, publicVars, history, HandoffTypeOK, StreamOK, ServersOK,
      CommitPhases
<1>16. CASE RollbackDone
  BY <1>16 DEF RollbackDone, startFrame, oldVars, newVars, streamVars,
      publicVars, history, HandoffTypeOK, StreamOK, ServersOK, CommitPhases
<1>17. CASE OwnedAck
  BY <1>17 DEF OwnedAck, oldVars, newVars, streamVars, publicVars, history,
      HandoffTypeOK, StreamOK, ServersOK, CommitPhases
<1>18. CASE OldCrashes
  BY <1>18 DEF OldCrashes, Without, OldUp, oldVars, newVars, streamVars,
      publicVars, history, HandoffTypeOK, StreamOK, ServersOK, CommitPhases
<1>19. CASE Connect
  BY <1>19 DEF Connect, importFrame, OldUp, oldVars, newVars, streamVars,
      publicVars, history, HandoffTypeOK, StreamOK, ServersOK, CommitPhases
<1>20. CASE ReadManifest
  BY <1>20 DEF ReadManifest, importFrame, OldUp, oldVars, newVars, streamVars,
      publicVars, history, HandoffTypeOK, StreamOK, ServersOK, CommitPhases
<1>21. CASE ReceiveFds
  BY <1>21 DEF ReceiveFds, importFrame, OldUp, oldVars, newVars, streamVars,
      publicVars, history, HandoffTypeOK, StreamOK, ServersOK, CommitPhases
<1>22. CASE SocketsClosed
  BY <1>22 DEF SocketsClosed, importFrame, oldVars, newVars, streamVars,
      publicVars, history, HandoffTypeOK, StreamOK, ServersOK, CommitPhases
<1>23. CASE BindApi
  BY <1>23 DEF BindApi, importFrame, oldVars, newVars, streamVars, publicVars,
      history, HandoffTypeOK, StreamOK, ServersOK, CommitPhases
<1>24. CASE BindClient
  BY <1>24 DEF BindClient, importFrame, OldUp, oldVars, newVars, streamVars,
      publicVars, history, HandoffTypeOK, StreamOK, ServersOK, CommitPhases
<1>25. CASE TakeOwnership
  BY <1>25 DEF TakeOwnership, importFrame, oldVars, newVars, streamVars,
      publicVars, history, HandoffTypeOK, StreamOK, ServersOK, CommitPhases
<1>26. CASE ReportOwned
  BY <1>26 DEF ReportOwned, importFrame, OldUp, oldVars, newVars, streamVars,
      publicVars, history, HandoffTypeOK, StreamOK, ServersOK, CommitPhases
<1>27. CASE ImporterFails
  BY <1>27 DEF ImporterFails, importFrame, oldVars, newVars, streamVars,
      publicVars, history, HandoffTypeOK, StreamOK, ServersOK, CommitPhases
<1>28. CASE ImporterExits
  BY <1>28 DEF ImporterExits, Without, oldVars, newVars, streamVars,
      publicVars, history, HandoffTypeOK, StreamOK, ServersOK, CommitPhases
<1>29. ASSUME NEW p \in panes, UnpausePane(p) PROVE CommitPhases'
  BY <1>29 DEF UnpausePane, oldVars, newVars, streamVars, publicVars, history,
      HandoffTypeOK, StreamOK, ServersOK, CommitPhases
<1>30. CASE OtherStarts
  BY <1>30 DEF OtherStarts, otherFrame, oldVars, newVars, streamVars,
      publicVars, history, HandoffTypeOK, StreamOK, ServersOK, CommitPhases
<1>31. CASE OtherBinds
  BY <1>31 DEF OtherBinds, otherFrame, oldVars, newVars, streamVars,
      publicVars, history, HandoffTypeOK, StreamOK, ServersOK, CommitPhases
<1>32. CASE OtherStops
  BY <1>32 DEF OtherStops, otherFrame, Without, oldVars, newVars, streamVars,
      publicVars, history, HandoffTypeOK, StreamOK, ServersOK, CommitPhases
<1>33. CASE UNCHANGED handoffVars
  BY <1>33 DEF handoffVars, oldVars, newVars, streamVars, publicVars, history,
      HandoffTypeOK, StreamOK, ServersOK, CommitPhases
<1> QED
  BY <1>1, <1>2, <1>3, <1>4, <1>5, <1>6, <1>7, <1>8, <1>9, <1>10, <1>11,
      <1>12, <1>13, <1>14, <1>15, <1>16, <1>17, <1>18, <1>19, <1>20, <1>21,
      <1>22, <1>23, <1>24, <1>25, <1>26, <1>27, <1>28, <1>29, <1>30, <1>31,
      <1>32, <1>33 DEF HandoffNext, OldServer, Importer, Other

(* A reader runs again only through the rollback. *)
LEMMA ReaderStep == ASSUME HandoffIInv, [HandoffNext]_handoffVars PROVE ReaderPhases'
<1> USE DEF HandoffIInv
<1>1. CASE StartHandoff
  BY <1>1 DEF StartHandoff, oldVars, newVars, streamVars, publicVars, history,
      HandoffTypeOK, ServersOK, ReaderPhases, CommitPhases
<1>2. ASSUME NEW p \in panes, PausePane(p) PROVE ReaderPhases'
  BY <1>2 DEF PausePane, startFrame, oldVars, newVars, streamVars, publicVars,
      history, HandoffTypeOK, ServersOK, ReaderPhases, CommitPhases
<1>3. ASSUME NEW p \in panes, Duplicate(p) PROVE ReaderPhases'
  BY <1>3 DEF Duplicate, Abort, KillImporter, Without, oldVars, newVars,
      streamVars, publicVars, history, HandoffTypeOK, ServersOK, ReaderPhases,
      CommitPhases
<1>4. ASSUME NEW p \in panes, RollbackPane(p) PROVE ReaderPhases'
  BY <1>4 DEF RollbackPane, startFrame, oldVars, newVars, streamVars,
      publicVars, history, HandoffTypeOK, ServersOK, ReaderPhases, CommitPhases
<1>5. ASSUME NEW p \in panes, ReleasePane(p) PROVE ReaderPhases'
  BY <1>5 DEF ReleasePane, startFrame, oldVars, newVars, streamVars,
      publicVars, history, HandoffTypeOK, ServersOK, ReaderPhases, CommitPhases
<1>6. CASE SpawnImport
  BY <1>6 DEF SpawnImport, oldVars, newVars, streamVars, publicVars, history,
      HandoffTypeOK, ServersOK, ReaderPhases, CommitPhases
<1>7. CASE SendManifest
  BY <1>7 DEF SendManifest, oldVars, newVars, streamVars, publicVars, history,
      HandoffTypeOK, ServersOK, ReaderPhases, CommitPhases
<1>8. CASE SendFds
  BY <1>8 DEF SendFds, oldVars, newVars, streamVars, publicVars, history,
      HandoffTypeOK, ServersOK, ReaderPhases, CommitPhases
<1>9. CASE Restored
  BY <1>9 DEF Restored, RemoveOwnSockets, Without, oldVars, newVars,
      streamVars, publicVars, history, HandoffTypeOK, ServersOK, ReaderPhases,
      CommitPhases
<1>10. CASE WaitFails
  BY <1>10 DEF WaitFails, Abort, KillImporter, Without, oldVars, newVars,
      streamVars, publicVars, history, HandoffTypeOK, ServersOK, ReaderPhases,
      CommitPhases
<1>11. CASE Commit
  BY <1>11 DEF Commit, oldVars, newVars, streamVars, publicVars, history,
      HandoffTypeOK, ServersOK, ReaderPhases, CommitPhases
<1>12. CASE ReadyFails
  BY <1>12 DEF ReadyFails, KillImporter, Without, oldVars, newVars,
      streamVars, publicVars, history, HandoffTypeOK, ServersOK, ReaderPhases,
      CommitPhases
<1>13. CASE RestoreApi
  BY <1>13 DEF RestoreApi, restoreFrame, oldVars, newVars, streamVars,
      publicVars, history, HandoffTypeOK, ServersOK, ReaderPhases, CommitPhases
<1>14. CASE RestoreClient
  BY <1>14 DEF RestoreClient, restoreFrame, oldVars, newVars, streamVars,
      publicVars, history, HandoffTypeOK, ServersOK, ReaderPhases, CommitPhases
<1>15. CASE RestoreFails
  BY <1>15 DEF RestoreFails, restoreFrame, Without, oldVars, newVars,
      streamVars, publicVars, history, HandoffTypeOK, ServersOK, ReaderPhases,
      CommitPhases
<1>16. CASE RollbackDone
  BY <1>16 DEF RollbackDone, startFrame, oldVars, newVars, streamVars,
      publicVars, history, HandoffTypeOK, ServersOK, ReaderPhases, CommitPhases
<1>17. CASE OwnedAck
  BY <1>17 DEF OwnedAck, oldVars, newVars, streamVars, publicVars, history,
      HandoffTypeOK, ServersOK, ReaderPhases, CommitPhases
<1>18. CASE OldCrashes
  BY <1>18 DEF OldCrashes, Without, OldUp, oldVars, newVars, streamVars,
      publicVars, history, HandoffTypeOK, ServersOK, ReaderPhases, CommitPhases
<1>19. CASE Connect
  BY <1>19 DEF Connect, importFrame, OldUp, oldVars, newVars, streamVars,
      publicVars, history, HandoffTypeOK, ServersOK, ReaderPhases, CommitPhases
<1>20. CASE ReadManifest
  BY <1>20 DEF ReadManifest, importFrame, OldUp, oldVars, newVars, streamVars,
      publicVars, history, HandoffTypeOK, ServersOK, ReaderPhases, CommitPhases
<1>21. CASE ReceiveFds
  BY <1>21 DEF ReceiveFds, importFrame, OldUp, oldVars, newVars, streamVars,
      publicVars, history, HandoffTypeOK, ServersOK, ReaderPhases, CommitPhases
<1>22. CASE SocketsClosed
  BY <1>22 DEF SocketsClosed, importFrame, oldVars, newVars, streamVars,
      publicVars, history, HandoffTypeOK, ServersOK, ReaderPhases, CommitPhases
<1>23. CASE BindApi
  BY <1>23 DEF BindApi, importFrame, oldVars, newVars, streamVars, publicVars,
      history, HandoffTypeOK, ServersOK, ReaderPhases, CommitPhases
<1>24. CASE BindClient
  BY <1>24 DEF BindClient, importFrame, OldUp, oldVars, newVars, streamVars,
      publicVars, history, HandoffTypeOK, ServersOK, ReaderPhases, CommitPhases
<1>25. CASE TakeOwnership
  BY <1>25 DEF TakeOwnership, importFrame, oldVars, newVars, streamVars,
      publicVars, history, HandoffTypeOK, ServersOK, ReaderPhases, CommitPhases
<1>26. CASE ReportOwned
  BY <1>26 DEF ReportOwned, importFrame, OldUp, oldVars, newVars, streamVars,
      publicVars, history, HandoffTypeOK, ServersOK, ReaderPhases, CommitPhases
<1>27. CASE ImporterFails
  BY <1>27 DEF ImporterFails, importFrame, oldVars, newVars, streamVars,
      publicVars, history, HandoffTypeOK, ServersOK, ReaderPhases, CommitPhases
<1>28. CASE ImporterExits
  BY <1>28 DEF ImporterExits, Without, oldVars, newVars, streamVars,
      publicVars, history, HandoffTypeOK, ServersOK, ReaderPhases, CommitPhases
<1>29. ASSUME NEW p \in panes, UnpausePane(p) PROVE ReaderPhases'
  BY <1>29 DEF UnpausePane, oldVars, newVars, streamVars, publicVars, history,
      HandoffTypeOK, ServersOK, ReaderPhases, CommitPhases
<1>30. CASE OtherStarts
  BY <1>30 DEF OtherStarts, otherFrame, oldVars, newVars, streamVars,
      publicVars, history, HandoffTypeOK, ServersOK, ReaderPhases, CommitPhases
<1>31. CASE OtherBinds
  BY <1>31 DEF OtherBinds, otherFrame, oldVars, newVars, streamVars,
      publicVars, history, HandoffTypeOK, ServersOK, ReaderPhases, CommitPhases
<1>32. CASE OtherStops
  BY <1>32 DEF OtherStops, otherFrame, Without, oldVars, newVars, streamVars,
      publicVars, history, HandoffTypeOK, ServersOK, ReaderPhases, CommitPhases
<1>33. CASE UNCHANGED handoffVars
  BY <1>33 DEF handoffVars, oldVars, newVars, streamVars, publicVars, history,
      HandoffTypeOK, ServersOK, ReaderPhases, CommitPhases
<1> QED
  BY <1>1, <1>2, <1>3, <1>4, <1>5, <1>6, <1>7, <1>8, <1>9, <1>10, <1>11,
      <1>12, <1>13, <1>14, <1>15, <1>16, <1>17, <1>18, <1>19, <1>20, <1>21,
      <1>22, <1>23, <1>24, <1>25, <1>26, <1>27, <1>28, <1>29, <1>30, <1>31,
      <1>32, <1>33 DEF HandoffNext, OldServer, Importer, Other

(* Every step is a step of PaneOwnership, or leaves its state alone. *)
LEMMA StepRefines == ASSUME HandoffIInv, [HandoffNext]_handoffVars PROVE [Owners!Next]_<<Reads, committed>>
<1> USE DEF HandoffIInv
<1>1. CASE StartHandoff
  <2>1. UNCHANGED <<panes, reader, newReading>> /\ committed' = FALSE /\ ~committed
    BY <1>1 DEF StartHandoff, newVars, CommitPhases
  <2>2. committed' = committed
    BY <2>1 DEF HandoffTypeOK, ServerFlagsOK
  <2> QED
    BY <2>1, <2>2, Stutter
<1>2. ASSUME NEW p \in panes, PausePane(p) PROVE [Owners!Next]_<<Reads, committed>>
  <2>1. newReading = {} /\ panes \subseteq Panes
    BY <1>2 DEF PausePane, CommitPhases, HandoffTypeOK, ServersOK
  <2>2. UNCHANGED <<panes, newReading, committed>>
    BY <1>2 DEF PausePane, startFrame, newVars
  <2>3. CASE UNCHANGED reader
    BY <2>2, <2>3, Stutter
  <2>4. CASE reader' = [reader EXCEPT ![p] = "quiesced"] /\ reader[p] # "running"
    <3>1. Reads' = Reads
      BY <2>1, <2>2, <2>4 DEF Reads, HandoffTypeOK, ServersOK
    <3> QED
      BY <2>2, <3>1
  <2>5. CASE reader' = [reader EXCEPT ![p] = "quiesced"] /\ reader[p] = "running"
    <3>1. Reads[p] = "old" /\ p \in Panes
      BY <2>1, <2>5 DEF Reads
    <3>2. Reads' = [Reads EXCEPT ![p] = "nobody"]
      BY <2>1, <2>2, <2>5 DEF Reads, HandoffTypeOK, ServersOK
    <3> QED
      BY <2>2, <3>1, <3>2 DEF Owners!Next, Owners!Stop
  <2> QED
    BY <1>2, <2>3, <2>4, <2>5 DEF PausePane
<1>3. ASSUME NEW p \in panes, Duplicate(p) PROVE [Owners!Next]_<<Reads, committed>>
  <2>1. UNCHANGED <<panes, reader, newReading, committed>>
    BY <1>3 DEF Duplicate, Abort, KillImporter, Without, oldVars, newVars, streamVars,
        publicVars, history, HandoffTypeOK, ServersOK, CommitPhases
  <2> QED
    BY <2>1, Stutter
<1>4. ASSUME NEW p \in panes, RollbackPane(p) PROVE [Owners!Next]_<<Reads, committed>>
  <2>1. newReading = {} /\ panes \subseteq Panes /\ ~committed
    BY <1>4 DEF RollbackPane, CommitPhases, HandoffTypeOK, ServersOK
  <2>2. UNCHANGED <<panes, newReading, committed>>
    BY <1>4 DEF RollbackPane, startFrame, newVars
  <2>3. \E late \in {"running", "quiesced"} : reader' = [reader EXCEPT ![p] = late]
           \/ reader' = reader
    BY <1>4 DEF RollbackPane
  <2>4. CASE Reads' = Reads
    BY <2>2, <2>4
  <2>5. CASE reader' = [reader EXCEPT ![p] = "running"] /\ reader[p] # "running"
    <3>1. Reads[p] = "nobody" /\ p \in Panes
      BY <2>1, <2>5 DEF Reads
    <3>2. Reads' = [Reads EXCEPT ![p] = "old"]
      BY <2>1, <2>2, <2>5 DEF Reads, HandoffTypeOK, ServersOK
    <3> QED
      BY <2>1, <2>2, <3>1, <3>2 DEF Owners!Next, Owners!Resume
  <2>6. CASE reader' = [reader EXCEPT ![p] = "quiesced"] /\ reader[p] = "running"
    <3>1. Reads[p] = "old" /\ p \in Panes
      BY <2>1, <2>6 DEF Reads
    <3>2. Reads' = [Reads EXCEPT ![p] = "nobody"]
      BY <2>1, <2>2, <2>6 DEF Reads, HandoffTypeOK, ServersOK
    <3> QED
      BY <2>2, <3>1, <3>2 DEF Owners!Next, Owners!Stop
  <2>7. CASE reader' = [reader EXCEPT ![p] = "running"] /\ reader[p] = "running"
    BY <2>2, <2>4, <2>7 DEF Reads, HandoffTypeOK, ServersOK
  <2>8. CASE reader' = [reader EXCEPT ![p] = "quiesced"] /\ reader[p] # "running"
    BY <2>2, <2>4, <2>8 DEF Reads, HandoffTypeOK, ServersOK
  <2>9. CASE reader' = reader
    BY <2>2, <2>9, Stutter
  <2> QED
    BY <1>4, <2>3, <2>5, <2>6, <2>7, <2>8, <2>9
<1>5. ASSUME NEW p \in panes, ReleasePane(p) PROVE [Owners!Next]_<<Reads, committed>>
  <2>1. UNCHANGED <<panes, newReading, committed>>
    BY <1>5 DEF ReleasePane, startFrame, newVars, history
  <2>2. Reads' = Reads
    BY <1>5, <2>1 DEF ReleasePane, Reads, ReaderPhases, HandoffTypeOK, ServersOK
  <2> QED
    BY <2>1, <2>2
<1>6. CASE SpawnImport
  <2>1. UNCHANGED <<panes, reader, newReading, committed>>
    BY <1>6 DEF SpawnImport, oldVars, newVars, streamVars, publicVars, history, HandoffTypeOK,
        ServersOK, CommitPhases
  <2> QED
    BY <2>1, Stutter
<1>7. CASE SendManifest
  <2>1. UNCHANGED <<panes, reader, newReading, committed>>
    BY <1>7 DEF SendManifest, oldVars, newVars, streamVars, publicVars, history, HandoffTypeOK,
        ServersOK, CommitPhases
  <2> QED
    BY <2>1, Stutter
<1>8. CASE SendFds
  <2>1. UNCHANGED <<panes, reader, newReading, committed>>
    BY <1>8 DEF SendFds, oldVars, newVars, streamVars, publicVars, history, HandoffTypeOK, ServersOK,
        CommitPhases
  <2> QED
    BY <2>1, Stutter
<1>9. CASE Restored
  <2>1. UNCHANGED <<panes, reader, newReading, committed>>
    BY <1>9 DEF Restored, RemoveOwnSockets, Without, oldVars, newVars, streamVars, publicVars,
        history, HandoffTypeOK, ServersOK, CommitPhases
  <2> QED
    BY <2>1, Stutter
<1>10. CASE WaitFails
  <2>1. UNCHANGED <<panes, reader, newReading, committed>>
    BY <1>10 DEF WaitFails, Abort, KillImporter, Without, oldVars, newVars, streamVars,
        publicVars, history, HandoffTypeOK, ServersOK, CommitPhases
  <2> QED
    BY <2>1, Stutter
<1>11. CASE Commit
  <2>1. UNCHANGED <<panes, reader, newReading>> /\ committed' = TRUE /\ ~committed
    BY <1>11 DEF Commit, oldVars, newVars, CommitPhases
  <2>2. \A p \in Panes : Reads[p] = "nobody"
    BY <1>11 DEF Commit, Reads, ReaderPhases, CommitPhases
  <2>3. Reads' = Reads
    BY <2>1 DEF Reads
  <2> QED
    BY <2>1, <2>2, <2>3 DEF Owners!Next, Owners!Commit
<1>12. CASE ReadyFails
  <2>1. UNCHANGED <<panes, reader, newReading, committed>>
    BY <1>12 DEF ReadyFails, KillImporter, Without, oldVars, newVars, streamVars, publicVars,
        history, HandoffTypeOK, ServersOK, CommitPhases
  <2> QED
    BY <2>1, Stutter
<1>13. CASE RestoreApi
  <2>1. UNCHANGED <<panes, reader, newReading, committed>>
    BY <1>13 DEF RestoreApi, restoreFrame, oldVars, newVars, streamVars, publicVars, history,
        HandoffTypeOK, ServersOK, CommitPhases
  <2> QED
    BY <2>1, Stutter
<1>14. CASE RestoreClient
  <2>1. UNCHANGED <<panes, reader, newReading, committed>>
    BY <1>14 DEF RestoreClient, restoreFrame, oldVars, newVars, streamVars, publicVars,
        history, HandoffTypeOK, ServersOK, CommitPhases
  <2> QED
    BY <2>1, Stutter
<1>15. CASE RestoreFails
  <2>1. UNCHANGED <<panes, reader, newReading, committed>>
    BY <1>15 DEF RestoreFails, restoreFrame, Without, oldVars, newVars, streamVars, publicVars,
        history, HandoffTypeOK, ServersOK, CommitPhases
  <2> QED
    BY <2>1, Stutter
<1>16. CASE RollbackDone
  <2>1. UNCHANGED <<panes, reader, newReading, committed>>
    BY <1>16 DEF RollbackDone, startFrame, oldVars, newVars, streamVars, publicVars, history,
        HandoffTypeOK, ServersOK, CommitPhases
  <2> QED
    BY <2>1, Stutter
<1>17. CASE OwnedAck
  <2>1. UNCHANGED <<panes, reader, newReading, committed>>
    BY <1>17 DEF OwnedAck, oldVars, newVars, streamVars, publicVars, history, HandoffTypeOK,
        ServersOK, CommitPhases
  <2> QED
    BY <2>1, Stutter
<1>18. CASE OldCrashes
  <2>1. /\ UNCHANGED <<panes, newReading, committed>>
        /\ reader' = [p \in panes |-> "closed"]
    BY <1>18 DEF OldCrashes, newVars, history
  <2>2. \A p \in newReading : p \in panes /\ reader[p] # "running"
    BY DEF CommitPhases, ReaderPhases, HandoffTypeOK, ServersOK
  <2>3. Reads' = [p \in Panes |-> IF Reads[p] = "old" THEN "nobody" ELSE Reads[p]]
    BY <2>1, <2>2 DEF Reads
  <2> QED
    BY <2>1, <2>3 DEF Owners!Next, Owners!Crash
<1>19. CASE Connect
  <2>1. UNCHANGED <<panes, reader, newReading, committed>>
    BY <1>19 DEF Connect, importFrame, OldUp, oldVars, newVars, streamVars, publicVars,
        history, HandoffTypeOK, ServersOK, CommitPhases
  <2> QED
    BY <2>1, Stutter
<1>20. CASE ReadManifest
  <2>1. UNCHANGED <<panes, reader, newReading, committed>>
    BY <1>20 DEF ReadManifest, importFrame, OldUp, oldVars, newVars, streamVars, publicVars,
        history, HandoffTypeOK, ServersOK, CommitPhases
  <2> QED
    BY <2>1, Stutter
<1>21. CASE ReceiveFds
  <2>1. UNCHANGED <<panes, reader, newReading, committed>>
    BY <1>21 DEF ReceiveFds, importFrame, OldUp, oldVars, newVars, streamVars, publicVars,
        history, HandoffTypeOK, ServersOK, CommitPhases
  <2> QED
    BY <2>1, Stutter
<1>22. CASE SocketsClosed
  <2>1. UNCHANGED <<panes, reader, newReading, committed>>
    BY <1>22 DEF SocketsClosed, importFrame, oldVars, newVars, streamVars, publicVars, history,
        HandoffTypeOK, ServersOK, CommitPhases
  <2> QED
    BY <2>1, Stutter
<1>23. CASE BindApi
  <2>1. UNCHANGED <<panes, reader, newReading, committed>>
    BY <1>23 DEF BindApi, importFrame, oldVars, newVars, streamVars, publicVars, history,
        HandoffTypeOK, ServersOK, CommitPhases
  <2> QED
    BY <2>1, Stutter
<1>24. CASE BindClient
  <2>1. UNCHANGED <<panes, reader, newReading, committed>>
    BY <1>24 DEF BindClient, importFrame, OldUp, oldVars, newVars, streamVars, publicVars,
        history, HandoffTypeOK, ServersOK, CommitPhases
  <2> QED
    BY <2>1, Stutter
<1>25. CASE TakeOwnership
  <2>1. UNCHANGED <<panes, reader, newReading, committed>>
    BY <1>25 DEF TakeOwnership, importFrame, oldVars, newVars, streamVars, publicVars, history,
        HandoffTypeOK, ServersOK, CommitPhases
  <2> QED
    BY <2>1, Stutter
<1>26. CASE ReportOwned
  <2>1. UNCHANGED <<panes, reader, newReading, committed>>
    BY <1>26 DEF ReportOwned, importFrame, OldUp, oldVars, newVars, streamVars, publicVars,
        history, HandoffTypeOK, ServersOK, CommitPhases
  <2> QED
    BY <2>1, Stutter
<1>27. CASE ImporterFails
  <2>1. UNCHANGED <<panes, reader, newReading, committed>>
    BY <1>27 DEF ImporterFails, importFrame, oldVars, newVars, streamVars, publicVars, history,
        HandoffTypeOK, ServersOK, CommitPhases
  <2> QED
    BY <2>1, Stutter
<1>28. CASE ImporterExits
  <2>1. UNCHANGED <<panes, reader, newReading, committed>>
    BY <1>28 DEF ImporterExits, Without, oldVars, newVars, streamVars, publicVars, history,
        HandoffTypeOK, ServersOK, CommitPhases
  <2> QED
    BY <2>1, Stutter
<1>29. ASSUME NEW p \in panes, UnpausePane(p) PROVE [Owners!Next]_<<Reads, committed>>
  <2>1. /\ UNCHANGED <<panes, reader, committed>> /\ committed
        /\ p \in newFds \ newReading /\ p \in Panes /\ reader[p] # "running"
    BY <1>29 DEF UnpausePane, oldVars, CommitPhases, ReaderPhases, HandoffTypeOK, ServersOK
  <2>2. CASE newReading' = newReading
    BY <2>1, <2>2, Stutter
  <2>3. CASE newReading' = newReading \cup {p}
    <3>1. Reads[p] = "nobody"
      BY <2>1 DEF Reads
    <3>2. Reads' = [Reads EXCEPT ![p] = "new"]
      BY <2>1, <2>3 DEF Reads
    <3> QED
      BY <2>1, <3>1, <3>2 DEF Owners!Next, Owners!Take
  <2> QED
    BY <1>29, <2>2, <2>3 DEF UnpausePane
<1>30. CASE OtherStarts
  <2>1. UNCHANGED <<panes, reader, newReading, committed>>
    BY <1>30 DEF OtherStarts, otherFrame, oldVars, newVars, streamVars, publicVars, history,
        HandoffTypeOK, ServersOK, CommitPhases
  <2> QED
    BY <2>1, Stutter
<1>31. CASE OtherBinds
  <2>1. UNCHANGED <<panes, reader, newReading, committed>>
    BY <1>31 DEF OtherBinds, otherFrame, oldVars, newVars, streamVars, publicVars, history,
        HandoffTypeOK, ServersOK, CommitPhases
  <2> QED
    BY <2>1, Stutter
<1>32. CASE OtherStops
  <2>1. UNCHANGED <<panes, reader, newReading, committed>>
    BY <1>32 DEF OtherStops, otherFrame, Without, oldVars, newVars, streamVars, publicVars,
        history, HandoffTypeOK, ServersOK, CommitPhases
  <2> QED
    BY <2>1, Stutter
<1>33. CASE UNCHANGED handoffVars
  BY <1>33 DEF handoffVars, oldVars, newVars, streamVars, publicVars, history, Reads
<1> QED
  BY <1>1, <1>2, <1>3, <1>4, <1>5, <1>6, <1>7, <1>8, <1>9, <1>10, <1>11,
      <1>12, <1>13, <1>14, <1>15, <1>16, <1>17, <1>18, <1>19, <1>20, <1>21,
      <1>22, <1>23, <1>24, <1>25, <1>26, <1>27, <1>28, <1>29, <1>30, <1>31,
      <1>32, <1>33 DEF HandoffNext, OldServer, Importer, Other

(* The invariant holds initially ...                                       *)
LEMMA InitIInv == HandoffInit => HandoffIInv
<1> SUFFICES ASSUME HandoffInit PROVE HandoffIInv
  OBVIOUS
<1>1. ServerFlagsOK
  BY DEF HandoffInit, ServerFlagsOK
<1>2. StreamOK
  BY DEF HandoffInit, StreamOK
<1>3. ServersOK
  BY DEF HandoffInit, ServersOK, Sockets
<1>4. CommitPhases /\ ReaderPhases
  BY DEF HandoffInit, CommitPhases, ReaderPhases
<1> QED
  BY <1>1, <1>2, <1>3, <1>4 DEF HandoffIInv, HandoffTypeOK

(* ... and in every state: the commit is written once, before the importer *)
(* acts on it and while no reader of the old server runs.                  *)
THEOREM HandoffInvariance == HandoffSpec => []HandoffIInv
<1>1. HandoffIInv /\ [HandoffNext]_handoffVars => HandoffIInv'
  BY ServerFlagsStep, StreamStep, ServersStep, CommitStep, ReaderStep DEF HandoffIInv, HandoffTypeOK
<1> QED
  BY InitIInv, <1>1, PTL DEF HandoffSpec

(* The types of the two servers, the stream and the sockets.               *)
THEOREM HandoffTypeCorrect == HandoffSpec => []HandoffTypeOK
<1>1. HandoffIInv => HandoffTypeOK
  BY DEF HandoffIInv
<1> QED
  BY HandoffInvariance, <1>1, PTL

(* perform_live_handoff captures and duplicates only quiesced panes.       *)
THEOREM CaptureIsQuiesced == HandoffSpec => []CapturedQuiesced
<1>1. HandoffIInv => CapturedQuiesced
  BY DEF HandoffIInv, ReaderPhases, CapturedQuiesced
<1> QED
  BY HandoffInvariance, <1>1, PTL

(* The handoff implements the ownership contract, for any number of panes, *)
(* requests, failures, crashes of the old server and third servers.        *)
THEOREM HandoffRefines == HandoffSpec => OwnershipContract
<1>1. HandoffInit => Owners!Init
  <2> SUFFICES ASSUME HandoffInit PROVE Owners!Init
    OBVIOUS
  <2>1. Reads \in [Panes -> {"old", "nobody"}]
    BY DEF HandoffInit, Reads
  <2>2. committed = FALSE
    BY DEF HandoffInit
  <2> QED
    BY <2>1, <2>2 DEF Owners!Init
<1>2. HandoffIInv /\ [HandoffNext]_handoffVars => [Owners!Next]_<<Reads, committed>>
  BY StepRefines
<1> QED
  BY <1>1, <1>2, HandoffInvariance, PTL DEF HandoffSpec, OwnershipContract, Owners!Spec

-----------------------------------------------------------------------------
(* The strengthening for the failed attempts: what the old server leaves   *)
(* behind, who holds the masters and who listens.                          *)

InOld(line) == \E i \in 1 .. Len(toOld) : toOld[i] = line
InNew(line) == \E i \in 1 .. Len(toNew) : toNew[i] = line

\* Where there is no importer, nothing of one is left.
Quiet ==
    opc \in {"idle", "pausing", "rollback", "waitSockets", "restoreClient"} =>
      ipc \in Dead /\ dups = {} /\ transit = {} /\ toOld = <<>>

\* The old server's panes during an attempt.
AttemptOK ==
    /\ opc \in {"validating", "restoring"} => dups = panes
    /\ opc = "awaitReady" => dups = {}
    /\ opc \in {"duplicating", "validating", "restoring", "awaitReady", "waitSockets",
                "restoreClient"} => paused = panes
    /\ opc \in {"idle", "pausing", "rollback"} =>
          \A p \in panes \ paused : reader[p] = "running" \/ p \in stuckPanes
    /\ opc = "idle" => ~inProgress /\ paused = {}
    /\ opc \notin {"releasing", "exited", "crashed"} => \A p \in panes : reader[p] # "closed"

\* The lines that matter were written where the importer was.
LinesOK ==
    /\ InOld("ready") => \/ ipc \in {"waitCommitted", "unpausing", "owner"}
                         \/ ipc \in {"failing", "gone"} /\ gaveUp
    /\ InOld("validated") => ipc \notin {"connecting", "manifest"}
    /\ InNew("fds") => ipc \notin {"connecting", "manifest"}
    /\ InNew("fds") /\ ipc = "fds" => transit = panes

\* The importer has every master, and owns the processes only after the commit.
ImporterOK ==
    /\ ipc \in {"waitClosed", "bindApi", "bindClient", "waitCommitted", "unpausing", "owner"} =>
          newFds = panes
    /\ newOwns => ipc \in {"unpausing", "owner"}
    /\ opc \in {"releasing", "exited"} =>
          \/ ipc \in {"waitCommitted", "unpausing", "owner"}
          \/ ipc \in {"failing", "gone"} /\ gaveUp
    /\ signalled = {}

\* Who listens: unless a third server has started, the old one listens until
\* it hands over and again before it goes on.
PublicOK ==
    /\ ipc \in {"bindClient", "waitCommitted", "unpausing", "owner"} => sockets["api"] = "new"
    /\ ipc \in {"waitCommitted", "unpausing", "owner"} => sockets["client"] = "new"
    /\ \A s \in Sockets : sockets[s] = "new" =>
          ipc \in {"bindClient", "waitCommitted", "unpausing", "owner", "failing"}
    /\ \A s \in Sockets : sockets[s] = "other" => other # "none"
    /\ opc \in {"idle", "pausing", "duplicating", "validating", "restoring", "rollback"} =>
          other # "none" \/ \A s \in Sockets : sockets[s] = "old"
    /\ opc = "restoreClient" => other # "none" \/ sockets["api"] = "old"

SInv == HandoffIInv /\ Quiet /\ AttemptOK /\ LinesOK /\ ImporterOK /\ PublicOK

-----------------------------------------------------------------------------
(* A line is in the stream when it was there before or has just been      *)
(* written: reading, closing and clearing add none.                        *)
LEMMA OldLines ==
    ASSUME StreamOK, NEW line,
           \/ toOld' = toOld \/ toOld' = <<>>
           \/ toOld # <<>> /\ toOld' = Tail(toOld)
    PROVE  InOld(line)' => InOld(line)
BY DEF StreamOK, InOld

LEMMA OldAppend ==
    ASSUME StreamOK, NEW line, NEW a \in {"token", "validated", "restored", "ready", "owned"},
           toOld' = Append(toOld, a)
    PROVE  InOld(line)' => InOld(line) \/ line = a
BY DEF StreamOK, InOld

LEMMA OldHead == ASSUME StreamOK, toOld # <<>> PROVE InOld(Head(toOld))
BY DEF StreamOK, InOld

LEMMA LinesEmpty ==
    ASSUME NEW line
    PROVE  /\ toOld = <<>> => ~InOld(line)
           /\ toOld' = <<>> => ~InOld(line)'
           /\ toNew' = <<>> => ~InNew(line)'
BY DEF InOld, InNew

LEMMA NewLines ==
    ASSUME StreamOK, NEW line,
           \/ toNew' = toNew \/ toNew' = <<>>
           \/ toNew # <<>> /\ toNew' = Tail(toNew)
    PROVE  InNew(line)' => InNew(line)
BY DEF StreamOK, InNew

LEMMA NewAppend ==
    ASSUME StreamOK, NEW line, NEW a \in {"manifest", "fds", "committed"},
           toNew' = Append(toNew, a)
    PROVE  InNew(line)' => InNew(line) \/ line = a
BY DEF StreamOK, InNew

LEMMA NewHead == ASSUME StreamOK, toNew # <<>> PROVE InNew(Head(toNew))
BY DEF StreamOK, InNew

(* Nothing is left of an importer once the old server has aborted ...      *)
LEMMA QuietStep == ASSUME SInv, [HandoffNext]_handoffVars PROVE Quiet'
<1> USE DEF SInv, HandoffIInv, HandoffTypeOK, ServersOK
<1>1. CASE StartHandoff
  BY <1>1 DEF StartHandoff, oldVars, newVars, streamVars, publicVars, history,
      Quiet, AttemptOK, Dead
<1>2. ASSUME NEW p \in panes, PausePane(p) PROVE Quiet'
  BY <1>2 DEF PausePane, startFrame, oldVars, newVars, streamVars, publicVars,
      history, Quiet, AttemptOK, Dead
<1>3. ASSUME NEW p \in panes, Duplicate(p) PROVE Quiet'
  BY <1>3 DEF Duplicate, Abort, KillImporter, Without, oldVars, newVars,
      streamVars, publicVars, history, Quiet, AttemptOK, Dead
<1>4. ASSUME NEW p \in panes, RollbackPane(p) PROVE Quiet'
  BY <1>4 DEF RollbackPane, startFrame, oldVars, newVars, streamVars,
      publicVars, history, Quiet, AttemptOK, Dead
<1>5. ASSUME NEW p \in panes, ReleasePane(p) PROVE Quiet'
  BY <1>5 DEF ReleasePane, startFrame, oldVars, newVars, streamVars,
      publicVars, history, Quiet, AttemptOK, Dead
<1>6. CASE SpawnImport
  BY <1>6 DEF SpawnImport, oldVars, newVars, streamVars, publicVars, history,
      Quiet, AttemptOK, Dead
<1>7. CASE SendManifest
  BY <1>7 DEF SendManifest, oldVars, newVars, streamVars, publicVars, history,
      Quiet, AttemptOK, Dead
<1>8. CASE SendFds
  BY <1>8 DEF SendFds, oldVars, newVars, streamVars, publicVars, history,
      Quiet, AttemptOK, Dead
<1>9. CASE Restored
  BY <1>9 DEF Restored, RemoveOwnSockets, Without, oldVars, newVars,
      streamVars, publicVars, history, Quiet, AttemptOK, Dead
<1>10. CASE WaitFails
  BY <1>10 DEF WaitFails, Abort, KillImporter, Without, oldVars, newVars,
      streamVars, publicVars, history, Quiet, AttemptOK, Dead
<1>11. CASE Commit
  BY <1>11 DEF Commit, oldVars, newVars, streamVars, publicVars, history,
      Quiet, AttemptOK, Dead
<1>12. CASE ReadyFails
  BY <1>12 DEF ReadyFails, KillImporter, Without, oldVars, newVars,
      streamVars, publicVars, history, Quiet, AttemptOK, Dead
<1>13. CASE RestoreApi
  BY <1>13 DEF RestoreApi, restoreFrame, oldVars, newVars, streamVars,
      publicVars, history, Quiet, AttemptOK, Dead
<1>14. CASE RestoreClient
  BY <1>14 DEF RestoreClient, restoreFrame, oldVars, newVars, streamVars,
      publicVars, history, Quiet, AttemptOK, Dead
<1>15. CASE RestoreFails
  BY <1>15 DEF RestoreFails, restoreFrame, Without, oldVars, newVars,
      streamVars, publicVars, history, Quiet, AttemptOK, Dead
<1>16. CASE RollbackDone
  BY <1>16 DEF RollbackDone, startFrame, oldVars, newVars, streamVars,
      publicVars, history, Quiet, AttemptOK, Dead
<1>17. CASE OwnedAck
  BY <1>17 DEF OwnedAck, oldVars, newVars, streamVars, publicVars, history,
      Quiet, AttemptOK, Dead
<1>18. CASE OldCrashes
  BY <1>18 DEF OldCrashes, Without, OldUp, oldVars, newVars, streamVars,
      publicVars, history, Quiet, AttemptOK, Dead
<1>19. CASE Connect
  BY <1>19 DEF Connect, importFrame, OldUp, oldVars, newVars, streamVars,
      publicVars, history, Quiet, AttemptOK, Dead
<1>20. CASE ReadManifest
  BY <1>20 DEF ReadManifest, importFrame, OldUp, oldVars, newVars, streamVars,
      publicVars, history, Quiet, AttemptOK, Dead
<1>21. CASE ReceiveFds
  BY <1>21 DEF ReceiveFds, importFrame, OldUp, oldVars, newVars, streamVars,
      publicVars, history, Quiet, AttemptOK, Dead
<1>22. CASE SocketsClosed
  BY <1>22 DEF SocketsClosed, importFrame, oldVars, newVars, streamVars,
      publicVars, history, Quiet, AttemptOK, Dead
<1>23. CASE BindApi
  BY <1>23 DEF BindApi, importFrame, oldVars, newVars, streamVars, publicVars,
      history, Quiet, AttemptOK, Dead
<1>24. CASE BindClient
  BY <1>24 DEF BindClient, importFrame, OldUp, oldVars, newVars, streamVars,
      publicVars, history, Quiet, AttemptOK, Dead
<1>25. CASE TakeOwnership
  BY <1>25 DEF TakeOwnership, importFrame, oldVars, newVars, streamVars,
      publicVars, history, Quiet, AttemptOK, Dead
<1>26. CASE ReportOwned
  BY <1>26 DEF ReportOwned, importFrame, OldUp, oldVars, newVars, streamVars,
      publicVars, history, Quiet, AttemptOK, Dead
<1>27. CASE ImporterFails
  BY <1>27 DEF ImporterFails, importFrame, oldVars, newVars, streamVars,
      publicVars, history, Quiet, AttemptOK, Dead
<1>28. CASE ImporterExits
  BY <1>28 DEF ImporterExits, Without, oldVars, newVars, streamVars,
      publicVars, history, Quiet, AttemptOK, Dead
<1>29. ASSUME NEW p \in panes, UnpausePane(p) PROVE Quiet'
  BY <1>29 DEF UnpausePane, oldVars, newVars, streamVars, publicVars, history,
      Quiet, AttemptOK, Dead
<1>30. CASE OtherStarts
  BY <1>30 DEF OtherStarts, otherFrame, oldVars, newVars, streamVars,
      publicVars, history, Quiet, AttemptOK, Dead
<1>31. CASE OtherBinds
  BY <1>31 DEF OtherBinds, otherFrame, oldVars, newVars, streamVars,
      publicVars, history, Quiet, AttemptOK, Dead
<1>32. CASE OtherStops
  BY <1>32 DEF OtherStops, otherFrame, Without, oldVars, newVars, streamVars,
      publicVars, history, Quiet, AttemptOK, Dead
<1>33. CASE UNCHANGED handoffVars
  BY <1>33 DEF handoffVars, oldVars, newVars, streamVars, publicVars, history, Quiet,
      AttemptOK, Dead
<1> QED
  BY <1>1, <1>2, <1>3, <1>4, <1>5, <1>6, <1>7, <1>8, <1>9, <1>10, <1>11,
      <1>12, <1>13, <1>14, <1>15, <1>16, <1>17, <1>18, <1>19, <1>20, <1>21,
      <1>22, <1>23, <1>24, <1>25, <1>26, <1>27, <1>28, <1>29, <1>30, <1>31,
      <1>32, <1>33 DEF HandoffNext, OldServer, Importer, Other

(* ... and its panes are paused until the rollback takes them back.        *)
LEMMA AttemptStep == ASSUME SInv, [HandoffNext]_handoffVars PROVE AttemptOK'
<1> USE DEF SInv, HandoffIInv, HandoffTypeOK, ServersOK
<1>1. CASE StartHandoff
  BY <1>1 DEF StartHandoff, oldVars, newVars, streamVars, publicVars, history,
      AttemptOK, Quiet, ReaderPhases
<1>2. ASSUME NEW p \in panes, PausePane(p) PROVE AttemptOK'
  BY <1>2 DEF PausePane, startFrame, oldVars, newVars, streamVars, publicVars,
      history, AttemptOK, Quiet, ReaderPhases
<1>3. ASSUME NEW p \in panes, Duplicate(p) PROVE AttemptOK'
  BY <1>3 DEF Duplicate, Abort, KillImporter, Without, oldVars, newVars,
      streamVars, publicVars, history, AttemptOK, Quiet, ReaderPhases
<1>4. ASSUME NEW p \in panes, RollbackPane(p) PROVE AttemptOK'
  BY <1>4 DEF RollbackPane, startFrame, oldVars, newVars, streamVars,
      publicVars, history, AttemptOK, Quiet, ReaderPhases
<1>5. ASSUME NEW p \in panes, ReleasePane(p) PROVE AttemptOK'
  BY <1>5 DEF ReleasePane, startFrame, oldVars, newVars, streamVars,
      publicVars, history, AttemptOK, Quiet, ReaderPhases
<1>6. CASE SpawnImport
  BY <1>6 DEF SpawnImport, oldVars, newVars, streamVars, publicVars, history,
      AttemptOK, Quiet, ReaderPhases
<1>7. CASE SendManifest
  BY <1>7 DEF SendManifest, oldVars, newVars, streamVars, publicVars, history,
      AttemptOK, Quiet, ReaderPhases
<1>8. CASE SendFds
  BY <1>8 DEF SendFds, oldVars, newVars, streamVars, publicVars, history,
      AttemptOK, Quiet, ReaderPhases
<1>9. CASE Restored
  BY <1>9 DEF Restored, RemoveOwnSockets, Without, oldVars, newVars,
      streamVars, publicVars, history, AttemptOK, Quiet, ReaderPhases
<1>10. CASE WaitFails
  BY <1>10 DEF WaitFails, Abort, KillImporter, Without, oldVars, newVars,
      streamVars, publicVars, history, AttemptOK, Quiet, ReaderPhases
<1>11. CASE Commit
  BY <1>11 DEF Commit, oldVars, newVars, streamVars, publicVars, history,
      AttemptOK, Quiet, ReaderPhases
<1>12. CASE ReadyFails
  BY <1>12 DEF ReadyFails, KillImporter, Without, oldVars, newVars,
      streamVars, publicVars, history, AttemptOK, Quiet, ReaderPhases
<1>13. CASE RestoreApi
  BY <1>13 DEF RestoreApi, restoreFrame, oldVars, newVars, streamVars,
      publicVars, history, AttemptOK, Quiet, ReaderPhases
<1>14. CASE RestoreClient
  BY <1>14 DEF RestoreClient, restoreFrame, oldVars, newVars, streamVars,
      publicVars, history, AttemptOK, Quiet, ReaderPhases
<1>15. CASE RestoreFails
  BY <1>15 DEF RestoreFails, restoreFrame, Without, oldVars, newVars,
      streamVars, publicVars, history, AttemptOK, Quiet, ReaderPhases
<1>16. CASE RollbackDone
  BY <1>16 DEF RollbackDone, startFrame, oldVars, newVars, streamVars,
      publicVars, history, AttemptOK, Quiet, ReaderPhases
<1>17. CASE OwnedAck
  BY <1>17 DEF OwnedAck, oldVars, newVars, streamVars, publicVars, history,
      AttemptOK, Quiet, ReaderPhases
<1>18. CASE OldCrashes
  BY <1>18 DEF OldCrashes, Without, OldUp, oldVars, newVars, streamVars,
      publicVars, history, AttemptOK, Quiet, ReaderPhases
<1>19. CASE Connect
  BY <1>19 DEF Connect, importFrame, OldUp, oldVars, newVars, streamVars,
      publicVars, history, AttemptOK, Quiet, ReaderPhases
<1>20. CASE ReadManifest
  BY <1>20 DEF ReadManifest, importFrame, OldUp, oldVars, newVars, streamVars,
      publicVars, history, AttemptOK, Quiet, ReaderPhases
<1>21. CASE ReceiveFds
  BY <1>21 DEF ReceiveFds, importFrame, OldUp, oldVars, newVars, streamVars,
      publicVars, history, AttemptOK, Quiet, ReaderPhases
<1>22. CASE SocketsClosed
  BY <1>22 DEF SocketsClosed, importFrame, oldVars, newVars, streamVars,
      publicVars, history, AttemptOK, Quiet, ReaderPhases
<1>23. CASE BindApi
  BY <1>23 DEF BindApi, importFrame, oldVars, newVars, streamVars, publicVars,
      history, AttemptOK, Quiet, ReaderPhases
<1>24. CASE BindClient
  BY <1>24 DEF BindClient, importFrame, OldUp, oldVars, newVars, streamVars,
      publicVars, history, AttemptOK, Quiet, ReaderPhases
<1>25. CASE TakeOwnership
  BY <1>25 DEF TakeOwnership, importFrame, oldVars, newVars, streamVars,
      publicVars, history, AttemptOK, Quiet, ReaderPhases
<1>26. CASE ReportOwned
  BY <1>26 DEF ReportOwned, importFrame, OldUp, oldVars, newVars, streamVars,
      publicVars, history, AttemptOK, Quiet, ReaderPhases
<1>27. CASE ImporterFails
  BY <1>27 DEF ImporterFails, importFrame, oldVars, newVars, streamVars,
      publicVars, history, AttemptOK, Quiet, ReaderPhases
<1>28. CASE ImporterExits
  BY <1>28 DEF ImporterExits, Without, oldVars, newVars, streamVars,
      publicVars, history, AttemptOK, Quiet, ReaderPhases
<1>29. ASSUME NEW p \in panes, UnpausePane(p) PROVE AttemptOK'
  BY <1>29 DEF UnpausePane, oldVars, newVars, streamVars, publicVars, history,
      AttemptOK, Quiet, ReaderPhases
<1>30. CASE OtherStarts
  BY <1>30 DEF OtherStarts, otherFrame, oldVars, newVars, streamVars,
      publicVars, history, AttemptOK, Quiet, ReaderPhases
<1>31. CASE OtherBinds
  BY <1>31 DEF OtherBinds, otherFrame, oldVars, newVars, streamVars,
      publicVars, history, AttemptOK, Quiet, ReaderPhases
<1>32. CASE OtherStops
  BY <1>32 DEF OtherStops, otherFrame, Without, oldVars, newVars, streamVars,
      publicVars, history, AttemptOK, Quiet, ReaderPhases
<1>33. CASE UNCHANGED handoffVars
  BY <1>33 DEF handoffVars, oldVars, newVars, streamVars, publicVars, history,
      AttemptOK, Quiet, ReaderPhases
<1> QED
  BY <1>1, <1>2, <1>3, <1>4, <1>5, <1>6, <1>7, <1>8, <1>9, <1>10, <1>11,
      <1>12, <1>13, <1>14, <1>15, <1>16, <1>17, <1>18, <1>19, <1>20, <1>21,
      <1>22, <1>23, <1>24, <1>25, <1>26, <1>27, <1>28, <1>29, <1>30, <1>31,
      <1>32, <1>33 DEF HandoffNext, OldServer, Importer, Other

(* The importer holds every master from "restored" on.                     *)
LEMMA ImporterStep == ASSUME SInv, [HandoffNext]_handoffVars PROVE ImporterOK'
<1> USE DEF SInv, HandoffIInv, HandoffTypeOK, ServersOK
<1>1. CASE StartHandoff
  BY <1>1 DEF StartHandoff, oldVars, newVars, streamVars, publicVars, history,
      ImporterOK, Quiet, AttemptOK, CommitPhases
<1>2. ASSUME NEW p \in panes, PausePane(p) PROVE ImporterOK'
  BY <1>2 DEF PausePane, startFrame, oldVars, newVars, streamVars, publicVars,
      history, ImporterOK, Quiet, AttemptOK, CommitPhases
<1>3. ASSUME NEW p \in panes, Duplicate(p) PROVE ImporterOK'
  BY <1>3 DEF Duplicate, Abort, KillImporter, Without, oldVars, newVars,
      streamVars, publicVars, history, ImporterOK, Quiet, AttemptOK,
      CommitPhases
<1>4. ASSUME NEW p \in panes, RollbackPane(p) PROVE ImporterOK'
  BY <1>4 DEF RollbackPane, startFrame, oldVars, newVars, streamVars,
      publicVars, history, ImporterOK, Quiet, AttemptOK, CommitPhases
<1>5. ASSUME NEW p \in panes, ReleasePane(p) PROVE ImporterOK'
  BY <1>5 DEF ReleasePane, startFrame, oldVars, newVars, streamVars,
      publicVars, history, ImporterOK, Quiet, AttemptOK, CommitPhases
<1>6. CASE SpawnImport
  BY <1>6 DEF SpawnImport, oldVars, newVars, streamVars, publicVars, history,
      ImporterOK, Quiet, AttemptOK, CommitPhases
<1>7. CASE SendManifest
  BY <1>7 DEF SendManifest, oldVars, newVars, streamVars, publicVars, history,
      ImporterOK, Quiet, AttemptOK, CommitPhases
<1>8. CASE SendFds
  BY <1>8 DEF SendFds, oldVars, newVars, streamVars, publicVars, history,
      ImporterOK, Quiet, AttemptOK, CommitPhases
<1>9. CASE Restored
  BY <1>9 DEF Restored, RemoveOwnSockets, Without, oldVars, newVars,
      streamVars, publicVars, history, ImporterOK, Quiet, AttemptOK,
      CommitPhases
<1>10. CASE WaitFails
  BY <1>10 DEF WaitFails, Abort, KillImporter, Without, oldVars, newVars,
      streamVars, publicVars, history, ImporterOK, Quiet, AttemptOK,
      CommitPhases
<1>11. CASE Commit
  <2>1. InOld("ready")
    BY <1>11, OldHead DEF Commit
  <2> QED
    BY <1>11, <2>1 DEF Commit, oldVars, newVars, LinesOK, ImporterOK
<1>12. CASE ReadyFails
  BY <1>12 DEF ReadyFails, KillImporter, Without, oldVars, newVars,
      streamVars, publicVars, history, ImporterOK, Quiet, AttemptOK,
      CommitPhases
<1>13. CASE RestoreApi
  BY <1>13 DEF RestoreApi, restoreFrame, oldVars, newVars, streamVars,
      publicVars, history, ImporterOK, Quiet, AttemptOK, CommitPhases
<1>14. CASE RestoreClient
  BY <1>14 DEF RestoreClient, restoreFrame, oldVars, newVars, streamVars,
      publicVars, history, ImporterOK, Quiet, AttemptOK, CommitPhases
<1>15. CASE RestoreFails
  BY <1>15 DEF RestoreFails, restoreFrame, Without, oldVars, newVars,
      streamVars, publicVars, history, ImporterOK, Quiet, AttemptOK,
      CommitPhases
<1>16. CASE RollbackDone
  BY <1>16 DEF RollbackDone, startFrame, oldVars, newVars, streamVars,
      publicVars, history, ImporterOK, Quiet, AttemptOK, CommitPhases
<1>17. CASE OwnedAck
  BY <1>17 DEF OwnedAck, oldVars, newVars, streamVars, publicVars, history,
      ImporterOK, Quiet, AttemptOK, CommitPhases
<1>18. CASE OldCrashes
  BY <1>18 DEF OldCrashes, Without, OldUp, oldVars, newVars, streamVars,
      publicVars, history, ImporterOK, Quiet, AttemptOK, CommitPhases
<1>19. CASE Connect
  BY <1>19 DEF Connect, importFrame, OldUp, oldVars, newVars, streamVars,
      publicVars, history, ImporterOK, Quiet, AttemptOK, CommitPhases
<1>20. CASE ReadManifest
  BY <1>20 DEF ReadManifest, importFrame, OldUp, oldVars, newVars, streamVars,
      publicVars, history, ImporterOK, Quiet, AttemptOK, CommitPhases
<1>21. CASE ReceiveFds
  <2>1. InNew("fds")
    BY <1>21, NewHead DEF ReceiveFds
  <2> QED
    BY <1>21, <2>1 DEF ReceiveFds, importFrame, oldVars, LinesOK, ImporterOK
<1>22. CASE SocketsClosed
  BY <1>22 DEF SocketsClosed, importFrame, oldVars, newVars, streamVars,
      publicVars, history, ImporterOK, Quiet, AttemptOK, CommitPhases
<1>23. CASE BindApi
  BY <1>23 DEF BindApi, importFrame, oldVars, newVars, streamVars, publicVars,
      history, ImporterOK, Quiet, AttemptOK, CommitPhases
<1>24. CASE BindClient
  BY <1>24 DEF BindClient, importFrame, OldUp, oldVars, newVars, streamVars,
      publicVars, history, ImporterOK, Quiet, AttemptOK, CommitPhases
<1>25. CASE TakeOwnership
  BY <1>25 DEF TakeOwnership, importFrame, oldVars, newVars, streamVars,
      publicVars, history, ImporterOK, Quiet, AttemptOK, CommitPhases
<1>26. CASE ReportOwned
  BY <1>26 DEF ReportOwned, importFrame, OldUp, oldVars, newVars, streamVars,
      publicVars, history, ImporterOK, Quiet, AttemptOK, CommitPhases
<1>27. CASE ImporterFails
  BY <1>27 DEF ImporterFails, importFrame, oldVars, newVars, streamVars,
      publicVars, history, ImporterOK, Quiet, AttemptOK, CommitPhases
<1>28. CASE ImporterExits
  BY <1>28 DEF ImporterExits, Without, oldVars, newVars, streamVars,
      publicVars, history, ImporterOK, Quiet, AttemptOK, CommitPhases
<1>29. ASSUME NEW p \in panes, UnpausePane(p) PROVE ImporterOK'
  BY <1>29 DEF UnpausePane, oldVars, newVars, streamVars, publicVars, history,
      ImporterOK, Quiet, AttemptOK, CommitPhases
<1>30. CASE OtherStarts
  BY <1>30 DEF OtherStarts, otherFrame, oldVars, newVars, streamVars,
      publicVars, history, ImporterOK, Quiet, AttemptOK, CommitPhases
<1>31. CASE OtherBinds
  BY <1>31 DEF OtherBinds, otherFrame, oldVars, newVars, streamVars,
      publicVars, history, ImporterOK, Quiet, AttemptOK, CommitPhases
<1>32. CASE OtherStops
  BY <1>32 DEF OtherStops, otherFrame, Without, oldVars, newVars, streamVars,
      publicVars, history, ImporterOK, Quiet, AttemptOK, CommitPhases
<1>33. CASE UNCHANGED handoffVars
  BY <1>33 DEF handoffVars, oldVars, newVars, streamVars, publicVars, history,
      ImporterOK, Quiet, AttemptOK, CommitPhases
<1> QED
  BY <1>1, <1>2, <1>3, <1>4, <1>5, <1>6, <1>7, <1>8, <1>9, <1>10, <1>11,
      <1>12, <1>13, <1>14, <1>15, <1>16, <1>17, <1>18, <1>19, <1>20, <1>21,
      <1>22, <1>23, <1>24, <1>25, <1>26, <1>27, <1>28, <1>29, <1>30, <1>31,
      <1>32, <1>33 DEF HandoffNext, OldServer, Importer, Other

(* The public sockets.                                                     *)
LEMMA PublicStep == ASSUME SInv, [HandoffNext]_handoffVars PROVE PublicOK'
<1> USE DEF SInv, HandoffIInv, HandoffTypeOK, ServersOK
<1>1. CASE StartHandoff
  BY <1>1 DEF StartHandoff, oldVars, newVars, streamVars, publicVars, history,
      PublicOK, Quiet, AttemptOK, Sockets, Dead, ImporterOK
<1>2. ASSUME NEW p \in panes, PausePane(p) PROVE PublicOK'
  BY <1>2 DEF PausePane, startFrame, oldVars, newVars, streamVars, publicVars,
      history, PublicOK, Quiet, AttemptOK, Sockets, Dead, ImporterOK
<1>3. ASSUME NEW p \in panes, Duplicate(p) PROVE PublicOK'
  BY <1>3 DEF Duplicate, Abort, KillImporter, Without, oldVars, newVars,
      streamVars, publicVars, history, PublicOK, Quiet, AttemptOK, Sockets,
      Dead, ImporterOK
<1>4. ASSUME NEW p \in panes, RollbackPane(p) PROVE PublicOK'
  BY <1>4 DEF RollbackPane, startFrame, oldVars, newVars, streamVars,
      publicVars, history, PublicOK, Quiet, AttemptOK, Sockets, Dead,
      ImporterOK
<1>5. ASSUME NEW p \in panes, ReleasePane(p) PROVE PublicOK'
  BY <1>5 DEF ReleasePane, startFrame, oldVars, newVars, streamVars,
      publicVars, history, PublicOK, Quiet, AttemptOK, Sockets, Dead,
      ImporterOK
<1>6. CASE SpawnImport
  BY <1>6 DEF SpawnImport, oldVars, newVars, streamVars, publicVars, history,
      PublicOK, Quiet, AttemptOK, Sockets, Dead, ImporterOK
<1>7. CASE SendManifest
  BY <1>7 DEF SendManifest, oldVars, newVars, streamVars, publicVars, history,
      PublicOK, Quiet, AttemptOK, Sockets, Dead, ImporterOK
<1>8. CASE SendFds
  BY <1>8 DEF SendFds, oldVars, newVars, streamVars, publicVars, history,
      PublicOK, Quiet, AttemptOK, Sockets, Dead, ImporterOK
<1>9. CASE Restored
  BY <1>9 DEF Restored, RemoveOwnSockets, Without, oldVars, newVars,
      streamVars, publicVars, history, PublicOK, Quiet, AttemptOK, Sockets,
      Dead, ImporterOK
<1>10. CASE WaitFails
  BY <1>10 DEF WaitFails, Abort, KillImporter, Without, oldVars, newVars,
      streamVars, publicVars, history, PublicOK, Quiet, AttemptOK, Sockets,
      Dead, ImporterOK
<1>11. CASE Commit
  BY <1>11 DEF Commit, oldVars, newVars, streamVars, publicVars, history,
      PublicOK, Quiet, AttemptOK, Sockets, Dead, ImporterOK
<1>12. CASE ReadyFails
  BY <1>12 DEF ReadyFails, KillImporter, Without, oldVars, newVars,
      streamVars, publicVars, history, PublicOK, Quiet, AttemptOK, Sockets,
      Dead, ImporterOK
<1>13. CASE RestoreApi
  BY <1>13 DEF RestoreApi, restoreFrame, oldVars, newVars, streamVars,
      publicVars, history, PublicOK, Quiet, AttemptOK, Sockets, Dead,
      ImporterOK
<1>14. CASE RestoreClient
  BY <1>14 DEF RestoreClient, restoreFrame, oldVars, newVars, streamVars,
      publicVars, history, PublicOK, Quiet, AttemptOK, Sockets, Dead,
      ImporterOK
<1>15. CASE RestoreFails
  BY <1>15 DEF RestoreFails, restoreFrame, Without, oldVars, newVars,
      streamVars, publicVars, history, PublicOK, Quiet, AttemptOK, Sockets,
      Dead, ImporterOK
<1>16. CASE RollbackDone
  BY <1>16 DEF RollbackDone, startFrame, oldVars, newVars, streamVars,
      publicVars, history, PublicOK, Quiet, AttemptOK, Sockets, Dead,
      ImporterOK
<1>17. CASE OwnedAck
  BY <1>17 DEF OwnedAck, oldVars, newVars, streamVars, publicVars, history,
      PublicOK, Quiet, AttemptOK, Sockets, Dead, ImporterOK
<1>18. CASE OldCrashes
  BY <1>18 DEF OldCrashes, Without, OldUp, oldVars, newVars, streamVars,
      publicVars, history, PublicOK, Quiet, AttemptOK, Sockets, Dead,
      ImporterOK
<1>19. CASE Connect
  BY <1>19 DEF Connect, importFrame, OldUp, oldVars, newVars, streamVars,
      publicVars, history, PublicOK, Quiet, AttemptOK, Sockets, Dead,
      ImporterOK
<1>20. CASE ReadManifest
  BY <1>20 DEF ReadManifest, importFrame, OldUp, oldVars, newVars, streamVars,
      publicVars, history, PublicOK, Quiet, AttemptOK, Sockets, Dead,
      ImporterOK
<1>21. CASE ReceiveFds
  BY <1>21 DEF ReceiveFds, importFrame, OldUp, oldVars, newVars, streamVars,
      publicVars, history, PublicOK, Quiet, AttemptOK, Sockets, Dead,
      ImporterOK
<1>22. CASE SocketsClosed
  BY <1>22 DEF SocketsClosed, importFrame, oldVars, newVars, streamVars,
      publicVars, history, PublicOK, Quiet, AttemptOK, Sockets, Dead,
      ImporterOK
<1>23. CASE BindApi
  BY <1>23 DEF BindApi, importFrame, oldVars, newVars, streamVars, publicVars,
      history, PublicOK, Quiet, AttemptOK, Sockets, Dead, ImporterOK
<1>24. CASE BindClient
  BY <1>24 DEF BindClient, importFrame, OldUp, oldVars, newVars, streamVars,
      publicVars, history, PublicOK, Quiet, AttemptOK, Sockets, Dead,
      ImporterOK
<1>25. CASE TakeOwnership
  BY <1>25 DEF TakeOwnership, importFrame, oldVars, newVars, streamVars,
      publicVars, history, PublicOK, Quiet, AttemptOK, Sockets, Dead,
      ImporterOK
<1>26. CASE ReportOwned
  BY <1>26 DEF ReportOwned, importFrame, OldUp, oldVars, newVars, streamVars,
      publicVars, history, PublicOK, Quiet, AttemptOK, Sockets, Dead,
      ImporterOK
<1>27. CASE ImporterFails
  BY <1>27 DEF ImporterFails, importFrame, oldVars, newVars, streamVars,
      publicVars, history, PublicOK, Quiet, AttemptOK, Sockets, Dead,
      ImporterOK
<1>28. CASE ImporterExits
  BY <1>28 DEF ImporterExits, Without, oldVars, newVars, streamVars,
      publicVars, history, PublicOK, Quiet, AttemptOK, Sockets, Dead,
      ImporterOK
<1>29. ASSUME NEW p \in panes, UnpausePane(p) PROVE PublicOK'
  BY <1>29 DEF UnpausePane, oldVars, newVars, streamVars, publicVars, history,
      PublicOK, Quiet, AttemptOK, Sockets, Dead, ImporterOK
<1>30. CASE OtherStarts
  BY <1>30 DEF OtherStarts, otherFrame, oldVars, newVars, streamVars,
      publicVars, history, PublicOK, Quiet, AttemptOK, Sockets, Dead,
      ImporterOK
<1>31. CASE OtherBinds
  BY <1>31 DEF OtherBinds, otherFrame, oldVars, newVars, streamVars,
      publicVars, history, PublicOK, Quiet, AttemptOK, Sockets, Dead,
      ImporterOK
<1>32. CASE OtherStops
  BY <1>32 DEF OtherStops, otherFrame, Without, oldVars, newVars, streamVars,
      publicVars, history, PublicOK, Quiet, AttemptOK, Sockets, Dead,
      ImporterOK
<1>33. CASE UNCHANGED handoffVars
  BY <1>33 DEF handoffVars, oldVars, newVars, streamVars, publicVars, history,
      PublicOK, Quiet, AttemptOK, Sockets, Dead, ImporterOK
<1> QED
  BY <1>1, <1>2, <1>3, <1>4, <1>5, <1>6, <1>7, <1>8, <1>9, <1>10, <1>11,
      <1>12, <1>13, <1>14, <1>15, <1>16, <1>17, <1>18, <1>19, <1>20, <1>21,
      <1>22, <1>23, <1>24, <1>25, <1>26, <1>27, <1>28, <1>29, <1>30, <1>31,
      <1>32, <1>33 DEF HandoffNext, OldServer, Importer, Other

(* The lines the old server acts on tell where the importer is.           *)
LEMMA LinesStep == ASSUME SInv, [HandoffNext]_handoffVars PROVE LinesOK'
<1> USE DEF SInv, HandoffIInv, HandoffTypeOK
<1>1. CASE StartHandoff
  <2>1. \A line \in {"ready", "validated"} : InOld(line)' => InOld(line)
    BY <1>1, OldLines DEF StartHandoff, oldVars, streamVars
  <2>2. InNew("fds")' => InNew("fds")
    BY <1>1, NewLines DEF StartHandoff, oldVars, streamVars
  <2>3. ~InOld("ready")
    BY <1>1, LinesEmpty DEF StartHandoff, Quiet
  <2> QED
    BY <1>1, <2>1, <2>2, <2>3 DEF StartHandoff, oldVars, newVars, streamVars,
        publicVars, history, LinesOK, AttemptOK, ImporterOK, CommitPhases,
        Quiet, Dead
<1>2. ASSUME NEW p \in panes, PausePane(p) PROVE LinesOK'
  <2>1. \A line \in {"ready", "validated"} : InOld(line)' => InOld(line)
    BY <1>2, OldLines DEF PausePane, startFrame, oldVars, streamVars
  <2>2. InNew("fds")' => InNew("fds")
    BY <1>2, NewLines DEF PausePane, startFrame, oldVars, streamVars
  <2> QED
    BY <1>2, <2>1, <2>2 DEF PausePane, startFrame, oldVars, newVars,
        streamVars, publicVars, history, LinesOK, AttemptOK, ImporterOK,
        CommitPhases, Quiet, Dead
<1>3. ASSUME NEW p \in panes, Duplicate(p) PROVE LinesOK'
  <2>1. CASE UNCHANGED <<toOld, toNew, transit, ipc, gaveUp, panes>>
    BY <2>1 DEF LinesOK, InOld, InNew
  <2>2. CASE toOld' = <<>> /\ toNew' = <<>>
    BY <2>2, LinesEmpty DEF LinesOK
  <2> QED
    BY <1>3, <2>1, <2>2 DEF Duplicate, Abort, KillImporter, Without, oldVars,
        streamVars, newVars, history
<1>4. ASSUME NEW p \in panes, RollbackPane(p) PROVE LinesOK'
  <2>1. \A line \in {"ready", "validated"} : InOld(line)' => InOld(line)
    BY <1>4, OldLines DEF RollbackPane, startFrame, oldVars, streamVars
  <2>2. InNew("fds")' => InNew("fds")
    BY <1>4, NewLines DEF RollbackPane, startFrame, oldVars, streamVars
  <2> QED
    BY <1>4, <2>1, <2>2 DEF RollbackPane, startFrame, oldVars, newVars,
        streamVars, publicVars, history, LinesOK, AttemptOK, ImporterOK,
        CommitPhases, Quiet, Dead
<1>5. ASSUME NEW p \in panes, ReleasePane(p) PROVE LinesOK'
  <2>1. \A line \in {"ready", "validated"} : InOld(line)' => InOld(line)
    BY <1>5, OldLines DEF ReleasePane, startFrame, oldVars, streamVars
  <2>2. InNew("fds")' => InNew("fds")
    BY <1>5, NewLines DEF ReleasePane, startFrame, oldVars, streamVars
  <2> QED
    BY <1>5, <2>1, <2>2 DEF ReleasePane, startFrame, oldVars, newVars,
        streamVars, publicVars, history, LinesOK, AttemptOK, ImporterOK,
        CommitPhases, Quiet, Dead
<1>6. CASE SpawnImport
  <2>1. CASE UNCHANGED <<toOld, toNew, transit, ipc, gaveUp, panes>>
    BY <2>1 DEF LinesOK, InOld, InNew
  <2>2. CASE toOld' = <<>> /\ toNew' = <<>>
    BY <2>2, LinesEmpty DEF LinesOK
  <2> QED
    BY <1>6, <2>1, <2>2 DEF SpawnImport, oldVars, streamVars, newVars, history
<1>7. CASE SendManifest
  <2>1. \A line \in {"ready", "validated"} : InOld(line)' => InOld(line)
    BY <1>7, OldLines DEF SendManifest, oldVars, streamVars
  <2>2. InNew("fds")' => InNew("fds") \/ "fds" = "manifest"
    BY <1>7, NewAppend DEF SendManifest, oldVars, streamVars
  <2> QED
    BY <1>7, <2>1, <2>2 DEF SendManifest, oldVars, newVars, streamVars,
        publicVars, history, LinesOK, AttemptOK, ImporterOK, CommitPhases,
        Quiet, Dead
<1>8. CASE SendFds
  <2>1. \A line \in {"ready", "validated"} : InOld(line)' => InOld(line)
    BY <1>8, OldLines DEF SendFds, oldVars, streamVars
  <2>2. InNew("fds")' => InNew("fds") \/ "fds" = "fds"
    BY <1>8, NewAppend DEF SendFds, oldVars, streamVars
  <2>3. InOld("validated")
    BY <1>8, OldHead DEF SendFds
  <2> QED
    BY <1>8, <2>1, <2>2, <2>3 DEF SendFds, oldVars, newVars, streamVars,
        publicVars, history, LinesOK, AttemptOK, ImporterOK, CommitPhases,
        Quiet, Dead
<1>9. CASE Restored
  <2>1. \A line \in {"ready", "validated"} : InOld(line)' => InOld(line)
    BY <1>9, OldLines DEF Restored, RemoveOwnSockets, Without, oldVars,
        streamVars
  <2>2. InNew("fds")' => InNew("fds")
    BY <1>9, NewLines DEF Restored, RemoveOwnSockets, Without, oldVars,
        streamVars
  <2> QED
    BY <1>9, <2>1, <2>2 DEF Restored, RemoveOwnSockets, Without, oldVars,
        newVars, streamVars, publicVars, history, LinesOK, AttemptOK,
        ImporterOK, CommitPhases, Quiet, Dead
<1>10. CASE WaitFails
  <2>1. CASE UNCHANGED <<toOld, toNew, transit, ipc, gaveUp, panes>>
    BY <2>1 DEF LinesOK, InOld, InNew
  <2>2. CASE toOld' = <<>> /\ toNew' = <<>>
    BY <2>2, LinesEmpty DEF LinesOK
  <2> QED
    BY <1>10, <2>1, <2>2 DEF WaitFails, Abort, KillImporter, Without, oldVars,
        streamVars, newVars, history
<1>11. CASE Commit
  <2>1. \A line \in {"ready", "validated"} : InOld(line)' => InOld(line)
    BY <1>11, OldLines DEF Commit, oldVars, streamVars
  <2>2. InNew("fds")' => InNew("fds") \/ "fds" = "committed"
    BY <1>11, NewAppend DEF Commit, oldVars, streamVars
  <2> QED
    BY <1>11, <2>1, <2>2 DEF Commit, oldVars, newVars, streamVars, publicVars,
        history, LinesOK, AttemptOK, ImporterOK, CommitPhases, Quiet, Dead
<1>12. CASE ReadyFails
  <2>1. CASE UNCHANGED <<toOld, toNew, transit, ipc, gaveUp, panes>>
    BY <2>1 DEF LinesOK, InOld, InNew
  <2>2. CASE toOld' = <<>> /\ toNew' = <<>>
    BY <2>2, LinesEmpty DEF LinesOK
  <2> QED
    BY <1>12, <2>1, <2>2 DEF ReadyFails, KillImporter, Without, oldVars,
        streamVars, newVars, history
<1>13. CASE RestoreApi
  <2>1. \A line \in {"ready", "validated"} : InOld(line)' => InOld(line)
    BY <1>13, OldLines DEF RestoreApi, restoreFrame, oldVars, streamVars
  <2>2. InNew("fds")' => InNew("fds")
    BY <1>13, NewLines DEF RestoreApi, restoreFrame, oldVars, streamVars
  <2> QED
    BY <1>13, <2>1, <2>2 DEF RestoreApi, restoreFrame, oldVars, newVars,
        streamVars, publicVars, history, LinesOK, AttemptOK, ImporterOK,
        CommitPhases, Quiet, Dead
<1>14. CASE RestoreClient
  <2>1. \A line \in {"ready", "validated"} : InOld(line)' => InOld(line)
    BY <1>14, OldLines DEF RestoreClient, restoreFrame, oldVars, streamVars
  <2>2. InNew("fds")' => InNew("fds")
    BY <1>14, NewLines DEF RestoreClient, restoreFrame, oldVars, streamVars
  <2> QED
    BY <1>14, <2>1, <2>2 DEF RestoreClient, restoreFrame, oldVars, newVars,
        streamVars, publicVars, history, LinesOK, AttemptOK, ImporterOK,
        CommitPhases, Quiet, Dead
<1>15. CASE RestoreFails
  <2>1. \A line \in {"ready", "validated"} : InOld(line)' => InOld(line)
    BY <1>15, OldLines DEF RestoreFails, restoreFrame, Without, oldVars,
        streamVars
  <2>2. InNew("fds")' => InNew("fds")
    BY <1>15, NewLines DEF RestoreFails, restoreFrame, Without, oldVars,
        streamVars
  <2> QED
    BY <1>15, <2>1, <2>2 DEF RestoreFails, restoreFrame, Without, oldVars,
        newVars, streamVars, publicVars, history, LinesOK, AttemptOK,
        ImporterOK, CommitPhases, Quiet, Dead
<1>16. CASE RollbackDone
  <2>1. \A line \in {"ready", "validated"} : InOld(line)' => InOld(line)
    BY <1>16, OldLines DEF RollbackDone, startFrame, oldVars, streamVars
  <2>2. InNew("fds")' => InNew("fds")
    BY <1>16, NewLines DEF RollbackDone, startFrame, oldVars, streamVars
  <2> QED
    BY <1>16, <2>1, <2>2 DEF RollbackDone, startFrame, oldVars, newVars,
        streamVars, publicVars, history, LinesOK, AttemptOK, ImporterOK,
        CommitPhases, Quiet, Dead
<1>17. CASE OwnedAck
  <2>1. \A line \in {"ready", "validated"} : InOld(line)' => InOld(line)
    BY <1>17, OldLines DEF OwnedAck, oldVars, streamVars
  <2>2. InNew("fds")' => InNew("fds")
    BY <1>17, NewLines DEF OwnedAck, oldVars, streamVars
  <2> QED
    BY <1>17, <2>1, <2>2 DEF OwnedAck, oldVars, newVars, streamVars,
        publicVars, history, LinesOK, AttemptOK, ImporterOK, CommitPhases,
        Quiet, Dead
<1>18. CASE OldCrashes
  <2>1. \A line \in {"ready", "validated"} : InOld(line)' => InOld(line)
    BY <1>18, OldLines DEF OldCrashes, Without, OldUp, oldVars, streamVars
  <2>2. InNew("fds")' => InNew("fds")
    BY <1>18, NewLines DEF OldCrashes, Without, OldUp, oldVars, streamVars
  <2> QED
    BY <1>18, <2>1, <2>2 DEF OldCrashes, Without, OldUp, oldVars, newVars,
        streamVars, publicVars, history, LinesOK, AttemptOK, ImporterOK,
        CommitPhases, Quiet, Dead
<1>19. CASE Connect
  <2>1. \A line \in {"ready", "validated"} : InOld(line)' => InOld(line) \/ line = "token"
    BY <1>19, OldAppend DEF Connect, importFrame, OldUp, oldVars, streamVars
  <2>2. InNew("fds")' => InNew("fds")
    BY <1>19, NewLines DEF Connect, importFrame, OldUp, oldVars, streamVars
  <2> QED
    BY <1>19, <2>1, <2>2 DEF Connect, importFrame, OldUp, oldVars, newVars,
        streamVars, publicVars, history, LinesOK, AttemptOK, ImporterOK,
        CommitPhases, Quiet, Dead
<1>20. CASE ReadManifest
  <2>1. \A line \in {"ready", "validated"} : InOld(line)' => InOld(line) \/ line = "validated"
    BY <1>20, OldAppend DEF ReadManifest, importFrame, OldUp, oldVars,
        streamVars
  <2>2. InNew("fds")' => InNew("fds")
    BY <1>20, NewLines DEF ReadManifest, importFrame, OldUp, oldVars,
        streamVars
  <2> QED
    BY <1>20, <2>1, <2>2 DEF ReadManifest, importFrame, OldUp, oldVars,
        newVars, streamVars, publicVars, history, LinesOK, AttemptOK,
        ImporterOK, CommitPhases, Quiet, Dead
<1>21. CASE ReceiveFds
  <2>1. \A line \in {"ready", "validated"} : InOld(line)' => InOld(line) \/ line = "restored"
    BY <1>21, OldAppend DEF ReceiveFds, importFrame, OldUp, oldVars, streamVars
  <2>2. InNew("fds")' => InNew("fds")
    BY <1>21, NewLines DEF ReceiveFds, importFrame, OldUp, oldVars, streamVars
  <2> QED
    BY <1>21, <2>1, <2>2 DEF ReceiveFds, importFrame, OldUp, oldVars, newVars,
        streamVars, publicVars, history, LinesOK, AttemptOK, ImporterOK,
        CommitPhases, Quiet, Dead
<1>22. CASE SocketsClosed
  <2>1. \A line \in {"ready", "validated"} : InOld(line)' => InOld(line)
    BY <1>22, OldLines DEF SocketsClosed, importFrame, oldVars, streamVars
  <2>2. InNew("fds")' => InNew("fds")
    BY <1>22, NewLines DEF SocketsClosed, importFrame, oldVars, streamVars
  <2> QED
    BY <1>22, <2>1, <2>2 DEF SocketsClosed, importFrame, oldVars, newVars,
        streamVars, publicVars, history, LinesOK, AttemptOK, ImporterOK,
        CommitPhases, Quiet, Dead
<1>23. CASE BindApi
  <2>1. \A line \in {"ready", "validated"} : InOld(line)' => InOld(line)
    BY <1>23, OldLines DEF BindApi, importFrame, oldVars, streamVars
  <2>2. InNew("fds")' => InNew("fds")
    BY <1>23, NewLines DEF BindApi, importFrame, oldVars, streamVars
  <2> QED
    BY <1>23, <2>1, <2>2 DEF BindApi, importFrame, oldVars, newVars,
        streamVars, publicVars, history, LinesOK, AttemptOK, ImporterOK,
        CommitPhases, Quiet, Dead
<1>24. CASE BindClient
  <2>1. \A line \in {"ready", "validated"} : InOld(line)' => InOld(line) \/ line = "ready"
    BY <1>24, OldAppend DEF BindClient, importFrame, OldUp, oldVars, streamVars
  <2>2. InNew("fds")' => InNew("fds")
    BY <1>24, NewLines DEF BindClient, importFrame, OldUp, oldVars, streamVars
  <2> QED
    BY <1>24, <2>1, <2>2 DEF BindClient, importFrame, OldUp, oldVars, newVars,
        streamVars, publicVars, history, LinesOK, AttemptOK, ImporterOK,
        CommitPhases, Quiet, Dead
<1>25. CASE TakeOwnership
  <2>1. \A line \in {"ready", "validated"} : InOld(line)' => InOld(line)
    BY <1>25, OldLines DEF TakeOwnership, importFrame, oldVars, streamVars
  <2>2. InNew("fds")' => InNew("fds")
    BY <1>25, NewLines DEF TakeOwnership, importFrame, oldVars, streamVars
  <2> QED
    BY <1>25, <2>1, <2>2 DEF TakeOwnership, importFrame, oldVars, newVars,
        streamVars, publicVars, history, LinesOK, AttemptOK, ImporterOK,
        CommitPhases, Quiet, Dead
<1>26. CASE ReportOwned
  <2>1. \A line \in {"ready", "validated"} : InOld(line)' => InOld(line) \/ line = "owned"
    BY <1>26, OldAppend, OldLines DEF ReportOwned, importFrame, OldUp, oldVars,
        streamVars
  <2>2. InNew("fds")' => InNew("fds")
    BY <1>26, NewLines DEF ReportOwned, importFrame, OldUp, oldVars, streamVars
  <2> QED
    BY <1>26, <2>1, <2>2 DEF ReportOwned, importFrame, OldUp, oldVars, newVars,
        streamVars, publicVars, history, LinesOK, AttemptOK, ImporterOK,
        CommitPhases, Quiet, Dead
<1>27. CASE ImporterFails
  <2>1. \A line \in {"ready", "validated"} : InOld(line)' => InOld(line)
    BY <1>27, OldLines DEF ImporterFails, importFrame, oldVars, streamVars
  <2>2. InNew("fds")' => InNew("fds")
    BY <1>27, NewLines DEF ImporterFails, importFrame, oldVars, streamVars
  <2> QED
    BY <1>27, <2>1, <2>2 DEF ImporterFails, importFrame, oldVars, newVars,
        streamVars, publicVars, history, LinesOK, AttemptOK, ImporterOK,
        CommitPhases, Quiet, Dead
<1>28. CASE ImporterExits
  <2>1. \A line \in {"ready", "validated"} : InOld(line)' => InOld(line)
    BY <1>28, OldLines DEF ImporterExits, Without, oldVars, streamVars
  <2>2. InNew("fds")' => InNew("fds")
    BY <1>28, NewLines DEF ImporterExits, Without, oldVars, streamVars
  <2> QED
    BY <1>28, <2>1, <2>2 DEF ImporterExits, Without, oldVars, newVars,
        streamVars, publicVars, history, LinesOK, AttemptOK, ImporterOK,
        CommitPhases, Quiet, Dead
<1>29. ASSUME NEW p \in panes, UnpausePane(p) PROVE LinesOK'
  <2>1. \A line \in {"ready", "validated"} : InOld(line)' => InOld(line)
    BY <1>29, OldLines DEF UnpausePane, oldVars, streamVars
  <2>2. InNew("fds")' => InNew("fds")
    BY <1>29, NewLines DEF UnpausePane, oldVars, streamVars
  <2> QED
    BY <1>29, <2>1, <2>2 DEF UnpausePane, oldVars, newVars, streamVars,
        publicVars, history, LinesOK, AttemptOK, ImporterOK, CommitPhases,
        Quiet, Dead
<1>30. CASE OtherStarts
  <2>1. \A line \in {"ready", "validated"} : InOld(line)' => InOld(line)
    BY <1>30, OldLines DEF OtherStarts, otherFrame, oldVars, streamVars
  <2>2. InNew("fds")' => InNew("fds")
    BY <1>30, NewLines DEF OtherStarts, otherFrame, oldVars, streamVars
  <2> QED
    BY <1>30, <2>1, <2>2 DEF OtherStarts, otherFrame, oldVars, newVars,
        streamVars, publicVars, history, LinesOK, AttemptOK, ImporterOK,
        CommitPhases, Quiet, Dead
<1>31. CASE OtherBinds
  <2>1. \A line \in {"ready", "validated"} : InOld(line)' => InOld(line)
    BY <1>31, OldLines DEF OtherBinds, otherFrame, oldVars, streamVars
  <2>2. InNew("fds")' => InNew("fds")
    BY <1>31, NewLines DEF OtherBinds, otherFrame, oldVars, streamVars
  <2> QED
    BY <1>31, <2>1, <2>2 DEF OtherBinds, otherFrame, oldVars, newVars,
        streamVars, publicVars, history, LinesOK, AttemptOK, ImporterOK,
        CommitPhases, Quiet, Dead
<1>32. CASE OtherStops
  <2>1. \A line \in {"ready", "validated"} : InOld(line)' => InOld(line)
    BY <1>32, OldLines DEF OtherStops, otherFrame, Without, oldVars, streamVars
  <2>2. InNew("fds")' => InNew("fds")
    BY <1>32, NewLines DEF OtherStops, otherFrame, Without, oldVars, streamVars
  <2> QED
    BY <1>32, <2>1, <2>2 DEF OtherStops, otherFrame, Without, oldVars, newVars,
        streamVars, publicVars, history, LinesOK, AttemptOK, ImporterOK,
        CommitPhases, Quiet, Dead
<1>33. CASE UNCHANGED handoffVars
  <2>1. \A line \in {"ready", "validated"} : InOld(line)' => InOld(line)
    BY <1>33, OldLines DEF handoffVars, oldVars, streamVars
  <2>2. InNew("fds")' => InNew("fds")
    BY <1>33, NewLines DEF handoffVars, oldVars, streamVars
  <2> QED
    BY <1>33, <2>1, <2>2 DEF handoffVars, oldVars, newVars, streamVars, publicVars,
        history, LinesOK, AttemptOK, ImporterOK, CommitPhases, Quiet, Dead
<1> QED
  BY <1>1, <1>2, <1>3, <1>4, <1>5, <1>6, <1>7, <1>8, <1>9, <1>10, <1>11,
      <1>12, <1>13, <1>14, <1>15, <1>16, <1>17, <1>18, <1>19, <1>20, <1>21,
      <1>22, <1>23, <1>24, <1>25, <1>26, <1>27, <1>28, <1>29, <1>30, <1>31,
      <1>32, <1>33 DEF HandoffNext, OldServer, Importer, Other

(* The strengthening holds initially and is inductive.                     *)
LEMMA InitSInv == HandoffInit => SInv
<1> SUFFICES ASSUME HandoffInit PROVE SInv
  OBVIOUS
<1>1. Quiet /\ AttemptOK
  BY DEF HandoffInit, Quiet, AttemptOK, Dead
<1>2. LinesOK
  BY DEF HandoffInit, LinesOK, InOld, InNew
<1>3. ImporterOK /\ PublicOK
  BY DEF HandoffInit, ImporterOK, PublicOK, Sockets
<1> QED
  BY InitIInv, <1>1, <1>2, <1>3 DEF SInv

THEOREM AttemptInvariance == HandoffSpec => []SInv
<1>1. SInv /\ [HandoffNext]_handoffVars => HandoffIInv'
  BY ServerFlagsStep, StreamStep, ServersStep, CommitStep, ReaderStep DEF SInv, HandoffIInv, HandoffTypeOK
<1>2. SInv /\ [HandoffNext]_handoffVars => SInv'
  BY <1>1, QuietStep, AttemptStep, ImporterStep, PublicStep, LinesStep DEF SInv
<1> QED
  BY InitSInv, <1>2, PTL DEF HandoffSpec

(* However an attempt ends (refused, failed at any step, or committed),    *)
(* whoever has the panes reads them, and is reachable on the sockets.      *)
THEOREM SomeServerServes == HandoffSpec => []OwnerServes
<1>1. SInv => RolledBack
  BY DEF SInv, HandoffIInv, HandoffTypeOK, ServersOK, Quiet, AttemptOK, PublicOK, RolledBack
<1>2. SInv => OwnerReachable
  BY DEF SInv, PublicOK, OwnerReachable, Sockets
<1>3. SInv => OwnerServes
  BY <1>1, <1>2 DEF OwnerServes
<1> QED
  BY AttemptInvariance, <1>3, PTL

(* The panes outlive every attempt: until the commit the old server keeps  *)
(* its masters, and what commits it is a line written by an importer that  *)
(* holds them all.                                                         *)
THEOREM PanesOutliveTheHandoff == HandoffSpec => []PanesSurvive
<1>1. SInv => MasterKept
  <2> SUFFICES ASSUME SInv, NEW p \in panes, opc # "crashed", ~gaveUp PROVE Held(p)
    BY DEF MasterKept
  <2>1. CASE opc \in {"releasing", "exited"}
    BY <2>1 DEF SInv, ImporterOK, Held
  <2>2. CASE opc \notin {"releasing", "exited"}
    BY <2>2 DEF SInv, AttemptOK, Held
  <2> QED
    BY <2>1, <2>2
<1>2. SInv => PanesSurvive
  BY <1>1 DEF SInv, ImporterOK, NoPaneSignalled, PanesSurvive
<1> QED
  BY AttemptInvariance, <1>2, PTL

(* Once the importer has read the commit, no step of the old server, of    *)
(* itself or of a third server ends it.                                    *)
THEOREM NothingUndoesTheCommit == HandoffSpec => CommitIsFinal
<1>1. ASSUME HandoffIInv, [HandoffNext]_handoffVars, ipc \in {"unpausing", "owner"}
      PROVE  ipc' \in {"unpausing", "owner"}
  <2> committed /\ opc \in {"releasing", "exited", "crashed"}
    BY <1>1 DEF HandoffIInv, CommitPhases
  <2>1. CASE OldServer
    BY <1>1, <2>1 DEF OldServer, PausePane, Duplicate, Abort, KillImporter,
        RollbackPane, ReleasePane, SpawnImport, SendManifest, SendFds,
        Restored, WaitFails, Commit, ReadyFails, RestoreApi, RestoreClient,
        RestoreFails, RollbackDone, OwnedAck, startFrame, restoreFrame
  <2>2. CASE Importer
    BY <1>1, <2>2 DEF Importer, Connect, ReadManifest, ReceiveFds,
        SocketsClosed, BindApi, BindClient, TakeOwnership, ReportOwned,
        ImporterFails, ImporterExits, UnpausePane
  <2>3. CASE StartHandoff \/ OldCrashes \/ Other \/ UNCHANGED handoffVars
    BY <1>1, <2>3 DEF StartHandoff, OldCrashes, Other, OtherStarts,
        OtherBinds, OtherStops, otherFrame, handoffVars
  <2> QED
    BY <1>1, <2>1, <2>2, <2>3 DEF HandoffNext
<1>2. HandoffIInv /\ [HandoffNext]_handoffVars =>
        [(ipc \in {"unpausing", "owner"}) => (ipc' \in {"unpausing", "owner"})]_handoffVars
  BY <1>1
<1> QED
  BY HandoffInvariance, <1>2, PTL DEF HandoffSpec, CommitIsFinal
=============================================================================
