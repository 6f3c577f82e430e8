------------------------ MODULE DetectionTaskProofs ------------------------
(***************************************************************************)
(* Proofs about DetectionTask for any agents, panes and bounds.  Once an   *)
(* exit was published the task neither reads the screen for that agent     *)
(* nor skips the probe that ends it (ExitOK); what is published next is    *)
(* decided there, and the channel keeps the order (Chain).                 *)
(***************************************************************************)
EXTENDS DetectionTask, SequenceTheorems, TLAPS

\* What may be published after what.
Follows(a, b) == a.kind = "exit" => b.kind = "start" \/ b.agent = None

\* The event sent last, and the one about to be sent.
LastSent == IF queue = <<>> THEN told ELSE queue[Len(queue)]
LastSaid == IF pc = "send" THEN round.event ELSE LastSent

Chain ==
    /\ queue # <<>> => Follows(told, queue[1])
    /\ \A i \in 1 .. Len(queue) - 1 : Follows(queue[i], queue[i + 1])
    /\ pc = "send" => Follows(LastSent, round.event)

\* A round has its variables after Look, and an event and a next step at Send.
RoundOK ==
    /\ pc \in {"probe", "send", "decide", "read"} => round \in Rounds
    /\ pc = "send" => round.event \in Events /\ round.then \in {"decide", "sleep"}
    /\ pc = "probe" => ~round.changed

\* After an exit the task forgets the agent or is on its way to the probe.
ExitOK ==
    /\ LastSaid.kind = "exit" =>
          \/ task.agent = None
          \/ /\ task.exitTold
             /\ pc \in {"sleep", "look", "probe"} \/ (pc = "send" /\ round.then = "sleep")
    /\ task.exitTold => task.clearing
    /\ told.kind = "exit" => authority = None

\* A held idle was seen once; an agent that is new in this round is shown idle.
HoldOK ==
    /\ task.held # None => plainReads \in {1, 2}
    /\ pc \in {"send", "decide", "read"} /\ round.changed /\ task.agent # None
          /\ (pc = "send" => round.then = "decide") => task.shown = Shown("Idle", TRUE)

BoundsOK == setup \in Setups /\ jobs \in 0 .. setup.jobs /\ requests \in Nat

IInv == TypeOK /\ BoundsOK /\ RoundOK /\ Chain /\ ExitOK /\ HoldOK

\* The loop's variables.
Tasks ==
    [agent : Agents \cup {None}, misses : 0 .. Misses - 1,
     shown : [state : States, visible : BOOLEAN], probed : BOOLEAN,
     group : (0 .. setup.jobs) \cup {None}, clearing : BOOLEAN, exitTold : BOOLEAN,
     releaseSeen : BOOLEAN, grace : BOOLEAN, held : (0 .. Confirmations - 1) \cup {None}]

-----------------------------------------------------------------------------
(* The operators.                                                          *)

\* The numbers the assumptions are about.
LEMMA Numbers ==
    /\ Misses \in Nat /\ Misses > 0 /\ Confirmations \in Nat /\ Confirmations > 0
    /\ Capacity \in Nat /\ Capacity > 0
BY DetectionAssumption

\* The variables of a loop that starts anew.
LEMMA BlankFacts ==
    ASSUME NEW state \in States
    PROVE  /\ Blank(state) \in Tasks
           /\ Blank(state).agent = None /\ Blank(state).held = None
           /\ ~Blank(state).exitTold /\ Blank(state).shown = Shown(state, FALSE)
BY Numbers DEF Blank, Tasks, Shown

\* A probe ends what an exit began: either it is the first to see the exit, or
\* nothing of the exit is left and the agent is another one, a new process, or
\* gone.
LEMMA ApplyFacts ==
    ASSUME NEW t \in Tasks, NEW new \in Agents \cup {None}
    PROVE  LET action == ShellAction(t, new)
               seen == Apply(t, action, new)
           IN  /\ seen \in Tasks /\ seen.held = t.held /\ seen.shown = t.shown
               /\ t.exitTold => /\ ~seen.exitTold /\ ~seen.clearing
                                /\ \/ seen.agent # t.agent
                                   \/ seen.agent = None
                                   \/ action = "ReportReplacementProcess"
               /\ ~t.exitTold => ~seen.exitTold
               /\ action = "ReportReplacementProcess" => seen.agent # None
<1> DEFINE action == ShellAction(t, new)
           off == [t EXCEPT !.clearing = FALSE, !.exitTold = FALSE]
<1>1. /\ off \in Tasks /\ off.held = t.held /\ off.shown = t.shown /\ ~off.exitTold
      /\ ~off.clearing /\ off.agent = t.agent /\ off.misses = t.misses
  BY DEF Tasks
<1>2. t.agent \in Agents \cup {None} /\ t.misses \in 0 .. Misses - 1 /\ t.exitTold \in BOOLEAN
  BY DEF Tasks
<1> HIDE DEF off
<1>3. LET o == Observe(off, new)
      IN  /\ o \in Tasks /\ o.held = off.held /\ o.shown = off.shown
          /\ o.exitTold = off.exitTold /\ o.clearing = off.clearing
          /\ new # None => o.agent = new
          /\ off.agent = None /\ new = None => o.agent = None
  <2>1. CASE new # None
    <3>1. Observe(off, new) = [off EXCEPT !.agent = new, !.misses = 0]
      BY <2>1 DEF Observe
    <3>2. 0 \in 0 .. Misses - 1
      BY Numbers
    <3> QED
      BY <1>1, <2>1, <3>1, <3>2 DEF Tasks
  <2>2. CASE new = None /\ (off.agent = None \/ off.misses + 1 >= Misses)
    <3>1. Observe(off, new) = [off EXCEPT !.agent = None, !.misses = 0]
      BY <2>2 DEF Observe
    <3>2. 0 \in 0 .. Misses - 1
      BY Numbers
    <3> QED
      BY <1>1, <2>2, <3>1, <3>2 DEF Tasks
  <2>3. CASE new = None /\ ~(off.agent = None \/ off.misses + 1 >= Misses)
    <3>1. Observe(off, new) = [off EXCEPT !.misses = @ + 1]
      BY <2>3 DEF Observe
    <3>2. off.misses + 1 \in 0 .. Misses - 1
      BY <1>1, <1>2, <2>3, Numbers
    <3> QED
      BY <1>1, <2>3, <3>1, <3>2 DEF Tasks
  <2> QED
    BY <2>1, <2>2, <2>3
<1>4. CASE action = "ReportProcessExit"
  <2>1. Apply(t, action, new) = [t EXCEPT !.clearing = TRUE]
    BY <1>4 DEF Apply
  <2>2. ~t.exitTold
    BY <1>4 DEF ShellAction
  <2> QED
    BY <1>4, <2>1, <2>2 DEF Tasks
<1>5. CASE action = "ClearAgent"
  <2>1. Apply(t, action, new) = [off EXCEPT !.agent = None, !.misses = 0]
    BY <1>5 DEF Apply, off
  <2>2. 0 \in 0 .. Misses - 1
    BY Numbers
  <2> QED
    BY <1>1, <1>5, <2>1, <2>2 DEF Tasks
<1>6. CASE action \in {"ObserveProbe", "ReportReplacementProcess"}
  <2>1. Apply(t, action, new) = Observe(off, new)
    BY <1>6 DEF Apply, off
  <2>2. action = "ReportReplacementProcess" => new = t.agent /\ t.agent # None
    BY DEF ShellAction
  <2>3. action = "ObserveProbe" /\ t.exitTold => t.agent = None \/ (new # t.agent /\ new # None)
    BY DEF ShellAction
  <2> HIDE DEF action
  <2> QED
    BY <1>1, <1>2, <1>3, <1>6, <2>1, <2>2, <2>3 DEF action
<1>7. action \in {"ReportProcessExit", "ClearAgent", "ObserveProbe", "ReportReplacementProcess"}
  BY DEF ShellAction
<1> QED
  BY <1>4, <1>5, <1>6, <1>7

\* What a screen is taken for.
LEMMA DetectFacts ==
    ASSUME IInv, ~Skips(screen)
    PROVE  /\ Detect(screen) \in [state : States, visible : BOOLEAN]
           /\ Detect(screen) = Shown("Idle", FALSE) => task.agent # None /\ ~Exited
<1>1. screen \in {"idle", "plain", "working", "blocked", "skip"} /\ setup \in Setups
  BY DetectionAssumption DEF IInv, TypeOK, BoundsOK
<1>2. CASE task.agent = None
  BY <1>2 DEF Detect, Shown, States
<1>3. CASE task.agent # None /\ Exited
  BY <1>3 DEF Detect, Shown, States
<1>4. CASE task.agent # None /\ ~Exited
  <2>1. screen \in {"idle", "plain", "working", "blocked"}
    BY <1>1, <1>4 DEF Skips
  <2> QED
    BY <1>4, <2>1 DEF Detect, Shown, States
<1> QED
  BY <1>2, <1>3, <1>4

\* An idle without a sign of it is held the first time; a hold goes with a look
\* that showed no sign of work.
LEMMA HoldFacts ==
    ASSUME IInv, pc = "read", NEW next, NEW capped \in BOOLEAN
    PROVE  LET h == Hold(next, capped)
           IN  /\ h.hold \in BOOLEAN /\ h.held \in (0 .. Confirmations - 1) \cup {None}
               /\ h.held # None => next = Shown("Idle", FALSE)
               /\ task.shown.state = "Working" /\ next = Shown("Idle", FALSE) /\ ~h.hold
                     => round.changed \/ Exited \/ task.held # None
<1> DEFINE h == Hold(next, capped)
<1>1. task \in Tasks
  BY DEF IInv, TypeOK, Tasks
<1>2. task.held \in (0 .. Confirmations - 1) \cup {None}
  BY <1>1 DEF Tasks
<1>3. CASE task.shown.state # "Working" \/ next # Shown("Idle", FALSE) \/ round.changed \/ Exited
  <2>1. Hold(next, capped) = [hold |-> FALSE, held |-> None]
    BY <1>3 DEF Hold
  <2>2. h.hold = FALSE /\ h.held = None
    BY <2>1
  <2> HIDE DEF h
  <2> QED
    BY <1>3, <2>2 DEF h
<1>4. CASE ~(task.shown.state # "Working" \/ next # Shown("Idle", FALSE) \/ round.changed \/ Exited)
  <2>1. CASE task.held = None
    <3>1. Hold(next, capped) = [hold |-> TRUE, held |-> 0]
      BY <1>4, <2>1 DEF Hold
    <3>2. h.hold = TRUE /\ h.held = 0 /\ 0 \in 0 .. Confirmations - 1
      BY <3>1, Numbers
    <3> QED
      BY <1>4, <3>2
  <2>2. CASE task.held # None /\ (capped \/ task.held + 1 >= Confirmations)
    <3>1. Hold(next, capped) = [hold |-> FALSE, held |-> None]
      BY <1>4, <2>2 DEF Hold
    <3>2. h.hold = FALSE /\ h.held = None
      BY <3>1
    <3> QED
      BY <2>2, <3>2
  <2>3. CASE task.held # None /\ ~(capped \/ task.held + 1 >= Confirmations)
    <3>1. Hold(next, capped) = [hold |-> TRUE, held |-> task.held + 1]
      BY <1>4, <2>3 DEF Hold
    <3>2. task.held + 1 \in 0 .. Confirmations - 1
      BY <1>2, <2>3, Numbers
    <3>3. h.hold = TRUE /\ h.held = task.held + 1
      BY <3>1
    <3> QED
      BY <1>4, <3>2, <3>3
  <2> QED
    BY <2>1, <2>2, <2>3
<1> QED
  BY <1>3, <1>4

-----------------------------------------------------------------------------
(* The steps of a round.                                                   *)

\* The typed parts of a state, one by one.
LEMMA TypeFacts ==
    ASSUME IInv
    PROVE  /\ task \in Tasks /\ task.agent \in Agents \cup {None}
           /\ task.exitTold \in BOOLEAN /\ task.clearing \in BOOLEAN
           /\ task.shown \in [state : States, visible : BOOLEAN]
           /\ queue \in Seq(Events) /\ Len(queue) \in Nat
           /\ told \in Events /\ group \in 0 .. setup.jobs
           /\ release \in Agents \cup {None} /\ authority \in Agents \cup {None}
           /\ setup \in Setups
<1>1. task \in Tasks
  BY DEF IInv, TypeOK, Tasks
<1>2. queue \in Seq(Events) /\ Len(queue) \in Nat
  BY LenProperties DEF IInv, TypeOK
<1> QED
  BY <1>1, <1>2 DEF IInv, TypeOK, BoundsOK, Tasks

\* A step that sends nothing and ends where nothing is to be sent leaves the
\* order of the events alone.
LEMMA QuietStep ==
    ASSUME IInv, queue' = queue, told' = told, pc' # "send", pc # "send"
    PROVE  Chain' /\ LastSaid' = LastSaid /\ LastSent' = LastSent
BY DEF IInv, Chain, LastSaid, LastSent, Follows

\* The loop starts a round.
LEMMA WakeStep ==
    ASSUME IInv, Reset \/ Sleep
    PROVE  IInv'
<1> USE DEF IInv
<1>1. /\ pc = "sleep" /\ pc' = "look" /\ round' = round /\ queue' = queue /\ release' = release
      /\ plainReads' = plainReads /\ UNCHANGED <<setup, job, group, screen, jobs>>
      /\ UNCHANGED <<told, authority, requests>>
  BY DEF Reset, Sleep, paneVars, appVars
<1>2. /\ task' \in {task, Blank("Unknown")} /\ reset' \in {reset, FALSE} /\ stale' \in {stale, TRUE}
  BY DEF Reset, Sleep
<1>3. Blank("Unknown") \in Tasks /\ Blank("Unknown").agent = None /\ Blank("Unknown").held = None
      /\ ~Blank("Unknown").exitTold
  BY BlankFacts DEF States
<1>4. task \in Tasks
  BY TypeFacts
<1>5. task' \in Tasks /\ (task' = task \/ (task'.agent = None /\ task'.held = None /\ ~task'.exitTold))
  BY <1>2, <1>3, <1>4
<1>6. TypeOK'
  BY <1>1, <1>2, <1>5 DEF TypeOK, Tasks
<1>7. BoundsOK' /\ RoundOK'
  BY <1>1 DEF BoundsOK, RoundOK
<1>8. Chain' /\ LastSaid' = LastSaid
  BY <1>1, QuietStep
<1>9. ExitOK'
  BY <1>1, <1>5, <1>8 DEF ExitOK
<1>10. HoldOK'
  BY <1>1, <1>5 DEF HoldOK
<1> QED
  BY <1>6, <1>7, <1>8, <1>9, <1>10

\* A round begins; an exit that was published is always followed by a probe.
LEMMA LookStep ==
    ASSUME IInv, NEW due \in BOOLEAN, Look(due)
    PROVE  IInv'
<1> USE DEF IInv
<1> DEFINE t == AfterRelease(task, release)
           r == [suppressed |-> release, authority |-> authority,
                 changed |-> FALSE, event |-> None, then |-> None]
<1>1. /\ pc = "look" /\ task' = t /\ round' = r /\ pc' \in {"probe", "decide"}
      /\ UNCHANGED <<queue, release, reset, stale, plainReads>>
      /\ UNCHANGED <<setup, job, group, screen, jobs>> /\ UNCHANGED <<told, authority, requests>>
  BY DEF Look, paneVars, appVars
<1>2. task \in Tasks /\ release \in Agents \cup {None} /\ authority \in Agents \cup {None}
  BY TypeFacts
<1>3. /\ t \in Tasks /\ t.agent = task.agent /\ t.exitTold = task.exitTold
      /\ t.clearing = task.clearing /\ t.held = task.held
  <2>1. \A x, y \in BOOLEAN : [task EXCEPT !.probed = x, !.releaseSeen = y] \in Tasks
    BY <1>2 DEF Tasks
  <2>2. (task.probed /\ ~(release = None /\ task.releaseSeen)) \in BOOLEAN /\ (release # None) \in BOOLEAN
    OBVIOUS
  <2>3. t \in Tasks
    BY <2>1, <2>2 DEF AfterRelease
  <2> QED
    BY <1>2, <2>3 DEF AfterRelease, Tasks
<1>4. r \in Rounds /\ ~r.changed
  BY <1>2 DEF Rounds
<1>5. t.clearing => pc' = "probe"
  BY <1>1 DEF Look, ShouldProbe, SkipProbe
<1> HIDE DEF t, r
<1>6. TypeOK'
  BY <1>1, <1>3, <1>4 DEF TypeOK, Tasks
<1>7. BoundsOK' /\ RoundOK'
  BY <1>1, <1>4 DEF BoundsOK, RoundOK, Rounds
<1>8. Chain' /\ LastSaid' = LastSaid
  BY <1>1, QuietStep
<1>9. ExitOK'
  BY <1>1, <1>3, <1>5, <1>8 DEF ExitOK
<1>10. HoldOK'
  BY <1>1, <1>3, <1>4 DEF HoldOK
<1> QED
  BY <1>6, <1>7, <1>8, <1>9, <1>10

\* The probe: what was seen of the job ends an exit, or begins one.
LEMMA ProbeStep ==
    ASSUME IInv, Probe
    PROVE  IInv'
<1> USE DEF IInv
<1> DEFINE found == IF job \in Agents THEN job ELSE None
           new == IF found = round.suppressed THEN None ELSE found
           action == ShellAction(task, new)
           app == Apply(task, action, new)
           seen == [app EXCEPT !.probed = TRUE, !.group = group]
           changed == seen.agent # task.agent \/ action = "ReportReplacementProcess"
           started == changed /\ seen.agent # None
           ev == Event("start", seen.agent, "Idle")
<1>1. /\ pc = "probe" /\ round \in Rounds /\ ~round.changed
      /\ release' \in {release, None}
      /\ task' = IF ~changed THEN seen
                 ELSE [seen EXCEPT !.held = None, !.grace = started,
                                   !.shown = IF started THEN Shown("Idle", TRUE) ELSE @]
      /\ stale' = (stale \/ changed)
      /\ pc' = IF started THEN "send" ELSE "decide"
      /\ round' = [round EXCEPT !.changed = changed, !.then = "decide", !.event = ev]
      /\ UNCHANGED <<queue, reset, plainReads>>
      /\ UNCHANGED <<setup, job, group, screen, jobs>> /\ UNCHANGED <<told, authority, requests>>
  BY DEF Probe, paneVars, appVars, RoundOK
<1>2. task \in Tasks /\ group \in 0 .. setup.jobs /\ new \in Agents \cup {None}
      /\ task.agent \in Agents \cup {None} /\ release \in Agents \cup {None}
  BY TypeFacts
<1>3. /\ app \in Tasks /\ app.held = task.held /\ app.shown = task.shown
      /\ task.exitTold => ~app.exitTold /\ (app.agent # task.agent \/ app.agent = None
                                            \/ action = "ReportReplacementProcess")
      /\ ~task.exitTold => ~app.exitTold
  BY <1>2, ApplyFacts
<1> HIDE DEF new, action, app
<1>4. /\ seen \in Tasks /\ seen.held = task.held /\ seen.shown = task.shown
      /\ seen.agent = app.agent /\ ~seen.exitTold /\ seen.agent \in Agents \cup {None}
  BY <1>2, <1>3 DEF Tasks
<1> HIDE DEF seen
<1>5. changed \in BOOLEAN /\ started \in BOOLEAN
  OBVIOUS
<1>6. ev \in Events /\ ev.kind = "start"
  BY <1>4 DEF Event, Events, States
<1>7. /\ task' \in Tasks /\ task'.agent = seen.agent /\ ~task'.exitTold
      /\ task'.held # None => task.held # None
      /\ started => task'.shown = Shown("Idle", TRUE)
  <2>1. CASE ~changed
    BY <1>1, <1>4, <2>1
  <2>2. CASE started
    <3>1. task' = [seen EXCEPT !.held = None, !.grace = TRUE, !.shown = Shown("Idle", TRUE)]
      BY <1>1, <2>2
    <3>2. Shown("Idle", TRUE) \in [state : States, visible : BOOLEAN]
      BY DEF Shown, States
    <3> QED
      BY <1>4, <3>1, <3>2 DEF Tasks
  <2>3. CASE changed /\ ~started
    <3>1. task' = [seen EXCEPT !.held = None, !.grace = FALSE]
      BY <1>1, <1>4, <2>3 DEF Tasks
    <3> QED
      BY <1>4, <2>3, <3>1 DEF Tasks
  <2> QED
    BY <2>1, <2>2, <2>3
<1>8. /\ round' \in Rounds /\ round'.changed = changed /\ round'.then = "decide"
      /\ round'.event = ev
  BY <1>1, <1>5, <1>6 DEF Rounds
<1> HIDE DEF ev
<1>9. stale' \in BOOLEAN /\ pc' \in {"send", "decide"} /\ (pc' = "send" <=> started)
  BY <1>1
<1>10. TypeOK'
  BY <1>1, <1>2, <1>7, <1>8, <1>9 DEF TypeOK, Tasks
<1>11. BoundsOK' /\ RoundOK'
  BY <1>1, <1>6, <1>8, <1>9 DEF BoundsOK, RoundOK, Rounds, Events
<1>12. Chain'
  BY <1>1, <1>6, <1>8 DEF Chain, LastSent, Follows
<1>13. ExitOK'
  <2>1. LastSaid'.kind = "exit" => task'.agent = None
    <3>1. CASE started
      BY <1>6, <1>8, <1>9, <3>1 DEF LastSaid
    <3>2. CASE ~started
      <4>1. LastSaid' = LastSaid
        BY <1>1, <1>9, <3>2 DEF LastSaid, LastSent
      <4>2. LastSaid.kind = "exit" => task.agent = None \/ task.exitTold
        BY <1>1 DEF ExitOK
      <4>3. task.agent = None => seen.agent = None
        BY <3>2
      <4>4. task.exitTold => seen.agent = None
        BY <1>3, <1>4, <3>2
      <4> QED
        BY <1>7, <4>1, <4>2, <4>3, <4>4
    <3> QED
      BY <3>1, <3>2
  <2> QED
    BY <1>1, <1>7, <2>1 DEF ExitOK
<1>14. HoldOK'
  BY <1>1, <1>7, <1>8, <1>9 DEF HoldOK
<1> QED
  BY <1>10, <1>11, <1>12, <1>13, <1>14

\* The event goes to the end of the channel.
LEMMA SendStep ==
    ASSUME IInv, Send
    PROVE  IInv'
<1> USE DEF IInv
<1> DEFINE e == round.event
<1>1. /\ pc = "send" /\ Len(queue) < Capacity /\ queue' = Append(queue, e) /\ pc' = round.then
      /\ UNCHANGED <<task, round, release, reset, stale, plainReads>>
      /\ UNCHANGED <<setup, job, group, screen, jobs>> /\ UNCHANGED <<told, authority, requests>>
  BY DEF Send, paneVars, appVars
<1>2. round \in Rounds /\ e \in Events /\ pc' \in {"decide", "sleep"}
  BY <1>1 DEF RoundOK
<1>3. queue \in Seq(Events) /\ Len(queue) \in Nat
  BY TypeFacts
<1> HIDE DEF e
<1>4. /\ queue' \in Seq(Events) /\ Len(queue') = Len(queue) + 1
      /\ \A i \in 1 .. Len(queue) : queue'[i] = queue[i]
      /\ queue'[Len(queue) + 1] = e
  BY <1>1, <1>2, <1>3, AppendProperties
<1>5. queue' # <<>> /\ (queue = <<>> <=> Len(queue) = 0)
  BY <1>3, <1>4, EmptySeq
<1>6. TypeOK'
  <2>1. Len(queue') <= Capacity
    BY <1>1, <1>3, <1>4, Numbers
  <2> QED
    BY <1>1, <1>2, <1>4, <2>1 DEF TypeOK
<1>7. BoundsOK' /\ RoundOK'
  BY <1>1, <1>2 DEF BoundsOK, RoundOK
<1>8. LastSent' = e
  BY <1>4, <1>5 DEF LastSent
<1>9. Chain'
  <2>1. Follows(LastSent, e)
    BY <1>1 DEF Chain, e
  <2>2. Follows(told', queue'[1])
    <3>1. CASE queue = <<>>
      BY <1>1, <1>4, <1>5, <2>1, <3>1 DEF LastSent
    <3>2. CASE queue # <<>>
      BY <1>1, <1>3, <1>4, <1>5, <3>2 DEF Chain
    <3> QED
      BY <3>1, <3>2
  <2>3. ASSUME NEW i \in 1 .. Len(queue') - 1 PROVE Follows(queue'[i], queue'[i + 1])
    <3>1. i \in 1 .. Len(queue)
      BY <1>3, <1>4
    <3>2. CASE i = Len(queue)
      BY <1>3, <1>4, <1>5, <2>1, <3>1, <3>2 DEF LastSent
    <3>3. CASE i # Len(queue)
      <4>1. i \in 1 .. Len(queue) - 1 /\ i + 1 \in 1 .. Len(queue)
        BY <1>3, <3>1, <3>3
      <4> QED
        BY <1>4, <3>1, <4>1 DEF Chain
    <3> QED
      BY <3>2, <3>3
  <2> QED
    BY <1>2, <2>2, <2>3 DEF Chain, Follows
<1>10. ExitOK'
  <2>1. LastSaid' = LastSaid
    BY <1>1, <1>2, <1>8 DEF LastSaid, e
  <2> QED
    BY <1>1, <1>2, <2>1 DEF ExitOK
<1>11. HoldOK'
  BY <1>1, <1>2 DEF HoldOK
<1> QED
  BY <1>6, <1>7, <1>9, <1>10, <1>11

\* The early returns of a round.
LEMMA DecideStep ==
    ASSUME IInv, NEW graceOver \in BOOLEAN, Decide(graceOver)
    PROVE  IInv'
<1> USE DEF IInv
<1> DEFINE calm == [task EXCEPT !.held = None]
<1>1. /\ pc = "decide" /\ UNCHANGED <<round, queue, release, reset, plainReads>>
      /\ UNCHANGED <<setup, job, group, screen, jobs>> /\ UNCHANGED <<told, authority, requests>>
  BY DEF Decide, Decided, paneVars, appVars
<1>2. task \in Tasks /\ stale \in BOOLEAN /\ setup.main \in BOOLEAN
  BY TypeFacts, DetectionAssumption DEF TypeOK
<1>3. /\ pc' \in {"sleep", "read"} /\ stale' \in BOOLEAN
      /\ \/ task' = task \/ task' = calm
         \/ \E b \in BOOLEAN : task' = [calm EXCEPT !.grace = b]
  BY <1>2 DEF Decide, Decided
<1>4. /\ task' \in Tasks /\ task'.agent = task.agent /\ task'.exitTold = task.exitTold
      /\ task'.clearing = task.clearing /\ task'.shown = task.shown
      /\ task'.held \in {task.held, None}
  BY <1>2, <1>3 DEF Tasks
<1>5. TypeOK'
  BY <1>1, <1>3, <1>4 DEF TypeOK, Tasks
<1>6. BoundsOK' /\ RoundOK'
  BY <1>1, <1>3 DEF BoundsOK, RoundOK
<1>7. Chain' /\ LastSaid' = LastSaid
  BY <1>1, <1>3, QuietStep
<1>8. ExitOK'
  BY <1>1, <1>4, <1>7 DEF ExitOK
<1>9. HoldOK'
  BY <1>1, <1>3, <1>4 DEF HoldOK
<1> QED
  BY <1>5, <1>6, <1>7, <1>8, <1>9

\* The screen is read: for an agent whose exit was published it is not.
LEMMA ReadStep ==
    ASSUME IInv, NEW capped \in BOOLEAN, NEW refresh \in BOOLEAN, Read(capped, refresh)
    PROVE  IInv'
<1> USE DEF IInv
<1>1. /\ pc = "read" /\ UNCHANGED <<queue, release, reset, stale>>
      /\ UNCHANGED <<setup, job, group, screen, jobs>> /\ UNCHANGED <<told, authority, requests>>
  BY DEF Read, paneVars, appVars
<1>2. /\ task \in Tasks /\ round \in Rounds /\ plainReads \in 0 .. 2
      /\ task.agent \in Agents \cup {None} /\ task.exitTold \in BOOLEAN
  BY <1>1, TypeFacts DEF RoundOK, TypeOK
<1>3. LastSaid.kind = "exit" => task.agent = None
  BY <1>1 DEF ExitOK
<1>4. CASE Skips(screen)
  <2>1. task' = [task EXCEPT !.held = None] /\ pc' = "sleep" /\ UNCHANGED <<round, plainReads>>
    BY <1>4 DEF Read
  <2>2. /\ task' \in Tasks /\ task'.agent = task.agent /\ task'.exitTold = task.exitTold
        /\ task'.clearing = task.clearing /\ task'.held = None
    BY <1>2, <2>1 DEF Tasks
  <2>3. TypeOK'
    BY <1>1, <2>1, <2>2 DEF TypeOK, Tasks
  <2>4. BoundsOK' /\ RoundOK' /\ HoldOK'
    BY <1>1, <2>1, <2>2 DEF BoundsOK, RoundOK, HoldOK
  <2>5. Chain' /\ LastSaid' = LastSaid
    BY <1>1, <2>1, QuietStep
  <2>6. ExitOK'
    BY <1>1, <1>3, <2>1, <2>2, <2>5 DEF ExitOK
  <2> QED
    BY <2>3, <2>4, <2>5, <2>6
<1>5. CASE ~Skips(screen)
  <2> DEFINE next == Detect(screen)
             h == Hold(next, capped)
             publish == ~h.hold /\ Publishes(next, refresh)
             ev == Event(IF Exited THEN "exit" ELSE "screen", task.agent, next.state)
  <2>1. /\ task' = [task EXCEPT !.held = h.held,
                       !.shown = IF publish THEN next ELSE @,
                       !.exitTold = @ \/ (publish /\ Exited)]
        /\ pc' = IF publish THEN "send" ELSE "sleep"
        /\ round' = [round EXCEPT !.then = "sleep", !.event = ev]
        /\ plainReads' = IF next # Shown("Idle", FALSE) THEN 0
                         ELSE IF plainReads = 2 THEN 2 ELSE plainReads + 1
    BY <1>5 DEF Read
  <2>2. /\ next \in [state : States, visible : BOOLEAN]
        /\ h.held \in (0 .. Confirmations - 1) \cup {None}
        /\ h.held # None => next = Shown("Idle", FALSE)
    BY <1>1, <1>5, DetectFacts, HoldFacts
  <2> HIDE DEF next, h
  <2>3. /\ ev \in Events /\ ev.agent = task.agent
        /\ ev.kind = "exit" <=> Exited
    <3>1. next.state \in States
      BY <2>2
    <3> QED
      BY <1>2, <3>1 DEF Event, Events
  <2> HIDE DEF ev
  <2>4. publish \in BOOLEAN /\ (publish /\ Exited) \in BOOLEAN
    OBVIOUS
  <2> HIDE DEF publish
  <2>5. /\ task' \in Tasks /\ task'.agent = task.agent /\ task'.clearing = task.clearing
        /\ task'.held = h.held /\ task'.exitTold = (task.exitTold \/ (publish /\ Exited))
    <3>1. \A f \in (0 .. Confirmations - 1) \cup {None}, x \in [state : States, visible : BOOLEAN],
             b \in BOOLEAN :
             [task EXCEPT !.held = f, !.shown = x, !.exitTold = b] \in Tasks
      BY <1>2 DEF Tasks
    <3>2. task.shown \in [state : States, visible : BOOLEAN]
      BY TypeFacts
    <3>3. (IF publish THEN next ELSE task.shown) \in [state : States, visible : BOOLEAN]
      BY <2>2, <3>2
    <3>4. (task.exitTold \/ (publish /\ Exited)) \in BOOLEAN
      OBVIOUS
    <3>5. task' = [task EXCEPT !.held = h.held, !.shown = IF publish THEN next ELSE task.shown,
                               !.exitTold = task.exitTold \/ (publish /\ Exited)]
      BY <2>1
    <3>6. task' \in Tasks
      BY <2>2, <3>1, <3>3, <3>4, <3>5
    <3> QED
      BY <1>2, <3>5, <3>6 DEF Tasks
  <2>6. /\ round' \in Rounds /\ round'.then = "sleep" /\ round'.event = ev
        /\ round'.changed = round.changed
    BY <1>2, <2>1, <2>3 DEF Rounds
  <2>7. /\ plainReads' \in 0 .. 2
        /\ next = Shown("Idle", FALSE) => plainReads' \in {1, 2}
    <3>1. plainReads \in {0, 1, 2}
      BY <1>2
    <3>2. CASE next # Shown("Idle", FALSE)
      <4>1. plainReads' = 0
        BY <2>1, <3>2
      <4>2. plainReads' \in 0 .. 2
        BY <4>1
      <4> QED
        BY <3>2, <4>2
    <3>3. CASE next = Shown("Idle", FALSE) /\ plainReads = 2
      <4>1. plainReads' = 2
        BY <2>1, <3>3
      <4> QED
        BY <4>1
    <3>4. CASE next = Shown("Idle", FALSE) /\ plainReads \in {0, 1}
      <4>1. plainReads' = plainReads + 1
        BY <2>1, <3>4
      <4> QED
        BY <3>4, <4>1
    <3> QED
      BY <3>1, <3>2, <3>3, <3>4
  <2>8. /\ pc' \in {"send", "sleep"} /\ (pc' = "send" <=> publish)
    BY <2>1
  <2>9. TypeOK'
    BY <1>1, <2>5, <2>6, <2>7, <2>8 DEF TypeOK, Tasks
  <2>10. BoundsOK' /\ RoundOK'
    BY <1>1, <2>3, <2>6, <2>8 DEF BoundsOK, RoundOK, Rounds, Events, States
  <2>11. HoldOK'
    BY <2>2, <2>5, <2>6, <2>7, <2>8 DEF HoldOK
  <2>12. LastSent' = LastSent /\ LastSent = LastSaid
    BY <1>1 DEF LastSent, LastSaid
  <2>13. Chain'
    <3>1. Follows(LastSent, ev)
      BY <1>3, <2>3, <2>12 DEF Follows
    <3> QED
      BY <1>1, <2>6, <2>12, <3>1 DEF Chain, Follows
  <2>14. ExitOK'
    <3>1. CASE publish
      <4>1. LastSaid' = ev /\ pc' = "send" /\ round'.then = "sleep"
        BY <2>6, <2>8, <3>1 DEF LastSaid
      <4>2. Exited => task'.exitTold
        BY <2>5, <3>1
      <4>3. task'.exitTold => task'.clearing
        BY <2>5 DEF ExitOK, Exited
      <4> QED
        BY <1>1, <2>3, <4>1, <4>2, <4>3 DEF ExitOK
    <3>2. CASE ~publish
      <4>1. LastSaid' = LastSaid /\ task'.exitTold = task.exitTold
        BY <1>2, <2>5, <2>8, <2>12, <3>2 DEF LastSaid
      <4> QED
        BY <1>1, <1>3, <2>5, <4>1 DEF ExitOK
    <3> QED
      BY <3>1, <3>2
  <2> QED
    BY <2>9, <2>10, <2>11, <2>13, <2>14
<1> QED
  BY <1>4, <1>5

-----------------------------------------------------------------------------
(* The pane and the reducer.                                               *)

\* A step that leaves the loop and the channel alone and keeps the types.
LEMMA OutsideStep ==
    ASSUME IInv, UNCHANGED <<task, pc, round, queue, plainReads, told>>, TypeOK', BoundsOK',
           told.kind = "exit" => authority' = None
    PROVE  IInv'
<1> USE DEF IInv
<1>1. RoundOK' /\ HoldOK'
  BY DEF RoundOK, HoldOK
<1>2. LastSent' = LastSent /\ LastSaid' = LastSaid
  BY DEF LastSent, LastSaid
<1>3. Chain'
  BY <1>2 DEF Chain, Follows
<1>4. ExitOK'
  BY <1>2 DEF ExitOK
<1> QED
  BY <1>1, <1>3, <1>4

\* The job and the screen change as they like.
LEMMA PaneStep ==
    ASSUME IInv,
           \/ \E j \in setup.agents \cup {"shell", "other"} : JobChanges(j)
           \/ \E s \in setup.screens : Output(s)
           \/ ReleaseExpires
    PROVE  IInv'
<1> USE DEF IInv
<1>1. ASSUME NEW j \in setup.agents \cup {"shell", "other"}, JobChanges(j) PROVE IInv'
  <2>1. /\ jobs < setup.jobs /\ job' = j /\ jobs' = jobs + 1 /\ group' \in {0, jobs + 1}
        /\ UNCHANGED <<setup, screen>>
        /\ UNCHANGED <<task, pc, round, queue, release, reset, stale, plainReads>>
        /\ UNCHANGED <<told, authority, requests>>
    BY <1>1 DEF JobChanges, taskVars, appVars
  <2>2. setup \in Setups /\ setup.jobs \in Nat /\ setup.agents \subseteq Agents
    BY DetectionAssumption DEF BoundsOK
  <2>3. jobs + 1 \in 0 .. setup.jobs /\ 0 \in 0 .. setup.jobs
    BY <2>1, <2>2 DEF BoundsOK
  <2>4. TypeOK'
    BY <2>1, <2>2, <2>3 DEF TypeOK
  <2>5. BoundsOK'
    BY <2>1, <2>3 DEF BoundsOK
  <2> QED
    BY <2>1, <2>4, <2>5, OutsideStep DEF ExitOK
<1>2. ASSUME NEW s \in setup.screens, Output(s) PROVE IInv'
  <2>1. /\ screen' = s /\ stale' = TRUE
        /\ UNCHANGED <<setup, task, pc, round, queue, release, reset, plainReads, job, group, jobs>>
        /\ UNCHANGED <<told, authority, requests>>
    BY <1>2 DEF Output, appVars
  <2>2. TypeOK' /\ BoundsOK'
    BY <2>1 DEF TypeOK, BoundsOK
  <2> QED
    BY <2>1, <2>2, OutsideStep DEF ExitOK
<1>3. CASE ReleaseExpires
  <2>1. /\ release' = None /\ UNCHANGED <<task, pc, round, queue, reset, stale, plainReads>>
        /\ UNCHANGED <<setup, job, group, screen, jobs>> /\ UNCHANGED <<told, authority, requests>>
    BY <1>3 DEF ReleaseExpires, paneVars, appVars
  <2>2. TypeOK' /\ BoundsOK'
    BY <2>1 DEF TypeOK, BoundsOK
  <2> QED
    BY <2>1, <2>2, OutsideStep DEF ExitOK
<1> QED
  BY <1>1, <1>2, <1>3

\* The reducer's own requests.
LEMMA RequestStep ==
    ASSUME IInv, HookReports \/ HookCleared \/ HookReleased \/ ManifestsUpdated
    PROVE  IInv'
<1> USE DEF IInv
<1>1. /\ UNCHANGED <<task, pc, round, queue, stale, plainReads, told>>
      /\ UNCHANGED <<setup, job, group, screen, jobs>> /\ requests' = requests + 1
      /\ release' \in {release, told.agent} /\ authority' \in {authority, None, told.agent}
      /\ reset' \in {reset, TRUE}
      /\ told.kind = "exit" => authority' \in {authority, None}
  BY DEF HookReports, HookCleared, HookReleased, ManifestsUpdated, Request, taskVars, paneVars
<1>2. told.agent \in Agents \cup {None}
  BY TypeFacts DEF Events
<1>3. TypeOK'
  <2>1. release' \in Agents \cup {None} /\ authority' \in Agents \cup {None} /\ reset' \in BOOLEAN
    BY <1>1, <1>2, TypeFacts DEF TypeOK
  <2> QED
    BY <1>1, <2>1 DEF TypeOK
<1>4. BoundsOK'
  BY <1>1 DEF BoundsOK
<1>5. told.kind = "exit" => authority' = None
  BY <1>1 DEF ExitOK
<1> QED
  BY <1>1, <1>3, <1>4, <1>5, OutsideStep

\* The reducer takes an event: what it ignores is nothing that an exit needs.
LEMMA TakeStep ==
    ASSUME IInv, TakeEvent
    PROVE  IInv'
<1> USE DEF IInv
<1> DEFINE e == Head(queue)
<1>1. /\ queue # <<>> /\ queue' = Tail(queue)
      /\ UNCHANGED <<task, pc, round, release, reset, stale, plainReads, requests>>
      /\ UNCHANGED <<setup, job, group, screen, jobs>>
      /\ \/ told' = told /\ authority' = authority /\ authority # None
         \/ told' = e /\ authority' = None
  BY DEF TakeEvent, paneVars
<1>2. queue \in Seq(Events) /\ Len(queue) \in Nat /\ Len(queue) > 0
  BY <1>1, TypeFacts, EmptySeq
<1>3. /\ queue' \in Seq(Events) /\ Len(queue') = Len(queue) - 1
      /\ \A i \in 1 .. Len(queue) - 1 : queue'[i] = queue[i + 1]
      /\ e \in Events /\ e = queue[1]
  BY <1>1, <1>2, HeadTailProperties
<1> HIDE DEF e
<1>4. Len(queue') \in Nat /\ (queue' = <<>> <=> Len(queue) = 1)
  BY <1>2, <1>3, EmptySeq
<1>5. TypeOK'
  <2>1. Len(queue') <= Capacity
    BY <1>2, <1>3, Numbers DEF TypeOK
  <2> QED
    BY <1>1, <1>3, <2>1 DEF TypeOK
<1>6. BoundsOK' /\ RoundOK' /\ HoldOK'
  BY <1>1 DEF BoundsOK, RoundOK, HoldOK
<1>7. told'.kind = "exit" => authority' = None
  BY <1>1 DEF ExitOK
<1>8. queue' # <<>> => Follows(told', queue'[1])
  <2>1. SUFFICES ASSUME queue' # <<>> PROVE Follows(told', queue'[1])
    OBVIOUS
  <2>2. 1 \in 1 .. Len(queue) - 1 /\ queue'[1] = queue[1 + 1]
    BY <1>2, <1>3, <1>4, <2>1
  <2>3. CASE told' = e
    BY <1>3, <2>2, <2>3 DEF Chain
  <2>4. CASE told' = told /\ authority # None
    BY <2>4 DEF ExitOK, Follows
  <2> QED
    BY <1>1, <2>3, <2>4
<1>9. ASSUME NEW i \in 1 .. Len(queue') - 1 PROVE Follows(queue'[i], queue'[i + 1])
  <2>1. i \in 1 .. Len(queue) - 1 /\ i + 1 \in 1 .. Len(queue) - 1
    BY <1>2, <1>3
  <2>2. queue'[i] = queue[i + 1] /\ queue'[i + 1] = queue[(i + 1) + 1]
    BY <1>3, <2>1
  <2> QED
    BY <2>1, <2>2 DEF Chain
\* Either what was sent last is the same, or it was ignored and no exit is open.
<1>10. LastSent' = LastSent \/ LastSent'.kind # "exit"
  <2>1. CASE queue' # <<>>
    <3>1. Len(queue) - 1 \in 1 .. Len(queue) - 1
      BY <1>2, <1>4, <2>1
    <3>2. queue'[Len(queue')] = queue[(Len(queue) - 1) + 1]
      BY <1>3, <3>1
    <3>3. (Len(queue) - 1) + 1 = Len(queue)
      BY <1>2
    <3> QED
      BY <1>1, <2>1, <3>2, <3>3 DEF LastSent
  <2>2. CASE queue' = <<>>
    <3>1. LastSent' = told' /\ LastSent = e
      BY <1>1, <1>3, <1>4, <2>2 DEF LastSent
    <3> QED
      BY <1>1, <3>1 DEF ExitOK
  <2> QED
    BY <2>1, <2>2
<1>11. Chain'
  BY <1>1, <1>8, <1>9, <1>10 DEF Chain, Follows
<1>12. ExitOK'
  BY <1>1, <1>7, <1>10 DEF ExitOK, LastSaid
<1> QED
  BY <1>5, <1>6, <1>11, <1>12

-----------------------------------------------------------------------------
(* The theorems.                                                           *)

LEMMA InitIInv == Init => IInv
<1> SUFFICES ASSUME Init PROVE IInv
  OBVIOUS
<1>1. setup.jobs \in Nat /\ setup \in Setups
  BY DetectionAssumption DEF Init
<1>2. task \in Tasks /\ task.held = None /\ ~task.exitTold
  <2>1. CASE setup.main
    BY <2>1, BlankFacts DEF Init, States
  <2>2. CASE ~setup.main
    BY <2>2, BlankFacts DEF Init, States
  <2> QED
    BY <2>1, <2>2
<1>3. told \in Events /\ told.kind = "screen" /\ queue \in Seq(Events) /\ Len(queue) = 0
  BY DEF Init, Event, Events, States
<1>4. TypeOK
  <2>1. job \in Agents \cup {"shell", "other"} /\ group \in 0 .. setup.jobs /\ screen \in setup.screens
    BY <1>1 DEF Init
  <2>2. plainReads \in 0 .. 2 /\ Len(queue) <= Capacity
    BY <1>3, Numbers DEF Init
  <2> QED
    BY <1>2, <1>3, <2>1, <2>2 DEF Init, TypeOK, Tasks
<1>5. BoundsOK /\ RoundOK /\ HoldOK
  BY <1>1, <1>2 DEF Init, BoundsOK, RoundOK, HoldOK
<1>6. Chain
  BY <1>3 DEF Init, Chain
<1>7. ExitOK
  BY <1>2, <1>3 DEF Init, ExitOK, LastSaid, LastSent
<1> QED
  BY <1>4, <1>5, <1>6, <1>7 DEF IInv

\* Every step keeps the invariant.
LEMMA NextIInv == IInv /\ [Next]_vars => IInv'
<1> SUFFICES ASSUME IInv, [Next]_vars PROVE IInv'
  OBVIOUS
<1>1. CASE Round
  BY <1>1, WakeStep, LookStep, ProbeStep, SendStep, DecideStep, ReadStep DEF Round
<1>2. CASE Next /\ ~Round
  BY <1>2, PaneStep, TakeStep, RequestStep DEF Next
<1>3. CASE UNCHANGED vars
  <2>1. TypeOK' /\ BoundsOK'
    BY <1>3 DEF vars, IInv, TypeOK, BoundsOK
  <2> QED
    BY <1>3, <2>1, OutsideStep DEF vars, IInv, ExitOK
<1> QED
  BY <1>1, <1>2, <1>3

\* The inductive invariant holds of every behaviour.
THEOREM Invariance == Spec => []IInv
  BY InitIInv, NextIInv, PTL DEF Spec

\* After a published exit the next word is a start or that the agent has gone,
\* for any agents, channel and interleaving (foreground_shell_agent_action).
THEOREM NoGhostOfAnExit == Spec => []Consistent
<1>1. IInv => Consistent
  <2> SUFFICES ASSUME IInv PROVE NoGhost
    BY DEF IInv, Consistent
  <2> DEFINE said == <<told>> \o queue
  <2>1. queue \in Seq(Events) /\ Len(queue) \in Nat /\ told \in Events
    BY TypeFacts
  <2>2. <<told>> \in Seq(Events) /\ Len(<<told>>) = 1 /\ <<told>>[1] = told
    BY <2>1
  <2>3. /\ Len(said) = 1 + Len(queue)
        /\ \A i \in 1 .. 1 + Len(queue) : said[i] = IF i <= 1 THEN <<told>>[i] ELSE queue[i - 1]
    BY <2>1, <2>2, ConcatProperties
  <2> HIDE DEF said
  <2>4. ASSUME NEW i \in 1 .. Len(said) - 1 PROVE Follows(said[i], said[i + 1])
    <3>1. i \in 1 .. Len(queue) /\ i + 1 \in 1 .. 1 + Len(queue)
      BY <2>1, <2>3
    <3>2. said[i + 1] = queue[i]
      <4>1. (i + 1) - 1 = i /\ ~(i + 1 <= 1)
        BY <3>1
      <4> QED
        BY <2>3, <3>1, <4>1
    <3>3. CASE i = 1
      <4>1. said[i] = told
        BY <2>2, <2>3, <3>1, <3>3
      <4>2. queue # <<>>
        BY <2>1, <3>1, EmptySeq
      <4> QED
        BY <3>2, <3>3, <4>1, <4>2 DEF IInv, Chain
    <3>4. CASE i # 1
      <4>1. said[i] = queue[i - 1] /\ i - 1 \in 1 .. Len(queue) - 1 /\ (i - 1) + 1 = i
        BY <2>1, <2>3, <3>1, <3>4
      <4> QED
        BY <3>2, <4>1 DEF IInv, Chain
    <3> QED
      BY <3>3, <3>4
  <2> QED
    BY <2>4 DEF NoGhost, Follows, said
<1> QED
  BY <1>1, Invariance, PTL

\* A working agent becomes idle for lack of any sign only after a second look,
\* whatever comes between the two (should_hold_working_to_idle).
THEOREM SecondLook == Spec => NoFlicker
<1> DEFINE A == task.shown.state = "Working" /\ task'.shown = Shown("Idle", FALSE) => plainReads' = 2
<1>1. IInv /\ [Next]_vars => [A]_vars
  <2> SUFFICES ASSUME IInv, Next, task.shown.state = "Working", task'.shown = Shown("Idle", FALSE)
               PROVE  plainReads' = 2
    OBVIOUS
  <2>1. task.shown # task'.shown
    BY DEF Shown
  <2>2. ASSUME NEW capped \in BOOLEAN, NEW refresh \in BOOLEAN, Read(capped, refresh)
        PROVE  plainReads' = 2
    <3> DEFINE next == Detect(screen)
               h == Hold(next, capped)
               publish == ~h.hold /\ Publishes(next, refresh)
    <3>1. task \in Tasks /\ pc = "read"
      BY <2>2, TypeFacts DEF Read
    <3>2. ~Skips(screen)
      <4>1. Skips(screen) => task'.shown = task.shown
        BY <2>2, <3>1 DEF Read, Tasks
      <4> QED
        BY <2>1, <4>1
    <3>3. task'.shown = IF publish THEN next ELSE task.shown
      <4>1. \E x, y : task' = [task EXCEPT !.held = x, !.shown = IF publish THEN next ELSE @,
                                           !.exitTold = y]
        BY <2>2, <3>2 DEF Read
      <4> HIDE DEF publish, next
      <4> QED
        BY <3>1, <4>1 DEF Tasks
    <3>4. ~h.hold /\ next = Shown("Idle", FALSE)
      BY <2>1, <3>3
    <3>5. plainReads' = IF plainReads = 2 THEN 2 ELSE plainReads + 1
      BY <2>2, <3>2, <3>4 DEF Read
    <3>6. task.agent # None /\ ~Exited
      BY <3>2, <3>4, DetectFacts
    <3>7. round.changed \/ task.held # None
      BY <3>1, <3>4, <3>6, HoldFacts
    <3>8. ~round.changed
      BY <3>1, <3>6 DEF IInv, HoldOK, Shown
    <3>9. plainReads \in {1, 2}
      BY <3>7, <3>8 DEF IInv, HoldOK
    <3> QED
      BY <3>5, <3>9
  <2>3. ASSUME NEW b \in BOOLEAN, Decide(b) PROVE FALSE
    <3>1. task \in Tasks
      BY TypeFacts
    <3>2. \/ task' = task
          \/ task' = [task EXCEPT !.held = None]
          \/ \E x : task' = [[task EXCEPT !.held = None] EXCEPT !.grace = x]
      BY <2>3 DEF Decide, Decided
    <3> QED
      BY <2>1, <3>1, <3>2 DEF Tasks
  <2>4. ASSUME NEW b \in BOOLEAN, Look(b) PROVE FALSE
    BY <2>1, <2>4, TypeFacts DEF Look, AfterRelease, Tasks
  <2>5. CASE Reset
    BY <2>5 DEF Reset, Blank, Shown
  <2>6. CASE Probe
    <3> DEFINE found == IF job \in Agents THEN job ELSE None
               new == IF found = round.suppressed THEN None ELSE found
               action == ShellAction(task, new)
               app == Apply(task, action, new)
               seen == [app EXCEPT !.probed = TRUE, !.group = group]
               changed == seen.agent # task.agent \/ action = "ReportReplacementProcess"
               started == changed /\ seen.agent # None
    <3>1. task' = IF ~changed THEN seen
                  ELSE [seen EXCEPT !.held = None, !.grace = started,
                                    !.shown = IF started THEN Shown("Idle", TRUE) ELSE @]
      BY <2>6 DEF Probe
    <3>2. task \in Tasks /\ new \in Agents \cup {None} /\ group \in 0 .. setup.jobs
      BY TypeFacts
    <3>3. app \in Tasks /\ app.shown = task.shown
      BY <3>2, ApplyFacts
    <3> HIDE DEF new, action, app
    <3>4. seen \in Tasks /\ seen.shown = task.shown
      BY <3>2, <3>3 DEF Tasks
    <3> HIDE DEF seen, changed, started
    <3>5. task'.shown \in {task.shown, Shown("Idle", TRUE)}
      BY <3>1, <3>4 DEF Tasks
    <3> QED
      BY <2>1, <3>5 DEF Shown
  <2>7. CASE ~Round \/ Sleep \/ Send
    <3>1. task' = task
      BY <2>7 DEF Next, Round, Sleep, Send, JobChanges, Output, ReleaseExpires, TakeEvent, HookReports,
             HookCleared, HookReleased, ManifestsUpdated, taskVars
    <3> QED
      BY <2>1, <3>1
  <2> QED
    BY <2>2, <2>3, <2>4, <2>5, <2>6, <2>7 DEF Round
<1> QED
  BY <1>1, Invariance, PTL DEF Spec, NoFlicker
=============================================================================
