---------------------------- MODULE DetectionTask ----------------------------
(***************************************************************************)
(* The task that finds out which agent runs in a pane and what it does     *)
(* (src/pane.rs, src/pane/agent_detection.rs), with the part of the        *)
(* reducer that hears from it.  A round of its loop looks at the           *)
(* foreground process group, asks for the foreground job when that is due, *)
(* reads the screen and publishes what has changed.  The process, the      *)
(* screen and the reducer move between the steps of a round.               *)
(*                                                                         *)
(* Time is a choice: a recheck may be due or not, the startup grace and    *)
(* the release's suppression may end at any step; the repeated probes of   *)
(* the acquisition window may come, and nothing relies on them.  The       *)
(* child's pid is known and the kernel tells the foreground group.  Two    *)
(* tasks have this loop, the one of a pane that was spawned (main) and     *)
(* that of a pane that was handed over.                                    *)
(***************************************************************************)
EXTENDS Naturals, Sequences

CONSTANTS
    Agents,         \* agents that a probe identifies
    None,
    Misses,         \* AGENT_MISS_CONFIRMATION_ATTEMPTS
    Confirmations,  \* AGENT_PENDING_IDLE_CONFIRMATIONS
    Capacity,       \* of the reducer's channel
    Setups          \* the panes that are looked at

ASSUME DetectionAssumption ==
    /\ None \notin Agents \cup {"shell", "other"}
    /\ {Misses, Confirmations, Capacity} \subseteq Nat \ {0}
    /\ \A s \in Setups :
          /\ s.main \in BOOLEAN      \* the loop of spawn_command_builder,
                                    \*   not spawn_basic_detection_task
          /\ s.agents \subseteq Agents
          /\ s.screens \subseteq {"idle", "plain", "working", "blocked", "skip"}
                                    \* what the screen may show: see Detect
          /\ s.requests \subseteq {"authority", "release", "reset"}
                                    \* what the reducer may do: see Next
          /\ {s.jobs,               \* bound: changes of the foreground job
              s.calls} \subseteq Nat \* bound: of those requests

VARIABLES
    setup,          \* the pane, one of Setups
    task,           \* the loop's variables
    pc,             \* the next step of the round
    round,          \* the round's variables
    queue,          \* the reducer's channel
    release,        \* pending_release
    reset,          \* a permit of detect_reset_notify
    stale,          \* bytes have come since the screen was last scanned:
                    \*   detection_content_seq # last_screen_scan_detection_content_seq
    \* the pane
    job, group, screen,
    \* the reducer
    told,           \* the last event it took
    authority,      \* the agent with a live full lifecycle authority
    \* bounds and history
    jobs, requests,
    plainReads      \* the scans in succession that showed no sign of work

vars == <<setup, task, pc, round, queue, release, reset, stale, job, group, screen,
          told, authority, jobs, requests, plainReads>>

taskVars == <<task, pc, round, queue, release, reset, stale, plainReads>>
paneVars == <<setup, job, group, screen, jobs>>
appVars == <<told, authority, requests>>

Shown(state, visible) == [state |-> state, visible |-> visible]

\* The loop's variables at its start and after a reset.
Blank(state) ==
    [agent |-> None, misses |-> 0, shown |-> Shown(state, FALSE), probed |-> FALSE,
     group |-> None, clearing |-> FALSE, exitTold |-> FALSE, releaseSeen |-> FALSE,
     grace |-> FALSE, held |-> None]

Event(kind, agent, state) == [kind |-> kind, agent |-> agent, state |-> state]

Init ==
    /\ setup \in Setups
    /\ task = Blank(IF setup.main THEN "Idle" ELSE "Unknown")
    /\ pc = "sleep" /\ round = None /\ queue = <<>>
    /\ release = None /\ reset = FALSE /\ stale = TRUE
    /\ job = "shell" /\ group = 0 /\ screen \in setup.screens
    /\ told = Event("screen", None, "Unknown") /\ authority = None
    /\ jobs = 0 /\ requests = 0 /\ plainReads = 0

-----------------------------------------------------------------------------
(* A round: the foreground process.                                        *)

\* detect_reset: everything starts anew.
Reset ==
    /\ pc = "sleep" /\ reset
    /\ reset' = FALSE /\ task' = Blank("Unknown") /\ stale' = TRUE /\ pc' = "look"
    /\ UNCHANGED <<round, queue, release, plainReads>> /\ UNCHANGED <<paneVars, appVars>>

Sleep ==
    /\ pc = "sleep" /\ pc' = "look"
    /\ UNCHANGED <<task, round, queue, release, reset, stale, plainReads>>
    /\ UNCHANGED <<paneVars, appVars>>

\* should_skip_process_probe_for_lifecycle_authority.
SkipProbe(t, suppressed, changed) ==
    authority # None /\ ~t.clearing /\ suppressed = None /\ t.probed /\ ~changed

\* Mutant: an exit under way is no reason to look again.
ShouldProbeCalm(t, suppressed, changed, due, acquiring) ==
    IF suppressed # None THEN ~t.probed \/ changed
    ELSE acquiring \/ changed \/ (IF t.agent = None THEN ~t.probed ELSE due)

\* should_probe_foreground_job.
ShouldProbe(t, suppressed, changed, due, acquiring) ==
    \/ t.clearing
    \/ IF suppressed # None THEN ~t.probed \/ changed
       ELSE acquiring \/ changed \/ (IF t.agent = None THEN ~t.probed ELSE due)

\* The agent may be taken up again once its suppression has ended.
AfterRelease(t, suppressed) ==
    [t EXCEPT !.probed = @ /\ ~(suppressed = None /\ t.releaseSeen),
              !.releaseSeen = suppressed # None]

Look(due) ==
    /\ pc = "look"
    /\ LET t == AfterRelease(task, release)
           changed == group # t.group
       IN  /\ task' = t
           /\ round' = [suppressed |-> release, authority |-> authority,
                        changed |-> FALSE, event |-> None, then |-> None]
           /\ \E acquiring \in BOOLEAN :
                 pc' = IF /\ ~SkipProbe(t, release, changed)
                          /\ ShouldProbe(t, release, changed, due, acquiring)
                       THEN "probe" ELSE "decide"
    /\ UNCHANGED <<queue, release, reset, stale, plainReads>> /\ UNCHANGED <<paneVars, appVars>>

\* foreground_shell_agent_action.
ShellAction(t, new) ==
    IF t.agent = None THEN "ObserveProbe"
    ELSE IF t.exitTold
    THEN IF new = t.agent THEN "ReportReplacementProcess"
         ELSE IF new = None THEN "ClearAgent" ELSE "ObserveProbe"
    ELSE IF new = None /\ job = "shell" THEN "ReportProcessExit" ELSE "ObserveProbe"

\* observe_process_probe.
Observe(t, new) ==
    IF new # None THEN [t EXCEPT !.agent = new, !.misses = 0]
    ELSE IF t.agent = None \/ t.misses + 1 >= Misses THEN [t EXCEPT !.agent = None, !.misses = 0]
    ELSE [t EXCEPT !.misses = @ + 1]

\* apply_foreground_shell_agent_action.
Apply(t, action, new) ==
    LET off == [t EXCEPT !.clearing = FALSE, !.exitTold = FALSE]
    IN  CASE action = "ReportProcessExit" -> [t EXCEPT !.clearing = TRUE]
          [] action = "ClearAgent" -> [off EXCEPT !.agent = None, !.misses = 0]
          [] OTHER -> Observe(off, new)

\* The foreground job is asked for.  A new agent, or a new process of the same,
\* is idle and gets a grace in which the screen is not read.
Probe ==
    /\ pc = "probe"
    /\ LET found == IF job \in Agents THEN job ELSE None
           suppressed == round.suppressed
           new == IF found = suppressed THEN None ELSE found
           action == ShellAction(task, new)
           seen == [Apply(task, action, new) EXCEPT !.probed = TRUE, !.group = group]
           changed == seen.agent # task.agent \/ action = "ReportReplacementProcess"
           started == changed /\ seen.agent # None
       IN  /\ release' = IF suppressed # None /\ found # suppressed THEN None ELSE release
           /\ task' = IF ~changed THEN seen
                      ELSE [seen EXCEPT !.held = None, !.grace = started,
                                        !.shown = IF started THEN Shown("Idle", TRUE) ELSE @]
           /\ stale' = (stale \/ changed)
           /\ pc' = IF started THEN "send" ELSE "decide"
           /\ round' = [round EXCEPT !.changed = changed, !.then = "decide",
                                     !.event = Event("start", seen.agent, "Idle")]
    /\ UNCHANGED <<queue, reset, plainReads>> /\ UNCHANGED <<paneVars, appVars>>

\* publish_state_changed_event waits for room.
Send ==
    /\ pc = "send" /\ Len(queue) < Capacity
    /\ queue' = Append(queue, round.event) /\ pc' = round.then
    /\ UNCHANGED <<task, round, release, reset, stale, plainReads>>
    /\ UNCHANGED <<paneVars, appVars>>

-----------------------------------------------------------------------------
(* A round: the screen.                                                    *)

Exited == task.clearing /\ task.agent # None /\ ~task.exitTold

Decided(next, then, dirty) ==
    /\ pc' = then /\ task' = next /\ stale' = dirty
    /\ UNCHANGED <<round, queue, release, reset, plainReads>> /\ UNCHANGED <<paneVars, appVars>>

\* A screen that was idle and has not changed (should_skip_idle_screen_scan).
Unread ==
    /\ task.shown.state = "Idle" /\ task.agent # None /\ task.held = None
    /\ ~round.changed /\ ~Exited /\ ~stale

\* Mutant: the screen counts as scanned in the grace.
DecideEagerly(graceOver) ==
    /\ pc = "decide"
    /\ LET calm == [task EXCEPT !.held = None] IN
        IF round.authority # None /\ ~Exited THEN Decided(calm, "sleep", stale)
        ELSE IF task.grace /\ ~Exited
        THEN Decided([calm EXCEPT !.grace = ~graceOver], "sleep", FALSE)
        ELSE IF Unread THEN Decided(task, "sleep", stale)
        ELSE Decided(IF task.grace THEN [calm EXCEPT !.grace = FALSE] ELSE task,
                     "read", task.agent = None)

\* The early returns before the screen is read: a lifecycle authority, the
\* startup grace, an unchanged idle screen.  The number of the content is loaded
\* before the screen is read.
Decide(graceOver) ==
    /\ pc = "decide"
    /\ LET calm == [task EXCEPT !.held = None] IN
        IF round.authority # None /\ ~Exited THEN Decided(calm, "sleep", stale)
        ELSE IF task.grace /\ ~Exited
        THEN Decided([calm EXCEPT !.grace = ~graceOver], "sleep", stale \/ (graceOver /\ ~setup.main))
        ELSE IF Unread THEN Decided(task, "sleep", stale)
        ELSE Decided(IF task.grace THEN [calm EXCEPT !.grace = FALSE] ELSE task,
                     "read", task.agent = None)

\* detection_update_for_publish_with_osc: "idle" has a visible sign of it,
\* "plain" matches no rule.
Detect(s) ==
    IF task.agent = None THEN Shown("Unknown", FALSE)
    ELSE IF Exited THEN Shown("Idle", TRUE)
    ELSE CASE s = "idle" -> Shown("Idle", TRUE)
           [] s = "plain" -> Shown("Idle", FALSE)
           [] s = "working" -> Shown("Working", TRUE)
           [] s = "blocked" -> Shown("Blocked", TRUE)

\* Mutant: one scan without a sign of work is enough.
HoldNever(next, capped) == [hold |-> FALSE, held |-> None]

\* should_hold_working_to_idle.
Hold(next, capped) ==
    IF task.shown.state # "Working" \/ next # Shown("Idle", FALSE) \/ round.changed \/ Exited
    THEN [hold |-> FALSE, held |-> None]
    ELSE IF task.held = None THEN [hold |-> TRUE, held |-> 0]
    ELSE IF capped \/ task.held + 1 >= Confirmations THEN [hold |-> FALSE, held |-> None]
    ELSE [hold |-> TRUE, held |-> task.held + 1]

\* should_publish_detection_update.
Publishes(next, refresh) ==
    \/ next # task.shown \/ round.changed \/ Exited
    \/ refresh /\ next.state = "Blocked" /\ next.visible

\* Mutant: such a screen hides an exit in every pane.
SkipsAlways(s) == s = "skip" /\ task.agent # None

\* Some screens say nothing of the state.  The loop of a pane that was handed
\* over does not let them hide an exit.
Skips(s) == s = "skip" /\ task.agent # None /\ (setup.main \/ ~Exited)

Read(capped, refresh) ==
    /\ pc = "read"
    /\ IF Skips(screen)
       THEN /\ task' = [task EXCEPT !.held = None] /\ pc' = "sleep"
            /\ UNCHANGED <<round, plainReads>>
       ELSE LET next == Detect(screen)
                pending == Hold(next, capped)
                publish == ~pending.hold /\ Publishes(next, refresh)
            IN  /\ task' = [task EXCEPT !.held = pending.held,
                               !.shown = IF publish THEN next ELSE @,
                               !.exitTold = @ \/ (publish /\ Exited)]
                /\ pc' = IF publish THEN "send" ELSE "sleep"
                /\ round' = [round EXCEPT !.then = "sleep",
                               !.event = Event(IF Exited THEN "exit" ELSE "screen", task.agent, next.state)]
                /\ plainReads' = IF next # Shown("Idle", FALSE) THEN 0
                                 ELSE IF plainReads = 2 THEN 2 ELSE plainReads + 1
    /\ UNCHANGED <<queue, release, reset, stale>> /\ UNCHANGED <<paneVars, appVars>>

-----------------------------------------------------------------------------
(* The pane.                                                               *)

\* A job of a new group is in the foreground, or the shell again.
JobChanges(j) ==
    /\ jobs < setup.jobs /\ j # job
    /\ job' = j /\ jobs' = jobs + 1 /\ group' = IF j = "shell" THEN 0 ELSE jobs + 1
    /\ UNCHANGED <<setup, screen>> /\ UNCHANGED <<taskVars, appVars>>

\* observe_detection_content_change.
Output(s) ==
    /\ s # screen /\ screen' = s /\ stale' = TRUE
    /\ UNCHANGED <<setup, task, pc, round, queue, release, reset, plainReads, job, group, jobs>>
    /\ UNCHANGED appVars

\* The time of the suppression is over (active_pending_release).
ReleaseExpires ==
    /\ release # None /\ release' = None
    /\ UNCHANGED <<task, pc, round, queue, reset, stale, plainReads>>
    /\ UNCHANGED <<paneVars, appVars>>

-----------------------------------------------------------------------------
(* The reducer.                                                            *)

\* StateChanged (set_detected_state_with_screen_signals_at).  A live lifecycle
\* authority keeps its word against everything but an exit and another agent.
TakeEvent ==
    /\ queue # <<>> /\ queue' = Tail(queue)
    /\ LET e == Head(queue)
           ignored == authority # None /\ e.kind # "exit" /\ e.agent \in {None, authority}
       IN  IF ignored
           THEN UNCHANGED <<told, authority>>
           ELSE told' = e /\ authority' = None
    /\ UNCHANGED <<task, pc, round, release, reset, stale, plainReads, requests>>
    /\ UNCHANGED paneVars

Request(kind) == kind \in setup.requests /\ requests < setup.calls /\ requests' = requests + 1

\* A hook of the agent reports: set_full_lifecycle_authority_active(true).
HookReports ==
    /\ Request("authority") /\ told.agent # None /\ told.kind # "exit" /\ authority = None
    /\ authority' = told.agent /\ reset' = TRUE
    /\ UNCHANGED <<task, pc, round, queue, release, stale, plainReads, told>>
    /\ UNCHANGED paneVars

\* pane.clear_agent_authority.
HookCleared ==
    /\ Request("authority") /\ authority # None /\ authority' = None
    /\ UNCHANGED <<taskVars, paneVars, told>>

\* pane.release_agent: begin_graceful_release.
HookReleased ==
    /\ Request("release") /\ told.agent # None /\ told.kind # "exit" /\ authority = None
    /\ release' = told.agent /\ reset' = TRUE
    /\ UNCHANGED <<task, pc, round, queue, stale, plainReads, told, authority>>
    /\ UNCHANGED paneVars

\* The manifests have been updated: reset_agent_detection.
ManifestsUpdated ==
    /\ Request("reset") /\ told.agent # None /\ reset' = TRUE
    /\ UNCHANGED <<task, pc, round, queue, release, stale, plainReads, told, authority>>
    /\ UNCHANGED paneVars

Round == Reset \/ Sleep \/ Probe \/ Send
         \/ (\E b \in BOOLEAN : Look(b) \/ Decide(b)) \/ (\E b, c \in BOOLEAN : Read(b, c))

Next ==
    \/ Round
    \/ \E j \in setup.agents \cup {"shell", "other"} : JobChanges(j)
    \/ \E s \in setup.screens : Output(s)
    \/ ReleaseExpires \/ TakeEvent
    \/ HookReports \/ HookCleared \/ HookReleased \/ ManifestsUpdated

\* The task and the reducer run on; rechecks become due, graces and
\* suppressions end.
Spec ==
    /\ Init /\ [][Next]_vars
    /\ WF_vars(Round) /\ WF_vars(TakeEvent) /\ WF_vars(ReleaseExpires)
    /\ SF_vars(Reset) /\ SF_vars(Look(TRUE)) /\ SF_vars(Decide(TRUE))

-----------------------------------------------------------------------------
(* Properties.                                                             *)

States == {"Idle", "Working", "Blocked", "Unknown"}
Events == [kind : {"start", "screen", "exit"}, agent : Agents \cup {None}, state : States]
Rounds == [suppressed : Agents \cup {None}, authority : Agents \cup {None}, changed : BOOLEAN,
           event : Events \cup {None}, then : {None, "decide", "sleep"}]

\* The type of every variable.
TypeOK ==
    /\ task \in [agent : Agents \cup {None}, misses : 0 .. Misses - 1,
                 shown : [state : States, visible : BOOLEAN], probed : BOOLEAN,
                 group : (0 .. setup.jobs) \cup {None}, clearing : BOOLEAN, exitTold : BOOLEAN,
                 releaseSeen : BOOLEAN, grace : BOOLEAN,
                 held : (0 .. Confirmations - 1) \cup {None}]
    /\ pc \in {"sleep", "look", "probe", "send", "decide", "read"}
    /\ round \in Rounds \cup {None}
    /\ queue \in Seq(Events) /\ Len(queue) <= Capacity
    /\ release \in Agents \cup {None} /\ authority \in Agents \cup {None}
    /\ reset \in BOOLEAN /\ stale \in BOOLEAN
    /\ job \in Agents \cup {"shell", "other"} /\ group \in 0 .. setup.jobs /\ screen \in setup.screens
    /\ told \in Events /\ plainReads \in 0 .. 2

\* After the exit of an agent's process has been published, what its screen
\* still shows is not published for it: the next word is that it has gone or
\* that a process has started (foreground_shell_agent_action).
NoGhost ==
    LET said == <<told>> \o queue
    IN  \A i \in 1 .. Len(said) - 1 :
           said[i].kind = "exit" => said[i + 1].kind = "start" \/ said[i + 1].agent = None

\* The task's state and what it has published agree with each other.
Consistent == TypeOK /\ NoGhost

\* A working agent becomes idle for lack of any sign only after a second look,
\* whatever comes between the two (should_hold_working_to_idle).
NoFlicker ==
    [][ /\ task.shown.state = "Working" /\ task'.shown = Shown("Idle", FALSE)
        => plainReads' = 2 ]_vars

\* When the agent's process has gone for good, the reducer gets to know: the
\* shell alone in the foreground ends in no agent (foreground_shell_agent_action).
GoneIsTold == <>[](job = "shell") => <>[](told.agent = None)

\* The same where no reset forgets the agent and, in the loop of a pane that was
\* spawned, no screen that says nothing of the state stays.
GoneIsToldOtherwise ==
    "reset" \in setup.requests \/ (setup.main /\ "skip" \in setup.screens) \/ GoneIsTold

\* An agent that stays in the foreground is found, be it the first, one after
\* another, one more process of the same, or one that was released and runs on.
AgentIsFound ==
    \A a \in Agents : <>[](job = a) => <>[](told.agent = a /\ told.kind # "exit")

\* The state of an agent that stays is in the end the one that its screen
\* shows, however bytes, scans, holds and graces fall (detection_content_seq);
\* but after a cleared authority it may be the one from before.
ScreenIsTold ==
    "authority" \in setup.requests \/
    \A a \in Agents, s \in {"idle", "plain", "working", "blocked"} :
       <>[](job = a /\ screen = s)
       => <>[](told.state = CASE s \in {"idle", "plain"} -> "Idle"
                               [] s = "working" -> "Working" [] s = "blocked" -> "Blocked")

\* An agent that stays is found and its state told.
AgentIsTold == AgentIsFound /\ ScreenIsTold
=============================================================================
