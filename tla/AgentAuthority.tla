--------------------------- MODULE AgentAuthority ---------------------------
(***************************************************************************)
(* Which report an agent's state is taken from (src/terminal/state.rs).    *)
(* One terminal hears of its agent from several actors at once: hooks of   *)
(* the agent report states and sessions over the socket API, late,         *)
(* repeated and out of order; the detection task publishes what it saw of  *)
(* the screen and of the foreground process, some time ago; the pane's     *)
(* process exits.  A report may give its source authority over the state,  *)
(* be buffered until a new process is seen, or be ignored.                 *)
(*                                                                         *)
(* The terminal is one record, as in the source, and each handler is an    *)
(* operator from the record and its arguments to the record it leaves.     *)
(* A source reports for one agent.  Times are readings of one clock, which *)
(* need not advance between two events.                                    *)
(***************************************************************************)
EXTENDS Naturals, FiniteSets

CONSTANTS
    AllSources,     \* sources of reports
    Agents,         \* agents detection knows
    Label,          \* the agent a source reports for, known or not
    Full,           \* full_lifecycle_hook_authority
    Official,       \* is_official_agent_source
    IdentityOnly,   \* session_identity_only_integration
    Adopting,       \* lifecycle_hook_report_replaces_persisted_session
    Starts,         \* session start sources
    Replacing,      \* session_report_allows_session_replacement
    AllSessions,
    IdSessions,     \* sessions named by an id, not by a path
    States,         \* agent states hooks and detection report
    None,
    Setups          \* the instances that are looked at

Sessions == [source : AllSources, session : AllSessions]
AllReports == [source : AllSources, session : AllSessions \cup {None}, state : States,
               at : Nat, seq : Nat \cup {None}]
AllGates == [session : AllSessions \cup {None}, at : Nat, reason : {"HookClear", "ProcessExit"},
             replacement : AllSessions \cup {None}, pending : AllReports \cup {None}]

ASSUME AuthorityAssumption ==
    /\ Label \in [AllSources -> STRING] /\ None \notin Agents \cup AllSources \cup AllSessions
    /\ Full \subseteq Official /\ IdentityOnly \subseteq Official \ Full
    /\ Official \subseteq AllSources /\ Adopting \subseteq Full
    /\ \A s \in Official : Label[s] \in Agents
    /\ \A s, r \in Official : Label[s] = Label[r] => s = r
    /\ IdSessions \subseteq AllSessions
    /\ None \notin Sessions /\ None \notin AllReports /\ None \notin AllGates
    /\ None \notin [agent : Agents, at : Nat]
    /\ Replacing \in [AllSources -> SUBSET (Starts \cup {None})] /\ None \notin Starts
    /\ States \subseteq {"Idle", "Working", "Blocked"} /\ None \notin Nat
    /\ \A u \in Setups :
          /\ DOMAIN u.sessions \subseteq AllSources
          /\ \A s \in DOMAIN u.sessions : u.sessions[s] \subseteq AllSessions
                                        \* the sources that report, and their sessions
          /\ u.agents \subseteq Agents /\ u.starts \subseteq Starts /\ u.states \subseteq States
          /\ u.numbers \subseteq Nat \cup {None} \* bound: sequence numbers, if any
          /\ u.clock \in Nat           \* bound: readings of the clock

VARIABLES
    setup,          \* one of Setups
    t,              \* TerminalState
    clock,          \* Instant::now
    observed,       \* when the last detection result handled was observed
    saved,          \* the session in the saved state
    dirty,          \* mark_session_dirty: it is to be saved again
    \* history
    retired,        \* <<source, session>> whose authority ended
    exitedAt,       \* when the last exit of the source's agent was handled
    wavered         \* the agent was not seen to run all the time its report is in force

vars == <<setup, t, clock, observed, saved, dirty, retired, exitedAt, wavered>>

Sources == DOMAIN setup.sessions
AllStates == {"Idle", "Working", "Blocked", "Unknown"}

\* crate::detect::parse_agent_label of the source's label.
AgentOf(s) == IF Label[s] \in Agents THEN Label[s] ELSE None

Fresh(persisted) ==
    [detected |-> None, fallback |-> "Unknown", blocker |-> FALSE, fallbackAt |-> None,
     authority |-> None, persisted |-> persisted,
     seqs |-> [s \in Sources |-> None],
     suppressed |-> [s \in Sources |-> None],
     stale |-> [s \in Sources |-> {}],
     exit |-> None, state |-> "Unknown"]

-----------------------------------------------------------------------------
(* What the record says.                                                   *)

ProcessPresent(u, agent) == agent # None /\ u.detected = agent /\ u.exit = None

\* hook_authority_is_effective.
Effective(u) ==
    /\ u.authority # None
    /\ u.authority.source \in Full => ProcessPresent(u, AgentOf(u.authority.source))

\* live_full_lifecycle_hook_authority.
Live(u) == Effective(u) /\ u.authority.source \in Full

EffectiveLabel(u) ==
    IF Effective(u) THEN Label[u.authority.source]
    ELSE IF u.exit = None THEN u.detected ELSE None

HookAgent(u) == IF u.authority = None THEN None ELSE AgentOf(u.authority.source)

FallbackNotOlderThanHook(u) ==
    u.authority # None => u.fallbackAt # None /\ u.authority.at <= u.fallbackAt

VisibleBlockerOverridesHook(u) ==
    /\ ~Live(u) /\ u.blocker /\ FallbackNotOlderThanHook(u)
    /\ u.authority # None /\ u.authority.state # "Blocked"
    /\ AgentOf(u.authority.source) = u.detected

\* recompute_effective_state, at the end of every handler that gets so far.
StateOf(u) ==
    IF VisibleBlockerOverridesHook(u) THEN "Blocked"
    ELSE IF Effective(u) THEN u.authority.state
    ELSE u.fallback

\* Mutant: a visible prompt does not override a hook's state.
RecomputeReport(u) ==
    [u EXCEPT !.state = IF Effective(u) THEN u.authority.state ELSE u.fallback]

Recompute(u) == [u EXCEPT !.state = StateOf(u)]

\* current_session_identity_for_persistence.
Identity(u) ==
    IF u.authority # None /\ u.authority.session # None
    THEN [source |-> u.authority.source, session |-> u.authority.session]
    ELSE u.persisted

OwnerConflicts(u, s) == Identity(u) # None /\ Identity(u).source # s

\* hook_authority_conflicts_with_detected_agent.
HookConflicts(u, agent) ==
    agent # None /\ HookAgent(u) # None /\ HookAgent(u) # agent

\* known_agent_label_conflicts_with_detected_agent.
LabelConflicts(u, s) ==
    u.detected # None /\ AgentOf(s) # None /\ AgentOf(s) # u.detected

\* Mutant: any resumable session may take over.
ConfirmsResumable(u, s, ref) == ref # None /\ s \in Official

\* foreground_agent_confirms_session_owner: the agent is in the foreground and
\* its session could be resumed.
ForegroundConfirms(u, s, ref) ==
    ref # None /\ u.detected # None /\ AgentOf(s) = u.detected /\ s \in Official

\* conflicting_same_owner_session_ref.
SameOwnerConflict(u, s, ref, start) ==
    /\ Identity(u) # None /\ Identity(u).source = s
    /\ Identity(u).session # ref
    /\ {ref, Identity(u).session} \subseteq IdSessions
    /\ start \notin Replacing[s]

\* The latest of the source's hooks the terminal accepted is older.
NewSeq(u, s, seq) == u.seqs[s] = None \/ (seq # None /\ seq > u.seqs[s])

\* accept_hook_report.
Acceptable(u, s, seq) == NewSeq(u, s, seq)
Accept(u, s, seq) == IF seq = None THEN u ELSE [u EXCEPT !.seqs[s] = seq]
-----------------------------------------------------------------------------
(* Suppressed reports and stale sessions.                                  *)

Remember(u, s, ref) == IF ref = None THEN u ELSE [u EXCEPT !.stale[s] = @ \cup {ref}]
Forget(u, s, ref) == [u EXCEPT !.stale[s] = @ \ {ref}]

Gate(ref, at, reason) ==
    [session |-> ref, at |-> at, reason |-> reason, replacement |-> None, pending |-> None]

\* suppress_full_lifecycle_hook_report_with_session_ref.
Suppress(u, s, ref, at, reason) == [u EXCEPT !.suppressed[s] = Gate(ref, at, reason)]

\* suppress_current_full_lifecycle_hook_authority, always for HookClear.
SuppressCurrent(u) ==
    IF u.authority # None /\ u.authority.source \in Full
    THEN Suppress(u, u.authority.source, u.authority.session, clock, "HookClear")
    ELSE u

GatedBy(u, s, reason) == u.suppressed[s] # None /\ u.suppressed[s].reason = reason

\* The agent's gates at which a session announced itself since the exit.
Started(u, agent) ==
    {s \in Sources : /\ AgentOf(s) = agent /\ GatedBy(u, s, "ProcessExit")
                     /\ u.suppressed[s].replacement # None}
Cleared(u, agent) == {s \in Sources : AgentOf(s) = agent /\ GatedBy(u, s, "HookClear")}

\* The gates of a new process's agent open: a session that was cleared, or left
\* by an exit, becomes stale, and the sources number their reports afresh.
Opened(u, agent) ==
    [u EXCEPT
        !.suppressed = [s \in Sources |->
            IF s \in Started(u, agent) \cup Cleared(u, agent) THEN None ELSE @[s]],
        !.stale = [s \in Sources |->
            IF s \in Cleared(u, agent) THEN @[s] \cup ({u.suppressed[s].session} \ {None})
            ELSE IF s \in Started(u, agent)
            THEN (@[s] \cup {u.suppressed[s].session}) \ {None, u.suppressed[s].replacement}
            ELSE @[s]],
        !.seqs = [s \in Sources |->
            IF s \in Full /\ AgentOf(s) = agent /\ s \notin Started(u, agent) THEN None
            ELSE @[s]]]

\* The session that waited at the gate is in force, with its buffered report.
Resume(u, v, s) ==
    LET gate == u.suppressed[s]
        resumed == [v EXCEPT !.persisted = [source |-> s, session |-> gate.replacement]]
    IN  IF /\ gate.pending # None /\ gate.pending.session = gate.replacement
           /\ Acceptable(u, s, gate.pending.seq)
        THEN [resumed EXCEPT !.authority = gate.pending, !.seqs[s] = gate.pending.seq]
        ELSE resumed

\* clear_full_lifecycle_hook_suppression_for_detected_agent: a new process of
\* the agent is in the foreground.
Ungate(u, previous, agent) ==
    IF agent \in {None, previous} THEN u
    ELSE IF Started(u, agent) = {} THEN Opened(u, agent)
    ELSE Resume(u, Opened(u, agent), CHOOSE s \in Started(u, agent) : TRUE)

\* full_lifecycle_hook_report_has_fresh_session_after_stale_session.
FreshAfterStale(u, s, ref) == u.stale[s] # {} /\ ref # None /\ ref \notin u.stale[s]

\* detected_state_observed_before_release_suppression.
ObservedBeforeSuppression(u, agent, at) ==
    /\ agent # None
    /\ \E s \in Sources : /\ u.suppressed[s] # None /\ AgentOf(s) = agent
                          /\ at <= u.suppressed[s].at

-----------------------------------------------------------------------------
(* Detection results and process exits.                                    *)

\* The exited session of a gate: what announced itself since, the session of a
\* buffered report, or the session gated before.
ExitedSession(gate) ==
    IF gate.replacement # None THEN gate.replacement
    ELSE IF gate.pending # None THEN gate.pending.session
    ELSE gate.session

\* Mutant: a report buffered before the exit waits on.
RegateWithPending(gate, at) ==
    [gate EXCEPT !.session = ExitedSession(gate), !.at = at, !.replacement = None]

\* The gate for what comes late from the exited process.
Regate(gate, at) == Gate(ExitedSession(gate), at, "ProcessExit")

\* The agent's gates close for good: buffered reports are dropped.
Regated(u, agent, at) ==
    LET gated == {s \in Sources : GatedBy(u, s, "ProcessExit") /\ AgentOf(s) = agent}
    IN  [u EXCEPT
            !.suppressed = [s \in Sources |->
                IF s \in gated THEN Regate(@[s], at) ELSE @[s]],
            !.stale = [s \in Sources |->
                IF s \in gated THEN @[s] \cup ({u.suppressed[s].session}
                                                 \ {None, ExitedSession(u.suppressed[s])})
                ELSE @[s]],
            !.seqs = [s \in Sources |-> IF s \in gated THEN None ELSE @[s]]]

\* What the agent's official source has of it: its report or its session.
Owner(u, agent) ==
    IF u.authority # None /\ u.authority.source \in Official /\ HookAgent(u) = agent
    THEN u.authority
    ELSE IF u.persisted # None /\ u.persisted.source \in Official
              /\ AgentOf(u.persisted.source) = agent
    THEN u.persisted ELSE None

\* The owner's gate closes.
Closed(u, owner, at) ==
    IF owner = None THEN u
    ELSE Suppress([u EXCEPT !.seqs[owner.source] = None],
                  owner.source, owner.session, at, "ProcessExit")

\* What ends with the agent's process: buffered reports, the session of its
\* official source, its authority unless a custom source's report is newer, and
\* the numbering of all of these.
Exit(u, agent, at, newerCustom) ==
    LET closed == Closed(Regated(u, agent, at), Owner(u, agent), at)
        left == IF u.authority # None /\ HookAgent(u) = agent /\ ~newerCustom
                THEN [closed EXCEPT !.seqs[u.authority.source] = None, !.authority = None]
                ELSE closed
    IN  IF ~newerCustom /\ u.persisted # None /\ AgentOf(u.persisted.source) = agent
        THEN [left EXCEPT !.persisted = None]
        ELSE left

\* What is left of an authority that ends.
Durable(authority) ==
    IF authority.session = None THEN None
    ELSE [source |-> authority.source, session |-> authority.session]

\* An observation no older than the authority says another agent runs now: the
\* authority ends, its session stays.
ReplaceAuthority(u, previous, agent, at) ==
    IF /\ u.authority # None /\ u.authority.at <= at
       /\ \/ HookConflicts(u, agent)
          \/ previous # None /\ agent # previous /\ HookAgent(u) = previous
    THEN [SuppressCurrent(u) EXCEPT
             !.authority = None,
             !.persisted = Durable(u.authority)]
    ELSE u

\* A custom source's report newer than the exit it outlives.
OutlivesExit(u, agent, at) ==
    /\ u.authority # None /\ HookAgent(u) = agent
    /\ u.authority.source \notin Official /\ u.authority.at > at

\* The agent is seen again after its exit.
SeenAgain(u, agent, at) ==
    agent # None /\ u.exit # None /\ u.exit.agent = agent /\ u.exit.at < at

\* The observation is noted, and gates open for a new process.
Noted(u, agent, state, blocker, exited, at) ==
    LET seen == [u EXCEPT !.detected = agent]
        ungated == IF exited THEN seen
                   ELSE Ungate(seen, IF SeenAgain(u, agent, at) THEN None ELSE u.detected,
                               agent)
    IN  [ungated EXCEPT
            !.fallback = state, !.blocker = blocker /\ state = "Blocked", !.fallbackAt = at,
            !.exit = IF exited /\ agent # None THEN [agent |-> agent, at |-> at]
                     ELSE IF agent # None THEN None ELSE @]

\* set_detected_state_with_screen_signals_at.
Detected(u, agent, state, blocker, exited, at) ==
    LET noted == Noted(u, agent, state, blocker, exited, at)
        ended == IF exited THEN Exit(noted, agent, at, OutlivesExit(u, agent, at)) ELSE noted
    IN  IF Live(u) /\ ~exited /\ ~HookConflicts(u, agent)
        THEN Recompute(IF HookAgent(u) = agent THEN [u EXCEPT !.detected = agent] ELSE u)
        ELSE IF ~exited /\ ObservedBeforeSuppression(u, agent, at) THEN Recompute(u)
        ELSE Recompute(ReplaceAuthority(ended, u.detected, agent, at))

-----------------------------------------------------------------------------
(* State reports of hooks.                                                 *)

\* The session the source's reports must carry, or leave out.
Anchor(u, s) ==
    IF u.authority # None /\ u.authority.source = s /\ u.authority.session # None
    THEN u.authority.session
    ELSE IF u.persisted # None /\ u.persisted.source = s THEN u.persisted.session
    ELSE None

Anchored(u, s, ref) == Anchor(u, s) # None /\ ref \in {None, Anchor(u, s)}

\* The report is taken, after forgetting the numbers seen (reanchor) or not.
Reanchors(u, s, ref) ==
    /\ s \in Full
    /\ \/ /\ GatedBy(u, s, "HookClear")
          /\ None \notin {u.suppressed[s].session, ref} /\ u.suppressed[s].session # ref
       \/ u.suppressed[s] = None /\ FreshAfterStale(u, s, ref)

\* Mutant: a stale session's reports are routed as any other.
RoutedWithoutStale(u, s, ref) ==
    s \in Full =>
      IF u.suppressed[s] # None THEN GatedBy(u, s, "HookClear") /\ Reanchors(u, s, ref)
      ELSE ProcessPresent(u, AgentOf(s)) /\ Anchored(u, s, ref)

\* route_full_lifecycle_hook_report: taken at once from a session known to run
\* in the process in front, and from another session after a cleared one.
Routed(u, s, ref) ==
    s \in Full =>
      /\ ref \notin u.stale[s]
      /\ IF u.suppressed[s] # None THEN GatedBy(u, s, "HookClear") /\ Reanchors(u, s, ref)
         ELSE ProcessPresent(u, AgentOf(s)) /\ Anchored(u, s, ref)

\* A report that waits for its session to announce itself in a new process.
Buffered(u, s, ref, seq) ==
    /\ s \in Full /\ ref \notin u.stale[s] /\ ~GatedBy(u, s, "HookClear")
    /\ None \notin {ref, seq} /\ Acceptable(u, s, seq)

Buffer(u, report) ==
    LET s == report.source
        persisted == IF u.persisted # None /\ u.persisted.source = s
                     THEN u.persisted.session ELSE None
        gate == IF u.suppressed[s] = None THEN Gate(persisted, clock, "ProcessExit")
                ELSE u.suppressed[s]
    IN  IF gate.pending = None \/ report.seq > gate.pending.seq
        THEN [u EXCEPT !.suppressed[s] = [gate EXCEPT !.pending = report]]
        ELSE u

\* The session a report is taken to be of.
ReportSession(u, s, ref) ==
    LET replaces == /\ s \in Adopting /\ u.authority = None
                    /\ u.persisted # None /\ u.persisted.source = s
                    /\ {u.persisted.session, ref} \subseteq IdSessions
    IN  IF ref # None /\ ~replaces /\ SameOwnerConflict(u, s, ref, None)
        THEN Identity(u).session ELSE ref

\* live_full_lifecycle_hook_authority_conflicts_with_session.
AuthorityConflicts(u, s, ref) ==
    /\ u.authority # None /\ s \in Full /\ u.authority.source = s
    /\ None \notin {ref, u.authority.session} /\ u.authority.session # ref

\* A handler's result: the record, and whether it reports a changed session.
Quiet(u) == [term |-> u, told |-> FALSE]

\* Mutant: only the session on record counts, not the one in force.
DoneRecorded(u, v) == [term |-> Recompute(v), told |-> u.persisted # v.persisted]

Done(u, v) == [term |-> Recompute(v), told |-> Identity(u) # Identity(v)]

\* The agent is known to have exited: its reports are late.
AfterExit(u, s) == s \notin Full /\ u.exit # None /\ AgentOf(s) = u.exit.agent

\* set_hook_authority_at.
HookState(u, s, ref, state, seq) ==
    LET report == [source |-> s, session |-> ref, state |-> state, at |-> clock, seq |-> seq]
        takeover == OwnerConflicts(u, s) /\ ForegroundConfirms(u, s, ref)
        session == ReportSession(u, s, ref)
        reanchor == Reanchors(u, s, ref)
        numbered == IF reanchor THEN [u EXCEPT !.seqs[s] = None] ELSE u
        displaced == IF takeover THEN SuppressCurrent(Accept(numbered, s, seq))
                     ELSE Accept(numbered, s, seq)
        ungated == IF (session # None \/ reanchor) /\ displaced.suppressed[s] # None
                   THEN Remember([displaced EXCEPT !.suppressed[s] = None],
                                 s, displaced.suppressed[s].session)
                   ELSE displaced
    IN  IF s \in IdentityOnly \/ AfterExit(u, s) THEN Quiet(u)
        ELSE IF ~Routed(u, s, ref)
        THEN Quiet(IF Buffered(u, s, ref, seq) THEN Buffer(u, report) ELSE u)
        ELSE IF \/ LabelConflicts(u, s)
                \/ OwnerConflicts(u, s) /\ ~takeover
                \/ AuthorityConflicts(u, s, session)
                \/ ~Acceptable(numbered, s, seq)
        THEN Quiet(u)
        ELSE Done(u, [ungated EXCEPT !.persisted = None,
                                     !.authority = [report EXCEPT !.session = session]])

-----------------------------------------------------------------------------
(* Session reports, clears, releases.                                      *)

\* A full source announces a session that is not known to run in the process
\* in front: it waits at the gate until a new process is seen, or goes through
\* at once if the process is there.
StartSession(u, s, ref, seq) ==
    LET gate == IF u.suppressed[s] = None THEN Gate(None, clock, "ProcessExit")
                ELSE u.suppressed[s]
        kept == IF gate.pending # None /\ gate.pending.session # ref THEN None ELSE gate.pending
        waiting == [Accept(u, s, seq) EXCEPT
                      !.suppressed[s] = IF gate.replacement = ref THEN gate
                                        ELSE [gate EXCEPT !.replacement = ref, !.pending = kept]]
    IN  IF ProcessPresent(u, AgentOf(s)) THEN Done(u, Ungate(waiting, None, AgentOf(s)))
        ELSE Quiet(waiting)

\* set_agent_session_ref_for_session_start; start is None for a plain report.
SessionRef(u, s, ref, seq, start) ==
    LET present == ProcessPresent(u, AgentOf(s))
        anchored == Anchor(u, s) # None
        taken == Accept(u, s, seq)
        replacing == start \in Replacing[s]
        takeover == /\ OwnerConflicts(u, s) /\ start \in Starts
                    /\ ForegroundConfirms(u, s, ref)
        current == Identity(u)
        replaced == /\ s \in Full /\ u.authority # None /\ u.authority.source = s
                    /\ u.authority.session \notin {None, ref}
        known == IF replacing \/ takeover THEN Forget(taken, s, ref) ELSE taken
        cleared == IF replaced
                   THEN [Remember(known, s, u.authority.session) EXCEPT !.authority = None]
                   ELSE IF takeover
                   THEN [SuppressCurrent(known) EXCEPT !.authority = None]
                   ELSE known
    IN  IF ref = None THEN Quiet(u)
        ELSE IF s \in Full /\ (~present \/ GatedBy(u, s, "ProcessExit") \/ ~anchored)
        THEN IF start \in Starts /\ seq # None /\ Acceptable(u, s, seq)
             THEN StartSession(u, s, ref, seq) ELSE Quiet(u)
        ELSE IF ~Acceptable(u, s, seq) THEN Quiet(u)
        ELSE IF \/ LabelConflicts(u, s)
                \/ /\ s \in IdentityOnly /\ replacing /\ ~present
                   /\ current # None /\ current.source = s /\ current.session # ref
                   /\ {ref, current.session} \subseteq IdSessions
                \/ OwnerConflicts(u, s) /\ ~takeover
                \/ SameOwnerConflict(u, s, ref, start)
                \/ replaced /\ ~replacing
        THEN Quiet(taken)
        ELSE Done(u, [cleared EXCEPT !.persisted = [source |-> s, session |-> ref]])

\* clear_hook_authority_with_mutation, for one source or (None) any.
Clear(u, source, seq) ==
    LET s == u.authority.source
    IN  IF u.authority = None \/ source \notin {None, s} \/ ~Acceptable(u, s, seq)
        THEN Quiet(u)
        ELSE [term |-> Recompute([SuppressCurrent(Accept(u, s, seq)) EXCEPT
                                    !.authority = None, !.persisted = None]),
              told |-> Identity(u) # None]

\* release_agent_with_mutation; the reducer ignores it from official sources.
Release(u, s, seq) ==
    LET mine == u.persisted # None /\ u.persisted.source = s
        taken == Accept(u, s, seq)
        freed == IF ProcessPresent(u, AgentOf(s)) THEN taken
                 ELSE [taken EXCEPT !.detected = None, !.fallback = "Unknown",
                                    !.blocker = FALSE, !.fallbackAt = None]
    IN  IF \/ u.authority # None /\ u.authority.source # s
           \/ EffectiveLabel(u) # Label[s] /\ ~mine
           \/ ~Acceptable(u, s, seq)
        THEN Quiet(u)
        ELSE Done(u, [freed EXCEPT !.authority = None,
                                   !.persisted = IF mine THEN None ELSE @])

-----------------------------------------------------------------------------
(* The reducer's events.                                                   *)

Init ==
    /\ setup \in Setups
    /\ \E p \in {None} \cup {[source |-> s, session |-> x] :
                               s \in Official \cap Sources, x \in AllSessions} :
          /\ p # None => p.session \in setup.sessions[p.source]
          /\ t = Fresh(p) /\ saved = p
    /\ clock = 0 /\ observed = 0 /\ dirty = FALSE
    /\ retired = {} /\ exitedAt = [s \in Sources |-> None] /\ wavered = FALSE

InForce(u) ==
    IF u.authority # None /\ u.authority.source \in Full /\ u.authority.session # None
    THEN {<<u.authority.source, u.authority.session>>} ELSE {}

\* The sessions whose authority ends.  A report without a session leaves its
\* source in force, and the terminal keeps no record of a session that a report
\* that waited at a gate displaces.
Ended(u, v) ==
    IF /\ v.authority # None /\ u.authority # None
       /\ \/ v.authority.session = None /\ v.authority.source = u.authority.source
          \/ \E s \in Sources :
                u.suppressed[s] # None /\ u.suppressed[s].pending = v.authority
    THEN {} ELSE InForce(u) \ InForce(v)

\* update_terminal_state: the handler, and the session marked for saving.
Update(result, announced) ==
    /\ t' = result.term
    /\ dirty' = (dirty \/ result.told)
    /\ retired' = (retired \cup Ended(t, result.term)) \ announced
    /\ wavered' = /\ result.term.authority # None
                  /\ wavered \/ ~ProcessPresent(result.term, HookAgent(result.term))
    /\ UNCHANGED saved

\* The sessions a report may carry.
Refs(s) == {None} \cup setup.sessions[s]

\* The session in force was not the one its report carried.
TakenFor(s, ref, v) == IF ref = None THEN {} ELSE InForce(v) \ {<<s, ref>>}

ReportState ==
    /\ \E s \in Sources, state \in setup.states, seq \in setup.numbers : \E ref \in Refs(s) :
          LET result == IF s \in Official \ (Full \cup IdentityOnly)
                        THEN SessionRef(t, s, ref, seq, None)
                        ELSE HookState(t, s, ref, state, seq)
          IN  Update(result, TakenFor(s, ref, result.term))
    /\ UNCHANGED <<setup, clock, observed, exitedAt>>

\* The session is on record, or waits at the gate.
Announced(s, ref, v) ==
    IF \/ v.persisted = [source |-> s, session |-> ref]
       \/ v.suppressed[s] # None /\ v.suppressed[s].replacement = ref
    THEN {<<s, ref>>} ELSE {}

ReportSessionStart ==
    /\ \E s \in Sources, seq \in setup.numbers, start \in {None} \cup setup.starts :
       \E ref \in Refs(s) :
          LET result == SessionRef(t, s, ref, seq, start)
          IN  Update(result, Announced(s, ref, result.term))
    /\ UNCHANGED <<setup, clock, observed, exitedAt>>

ClearAuthority ==
    /\ \E source \in Sources \cup {None}, seq \in setup.numbers : Update(Clear(t, source, seq), {})
    /\ UNCHANGED <<setup, clock, observed, exitedAt>>

ReleaseAgent ==
    /\ \E s \in Sources \ Official, seq \in setup.numbers : Update(Release(t, s, seq), {})
    /\ UNCHANGED <<setup, clock, observed, exitedAt>>

ExitHandled(agent) == [s \in Sources |-> IF AgentOf(s) = agent THEN clock ELSE exitedAt[s]]

\* AppEvent::StateChanged: what the detection task observed some time ago.  It
\* sends its observations in order.
DetectionResult ==
    \E agent \in setup.agents \cup {None}, state \in setup.states \cup {"Unknown"},
       blocker, exited \in BOOLEAN, at \in observed .. clock :
       /\ agent = None <=> state = "Unknown"
       /\ exited => agent # None /\ state = "Idle"
       /\ blocker => state = "Blocked"
       /\ LET v == Detected(t, agent, state, blocker, exited, at)
          IN  Update([term |-> v, told |-> Identity(t) # Identity(v)], {})
       /\ observed' = at
       /\ exitedAt' = IF exited THEN ExitHandled(agent) ELSE exitedAt
       /\ UNCHANGED <<setup, clock>>

\* publish_pane_process_exit_if_agent: the pane's own process has exited.
PaneExits ==
    LET agent == IF EffectiveLabel(t) \in Agents THEN EffectiveLabel(t) ELSE t.detected
        v == Detected(t, agent, "Idle", FALSE, TRUE, clock)
    IN  /\ agent # None
        /\ Update([term |-> v, told |-> Identity(t) # Identity(v)], {})
        /\ exitedAt' = ExitHandled(agent)
        /\ UNCHANGED <<setup, clock, observed>>

\* clear_agent_runtime_identity_after_respawn: a shell replaces the pane's
\* process.  The numbers seen stay.
Respawn ==
    /\ t' = [Fresh(None) EXCEPT !.seqs = t.seqs]
    /\ dirty' = TRUE
    /\ retired' = {} /\ exitedAt' = [s \in Sources |-> None] /\ wavered' = FALSE
    /\ UNCHANGED <<setup, clock, observed, saved>>

SaveSession ==
    /\ dirty
    /\ saved' = Identity(t) /\ dirty' = FALSE
    /\ UNCHANGED <<setup, t, clock, observed, retired, exitedAt, wavered>>

\* The server starts again; the sessions of official sources are restored.
Restart ==
    /\ t' = Fresh(IF saved # None /\ saved.source \in Official THEN saved ELSE None)
    /\ saved' = t'.persisted /\ dirty' = FALSE
    /\ retired' = {} /\ exitedAt' = [s \in Sources |-> None] /\ wavered' = FALSE
    /\ UNCHANGED <<setup, clock, observed>>

Tick ==
    /\ clock < setup.clock
    /\ clock' = clock + 1
    /\ UNCHANGED <<setup, t, observed, saved, dirty, retired, exitedAt, wavered>>

Next ==
    \/ ReportState \/ ReportSessionStart \/ ClearAuthority \/ ReleaseAgent
    \/ DetectionResult \/ PaneExits \/ Respawn
    \/ SaveSession \/ Restart \/ Tick

Spec == Init /\ [][Next]_vars

-----------------------------------------------------------------------------
(* Properties.                                                             *)

Times == 0 .. setup.clock
Persisted == [source : Sources, session : AllSessions] \cup {None}
Reports == [source : Sources, session : AllSessions \cup {None}, state : States,
            at : Times, seq : setup.numbers \cup {None}]
Gates == [session : AllSessions \cup {None}, at : Times, reason : {"HookClear", "ProcessExit"},
          replacement : AllSessions \cup {None}, pending : Reports \cup {None}]

Exits == [agent : Agents, at : Times]
Terminals ==
    [detected : Agents \cup {None}, fallback : AllStates, blocker : BOOLEAN,
     fallbackAt : Times \cup {None}, authority : Reports \cup {None}, persisted : Persisted,
     seqs : [Sources -> setup.numbers \cup {None}],
     suppressed : [Sources -> Gates \cup {None}], stale : [Sources -> SUBSET AllSessions],
     exit : Exits \cup {None}, state : AllStates]

\* The terminal's fields hold what their types allow.
TypeOK ==
    /\ setup \in Setups /\ clock \in Times /\ observed \in 0 .. clock
    /\ t \in Terminals
    /\ saved \in Persisted /\ dirty \in BOOLEAN
    /\ exitedAt \in [Sources -> Times \cup {None}]

\* A session whose authority ended never has authority again, however late its
\* reports come, unless it announces itself anew or another session's report is
\* taken for it.
RetiredStaysOut == InForce(t) \cap retired = {}

\* No report an agent's process made has authority after that process's exit
\* was handled, be it in force or buffered before.
NothingSurvivesExit ==
    t.authority # None /\ t.authority.source \in Full /\ exitedAt[t.authority.source] # None
      => t.authority.at >= exitedAt[t.authority.source]

\* While an agent is known to have exited only a custom source's later report
\* stands for it.
ExitedAgentSilent ==
    t.exit # None /\ Effective(t) /\ HookAgent(t) = t.exit.agent
      => t.authority.source \notin Official /\ t.authority.at > t.exit.at

\* An agent's exit is final: no report of it, handled, buffered or late, speaks
\* for it afterwards.
ExitIsFinal == NothingSurvivesExit /\ ExitedAgentSilent

\* As long as its agent is seen to run the number of the report in force is
\* remembered, so that no earlier report of the source can replace it.
NumberRemembered ==
    t.authority # None /\ t.authority.seq # None /\ ~wavered
      => /\ t.seqs[t.authority.source] # None
         /\ t.seqs[t.authority.source] >= t.authority.seq

\* Nothing stale comes back: neither a session that has ended nor a report that
\* the source has numbered earlier.
StaleStaysOut == RetiredStaysOut /\ NumberRemembered

\* The state shown is that of the report in force.
StateAgrees == t.state = StateOf(t)

\* The fields hold what their types allow, and the shown state is derived from
\* them after every handler (recompute_effective_state).
Consistent == TypeOK /\ StateAgrees

\* The sources that hold a session: of their report in force or on record.
Holders(u) ==
    {s \in Sources : \/ u.persisted # None /\ u.persisted.source = s
                     \/ u.authority # None /\ u.authority.source = s
                           /\ u.authority.session # None}

\* While a pane's session is some source's another one comes to hold one only if
\* its agent runs in the foreground.
OwnerConfirmed ==
    [][Identity(t) # None /\ ~Restart
         => \A s \in Holders(t') \ Holders(t) : t'.detected = AgentOf(s)]_vars

\* The saved session is the current one, or is about to be saved.
SavedUnlessDirty == ~dirty => saved = Identity(t)

=============================================================================
