---------------------------- MODULE AgentEvents ----------------------------
(***************************************************************************)
(* The agent of one pane as the socket API tells of it: what agent.get and *)
(* pane.get answer (src/app/api), and the events the application publishes *)
(* in the event hub (src/api/event_hub.rs).  The application handles one   *)
(* event or request at a time; the threads of API connections read the hub *)
(* whenever they like, also while a handler is still publishing.           *)
(*                                                                         *)
(* The pane is addressed by its public id and its agent has no name.  A    *)
(* move into another workspace gives the pane a new id, one it never had;  *)
(* the pane keeps its terminal, its agent and the agent's status.          *)
(* Successive occupants of the pane are told apart here by a number that   *)
(* the program does not have.  Presentation (title, labels) is left out: a *)
(* change of it publishes the unchanged status once more, or the pane.     *)
(* Events about tabs, workspaces and layouts are like those about other    *)
(* panes to the readers, and come as these do (OtherEvent).                *)
(***************************************************************************)
EXTENDS Naturals, Sequences

CONSTANTS
    Agents,         \* known agents
    Statuses,       \* AgentStatus
    None,
    Setups          \* the instances that are looked at

ASSUME EventsAssumption ==
    /\ {"Idle", "Done", "Unknown"} \subseteq Statuses /\ None \notin Agents \cup Statuses
    /\ \A s \in Setups :
          /\ s.agents \subseteq Agents      \* the agents that come
          /\ s.capacity \in Nat \ {0}      \* EventHub::MAX_EVENTS
          /\ s.handlers \in Nat            \* bound: handlers that change the pane

VARIABLES
    setup,          \* one of Setups
    pane,           \* what a request about the pane is answered
    outbox,         \* events the running handler has still to publish
    hub,            \* EventHubState; the last event has number hub.next
    handled         \* handlers run so far

appVars == <<setup, pane, outbox, hub, handled>>

-----------------------------------------------------------------------------
(* The event hub.                                                          *)

\* EventHub::push.
Push(h, event) ==
    LET events == Append(h.events, event)
    IN  [next |-> h.next + 1,
         events |-> IF Len(events) > setup.capacity THEN Tail(events) ELSE events]

\* EventHub::events_after: what is left of the events published since.
EventsAfter(h, sequence) ==
    LET oldest == h.next - Len(h.events)
        from == IF sequence > oldest THEN sequence - oldest ELSE 0
    IN  SubSeq(h.events, from + 1, Len(h.events))

-----------------------------------------------------------------------------
(* The application.                                                        *)

\* An event about the pane, under the id that it has or, of a move, that it had.
About(kind, agent, status) ==
    [kind |-> kind, id |-> pane.id, agent |-> agent, status |-> status]
Detected(agent) == About("Detected", agent, None)
Released(agent, final) == About("Released", agent, final)
StatusChanged(status) == About("Status", None, status)
Updated == About("Updated", None, None)
Moved == About("Moved", None, None)
Closed == About("Closed", None, None)
Other == [kind |-> "Other", id |-> 0, agent |-> None, status |-> None]
Events ==
    [kind : {"Detected", "Released", "Status", "Updated", "Moved", "Closed", "Other"}, id : Nat,
     agent : Agents \cup {None}, status : Statuses \cup {None}]
Panes ==
    [open : BOOLEAN, id : Nat, agent : Agents \cup {None}, exited : BOOLEAN, occupant : Nat,
     unseen : Agents \cup {None}, status : Statuses, changes : Nat]

\* pane_agent_status: "Done" is an Idle that nobody has seen.
Raw(status) == IF status = "Done" THEN "Idle" ELSE status
RawStates == Statuses \ {"Done"}

AppInit ==
    /\ setup \in Setups
    /\ \E agent \in setup.agents, status \in Statuses :
          pane = [open |-> TRUE, id |-> 1, agent |-> agent, exited |-> FALSE, occupant |-> 1,
                  unseen |-> None, status |-> status, changes |-> 0]
    /\ outbox = <<>> /\ hub = [next |-> 0, events |-> <<>>]
    /\ handled = 0

\* apply_pane_state_change: a completion is seen at once or not.
StatusesFor(raw, agent) ==
    LET completes == \/ Raw(pane.status) \in Statuses \ {"Idle", "Done", "Unknown"}
                     \/ pane.status = "Unknown" /\ pane.agent # None /\ agent = pane.agent
    IN  IF raw # "Idle" THEN {raw}
        ELSE IF raw = Raw(pane.status) THEN {pane.status}
        ELSE IF completes THEN {"Idle", "Done"} ELSE {"Idle"}

\* emit_pane_state_update: the agent, then the status.
UpdateEvents(new, event) ==
    event \o (IF new.status = pane.status THEN <<>> ELSE <<StatusChanged(new.status)>>)

\* The next handler: it changes the pane, then publishes event by event.  The
\* numbers of state changes grow over all panes (next_agent_state_change_seq).
Handle(new, events) ==
    /\ outbox = <<>> /\ handled < setup.handlers
    /\ pane' = [new EXCEPT !.changes =
                   IF Raw(new.status) = Raw(pane.status) THEN @ ELSE handled + 1]
    /\ outbox' = events
    /\ handled' = handled + 1
    /\ UNCHANGED <<setup, hub>>

\* The agent's state changes, by detection or by a hook report.
ChangeState ==
    \E raw \in RawStates \ {Raw(pane.status)} :
       \E status \in StatusesFor(raw, pane.agent) :
          LET new == [pane EXCEPT !.status = status]
          IN  pane.agent # None /\ ~pane.exited /\ Handle(new, UpdateEvents(new, <<>>))

\* Its presentation changes.
ChangePresentation == pane.agent # None /\ Handle(pane, <<StatusChanged(pane.status)>>)

\* The pane gets a label or a title (emit_pane_updated).
PaneUpdates == pane.open /\ Handle(pane, <<Updated>>)

\* mark_active_tab_seen, which publishes nothing.
MarkSeen == pane.open /\ pane.status = "Done" /\ Handle([pane EXCEPT !.status = "Idle"], <<>>)

\* The agent's process has exited; the pane keeps the agent for now.
ExitReported(status) ==
    LET new == [pane EXCEPT !.exited = TRUE, !.status = status]
    IN  UpdateEvents(new, <<Released(pane.agent, status)>>)

AgentExits ==
    \E status \in StatusesFor("Idle", pane.agent) :
       /\ pane.agent # None /\ ~pane.exited
       /\ Handle([pane EXCEPT !.exited = TRUE, !.status = status], ExitReported(status))

\* The pane without its agent.
Gone == [pane EXCEPT !.agent = None, !.exited = FALSE, !.unseen = None, !.status = "Unknown"]

\* The exited agent is forgotten, or one that can no longer be seen.
AgentCleared ==
    /\ pane.agent # None
    /\ Handle([Gone EXCEPT !.unseen = IF pane.exited THEN None ELSE pane.agent],
              UpdateEvents(Gone, <<Detected(None)>>))

\* pane.release_agent of an agent that has no process of its own.
AgentReleased ==
    pane.agent # None /\ Handle(Gone, UpdateEvents(Gone, <<Released(pane.agent, "Unknown")>>))

\* An agent is seen.  One of the label that is there after an exit is a new
\* process; the one that was lost from sight may be seen again.
AgentStarts ==
    \E agent \in setup.agents, raw \in RawStates :
       \E status \in StatusesFor(raw, agent),
          again \in IF agent = pane.unseen THEN BOOLEAN ELSE {FALSE} :
          LET new == [pane EXCEPT !.agent = agent, !.exited = FALSE, !.unseen = None,
                                  !.status = status, !.occupant = IF again THEN @ ELSE @ + 1]
          IN  /\ pane.open /\ (agent # pane.agent \/ pane.exited)
              /\ Handle(new, UpdateEvents(new, IF agent = pane.agent THEN <<>> ELSE <<Detected(agent)>>))

\* AppEvent::PaneDied.  The server reports the exit of an agent, the
\* application reports it again; then a new shell takes the pane over, or the
\* pane is closed.
PaneDies ==
    \E status \in IF pane.agent = None THEN {pane.status} ELSE StatusesFor("Idle", pane.agent),
       respawn \in BOOLEAN :
       LET exit == IF pane.agent = None THEN <<>>
                   ELSE ExitReported(status) \o <<Released(pane.agent, status)>>
       IN  /\ pane.open /\ outbox = <<>> /\ handled < setup.handlers
           /\ pane' = IF respawn THEN [Gone EXCEPT !.changes = 0] ELSE [Gone EXCEPT !.open = FALSE]
           /\ outbox' = exit \o (IF respawn THEN <<>> ELSE <<Closed>>)
           /\ handled' = handled + 1
           /\ UNCHANGED <<setup, hub>>

\* pane.close.
PaneCloses ==
    pane.open /\ Handle([Gone EXCEPT !.open = FALSE, !.status = pane.status], <<Closed>>)

\* pane.move, within the workspace or into another one; with the focus the pane
\* may be seen.
PaneMoves ==
    \E id \in {pane.id, pane.id + 1},
       status \in {pane.status} \cup (IF pane.status = "Done" THEN {"Idle"} ELSE {}) :
       pane.open /\ Handle([pane EXCEPT !.id = id, !.status = status], <<Moved>>)

\* Something happens in another pane.
OtherEvent ==
    /\ outbox = <<>> /\ handled < setup.handlers
    /\ outbox' = <<Other>> /\ handled' = handled + 1
    /\ UNCHANGED <<setup, pane, hub>>

\* App::emit_event.
EmitEvent ==
    /\ outbox # <<>>
    /\ hub' = Push(hub, Head(outbox)) /\ outbox' = Tail(outbox)
    /\ UNCHANGED <<setup, pane, handled>>

AppNext ==
    \/ ChangeState \/ ChangePresentation \/ PaneUpdates \/ MarkSeen \/ PaneMoves
    \/ AgentExits \/ AgentCleared \/ AgentReleased \/ AgentStarts \/ PaneDies \/ PaneCloses
    \/ OtherEvent \/ EmitEvent

\* A request is answered between handlers.
Answering == outbox = <<>>
HasAgent == pane.open /\ pane.agent # None

AppTypeOK ==
    /\ pane \in Panes /\ outbox \in Seq(Events)
    /\ hub.next \in Nat /\ hub.events \in Seq(Events)
    /\ Len(hub.events) = (IF hub.next < setup.capacity THEN hub.next ELSE setup.capacity)
    /\ handled \in 0 .. setup.handlers
=============================================================================
