----------------------------- MODULE AgentWait -----------------------------
(***************************************************************************)
(* agent.wait and agent.prompt with a wait (src/api/wait.rs): one API      *)
(* connection's thread.  It notes the hub's last number, asks for the      *)
(* agent, and then looks at the hub every 100 ms; an event about the pane  *)
(* makes it ask again.  Between each two of these steps the application    *)
(* may do anything.                                                        *)
(***************************************************************************)
EXTENDS AgentEvents

ASSUME WaitAssumption ==
    /\ "Working" \in Statuses
    /\ \A s \in Setups :
          /\ s.until \subseteq Statuses     \* the statuses waited for
          /\ s.prompts \in BOOLEAN         \* the wait follows a prompt (prompt_agent)
          /\ s.timed \in BOOLEAN           \* a timeout of more than five seconds is given

Until == setup.until

\* The id that the client addresses the pane by.
Target == 1

Results ==
    [kind : {"matched", "not_running", "timeout", "stalled", "error", "none"},
     status : Statuses \cup {None}, occupant : Nat \cup {None}, alive : BOOLEAN]

ASSUME NoneAssumption == None \notin Nat \cup Panes \cup Results

VARIABLES
    pc,             \* the thread's next step
    phase,          \* "gate": until the prompt has an effect; "settle"
    since,          \* the number noted first; every wait starts from it
    last,           \* last_event_sequence
    initial,        \* the agent as answered when the wait began
    after,          \* after_state_change_seq
    transient,      \* matched_event_status
    result,         \* the response
    \* history
    first,          \* the occupant when the number was noted; none if it had exited
    prompted,       \* the occupant that the prompt was sent to
    moved,          \* the agent has changed since then
    carried,        \* a move of the pane was published since the number was noted
    wanted,         \* number of the first wanted status published since the wait began
    lost            \* events were overwritten before the thread read them

waitVars ==
    <<pc, phase, since, last, initial, after, transient, result, first, prompted, moved,
      carried, wanted, lost>>
vars == <<appVars, waitVars>>

WaitInit ==
    /\ pc = "start" /\ phase = "settle" /\ since = 0 /\ last = 0
    /\ initial = None /\ after = None /\ transient = None /\ result = None
    /\ first = None /\ prompted = None /\ moved = FALSE /\ carried = FALSE
    /\ wanted = None /\ lost = FALSE

Init == AppInit /\ WaitInit

\* agent.get: resolve_agent_target takes an id only if it is the pane's present one.
Found == HasAgent /\ pane.id = Target

\* Is the agent that the wait is about there, wherever its pane was moved to?
Alive == HasAgent /\ ~pane.exited /\ pane.occupant = initial.occupant

Respond(kind, status, occupant) ==
    /\ result' = [kind |-> kind, status |-> status, occupant |-> occupant, alive |-> Alive]
    /\ pc' = "done"
Fail(kind) ==
    /\ result' = [kind |-> kind, status |-> None, occupant |-> None,
                  alive |-> initial # None /\ Alive]
    /\ pc' = "done"

\* The statuses of the running wait: any status shows that a prompt had effect.
Awaited == IF phase = "gate" THEN Statuses ELSE Until

\* agent_wait_matches.
Matches(status, changes) == status \in Awaited /\ (after = None \/ changes > after)

\* agent_wait_identity_matches: the terminal and its agent's label.
SameAgent == Found /\ pane.agent = initial.agent

\* wait_for_resolved_agent begins, from the number noted first.
Enter(new, bound) ==
    /\ phase' = new /\ after' = bound /\ last' = since /\ transient' = None
    /\ pc' = "look"
waiting == <<initial, phase, after, last, transient>>
history == <<first, prompted, moved, carried, wanted, lost>>

-----------------------------------------------------------------------------
(* The beginning of a wait.                                                *)

\* wait_for_agent, prompt_agent: event_hub.current_sequence.
Start ==
    /\ pc = "start" /\ pc' = "get"
    /\ since' = hub.next /\ last' = hub.next
    /\ first' = IF HasAgent /\ ~pane.exited /\ Answering THEN pane.occupant ELSE None
    /\ UNCHANGED <<phase, initial, after, transient, result, prompted, moved, carried, wanted,
                   lost>>

\* Mutant: the wait starts from the number that is the last one now.
GetLate ==
    /\ pc = "get" /\ Answering
    /\ initial' = pane
    /\ IF ~Found THEN Fail("error")
       ELSE IF ~setup.prompts /\ Matches(pane.status, pane.changes)
       THEN /\ result' = [kind |-> "matched", status |-> pane.status,
                          occupant |-> pane.occupant, alive |-> ~pane.exited]
            /\ pc' = "done"
       ELSE pc' = (IF setup.prompts THEN "prompt" ELSE "look") /\ UNCHANGED result
    /\ since' = hub.next /\ last' = hub.next
    /\ UNCHANGED <<phase, after, transient, history>>

\* The first agent_get.
Get ==
    /\ pc = "get" /\ Answering
    /\ initial' = pane
    /\ IF ~Found THEN Fail("error")
       ELSE IF ~setup.prompts /\ Matches(pane.status, pane.changes)
       THEN /\ result' = [kind |-> "matched", status |-> pane.status,
                          occupant |-> pane.occupant, alive |-> ~pane.exited]
            /\ pc' = "done"
       ELSE pc' = (IF setup.prompts THEN "prompt" ELSE "look") /\ UNCHANGED result
    /\ UNCHANGED <<phase, since, last, after, transient, history>>

\* Mutant: the gate is entered without the change it must follow.
PromptAnyChange ==
    /\ pc = "prompt" /\ Answering
    /\ initial' = pane /\ prompted' = pane.occupant
    /\ IF ~Found \/ pane.exited
       THEN Fail("error") /\ UNCHANGED <<phase, after, last, transient>>
       ELSE IF pane.agent # initial.agent
       THEN Fail("not_running") /\ UNCHANGED <<phase, after, last, transient>>
       ELSE /\ Enter(IF pane.status = "Working" THEN "settle" ELSE "gate", None)
            /\ UNCHANGED result
    /\ UNCHANGED <<since, first, moved, carried, wanted, lost>>

\* handle_agent_prompt sends the text, unless the agent is no longer the
\* foreground process; what the agent does about it is a later change.
Prompt ==
    /\ pc = "prompt" /\ Answering
    /\ initial' = pane /\ prompted' = pane.occupant
    /\ IF ~Found \/ pane.exited
       THEN Fail("error") /\ UNCHANGED <<phase, after, last, transient>>
       ELSE IF pane.agent # initial.agent
       THEN Fail("not_running") /\ UNCHANGED <<phase, after, last, transient>>
       ELSE /\ Enter(IF pane.status = "Working" THEN "settle" ELSE "gate", pane.changes)
            /\ UNCHANGED result
    /\ UNCHANGED <<since, first, moved, carried, wanted, lost>>

\* A request fails or is not answered in time.
RequestFails ==
    /\ pc \in {"get", "prompt", "probe", "final"}
    /\ Fail("error")
    /\ UNCHANGED <<since, waiting, history>>

\* should_stop_connection: the client has gone.
ClientGone ==
    /\ pc = "look" /\ Fail("none")
    /\ UNCHANGED <<since, waiting, history>>

-----------------------------------------------------------------------------
(* wait_for_resolved_agent.                                                *)

\* The wait ends with the agent; a gate that ends opens the settled wait,
\* unless the agent is as wanted already.
Finish(agent, status) ==
    IF phase = "gate" /\ status \notin Until
    THEN /\ initial' = [agent EXCEPT !.status = status]
         /\ Enter("settle", None) /\ UNCHANGED result
    ELSE Respond("matched", status, agent.occupant) /\ UNCHANGED waiting

\* The events about the pane, and those of them that end the wait: a move does.
Mine(event) == event.id = initial.id
Ends(event) ==
    /\ Mine(event)
    /\ \/ event.kind \in {"Released", "Moved", "Closed"}
       \/ event.kind = "Detected" /\ event.agent \notin {None, initial.agent}

\* The last status among the events up to the n-th that a transient match
\* accepts; a wait after a prompt accepts none.
TransientOf(events, n) ==
    LET hits == {i \in 1 .. n : /\ Mine(events[i])
                                /\ events[i].kind = "Status" /\ events[i].status \in Awaited}
    IN  IF setup.prompts \/ hits = {} THEN None
        ELSE events[CHOOSE i \in hits : \A j \in hits : j <= i].status

NoteLoss ==
    /\ lost' = (lost \/ hub.next - Len(hub.events) > last)
    /\ UNCHANGED <<first, prompted, moved, carried, wanted>>


\* One look at the hub, up to the first event that ends the wait.
Look ==
    /\ pc = "look"
    /\ LET events == EventsAfter(hub, last)
           ending == {i \in 1 .. Len(events) : Ends(events[i])}
           end == CHOOSE i \in ending : \A j \in ending : i <= j
           final == events[end].status
           seen == TransientOf(events, end)
       IN  IF ending # {}
           THEN IF events[end].kind = "Released" /\ (final \in Awaited \/ seen # None)
                THEN Finish(initial, IF final \in Awaited THEN final ELSE seen)
                ELSE Fail("not_running") /\ UNCHANGED waiting
           ELSE /\ pc' = IF \E i \in 1 .. Len(events) : Mine(events[i])
                         THEN "probe" ELSE "deadline"
                /\ last' = hub.next
                /\ transient' = TransientOf(events, Len(events))
                /\ UNCHANGED <<initial, phase, after, result>>
    /\ NoteLoss /\ UNCHANGED since

\* An event about the pane: the agent is asked for again.
Probe ==
    /\ pc = "probe" /\ Answering
    /\ IF ~SameAgent THEN Fail("not_running") /\ UNCHANGED waiting
       ELSE IF transient # None THEN Finish(pane, transient)
       ELSE IF Matches(pane.status, pane.changes) THEN Finish(pane, pane.status)
       ELSE pc' = "deadline" /\ UNCHANGED <<waiting, result>>
    /\ UNCHANGED <<since, history>>

\* The deadline is not there yet, or there is none.
Sleep ==
    /\ pc = "deadline" /\ pc' = "look"
    /\ UNCHANGED <<since, waiting, result, history>>

\* A prompt's effect is always waited for with a deadline.
DeadlinePasses ==
    /\ pc = "deadline" /\ (setup.timed \/ phase = "gate")
    /\ pc' = "final"
    /\ UNCHANGED <<since, waiting, result, history>>

\* The last look at the agent.
Final ==
    /\ pc = "final" /\ Answering
    /\ IF ~SameAgent THEN Fail("not_running") /\ UNCHANGED waiting
       ELSE IF Matches(pane.status, pane.changes) THEN Finish(pane, pane.status)
       ELSE Respond(IF phase = "gate" THEN "stalled" ELSE "timeout", pane.status, pane.occupant)
            /\ UNCHANGED waiting
    /\ UNCHANGED <<since, history>>

-----------------------------------------------------------------------------
ThreadStep ==
    \/ Start \/ Get \/ Prompt \/ Look \/ Probe \/ Sleep \/ DeadlinePasses \/ Final

WaitStep == ThreadStep \/ RequestFails \/ ClientGone

\* What the application does, noted for the properties.
Happens ==
    /\ AppNext
    /\ moved' = \/ moved
                \/ prompted # None /\ Raw(pane'.status) # Raw(pane.status)
                \/ prompted # None /\ <<pane'.agent, pane'.exited>> # <<pane.agent, pane.exited>>
    /\ carried' = (carried \/ (pc # "start" /\ hub' # hub /\ Head(outbox).kind = "Moved"))
    /\ wanted' = IF /\ wanted = None /\ pc \notin {"start", "done"} /\ hub' # hub
                    /\ Head(outbox).kind = "Status" /\ Head(outbox).id = Target
                    /\ Head(outbox).status \in Until
                 THEN hub.next + 1 ELSE wanted
    /\ UNCHANGED <<pc, since, waiting, result, first, prompted, lost>>

Next ==
    \/ WaitStep /\ UNCHANGED appVars
    \/ Happens

Spec == Init /\ [][Next]_vars

\* The thread runs, the application publishes what it has begun to, and time
\* passes; clients and agents need not do anything.
Fairness ==
    /\ WF_vars(ThreadStep /\ UNCHANGED appVars)
    /\ SF_vars(DeadlinePasses /\ UNCHANGED appVars)
    /\ WF_vars(EmitEvent /\ Happens)

FairSpec == Spec /\ Fairness

-----------------------------------------------------------------------------
(* Properties.                                                             *)

\* The type of every variable; the hub is full or holds every event there was.
TypeOK ==
    /\ AppTypeOK
    /\ pc \in {"start", "get", "prompt", "look", "probe", "deadline", "final", "done"}
    /\ phase \in {"gate", "settle"} /\ since \in Nat /\ last \in Nat
    /\ initial \in Panes \cup {None} /\ result \in Results \cup {None}
    /\ after \in Nat \cup {None} /\ transient \in Until \cup {None}
    /\ first \in Nat \cup {None} /\ prompted \in Nat \cup {None}
    /\ moved \in BOOLEAN /\ carried \in BOOLEAN /\ wanted \in Nat \cup {None} /\ lost \in BOOLEAN
    /\ pc = "done" <=> result # None

Responded(kind) == result # None /\ result.kind = kind

\* A wait that timed out read no wanted status: every one that was published
\* after the wait began and that the thread has read over would have ended it,
\* however short the agent had it, also when it came before the first answer.
\* Only an overwritten event may be missed (wait_for_resolved_agent).
WantedSeen ==
    Responded("timeout") /\ ~setup.prompts /\ ~lost => wanted = None \/ wanted > last

\* "agent_not_running" is said of an agent that is not there: its process has
\* exited, another one has its pane, or it is not seen, even if it was lost
\* from sight and came back in between; or its pane was moved, within the
\* workspace too, which ends a wait though the agent is running
\* (wait_for_resolved_agent).  This takes an agent that was there already when
\* the wait noted its number: the release of an earlier one would count.
NotRunningTrue ==
    Responded("not_running") /\ first = initial.occupant => ~result.alive \/ carried

\* A wait says nothing untrue, unless the pane was moved: neither that nothing
\* happened nor that the agent is not there.
AnswersTrue == TypeOK /\ WantedSeen /\ NotRunningTrue

\* A prompt that is answered as a success has been followed by a change of the
\* agent, its end included, and not only by some event about its pane
\* (prompt_agent).  Again the release of an earlier agent would count.
PromptObserved ==
    Responded("matched") /\ setup.prompts /\ first = prompted => moved

=============================================================================
