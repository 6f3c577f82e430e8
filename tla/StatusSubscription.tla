------------------------- MODULE StatusSubscription -------------------------
(***************************************************************************)
(* A pane.agent_status_changed subscription (src/api/subscriptions.rs),    *)
(* streamed by events.subscribe or waited for by events.wait.  It reads    *)
(* the event hub and, when nothing is left to read, asks for the pane and  *)
(* compares: so it also sees what was never published or is overwritten.   *)
(***************************************************************************)
EXTENDS AgentEvents

ASSUME SubscriptionAssumption ==
    \A s \in Setups :
       /\ s.wanted \in Statuses \cup {None}   \* status_filter
       /\ s.oneShot \in BOOLEAN               \* events.wait, not events.subscribe

Wanted == setup.wanted
OneShot == setup.oneShot

VARIABLES
    step,           \* the thread's next step
    paneId,         \* pane_id
    lastStatus,     \* last_status
    lastSequence,   \* last_sequence
    initialEvent,   \* initial_event is still to be told
    snapshot,       \* the pane as answered, or None
    \* history
    heard,          \* what the subscriber knows
    heardAt,        \* the number up to which that takes the events in
    answeredAt      \* the hub's last number when the pane was answered

subVars == <<step, paneId, lastStatus, lastSequence, initialEvent, snapshot, heard, heardAt, answeredAt>>
allVars == <<appVars, subVars>>

SubInit ==
    /\ AppInit
    /\ step = "new" /\ paneId = 0 /\ lastStatus = None /\ lastSequence = 0
    /\ initialEvent = FALSE /\ snapshot = None
    /\ heard = None /\ heardAt = 0 /\ answeredAt = 0

Passes(status) == Wanted \in {None, status}

\* A stream goes on polling, a wait is over.
Tell(status, number) ==
    /\ heard' = status /\ heardAt' = number
    /\ step' = IF OneShot THEN "done" ELSE "poll"
Silent == UNCHANGED <<heard, heardAt>>

-----------------------------------------------------------------------------
\* ActiveSubscription::new notes the hub's last number,
New ==
    /\ step = "new" /\ step' = "probe" /\ lastSequence' = hub.next
    /\ UNCHANGED <<paneId, lastStatus, initialEvent, snapshot, answeredAt>> /\ Silent

\* Mutant: a status that is there already is not told.
ProbeSilent ==
    /\ step = "probe" /\ Answering
    /\ IF pane.open
       THEN /\ step' = "poll" /\ paneId' = pane.id /\ lastStatus' = pane.status
            /\ initialEvent' = FALSE
            /\ heard' = IF Wanted = None THEN pane.status ELSE None
            /\ heardAt' = lastSequence
       ELSE step' = "done" /\ UNCHANGED <<paneId, lastStatus, initialEvent>> /\ Silent
    /\ answeredAt' = hub.next
    /\ UNCHANGED <<lastSequence, snapshot>>

\* then asks for the pane.  A subscriber without a filter is taken to know the
\* status it had then.
SubscriptionProbe ==
    /\ step = "probe" /\ Answering
    /\ IF pane.open
       THEN /\ step' = "poll" /\ paneId' = pane.id /\ lastStatus' = pane.status
            /\ initialEvent' = (Wanted = pane.status)
            /\ heard' = IF Wanted = None THEN pane.status ELSE None
            /\ heardAt' = lastSequence
       ELSE step' = "done" /\ UNCHANGED <<paneId, lastStatus, initialEvent>> /\ Silent
    /\ answeredAt' = hub.next
    /\ UNCHANGED <<lastSequence, snapshot>>

\* poll_result: the events, up to the first that is told.
PollEvents ==
    /\ step = "poll"
    /\ LET events == EventsAfter(hub, lastSequence)
           read == hub.next - Len(events)
           statuses == {i \in 1 .. Len(events) : /\ events[i].id = paneId
                                                 /\ events[i].kind = "Status"}
           told == {i \in statuses : Passes(events[i].status)}
           one == CHOOSE i \in told : \A j \in told : i <= j
           newest == CHOOSE i \in statuses : \A j \in statuses : j <= i
       IN  IF told # {}
           THEN /\ lastSequence' = read + one /\ lastStatus' = events[one].status
                /\ initialEvent' = FALSE
                /\ Tell(events[one].status, read + one)
           ELSE /\ lastSequence' = IF events = <<>> THEN lastSequence ELSE hub.next
                /\ lastStatus' = IF statuses = {} THEN lastStatus ELSE events[newest].status
                /\ initialEvent' = (initialEvent /\ statuses = {})
                /\ step' = IF statuses = {} THEN "check" ELSE "ask"
                /\ Silent
    /\ UNCHANGED <<paneId, snapshot, answeredAt>>

\* Nothing about the pane: unless more has come, the first status is told.
CheckSequence ==
    /\ step = "check"
    /\ IF hub.next # lastSequence
       THEN step' = "poll" /\ UNCHANGED initialEvent /\ Silent
       ELSE IF initialEvent THEN Tell(Wanted, lastSequence) /\ initialEvent' = FALSE
       ELSE step' = "ask" /\ UNCHANGED initialEvent /\ Silent
    /\ UNCHANGED <<paneId, lastStatus, lastSequence, snapshot, answeredAt>>

\* pane.get: the pane is found under an id that it had before a move, too.
AskPane ==
    /\ step = "ask" /\ step' = "compare" /\ Answering
    /\ snapshot' = pane /\ answeredAt' = hub.next
    /\ UNCHANGED <<paneId, lastStatus, lastSequence, initialEvent>> /\ Silent

\* The request is not answered in time.
AskFails ==
    /\ step = "ask" /\ step' = "compare" /\ snapshot' = None
    /\ UNCHANGED <<paneId, lastStatus, lastSequence, initialEvent, answeredAt>> /\ Silent

\* Mutant: the answer counts whatever was published meanwhile.
CompareAnyway ==
    /\ step = "compare"
    /\ IF snapshot = None
       THEN step' = "poll" /\ UNCHANGED lastStatus /\ Silent
       ELSE IF ~snapshot.open
       THEN step' = (IF OneShot THEN "done" ELSE "poll") /\ UNCHANGED lastStatus /\ Silent
       ELSE /\ lastStatus' = snapshot.status
            /\ IF snapshot.status # lastStatus /\ Passes(snapshot.status)
               THEN Tell(snapshot.status, answeredAt)
               ELSE step' = "poll" /\ Silent
    /\ UNCHANGED <<paneId, lastSequence, initialEvent, snapshot, answeredAt>>

\* The answer counts if nothing was published meanwhile: event_from_snapshot.
\* A pane that is gone ends a wait (pane_not_found).
Compare ==
    /\ step = "compare"
    /\ IF hub.next # lastSequence \/ snapshot = None
       THEN step' = "poll" /\ UNCHANGED lastStatus /\ Silent
       ELSE IF ~snapshot.open
       THEN step' = (IF OneShot THEN "done" ELSE "poll") /\ UNCHANGED lastStatus /\ Silent
       ELSE /\ lastStatus' = snapshot.status
            /\ IF snapshot.status # lastStatus /\ Passes(snapshot.status)
               THEN Tell(snapshot.status, answeredAt)
               ELSE step' = "poll" /\ Silent
    /\ UNCHANGED <<paneId, lastSequence, initialEvent, snapshot, answeredAt>>

\* The client is gone, or the wait's deadline is there.
Stop ==
    /\ step = "poll" /\ step' = "done"
    /\ UNCHANGED <<paneId, lastStatus, lastSequence, initialEvent, snapshot, answeredAt>> /\ Silent

SubscriptionStep ==
    New \/ SubscriptionProbe \/ PollEvents \/ CheckSequence \/ AskPane \/ Compare

SubNext ==
    \/ (SubscriptionStep \/ AskFails \/ Stop) /\ UNCHANGED appVars
    \/ AppNext /\ UNCHANGED subVars

\* The thread runs, a pane that is asked for again and again is answered at
\* some time, and the application publishes what it has begun to.
SubFairness ==
    /\ WF_allVars(SubscriptionStep /\ UNCHANGED appVars)
    /\ SF_allVars(AskPane /\ UNCHANGED appVars)
    /\ WF_allVars(EmitEvent /\ UNCHANGED subVars)

SubSpec == SubInit /\ [][SubNext]_allVars
FairSubSpec == SubSpec /\ SubFairness

-----------------------------------------------------------------------------
(* Properties.                                                             *)

\* A subscriber is never told something older than what it heard before:
\* events it has still to read are not overtaken by an answer about the pane
\* that takes them in already (poll_result).
NeverBackwards == [][heardAt' >= heardAt]_allVars

\* Whatever the subscriber has missed, be it overwritten in the hub or never
\* published, once the pane keeps a status (it does when the bounded handlers
\* have run) the subscriber has heard of it, or its subscription is over
\* (event_from_snapshot).
CaughtUp ==
    <>[](pane.open /\ Passes(pane.status)) => <>[](heard = pane.status \/ step = "done")
=============================================================================
