---------------------------- MODULE AgentEventsProofs ----------------------------
(***************************************************************************)
(* Proofs about the readers of the event hub, waits (AgentWait) and        *)
(* subscriptions (StatusSubscription), for any agents, statuses, hub       *)
(* capacity and number of handlers.  Events have numbers.                  *)
(*                                                                         *)
(* Waits: as long as the occupant of the pane is the one that was there    *)
(* when the wait noted its number, no event that ends the wait was         *)
(* published since but a move (OccupantOK), and the pane is found under    *)
(* its id until a move of it is published (MoveOK, CarriedOK); the first   *)
(* wanted status is still to be read, or has been noted, or was            *)
(* overwritten (WantedOK); and until the agent has changed after a prompt, *)
(* everything that could end the gate is as it was (PromptOK).             *)
(*                                                                         *)
(* Subscriptions: what the subscriber has heard takes in no more than the  *)
(* events it has read (HeardOK); an answer about the pane may only be told *)
(* when it does not run ahead of them.                                     *)
(***************************************************************************)
EXTENDS AgentWait, StatusSubscription, SequenceTheorems, WellFoundedInduction, TLAPS

\* The number before the oldest event the hub has, and the event of a number.
Oldest == hub.next - Len(hub.events)
At(n) == hub.events[n - Oldest]

\* The thread is in wait_for_resolved_agent.
Running == pc \in {"look", "probe", "deadline", "final"}

\* The occupant is in the pane, or lost from sight; its label.
Present == IF pane.agent # None THEN ~pane.exited ELSE pane.unseen # None
Label == IF pane.agent # None THEN pane.agent ELSE pane.unseen

\* The events that do not end a wait for an agent of that label, or end it
\* because the pane was moved.
Safe(label) ==
    {e \in Events : /\ e.kind \notin {"Released", "Closed"}
                    /\ e.kind = "Detected" => e.agent \in {None, label}}

\* The statuses that a wait is for, as they are published.
WantedEvents == {e \in Events : e.id = Target /\ e.kind = "Status" /\ e.status \in Until}

PaneOK ==
    /\ setup \in Setups
    /\ pane.agent # None => pane.open /\ pane.unseen = None
    /\ pane.unseen # None => pane.open
    /\ pane.exited => pane.agent # None

\* What has been noted at each step of the thread.
StageOK ==
    /\ pc \in {"start", "get"} => initial = None /\ last = since
    /\ pc = "start" => first = None /\ wanted = None
    /\ pc = "prompt" => setup.prompts /\ last = since
    /\ pc \in {"start", "get", "prompt"} => prompted = None /\ transient = None /\ phase = "settle"
    /\ pc = "prompt" \/ Running => initial # None /\ initial.agent # None
    /\ Running /\ setup.prompts => prompted # None
    /\ phase = "gate" => setup.prompts
    /\ setup.prompts => transient = None
    /\ ~setup.prompts => after = None

NumbersOK ==
    /\ since <= last /\ last <= hub.next
    /\ wanted # None => since < wanted /\ wanted <= hub.next

\* The first wanted status is in the hub unless it was overwritten, and the
\* thread has it before it or has noted it.
WantedOK ==
    /\ wanted # None /\ wanted > Oldest => At(wanted) \in WantedEvents
    /\ Running /\ ~setup.prompts /\ ~lost /\ wanted # None =>
          wanted > last \/ (pc = "probe" /\ transient # None)

\* Who is in the pane, and what was published about it since the wait began.
OccupantOK ==
    /\ first # None => first <= pane.occupant
    /\ initial # None => initial.occupant <= pane.occupant
    /\ initial # None /\ initial.agent # None /\ initial.occupant = pane.occupant =>
          pane.agent \in {None, initial.agent} /\ pane.unseen \in {None, initial.agent}
    /\ Present /\ pane.occupant = first =>
          /\ outbox \in Seq(Safe(Label))
          /\ \A n \in since + 1 .. hub.next : n > Oldest => At(n) \in Safe(Label)

\* As long as the agent has not changed after the prompt.
PromptOK ==
    Running /\ setup.prompts /\ first = prompted /\ ~moved =>
       /\ pane.agent # None /\ ~pane.exited /\ pane.agent = initial.agent
       /\ pane.occupant = prompted
       /\ after = pane.changes

\* The pane has the id it is addressed by until a move of it is about to be
\* published, or was since the wait noted its number.
Home ==
    \/ pane.id = Target \/ carried
    \/ outbox # <<>> /\ Head(outbox).kind = "Moved"

MoveOK == pc = "prompt" \/ Running => initial.id = Target /\ Home

\* A move that was published since is noted.
CarriedOK ==
    pc # "start" /\ ~carried =>
       \A n \in since + 1 .. hub.next : n > Oldest => At(n).kind # "Moved"

IInv ==
    /\ TypeOK /\ PaneOK /\ StageOK /\ NumbersOK /\ WantedOK /\ OccupantOK /\ PromptOK
    /\ MoveOK /\ CarriedOK
    /\ WantedSeen /\ NotRunningTrue /\ PromptObserved

-----------------------------------------------------------------------------
(* Numbers and the hub.                                                    *)

\* A set of positions that is not empty has a first one and a last one.
LEMMA LeastNumber ==
    ASSUME NEW n \in Nat, NEW P \in SUBSET (0 .. n), NEW k \in P
    PROVE  \E i \in P : \A j \in P : i <= j
<1> DEFINE R == OpToRel(<, Nat)
<1>1. IsWellFoundedOn(R, Nat)
  BY NatLessThanWellFounded
<1>2. P \subseteq Nat /\ P # {}
  OBVIOUS
<1> HIDE DEF R
<1>3. PICK i \in P : \A j \in P : ~(<<j, i>> \in R)
  BY <1>1, <1>2, WFMin
<1>4. \A j \in P : ~(j < i)
  BY <1>2, <1>3 DEF R, OpToRel
<1> QED
  BY <1>2, <1>4

LEMMA GreatestNumber ==
    ASSUME NEW n \in Nat, NEW P \in SUBSET (0 .. n), NEW k \in P
    PROVE  \E i \in P : \A j \in P : j <= i
<1> DEFINE Q == {n - i : i \in P}
<1>1. Q \in SUBSET (0 .. n) /\ n - k \in Q
  OBVIOUS
<1> HIDE DEF Q
<1>2. PICK q \in Q : \A r \in Q : q <= r
  BY <1>1, LeastNumber
<1>3. PICK i \in P : q = n - i
  BY <1>2 DEF Q
<1>4. \A j \in P : n - i <= n - j
  BY <1>2, <1>3 DEF Q
<1>5. \A j \in P : j <= i
  BY <1>4
<1> QED
  BY <1>5

\* The numbers of the hub and of a setup.
LEMMA HubFacts ==
    ASSUME IInv
    PROVE  /\ hub.next \in Nat /\ hub.events \in Seq(Events) /\ Len(hub.events) \in Nat
           /\ Oldest \in Nat /\ Oldest <= hub.next
           /\ setup.capacity \in Nat /\ setup.capacity > 0 /\ setup.handlers \in Nat
           /\ setup.agents \subseteq Agents /\ Until \subseteq Statuses
           /\ setup.prompts \in BOOLEAN
<1>1. /\ hub.next \in Nat /\ hub.events \in Seq(Events)
      /\ Len(hub.events) = (IF hub.next < setup.capacity THEN hub.next ELSE setup.capacity)
  BY DEF IInv, TypeOK, AppTypeOK
<1>2. /\ setup.capacity \in Nat /\ setup.capacity > 0 /\ setup.handlers \in Nat
      /\ setup.agents \subseteq Agents
      /\ Until \subseteq Statuses /\ setup.prompts \in BOOLEAN
  BY EventsAssumption, WaitAssumption DEF IInv, PaneOK, Until
<1> QED
  BY <1>1, <1>2 DEF Oldest

\* EventHub::push: the event gets the next number, the others keep theirs.
LEMMA PushFacts ==
    ASSUME IInv, NEW e \in Events, hub' = Push(hub, e), setup' = setup
    PROVE  /\ hub'.next = hub.next + 1 /\ hub'.events \in Seq(Events)
           /\ Len(hub'.events) = (IF hub'.next < setup'.capacity THEN hub'.next ELSE setup'.capacity)
           /\ Oldest' \in Nat /\ Oldest' >= Oldest
           /\ \A n \in Nat : n = hub.next + 1 => At(n)' = e
           /\ \A n \in Nat : n > Oldest' /\ n <= hub.next => At(n)' = At(n)
<1> DEFINE s == hub.events
           t == Append(s, e)
           c == setup.capacity
<1>1. /\ hub.next \in Nat /\ s \in Seq(Events) /\ Len(s) \in Nat /\ c \in Nat /\ c > 0
      /\ Len(s) = (IF hub.next < c THEN hub.next ELSE c)
      /\ Oldest = hub.next - Len(s) /\ Oldest' = hub'.next - Len(hub'.events)
  BY HubFacts DEF IInv, TypeOK, AppTypeOK, Oldest
<1>2. /\ t \in Seq(Events) /\ Len(t) = Len(s) + 1 /\ t[Len(s) + 1] = e
      /\ \A i \in 1 .. Len(s) : t[i] = s[i]
  BY <1>1, AppendProperties
<1>3. t # <<>>
  BY <1>1, <1>2, EmptySeq
<1>4. /\ Tail(t) \in Seq(Events) /\ Len(Tail(t)) = Len(t) - 1
      /\ \A i \in 1 .. Len(t) - 1 : Tail(t)[i] = t[i + 1]
  BY <1>2, <1>3, HeadTailProperties
<1>5. hub'.next = hub.next + 1 /\ hub'.events = IF Len(t) > c THEN Tail(t) ELSE t
  BY DEF Push
<1> HIDE DEF t
<1>6. CASE Len(t) > c
  <2>1. hub'.events = Tail(t) /\ Len(hub'.events) = Len(s) /\ Len(s) = c /\ ~(hub.next < c)
    BY <1>1, <1>2, <1>4, <1>5, <1>6
  <2>2. Oldest' = Oldest + 1 /\ Oldest \in Nat
    BY <1>1, <1>5, <2>1
  <2>3. ASSUME NEW n \in Nat, n = hub.next + 1 PROVE At(n)' = e
    <3>1. n - Oldest' = Len(s) /\ Len(s) \in 1 .. Len(t) - 1
      BY <1>1, <1>2, <1>5, <2>1, <2>3
    <3>2. Tail(t)[Len(s)] = e
      BY <1>2, <1>4, <3>1
    <3> QED
      BY <2>1, <3>1, <3>2 DEF At
  <2>4. ASSUME NEW n \in Nat, n > Oldest', n <= hub.next PROVE At(n)' = At(n)
    <3> DEFINE i == n - Oldest'
    <3>1. /\ hub.next \in Nat /\ Len(s) \in Nat /\ Len(t) = Len(s) + 1
          /\ Oldest = hub.next - Len(s) /\ Oldest' = Oldest + 1 /\ Oldest \in Nat
      BY <1>1, <1>2, <2>2
    <3>2. i \in 1 .. Len(t) - 1 /\ i + 1 \in 1 .. Len(s) /\ i + 1 = n - Oldest
      BY SMTT(20), <2>4, <3>1
    <3> HIDE DEF i
    <3>3. hub'.events[i] = s[i + 1]
      BY <1>2, <1>4, <2>1, <3>2
    <3> QED
      BY <3>2, <3>3 DEF At, i
  <2> QED
    BY <1>1, <1>4, <1>5, <2>1, <2>2, <2>3, <2>4
<1>7. CASE ~(Len(t) > c)
  <2>1. hub'.events = t /\ Len(hub'.events) = Len(s) + 1 /\ hub.next < c /\ Len(s) = hub.next
    BY <1>1, <1>2, <1>5, <1>7
  <2>2. Oldest' = 0 /\ Oldest = 0
    BY <1>1, <1>5, <2>1 DEF Oldest
  <2>3. ASSUME NEW n \in Nat, n = hub.next + 1 PROVE At(n)' = e
    <3>1. n - Oldest' = Len(s) + 1
      BY <1>1, <2>1, <2>2, <2>3
    <3> QED
      BY <1>2, <2>1, <3>1 DEF At
  <2>4. ASSUME NEW n \in Nat, n > Oldest', n <= hub.next PROVE At(n)' = At(n)
    <3>1. n - Oldest' = n /\ n - Oldest = n /\ n \in 1 .. Len(s)
      BY <1>1, <2>1, <2>2, <2>4
    <3> QED
      BY <1>2, <2>1, <3>1 DEF At
  <2>5. Len(hub'.events) = (IF hub'.next < c THEN hub'.next ELSE c)
    <3>1. hub'.next = hub.next + 1 /\ Len(hub'.events) = hub.next + 1 /\ hub.next < c
      BY <1>1, <1>5, <2>1
    <3>2. hub'.next <= c
      BY <1>1, <3>1
    <3> QED
      BY <1>1, <3>1, <3>2
  <2>6. hub'.events \in Seq(Events) /\ Oldest' \in Nat /\ Oldest' >= Oldest
    BY <1>2, <2>1, <2>2
  <2>7. setup'.capacity = c
    OBVIOUS
  <2> HIDE DEF c
  <2> QED
    BY <1>5, <2>3, <2>4, <2>5, <2>6, <2>7
<1> QED
  BY <1>6, <1>7

\* EventHub::events_after: the events read are numbered on from the last one
\* that was read, or from the oldest there is.
LEMMA ReadFacts ==
    ASSUME IInv
    PROVE  LET events == EventsAfter(hub, last)
               read == hub.next - Len(events)
           IN  /\ events \in Seq(Events) /\ Len(events) \in Nat
               /\ read \in Nat /\ read >= last /\ read >= Oldest
               /\ Oldest <= last => read = last
               /\ \A i \in 1 .. Len(events) : events[i] = At(read + i)
<1> DEFINE s == hub.events
           from == IF last > Oldest THEN last - Oldest ELSE 0
           events == EventsAfter(hub, last)
<1>1. /\ hub.next \in Nat /\ s \in Seq(Events) /\ Len(s) \in Nat /\ Oldest \in Nat
      /\ last \in Nat /\ last <= hub.next /\ Len(s) = hub.next - Oldest
  <2>1. /\ hub.next \in Nat /\ s \in Seq(Events) /\ Len(s) \in Nat /\ Oldest \in Nat
    BY HubFacts
  <2>2. last \in Nat /\ last <= hub.next
    BY DEF IInv, TypeOK, NumbersOK
  <2> QED
    BY <2>1, <2>2 DEF Oldest
<1>2. \A i \in 1 .. Len(s) : s[i] \in Events
  BY <1>1, ElementOfSeq
<1>3. from \in 0 .. Len(s) /\ Oldest + from >= last /\ (Oldest <= last => Oldest + from = last)
  BY <1>1
<1>4. events = SubSeq(s, from + 1, Len(s))
  BY DEF EventsAfter, Oldest
<1> HIDE DEF from, events
<1>5. \A i \in (from + 1) .. Len(s) : s[i] \in Events
  BY <1>1, <1>2, <1>3
<1>6. /\ events \in Seq(Events)
      /\ Len(events) = IF from + 1 <= Len(s) THEN Len(s) - (from + 1) + 1 ELSE 0
      /\ \A i \in 1 .. Len(s) - (from + 1) + 1 : events[i] = s[from + 1 + i - 1]
  <2>1. from + 1 \in Int /\ Len(s) \in Int
    BY <1>1, <1>3
  <2> QED
    BY <1>4, <1>5, <2>1, SubSeqProperties
<1>7. Len(events) = Len(s) - from /\ Len(events) \in Nat
  <2>1. Len(events) = IF from + 1 <= Len(s) THEN Len(s) - (from + 1) + 1 ELSE 0
    BY <1>6
  <2>2. from \in Nat /\ Len(s) \in Nat /\ from <= Len(s)
    BY <1>1, <1>3
  <2> HIDE DEF s
  <2>3. QED
    BY <2>1, <2>2
<1>8. hub.next - Len(events) = Oldest + from
  BY <1>1, <1>3, <1>7
<1>9. ASSUME NEW i \in 1 .. Len(events) PROVE events[i] = At(Oldest + from + i)
  <2>1. i \in 1 .. Len(s) - (from + 1) + 1 /\ from + 1 + i - 1 = (Oldest + from + i) - Oldest
    <3>1. from \in Nat /\ Len(s) \in Nat /\ Oldest \in Nat /\ Len(events) = Len(s) - from /\ i \in 1 .. Len(events)
      BY <1>1, <1>3, <1>7
    <3> HIDE DEF s
    <3>2. QED
      BY <3>1
  <2>2. events[i] = s[from + 1 + i - 1]
    BY <1>6, <2>1
  <2> QED
    BY <2>1, <2>2 DEF At
<1> DEFINE read == hub.next - Len(events)
<1>10. read \in Nat /\ read >= last /\ read >= Oldest /\ (Oldest <= last => read = last)
  BY <1>1, <1>3, <1>8
<1>11. \A i \in 1 .. Len(events) : events[i] = At(read + i)
  BY <1>8, <1>9
<1> QED
  BY <1>6, <1>7, <1>10, <1>11 DEF events

-----------------------------------------------------------------------------
(* The application.                                                        *)

LEMMA PaneFacts ==
    ASSUME IInv
    PROVE  /\ pane \in Panes /\ pane.open \in BOOLEAN /\ pane.agent \in Agents \cup {None}
           /\ pane.exited \in BOOLEAN /\ pane.occupant \in Nat /\ pane.unseen \in Agents \cup {None}
           /\ pane.status \in Statuses /\ pane.changes \in Nat /\ pane.id \in Nat
           /\ handled \in Nat /\ handled <= setup.handlers /\ outbox \in Seq(Events)
<1>1. pane \in Panes /\ handled \in 0 .. setup.handlers /\ outbox \in Seq(Events)
  BY DEF IInv, TypeOK, AppTypeOK
<1>2. setup.handlers \in Nat
  BY HubFacts
<1> QED
  BY <1>1, <1>2 DEF Panes

\* A status that may follow is a status.
LEMMA StatusFacts ==
    ASSUME IInv, NEW raw \in RawStates, NEW agent, NEW status \in StatusesFor(raw, agent)
    PROVE  status \in Statuses
<1>1. raw \in Statuses /\ {"Idle", "Done"} \subseteq Statuses /\ pane.status \in Statuses
  BY PaneFacts, EventsAssumption DEF RawStates
<1> QED
  BY <1>1 DEF StatusesFor

\* The events are of the published kinds; a change of status ends no wait.
LEMMA EventFacts ==
    ASSUME pane.id \in Nat
    PROVE  /\ \A s \in Statuses : StatusChanged(s) \in Events
           /\ \A a \in Agents \cup {None} : Detected(a) \in Events
           /\ \A a \in Agents \cup {None}, s \in Statuses : Released(a, s) \in Events
           /\ Closed \in Events /\ Other \in Events /\ Updated \in Events
           /\ Moved \in Events /\ Moved.kind = "Moved"
           /\ \A l : /\ \A s \in Statuses : StatusChanged(s) \in Safe(l)
                     /\ Other \in Safe(l) /\ Updated \in Safe(l) /\ Moved \in Safe(l)
                     /\ Safe(l) \subseteq Events
                     /\ Detected(None) \in Safe(l)
                     /\ l \in Agents => Detected(l) \in Safe(l)
<1>1. \A s \in Statuses : /\ StatusChanged(s) \in Events /\ StatusChanged(s).kind = "Status"
  BY DEF StatusChanged, About, Events
<1>2. \A a \in Agents \cup {None} : /\ Detected(a) \in Events /\ Detected(a).kind = "Detected"
                                    /\ Detected(a).agent = a
  BY DEF Detected, About, Events
<1>3. \A a \in Agents \cup {None}, s \in Statuses : Released(a, s) \in Events
  BY DEF Released, About, Events
<1>4. Closed \in Events /\ Other \in Events /\ Other.kind = "Other"
  BY DEF Closed, About, Other, Events
<1>5. /\ Updated \in Events /\ Updated.kind = "Updated"
      /\ Moved \in Events /\ Moved.kind = "Moved"
  BY DEF Updated, Moved, About, Events
<1> QED
  BY <1>1, <1>2, <1>3, <1>4, <1>5 DEF Safe

\* emit_pane_state_update adds at most a change of status.
LEMMA UpdateFacts ==
    ASSUME NEW new, new.status \in Statuses, NEW S, \A s \in Statuses : StatusChanged(s) \in S,
           NEW events \in Seq(S)
    PROVE  UpdateEvents(new, events) \in Seq(S)
<1>1. StatusChanged(new.status) \in S
  OBVIOUS
<1>2. <<>> \in Seq(S) /\ <<StatusChanged(new.status)>> \in Seq(S)
  BY <1>1
<1> QED
  BY <1>2, ConcatProperties DEF UpdateEvents

\* What every handler keeps, and what it may not do to an occupant unseen.
Handled ==
    /\ setup' = setup /\ hub' = hub /\ pane' \in Panes /\ outbox' \in Seq(Events)
    /\ handled' \in 0 .. setup.handlers /\ outbox = <<>>
    /\ pane'.agent # None => pane'.open /\ pane'.unseen = None
    /\ pane'.unseen # None => pane'.open
    /\ pane'.exited => pane'.agent # None
    /\ pane'.occupant \in {pane.occupant, pane.occupant + 1}
    /\ pane'.occupant = pane.occupant =>
          pane'.agent \in {None, Label} /\ pane'.unseen \in {None, Label}
    /\ pane'.occupant = pane.occupant /\ Present' =>
          Present /\ Label' = Label /\ outbox' \in Seq(Safe(Label))
    /\ /\ pane.agent # None /\ pane'.agent = pane.agent /\ pane'.exited = pane.exited
       /\ Raw(pane'.status) = Raw(pane.status)
       => pane'.changes = pane.changes /\ pane'.occupant = pane.occupant
    /\ pane'.id = pane.id \/ (outbox' # <<>> /\ Head(outbox').kind = "Moved")

\* The frame of a handler.
LEMMA HandleFacts ==
    ASSUME IInv, NEW new \in Panes, NEW events \in Seq(Events), Handle(new, events)
    PROVE  /\ setup' = setup /\ hub' = hub /\ outbox' = events /\ outbox' \in Seq(Events)
           /\ handled' \in 0 .. setup.handlers /\ outbox = <<>>
           /\ pane' \in Panes /\ pane'.open = new.open /\ pane'.agent = new.agent
           /\ pane'.exited = new.exited /\ pane'.occupant = new.occupant
           /\ pane'.unseen = new.unseen /\ pane'.status = new.status /\ pane'.id = new.id
           /\ Raw(new.status) = Raw(pane.status) => pane'.changes = new.changes
<1>1. /\ setup' = setup /\ hub' = hub /\ outbox' = events /\ outbox = <<>>
      /\ handled < setup.handlers /\ handled' = handled + 1
  BY DEF Handle
<1>2. handled \in Nat /\ setup.handlers \in Nat
  BY PaneFacts, HubFacts
<1>3. handled' \in 0 .. setup.handlers /\ handled + 1 \in Nat
  BY <1>1, <1>2
<1>4. PICK c \in Nat : /\ pane' = [new EXCEPT !.changes = c]
                       /\ Raw(new.status) = Raw(pane.status) => c = new.changes
  <2>1. new.changes \in Nat
    BY DEF Panes
  <2>2. CASE Raw(new.status) = Raw(pane.status)
    BY <2>1, <2>2 DEF Handle
  <2>3. CASE Raw(new.status) # Raw(pane.status)
    BY <1>3, <2>3 DEF Handle
  <2> QED
    BY <2>2, <2>3
<1>5. /\ pane' \in Panes /\ pane'.open = new.open /\ pane'.agent = new.agent
      /\ pane'.exited = new.exited /\ pane'.occupant = new.occupant
      /\ pane'.unseen = new.unseen /\ pane'.status = new.status /\ pane'.changes = c
      /\ pane'.id = new.id
  BY <1>4 DEF Panes
<1> QED
  BY <1>1, <1>3, <1>4, <1>5

\* The pane without its agent.
LEMMA GoneFacts ==
    ASSUME IInv
    PROVE  /\ Gone \in Panes /\ Gone.agent = None /\ ~Gone.exited /\ Gone.unseen = None
           /\ Gone.status = "Unknown" /\ Gone.open = pane.open /\ Gone.occupant = pane.occupant
           /\ Gone.changes = pane.changes /\ Gone.id = pane.id
BY PaneFacts, EventsAssumption DEF Gone, Panes

\* Each handler.
LEMMA HandlerFacts ==
    ASSUME IInv, AppNext, ~EmitEvent
    PROVE  Handled
<1>0. /\ pane \in Panes /\ pane.open \in BOOLEAN /\ pane.agent \in Agents \cup {None}
      /\ pane.exited \in BOOLEAN /\ pane.occupant \in Nat /\ pane.unseen \in Agents \cup {None}
      /\ pane.status \in Statuses /\ pane.changes \in Nat /\ pane.id \in Nat
      /\ handled \in Nat /\ handled <= setup.handlers
  BY PaneFacts
<1>1. /\ pane.agent # None => pane.open /\ pane.unseen = None
      /\ pane.unseen # None => pane.open
      /\ pane.exited => pane.agent # None
  BY DEF IInv, PaneOK
<1>2. /\ None \notin Agents /\ "Idle" \in RawStates /\ {"Idle", "Unknown"} \subseteq Statuses
      /\ "Idle" # "Done" /\ setup.agents \subseteq Agents /\ setup.handlers \in Nat
  BY EventsAssumption, HubFacts DEF RawStates
<1>3. \A S : <<>> \in Seq(S)
  OBVIOUS
<1>4. CASE ChangeState
  <2>1. PICK raw \in RawStates \ {Raw(pane.status)} :
           \E status \in StatusesFor(raw, pane.agent) :
              LET new == [pane EXCEPT !.status = status]
              IN  pane.agent # None /\ ~pane.exited /\ Handle(new, UpdateEvents(new, <<>>))
    BY <1>4 DEF ChangeState
  <2>2. PICK status \in StatusesFor(raw, pane.agent) :
              LET new == [pane EXCEPT !.status = status]
              IN  pane.agent # None /\ ~pane.exited /\ Handle(new, UpdateEvents(new, <<>>))
    BY <2>1
  <2> DEFINE new == [pane EXCEPT !.status = status]
             events == UpdateEvents(new, <<>>)
  <2>3. status \in Statuses
    BY StatusFacts
  <2>4. /\ new \in Panes /\ new.open = pane.open /\ new.agent = pane.agent /\ new.status = status
        /\ new.exited = pane.exited /\ new.occupant = pane.occupant /\ new.unseen = pane.unseen
        /\ new.changes = pane.changes /\ new.id = pane.id
    BY <1>0, <2>3 DEF Panes
  <2> HIDE DEF new
  <2>5. events \in Seq(Events) /\ events \in Seq(Safe(Label))
    BY <1>3, <2>3, <2>4, <1>0, EventFacts, UpdateFacts
  <2> HIDE DEF events
  <2>6. Handle(new, events)
    BY <2>2 DEF new, events
  <2> QED
    BY <1>0, <1>1, <2>2, <2>4, <2>5, <2>6, HandleFacts DEF Handled, Present, Label
<1>5. CASE ChangePresentation
  <2> DEFINE events == <<StatusChanged(pane.status)>>
  <2>1. events \in Seq(Events) /\ events \in Seq(Safe(Label))
    BY <1>0, EventFacts
  <2> HIDE DEF events
  <2>2. Handle(pane, events)
    BY <1>5 DEF ChangePresentation, events
  <2> QED
    BY <1>0, <1>1, <2>1, <2>2, HandleFacts DEF Handled, Present, Label
<1>6. CASE MarkSeen
  <2> DEFINE new == [pane EXCEPT !.status = "Idle"]
  <2>1. /\ new \in Panes /\ new.open = pane.open /\ new.agent = pane.agent /\ new.status = "Idle"
        /\ new.exited = pane.exited /\ new.occupant = pane.occupant /\ new.unseen = pane.unseen
        /\ new.changes = pane.changes /\ new.id = pane.id
    BY <1>0, <1>2 DEF Panes
  <2> HIDE DEF new
  <2>2. Handle(new, <<>>)
    BY <1>6 DEF MarkSeen, new
  <2> QED
    BY <1>0, <1>1, <1>3, <2>1, <2>2, HandleFacts DEF Handled, Present, Label
<1>7. CASE AgentExits
  <2>1. PICK status \in StatusesFor("Idle", pane.agent) :
           /\ pane.agent # None /\ ~pane.exited
           /\ Handle([pane EXCEPT !.exited = TRUE, !.status = status], ExitReported(status))
    BY <1>7 DEF AgentExits
  <2> DEFINE new == [pane EXCEPT !.exited = TRUE, !.status = status]
             events == ExitReported(status)
  <2>2. status \in Statuses
    BY <1>2, StatusFacts
  <2>3. /\ new \in Panes /\ new.open = pane.open /\ new.agent = pane.agent /\ new.status = status
        /\ new.exited /\ new.occupant = pane.occupant /\ new.unseen = pane.unseen
        /\ new.id = pane.id
    BY <1>0, <2>2 DEF Panes
  <2> HIDE DEF new
  <2>4. events \in Seq(Events)
    <3>0. Released(pane.agent, status) \in Events
      BY <1>0, <2>2, EventFacts
    <3>1. <<Released(pane.agent, status)>> \in Seq(Events)
      BY <3>0
    <3> QED
      BY <2>2, <2>3, <3>1, <1>0, EventFacts, UpdateFacts DEF ExitReported, new
  <2> HIDE DEF events
  <2>5. Handle(new, events)
    BY <2>1 DEF new, events
  <2> QED
    BY <1>0, <1>1, <2>1, <2>3, <2>4, <2>5, HandleFacts DEF Handled, Present, Label
<1>8. CASE AgentCleared
  <2> DEFINE new == [Gone EXCEPT !.unseen = IF pane.exited THEN None ELSE pane.agent]
             events == UpdateEvents(Gone, <<Detected(None)>>)
  <2>1. pane.agent # None /\ Handle(new, events)
    BY <1>8 DEF AgentCleared
  <2>2. /\ new \in Panes /\ new.open = pane.open /\ new.agent = None /\ ~new.exited
        /\ new.occupant = pane.occupant /\ new.id = pane.id
        /\ new.unseen = IF pane.exited THEN None ELSE pane.agent
    BY <1>0, GoneFacts DEF Panes
  <2>3. events \in Seq(Events) /\ events \in Seq(Safe(Label))
    <3>1. <<Detected(None)>> \in Seq(Events) /\ <<Detected(None)>> \in Seq(Safe(Label))
      BY <1>0, EventFacts
    <3> QED
      BY <1>2, <3>1, <1>0, EventFacts, UpdateFacts, GoneFacts
  <2> HIDE DEF new, events
  <2> QED
    BY <1>0, <1>1, <2>1, <2>2, <2>3, HandleFacts DEF Handled, Present, Label
<1>9. CASE AgentReleased
  <2> DEFINE events == UpdateEvents(Gone, <<Released(pane.agent, "Unknown")>>)
  <2>1. pane.agent # None /\ Handle(Gone, events)
    BY <1>9 DEF AgentReleased
  <2>2. events \in Seq(Events)
    <3>1. <<Released(pane.agent, "Unknown")>> \in Seq(Events)
      BY <1>0, <1>2, EventFacts
    <3> QED
      BY <1>2, <3>1, <1>0, EventFacts, UpdateFacts, GoneFacts
  <2> HIDE DEF events
  <2> QED
    BY <1>0, <1>1, <2>1, <2>2, GoneFacts, HandleFacts DEF Handled, Present, Label
<1>10. CASE AgentStarts
  <2>0. PICK agent \in setup.agents, raw \in RawStates :
           \E status \in StatusesFor(raw, agent),
              again \in IF agent = pane.unseen THEN BOOLEAN ELSE {FALSE} :
              LET new == [pane EXCEPT !.agent = agent, !.exited = FALSE, !.unseen = None,
                                      !.status = status, !.occupant = IF again THEN @ ELSE @ + 1]
              IN  /\ pane.open /\ (agent # pane.agent \/ pane.exited)
                  /\ Handle(new, UpdateEvents(new, IF agent = pane.agent THEN <<>> ELSE <<Detected(agent)>>))
    BY <1>10 DEF AgentStarts
  <2>1. PICK status \in StatusesFor(raw, agent),
             again \in IF agent = pane.unseen THEN BOOLEAN ELSE {FALSE} :
           LET new == [pane EXCEPT !.agent = agent, !.exited = FALSE, !.unseen = None,
                                   !.status = status, !.occupant = IF again THEN @ ELSE @ + 1]
           IN  /\ pane.open /\ (agent # pane.agent \/ pane.exited)
               /\ Handle(new, UpdateEvents(new, IF agent = pane.agent THEN <<>> ELSE <<Detected(agent)>>))
    BY <2>0
  <2> DEFINE new == [pane EXCEPT !.agent = agent, !.exited = FALSE, !.unseen = None,
                                 !.status = status, !.occupant = IF again THEN @ ELSE @ + 1]
             said == IF agent = pane.agent THEN <<>> ELSE <<Detected(agent)>>
             events == UpdateEvents(new, said)
  <2>2. status \in Statuses /\ agent \in Agents /\ again \in BOOLEAN /\ (again => agent = pane.unseen)
    BY <1>2, StatusFacts
  <2>3. /\ new \in Panes /\ new.open = pane.open /\ new.agent = agent /\ new.status = status
        /\ ~new.exited /\ new.unseen = None /\ new.id = pane.id
        /\ new.occupant = IF again THEN pane.occupant ELSE pane.occupant + 1
    <3> DEFINE occ == IF again THEN pane.occupant ELSE pane.occupant + 1
    <3>1. occ \in Nat
      BY <1>0
    <3> HIDE DEF occ
    <3>2. new = [pane EXCEPT !.agent = agent, !.exited = FALSE, !.unseen = None,
                             !.status = status, !.occupant = occ]
      BY DEF occ
    <3>3. /\ new \in Panes /\ new.open = pane.open /\ new.agent = agent /\ new.status = status
          /\ ~new.exited /\ new.unseen = None /\ new.occupant = occ /\ new.id = pane.id
      BY <1>0, <2>2, <3>1, <3>2 DEF Panes
    <3> QED
      BY <3>3 DEF occ
  <2> HIDE DEF new
  <2>4. said \in Seq(Events) /\ said \in Seq(Safe(agent))
    BY <1>3, <2>2, <1>0, EventFacts
  <2> HIDE DEF said
  <2>5. events \in Seq(Events) /\ events \in Seq(Safe(agent))
    BY <2>2, <2>3, <2>4, <1>0, EventFacts, UpdateFacts
  <2>6. pane.open /\ (agent # pane.agent \/ pane.exited) /\ Handle(new, events)
    BY <2>1 DEF new, events, said
  <2> HIDE DEF events
  <2>7. again => Label = agent /\ pane.agent = None /\ pane.unseen # None
    BY <1>1, <1>2, <2>2 DEF Label
  <2>8. /\ setup' = setup /\ hub' = hub /\ outbox' = events /\ outbox' \in Seq(Events)
        /\ handled' \in 0 .. setup.handlers /\ outbox = <<>> /\ pane' \in Panes
        /\ pane'.open /\ pane'.agent = agent /\ ~pane'.exited /\ pane'.unseen = None
        /\ pane'.occupant = new.occupant /\ pane'.id = pane.id
    BY <2>3, <2>5, <2>6, HandleFacts
  <2>9. CASE again
    <3>1. pane'.occupant = pane.occupant /\ Present /\ Label' = Label /\ outbox' \in Seq(Safe(Label))
      BY <1>2, <2>2, <2>3, <2>5, <2>7, <2>8, <2>9 DEF Present, Label
    <3> QED
      BY <1>2, <2>2, <2>7, <2>8, <2>9, <3>1 DEF Handled
  <2>10. CASE ~again
    <3>1. pane'.occupant = pane.occupant + 1 /\ pane'.occupant # pane.occupant
      BY <1>0, <2>3, <2>8, <2>10
    <3>2. ~(pane'.agent = pane.agent /\ pane'.exited = pane.exited)
      BY <2>6, <2>8
    <3> QED
      BY <2>2, <2>8, <3>1, <3>2 DEF Handled
  <2> QED
    BY <2>2, <2>9, <2>10
<1>11. CASE PaneDies
  <2>1. PICK status \in IF pane.agent = None THEN {pane.status} ELSE StatusesFor("Idle", pane.agent),
             respawn \in BOOLEAN :
       LET exit == IF pane.agent = None THEN <<>>
                   ELSE ExitReported(status) \o <<Released(pane.agent, status)>>
       IN  /\ pane.open /\ outbox = <<>> /\ handled < setup.handlers
           /\ pane' = IF respawn THEN [Gone EXCEPT !.changes = 0] ELSE [Gone EXCEPT !.open = FALSE]
           /\ outbox' = exit \o (IF respawn THEN <<>> ELSE <<Closed>>)
           /\ handled' = handled + 1
           /\ UNCHANGED <<setup, hub>>
    BY <1>11 DEF PaneDies
  <2>2. status \in Statuses
    BY <1>0, <1>2, StatusFacts
  <2> DEFINE exit == IF pane.agent = None THEN <<>>
                     ELSE ExitReported(status) \o <<Released(pane.agent, status)>>
             close == IF respawn THEN <<>> ELSE <<Closed>>
  <2>3. exit \in Seq(Events)
    <3> DEFINE new == [pane EXCEPT !.exited = TRUE, !.status = status]
    <3>0. Released(pane.agent, status) \in Events
      BY <1>0, <2>2, EventFacts
    <3>1. <<Released(pane.agent, status)>> \in Seq(Events)
      BY <3>0
    <3>2. new.status = status
      BY <1>0 DEF Panes
    <3>3. ExitReported(status) \in Seq(Events)
      <4> HIDE DEF new
      <4> QED
        BY <2>2, <3>1, <3>2, <1>0, EventFacts, UpdateFacts DEF ExitReported, new
    <3> QED
      BY <1>3, <3>1, <3>3, ConcatProperties
  <2>4. close \in Seq(Events)
    BY <1>3, <1>0, EventFacts
  <2> HIDE DEF exit, close
  <2>5. exit \o close \in Seq(Events)
    BY <2>3, <2>4, ConcatProperties
  <2>6. /\ outbox = <<>> /\ outbox' = exit \o close /\ handled' = handled + 1
        /\ handled < setup.handlers /\ UNCHANGED <<setup, hub>>
        /\ pane' = IF respawn THEN [Gone EXCEPT !.changes = 0] ELSE [Gone EXCEPT !.open = FALSE]
    BY <2>1 DEF exit, close
  <2>7. /\ pane' \in Panes /\ pane'.agent = None /\ ~pane'.exited /\ pane'.unseen = None
        /\ pane'.occupant = pane.occupant /\ pane'.id = pane.id
    BY <2>6, GoneFacts DEF Panes
  <2>8. handled' \in 0 .. setup.handlers
    BY <1>0, <1>2, <2>6
  <2> QED
    BY <2>5, <2>6, <2>7, <2>8 DEF Handled, Present, Label
<1>12. CASE PaneCloses
  <2> DEFINE new == [Gone EXCEPT !.open = FALSE, !.status = pane.status]
  <2>1. Handle(new, <<Closed>>)
    BY <1>12 DEF PaneCloses
  <2>2. /\ new \in Panes /\ new.agent = None /\ ~new.exited /\ new.unseen = None
        /\ new.occupant = pane.occupant /\ new.id = pane.id
    BY <1>0, GoneFacts DEF Panes
  <2>3. <<Closed>> \in Seq(Events)
    BY <1>0, EventFacts
  <2> HIDE DEF new
  <2> QED
    BY <1>0, <1>1, <2>1, <2>2, <2>3, HandleFacts DEF Handled, Present, Label
<1>13. CASE OtherEvent
  <2>1. /\ outbox = <<>> /\ handled < setup.handlers /\ outbox' = <<Other>>
        /\ handled' = handled + 1 /\ UNCHANGED <<setup, pane, hub>>
    BY <1>13 DEF OtherEvent
  <2>2. <<Other>> \in Seq(Events) /\ <<Other>> \in Seq(Safe(Label))
    BY <1>0, EventFacts
  <2>3. handled' \in 0 .. setup.handlers
    BY <1>0, <1>2, <2>1
  <2> QED
    BY <1>0, <1>1, <2>1, <2>2, <2>3 DEF Handled, Present, Label
<1>14. CASE PaneUpdates
  <2>1. Handle(pane, <<Updated>>)
    BY <1>14 DEF PaneUpdates
  <2>2. <<Updated>> \in Seq(Events) /\ <<Updated>> \in Seq(Safe(Label))
    BY <1>0, EventFacts
  <2> QED
    BY <1>0, <1>1, <2>1, <2>2, HandleFacts DEF Handled, Present, Label
<1>15. CASE PaneMoves
  <2>1. PICK id \in {pane.id, pane.id + 1},
             status \in {pane.status} \cup (IF pane.status = "Done" THEN {"Idle"} ELSE {}) :
                Handle([pane EXCEPT !.id = id, !.status = status], <<Moved>>)
    BY <1>15 DEF PaneMoves
  <2> DEFINE new == [pane EXCEPT !.id = id, !.status = status]
  <2>2. id \in Nat /\ status \in Statuses
    BY <1>0, <1>2
  <2>3. /\ new \in Panes /\ new.open = pane.open /\ new.agent = pane.agent
        /\ new.exited = pane.exited /\ new.occupant = pane.occupant /\ new.unseen = pane.unseen
        /\ new.status = status /\ new.changes = pane.changes
    BY <1>0, <2>2 DEF Panes
  <2> HIDE DEF new
  <2>4. <<Moved>> \in Seq(Events) /\ <<Moved>> \in Seq(Safe(Label)) /\ Moved.kind = "Moved"
    BY <1>0, EventFacts
  <2>5. Handle(new, <<Moved>>)
    BY <2>1 DEF new
  <2>6. outbox' = <<Moved>>
    BY <2>3, <2>4, <2>5, HandleFacts
  <2>7. outbox' # <<>> /\ Head(outbox').kind = "Moved"
    BY <2>4, <2>6
  <2> QED
    BY <1>0, <1>1, <2>3, <2>4, <2>5, <2>7, HandleFacts DEF Handled, Present, Label
<1> QED
  BY <1>4, <1>5, <1>6, <1>7, <1>8, <1>9, <1>10, <1>11, <1>12, <1>13, <1>14, <1>15 DEF AppNext

-----------------------------------------------------------------------------
(* Steps of the application.                                               *)

\* What the history notes of a step of the application.
LEMMA NoteFacts ==
    ASSUME IInv, Happens
    PROVE  /\ UNCHANGED <<pc, since, initial, phase, after, last, transient, result, first, prompted, lost>>
           /\ moved' \in BOOLEAN /\ (moved => moved')
           /\ ~moved' /\ prompted # None =>
                 /\ Raw(pane'.status) = Raw(pane.status)
                 /\ pane'.agent = pane.agent /\ pane'.exited = pane.exited
           /\ \/ wanted' = wanted
              \/ /\ wanted = None /\ wanted' = hub.next + 1 /\ hub' # hub
                 /\ pc \notin {"start", "done"} /\ Head(outbox).id = Target
                 /\ Head(outbox).kind = "Status" /\ Head(outbox).status \in Until
           /\ carried' = (carried \/ (pc # "start" /\ hub' # hub /\ Head(outbox).kind = "Moved"))
           /\ carried' \in BOOLEAN /\ (hub' = hub => carried' = carried)
<1>1. UNCHANGED <<pc, since, initial, phase, after, last, transient, result, first, prompted, lost>>
  BY DEF Happens, waiting
<1> DEFINE m1 == prompted # None /\ Raw(pane'.status) # Raw(pane.status)
           m2 == prompted # None /\ <<pane'.agent, pane'.exited>> # <<pane.agent, pane.exited>>
<1>2. moved' = (moved \/ m1 \/ m2)
  BY DEF Happens
<1>3. moved \in BOOLEAN
  BY DEF IInv, TypeOK
<1>4. moved' \in BOOLEAN /\ (moved => moved') /\ (m1 => moved') /\ (m2 => moved')
  <2> HIDE DEF m1, m2
  <2> QED
    BY <1>2, <1>3
<1>5. ~moved' /\ prompted # None =>
         /\ Raw(pane'.status) = Raw(pane.status)
         /\ pane'.agent = pane.agent /\ pane'.exited = pane.exited
  BY <1>4
<1>6. \/ wanted' = wanted
      \/ /\ wanted = None /\ wanted' = hub.next + 1 /\ hub' # hub
         /\ pc \notin {"start", "done"} /\ Head(outbox).id = Target
         /\ Head(outbox).kind = "Status" /\ Head(outbox).status \in Until
  BY DEF Happens
<1>7. /\ carried' = (carried \/ (pc # "start" /\ hub' # hub /\ Head(outbox).kind = "Moved"))
      /\ carried' \in BOOLEAN
  BY DEF Happens, IInv, TypeOK
<1>8. hub' = hub => carried' = carried
  <2>1. carried \in BOOLEAN
    BY DEF IInv, TypeOK
  <2> QED
    BY <1>7, <2>1
<1> QED
  BY <1>1, <1>4, <1>5, <1>6, <1>7, <1>8

\* A handler.
LEMMA HandlerStep ==
    ASSUME IInv, Happens, ~EmitEvent
    PROVE  IInv'
<1> USE DEF IInv
<1>1. Handled
  BY HandlerFacts DEF Happens
<1>2. /\ setup' = setup /\ hub' = hub
      /\ UNCHANGED <<pc, since, initial, phase, after, last, transient, result, first, prompted, lost>>
      /\ wanted' = wanted /\ moved' \in BOOLEAN /\ (moved => moved')
      /\ carried' = carried /\ carried' \in BOOLEAN
  <2>1. setup' = setup /\ hub' = hub
    BY <1>1 DEF Handled
  <2> QED
    BY <2>1, NoteFacts
<1>3. /\ pane.occupant \in Nat /\ pane'.occupant \in {pane.occupant, pane.occupant + 1}
      /\ pane' \in Panes
  BY <1>1, PaneFacts DEF Handled
<1>4. Oldest' = Oldest /\ Until' = Until /\ Running' = Running
  BY <1>2 DEF Oldest, Until, Running
<1>5. TypeOK'
  <2>1. AppTypeOK'
    BY <1>1 DEF AppTypeOK, TypeOK, Handled
  <2> QED
    BY <1>2, <1>4, <2>1 DEF TypeOK
<1>6. PaneOK'
  BY <1>1 DEF Handled, PaneOK
<1>7. StageOK' /\ NumbersOK'
  BY <1>2, <1>4 DEF StageOK, NumbersOK
<1>8. WantedOK'
  <2>1. WantedEvents' = WantedEvents
    BY <1>4 DEF WantedEvents, Events
  <2>2. At(wanted)' = At(wanted)
    BY <1>2, <1>4 DEF At
  <2> QED
    BY <1>2, <1>4, <2>1, <2>2 DEF WantedOK
<1>9. OccupantOK'
  <2>1. first # None => first \in Nat /\ first <= pane.occupant
    BY DEF TypeOK, OccupantOK
  <2>2. initial # None => initial.occupant \in Nat /\ initial.occupant <= pane.occupant
    BY DEF TypeOK, OccupantOK, Panes
  <2>3. first' # None => first' <= pane'.occupant
    BY <1>2, <1>3, <2>1
  <2>4. initial' # None => initial'.occupant <= pane'.occupant
    BY <1>2, <1>3, <2>2
  <2>5. initial # None /\ initial.agent # None /\ initial.occupant = pane'.occupant =>
           pane'.agent \in {None, initial.agent} /\ pane'.unseen \in {None, initial.agent}
    <3>1. SUFFICES ASSUME initial # None, initial.agent # None, initial.occupant = pane'.occupant
                   PROVE  pane'.agent \in {None, initial.agent} /\ pane'.unseen \in {None, initial.agent}
      OBVIOUS
    <3>2. pane'.occupant = pane.occupant
      BY <1>3, <2>2, <3>1
    <3>3. pane.agent \in {None, initial.agent} /\ pane.unseen \in {None, initial.agent}
      BY <3>1, <3>2 DEF OccupantOK
    <3>4. Label \in {None, initial.agent}
      BY <3>3 DEF Label
    <3> QED
      BY <1>1, <3>2, <3>4 DEF Handled
  <2>6. ASSUME Present', pane'.occupant = first
        PROVE  /\ outbox' \in Seq(Safe(Label')) /\ Label' = Label
               /\ \A n \in since + 1 .. hub.next : n > Oldest => At(n) \in Safe(Label)
    <3>1. first # None
      BY <1>3, <2>6, NoneAssumption DEF Panes
    <3>2. pane'.occupant = pane.occupant
      BY <1>3, <2>1, <2>6, <3>1
    <3>3. Present /\ Label' = Label /\ outbox' \in Seq(Safe(Label))
      BY <1>1, <2>6, <3>2 DEF Handled
    <3>4. \A n \in since + 1 .. hub.next : n > Oldest => At(n) \in Safe(Label)
      BY <2>6, <3>2, <3>3 DEF OccupantOK
    <3> QED
      BY <3>3, <3>4
  <2>7. ASSUME NEW n \in Nat PROVE At(n)' = At(n)
    BY <1>2, <1>4 DEF At
  <2>8. \A l : Safe(l)' = Safe(l)
    BY DEF Safe, Events
  <2>9. ASSUME Present', pane'.occupant = first', NEW n \in (since' + 1) .. hub'.next, n > Oldest'
        PROVE  At(n)' \in Safe(Label')
    <3>1. n \in since + 1 .. hub.next /\ n > Oldest /\ n \in Nat
      BY <1>2, <1>4, <2>9, HubFacts DEF TypeOK
    <3> QED
      BY <1>2, <2>6, <2>7, <2>9, <3>1
  <2> QED
    BY <1>2, <2>3, <2>4, <2>5, <2>6, <2>9 DEF OccupantOK, Safe, Events
<1>10. PromptOK'
  <2>1. SUFFICES ASSUME Running, setup.prompts, first = prompted, ~moved'
                 PROVE  /\ pane'.agent # None /\ ~pane'.exited /\ pane'.agent = initial.agent
                        /\ pane'.occupant = prompted /\ after = pane'.changes
    BY <1>2, <1>4 DEF PromptOK
  <2>2. /\ pane.agent # None /\ ~pane.exited /\ pane.agent = initial.agent
        /\ pane.occupant = prompted /\ after = pane.changes /\ prompted # None
    BY <1>2, <2>1 DEF PromptOK, StageOK
  <2>3. /\ Raw(pane'.status) = Raw(pane.status)
        /\ pane'.agent = pane.agent /\ pane'.exited = pane.exited
    BY <2>1, <2>2, NoteFacts
  <2>4. pane'.changes = pane.changes /\ pane'.occupant = pane.occupant
    BY <1>1, <2>2, <2>3 DEF Handled
  <2> QED
    BY <2>2, <2>3, <2>4
<1>11. WantedSeen' /\ NotRunningTrue' /\ PromptObserved'
  BY <1>2 DEF WantedSeen, NotRunningTrue, PromptObserved, Responded
<1>12. MoveOK'
  <2>1. /\ outbox = <<>>
        /\ pane'.id = pane.id \/ (outbox' # <<>> /\ Head(outbox').kind = "Moved")
    BY <1>1 DEF Handled
  <2>2. Home => Home'
    BY <1>2, <2>1 DEF Home
  <2> QED
    BY <1>2, <1>4, <2>2 DEF MoveOK
<1>13. CarriedOK'
  <2>1. \A n : At(n)' = At(n)
    BY <1>2, <1>4 DEF At
  <2> QED
    BY <1>2, <1>4, <2>1 DEF CarriedOK
<1> QED
  BY <1>5, <1>6, <1>7, <1>8, <1>9, <1>10, <1>11, <1>12, <1>13

\* App::emit_event.
LEMMA EmitStep ==
    ASSUME IInv, Happens, EmitEvent
    PROVE  IInv'
<1> USE DEF IInv
<1> DEFINE e == Head(outbox)
<1>1. /\ outbox # <<>> /\ hub' = Push(hub, e) /\ outbox' = Tail(outbox)
      /\ UNCHANGED <<setup, pane, handled>>
  BY DEF EmitEvent
<1>2. /\ UNCHANGED <<pc, since, initial, phase, after, last, transient, result, first, prompted, lost>>
      /\ moved' \in BOOLEAN /\ (moved => moved')
      /\ \/ wanted' = wanted
         \/ /\ wanted = None /\ wanted' = hub.next + 1 /\ pc \notin {"start", "done"}
            /\ e.id = Target /\ e.kind = "Status" /\ e.status \in Until
      /\ carried' = (carried \/ (pc # "start" /\ hub' # hub /\ e.kind = "Moved"))
      /\ carried' \in BOOLEAN
  BY NoteFacts
<1>3. \A S : outbox \in Seq(S) => e \in S /\ outbox' \in Seq(S)
  BY <1>1, HeadTailProperties
<1>4. outbox \in Seq(Events) /\ e \in Events /\ outbox' \in Seq(Events)
  BY <1>3, PaneFacts
<1> HIDE DEF e
<1>5. /\ hub'.next = hub.next + 1 /\ hub'.events \in Seq(Events)
      /\ Len(hub'.events) = (IF hub'.next < setup'.capacity THEN hub'.next ELSE setup'.capacity)
      /\ Oldest' \in Nat /\ Oldest' >= Oldest
      /\ \A n \in Nat : n = hub.next + 1 => At(n)' = e
      /\ \A n \in Nat : n > Oldest' /\ n <= hub.next => At(n)' = At(n)
  BY <1>1, <1>4, PushFacts
<1>6. /\ hub.next \in Nat /\ Oldest \in Nat /\ since \in Nat /\ last \in Nat
      /\ since <= last /\ last <= hub.next /\ None \notin Nat
      /\ wanted # None => wanted \in Nat /\ since < wanted /\ wanted <= hub.next
  BY HubFacts, NoneAssumption DEF TypeOK, NumbersOK
<1>7. Until' = Until /\ Running' = Running /\ Present' = Present /\ Label' = Label
  BY <1>1, <1>2 DEF Until, Running, Present, Label
<1>8. TypeOK'
  <2>1. AppTypeOK'
    <3>1. hub'.next \in Nat
      BY <1>5, <1>6
    <3> QED
      BY <1>1, <1>4, <1>5, <3>1 DEF AppTypeOK, TypeOK
  <2>2. wanted' \in Nat \cup {None}
    BY <1>2, <1>6 DEF TypeOK
  <2> QED
    BY <1>2, <1>7, <2>1, <2>2 DEF TypeOK
<1>9. PaneOK' /\ StageOK'
  BY <1>1, <1>2, <1>7 DEF PaneOK, StageOK
<1>10. NumbersOK'
  BY <1>2, <1>5, <1>6 DEF NumbersOK
<1>11. WantedOK'
  <2>1. ASSUME wanted' # None, wanted' > Oldest' PROVE At(wanted)' \in WantedEvents'
    <3>1. PICK n \in Nat : n = wanted'
      BY <1>2, <1>6, <2>1
    <3>2. At(wanted)' = At(n)'
      BY <3>1 DEF At
    <3>3. WantedEvents' = WantedEvents
      BY <1>7 DEF WantedEvents, Events
    <3>4. CASE wanted' = wanted
      <4>1. n > Oldest' /\ n <= hub.next /\ n > Oldest /\ n = wanted
        BY <1>5, <1>6, <2>1, <3>1, <3>4
      <4>2. At(n)' = At(n)
        BY <1>5, <4>1
      <4>3. At(n) = At(wanted)
        BY <4>1
      <4>4. At(wanted) \in WantedEvents
        BY <2>1, <3>4, <4>1 DEF WantedOK
      <4> QED
        BY <3>2, <3>3, <4>2, <4>3, <4>4
    <3>5. CASE wanted' # wanted
      <4>1. At(n)' = e /\ e \in WantedEvents
        BY <1>2, <1>4, <1>5, <3>1, <3>5 DEF WantedEvents
      <4> QED
        BY <3>2, <3>3, <4>1
    <3> QED
      BY <3>4, <3>5
  <2>2. ASSUME Running, ~setup.prompts, ~lost, wanted' # None
        PROVE  wanted' > last \/ (pc = "probe" /\ transient # None)
    BY <1>2, <1>6, <2>2 DEF WantedOK
  <2> QED
    BY <1>1, <1>2, <1>7, <2>1, <2>2 DEF WantedOK
<1>12. OccupantOK'
  <2>1. ASSUME Present, pane.occupant = first
        PROVE  /\ outbox' \in Seq(Safe(Label))
               /\ \A n \in since + 1 .. hub'.next : n > Oldest' => At(n)' \in Safe(Label)
    <3>1. /\ outbox \in Seq(Safe(Label))
          /\ \A n \in since + 1 .. hub.next : n > Oldest => At(n) \in Safe(Label)
      BY <2>1 DEF OccupantOK
    <3>2. e \in Safe(Label) /\ outbox' \in Seq(Safe(Label))
      BY <1>3, <3>1 DEF e
    <3>3. ASSUME NEW n \in since + 1 .. hub'.next, n > Oldest' PROVE At(n)' \in Safe(Label)
      <4>1. n \in Nat /\ (n <= hub.next \/ n = hub.next + 1) /\ n > Oldest
        BY <1>5, <1>6, <3>3
      <4>2. CASE n <= hub.next
        <5>1. n \in since + 1 .. hub.next
          BY <1>6, <3>3, <4>1, <4>2
        <5> QED
          BY <1>5, <3>1, <3>3, <4>1, <4>2, <5>1
      <4>3. CASE n = hub.next + 1
        BY <1>5, <3>2, <4>1, <4>3
      <4> QED
        BY <4>1, <4>2, <4>3
    <3> QED
      BY <3>2, <3>3
  <2>2. ASSUME Present', pane'.occupant = first', NEW n \in (since' + 1) .. hub'.next, n > Oldest'
        PROVE  At(n)' \in Safe(Label)'
    <3>1. Present /\ pane.occupant = first /\ n \in since + 1 .. hub'.next
      BY <1>1, <1>2, <1>7, <2>2
    <3>2. At(n)' \in Safe(Label)
      BY <2>1, <2>2, <3>1
    <3> QED
      BY <1>7, <3>2 DEF Safe, Events
  <2>3. Safe(Label)' = Safe(Label)
    BY <1>7 DEF Safe, Events
  <2> QED
    BY <1>1, <1>2, <1>7, <2>1, <2>2, <2>3 DEF OccupantOK
<1>13. PromptOK'
  BY <1>1, <1>2, <1>7 DEF PromptOK
<1>14. WantedSeen' /\ NotRunningTrue' /\ PromptObserved'
  <2>1. pc = "done" => wanted' = wanted
    BY <1>2
  <2>2. result # None => pc = "done"
    BY DEF TypeOK
  <2>3. carried => carried'
    BY <1>2
  <2> QED
    BY <1>1, <1>2, <2>1, <2>2, <2>3 DEF WantedSeen, NotRunningTrue, PromptObserved, Responded
<1>15. hub' # hub
  BY <1>5, <1>6
<1>16. MoveOK'
  <2>1. ASSUME pc # "start", Home PROVE Home'
    BY <1>1, <1>2, <1>15, <2>1 DEF Home, e
  <2> QED
    BY <1>2, <1>7, <2>1 DEF MoveOK, Running
<1>17. CarriedOK'
  <2>1. SUFFICES ASSUME pc # "start", ~carried', NEW n \in since + 1 .. hub'.next, n > Oldest'
                 PROVE  At(n)'.kind # "Moved"
    BY <1>2 DEF CarriedOK
  <2>2. ~carried /\ e.kind # "Moved"
    BY <1>2, <1>15, <2>1
  <2>3. n \in Nat /\ (n <= hub.next \/ n = hub.next + 1) /\ n > Oldest
    BY <1>5, <1>6, <2>1
  <2>4. CASE n <= hub.next
    <3>1. n \in since + 1 .. hub.next
      BY <1>6, <2>1, <2>3, <2>4
    <3>2. At(n).kind # "Moved"
      BY <2>1, <2>2, <2>3, <3>1 DEF CarriedOK
    <3> QED
      BY <1>5, <2>1, <2>3, <2>4, <3>2
  <2>5. CASE n = hub.next + 1
    BY <1>5, <2>2, <2>3, <2>5
  <2> QED
    BY <2>3, <2>4, <2>5
<1> QED
  BY <1>8, <1>9, <1>10, <1>11, <1>12, <1>13, <1>14, <1>16, <1>17

-----------------------------------------------------------------------------
(* Steps of the thread.                                                    *)

\* The agent a wait is about: as before, as answered now, or none yet.
NewInitial ==
    \/ initial' = initial
    \/ /\ initial' \in Panes
       /\ \/ initial # None /\ initial'.agent = initial.agent /\ initial'.occupant = initial.occupant
          \/ initial'.agent = pane.agent /\ initial'.occupant = pane.occupant

LEMMA FrameStep ==
    ASSUME IInv, UNCHANGED appVars, first' = first, since' = since, wanted' = wanted, NewInitial,
           carried' = carried, pc = "start" => pc' = "start"
    PROVE  /\ AppTypeOK' /\ PaneOK' /\ OccupantOK' /\ initial' \in Panes \cup {None}
           /\ CarriedOK' /\ (Home => Home')
           /\ wanted' # None /\ wanted' > Oldest' => At(wanted)' \in WantedEvents'
           /\ Until' = Until /\ setup' = setup /\ hub' = hub /\ pane' = pane
<1> USE DEF IInv
<1>1. UNCHANGED <<setup, pane, outbox, hub, handled>>
  BY DEF appVars
<1>2. Oldest' = Oldest /\ Until' = Until /\ Present' = Present /\ Label' = Label
  BY <1>1 DEF Oldest, Until, Present, Label
<1>3. AppTypeOK' /\ PaneOK' /\ initial' \in Panes \cup {None}
  BY <1>1 DEF AppTypeOK, TypeOK, PaneOK, NewInitial
<1>4. wanted' # None /\ wanted' > Oldest' => At(wanted)' \in WantedEvents'
  <2>1. At(wanted)' = At(wanted) /\ WantedEvents' = WantedEvents
    BY <1>1, <1>2 DEF At, WantedEvents, Events
  <2> QED
    BY <1>2, <2>1 DEF WantedOK
<1>5. OccupantOK'
  <2>1. pane.occupant \in Nat /\ (initial # None => initial.occupant <= pane.occupant)
    BY PaneFacts DEF OccupantOK
  <2>2. initial' # None => initial'.occupant <= pane'.occupant
    BY <1>1, <2>1 DEF NewInitial
  <2>3. initial' # None /\ initial'.agent # None /\ initial'.occupant = pane.occupant =>
           pane.agent \in {None, initial'.agent} /\ pane.unseen \in {None, initial'.agent}
    BY DEF NewInitial, OccupantOK, PaneOK
  <2>4. first' # None => first' <= pane'.occupant
    BY <1>1 DEF OccupantOK
  <2>5. ASSUME Present', pane'.occupant = first'
        PROVE  /\ outbox' \in Seq(Safe(Label))'
               /\ \A n \in (since' + 1) .. hub'.next : n > Oldest' => At(n)' \in Safe(Label)'
    <3>1. /\ outbox \in Seq(Safe(Label))
          /\ \A n \in since + 1 .. hub.next : n > Oldest => At(n) \in Safe(Label)
      BY <1>1, <1>2, <2>5 DEF OccupantOK
    <3>2. Safe(Label)' = Safe(Label)
      BY <1>2 DEF Safe, Events
    <3>3. \A n : At(n)' = At(n)
      BY <1>1, <1>2 DEF At
    <3> QED
      BY <1>1, <1>2, <3>1, <3>2, <3>3
  <2> QED
    BY <1>1, <2>2, <2>3, <2>4, <2>5 DEF OccupantOK
<1>6. CarriedOK'
  <2>1. \A n : At(n)' = At(n)
    BY <1>1, <1>2 DEF At
  <2> QED
    BY <1>1, <1>2, <2>1 DEF CarriedOK
<1>7. Home => Home'
  BY <1>1 DEF Home
<1> QED
  BY <1>1, <1>2, <1>3, <1>4, <1>5, <1>6, <1>7

\* A response.
LEMMA DoneStep ==
    ASSUME IInv, UNCHANGED appVars, NewInitial, pc # "start", pc' = "done", result' \in Results,
           UNCHANGED <<phase, after, transient, last, since, first, moved, carried, wanted>>,
           prompted' \in Nat \cup {None}, lost' \in BOOLEAN,
           result'.kind = "timeout" /\ ~setup.prompts /\ ~lost' => wanted = None \/ wanted > last,
           result'.kind = "not_running" /\ first = initial'.occupant => ~result'.alive \/ carried,
           result'.kind = "matched" /\ setup.prompts /\ first = prompted' => moved
    PROVE  IInv'
<1> USE DEF IInv
<1>1. /\ AppTypeOK' /\ PaneOK' /\ OccupantOK' /\ initial' \in Panes \cup {None}
      /\ CarriedOK' /\ (Home => Home')
      /\ wanted' # None /\ wanted' > Oldest' => At(wanted)' \in WantedEvents'
      /\ Until' = Until /\ setup' = setup /\ hub' = hub
  BY FrameStep
<1>2. result' # None
  BY NoneAssumption
<1>3. TypeOK'
  BY <1>1, <1>2 DEF TypeOK
<1>4. ~Running' /\ pc' \notin {"start", "get", "prompt"}
  BY DEF Running
<1>5. StageOK'
  BY <1>1, <1>4 DEF StageOK
<1>6. NumbersOK' /\ WantedOK' /\ PromptOK' /\ MoveOK'
  BY <1>1, <1>4 DEF NumbersOK, WantedOK, PromptOK, MoveOK
<1>7. WantedSeen' /\ NotRunningTrue' /\ PromptObserved'
  BY <1>1 DEF WantedSeen, NotRunningTrue, PromptObserved, Responded
<1> QED
  BY <1>1, <1>3, <1>5, <1>6, <1>7

\* The wait goes on.
LEMMA GoOn ==
    ASSUME IInv, UNCHANGED appVars, NewInitial, pc \notin {"start", "done"},
           pc' \in {"look", "probe", "deadline", "final"}, result' = result,
           initial' # None, initial'.agent # None, initial'.id = Target, Home,
           phase' \in {"gate", "settle"}, phase' = "gate" => setup.prompts,
           after' \in Nat \cup {None}, ~setup.prompts => after' = None,
           transient' \in Until \cup {None}, setup.prompts => transient' = None,
           last' \in Nat, since <= last', last' <= hub.next,
           prompted' \in Nat \cup {None}, setup.prompts => prompted' # None, lost' \in BOOLEAN,
           UNCHANGED <<since, first, moved, carried, wanted>>,
           ~setup.prompts /\ ~lost' /\ wanted # None =>
              wanted > last' \/ (pc' = "probe" /\ transient' # None),
           setup.prompts /\ first = prompted' /\ ~moved =>
              /\ pane.agent # None /\ ~pane.exited /\ pane.agent = initial'.agent
              /\ pane.occupant = prompted' /\ after' = pane.changes
    PROVE  IInv'
<1> USE DEF IInv
<1>1. /\ AppTypeOK' /\ PaneOK' /\ OccupantOK' /\ initial' \in Panes \cup {None}
      /\ CarriedOK' /\ (Home => Home')
      /\ wanted' # None /\ wanted' > Oldest' => At(wanted)' \in WantedEvents'
      /\ Until' = Until /\ setup' = setup /\ hub' = hub /\ pane' = pane
  BY FrameStep
<1>2. result = None /\ result' = None /\ pc' # "done"
  BY DEF TypeOK
<1>3. TypeOK'
  BY <1>1, <1>2 DEF TypeOK
<1>4. Running' /\ pc' \notin {"start", "get", "prompt"}
  BY DEF Running
<1>5. StageOK'
  BY <1>1, <1>4 DEF StageOK
<1>6. NumbersOK'
  BY <1>1 DEF NumbersOK
<1>7. WantedOK'
  BY <1>1 DEF WantedOK
<1>8. PromptOK' /\ MoveOK'
  BY <1>1 DEF PromptOK, MoveOK
<1>9. WantedSeen' /\ NotRunningTrue' /\ PromptObserved'
  BY <1>2 DEF WantedSeen, NotRunningTrue, PromptObserved, Responded
<1> QED
  BY <1>1, <1>3, <1>5, <1>6, <1>7, <1>8, <1>9

\* An agent that is there has the label that the wait is about, and is found
\* unless its pane was moved.
LEMMA AliveFacts ==
    ASSUME IInv, initial # None, initial.agent # None, Alive
    PROVE  /\ pane.agent = initial.agent /\ pane.agent # None /\ ~pane.exited
           /\ pane.occupant = initial.occupant
           /\ pane.id = Target => SameAgent
BY DEF IInv, OccupantOK, Alive, SameAgent, Found, HasAgent

\* The record of an error.
LEMMA FailFacts ==
    ASSUME NEW kind \in {"error", "not_running", "none"}, Fail(kind)
    PROVE  /\ pc' = "done" /\ result' \in Results /\ result'.kind = kind
           /\ result'.alive => initial # None /\ Alive
<1>1. (initial # None /\ Alive) \in BOOLEAN
  BY DEF Alive, HasAgent
<1> DEFINE a == initial # None /\ Alive
<1>2. result' = [kind |-> kind, status |-> None, occupant |-> None, alive |-> a] /\ pc' = "done"
  BY DEF Fail
<1> HIDE DEF a
<1> QED
  BY <1>1, <1>2 DEF Results, a

\* The record of an answer.
LEMMA RespondFacts ==
    ASSUME NEW kind \in {"matched", "timeout", "stalled"}, NEW status \in Statuses,
           NEW occupant \in Nat, Respond(kind, status, occupant)
    PROVE  pc' = "done" /\ result' \in Results /\ result'.kind = kind
<1>1. Alive \in BOOLEAN
  BY DEF Alive, HasAgent
<1>2. result' = [kind |-> kind, status |-> status, occupant |-> occupant, alive |-> Alive] /\ pc' = "done"
  BY DEF Respond
<1> QED
  BY <1>1, <1>2 DEF Results

\* The wait, or its gate, ends with the agent as it was or as it is; after a
\* prompt the agent has moved.
LEMMA FinishStep ==
    ASSUME IInv, Running, UNCHANGED appVars, UNCHANGED <<since, first, moved, carried, wanted, prompted>>,
           lost' \in BOOLEAN, NEW agent \in Panes, NEW status \in Statuses,
           agent = initial \/ (agent = pane /\ pane.agent # None /\ pane.id = Target),
           Finish(agent, status), setup.prompts /\ first = prompted => moved
    PROVE  IInv'
<1> USE DEF IInv
<1>1. /\ initial # None /\ initial.agent # None /\ pc \notin {"start", "done"} /\ initial \in Panes
      /\ prompted \in Nat \cup {None} /\ (setup.prompts => prompted # None)
      /\ initial.id = Target /\ Home
  BY DEF StageOK, Running, TypeOK, MoveOK
<1>2. CASE phase = "gate" /\ status \notin Until
  <2>1. /\ initial' = [agent EXCEPT !.status = status] /\ result' = result
        /\ phase' = "settle" /\ after' = None /\ last' = since /\ transient' = None /\ pc' = "look"
    BY <1>2 DEF Finish, Enter
  <2>2. /\ initial' \in Panes /\ initial'.agent = agent.agent /\ initial'.occupant = agent.occupant
        /\ initial'.id = agent.id
    BY <2>1 DEF Panes
  <2>3. NewInitial /\ initial'.agent # None /\ initial' # None /\ initial'.id = Target
    BY <1>1, <2>2, NoneAssumption DEF NewInitial
  <2>4. setup.prompts
    BY <1>2 DEF StageOK
  <2>5. since \in Nat /\ since <= hub.next /\ since <= since
    BY HubFacts DEF TypeOK, NumbersOK
  <2> QED
    BY <1>1, <2>1, <2>3, <2>4, <2>5, GoOn
<1>3. CASE ~(phase = "gate" /\ status \notin Until)
  <2>1. Respond("matched", status, agent.occupant) /\ UNCHANGED <<initial, phase, after, last, transient>>
    BY <1>3 DEF Finish, waiting
  <2>2. agent.occupant \in Nat
    BY DEF Panes
  <2>3. pc' = "done" /\ result' \in Results /\ result'.kind = "matched"
    BY <2>1, <2>2, RespondFacts
  <2>4. NewInitial
    BY <2>1 DEF NewInitial
  <2> QED
    BY <1>1, <2>1, <2>3, <2>4, DoneStep
<1> QED
  BY <1>2, <1>3

\* The number is noted.
LEMMA StartStep ==
    ASSUME IInv, Start, UNCHANGED appVars
    PROVE  IInv'
<1> USE DEF IInv
<1>1. UNCHANGED <<setup, pane, outbox, hub, handled>>
  BY DEF appVars
<1>2. /\ pc = "start" /\ pc' = "get" /\ since' = hub.next /\ last' = hub.next
      /\ UNCHANGED <<phase, initial, after, transient, result, prompted, moved, carried, wanted, lost>>
      /\ first' = IF HasAgent /\ ~pane.exited /\ Answering THEN pane.occupant ELSE None
  BY DEF Start
<1>3. /\ hub.next \in Nat /\ pane.occupant \in Nat /\ None \notin Nat
      /\ wanted = None /\ result = None /\ initial = None /\ prompted = None
  BY <1>2, HubFacts, PaneFacts, NoneAssumption DEF StageOK, TypeOK
<1>4. Until' = Until /\ ~Running' /\ Oldest' = Oldest /\ Label' = Label
  BY <1>1, <1>2 DEF Until, Running, Oldest, Label
<1>5. TypeOK'
  <2>1. AppTypeOK'
    BY <1>1 DEF AppTypeOK, TypeOK
  <2> QED
    BY <1>2, <1>3, <1>4, <2>1 DEF TypeOK
<1>6. PaneOK' /\ StageOK'
  BY <1>1, <1>2, <1>4 DEF PaneOK, StageOK
<1>7. NumbersOK' /\ WantedOK' /\ PromptOK' /\ MoveOK'
  BY <1>1, <1>2, <1>3, <1>4 DEF NumbersOK, WantedOK, PromptOK, MoveOK
<1>8. OccupantOK'
  <2>1. first' # None => first' <= pane'.occupant
    BY <1>1, <1>2, <1>3
  <2>2. ASSUME pane'.occupant = first' PROVE outbox' \in Seq(Safe(Label)')
    <3>1. outbox' = <<>>
      BY <1>1, <1>2, <1>3, <2>2 DEF Answering
    <3> QED
      BY <3>1
  <2>3. ASSUME NEW n \in (since' + 1) .. hub'.next PROVE FALSE
    BY <1>1, <1>2, <1>3, <2>3
  <2> QED
    BY <1>2, <1>3, <2>1, <2>2, <2>3 DEF OccupantOK
<1>9. WantedSeen' /\ NotRunningTrue' /\ PromptObserved'
  BY <1>2, <1>3 DEF WantedSeen, NotRunningTrue, PromptObserved, Responded
<1>10. CarriedOK'
  <2>1. ASSUME NEW n \in (since' + 1) .. hub'.next PROVE FALSE
    BY <1>1, <1>2, <1>3, <2>1
  <2> QED
    BY <2>1 DEF CarriedOK
<1> QED
  BY <1>5, <1>6, <1>7, <1>8, <1>9, <1>10

\* The first agent_get.
LEMMA GetStep ==
    ASSUME IInv, Get, UNCHANGED appVars
    PROVE  IInv'
<1> USE DEF IInv
<1>1. /\ pc = "get" /\ initial' = pane
      /\ UNCHANGED <<phase, since, last, after, transient, first, prompted, moved, carried, wanted, lost>>
  BY DEF Get, history
<1>2. /\ initial = None /\ last = since /\ prompted = None /\ transient = None /\ phase = "settle"
      /\ result = None /\ pane \in Panes /\ lost \in BOOLEAN
  BY <1>1, PaneFacts DEF StageOK, TypeOK
<1>3. NewInitial /\ pane # None
  BY <1>1, <1>2, NoneAssumption DEF NewInitial
<1>4. CASE ~Found
  <2>1. Fail("error")
    BY <1>4 DEF Get
  <2>2. pc' = "done" /\ result' \in Results /\ result'.kind = "error"
    BY <2>1, FailFacts
  <2> QED
    BY <1>1, <1>2, <1>3, <2>2, DoneStep
<1>5. CASE Found /\ ~setup.prompts /\ Matches(pane.status, pane.changes)
  <2>1. /\ pc' = "done"
        /\ result' = [kind |-> "matched", status |-> pane.status,
                      occupant |-> pane.occupant, alive |-> ~pane.exited]
    BY <1>5 DEF Get
  <2>2. result' \in Results /\ result'.kind = "matched"
    BY <2>1, PaneFacts DEF Results
  <2> QED
    BY <1>1, <1>2, <1>3, <1>5, <2>1, <2>2, DoneStep
<1>6. CASE Found /\ ~setup.prompts /\ ~Matches(pane.status, pane.changes)
  <2>1. pc' = "look" /\ result' = result
    BY <1>6 DEF Get
  <2>2. pane.agent # None /\ pane.id = Target /\ Home
    BY <1>6 DEF Found, HasAgent, Home
  <2>3. /\ last \in Nat /\ since <= last /\ last <= hub.next /\ after = None
        /\ wanted # None => wanted > last
    BY <1>2, <1>6 DEF TypeOK, NumbersOK, StageOK
  <2> QED
    BY <1>1, <1>2, <1>3, <1>6, <2>1, <2>2, <2>3, GoOn
<1>7. CASE Found /\ setup.prompts
  <2>1. pc' = "prompt" /\ result' = result
    BY <1>7 DEF Get
  <2>2. pane.agent # None /\ ~Running' /\ pane.id = Target /\ Home
    BY <1>7, <2>1 DEF Found, HasAgent, Running, Home
  <2>3. /\ AppTypeOK' /\ PaneOK' /\ OccupantOK' /\ initial' \in Panes \cup {None}
        /\ CarriedOK' /\ (Home => Home')
        /\ wanted' # None /\ wanted' > Oldest' => At(wanted)' \in WantedEvents'
        /\ Until' = Until /\ setup' = setup /\ hub' = hub /\ pane' = pane
    BY <1>1, <1>3, FrameStep
  <2>4. TypeOK'
    BY <1>1, <1>2, <2>1, <2>3 DEF TypeOK
  <2>5. StageOK'
    BY <1>1, <1>2, <1>3, <1>7, <2>1, <2>2, <2>3 DEF StageOK
  <2>6. NumbersOK' /\ WantedOK' /\ PromptOK' /\ MoveOK'
    BY <1>1, <2>2, <2>3 DEF NumbersOK, WantedOK, PromptOK, MoveOK
  <2>7. WantedSeen' /\ NotRunningTrue' /\ PromptObserved'
    BY <1>2, <2>1 DEF WantedSeen, NotRunningTrue, PromptObserved, Responded
  <2> QED
    BY <2>3, <2>4, <2>5, <2>6, <2>7
<1> QED
  BY <1>4, <1>5, <1>6, <1>7

\* The prompt is sent, and the gate or the wait begins.
LEMMA PromptStep ==
    ASSUME IInv, Prompt, UNCHANGED appVars
    PROVE  IInv'
<1> USE DEF IInv
<1>1. /\ pc = "prompt" /\ initial' = pane /\ prompted' = pane.occupant
      /\ UNCHANGED <<since, first, moved, carried, wanted, lost>>
  BY DEF Prompt
<1>2. /\ initial # None /\ initial.agent # None /\ setup.prompts /\ last = since /\ result = None
      /\ pane \in Panes /\ lost \in BOOLEAN /\ pane.occupant \in Nat /\ pane.changes \in Nat
  BY <1>1, PaneFacts DEF StageOK, TypeOK
<1>3. NewInitial /\ pane # None /\ None \notin Nat
  BY <1>1, <1>2, NoneAssumption DEF NewInitial
<1>4. CASE ~Found \/ pane.exited
  <2>1. Fail("error") /\ UNCHANGED <<phase, after, last, transient>>
    BY <1>4 DEF Prompt
  <2>2. pc' = "done" /\ result' \in Results /\ result'.kind = "error"
    BY <2>1, FailFacts
  <2> QED
    BY <1>1, <1>2, <1>3, <2>1, <2>2, DoneStep
<1>5. CASE Found /\ ~pane.exited /\ pane.agent # initial.agent
  <2>1. Fail("not_running") /\ UNCHANGED <<phase, after, last, transient>>
    BY <1>5 DEF Prompt
  <2>2. pc' = "done" /\ result' \in Results /\ result'.kind = "not_running" /\ ~result'.alive
    BY <1>2, <1>5, <2>1, FailFacts, AliveFacts
  <2> QED
    BY <1>1, <1>2, <1>3, <2>1, <2>2, DoneStep
<1>6. CASE Found /\ ~pane.exited /\ pane.agent = initial.agent
  <2>1. /\ phase' \in {"gate", "settle"} /\ after' = pane.changes /\ last' = since
        /\ transient' = None /\ pc' = "look" /\ result' = result
    BY <1>6 DEF Prompt, Enter
  <2>2. since \in Nat /\ since <= since /\ since <= hub.next
    BY HubFacts DEF TypeOK, NumbersOK
  <2>3. pane.agent # None /\ pane.id = Target /\ Home
    BY <1>6 DEF Found, HasAgent, Home
  <2> QED
    BY <1>1, <1>2, <1>3, <1>6, <2>1, <2>2, <2>3, GoOn
<1> QED
  BY <1>4, <1>5, <1>6

\* A request fails, or the client has gone.
LEMMA BreakOff ==
    ASSUME IInv, RequestFails \/ ClientGone, UNCHANGED appVars
    PROVE  IInv'
<1>1. /\ UNCHANGED <<since, initial, phase, after, last, transient, first, prompted, moved, carried, wanted, lost>>
      /\ pc # "start" /\ (Fail("error") \/ Fail("none"))
  BY DEF RequestFails, ClientGone, waiting, history
<1>2. pc' = "done" /\ result' \in Results /\ result'.kind \in {"error", "none"}
  BY <1>1, FailFacts
<1>3. NewInitial /\ prompted \in Nat \cup {None} /\ lost \in BOOLEAN
  BY <1>1 DEF NewInitial, IInv, TypeOK
<1> QED
  BY <1>1, <1>2, <1>3, DoneStep

\* What is known where the wait goes on.
LEMMA RunningFacts ==
    ASSUME IInv, Running
    PROVE  /\ initial # None /\ initial \in Panes /\ initial.agent # None /\ pc \notin {"start", "done"}
           /\ initial.id = Target /\ Home
           /\ phase \in {"gate", "settle"} /\ after \in Nat \cup {None}
           /\ phase = "gate" => setup.prompts
           /\ ~setup.prompts => after = None
           /\ transient \in Until \cup {None} /\ (setup.prompts => transient = None)
           /\ last \in Nat /\ since \in Nat /\ since <= last /\ last <= hub.next
           /\ prompted \in Nat \cup {None} /\ (setup.prompts => prompted # None)
           /\ lost \in BOOLEAN /\ Awaited \subseteq Statuses
           /\ ~setup.prompts => Awaited = Until
<1>1. Until \subseteq Statuses
  BY HubFacts
<1> QED
  BY <1>1 DEF IInv, Running, TypeOK, StageOK, NumbersOK, MoveOK, Awaited

\* The deadline is looked at.
LEMMA DeadlineStep ==
    ASSUME IInv, Sleep \/ DeadlinePasses, UNCHANGED appVars
    PROVE  IInv'
<1>1. /\ UNCHANGED <<since, initial, phase, after, last, transient, first, prompted, moved, carried, wanted, lost>>
      /\ result' = result /\ pc = "deadline" /\ pc' \in {"look", "final"}
  BY DEF Sleep, DeadlinePasses, waiting, history
<1>2. Running /\ NewInitial
  BY <1>1 DEF Running, NewInitial
<1>3. ~setup.prompts /\ ~lost /\ wanted # None => wanted > last
  BY <1>1, <1>2 DEF IInv, WantedOK
<1>4. setup.prompts /\ first = prompted /\ ~moved =>
              /\ pane.agent # None /\ ~pane.exited /\ pane.agent = initial.agent
              /\ pane.occupant = prompted /\ after = pane.changes
  BY <1>2 DEF IInv, PromptOK
<1> QED
  BY <1>1, <1>2, <1>3, <1>4, RunningFacts, GoOn

\* A match after a prompt takes a change of the agent.
LEMMA MatchMoved ==
    ASSUME IInv, Running, Matches(pane.status, pane.changes), setup.prompts, first = prompted
    PROVE  moved
<1>1. SUFFICES ASSUME ~moved PROVE FALSE
  BY DEF IInv, TypeOK
<1>2. after = pane.changes
  BY <1>1 DEF IInv, PromptOK
<1>3. pane.changes \in Nat /\ after # None
  BY <1>2, PaneFacts, NoneAssumption
<1> QED
  BY <1>2, <1>3 DEF Matches

\* The agent is asked for, after an event or at the deadline.
LEMMA AskStep ==
    ASSUME IInv, Probe \/ Final, UNCHANGED appVars
    PROVE  IInv'
<1> USE DEF IInv
<1>1. /\ UNCHANGED <<since, first, prompted, moved, carried, wanted, lost>> /\ pc \in {"probe", "final"}
      /\ outbox = <<>>
  BY DEF Probe, Final, history, Answering
<1>2. Running
  BY <1>1 DEF Running
<1>3. /\ initial # None /\ initial.agent # None /\ pane \in Panes /\ pane.status \in Statuses
      /\ pane.occupant \in Nat
  BY <1>2, RunningFacts, PaneFacts
<1>4. CASE ~SameAgent
  <2>1. Fail("not_running") /\ UNCHANGED <<initial, phase, after, last, transient>>
    BY <1>4 DEF Probe, Final, waiting
  <2>2. /\ pc' = "done" /\ result' \in Results /\ result'.kind = "not_running"
        /\ result'.alive => Alive
    BY <2>1, FailFacts
  <2>3. NewInitial
    BY <2>1 DEF NewInitial
\* an agent that is there is not found because its pane was moved
  <2>4. Alive => carried
    <3>1. Alive => pane.id # Target
      BY <1>3, <1>4, AliveFacts
    <3>2. pane.id = Target \/ carried
      BY <1>1, <1>2, RunningFacts DEF Home
    <3> QED
      BY <3>1, <3>2
  <2>5. carried \in BOOLEAN
    BY DEF TypeOK
  <2> QED
    BY <1>1, <1>2, <2>1, <2>2, <2>3, <2>4, <2>5, RunningFacts, DoneStep
<1>5. CASE SameAgent /\ Probe /\ transient # None
  <2>1. Finish(pane, transient)
    BY <1>5 DEF Probe
  <2>2. ~setup.prompts /\ transient \in Statuses /\ pane.agent # None /\ pane.id = Target
    BY <1>2, <1>5, RunningFacts, HubFacts DEF SameAgent, Found, HasAgent
  <2> QED
    BY <1>1, <1>2, <1>3, <2>1, <2>2, RunningFacts, FinishStep
<1>6. CASE SameAgent /\ ~(Probe /\ transient # None) /\ Matches(pane.status, pane.changes)
  <2>1. Finish(pane, pane.status)
    BY <1>6 DEF Probe, Final
  <2>2. pane.agent # None /\ pane.id = Target
    BY <1>6 DEF SameAgent, Found, HasAgent
  <2> QED
    BY <1>1, <1>2, <1>3, <1>6, <2>1, <2>2, MatchMoved, RunningFacts, FinishStep
<1>7. CASE SameAgent /\ Probe /\ transient = None /\ ~Matches(pane.status, pane.changes)
  <2>1. pc' = "deadline" /\ UNCHANGED <<initial, phase, after, last, transient, result>>
    BY <1>7 DEF Probe, waiting
  <2>2. NewInitial
    BY <2>1 DEF NewInitial
  <2>3. ~setup.prompts /\ ~lost /\ wanted # None => wanted > last
    BY <1>2, <1>7 DEF WantedOK
  <2>4. setup.prompts /\ first = prompted /\ ~moved =>
              /\ pane.agent # None /\ ~pane.exited /\ pane.agent = initial.agent
              /\ pane.occupant = prompted /\ after = pane.changes
    BY <1>2 DEF PromptOK
  <2> QED
    BY <1>1, <1>2, <2>1, <2>2, <2>3, <2>4, RunningFacts, GoOn
<1>8. CASE SameAgent /\ Final /\ ~Matches(pane.status, pane.changes)
  <2> DEFINE kind == IF phase = "gate" THEN "stalled" ELSE "timeout"
  <2>1. /\ Respond(kind, pane.status, pane.occupant)
        /\ UNCHANGED <<initial, phase, after, last, transient>> /\ pc = "final"
    BY <1>8 DEF Final, waiting
  <2>2. kind \in {"stalled", "timeout"}
    OBVIOUS
  <2> HIDE DEF kind
  <2>3. pc' = "done" /\ result' \in Results /\ result'.kind = kind
    BY <1>3, <2>1, <2>2, RespondFacts
  <2>4. ~setup.prompts /\ ~lost => wanted = None \/ wanted > last
    BY <1>2, <2>1 DEF WantedOK
  <2>5. NewInitial
    BY <2>1 DEF NewInitial
  <2> QED
    BY <1>1, <1>2, <2>1, <2>2, <2>3, <2>4, <2>5, RunningFacts, DoneStep
<1> QED
  BY <1>4, <1>5, <1>6, <1>7, <1>8

\* All that was published that ends a wait for an agent that has been there
\* all the time is a move of its pane.
LEMMA OnlyMoves ==
    ASSUME IInv, Running, pane.agent # None, ~pane.exited, pane.agent = initial.agent,
           pane.occupant = first,
           NEW i \in 1 .. Len(EventsAfter(hub, last)), Ends(EventsAfter(hub, last)[i])
    PROVE  EventsAfter(hub, last)[i].kind = "Moved" /\ carried
<1> DEFINE events == EventsAfter(hub, last)
           read == hub.next - Len(events)
<1>1. /\ Len(events) \in Nat /\ read \in Nat /\ read >= last /\ read >= Oldest
      /\ events[i] = At(read + i)
  BY ReadFacts
<1> HIDE DEF events
<1>2. /\ since \in Nat /\ last \in Nat /\ since <= last /\ hub.next \in Nat /\ Oldest \in Nat
  BY RunningFacts, HubFacts
<1>3. i \in 1 .. Len(events) /\ Ends(events[i])
  BY DEF events
<1>4. read + i \in since + 1 .. hub.next /\ read + i > Oldest
  BY SMTT(20), <1>1, <1>2, <1>3
<1>5. Present /\ Label = initial.agent
  BY DEF Present, Label
<1> HIDE DEF read
<1>6. At(read + i) \in Safe(Label)
  BY <1>4, <1>5 DEF IInv, OccupantOK
<1>7. events[i].kind = "Moved"
  BY <1>1, <1>3, <1>5, <1>6 DEF Safe, Ends
<1>8. carried
  BY <1>1, <1>4, <1>7 DEF IInv, TypeOK, CarriedOK, Running
<1> QED
  BY <1>7, <1>8 DEF events

\* A transient match is one of the statuses waited for, and is found.
LEMMA TransientFacts ==
    ASSUME IInv, Running, NEW events \in Seq(Events), NEW n \in 0 .. Len(events)
    PROVE  /\ TransientOf(events, n) \in Until \cup {None}
           /\ setup.prompts => TransientOf(events, n) = None
           /\ ~setup.prompts /\ (\E i \in 1 .. n : events[i] \in WantedEvents) =>
                 TransientOf(events, n) # None
<1> DEFINE hits == {i \in 1 .. n : /\ Mine(events[i])
                                  /\ events[i].kind = "Status" /\ events[i].status \in Awaited}
           newest == CHOOSE i \in hits : \A j \in hits : j <= i
<1>1. Len(events) \in Nat /\ n \in Nat
  BY LenProperties
<1>2. TransientOf(events, n) = IF setup.prompts \/ hits = {} THEN None ELSE events[newest].status
  BY DEF TransientOf
<1>3. ~setup.prompts => Awaited = Until
  BY RunningFacts
<1>4. None \notin Until
  BY HubFacts, EventsAssumption
<1>5. CASE setup.prompts \/ hits = {}
  <2>1. TransientOf(events, n) = None
    BY <1>2, <1>5
  <2>2. ~setup.prompts => ~(\E i \in 1 .. n : events[i] \in WantedEvents)
    BY <1>3, <1>5, RunningFacts DEF WantedEvents, Mine
  <2> QED
    BY <2>1, <2>2
<1>6. CASE ~setup.prompts /\ hits # {}
  <2>1. hits \in SUBSET (0 .. n)
    BY <1>1
  <2>2. PICK k \in hits : TRUE
    BY <1>6
  <2>3. \A i \in hits : events[i].status \in Awaited
    OBVIOUS
  <2> HIDE DEF hits
  <2>4. \E i \in hits : \A j \in hits : j <= i
    BY <1>1, <2>1, <2>2, GreatestNumber
  <2>5. newest \in hits
    BY <2>4
  <2> HIDE DEF newest
  <2>6. TransientOf(events, n) \in Until
    BY <1>2, <1>3, <1>6, <2>3, <2>5
  <2> QED
    BY <1>4, <1>6, <2>6
<1> QED
  BY <1>5, <1>6

\* One look at the hub.
LEMMA LookStep ==
    ASSUME IInv, Look, UNCHANGED appVars
    PROVE  IInv'
<1> USE DEF IInv
<1> DEFINE events == EventsAfter(hub, last)
           ending == {i \in 1 .. Len(events) : Ends(events[i])}
           end == CHOOSE i \in ending : \A j \in ending : i <= j
           final == events[end].status
           seen == TransientOf(events, end)
<1>1. /\ pc = "look" /\ UNCHANGED <<since, first, prompted, moved, carried, wanted>>
      /\ lost' \in BOOLEAN /\ (~lost' => ~lost /\ ~(Oldest > last))
  <2>1. lost' = (lost \/ hub.next - Len(hub.events) > last)
    BY DEF Look, NoteLoss
  <2>2. lost \in BOOLEAN
    BY DEF TypeOK
  <2> QED
    BY <2>1, <2>2 DEF Look, NoteLoss, Oldest
<1>2. Running
  BY <1>1 DEF Running
<1>3. events \in Seq(Events) /\ Len(events) \in Nat
  BY ReadFacts
<1>4. CASE ending # {}
  <2>1. PICK k \in ending : TRUE
    BY <1>4
  <2>2. end \in ending
    <3> HIDE DEF events
    <3>1. ending \in SUBSET (0 .. Len(events))
      OBVIOUS
    <3> HIDE DEF ending
    <3>2. \E i \in ending : \A j \in ending : i <= j
      BY <1>3, <2>1, <3>1, LeastNumber
    <3> QED
      BY <3>2
  <2> HIDE DEF end
  <2>3. /\ end \in 1 .. Len(events) /\ end \in 0 .. Len(events)
        /\ first = initial.occupant /\ Alive => carried
        /\ setup.prompts /\ first = prompted /\ events[end].kind = "Released" => moved
    <3>1. end \in 1 .. Len(EventsAfter(hub, last)) /\ Ends(EventsAfter(hub, last)[end])
      BY <2>2
    <3>2. ASSUME first = initial.occupant, Alive PROVE carried
      <4>1. initial # None /\ initial.agent # None
        BY <1>2, RunningFacts
      <4>2. /\ pane.agent = initial.agent /\ pane.agent # None /\ ~pane.exited
            /\ pane.occupant = initial.occupant
        BY <3>2, <4>1, AliveFacts
      <4> QED
        BY <1>2, <3>1, <3>2, <4>2, OnlyMoves
    <3>3. ASSUME setup.prompts, first = prompted, ~moved PROVE events[end].kind = "Moved"
      <4>1. /\ pane.agent # None /\ ~pane.exited /\ pane.agent = initial.agent
            /\ pane.occupant = first
        BY <1>2, <3>3 DEF PromptOK
      <4> QED
        BY <1>2, <3>1, <4>1, OnlyMoves
    <3> HIDE DEF events
    <3>4. end \in 1 .. Len(events) /\ end \in 0 .. Len(events)
      BY <1>3, <3>1 DEF events
    <3> QED
      BY <3>2, <3>3, <3>4 DEF TypeOK
  <2>4. seen \in Until \cup {None}
    BY <1>2, <1>3, <2>3, TransientFacts
  <2>5. IF events[end].kind = "Released" /\ (final \in Awaited \/ seen # None)
        THEN Finish(initial, IF final \in Awaited THEN final ELSE seen)
        ELSE Fail("not_running") /\ UNCHANGED waiting
    BY <1>4 DEF Look, end
  <2> HIDE DEF final, seen, ending, events
  <2>6. CASE events[end].kind = "Released" /\ (final \in Awaited \/ seen # None)
    <3> DEFINE status == IF final \in Awaited THEN final ELSE seen
    <3>1. Finish(initial, status)
      BY <2>5, <2>6
    <3>2. status \in Statuses
      BY <1>2, <2>4, <2>6, RunningFacts, HubFacts
    <3> HIDE DEF status
    <3> QED
      BY <1>1, <1>2, <2>3, <2>6, <3>1, <3>2, RunningFacts, FinishStep
  <2>7. CASE ~(events[end].kind = "Released" /\ (final \in Awaited \/ seen # None))
    <3>1. Fail("not_running") /\ UNCHANGED <<initial, phase, after, last, transient>>
      BY <2>5, <2>7 DEF waiting
    <3>2. /\ pc' = "done" /\ result' \in Results /\ result'.kind = "not_running"
          /\ result'.alive => Alive
      BY <3>1, FailFacts
    <3>3. NewInitial /\ initial' = initial
      BY <3>1 DEF NewInitial
    <3> QED
      BY <1>1, <1>2, <2>3, <3>1, <3>2, <3>3, RunningFacts, DoneStep
  <2> QED
    BY <2>6, <2>7
<1>5. CASE ending = {}
  <2>1. /\ pc' = IF \E i \in 1 .. Len(events) : Mine(events[i]) THEN "probe" ELSE "deadline"
        /\ last' = hub.next /\ transient' = TransientOf(events, Len(events))
        /\ UNCHANGED <<initial, phase, after, result>>
    BY <1>5 DEF Look
  <2>2. /\ transient' \in Until \cup {None} /\ (setup.prompts => transient' = None)
        /\ ~setup.prompts /\ (\E i \in 1 .. Len(events) : events[i] \in WantedEvents) => transient' # None
    BY <1>2, <1>3, <2>1, TransientFacts
  <2>3. NewInitial /\ initial' = initial
    BY <2>1 DEF NewInitial
  <2>4. ASSUME ~setup.prompts, ~lost', wanted # None
        PROVE  pc' = "probe" /\ transient' # None
    <3> DEFINE read == hub.next - Len(events)
               i == wanted - read
    <3>1. /\ hub.next \in Nat /\ wanted \in Nat /\ last \in Nat /\ Oldest \in Nat
          /\ wanted <= hub.next /\ wanted > last /\ Oldest <= last
      BY <1>1, <1>2, <2>4, HubFacts DEF TypeOK, NumbersOK, WantedOK
    <3>2. read = last /\ \A j \in 1 .. Len(events) : events[j] = At(read + j)
      BY <3>1, ReadFacts
    <3> HIDE DEF events
    <3>3. i \in 1 .. Len(events) /\ read + i = wanted
      BY <1>3, <3>1, <3>2
    <3>4. events[i] = At(wanted)
      <4> HIDE DEF i
      <4>1. events[i] = At(read + i)
        BY <3>2, <3>3
      <4> QED
        BY <3>3, <4>1
    <3>5. At(wanted) \in WantedEvents
      BY <2>4, <3>1 DEF WantedOK
    <3> HIDE DEF i
    <3>6. events[i] \in WantedEvents /\ Mine(events[i])
      BY <1>2, <3>4, <3>5, RunningFacts DEF WantedEvents, Mine
    <3> QED
      BY <2>1, <2>2, <2>4, <3>3, <3>6
  <2>5. setup.prompts /\ first = prompted /\ ~moved =>
              /\ pane.agent # None /\ ~pane.exited /\ pane.agent = initial.agent
              /\ pane.occupant = prompted /\ after = pane.changes
    BY <1>2 DEF PromptOK
  <2>6. pc' \in {"probe", "deadline"}
    BY <2>1
  <2>7. hub.next \in Nat /\ since <= hub.next /\ hub.next <= hub.next
    BY HubFacts DEF TypeOK, NumbersOK
  <2> HIDE DEF events, ending
  <2> QED
    BY <1>1, <1>2, <2>1, <2>2, <2>3, <2>4, <2>5, <2>6, <2>7, RunningFacts, GoOn
<1> QED
  BY <1>4, <1>5

-----------------------------------------------------------------------------
(* The theorems.                                                           *)

LEMMA InitIInv == Init => IInv
<1> SUFFICES ASSUME Init PROVE IInv
  OBVIOUS
<1> USE DEF Init
<1>1. /\ setup \in Setups /\ setup.agents \subseteq Agents /\ setup.capacity \in Nat
      /\ setup.capacity > 0 /\ setup.handlers \in Nat /\ None \notin Agents
      /\ setup.prompts \in BOOLEAN
  BY EventsAssumption, WaitAssumption DEF AppInit
<1>2. PICK agent \in setup.agents, status \in Statuses :
          pane = [open |-> TRUE, id |-> 1, agent |-> agent, exited |-> FALSE, occupant |-> 1,
                  unseen |-> None, status |-> status, changes |-> 0]
  BY DEF AppInit
<1>3. /\ pane \in Panes /\ pane.open /\ ~pane.exited /\ pane.unseen = None /\ pane.agent # None
      /\ pane.occupant \in Nat
  BY <1>1, <1>2 DEF Panes
<1>4. hub.next = 0 /\ hub.events = <<>> /\ outbox = <<>> /\ handled = 0
  BY DEF AppInit
<1>5. /\ outbox \in Seq(Events) /\ hub.events \in Seq(Events) /\ Len(hub.events) = 0
      /\ handled \in 0 .. setup.handlers
      /\ Len(hub.events) = (IF hub.next < setup.capacity THEN hub.next ELSE setup.capacity)
  BY <1>1, <1>4
<1>6. AppTypeOK
  BY <1>3, <1>4, <1>5 DEF AppTypeOK
<1>7. TypeOK
  BY <1>6 DEF WaitInit, TypeOK
<1>8. PaneOK /\ StageOK
  BY <1>1, <1>3 DEF WaitInit, PaneOK, StageOK, Running
<1>9. NumbersOK /\ WantedOK /\ OccupantOK /\ PromptOK /\ MoveOK /\ CarriedOK
  BY <1>3, <1>4, NoneAssumption
     DEF WaitInit, NumbersOK, WantedOK, OccupantOK, PromptOK, MoveOK, CarriedOK, Running
<1>10. WantedSeen /\ NotRunningTrue /\ PromptObserved
  BY DEF WaitInit, WantedSeen, NotRunningTrue, PromptObserved, Responded
<1> QED
  BY <1>7, <1>8, <1>9, <1>10 DEF IInv

\* Every step of the application and of the thread keeps the invariant.
LEMMA NextIInv == IInv /\ [Next]_vars => IInv'
<1> SUFFICES ASSUME IInv, [Next]_vars PROVE IInv'
  OBVIOUS
<1>1. CASE WaitStep /\ UNCHANGED appVars
  BY <1>1, StartStep, GetStep, PromptStep, BreakOff, LookStep, AskStep, DeadlineStep
     DEF WaitStep, ThreadStep
<1>2. CASE Happens
  BY <1>2, HandlerStep, EmitStep
<1>3. CASE UNCHANGED vars
  <2>1. /\ AppTypeOK' /\ PaneOK' /\ OccupantOK' /\ initial' \in Panes \cup {None}
        /\ CarriedOK' /\ (Home => Home')
        /\ wanted' # None /\ wanted' > Oldest' => At(wanted)' \in WantedEvents'
        /\ Until' = Until /\ setup' = setup /\ hub' = hub /\ pane' = pane
    BY <1>3, FrameStep DEF vars, waitVars, NewInitial
  <2>2. UNCHANGED <<pc, phase, since, last, initial, after, transient, result, first, prompted,
                    moved, carried, wanted, lost>>
    BY <1>3 DEF vars, waitVars
  <2>3. Running' = Running
    BY <2>2 DEF Running
  <2> QED
    BY <2>1, <2>2, <2>3 DEF IInv, TypeOK, StageOK, NumbersOK, WantedOK, PromptOK, MoveOK,
       WantedSeen, NotRunningTrue, PromptObserved, Responded
<1> QED
  BY <1>1, <1>2, <1>3 DEF Next

\* The inductive invariant holds of every behaviour.
THEOREM Invariance == Spec => []IInv
BY InitIInv, NextIInv, PTL DEF Spec

\* A wait says nothing untrue, for any hub capacity and any number of events
\* and handlers between two steps of its thread: one that timed out has read
\* over no wanted status, and "agent_not_running" is said of an agent that is
\* not there, or whose pane was moved since the wait noted its number
\* (wait_for_resolved_agent).
THEOREM WaitsAnswerTrue == Spec => []AnswersTrue
<1>1. IInv => AnswersTrue
  BY DEF IInv, AnswersTrue
<1> QED
  BY <1>1, Invariance, PTL

\* A prompt that is answered as a success has been followed by a change of the
\* agent (prompt_agent).
THEOREM PromptsAreObserved == Spec => []PromptObserved
<1>1. IInv => PromptObserved
  BY DEF IInv
<1> QED
  BY <1>1, Invariance, PTL

-----------------------------------------------------------------------------
(* The subscriptions.                                                      *)

\* The hub holds the last events, never more than there were.
HubOK ==
    /\ hub.next \in Nat /\ Len(hub.events) <= hub.next
    /\ \E S : hub.events \in Seq(S)
    /\ setup \in Setups

\* Heard, read and published; and what an answer takes in.
HeardOK ==
    /\ lastSequence \in Nat /\ heardAt \in Nat /\ answeredAt \in Nat
    /\ heardAt <= lastSequence /\ lastSequence <= hub.next /\ answeredAt <= hub.next
    /\ step = "compare" /\ snapshot # None => lastSequence <= answeredAt

SubscriptionInv == HubOK /\ HeardOK

\* Publishing an event numbers it, and drops the oldest one when the hub is
\* full.
LEMMA PublishFacts ==
    ASSUME HubOK, NEW e
    PROVE  /\ Push(hub, e).next = hub.next + 1
           /\ Len(Push(hub, e).events) <= hub.next + 1
           /\ \E S : Push(hub, e).events \in Seq(S)
<1>1. PICK S : hub.events \in Seq(S)
  BY DEF HubOK
<1> DEFINE T == S \cup {e}
           events == Append(hub.events, e)
<1>2. hub.events \in Seq(T) /\ e \in T /\ Len(hub.events) \in Nat
  BY <1>1, SeqMonotonic, LenProperties
<1>3. events \in Seq(T) /\ Len(events) = Len(hub.events) + 1
  BY <1>2, AppendProperties
<1>4. events # <<>>
  BY <1>2, <1>3, EmptySeq
<1>5. Tail(events) \in Seq(T) /\ Len(Tail(events)) = Len(events) - 1
  BY <1>3, <1>4, HeadTailProperties
<1> HIDE DEF T, events
<1>6. /\ Push(hub, e).next = hub.next + 1
      /\ Push(hub, e).events = IF Len(events) > setup.capacity THEN Tail(events) ELSE events
  BY DEF Push, events
<1>7. Push(hub, e).events \in Seq(T)
  BY <1>3, <1>5, <1>6
<1>8. Len(Push(hub, e).events) <= hub.next + 1
  <2>1. Len(hub.events) \in Nat /\ hub.next \in Nat /\ Len(hub.events) <= hub.next
    BY <1>2 DEF HubOK
  <2> QED
    BY <1>3, <1>5, <1>6, <2>1
<1> QED
  BY <1>6, <1>7, <1>8

\* What is read after a number begins after it, and ends with the last event.
LEMMA EventsAfterFacts ==
    ASSUME HubOK, NEW n \in Nat, n <= hub.next
    PROVE  LET events == EventsAfter(hub, n) IN
           Len(events) \in Nat /\ hub.next - Len(events) >= n
<1>1. PICK S : hub.events \in Seq(S)
  BY DEF HubOK
<1> DEFINE oldest == hub.next - Len(hub.events)
           from == IF n > oldest THEN n - oldest ELSE 0
           events == EventsAfter(hub, n)
<1>2. /\ Len(hub.events) \in Nat /\ hub.next \in Nat /\ Len(hub.events) <= hub.next
      /\ \A i \in 1 .. Len(hub.events) : hub.events[i] \in S
  BY <1>1, LenProperties, ElementOfSeq DEF HubOK
<1>3. oldest \in Nat /\ from \in 0 .. Len(hub.events)
  BY <1>2
<1>4. events = SubSeq(hub.events, from + 1, Len(hub.events))
  BY DEF EventsAfter
<1> HIDE DEF events
<1>5. \A i \in (from + 1) .. Len(hub.events) : hub.events[i] \in S
  BY <1>2, <1>3
<1>6. events \in Seq(S) /\ Len(events) = IF from + 1 <= Len(hub.events) THEN Len(hub.events) - from ELSE 0
  <2>1. from + 1 \in Int /\ Len(hub.events) \in Int
    BY <1>2, <1>3
  <2> HIDE DEF from
  <2>2. /\ events \in Seq(S)
        /\ Len(events) = IF from + 1 <= Len(hub.events) THEN Len(hub.events) - (from + 1) + 1 ELSE 0
    BY <1>4, <1>5, <2>1, SubSeqProperties
  <2> QED
    BY <1>2, <1>3, <2>2
<1>7. Len(events) = Len(hub.events) - from
  <2> HIDE DEF from
  <2> QED
    BY <1>2, <1>3, <1>6
<1>8. Len(events) \in Nat /\ hub.next - Len(events) >= n
  BY SMTT(20), <1>2, <1>3, <1>7
<1> QED
  BY <1>8 DEF events

\* What the application does leaves the subscription alone, and the hub only
\* grows.
LEMMA PublishStep ==
    ASSUME HubOK, AppNext
    PROVE  HubOK' /\ hub'.next >= hub.next
<1>1. CASE EmitEvent
  <2>1. hub' = Push(hub, Head(outbox)) /\ setup' = setup
    BY <1>1 DEF EmitEvent
  <2> QED
    BY <2>1, PublishFacts DEF HubOK
<1>2. CASE ~EmitEvent
  <2>1. hub' = hub /\ setup' = setup
    <3>1. CASE ChangeState \/ ChangePresentation \/ PaneUpdates \/ MarkSeen \/ PaneMoves
      BY <3>1 DEF ChangeState, ChangePresentation, PaneUpdates, MarkSeen, PaneMoves, Handle
    <3>2. CASE AgentExits \/ AgentCleared \/ AgentReleased \/ AgentStarts
      BY <3>2 DEF AgentExits, AgentCleared, AgentReleased, AgentStarts, Handle
    <3>3. CASE PaneDies \/ PaneCloses \/ OtherEvent
      BY <3>3 DEF PaneDies, PaneCloses, OtherEvent, Handle
    <3>4. QED
      BY <1>2, <3>1, <3>2, <3>3 DEF AppNext
  <2> QED
    BY <2>1 DEF HubOK
<1> QED
  BY <1>1, <1>2

\* A step of the thread keeps the order of the numbers, and what is told is
\* not older than what was heard before.
LEMMA SubscriptionThread ==
    ASSUME SubscriptionInv, SubscriptionStep \/ AskFails \/ Stop, UNCHANGED appVars
    PROVE  SubscriptionInv' /\ heardAt' >= heardAt
<1> USE DEF SubscriptionInv
<1>1. HubOK' /\ hub' = hub /\ setup' = setup
  BY DEF HubOK, appVars
<1>2. /\ lastSequence \in Nat /\ heardAt \in Nat /\ answeredAt \in Nat /\ hub.next \in Nat
      /\ heardAt <= lastSequence /\ lastSequence <= hub.next /\ answeredAt <= hub.next
  BY DEF HeardOK, HubOK
<1>3. CASE New
  <2>1. /\ step' = "probe" /\ lastSequence' = hub.next
        /\ heardAt' = heardAt /\ answeredAt' = answeredAt
    BY <1>3 DEF New, Silent
  <2> QED
    BY <1>1, <1>2, <2>1 DEF HeardOK
<1>4. CASE SubscriptionProbe
  <2>1. /\ step' \in {"poll", "done"} /\ heardAt' \in {heardAt, lastSequence}
        /\ answeredAt' = hub.next /\ lastSequence' = lastSequence
    BY <1>4 DEF SubscriptionProbe, Silent
  <2> QED
    BY <1>1, <1>2, <2>1 DEF HeardOK
<1>5. CASE PollEvents
  <2> DEFINE events == EventsAfter(hub, lastSequence)
             read == hub.next - Len(events)
             statuses == {i \in 1 .. Len(events) : /\ events[i].id = paneId
                                                   /\ events[i].kind = "Status"}
             told == {i \in statuses : Passes(events[i].status)}
             one == CHOOSE i \in told : \A j \in told : i <= j
  <2>1. Len(events) \in Nat /\ read >= lastSequence /\ read \in Int
    BY <1>2, EventsAfterFacts
  <2>2. /\ answeredAt' = answeredAt
        /\ IF told # {}
           THEN /\ lastSequence' = read + one /\ heardAt' = read + one
                /\ step' \in {"done", "poll"}
           ELSE /\ lastSequence' \in {lastSequence, hub.next} /\ heardAt' = heardAt
                /\ step' \in {"check", "ask"}
    BY <1>5 DEF PollEvents, Tell, Silent
  <2>3. CASE told # {}
    <3> HIDE DEF events
    <3>1. told \subseteq 1 .. Len(events)
      OBVIOUS
    <3>2. \E i \in told : \A j \in told : i <= j
      <4>1. \E i \in told : TRUE
        BY <2>3
      <4>2. told \in SUBSET (0 .. Len(events))
        BY <2>1, <3>1
      <4> HIDE DEF told
      <4> QED
        BY <2>1, <4>1, <4>2, LeastNumber
    <3>3. one \in 1 .. Len(events)
      <4> HIDE DEF told
      <4> QED
        BY <3>1, <3>2
    <3> HIDE DEF one, told
    <3>4. lastSequence' = read + one /\ heardAt' = read + one /\ step' \in {"done", "poll"}
      BY <2>2, <2>3
    <3> QED
      BY <1>1, <1>2, <2>1, <2>2, <3>3, <3>4 DEF HeardOK
  <2>4. CASE told = {}
    <3>1. /\ lastSequence' \in {lastSequence, hub.next} /\ heardAt' = heardAt
          /\ step' \in {"check", "ask"} /\ answeredAt' = answeredAt
      BY <2>2, <2>4
    <3> QED
      BY <1>1, <1>2, <3>1 DEF HeardOK
  <2> QED
    BY <2>3, <2>4
<1>6. CASE CheckSequence
  <2>1. /\ step' \in {"poll", "ask", "done"} /\ heardAt' \in {heardAt, lastSequence}
        /\ answeredAt' = answeredAt /\ lastSequence' = lastSequence
    BY <1>6 DEF CheckSequence, Tell, Silent
  <2> QED
    BY <1>1, <1>2, <2>1 DEF HeardOK
<1>7. CASE AskPane \/ AskFails
  <2>1. /\ heardAt' = heardAt /\ lastSequence' = lastSequence
        /\ \/ answeredAt' = hub.next
           \/ answeredAt' = answeredAt /\ snapshot' = None
    BY <1>7 DEF AskPane, AskFails, Silent
  <2> QED
    BY <1>1, <1>2, <2>1 DEF HeardOK
\* nothing was published since the pane was answered, so the answer takes in
\* what was read and no more
<1>8. CASE Compare
  <2>1. /\ step' \in {"poll", "done"} /\ lastSequence' = lastSequence /\ answeredAt' = answeredAt
        /\ \/ heardAt' = heardAt
           \/ heardAt' = answeredAt /\ snapshot # None /\ hub.next = lastSequence
    BY <1>8 DEF Compare, Tell, Silent
  <2>2. snapshot # None => lastSequence <= answeredAt
    BY <1>8 DEF Compare, HeardOK
  <2> QED
    BY <1>1, <1>2, <2>1, <2>2 DEF HeardOK
<1>9. CASE Stop
  <2>1. step' = "done" /\ UNCHANGED <<heardAt, lastSequence, answeredAt>>
    BY <1>9 DEF Stop, Silent
  <2> QED
    BY <1>1, <1>2, <2>1 DEF HeardOK
<1> QED
  BY <1>3, <1>4, <1>5, <1>6, <1>7, <1>8, <1>9 DEF SubscriptionStep

\* The inductive invariant holds at the start.
LEMMA InitSubscription == SubInit => SubscriptionInv
<1> SUFFICES ASSUME SubInit PROVE SubscriptionInv
  OBVIOUS
<1>1. hub.next = 0 /\ hub.events = <<>> /\ setup \in Setups
  BY DEF SubInit, AppInit
<1>2. <<>> \in Seq({}) /\ Len(<<>>) = 0
  BY EmptySeq
<1>3. HubOK
  BY <1>1, <1>2 DEF HubOK
<1>4. HeardOK
  BY <1>1 DEF SubInit, HeardOK
<1> QED
  BY <1>3, <1>4 DEF SubscriptionInv

\* Every step keeps it, and none goes back.
LEMMA NextSubscription == SubscriptionInv /\ [SubNext]_allVars => SubscriptionInv' /\ heardAt' >= heardAt
<1> SUFFICES ASSUME SubscriptionInv, [SubNext]_allVars PROVE SubscriptionInv' /\ heardAt' >= heardAt
  OBVIOUS
<1>1. CASE (SubscriptionStep \/ AskFails \/ Stop) /\ UNCHANGED appVars
  BY <1>1, SubscriptionThread
<1>2. CASE AppNext /\ UNCHANGED subVars
  <2>1. HubOK' /\ hub'.next >= hub.next
    BY <1>2, PublishStep DEF SubscriptionInv
  <2>2. hub'.next \in Nat /\ hub.next \in Nat
    BY <2>1 DEF HubOK, SubscriptionInv
  <2> QED
    BY <1>2, <2>1, <2>2 DEF SubscriptionInv, HeardOK, subVars
<1>3. CASE UNCHANGED allVars
  BY <1>3 DEF allVars, appVars, subVars, SubscriptionInv, HubOK, HeardOK
<1> QED
  BY <1>1, <1>2, <1>3 DEF SubNext

\* The inductive invariant holds.
THEOREM SubscriptionInvariance == SubSpec => []SubscriptionInv
BY InitSubscription, NextSubscription, PTL DEF SubSpec

\* A subscriber is never told something older than what it heard before
\* (poll_result).
THEOREM TellsForward == SubSpec => NeverBackwards
BY SubscriptionInvariance, NextSubscription, PTL DEF SubSpec, NeverBackwards
=============================================================================
