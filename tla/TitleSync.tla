----------------------------- MODULE TitleSync -----------------------------
(***************************************************************************)
(* Automatic pane titles (src/title_sync, src/app/title_sync.rs).  The     *)
(* server thread snapshots the panes and sends the snapshot to a worker;   *)
(* the worker adds the agent's title and the pane's ownership record, read *)
(* from disk, and sends the result back as an event; the server thread     *)
(* compares it with the pane as it is by then, renames or clears the label *)
(* and sends the change of the ownership record to the worker.             *)
(*                                                                         *)
(* One pane: a snapshot and a result treat every pane alike and apart.     *)
(* Texts are sanitised model values.  `who` is what runs in the pane: no   *)
(* agent, an agent without a session reference (its name is all there is   *)
(* to tell it from another), or an agent with its session.                 *)
(***************************************************************************)
EXTENDS Naturals, Sequences, FiniteSets

CONSTANTS
    Titles,         \* texts of labels and titles
    Plain,          \* agents without a session reference
    Sessions,       \* agents with their sessions
    None,           \* absent label, title, session or record
    MaxChanges,     \* bound: renames, agent changes and title changes
    MaxFaults       \* bound: crashes and failed writes of the record

ASSUME TitleSyncAssumption ==
    /\ None \notin Titles /\ None \notin Sessions /\ None \notin Plain
    /\ Plain \cap Sessions = {}
    /\ MaxChanges \in Nat /\ MaxFaults \in Nat

VARIABLES
    \* the pane
    label,          \* TerminalState.manual_label
    by,             \* history: who set the label, "user" or "sync"
    source,         \* history: whose title an automatic label is
    who,            \* what runs in the pane
    title,          \* what title_for_pane would find
    generation,     \* title_sync_generation
    \* TitleSyncEngine
    inFlight, pending, observed,
    \* the worker's channel, the server's event channel and the disk
    work, resolved,
    own,            \* the ownership record: None or [session, title]
    saved,          \* the label in the saved session, with who set it
    \* history
    equalled,       \* the user's label equals a title sync has on record
    changes, faults

paneVars == <<label, by, source, who, title>>
engineVars == <<inFlight, pending, observed>>
vars == <<paneVars, generation, engineVars, work, resolved, own, saved, equalled,
          changes, faults>>

Records == [session : Sessions \cup {None}, title : Titles]

ASSUME NoRecordAssumption == None \notin Records

\* What is in the worker's channel and in the server's.
Agents == {None} \cup Plain \cup Sessions
Resolves == [kind : {"resolve"}, generation : Nat, label : Titles \cup {None}, who : Agents]
Persists == [kind : {"persist"}, mutate : BOOLEAN, state : Records \cup {None}]
Results == [generation : Nat, label : Titles \cup {None}, who : Agents,
            previous : Records \cup {None}, title : Titles \cup {None}]

Init ==
    /\ label = None /\ by = "user" /\ source = None /\ who = None /\ title = None
    /\ generation = 0 /\ observed = 0 /\ inFlight = FALSE /\ pending = FALSE
    /\ work = <<>> /\ resolved = <<>> /\ own = None
    /\ saved = [label |-> None, by |-> "user"]
    /\ equalled = FALSE /\ changes = 0 /\ faults = 0

\* session_key, which agents without a session reference have in common, and
\* has_agent_identity.
SessionKey(w) == IF w \in Sessions THEN w ELSE None
HasAgent(w) == w # None

TitleOf(record) == IF record = None THEN None ELSE record.title

-----------------------------------------------------------------------------
(* What happens to the pane.                                               *)

Change ==
    /\ changes < MaxChanges
    /\ changes' = changes + 1

\* Titles sync still holds a record of, on disk or on the way.
OnRecord ==
    {TitleOf(own)}
      \cup {TitleOf(work[i].state) : i \in {j \in 1 .. Len(work) : work[j].kind = "persist"}}
      \cup {TitleOf(resolved[i].previous) : i \in 1 .. Len(resolved)}

\* The user renames the pane or removes its label (mutate_pane_label).
UserRenames ==
    /\ Change
    /\ \E l \in Titles \cup {None} :
          /\ label' = l /\ by' = "user"
          /\ generation' = IF l = label THEN generation ELSE generation + 1
          /\ equalled' = (l # None /\ l \in OnRecord)
    /\ UNCHANGED <<source, who, title, engineVars, work, resolved, own, saved, faults>>

\* An agent starts, exits, gives way to another one, or reports another session.
AgentChanges ==
    /\ Change
    /\ who' \in Agents \ {who}
    /\ title' \in Titles \cup {None}
    /\ generation' = generation + 1
    /\ UNCHANGED <<label, by, source, engineVars, work, resolved, own, saved, equalled,
                   faults>>

\* The agent retitles its session: nothing tells the server.
TitleChanges ==
    /\ Change
    /\ title' \in (Titles \cup {None}) \ {title}
    /\ UNCHANGED <<label, by, source, who, generation, engineVars, work, resolved, own,
                   saved, equalled, faults>>

-----------------------------------------------------------------------------
(* TitleSyncEngine on the server thread.                                   *)

\* start_resolution, after what is already in the channel.
StartResolution(queue, l, gen) ==
    /\ work' = Append(queue, [kind |-> "resolve", generation |-> gen, label |-> l,
                              who |-> who])
    /\ inFlight' = TRUE /\ pending' = FALSE

\* poll, when the interval has passed or the generation has moved.
Poll ==
    /\ observed' = generation
    /\ IF inFlight
       THEN pending' = TRUE /\ UNCHANGED <<inFlight, work>>
       ELSE StartResolution(work, label, generation)
    /\ UNCHANGED <<paneVars, generation, resolved, own, saved, equalled, changes,
                   faults>>

\* Mutant: as long as there is a record, the label is taken for automatic.
RenameDecisionAnyRecord(l, r) ==
    IF l # None /\ r.previous = None THEN "Manual"
    ELSE IF r.title = None \/ r.title = l THEN "Noop"
    ELSE "Rename"

\* rename_decision.
RenameDecision(l, r) ==
    IF l # None /\ TitleOf(r.previous) # l THEN "Manual"
    ELSE IF /\ r.title = None /\ l # None /\ TitleOf(r.previous) = l
            /\ r.previous.session # SessionKey(who) THEN "Clear"
    ELSE IF r.title = None \/ r.title = l THEN "Noop"
    ELSE "Rename"

\* Mutant: a result is applied to the pane as it is now, whatever was
\* snapshotted.
CurrentAnyway(r) == TRUE

\* The pane still is what the result was computed for: session_key and
\* agent_identity are compared, together they tell any two agents apart.
Current(r) == who = r.who /\ label = r.label

\* apply_title_sync_results for the pane: its new label, whether the ownership
\* record changes, and to what.
Outcome(r) ==
    LET keep == [label |-> label, mutate |-> FALSE, state |-> None]
        owned == [session |-> SessionKey(who), title |-> r.title]
        decision == RenameDecision(label, r)
    IN  IF ~Current(r) THEN keep
        ELSE IF ~HasAgent(who)
        THEN [label |-> IF TitleOf(r.previous) = label THEN None ELSE label,
              mutate |-> TRUE, state |-> None]
        ELSE CASE decision = "Manual" -> [keep EXCEPT !.mutate = TRUE]
               [] decision = "Clear"  -> [label |-> None, mutate |-> TRUE, state |-> None]
               [] decision = "Rename" -> [label |-> r.title, mutate |-> TRUE, state |-> owned]
               [] decision = "Noop"   ->
                    IF r.title # None /\ r.previous # None /\ TitleOf(r.previous) = label
                    THEN [keep EXCEPT !.mutate = TRUE, !.state = owned]
                    ELSE keep

\* Mutant: the next resolution is queued ahead of the record it depends on.
CompletePersistsLast(r, o, gen) ==
    LET persist == [kind |-> "persist", mutate |-> o.mutate, state |-> o.state]
    IN  IF pending \/ gen # r.generation
        THEN /\ work' = work \o <<[kind |-> "resolve", generation |-> gen,
                                   label |-> o.label, who |-> who], persist>>
             /\ inFlight' = TRUE /\ pending' = FALSE /\ observed' = gen
        ELSE /\ work' = Append(work, persist)
             /\ inFlight' = FALSE
             /\ UNCHANGED <<pending, observed>>

\* complete: the record is on its way before the next resolution, which starts
\* at once when one is pending or the pane has changed since the snapshot.
Complete(r, o, gen) ==
    LET queue == Append(work, [kind |-> "persist", mutate |-> o.mutate,
                               state |-> o.state])
    IN  IF pending \/ gen # r.generation
        THEN StartResolution(queue, o.label, gen) /\ observed' = gen
        ELSE /\ work' = queue
             /\ inFlight' = FALSE
             /\ UNCHANGED <<pending, observed>>

\* AppEvent::TitleSyncResolved on the server thread.
Apply ==
    /\ resolved # <<>>
    /\ LET r == Head(resolved)
           o == Outcome(r)
           gen == IF o.label = label THEN generation ELSE generation + 1
       IN  /\ resolved' = Tail(resolved)
           /\ label' = o.label
           /\ by' = IF o.label = label THEN by ELSE "sync"
           /\ source' = IF o.state # None THEN r.who ELSE source
           /\ generation' = gen
           /\ Complete(r, o, gen)
    /\ UNCHANGED <<who, title, own, saved, equalled, changes, faults>>

-----------------------------------------------------------------------------
(* The worker thread, the session file and crashes.                        *)

Received(kind) ==
    /\ work # <<>> /\ Head(work).kind = kind
    /\ work' = Tail(work)

WorkerResolves ==
    /\ Received("resolve")
    /\ LET w == Head(work)
       IN  resolved' = Append(resolved,
              [generation |-> w.generation, label |-> w.label, who |-> w.who,
               previous |-> own, title |-> IF HasAgent(w.who) THEN title ELSE None])
    /\ UNCHANGED <<paneVars, generation, engineVars, own, saved, equalled, changes,
                   faults>>

WorkerPersists ==
    /\ Received("persist")
    /\ own' = IF Head(work).mutate THEN Head(work).state ELSE own
    /\ UNCHANGED <<paneVars, generation, engineVars, resolved, saved, equalled,
                   changes, faults>>

\* write_ownership or clear_ownership fails; the temporary file is removed.
PersistFails ==
    /\ faults < MaxFaults
    /\ Received("persist") /\ Head(work).mutate
    /\ faults' = faults + 1
    /\ UNCHANGED <<paneVars, generation, engineVars, resolved, own, saved, equalled,
                   changes>>

\* The session is saved some time after it became dirty.
SaveSession ==
    /\ saved' = [label |-> label, by |-> by]
    /\ UNCHANGED <<paneVars, generation, engineVars, work, resolved, own, equalled,
                   changes, faults>>

\* The server dies and starts again from the saved session, with the agent's
\* session resumed or not; the ownership records stay as they are on disk.
Crash ==
    /\ faults < MaxFaults
    /\ faults' = faults + 1
    /\ label' = saved.label /\ by' = saved.by /\ source' = None
    /\ equalled' = (saved.by = "user" /\ saved.label # None
                      /\ saved.label = TitleOf(own))
    /\ who' \in {None} \cup Sessions /\ title' \in Titles \cup {None}
    /\ generation' = 0 /\ observed' = 0 /\ inFlight' = FALSE /\ pending' = FALSE
    /\ work' = <<>> /\ resolved' = <<>>
    /\ UNCHANGED <<own, saved, changes>>

Worker == WorkerResolves \/ WorkerPersists

Next ==
    \/ UserRenames \/ AgentChanges \/ TitleChanges
    \/ Poll \/ Apply
    \/ Worker \/ PersistFails \/ SaveSession \/ Crash

Spec == Init /\ [][Next]_vars

\* The event loop polls every interval and handles its events, and the worker
\* serves its channel.
FairSpec == Spec /\ WF_vars(Poll) /\ WF_vars(Apply) /\ WF_vars(Worker)

-----------------------------------------------------------------------------
(* Properties.                                                             *)

\* The values the pane, the engine and the records can have.
TypeOK ==
    /\ label \in Titles \cup {None} /\ by \in {"user", "sync"}
    /\ who \in Agents /\ source \in Agents /\ title \in Titles \cup {None}
    /\ generation \in Nat /\ observed \in Nat
    /\ inFlight \in BOOLEAN /\ pending \in BOOLEAN /\ equalled \in BOOLEAN
    /\ own \in Records \cup {None}
    /\ work \in Seq(Resolves \cup Persists) /\ resolved \in Seq(Results)
    /\ saved.label \in Titles \cup {None} /\ saved.by \in {"user", "sync"}

\* Resolutions are coalesced: in_flight says whether the one allowed resolution
\* is in the worker's channel or on its way back.
OneInFlight ==
    LET queued == {i \in 1 .. Len(work) : work[i].kind = "resolve"}
    IN  IF inFlight
        THEN \/ resolved = <<>> /\ \E i \in queued : queued = {i}
             \/ Len(resolved) = 1 /\ queued = {}
        ELSE resolved = <<>> /\ queued = {}

\* A manual rename wins unless the user's text equals a title sync has on record: then,
\* and only then, is it taken for an automatic label, whatever renames, agent
\* changes, failed writes and crashes happen between snapshot and result.
ManualRenameWinsUnlessEqual ==
    [][by = "user" /\ label # None /\ label' # label /\ ~equalled
         => by' = "user" \/ faults' # faults]_vars

\* The automatic label is on record, or the record is on its way, so that the
\* next result recognises it; only a fault breaks this.
OwnedLabelOnRecord ==
    by = "sync" /\ label # None /\ faults = 0 => label \in OnRecord

\* The three parts: values, the engine's one resolution, and the record of the
\* automatic label.
Consistent == TypeOK /\ OneInFlight /\ OwnedLabelOnRecord

\* Without faults, once nothing changes any more the pane carries the agent's
\* title, unless the user has named it; an exited agent leaves no automatic
\* label, a changed session no label of the old one.  One label of another
\* agent may stay: rename_decision tells an untitled agent from the one the
\* label is of by their session keys alone, and two agents without a session
\* have the same one.
Settled ==
    \/ by = "user" /\ label # None
    \/ IF ~HasAgent(who) THEN label = None
       ELSE IF title # None THEN label = title
       ELSE label = None \/ source = who \/ {source, who} \subseteq Plain

LabelFollows == <>[](Settled \/ faults > 0)

=============================================================================
