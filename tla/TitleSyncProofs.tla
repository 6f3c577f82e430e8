--------------------------- MODULE TitleSyncProofs ---------------------------
(***************************************************************************)
(* Proofs about TitleSync for any titles, sessions and bounds.  That an    *)
(* automatic label is recognised, and a user's is not taken for one, rests *)
(* on the order in which complete sends to the worker: the record first,   *)
(* then the next resolution, and nothing after it.  Shape says so, and the *)
(* rest of IInv says what the record at the end of the channel is.         *)
(***************************************************************************)
EXTENDS TitleSync, SequenceTheorems, TLAPS

\* At most one record and after it at most one resolution are on their way to
\* the worker, and no record changes while a result is on its way back.
Shape ==
    /\ Len(work) <= 2 /\ Len(resolved) <= 1
    /\ Len(work) = 2 => work[1].kind = "persist" /\ work[2].kind = "resolve"
    /\ inFlight <=> resolved # <<>> \/ (work # <<>> /\ work[Len(work)].kind = "resolve")
    /\ resolved # <<>> => work = <<>> /\ resolved[1].previous = own

PersistFirst == work # <<>> /\ work[1].kind = "persist"

\* The record once the worker has served its channel.
LastRecord == IF PersistFirst /\ work[1].mutate THEN work[1].state ELSE own

\* An automatic label is the title of that record.
RecordOK ==
    by = "sync" /\ label # None /\ faults = 0 => TitleOf(LastRecord) = label

\* A user's label that is on record, on disk or on the way, is known to be.
Recorded(l) ==
    \/ l = TitleOf(own)
    \/ PersistFirst /\ l = TitleOf(work[1].state)

EqualledOK == by = "user" /\ label # None /\ Recorded(label) => equalled

CountersOK == changes \in Nat /\ faults \in Nat

IInv == TypeOK /\ CountersOK /\ Shape /\ RecordOK /\ EqualledOK

-----------------------------------------------------------------------------
(* The channels and the records.                                           *)

\* The two ends of a channel.
LEMMA ChannelFacts ==
    ASSUME NEW S, NEW q \in Seq(S)
    PROVE  /\ Len(q) \in Nat /\ (q = <<>> <=> Len(q) = 0)
           /\ q # <<>> => /\ q[1] \in S /\ Head(q) = q[1] /\ Tail(q) \in Seq(S)
                          /\ Len(Tail(q)) = Len(q) - 1
                          /\ Len(q) = 2 => Tail(q)[1] = q[2]
           /\ \A e \in S : /\ Append(q, e) \in Seq(S) /\ Len(Append(q, e)) = Len(q) + 1
                           /\ Append(q, e)[Len(q) + 1] = e
                           /\ q # <<>> => Append(q, e)[1] = q[1]
                           /\ Append(q, e) # <<>>
<1>1. Len(q) \in Nat /\ (q = <<>> <=> Len(q) = 0)
  BY EmptySeq, LenProperties
<1>2. ASSUME q # <<>>
      PROVE  /\ q[1] \in S /\ Head(q) = q[1] /\ Tail(q) \in Seq(S)
             /\ Len(Tail(q)) = Len(q) - 1
             /\ Len(q) = 2 => Tail(q)[1] = q[2]
  BY <1>1, <1>2, HeadTailProperties, ElementOfSeq
<1>3. ASSUME NEW e \in S
      PROVE  /\ Append(q, e) \in Seq(S) /\ Len(Append(q, e)) = Len(q) + 1
             /\ Append(q, e)[Len(q) + 1] = e
             /\ q # <<>> => Append(q, e)[1] = q[1]
  BY <1>1, AppendProperties
<1>4. ASSUME NEW e \in S PROVE Append(q, e) # <<>>
  BY <1>1, <1>3, EmptySeq
<1> QED
  BY <1>1, <1>2, <1>3, <1>4

\* Sending to a channel.
LEMMA SendFacts ==
    ASSUME NEW S, NEW q \in Seq(S), NEW e \in S
    PROVE  /\ Append(q, e) \in Seq(S) /\ Append(q, e) # <<>>
           /\ Len(Append(q, e)) = Len(q) + 1 /\ Append(q, e)[Len(q) + 1] = e
           /\ q # <<>> => Append(q, e)[1] = q[1]
BY ChannelFacts

\* The title of a record, and of no record.
LEMMA TitleFacts ==
    /\ TitleOf(None) = None
    /\ \A r \in Records : TitleOf(r) = r.title /\ TitleOf(r) \in Titles /\ TitleOf(r) # None
    /\ \A r \in Records \cup {None} : TitleOf(r) # None => r \in Records
BY NoRecordAssumption, TitleSyncAssumption DEF TitleOf, Records

\* What the channel or the disk holds is on record.
LEMMA RecordedFacts ==
    ASSUME TypeOK, NEW l, Recorded(l)
    PROVE  l \in OnRecord
<1>1. CASE l = TitleOf(own)
  BY <1>1 DEF OnRecord
<1>2. CASE PersistFirst /\ l = TitleOf(work[1].state)
  <2>1. /\ Len(work) \in Nat
        /\ work # <<>> => Len(work) # 0
    BY ChannelFacts DEF TypeOK
  <2>2. 1 \in {j \in 1 .. Len(work) : work[j].kind = "persist"}
    BY <1>2, <2>1, ChannelFacts DEF PersistFirst, TypeOK
  <2> QED
    BY <1>2, <2>2 DEF OnRecord
<1> QED
  BY <1>1, <1>2 DEF Recorded

\* What a work item is, by its kind.
LEMMA WorkFacts ==
    ASSUME TypeOK, NEW i \in 1 .. Len(work)
    PROVE  /\ work[i] \in Resolves \cup Persists
           /\ work[i].kind = "persist" => work[i] \in Persists
           /\ work[i].kind = "resolve" => work[i] \in Resolves
           /\ work[i].kind \in {"persist", "resolve"}
<1>1. work[i] \in Resolves \cup Persists
  BY ElementOfSeq DEF TypeOK
<1> QED
  BY <1>1 DEF Resolves, Persists

-----------------------------------------------------------------------------
(* The steps.                                                              *)

\* The user, the agent and the session file leave the channels and the record
\* alone; a user's label is compared with what is on record.
LEMMA PaneStep ==
    ASSUME IInv, UserRenames \/ AgentChanges \/ TitleChanges \/ SaveSession
    PROVE  IInv'
<1> USE DEF IInv
<1>1. UNCHANGED <<work, resolved, own, inFlight, pending, observed, faults>>
  BY DEF UserRenames, AgentChanges, TitleChanges, SaveSession, engineVars
<1>2. Shape' /\ CountersOK'
  BY <1>1 DEF Shape, CountersOK, UserRenames, AgentChanges, TitleChanges, SaveSession, Change
<1>3. LastRecord' = LastRecord /\ \A l : Recorded(l)' = Recorded(l)
  BY <1>1 DEF LastRecord, Recorded, PersistFirst, TitleOf
<1>4. CASE UserRenames
  <2>1. PICK l \in Titles \cup {None} :
           /\ label' = l /\ by' = "user"
           /\ generation' = IF l = label THEN generation ELSE generation + 1
           /\ equalled' = (l # None /\ l \in OnRecord)
    BY <1>4 DEF UserRenames
  <2>2. TypeOK'
    BY <1>1, <1>4, <2>1 DEF TypeOK, UserRenames
  <2>3. RecordOK'
    BY <2>1 DEF RecordOK
  <2>4. EqualledOK'
    <3> SUFFICES ASSUME label' # None, Recorded(label)' PROVE equalled'
      BY DEF EqualledOK
    <3>1. Recorded(l)
      BY <1>1, <2>1 DEF Recorded, PersistFirst, TitleOf
    <3> QED
      BY <2>1, <3>1, RecordedFacts
  <2> QED
    BY <1>2, <2>2, <2>3, <2>4
<1>5. CASE AgentChanges \/ TitleChanges \/ SaveSession
  <2>1. UNCHANGED <<label, by, equalled>>
    BY <1>5 DEF AgentChanges, TitleChanges, SaveSession, paneVars
  <2>2. TypeOK'
    <3>1. CASE AgentChanges
      BY <1>1, <2>1, <3>1 DEF TypeOK, AgentChanges, Agents
    <3>2. CASE TitleChanges
      BY <1>1, <2>1, <3>2 DEF TypeOK, TitleChanges
    <3>3. CASE SaveSession
      BY <1>1, <2>1, <3>3 DEF TypeOK, SaveSession, paneVars
    <3> QED
      BY <1>5, <3>1, <3>2, <3>3
  <2>3. RecordOK' /\ EqualledOK'
    BY <1>1, <2>1 DEF RecordOK, EqualledOK, Recorded, LastRecord, PersistFirst, TitleOf
  <2> QED
    BY <1>2, <2>2, <2>3
<1> QED
  BY <1>4, <1>5

\* A snapshot goes to the worker after the record, or is noted for later.
LEMMA PollStep ==
    ASSUME IInv, Poll
    PROVE  IInv'
<1> USE DEF IInv
<1>1. /\ observed' = generation
      /\ UNCHANGED <<label, by, source, who, title, generation, resolved, own, saved, equalled,
                     changes, faults>>
  BY DEF Poll, paneVars
<1>2. CASE inFlight
  <2>1. pending' = TRUE /\ UNCHANGED <<inFlight, work>>
    BY <1>2 DEF Poll
  <2> QED
    BY <1>1, <2>1 DEF TypeOK, CountersOK, Shape, RecordOK, EqualledOK, Recorded, LastRecord,
                      PersistFirst, TitleOf
<1>3. CASE ~inFlight
  <2> DEFINE w == [kind |-> "resolve", generation |-> generation, label |-> label, who |-> who]
  <2>1. work' = Append(work, w) /\ inFlight' = TRUE /\ pending' = FALSE
    BY <1>3 DEF Poll, StartResolution
  <2>2. w \in Resolves \cup Persists /\ w.kind = "resolve"
    BY DEF TypeOK, Resolves
  <2> HIDE DEF w
  <2>3. work \in Seq(Resolves \cup Persists)
    BY DEF TypeOK
  <2>4. /\ Len(work) \in Nat /\ (work = <<>> <=> Len(work) = 0)
        /\ Len(work') = Len(work) + 1 /\ work'[Len(work) + 1] = w /\ work' # <<>>
        /\ work # <<>> => work'[1] = work[1]
        /\ work' \in Seq(Resolves \cup Persists)
    BY <2>1, <2>2, <2>3, ChannelFacts
  <2>5. TypeOK' /\ CountersOK'
    BY <1>1, <2>1, <2>4 DEF TypeOK, CountersOK
  <2>6. /\ resolved = <<>> /\ Len(work) # 2
        /\ work # <<>> => Len(work) = 1 /\ work[1].kind # "resolve"
    <3>1. resolved = <<>> /\ ~(work # <<>> /\ work[Len(work)].kind = "resolve")
      BY <1>3 DEF Shape
    <3>2. Len(work) # 2
      BY <2>4, <3>1 DEF Shape
    <3>3. work # <<>> => Len(work) = 1
      <4>1. Len(work) \in Nat /\ Len(work) <= 2 /\ (work # <<>> => Len(work) # 0)
        BY <2>4 DEF Shape
      <4>2. \A n \in Nat : n <= 2 /\ n # 2 /\ n # 0 => n = 1
        OBVIOUS
      <4> QED
        BY <3>2, <4>1, <4>2
    <3> QED
      BY <3>1, <3>2, <3>3
  <2>7. work # <<>> => work[1].kind = "persist"
    BY <2>4, <2>6, WorkFacts
  <2>8. Shape'
    BY <1>1, <2>1, <2>2, <2>4, <2>6, <2>7, EmptySeq DEF Shape
  <2>9. /\ PersistFirst' = PersistFirst
        /\ PersistFirst => work'[1] = work[1]
    BY <2>2, <2>4, <2>6, <2>7 DEF PersistFirst
  <2>10. RecordOK' /\ EqualledOK'
    BY <1>1, <2>9 DEF RecordOK, EqualledOK, Recorded, LastRecord, TitleOf
  <2> QED
    BY <2>5, <2>8, <2>10
<1> QED
  BY <1>2, <1>3

\* The worker resolves: the result carries the record as it is on disk.
LEMMA ResolveStep ==
    ASSUME IInv, WorkerResolves
    PROVE  IInv'
<1> USE DEF IInv
<1> DEFINE w == Head(work)
           res == [generation |-> w.generation, label |-> w.label, who |-> w.who,
                   previous |-> own, title |-> IF HasAgent(w.who) THEN title ELSE None]
<1>1. /\ work # <<>> /\ w.kind = "resolve" /\ work' = Tail(work)
      /\ resolved' = Append(resolved, res)
      /\ UNCHANGED <<label, by, source, who, title, generation, inFlight, pending, observed, own,
                     saved, equalled, changes, faults>>
  BY DEF WorkerResolves, Received, paneVars, engineVars
<1>2. work \in Seq(Resolves \cup Persists) /\ resolved \in Seq(Results)
  BY DEF TypeOK
<1>3. /\ Len(work) \in Nat /\ Len(work) # 0 /\ w = work[1]
      /\ work' \in Seq(Resolves \cup Persists) /\ Len(work') = Len(work) - 1
      /\ work' = <<>> <=> Len(work') = 0
  <2>1. /\ Len(work) \in Nat /\ Len(work) # 0 /\ w = work[1]
        /\ work' \in Seq(Resolves \cup Persists) /\ Len(work') = Len(work) - 1
    BY <1>1, <1>2, ChannelFacts
  <2> QED
    BY <2>1, ChannelFacts
<1>4. w \in Resolves
  BY <1>1, <1>3, WorkFacts
<1>5. res \in Results /\ res.previous = own
  BY <1>4 DEF Resolves, Results, TypeOK
<1> HIDE DEF w, res
<1>6. Len(work) = 1 /\ work' = <<>> /\ resolved = <<>> /\ inFlight
  BY <1>1, <1>3 DEF Shape
<1>7. /\ resolved' \in Seq(Results) /\ Len(resolved') = 1 /\ resolved'[1] = res
      /\ resolved' # <<>>
  BY <1>1, <1>2, <1>5, <1>6, ChannelFacts, EmptySeq
<1>8. TypeOK' /\ CountersOK'
  BY <1>1, <1>3, <1>7 DEF TypeOK, CountersOK
<1>9. Shape'
  <2>1. Len(work') = 0 /\ work' = <<>> /\ inFlight' = inFlight /\ own' = own
    BY <1>1, <1>3, <1>6
  <2> QED
    BY <1>5, <1>6, <1>7, <2>1 DEF Shape
<1>10. ~PersistFirst /\ ~PersistFirst'
  BY <1>1, <1>3, <1>6 DEF PersistFirst
<1>11. RecordOK' /\ EqualledOK'
  BY <1>1, <1>10 DEF RecordOK, EqualledOK, Recorded, LastRecord, TitleOf
<1> QED
  BY <1>8, <1>9, <1>11

\* The worker writes the record, or fails to.
LEMMA PersistStep ==
    ASSUME IInv, WorkerPersists \/ PersistFails
    PROVE  IInv'
<1> USE DEF IInv
<1>1. /\ work # <<>> /\ Head(work).kind = "persist" /\ work' = Tail(work)
      /\ UNCHANGED <<label, by, source, who, title, generation, inFlight, pending, observed,
                     resolved, saved, equalled, changes>>
  BY DEF WorkerPersists, PersistFails, Received, paneVars, engineVars
<1>2. /\ own' = own \/ (work[1].mutate /\ own' = work[1].state)
      /\ \/ faults' = faults + 1
         \/ faults' = faults /\ own' = IF work[1].mutate THEN work[1].state ELSE own
  BY DEF WorkerPersists, PersistFails
<1>3. work \in Seq(Resolves \cup Persists)
  BY DEF TypeOK
<1>4. /\ Len(work) \in Nat /\ Len(work) # 0 /\ Head(work) = work[1]
      /\ work' \in Seq(Resolves \cup Persists) /\ Len(work') = Len(work) - 1
      /\ work' = <<>> <=> Len(work') = 0
      /\ Len(work) = 2 => work'[1] = work[2]
  BY <1>1, <1>3, ChannelFacts
<1>5. work[1] \in Persists
  BY <1>1, <1>4, WorkFacts
<1>6. own' \in Records \cup {None}
  BY <1>2, <1>5 DEF Persists, TypeOK
<1>7. resolved = <<>>
  BY <1>1 DEF Shape
<1>8. TypeOK' /\ CountersOK'
  BY <1>1, <1>2, <1>4, <1>6 DEF TypeOK, CountersOK
<1>9. Shape'
  BY <1>1, <1>4, <1>7 DEF Shape, TypeOK
<1>10. PersistFirst /\ ~PersistFirst'
  BY <1>1, <1>4 DEF PersistFirst, Shape
<1>11. RecordOK'
  BY <1>1, <1>2, <1>10 DEF RecordOK, LastRecord, TitleOf, CountersOK
<1>12. EqualledOK'
  <2>1. Recorded(label)' => Recorded(label)
    BY <1>1, <1>2, <1>10 DEF Recorded, TitleOf
  <2> QED
    BY <1>1, <2>1 DEF EqualledOK
<1> QED
  BY <1>8, <1>9, <1>11, <1>12

\* What a result does to the pane, when the record it was computed from is the
\* one on disk: a changed label is cleared or goes on record, and a label that
\* stays either keeps its record, or gets one of the same title, or was not on
\* record.
LEMMA OutcomeFacts ==
    ASSUME TypeOK, NEW r \in Results, r.previous = own
    PROVE  LET o == Outcome(r) IN
           /\ o.label \in Titles \cup {None} /\ o.mutate \in BOOLEAN
           /\ o.state \in Records \cup {None}
           /\ o.label # label => /\ o.label = None \/ (o.mutate /\ TitleOf(o.state) = o.label)
                                 /\ label # None => label = TitleOf(own)
           /\ o.label = label /\ label # None =>
                 /\ o.state # None => TitleOf(o.state) = label /\ TitleOf(own) = label
                 /\ o.mutate /\ TitleOf(own) = label => TitleOf(o.state) = label
<1> DEFINE o == Outcome(r)
           keep == [label |-> label, mutate |-> FALSE, state |-> None]
           owned == [session |-> SessionKey(who), title |-> r.title]
           decision == RenameDecision(label, r)
<1>1. /\ r.title \in Titles \cup {None} /\ own \in Records \cup {None}
      /\ label \in Titles \cup {None}
  BY DEF Results, TypeOK
<1>2. r.title # None => owned \in Records /\ TitleOf(owned) = r.title
  <2>1. SessionKey(who) \in Sessions \cup {None}
    BY DEF SessionKey
  <2>2. ASSUME r.title # None PROVE owned \in Records /\ owned.title = r.title
    BY <1>1, <2>1, <2>2 DEF Records
  <2> QED
    BY <2>2, TitleFacts
<1> HIDE DEF owned
<1>3. CASE ~Current(r)
  <2>1. o = keep
    BY <1>3 DEF Outcome
  <2>2. o.label = label /\ o.mutate = FALSE /\ o.state = None
    BY <2>1
  <2> QED
    BY <1>1, <2>2
<1>4. CASE Current(r) /\ ~HasAgent(who)
  <2>1. o = [label |-> IF TitleOf(r.previous) = label THEN None ELSE label,
             mutate |-> TRUE, state |-> None]
    BY <1>4 DEF Outcome
  <2>2. /\ o.label = IF TitleOf(own) = label THEN None ELSE label
        /\ o.mutate = TRUE /\ o.state = None
    BY <2>1
  <2> QED
    BY <1>1, <2>2, TitleFacts
<1>5. CASE Current(r) /\ HasAgent(who) /\ decision = "Manual"
  <2>1. o = [keep EXCEPT !.mutate = TRUE]
    BY <1>5 DEF Outcome
  <2>2. o.label = label /\ o.mutate = TRUE /\ o.state = None
    BY <2>1
  <2>3. label # None /\ TitleOf(own) # label
    BY <1>5 DEF RenameDecision
  <2> QED
    BY <1>1, <2>2, <2>3
<1>6. CASE Current(r) /\ HasAgent(who) /\ decision = "Clear"
  <2>1. o = [label |-> None, mutate |-> TRUE, state |-> None]
    BY <1>6 DEF Outcome
  <2>2. label # None /\ TitleOf(own) = label
    BY <1>6 DEF RenameDecision
  <2> QED
    BY <1>1, <2>1, <2>2
<1>7. CASE Current(r) /\ HasAgent(who) /\ decision = "Rename"
  <2>1. o = [label |-> r.title, mutate |-> TRUE, state |-> owned]
    BY <1>7 DEF Outcome, owned
  <2>2. /\ r.title # None /\ r.title # label
        /\ label # None => TitleOf(own) = label
    BY <1>7 DEF RenameDecision
  <2> QED
    BY <1>1, <1>2, <2>1, <2>2
<1>8. CASE Current(r) /\ HasAgent(who) /\ decision = "Noop"
  <2>1. o = IF r.title # None /\ r.previous # None /\ TitleOf(r.previous) = label
            THEN [keep EXCEPT !.mutate = TRUE, !.state = owned] ELSE keep
    BY <1>8 DEF Outcome, owned
  <2>2. r.title = None \/ r.title = label
    BY <1>8 DEF RenameDecision
  <2>3. CASE r.title # None /\ own # None /\ TitleOf(own) = label
    <3>1. o.label = label /\ o.mutate = TRUE /\ o.state = owned
      BY <2>1, <2>3
    <3> QED
      BY <1>1, <1>2, <2>2, <2>3, <3>1
  <2>4. CASE ~(r.title # None /\ own # None /\ TitleOf(own) = label)
    <3>1. o.label = label /\ o.mutate = FALSE /\ o.state = None
      BY <2>1, <2>4
    <3> QED
      BY <1>1, <3>1
  <2> QED
    BY <2>3, <2>4
<1>9. decision \in {"Manual", "Clear", "Noop", "Rename"}
  BY DEF RenameDecision
<1> QED
  BY <1>3, <1>4, <1>5, <1>6, <1>7, <1>8, <1>9

\* While a result is on its way back it was computed from the record on disk,
\* and nothing is on its way to the worker.
LEMMA ResultFacts ==
    ASSUME IInv, resolved # <<>>
    PROVE  /\ Head(resolved) \in Results /\ Head(resolved).previous = own
           /\ Tail(resolved) = <<>> /\ Tail(resolved) \in Seq(Results)
           /\ Len(Tail(resolved)) = 0 /\ work = <<>>
<1> USE DEF IInv
<1>1. resolved \in Seq(Results) /\ Len(resolved) <= 1
  BY DEF TypeOK, Shape
<1>2. /\ Len(resolved) \in Nat /\ Len(resolved) # 0
      /\ Head(resolved) = resolved[1] /\ resolved[1] \in Results
      /\ Tail(resolved) \in Seq(Results) /\ Len(Tail(resolved)) = Len(resolved) - 1
  BY <1>1, ChannelFacts
<1>3. Len(Tail(resolved)) = 0
  BY <1>1, <1>2
<1>4. Tail(resolved) = <<>>
  BY <1>2, <1>3, ChannelFacts
<1> QED
  BY <1>2, <1>3, <1>4 DEF Shape

\* A result is applied.
LEMMA ApplyStep ==
    ASSUME IInv, Apply
    PROVE  IInv'
<1> USE DEF IInv
<1> DEFINE r == Head(resolved)
           o == Outcome(r)
           gen == IF o.label = label THEN generation ELSE generation + 1
           P == [kind |-> "persist", mutate |-> o.mutate, state |-> o.state]
           R == [kind |-> "resolve", generation |-> gen, label |-> o.label, who |-> who]
<1>1. /\ resolved # <<>> /\ resolved' = Tail(resolved) /\ label' = o.label
      /\ by' = IF o.label = label THEN by ELSE "sync"
      /\ source' = IF o.state # None THEN r.who ELSE source
      /\ generation' = gen /\ Complete(r, o, gen)
      /\ UNCHANGED <<who, title, own, saved, equalled, changes, faults>>
  BY DEF Apply
<1>2. /\ r \in Results /\ r.previous = own /\ work = <<>>
      /\ resolved' = <<>> /\ resolved' \in Seq(Results) /\ Len(resolved') = 0
  BY <1>1, ResultFacts
<1>3. /\ o.label \in Titles \cup {None} /\ o.mutate \in BOOLEAN
      /\ o.state \in Records \cup {None}
      /\ o.label # label => o.label = None \/ (o.mutate /\ TitleOf(o.state) = o.label)
      /\ o.label = label /\ label # None =>
            /\ o.state # None => TitleOf(o.state) = label /\ TitleOf(own) = label
            /\ o.mutate /\ TitleOf(own) = label => TitleOf(o.state) = label
  BY <1>2, OutcomeFacts
<1>4. r.who \in Agents
  BY <1>2 DEF Results
<1> HIDE DEF r, o
<1>5. gen \in Nat
  BY DEF TypeOK
<1>6. /\ P \in Resolves \cup Persists /\ P.kind = "persist" /\ P.mutate = o.mutate
      /\ P.state = o.state
  BY <1>3 DEF Persists
<1>7. R \in Resolves \cup Persists /\ R.kind = "resolve"
  BY <1>3, <1>5 DEF Resolves, TypeOK
<1>8. \/ work' = Append(work, P) /\ inFlight' = FALSE /\ UNCHANGED <<pending, observed>>
      \/ /\ work' = Append(Append(work, P), R) /\ inFlight' = TRUE /\ pending' = FALSE
         /\ observed' = gen
  BY <1>1 DEF Complete, StartResolution
<1> HIDE DEF gen, P, R
<1>9. /\ work' \in Seq(Resolves \cup Persists) /\ work' # <<>> /\ work'[1] = P
      /\ \/ Len(work') = 1 /\ inFlight' = FALSE
         \/ Len(work') = 2 /\ work'[2] = R /\ inFlight' = TRUE
  <2>1. work \in Seq(Resolves \cup Persists) /\ Len(work) = 0
    BY <1>2, ChannelFacts DEF TypeOK
  <2> DEFINE q == Append(work, P)
  <2>2. q \in Seq(Resolves \cup Persists) /\ Len(q) = 1 /\ q[1] = P /\ q # <<>>
    <3>1. /\ q \in Seq(Resolves \cup Persists) /\ q # <<>> /\ Len(q) = Len(work) + 1
          /\ q[Len(work) + 1] = P
      BY <1>6, <2>1, SendFacts
    <3> QED
      BY <2>1, <3>1
  <2> HIDE DEF q
  <2>3. /\ Append(q, R) \in Seq(Resolves \cup Persists) /\ Len(Append(q, R)) = 2
        /\ Append(q, R)[1] = P /\ Append(q, R)[2] = R /\ Append(q, R) # <<>>
    <3>1. /\ Append(q, R) \in Seq(Resolves \cup Persists) /\ Append(q, R) # <<>>
          /\ Len(Append(q, R)) = Len(q) + 1 /\ Append(q, R)[Len(q) + 1] = R
          /\ Append(q, R)[1] = q[1]
      <4>1. R \in Resolves \cup Persists /\ q \in Seq(Resolves \cup Persists) /\ q # <<>>
        BY <1>7, <2>2
      <4> QED
        BY <4>1, SendFacts
    <3>2. Len(q) + 1 = 2
      BY <2>2
    <3> QED
      BY <2>2, <3>1, <3>2
  <2> QED
    BY <1>8, <2>2, <2>3 DEF q
<1>10. TypeOK' /\ CountersOK'
  <2>1. by' \in {"user", "sync"} /\ source' \in Agents
    BY <1>1, <1>4 DEF TypeOK
  <2>2. pending' \in BOOLEAN /\ observed' \in Nat /\ inFlight' \in BOOLEAN
    BY <1>5, <1>8 DEF TypeOK
  <2> QED
    BY <1>1, <1>2, <1>3, <1>5, <1>9, <2>1, <2>2 DEF TypeOK, CountersOK
<1>11. Shape'
  <2>1. CASE Len(work') = 1 /\ inFlight' = FALSE
    BY <1>2, <1>6, <1>9, <2>1 DEF Shape
  <2>2. CASE Len(work') = 2 /\ work'[2] = R /\ inFlight' = TRUE
    BY <1>2, <1>6, <1>7, <1>9, <2>2 DEF Shape
  <2> QED
    BY <1>9, <2>1, <2>2
<1>12. PersistFirst' /\ LastRecord' = IF o.mutate THEN o.state ELSE own
  BY <1>1, <1>6, <1>9 DEF PersistFirst, LastRecord
<1>13. ~PersistFirst /\ LastRecord = own
  BY <1>2 DEF PersistFirst, LastRecord
<1>14. RecordOK'
  <2> SUFFICES ASSUME by' = "sync", label' # None, faults' = 0
               PROVE  TitleOf(LastRecord)' = label'
    BY DEF RecordOK
  <2>1. TitleOf(LastRecord)' = TitleOf(IF o.mutate THEN o.state ELSE own)
    BY <1>12 DEF TitleOf
  <2>2. CASE o.label # label
    BY <1>1, <1>3, <2>1, <2>2
  <2>3. CASE o.label = label
    BY <1>1, <1>3, <1>13, <2>1, <2>3 DEF RecordOK
  <2> QED
    BY <2>2, <2>3
<1>15. EqualledOK'
  <2> SUFFICES ASSUME by' = "user", label' # None, Recorded(label)' PROVE equalled'
    BY DEF EqualledOK
  <2>1. label' = label /\ by = "user" /\ o.label = label
    BY <1>1
  <2>2. label = TitleOf(own) \/ label = TitleOf(o.state)
    BY <1>1, <1>6, <1>9, <2>1 DEF Recorded, TitleOf
  <2>3. label = TitleOf(own)
    BY <1>3, <2>1, <2>2, TitleFacts
  <2> QED
    BY <1>1, <2>1, <2>3 DEF EqualledOK, Recorded
<1> QED
  BY <1>10, <1>11, <1>14, <1>15

\* A crash leaves the record and the saved label, and empty channels.
LEMMA CrashStep ==
    ASSUME IInv, Crash
    PROVE  IInv'
<1> USE DEF IInv
<1>1. /\ work' = <<>> /\ resolved' = <<>> /\ own' = own /\ saved' = saved /\ inFlight' = FALSE
      /\ pending' = FALSE /\ generation' = 0 /\ observed' = 0 /\ label' = saved.label
      /\ by' = saved.by /\ source' = None /\ faults' = faults + 1 /\ changes' = changes
      /\ equalled' = (saved.by = "user" /\ saved.label # None /\ saved.label = TitleOf(own))
      /\ who' \in {None} \cup Sessions /\ title' \in Titles \cup {None}
  BY DEF Crash
<1>2. Len(work') = 0 /\ Len(resolved') = 0
  BY <1>1
<1>3. TypeOK' /\ CountersOK'
  <2>1. <<>> \in Seq(Resolves \cup Persists) /\ <<>> \in Seq(Results)
    BY EmptySeq
  <2>2. equalled' \in BOOLEAN
    BY <1>1
  <2>3. label' \in Titles \cup {None} /\ by' \in {"user", "sync"}
    BY <1>1 DEF TypeOK
  <2>4. who' \in Agents /\ source' \in Agents
    BY <1>1 DEF Agents
  <2>5. /\ title' \in Titles \cup {None} /\ generation' = 0 /\ observed' = 0
        /\ inFlight' = FALSE /\ pending' = FALSE /\ work' = <<>> /\ resolved' = <<>>
        /\ UNCHANGED <<own, saved, changes>> /\ faults' = faults + 1
    BY <1>1
  <2>6. work' \in Seq(Resolves \cup Persists) /\ resolved' \in Seq(Results)
    BY <2>1, <2>5
  <2>7. /\ generation' \in Nat /\ observed' \in Nat
        /\ inFlight' \in BOOLEAN /\ pending' \in BOOLEAN
    BY <2>5
  <2>8. /\ own' \in Records \cup {None}
        /\ saved'.label \in Titles \cup {None} /\ saved'.by \in {"user", "sync"}
    BY <2>5 DEF TypeOK
  <2>9. CountersOK'
    BY <2>5 DEF CountersOK
  <2> QED
    BY <2>2, <2>3, <2>4, <2>5, <2>6, <2>7, <2>8, <2>9 DEF TypeOK
<1>4. Shape'
  BY <1>1, <1>2 DEF Shape
<1>5. RecordOK'
  BY <1>1 DEF RecordOK, CountersOK
<1>6. EqualledOK'
  BY <1>1 DEF EqualledOK, Recorded, PersistFirst, TitleOf
<1> QED
  BY <1>3, <1>4, <1>5, <1>6

-----------------------------------------------------------------------------
(* The theorems.                                                           *)

\* The inductive invariant holds at the start.
LEMMA InitIInv == Init => IInv
<1> SUFFICES ASSUME Init PROVE IInv
  OBVIOUS
<1>1. TypeOK /\ CountersOK
  <2>1. <<>> \in Seq(Resolves \cup Persists) /\ <<>> \in Seq(Results)
    BY EmptySeq
  <2> QED
    BY <2>1 DEF Init, TypeOK, CountersOK, Agents
<1>2. Len(work) = 0 /\ Len(resolved) = 0
  BY DEF Init
<1>3. Shape
  BY <1>2 DEF Init, Shape
<1>4. RecordOK /\ EqualledOK
  BY DEF Init, RecordOK, EqualledOK
<1> QED
  BY <1>1, <1>3, <1>4 DEF IInv

\* Every step keeps it.
LEMMA NextIInv == IInv /\ [Next]_vars => IInv'
<1> SUFFICES ASSUME IInv, [Next]_vars PROVE IInv'
  OBVIOUS
<1>1. CASE UserRenames \/ AgentChanges \/ TitleChanges \/ SaveSession
  BY <1>1, PaneStep
<1>2. CASE Poll
  BY <1>2, PollStep
<1>3. CASE Apply
  BY <1>3, ApplyStep
<1>4. CASE Worker \/ PersistFails
  BY <1>4, ResolveStep, PersistStep DEF Worker
<1>5. CASE Crash
  BY <1>5, CrashStep
<1>6. CASE UNCHANGED vars
  BY <1>6 DEF vars, paneVars, engineVars, IInv, TypeOK, CountersOK, Shape, RecordOK, EqualledOK,
              Recorded, LastRecord, PersistFirst, TitleOf
<1> QED
  BY <1>1, <1>2, <1>3, <1>4, <1>5, <1>6 DEF Next

\* The inductive invariant holds.
THEOREM Invariance == Spec => []IInv
BY InitIInv, NextIInv, PTL DEF Spec

\* in_flight counts the one resolution that is under way, and an automatic
\* label is on record or its record is on the way (complete,
\* apply_title_sync_results).
THEOREM LabelsAndRecordsAgree == Spec => []Consistent
<1>1. ASSUME IInv PROVE Consistent
  <2> USE <1>1 DEF IInv
  <2>1. OneInFlight
    <3>1. Len(work) \in Nat /\ (work = <<>> <=> Len(work) = 0)
      BY ChannelFacts DEF TypeOK
    <3>2. Len(resolved) \in Nat /\ (resolved = <<>> <=> Len(resolved) = 0)
      BY ChannelFacts DEF TypeOK
    <3>3. \A n \in Nat : /\ n <= 1 /\ n # 0 => n = 1
                         /\ n <= 2 /\ n # 2 /\ n # 0 => n = 1
      OBVIOUS
    <3>4. \/ Len(work) = 0
          \/ Len(work) = 1
          \/ Len(work) = 2 /\ work[1].kind = "persist" /\ work[2].kind = "resolve"
      BY <3>1, <3>3 DEF Shape
    <3> DEFINE queued == {i \in 1 .. Len(work) : work[i].kind = "resolve"}
    <3>5. /\ Len(work) = 0 => queued = {}
          /\ Len(work) = 1 => queued = IF work[1].kind = "resolve" THEN {1} ELSE {}
          /\ Len(work) = 2 => queued = {2}
      BY <3>4
    <3>6. CASE resolved # <<>>
      <4>1. Len(resolved) = 1 /\ Len(work) = 0 /\ inFlight
        BY <3>1, <3>2, <3>3, <3>6 DEF Shape
      <4> QED
        BY <3>5, <4>1 DEF OneInFlight
    <3>7. CASE resolved = <<>> /\ inFlight
      <4>1. work # <<>> /\ work[Len(work)].kind = "resolve"
        BY <3>7 DEF Shape
      <4>2. queued = {1} \/ queued = {2}
        BY <3>1, <3>4, <3>5, <4>1
      <4> QED
        BY <3>7, <4>2 DEF OneInFlight
    <3>8. CASE resolved = <<>> /\ ~inFlight
      <4>1. ~(work # <<>> /\ work[Len(work)].kind = "resolve")
        BY <3>8 DEF Shape
      <4>2. queued = {}
        BY <3>1, <3>4, <3>5, <4>1
      <4> QED
        BY <3>8, <4>2 DEF OneInFlight
    <3> QED
      BY <3>6, <3>7, <3>8
  <2>2. OwnedLabelOnRecord
    <3> SUFFICES ASSUME by = "sync", label # None, faults = 0 PROVE label \in OnRecord
      BY DEF OwnedLabelOnRecord
    <3>1. Recorded(label)
      BY DEF RecordOK, LastRecord, Recorded
    <3> QED
      BY <3>1, RecordedFacts
  <2> QED
    BY <2>1, <2>2 DEF Consistent
<1> QED
  BY <1>1, Invariance, PTL

\* The user's label is replaced only by the user, or when its text equals a
\* title that sync has on record (rename_decision).
THEOREM ManualRenameWins == Spec => ManualRenameWinsUnlessEqual
<1>1. ASSUME IInv, [Next]_vars
      PROVE  [by = "user" /\ label # None /\ label' # label /\ ~equalled
                => by' = "user" \/ faults' # faults]_vars
  <2> USE DEF IInv
  <2> SUFFICES ASSUME Next, by = "user", label # None, label' # label, ~equalled
               PROVE  by' = "user" \/ faults' # faults
    BY <1>1
  <2>1. CASE Apply
    <3>1. /\ resolved # <<>> /\ label' = Outcome(Head(resolved)).label
      BY <2>1 DEF Apply
    <3>2. label = TitleOf(own)
      BY <1>1, <3>1, ResultFacts, OutcomeFacts
    <3> QED
      BY <1>1, <3>2 DEF EqualledOK, Recorded
  <2>2. CASE UserRenames
    BY <2>2 DEF UserRenames
  <2>3. CASE Crash
    BY <1>1, <2>3 DEF Crash, CountersOK
  <2>4. CASE AgentChanges \/ TitleChanges \/ Poll \/ Worker \/ PersistFails \/ SaveSession
    BY <2>4 DEF AgentChanges, TitleChanges, Poll, Worker, WorkerResolves, WorkerPersists,
                PersistFails, SaveSession, paneVars
  <2> QED
    BY <2>1, <2>2, <2>3, <2>4 DEF Next
<1> QED
  BY <1>1, Invariance, PTL DEF Spec, ManualRenameWinsUnlessEqual
=============================================================================
