------------------------ MODULE AgentAuthorityProofs ------------------------
(***************************************************************************)
(* Proofs about AgentAuthority for any sources, agents, sessions and       *)
(* instances.  The handlers are followed once, field by field, and summed  *)
(* up in relations between the terminal before and after (Kept, Waiting,   *)
(* Taken, Announces, Recorded, Clears, ...).  StepCases says that every    *)
(* step is one of these; the theorems are about the relations.             *)
(***************************************************************************)
EXTENDS AgentAuthority, TLAPS

Instance == setup \in Setups /\ clock \in Times

-----------------------------------------------------------------------------
(* The operators, field by field.                                          *)

LEMMA SetupFacts ==
    ASSUME Instance
    PROVE  /\ Sources \subseteq AllSources
           /\ \A s \in Sources : setup.sessions[s] \subseteq AllSessions
           /\ setup.agents \subseteq Agents /\ setup.starts \subseteq Starts
           /\ setup.states \subseteq States /\ setup.numbers \subseteq Nat \cup {None}
           /\ setup.clock \in Nat /\ Times \subseteq Nat /\ clock \in Nat
  BY AuthorityAssumption DEF Instance, Sources, Times

LEMMA SourceFacts ==
    /\ \A s \in AllSources : AgentOf(s) \in Agents \cup {None}
    /\ \A s \in Official : AgentOf(s) = Label[s] /\ AgentOf(s) \in Agents
    /\ \A s, r \in Official : AgentOf(s) = AgentOf(r) => s = r
    /\ Full \subseteq Official /\ IdentityOnly \subseteq Official /\ Official \subseteq AllSources
    /\ Full \cap IdentityOnly = {} /\ Adopting \subseteq Full /\ None \notin Agents
    /\ None \notin AllSessions /\ None \notin AllSources /\ None \notin Starts /\ None \notin Nat
    /\ States \subseteq AllStates
  BY AuthorityAssumption DEF AgentOf, AllStates

\* None is none of the records the fields hold.
LEMMA NoneFacts ==
    ASSUME Instance
    PROVE  /\ None \notin Reports /\ None \notin Gates /\ None \notin Exits
           /\ None \notin [source : Sources, session : AllSessions]
  <1>1. Sources \subseteq AllSources /\ Times \subseteq Nat
           /\ setup.numbers \cup {None} \subseteq Nat \cup {None}
    BY SetupFacts
  <1>2. Reports \subseteq AllReports
    BY <1>1 DEF Reports, AllReports
  <1>3. Gates \subseteq AllGates
    BY <1>1, <1>2 DEF Gates, AllGates
  <1>4. Exits \subseteq [agent : Agents, at : Nat]
           /\ [source : Sources, session : AllSessions] \subseteq Sessions
    BY <1>1 DEF Exits, Sessions
  <1> QED BY <1>2, <1>3, <1>4, AuthorityAssumption

LEMMA RecomputeFields ==
    ASSUME Instance, NEW u \in Terminals
    PROVE  LET v == Recompute(u) IN
           /\ v \in Terminals /\ v.state = StateOf(v)
           /\ v.detected = u.detected /\ v.fallback = u.fallback /\ v.blocker = u.blocker
           /\ v.fallbackAt = u.fallbackAt /\ v.authority = u.authority
           /\ v.persisted = u.persisted /\ v.seqs = u.seqs /\ v.suppressed = u.suppressed
           /\ v.stale = u.stale /\ v.exit = u.exit
           /\ Identity(v) = Identity(u)
  <1> DEFINE v == Recompute(u)
  <1>1. StateOf(u) \in AllStates
    <2>1. u.fallback \in AllStates /\ "Blocked" \in AllStates
      BY DEF Terminals, AllStates
    <2>2. Effective(u) => u.authority.state \in AllStates
      BY SourceFacts DEF Effective, Terminals, Reports
    <2> QED BY <2>1, <2>2 DEF StateOf
  <1>2. /\ v \in Terminals /\ v.state = StateOf(u)
        /\ v.detected = u.detected /\ v.fallback = u.fallback /\ v.blocker = u.blocker
        /\ v.fallbackAt = u.fallbackAt /\ v.authority = u.authority
        /\ v.persisted = u.persisted /\ v.seqs = u.seqs /\ v.suppressed = u.suppressed
        /\ v.stale = u.stale /\ v.exit = u.exit
    BY <1>1 DEF Recompute, Terminals
  <1>3. StateOf(v) = StateOf(u)
    BY <1>2 DEF StateOf, VisibleBlockerOverridesHook, Live, Effective, ProcessPresent,
                FallbackNotOlderThanHook
  <1>4. Identity(v) = Identity(u)
    BY <1>2 DEF Identity
  <1> QED BY <1>2, <1>3, <1>4

LEMMA AcceptFields ==
    ASSUME Instance, NEW u \in Terminals, NEW s \in Sources, NEW seq \in setup.numbers \cup {None}
    PROVE  LET v == Accept(u, s, seq) IN
           /\ v \in Terminals
           /\ v.detected = u.detected /\ v.fallback = u.fallback /\ v.blocker = u.blocker
           /\ v.fallbackAt = u.fallbackAt /\ v.authority = u.authority
           /\ v.persisted = u.persisted /\ v.suppressed = u.suppressed
           /\ v.stale = u.stale /\ v.exit = u.exit /\ v.state = u.state
           /\ \A r \in Sources : v.seqs[r] = IF r = s /\ seq # None THEN seq ELSE u.seqs[r]
  BY DEF Accept, Terminals

LEMMA RememberFields ==
    ASSUME Instance, NEW u \in Terminals, NEW s \in Sources, NEW ref \in AllSessions \cup {None}
    PROVE  LET v == Remember(u, s, ref) IN
           /\ v \in Terminals
           /\ v.detected = u.detected /\ v.fallback = u.fallback /\ v.blocker = u.blocker
           /\ v.fallbackAt = u.fallbackAt /\ v.authority = u.authority
           /\ v.persisted = u.persisted /\ v.suppressed = u.suppressed
           /\ v.seqs = u.seqs /\ v.exit = u.exit /\ v.state = u.state
           /\ v.stale[s] = u.stale[s] \cup ({ref} \ {None})
           /\ \A r \in Sources : r # s => v.stale[r] = u.stale[r]
  <1>1. CASE ref = None
    BY <1>1 DEF Remember
  <1>2. CASE ref # None
    BY <1>2 DEF Remember, Terminals
  <1> QED BY <1>1, <1>2

LEMMA ForgetFields ==
    ASSUME Instance, NEW u \in Terminals, NEW s \in Sources, NEW ref
    PROVE  LET v == Forget(u, s, ref) IN
           /\ v \in Terminals
           /\ v.detected = u.detected /\ v.fallback = u.fallback /\ v.blocker = u.blocker
           /\ v.fallbackAt = u.fallbackAt /\ v.authority = u.authority
           /\ v.persisted = u.persisted /\ v.suppressed = u.suppressed
           /\ v.seqs = u.seqs /\ v.exit = u.exit /\ v.state = u.state
           /\ v.stale[s] = u.stale[s] \ {ref}
           /\ \A r \in Sources : r # s => v.stale[r] = u.stale[r]
  BY DEF Forget, Terminals

\* A gate as it is made.
LEMMA GateFields ==
    ASSUME Instance, NEW ref \in AllSessions \cup {None}, NEW at \in Times,
           NEW reason \in {"HookClear", "ProcessExit"}
    PROVE  LET g == Gate(ref, at, reason) IN
           /\ g \in Gates /\ g # None
           /\ g.session = ref /\ g.at = at /\ g.reason = reason
           /\ g.replacement = None /\ g.pending = None
  BY NoneFacts DEF Gate, Gates

LEMMA SuppressFields ==
    ASSUME Instance, NEW u \in Terminals, NEW s \in Sources, NEW ref \in AllSessions \cup {None},
           NEW at \in Times, NEW reason \in {"HookClear", "ProcessExit"}
    PROVE  LET v == Suppress(u, s, ref, at, reason) IN
           /\ v \in Terminals
           /\ v.detected = u.detected /\ v.fallback = u.fallback /\ v.blocker = u.blocker
           /\ v.fallbackAt = u.fallbackAt /\ v.authority = u.authority
           /\ v.persisted = u.persisted /\ v.stale = u.stale
           /\ v.seqs = u.seqs /\ v.exit = u.exit /\ v.state = u.state
           /\ \A r \in Sources : v.suppressed[r] = IF r = s THEN Gate(ref, at, reason)
                                                   ELSE u.suppressed[r]
  BY GateFields DEF Suppress, Terminals

LEMMA SuppressCurrentFields ==
    ASSUME Instance, NEW u \in Terminals
    PROVE  LET v == SuppressCurrent(u) IN
           /\ v \in Terminals
           /\ v.detected = u.detected /\ v.fallback = u.fallback /\ v.blocker = u.blocker
           /\ v.fallbackAt = u.fallbackAt /\ v.authority = u.authority
           /\ v.persisted = u.persisted /\ v.stale = u.stale
           /\ v.seqs = u.seqs /\ v.exit = u.exit /\ v.state = u.state
           /\ \A r \in Sources : v.suppressed[r] =
                 IF u.authority # None /\ u.authority.source \in Full /\ u.authority.source = r
                 THEN Gate(u.authority.session, clock, "HookClear") ELSE u.suppressed[r]
  <1>1. CASE u.authority # None /\ u.authority.source \in Full
    <2>1. u.authority.source \in Sources /\ u.authority.session \in AllSessions \cup {None}
      BY <1>1 DEF Terminals, Reports
    <2>2. clock \in Times
      BY DEF Instance
    <2>3. SuppressCurrent(u)
            = Suppress(u, u.authority.source, u.authority.session, clock, "HookClear")
      BY <1>1 DEF SuppressCurrent
    <2> QED BY <1>1, <2>1, <2>2, <2>3, SuppressFields
  <1>2. CASE ~(u.authority # None /\ u.authority.source \in Full)
    BY <1>2 DEF SuppressCurrent
  <1> QED BY <1>1, <1>2

\* What a gate holds.
LEMMA GateTypes ==
    ASSUME NEW u \in Terminals, NEW s \in Sources, u.suppressed[s] # None
    PROVE  LET g == u.suppressed[s] IN
           /\ g \in Gates /\ g.session \in AllSessions \cup {None} /\ g.at \in Times
           /\ g.reason \in {"HookClear", "ProcessExit"}
           /\ g.replacement \in AllSessions \cup {None} /\ g.pending \in Reports \cup {None}
           /\ g.pending # None => /\ g.pending.source \in Sources /\ g.pending.at \in Times
                                  /\ g.pending.session \in AllSessions \cup {None}
                                  /\ g.pending.seq \in setup.numbers \cup {None}
  <1>1. u.suppressed[s] \in Gates
    BY DEF Terminals
  <1> QED BY <1>1 DEF Gates, Reports

LEMMA OpenedFields ==
    ASSUME Instance, NEW u \in Terminals, NEW agent
    PROVE  LET v == Opened(u, agent) IN
           /\ v \in Terminals
           /\ v.detected = u.detected /\ v.fallback = u.fallback /\ v.blocker = u.blocker
           /\ v.fallbackAt = u.fallbackAt /\ v.authority = u.authority
           /\ v.persisted = u.persisted /\ v.exit = u.exit /\ v.state = u.state
           /\ \A s \in Sources :
                /\ v.suppressed[s] = IF s \in Started(u, agent) \cup Cleared(u, agent)
                                     THEN None ELSE u.suppressed[s]
                /\ v.stale[s] =
                     IF s \in Cleared(u, agent)
                     THEN u.stale[s] \cup ({u.suppressed[s].session} \ {None})
                     ELSE IF s \in Started(u, agent)
                     THEN (u.stale[s] \cup {u.suppressed[s].session})
                             \ {None, u.suppressed[s].replacement}
                     ELSE u.stale[s]
                /\ v.seqs[s] =
                     IF s \in Full /\ AgentOf(s) = agent /\ s \notin Started(u, agent) THEN None
                     ELSE u.seqs[s]
  <1> DEFINE sup == [s \in Sources |-> IF s \in Started(u, agent) \cup Cleared(u, agent)
                                       THEN None ELSE u.suppressed[s]]
             sta == [s \in Sources |->
                       IF s \in Cleared(u, agent)
                       THEN u.stale[s] \cup ({u.suppressed[s].session} \ {None})
                       ELSE IF s \in Started(u, agent)
                       THEN (u.stale[s] \cup {u.suppressed[s].session})
                               \ {None, u.suppressed[s].replacement}
                       ELSE u.stale[s]]
             seq == [s \in Sources |->
                       IF s \in Full /\ AgentOf(s) = agent /\ s \notin Started(u, agent)
                       THEN None ELSE u.seqs[s]]
  <1>1. Opened(u, agent) = [u EXCEPT !.suppressed = sup, !.stale = sta, !.seqs = seq]
    BY DEF Opened, Terminals
  <1>2. sup \in [Sources -> Gates \cup {None}] /\ seq \in [Sources -> setup.numbers \cup {None}]
    BY DEF Terminals
  <1>3. sta \in [Sources -> SUBSET AllSessions]
    <2> SUFFICES ASSUME NEW s \in Sources
                 PROVE  sta[s] \subseteq AllSessions
      OBVIOUS
    <2>1. u.stale[s] \subseteq AllSessions
      BY DEF Terminals
    <2>2. s \in Started(u, agent) \cup Cleared(u, agent)
            => u.suppressed[s].session \in AllSessions \cup {None}
      BY GateTypes DEF Started, Cleared, GatedBy
    <2> QED BY <2>1, <2>2
  <1> HIDE DEF sup, sta, seq
  <1>4. [u EXCEPT !.suppressed = sup, !.stale = sta, !.seqs = seq] \in Terminals
    BY <1>2, <1>3 DEF Terminals
  <1>5. LET v == [u EXCEPT !.suppressed = sup, !.stale = sta, !.seqs = seq] IN
           /\ v.detected = u.detected /\ v.fallback = u.fallback /\ v.blocker = u.blocker
           /\ v.fallbackAt = u.fallbackAt /\ v.authority = u.authority
           /\ v.persisted = u.persisted /\ v.exit = u.exit /\ v.state = u.state
           /\ v.suppressed = sup /\ v.stale = sta /\ v.seqs = seq
    BY DEF Terminals
  <1> QED BY <1>1, <1>4, <1>5 DEF sup, sta, seq

\* The session of one source's gate is in force, and its buffered report may be.
LEMMA ResumeFields ==
    ASSUME Instance, NEW u \in Terminals, NEW v \in Terminals, NEW s \in Sources,
           u.suppressed[s] # None, u.suppressed[s].replacement # None
    PROVE  LET w == Resume(u, v, s)
               g == u.suppressed[s]
           IN
           /\ w \in Terminals
           /\ w.detected = v.detected /\ w.fallback = v.fallback /\ w.blocker = v.blocker
           /\ w.fallbackAt = v.fallbackAt /\ w.suppressed = v.suppressed
           /\ w.stale = v.stale /\ w.exit = v.exit /\ w.state = v.state
           /\ w.persisted = [source |-> s, session |-> g.replacement]
           /\ \/ w.authority = v.authority /\ w.seqs = v.seqs
              \/ /\ g.pending # None /\ g.pending.session = g.replacement
                 /\ w.authority = g.pending
                 /\ \A r \in Sources : w.seqs[r] = IF r = s THEN g.pending.seq ELSE v.seqs[r]
  <1> DEFINE g == u.suppressed[s]
             w1 == [v EXCEPT !.persisted = [source |-> s, session |-> g.replacement]]
             w2 == [w1 EXCEPT !.authority = g.pending, !.seqs[s] = g.pending.seq]
  <1>1. g.replacement \in AllSessions /\ g.pending \in Reports \cup {None}
          /\ (g.pending # None => g.pending.seq \in setup.numbers \cup {None})
    BY GateTypes
  <1>2. /\ w1 \in Terminals
        /\ w1.detected = v.detected /\ w1.fallback = v.fallback /\ w1.blocker = v.blocker
        /\ w1.fallbackAt = v.fallbackAt /\ w1.suppressed = v.suppressed
        /\ w1.stale = v.stale /\ w1.exit = v.exit /\ w1.state = v.state
        /\ w1.persisted = [source |-> s, session |-> g.replacement]
        /\ w1.authority = v.authority /\ w1.seqs = v.seqs
    BY <1>1 DEF Terminals, Persisted
  <1>3. ASSUME g.pending # None
        PROVE  /\ w2 \in Terminals
               /\ w2.detected = v.detected /\ w2.fallback = v.fallback /\ w2.blocker = v.blocker
               /\ w2.fallbackAt = v.fallbackAt /\ w2.suppressed = v.suppressed
               /\ w2.stale = v.stale /\ w2.exit = v.exit /\ w2.state = v.state
               /\ w2.persisted = [source |-> s, session |-> g.replacement]
               /\ w2.authority = g.pending
               /\ \A r \in Sources : w2.seqs[r] = IF r = s THEN g.pending.seq ELSE v.seqs[r]
    <2> HIDE DEF w1
    <2> QED BY <1>1, <1>2, <1>3 DEF Terminals
  <1> HIDE DEF w1, w2
  <1>4. CASE /\ g.pending # None /\ g.pending.session = g.replacement
             /\ Acceptable(u, s, g.pending.seq)
    <2>1. Resume(u, v, s) = w2
      BY <1>4 DEF Resume, w1, w2
    <2> QED BY <1>3, <1>4, <2>1
  <1>5. CASE ~(/\ g.pending # None /\ g.pending.session = g.replacement
               /\ Acceptable(u, s, g.pending.seq))
    <2>1. Resume(u, v, s) = w1
      BY <1>5 DEF Resume, w1
    <2> QED BY <1>2, <2>1
  <1> QED BY <1>4, <1>5

\* A new process of the agent: the gates are open, one session may be in force.
LEMMA UngateFields ==
    ASSUME Instance, NEW u \in Terminals, NEW previous, NEW agent
    PROVE  LET v == Ungate(u, previous, agent)
               o == Opened(u, agent)
           IN
           /\ v \in Terminals
           /\ v.detected = u.detected /\ v.fallback = u.fallback /\ v.blocker = u.blocker
           /\ v.fallbackAt = u.fallbackAt /\ v.exit = u.exit /\ v.state = u.state
           /\ agent \in {None, previous} => v = u
           /\ agent \notin {None, previous} =>
                /\ v.suppressed = o.suppressed /\ v.stale = o.stale
                /\ \/ /\ Started(u, agent) = {} /\ v.authority = u.authority
                      /\ v.persisted = u.persisted /\ v.seqs = o.seqs
                   \/ \E s \in Started(u, agent) : LET g == u.suppressed[s] IN
                        /\ v.persisted = [source |-> s, session |-> g.replacement]
                        /\ \/ v.authority = u.authority /\ v.seqs = o.seqs
                           \/ /\ g.pending # None /\ g.pending.session = g.replacement
                              /\ v.authority = g.pending
                              /\ \A r \in Sources :
                                    v.seqs[r] = IF r = s THEN g.pending.seq ELSE o.seqs[r]
  <1> DEFINE v == Ungate(u, previous, agent)
             o == Opened(u, agent)
  <1>1. CASE agent \in {None, previous}
    BY <1>1 DEF Ungate
  <1>2. CASE agent \notin {None, previous} /\ Started(u, agent) = {}
    <2>1. v = o
      BY <1>2 DEF Ungate
    <2> QED BY <1>2, <2>1, OpenedFields
  <1>3. CASE agent \notin {None, previous} /\ Started(u, agent) # {}
    <2> DEFINE s == CHOOSE r \in Started(u, agent) : TRUE
    <2>1. s \in Started(u, agent)
      BY <1>3
    <2> HIDE DEF s
    <2>2. s \in Sources /\ u.suppressed[s] # None /\ u.suppressed[s].replacement # None
      BY <2>1 DEF Started, GatedBy
    <2>3. v = Resume(u, o, s)
      BY <1>3 DEF Ungate, s
    <2>4. o \in Terminals
      BY OpenedFields
    <2>5. /\ o.detected = u.detected /\ o.fallback = u.fallback /\ o.blocker = u.blocker
          /\ o.fallbackAt = u.fallbackAt /\ o.authority = u.authority
          /\ o.exit = u.exit /\ o.state = u.state
      BY OpenedFields
    <2> DEFINE g == u.suppressed[s]
    <2> HIDE DEF v, o
    <2>6. LET w == Resume(u, o, s) IN
          /\ w \in Terminals
          /\ w.detected = o.detected /\ w.fallback = o.fallback /\ w.blocker = o.blocker
          /\ w.fallbackAt = o.fallbackAt /\ w.suppressed = o.suppressed
          /\ w.stale = o.stale /\ w.exit = o.exit /\ w.state = o.state
          /\ w.persisted = [source |-> s, session |-> g.replacement]
          /\ \/ w.authority = o.authority /\ w.seqs = o.seqs
             \/ /\ g.pending # None /\ g.pending.session = g.replacement
                /\ w.authority = g.pending
                /\ \A r \in Sources : w.seqs[r] = IF r = s THEN g.pending.seq ELSE o.seqs[r]
      BY <2>2, <2>4, ResumeFields
    <2> HIDE DEF g
    <2>7. /\ v \in Terminals
          /\ v.detected = u.detected /\ v.fallback = u.fallback /\ v.blocker = u.blocker
          /\ v.fallbackAt = u.fallbackAt /\ v.exit = u.exit /\ v.state = u.state
          /\ v.suppressed = o.suppressed /\ v.stale = o.stale
      BY <2>3, <2>5, <2>6
    <2>8. /\ v.persisted = [source |-> s, session |-> g.replacement]
          /\ \/ v.authority = u.authority /\ v.seqs = o.seqs
             \/ /\ g.pending # None /\ g.pending.session = g.replacement
                /\ v.authority = g.pending
                /\ \A r \in Sources : v.seqs[r] = IF r = s THEN g.pending.seq ELSE o.seqs[r]
      BY <2>3, <2>5, <2>6
    <2> QED BY <1>3, <2>1, <2>7, <2>8 DEF v, o, g
  <1> QED BY <1>1, <1>2, <1>3

LEMMA RegateFields ==
    ASSUME Instance, NEW g \in Gates, NEW at \in Times
    PROVE  LET h == Regate(g, at) IN
           /\ h \in Gates /\ h # None
           /\ ExitedSession(g) \in AllSessions \cup {None}
           /\ h.session = ExitedSession(g) /\ h.at = at /\ h.reason = "ProcessExit"
           /\ h.replacement = None /\ h.pending = None
  <1>1. ExitedSession(g) \in AllSessions \cup {None}
    BY DEF ExitedSession, Gates, Reports
  <1> QED BY <1>1, GateFields DEF Regate

LEMMA RegatedFields ==
    ASSUME Instance, NEW u \in Terminals, NEW agent, NEW at \in Times
    PROVE  LET v == Regated(u, agent, at) IN
           /\ v \in Terminals
           /\ v.detected = u.detected /\ v.fallback = u.fallback /\ v.blocker = u.blocker
           /\ v.fallbackAt = u.fallbackAt /\ v.authority = u.authority
           /\ v.persisted = u.persisted /\ v.exit = u.exit /\ v.state = u.state
           /\ \A s \in Sources :
                LET gated == GatedBy(u, s, "ProcessExit") /\ AgentOf(s) = agent IN
                /\ v.suppressed[s] = IF gated THEN Regate(u.suppressed[s], at)
                                     ELSE u.suppressed[s]
                /\ v.stale[s] = IF gated
                                THEN u.stale[s] \cup ({u.suppressed[s].session}
                                                \ {None, ExitedSession(u.suppressed[s])})
                                ELSE u.stale[s]
                /\ v.seqs[s] = IF gated THEN None ELSE u.seqs[s]
  <1> DEFINE gated == {s \in Sources : GatedBy(u, s, "ProcessExit") /\ AgentOf(s) = agent}
             sup == [s \in Sources |-> IF s \in gated THEN Regate(u.suppressed[s], at)
                                       ELSE u.suppressed[s]]
             sta == [s \in Sources |->
                       IF s \in gated
                       THEN u.stale[s] \cup ({u.suppressed[s].session}
                                             \ {None, ExitedSession(u.suppressed[s])})
                       ELSE u.stale[s]]
             seq == [s \in Sources |-> IF s \in gated THEN None ELSE u.seqs[s]]
             w == [u EXCEPT !.suppressed = sup, !.stale = sta, !.seqs = seq]
  <1>1. Regated(u, agent, at) = w
    BY DEF Regated, Terminals
  <1>2. \A s \in gated : s \in Sources /\ u.suppressed[s] # None
    BY DEF GatedBy
  <1>3. sup \in [Sources -> Gates \cup {None}]
    <2> SUFFICES ASSUME NEW s \in Sources
                 PROVE  sup[s] \in Gates \cup {None}
      OBVIOUS
    <2>1. CASE s \in gated
      BY <1>2, <2>1, GateTypes, RegateFields
    <2>2. CASE s \notin gated
      BY <2>2 DEF Terminals
    <2> QED BY <2>1, <2>2
  <1>4. sta \in [Sources -> SUBSET AllSessions]
    <2> SUFFICES ASSUME NEW s \in Sources
                 PROVE  sta[s] \subseteq AllSessions
      OBVIOUS
    <2>1. u.stale[s] \subseteq AllSessions
      BY DEF Terminals
    <2>2. s \in gated => u.suppressed[s].session \in AllSessions \cup {None}
      BY <1>2, GateTypes
    <2> QED BY <2>1, <2>2
  <1>5. seq \in [Sources -> setup.numbers \cup {None}]
    BY DEF Terminals
  <1>6. \A s \in Sources : s \in gated <=> GatedBy(u, s, "ProcessExit") /\ AgentOf(s) = agent
    OBVIOUS
  <1>7. \A s \in Sources :
           /\ sup[s] = IF s \in gated THEN Regate(u.suppressed[s], at) ELSE u.suppressed[s]
           /\ sta[s] = IF s \in gated
                       THEN u.stale[s] \cup ({u.suppressed[s].session}
                                             \ {None, ExitedSession(u.suppressed[s])})
                       ELSE u.stale[s]
           /\ seq[s] = IF s \in gated THEN None ELSE u.seqs[s]
    OBVIOUS
  <1> HIDE DEF gated, sup, sta, seq
  <1>8. /\ w \in Terminals
        /\ w.detected = u.detected /\ w.fallback = u.fallback /\ w.blocker = u.blocker
        /\ w.fallbackAt = u.fallbackAt /\ w.authority = u.authority
        /\ w.persisted = u.persisted /\ w.exit = u.exit /\ w.state = u.state
        /\ w.suppressed = sup /\ w.stale = sta /\ w.seqs = seq
    BY <1>3, <1>4, <1>5 DEF Terminals
  <1> HIDE DEF w
  <1> QED BY <1>1, <1>6, <1>7, <1>8

\* The agent's owner is an official source of that agent.
LEMMA OwnerFacts ==
    ASSUME Instance, NEW u \in Terminals, NEW agent
    PROVE  LET owner == Owner(u, agent) IN
           owner # None =>
             /\ owner.source \in Sources \cap Official /\ AgentOf(owner.source) = agent
             /\ owner.session \in AllSessions \cup {None}
             /\ \/ owner = u.authority
                \/ owner = u.persisted
                     /\ ~(u.authority # None /\ u.authority.source \in Official
                            /\ HookAgent(u) = agent)
  <1>1. u.authority \in Reports \cup {None} /\ u.persisted \in Persisted
    BY DEF Terminals
  <1> QED BY <1>1 DEF Owner, HookAgent, Reports, Persisted

LEMMA ClosedFields ==
    ASSUME Instance, NEW u \in Terminals, NEW owner, NEW at \in Times,
           owner # None => /\ owner.source \in Sources
                           /\ owner.session \in AllSessions \cup {None}
    PROVE  LET v == Closed(u, owner, at) IN
           /\ v \in Terminals
           /\ v.detected = u.detected /\ v.fallback = u.fallback /\ v.blocker = u.blocker
           /\ v.fallbackAt = u.fallbackAt /\ v.authority = u.authority
           /\ v.persisted = u.persisted /\ v.exit = u.exit /\ v.state = u.state
           /\ v.stale = u.stale
           /\ \A s \in Sources :
                /\ v.suppressed[s] = IF owner # None /\ s = owner.source
                                     THEN Gate(owner.session, at, "ProcessExit")
                                     ELSE u.suppressed[s]
                /\ v.seqs[s] = IF owner # None /\ s = owner.source THEN None ELSE u.seqs[s]
  <1>1. CASE owner = None
    BY <1>1 DEF Closed
  <1>2. CASE owner # None
    <2> DEFINE w == [u EXCEPT !.seqs[owner.source] = None]
    <2>1. /\ w \in Terminals
          /\ w.detected = u.detected /\ w.fallback = u.fallback /\ w.blocker = u.blocker
          /\ w.fallbackAt = u.fallbackAt /\ w.authority = u.authority
          /\ w.persisted = u.persisted /\ w.exit = u.exit /\ w.state = u.state
          /\ w.stale = u.stale /\ w.suppressed = u.suppressed
          /\ \A s \in Sources : w.seqs[s] = IF s = owner.source THEN None ELSE u.seqs[s]
      BY <1>2 DEF Terminals
    <2> HIDE DEF w
    <2>2. Closed(u, owner, at) = Suppress(w, owner.source, owner.session, at, "ProcessExit")
      BY <1>2 DEF Closed, w
    <2> QED BY <1>2, <2>1, <2>2, SuppressFields
  <1> QED BY <1>1, <1>2

\* The terminal before and after the gates of the exited agent closed.
GatesShut(u, v, agent, at) ==
    LET owner == Owner(u, agent) IN
    \A s \in Sources :
        LET gated == GatedBy(u, s, "ProcessExit") /\ AgentOf(s) = agent IN
        /\ v.suppressed[s] = IF owner # None /\ s = owner.source
                             THEN Gate(owner.session, at, "ProcessExit")
                             ELSE IF gated THEN Regate(u.suppressed[s], at)
                             ELSE u.suppressed[s]
        /\ v.stale[s] = IF gated
                        THEN u.stale[s] \cup ({u.suppressed[s].session}
                                        \ {None, ExitedSession(u.suppressed[s])})
                        ELSE u.stale[s]
        /\ AgentOf(s) # agent => v.seqs[s] = u.seqs[s]

\* What an exit of the agent leaves.
LEMMA ExitFields ==
    ASSUME Instance, NEW u \in Terminals, NEW agent, NEW at \in Times, NEW newer \in BOOLEAN
    PROVE  LET v == Exit(u, agent, at, newer) IN
           /\ v \in Terminals
           /\ v.detected = u.detected /\ v.fallback = u.fallback /\ v.blocker = u.blocker
           /\ v.fallbackAt = u.fallbackAt /\ v.exit = u.exit /\ v.state = u.state
           /\ v.authority = IF u.authority # None /\ HookAgent(u) = agent /\ ~newer THEN None
                            ELSE u.authority
           /\ v.persisted = IF ~newer /\ u.persisted # None
                                 /\ AgentOf(u.persisted.source) = agent
                            THEN None ELSE u.persisted
           /\ GatesShut(u, v, agent, at)
  <1> DEFINE owner == Owner(u, agent)
             r == Regated(u, agent, at)
             c == Closed(r, owner, at)
             ends == u.authority # None /\ HookAgent(u) = agent /\ ~newer
             drops == ~newer /\ u.persisted # None /\ AgentOf(u.persisted.source) = agent
             l == IF ends THEN [c EXCEPT !.seqs[u.authority.source] = None, !.authority = None]
                  ELSE c
             v == IF drops THEN [l EXCEPT !.persisted = None] ELSE l
  <1>1. Exit(u, agent, at, newer) = v
    BY DEF Exit
  <1>2. owner # None => /\ owner.source \in Sources /\ AgentOf(owner.source) = agent
                        /\ owner.session \in AllSessions \cup {None}
    BY OwnerFacts
  <1>3. u.authority # None => u.authority.source \in Sources
    BY DEF Terminals, Reports
  <1>4. r \in Terminals
    BY RegatedFields
  <1>12. \A s \in Sources :
           LET gated == GatedBy(u, s, "ProcessExit") /\ AgentOf(s) = agent IN
           /\ r.suppressed[s] = IF gated THEN Regate(u.suppressed[s], at) ELSE u.suppressed[s]
           /\ r.stale[s] = IF gated
                           THEN u.stale[s] \cup ({u.suppressed[s].session}
                                                 \ {None, ExitedSession(u.suppressed[s])})
                           ELSE u.stale[s]
           /\ r.seqs[s] = IF gated THEN None ELSE u.seqs[s]
    <2> HIDE DEF owner, c, ends, drops, l, v
    <2> QED BY RegatedFields DEF GatedBy
  <1>5. c \in Terminals
    BY <1>2, <1>4, ClosedFields
  <1>6. /\ c.detected = u.detected /\ c.fallback = u.fallback /\ c.blocker = u.blocker
        /\ c.fallbackAt = u.fallbackAt /\ c.authority = u.authority
        /\ c.persisted = u.persisted /\ c.exit = u.exit /\ c.state = u.state
        /\ c.stale = r.stale
    <2>1. /\ c.detected = r.detected /\ c.fallback = r.fallback /\ c.blocker = r.blocker
          /\ c.fallbackAt = r.fallbackAt /\ c.authority = r.authority
          /\ c.persisted = r.persisted /\ c.exit = r.exit /\ c.state = r.state
          /\ c.stale = r.stale
      BY <1>2, <1>4, ClosedFields
    <2>2. /\ r.detected = u.detected /\ r.fallback = u.fallback /\ r.blocker = u.blocker
          /\ r.fallbackAt = u.fallbackAt /\ r.authority = u.authority
          /\ r.persisted = u.persisted /\ r.exit = u.exit /\ r.state = u.state
      BY RegatedFields
    <2> QED BY <2>1, <2>2
  <1>7. \A s \in Sources :
           /\ c.suppressed[s] = IF owner # None /\ s = owner.source
                                THEN Gate(owner.session, at, "ProcessExit")
                                ELSE r.suppressed[s]
           /\ c.seqs[s] = IF owner # None /\ s = owner.source THEN None ELSE r.seqs[s]
    BY <1>2, <1>4, ClosedFields
  <1>8. \A s \in Sources : AgentOf(s) # agent => c.seqs[s] = u.seqs[s]
    BY <1>2, <1>7, <1>12
  <1> HIDE DEF c, r, ends, drops
  <1>9. /\ l \in Terminals
        /\ l.detected = c.detected /\ l.fallback = c.fallback /\ l.blocker = c.blocker
        /\ l.fallbackAt = c.fallbackAt /\ l.persisted = c.persisted
        /\ l.exit = c.exit /\ l.state = c.state
        /\ l.stale = c.stale /\ l.suppressed = c.suppressed
        /\ l.authority = IF ends THEN None ELSE c.authority
        /\ \A s \in Sources : l.seqs[s] = IF ends /\ s = u.authority.source THEN None
                                          ELSE c.seqs[s]
    <2>1. CASE ends
      BY <1>3, <1>5, <2>1 DEF Terminals, ends
    <2>2. CASE ~ends
      BY <1>5, <2>2
    <2> QED BY <2>1, <2>2
  <1> HIDE DEF l
  <1>10. /\ v \in Terminals
         /\ v.detected = l.detected /\ v.fallback = l.fallback /\ v.blocker = l.blocker
         /\ v.fallbackAt = l.fallbackAt /\ v.authority = l.authority
         /\ v.exit = l.exit /\ v.state = l.state
         /\ v.stale = l.stale /\ v.suppressed = l.suppressed /\ v.seqs = l.seqs
         /\ v.persisted = IF drops THEN None ELSE l.persisted
    BY <1>9 DEF Terminals, Persisted
  <1> HIDE DEF v
  <1>11. \A s \in Sources : AgentOf(s) # agent => v.seqs[s] = u.seqs[s]
    BY <1>8, <1>9, <1>10 DEF ends, HookAgent
  <1>13. /\ v.detected = u.detected /\ v.fallback = u.fallback /\ v.blocker = u.blocker
         /\ v.fallbackAt = u.fallbackAt /\ v.exit = u.exit /\ v.state = u.state
         /\ v.authority = IF ends THEN None ELSE u.authority
         /\ v.persisted = IF drops THEN None ELSE u.persisted
         /\ v.stale = r.stale /\ v.suppressed = c.suppressed
    BY <1>6, <1>9, <1>10
  <1>14. GatesShut(u, v, agent, at)
    <2> SUFFICES ASSUME NEW s \in Sources
                 PROVE  LET gated == GatedBy(u, s, "ProcessExit") /\ AgentOf(s) = agent IN
                        /\ v.suppressed[s] = IF owner # None /\ s = owner.source
                                             THEN Gate(owner.session, at, "ProcessExit")
                                             ELSE IF gated THEN Regate(u.suppressed[s], at)
                                             ELSE u.suppressed[s]
                        /\ v.stale[s] = IF gated
                                        THEN u.stale[s] \cup ({u.suppressed[s].session}
                                                \ {None, ExitedSession(u.suppressed[s])})
                                        ELSE u.stale[s]
                        /\ AgentOf(s) # agent => v.seqs[s] = u.seqs[s]
      BY DEF GatesShut
    <2> QED BY <1>7, <1>11, <1>12, <1>13
  <1> QED BY <1>1, <1>10, <1>13, <1>14 DEF ends, drops

\* What a source's numbering is after the gates of a new process opened.
Renumbered(u, agent, s) ==
    IF s \in Full /\ AgentOf(s) = agent /\ s \notin Started(u, agent) THEN None ELSE u.seqs[s]

\* The terminal before and after the gates of the agent opened.
GatesOpen(u, v, agent) ==
    /\ \A s \in Sources :
         /\ v.suppressed[s] = IF s \in Started(u, agent) \cup Cleared(u, agent) THEN None
                              ELSE u.suppressed[s]
         /\ v.stale[s] = IF s \in Cleared(u, agent)
                         THEN u.stale[s] \cup ({u.suppressed[s].session} \ {None})
                         ELSE IF s \in Started(u, agent)
                         THEN (u.stale[s] \cup {u.suppressed[s].session})
                                 \ {None, u.suppressed[s].replacement}
                         ELSE u.stale[s]
    /\ \/ /\ Started(u, agent) = {}
          /\ v.authority = u.authority /\ v.persisted = u.persisted
          /\ \A r \in Sources : v.seqs[r] = Renumbered(u, agent, r)
       \/ \E s \in Started(u, agent) :
            /\ v.persisted = [source |-> s, session |-> u.suppressed[s].replacement]
            /\ \/ /\ v.authority = u.authority
                  /\ \A r \in Sources : v.seqs[r] = Renumbered(u, agent, r)
               \/ /\ u.suppressed[s].pending # None
                  /\ u.suppressed[s].pending.session = u.suppressed[s].replacement
                  /\ v.authority = u.suppressed[s].pending
                  /\ \A r \in Sources : v.seqs[r] = IF r = s THEN u.suppressed[s].pending.seq
                                                    ELSE Renumbered(u, agent, r)

LEMMA UngateOpens ==
    ASSUME Instance, NEW u \in Terminals, NEW previous, NEW agent,
           agent \notin {None, previous}
    PROVE  GatesOpen(u, Ungate(u, previous, agent), agent)
  <1> DEFINE v == Ungate(u, previous, agent)
             o == Opened(u, agent)
  <1>1. \A s \in Sources :
           /\ o.suppressed[s] = IF s \in Started(u, agent) \cup Cleared(u, agent) THEN None
                                ELSE u.suppressed[s]
           /\ o.stale[s] = IF s \in Cleared(u, agent)
                           THEN u.stale[s] \cup ({u.suppressed[s].session} \ {None})
                           ELSE IF s \in Started(u, agent)
                           THEN (u.stale[s] \cup {u.suppressed[s].session})
                                   \ {None, u.suppressed[s].replacement}
                           ELSE u.stale[s]
           /\ o.seqs[s] = Renumbered(u, agent, s)
    BY OpenedFields DEF Renumbered
  <1>2. v.suppressed = o.suppressed /\ v.stale = o.stale
    BY UngateFields
  <1>3. \/ /\ Started(u, agent) = {} /\ v.authority = u.authority
           /\ v.persisted = u.persisted /\ v.seqs = o.seqs
        \/ \E s \in Started(u, agent) : LET g == u.suppressed[s] IN
             /\ v.persisted = [source |-> s, session |-> g.replacement]
             /\ \/ v.authority = u.authority /\ v.seqs = o.seqs
                \/ /\ g.pending # None /\ g.pending.session = g.replacement
                   /\ v.authority = g.pending
                   /\ \A r \in Sources : v.seqs[r] = IF r = s THEN g.pending.seq ELSE o.seqs[r]
    BY UngateFields
  <1> HIDE DEF v, o
  <1>4. \A s \in Sources :
           /\ v.suppressed[s] = IF s \in Started(u, agent) \cup Cleared(u, agent) THEN None
                                ELSE u.suppressed[s]
           /\ v.stale[s] = IF s \in Cleared(u, agent)
                           THEN u.stale[s] \cup ({u.suppressed[s].session} \ {None})
                           ELSE IF s \in Started(u, agent)
                           THEN (u.stale[s] \cup {u.suppressed[s].session})
                                   \ {None, u.suppressed[s].replacement}
                           ELSE u.stale[s]
    BY <1>1, <1>2, Zenon
  <1>5. \A s \in Sources : o.seqs[s] = Renumbered(u, agent, s)
    BY <1>1
  <1>6. CASE /\ Started(u, agent) = {} /\ v.authority = u.authority
             /\ v.persisted = u.persisted /\ v.seqs = o.seqs
    BY <1>4, <1>5, <1>6, Zenon DEF GatesOpen, v
  <1>7. ASSUME NEW s \in Started(u, agent),
               v.persisted = [source |-> s, session |-> u.suppressed[s].replacement],
               \/ v.authority = u.authority /\ v.seqs = o.seqs
               \/ /\ u.suppressed[s].pending # None
                  /\ u.suppressed[s].pending.session = u.suppressed[s].replacement
                  /\ v.authority = u.suppressed[s].pending
                  /\ \A r \in Sources : v.seqs[r] = IF r = s THEN u.suppressed[s].pending.seq
                                                    ELSE o.seqs[r]
        PROVE  GatesOpen(u, v, agent)
    <2>1. \/ /\ v.authority = u.authority
             /\ \A r \in Sources : v.seqs[r] = Renumbered(u, agent, r)
          \/ /\ u.suppressed[s].pending # None
             /\ u.suppressed[s].pending.session = u.suppressed[s].replacement
             /\ v.authority = u.suppressed[s].pending
             /\ \A r \in Sources : v.seqs[r] = IF r = s THEN u.suppressed[s].pending.seq
                                               ELSE Renumbered(u, agent, r)
      BY <1>5, <1>7
    <2> QED BY <1>4, <1>7, <2>1, Zenon DEF GatesOpen
  <1> QED BY <1>3, <1>6, <1>7 DEF v

\* The agent whose process is known to be in front before an observation.
Previous(u, agent, at) == IF SeenAgain(u, agent, at) THEN None ELSE u.detected

\* Reports, sessions and gates are as they were.
Stays(u, v) ==
    /\ v.authority = u.authority /\ v.persisted = u.persisted /\ v.seqs = u.seqs
    /\ v.suppressed = u.suppressed /\ v.stale = u.stale

\* An observation is noted: for an exit the gates stay, and so they do for a
\* process that was seen before.
LEMMA NotedFields ==
    ASSUME Instance, NEW u \in Terminals, NEW agent \in Agents \cup {None},
           NEW state \in AllStates, NEW blocker \in BOOLEAN, NEW exited \in BOOLEAN,
           NEW at \in Times
    PROVE  LET v == Noted(u, agent, state, blocker, exited, at) IN
           /\ v \in Terminals /\ v.detected = agent
           /\ v.exit = IF exited /\ agent # None THEN [agent |-> agent, at |-> at]
                       ELSE IF agent # None THEN None ELSE u.exit
           /\ exited \/ agent \in {None, Previous(u, agent, at)} => Stays(u, v)
           /\ ~(exited \/ agent \in {None, Previous(u, agent, at)}) => GatesOpen(u, v, agent)
  <1> DEFINE seen == [u EXCEPT !.detected = agent]
             previous == Previous(u, agent, at)
             w == IF exited THEN seen ELSE Ungate(seen, previous, agent)
             ex == IF exited /\ agent # None THEN [agent |-> agent, at |-> at]
                   ELSE IF agent # None THEN None ELSE w.exit
             v == [w EXCEPT !.fallback = state, !.blocker = blocker /\ state = "Blocked",
                            !.fallbackAt = at, !.exit = ex]
  <1>1. Noted(u, agent, state, blocker, exited, at) = v
    <2>1. w \in Terminals
      <3>1. seen \in Terminals
        BY DEF Terminals
      <3> QED BY <3>1, UngateFields
    <2> HIDE DEF seen
    <2> QED BY <2>1 DEF Noted, Terminals, seen, Previous
  <1>2. /\ seen \in Terminals /\ seen.detected = agent
        /\ seen.authority = u.authority /\ seen.persisted = u.persisted /\ seen.seqs = u.seqs
        /\ seen.suppressed = u.suppressed /\ seen.stale = u.stale /\ seen.exit = u.exit
    BY DEF Terminals
  <1> HIDE DEF seen, previous
  <1>3. ASSUME NEW x, GatesOpen(seen, x, agent)
        PROVE  GatesOpen(u, x, agent)
    <2>1. Started(seen, agent) = Started(u, agent) /\ Cleared(seen, agent) = Cleared(u, agent)
      BY <1>2 DEF Started, Cleared, GatedBy
    <2>2. \A r \in Sources : Renumbered(seen, agent, r) = Renumbered(u, agent, r)
      BY <1>2, <2>1 DEF Renumbered
    <2>3. \A s \in Sources :
             /\ x.suppressed[s] = IF s \in Started(u, agent) \cup Cleared(u, agent) THEN None
                                  ELSE u.suppressed[s]
             /\ x.stale[s] = IF s \in Cleared(u, agent)
                             THEN u.stale[s] \cup ({u.suppressed[s].session} \ {None})
                             ELSE IF s \in Started(u, agent)
                             THEN (u.stale[s] \cup {u.suppressed[s].session})
                                     \ {None, u.suppressed[s].replacement}
                             ELSE u.stale[s]
      BY <1>2, <1>3, <2>1, Zenon DEF GatesOpen
    <2>4. CASE /\ Started(u, agent) = {} /\ x.authority = u.authority /\ x.persisted = u.persisted
               /\ \A r \in Sources : x.seqs[r] = Renumbered(seen, agent, r)
      BY <2>2, <2>3, <2>4, Zenon DEF GatesOpen
    <2>5. ASSUME NEW s \in Started(u, agent),
                 x.persisted = [source |-> s, session |-> u.suppressed[s].replacement],
                 \/ /\ x.authority = u.authority
                    /\ \A r \in Sources : x.seqs[r] = Renumbered(seen, agent, r)
                 \/ /\ u.suppressed[s].pending # None
                    /\ u.suppressed[s].pending.session = u.suppressed[s].replacement
                    /\ x.authority = u.suppressed[s].pending
                    /\ \A r \in Sources : x.seqs[r] = IF r = s THEN u.suppressed[s].pending.seq
                                                      ELSE Renumbered(seen, agent, r)
          PROVE  GatesOpen(u, x, agent)
      <3>1. \/ /\ x.authority = u.authority
               /\ \A r \in Sources : x.seqs[r] = Renumbered(u, agent, r)
            \/ /\ u.suppressed[s].pending # None
               /\ u.suppressed[s].pending.session = u.suppressed[s].replacement
               /\ x.authority = u.suppressed[s].pending
               /\ \A r \in Sources : x.seqs[r] = IF r = s THEN u.suppressed[s].pending.seq
                                                 ELSE Renumbered(u, agent, r)
        BY <2>2, <2>5
      <3> QED BY <2>3, <2>5, <3>1, Zenon DEF GatesOpen
    <2>6. \/ /\ Started(seen, agent) = {} /\ x.authority = seen.authority /\ x.persisted = seen.persisted
             /\ \A r \in Sources : x.seqs[r] = Renumbered(seen, agent, r)
          \/ \E s \in Started(seen, agent) :
               /\ x.persisted = [source |-> s, session |-> seen.suppressed[s].replacement]
               /\ \/ /\ x.authority = seen.authority
                     /\ \A r \in Sources : x.seqs[r] = Renumbered(seen, agent, r)
                  \/ /\ seen.suppressed[s].pending # None
                     /\ seen.suppressed[s].pending.session = seen.suppressed[s].replacement
                     /\ x.authority = seen.suppressed[s].pending
                     /\ \A r \in Sources :
                          x.seqs[r] = IF r = s THEN seen.suppressed[s].pending.seq
                                      ELSE Renumbered(seen, agent, r)
      BY <1>3, Zenon DEF GatesOpen
    <2> QED BY <1>2, <2>1, <2>4, <2>5, <2>6
  <1>4. /\ w \in Terminals /\ w.detected = agent /\ w.exit = u.exit
        /\ exited \/ agent \in {None, previous} => w = seen
        /\ ~(exited \/ agent \in {None, previous}) => GatesOpen(u, w, agent)
    <2>1. CASE exited
      BY <1>2, <2>1
    <2>2. CASE ~exited /\ agent \in {None, previous}
      BY <1>2, <2>2 DEF Ungate
    <2>3. CASE ~exited /\ agent \notin {None, previous}
      <3>1. w = Ungate(seen, previous, agent)
        BY <2>3
      <3>2. w \in Terminals /\ w.detected = seen.detected /\ w.exit = seen.exit
        BY <1>2, <3>1, UngateFields
      <3>3. GatesOpen(seen, w, agent)
        BY <1>2, <2>3, <3>1, UngateOpens
      <3> QED BY <1>2, <1>3, <2>3, <3>2, <3>3
    <2> QED BY <2>1, <2>2, <2>3
  <1> HIDE DEF w
  <1>5. ex \in Exits \cup {None}
    BY <1>4 DEF Exits, Terminals
  <1>6. ex = IF exited /\ agent # None THEN [agent |-> agent, at |-> at]
             ELSE IF agent # None THEN None ELSE u.exit
    BY <1>4
  <1> HIDE DEF ex
  <1>7. /\ v \in Terminals /\ v.detected = w.detected /\ v.exit = ex
        /\ v.authority = w.authority /\ v.persisted = w.persisted /\ v.seqs = w.seqs
        /\ v.suppressed = w.suppressed /\ v.stale = w.stale
    BY <1>4, <1>5 DEF Terminals
  <1> HIDE DEF v
  <1>8. GatesOpen(u, w, agent) => GatesOpen(u, v, agent)
    BY <1>7 DEF GatesOpen
  <1>9. exited \/ agent \in {None, previous} => Stays(u, v)
    BY <1>2, <1>4, <1>7 DEF Stays
  <1> QED BY <1>1, <1>4, <1>7, <1>8, <1>6, <1>9 DEF previous

LEMMA DurableFields ==
    ASSUME Instance, NEW a \in Reports
    PROVE  /\ Durable(a) \in Persisted
           /\ a.session = None => Durable(a) = None
           /\ a.session # None => /\ Durable(a) # None /\ Durable(a).source = a.source
                                  /\ Durable(a).session = a.session
  BY NoneFacts DEF Durable, Reports, Persisted

\* The authority stays, or it ends for another agent and its session stays.
LEMMA ReplaceAuthorityFields ==
    ASSUME Instance, NEW u \in Terminals, NEW previous, NEW agent, NEW at \in Times
    PROVE  LET v == ReplaceAuthority(u, previous, agent, at) IN
           \/ v = u
           \/ /\ u.authority # None /\ HookAgent(u) # agent /\ HookAgent(u) # None
              /\ v \in Terminals
              /\ v.detected = u.detected /\ v.exit = u.exit /\ v.seqs = u.seqs
              /\ v.stale = u.stale
              /\ v.authority = None /\ v.persisted = Durable(u.authority)
              /\ \A r \in Sources : v.suppressed[r] =
                   IF u.authority.source \in Full /\ u.authority.source = r
                   THEN Gate(u.authority.session, clock, "HookClear") ELSE u.suppressed[r]
  <1> DEFINE w == SuppressCurrent(u)
             v == [w EXCEPT !.authority = None, !.persisted = Durable(u.authority)]
  <1>1. CASE ReplaceAuthority(u, previous, agent, at) = u
    BY <1>1
  <1>2. CASE ReplaceAuthority(u, previous, agent, at) # u
    <2>1. /\ u.authority # None /\ HookAgent(u) # agent /\ HookAgent(u) # None
          /\ ReplaceAuthority(u, previous, agent, at) = v
      BY <1>2 DEF ReplaceAuthority, HookConflicts
    <2>2. u.authority \in Reports
      BY <2>1 DEF Terminals
    <2>3. Durable(u.authority) \in Persisted
      BY <2>2, DurableFields
    <2>4. /\ w \in Terminals
          /\ w.detected = u.detected /\ w.exit = u.exit /\ w.seqs = u.seqs /\ w.stale = u.stale
          /\ \A r \in Sources : w.suppressed[r] =
               IF u.authority # None /\ u.authority.source \in Full /\ u.authority.source = r
               THEN Gate(u.authority.session, clock, "HookClear") ELSE u.suppressed[r]
      BY SuppressCurrentFields
    <2> HIDE DEF w
    <2>5. /\ v \in Terminals
          /\ v.detected = w.detected /\ v.exit = w.exit /\ v.seqs = w.seqs /\ v.stale = w.stale
          /\ v.suppressed = w.suppressed /\ v.authority = None
          /\ v.persisted = Durable(u.authority)
      BY <2>3, <2>4 DEF Terminals
    <2> HIDE DEF v
    <2> QED BY <2>1, <2>4, <2>5
  <1> QED BY <1>1, <1>2

-----------------------------------------------------------------------------
(* The invariant of the record.                                            *)

\* What a source's gate may hold, and what is gone while it is closed.
GateFits(u, s) ==
    u.suppressed[s] # None =>
        LET g == u.suppressed[s] IN
        /\ g.replacement # None => s \in Full
        /\ g.pending # None => /\ s \in Full /\ g.reason = "ProcessExit"
                               /\ g.pending.source = s
                               /\ g.pending.session # None /\ g.pending.seq # None
        /\ g.reason = "HookClear" =>
              s \in Full /\ (u.authority = None \/ u.authority.source # s)
        /\ s \in Full /\ u.persisted # None /\ u.persisted.source = s =>
              /\ g.session \in {None, u.persisted.session}
              /\ g.reason = "HookClear" => u.detected # AgentOf(s)

GateOK(u) == \A s \in Sources : GateFits(u, s)

\* Only sources that report states have authority.
AuthorityOK(u) ==
    u.authority # None => u.authority.source \in Full \/ u.authority.source \notin Official

Well(u) == u \in Terminals /\ GateOK(u) /\ AuthorityOK(u)

-----------------------------------------------------------------------------
(* What the handlers do.                                                   *)

\* The terminal before and after a report is in force.
Taken(u, v, s, ref, state, seq) ==
    LET session == ReportSession(u, s, ref)
        frees == (session # None \/ Reanchors(u, s, ref)) /\ u.suppressed[s] # None
    IN
    /\ v.detected = u.detected /\ v.exit = u.exit /\ v.persisted = None
    /\ v.authority = [source |-> s, session |-> session, state |-> state, at |-> clock, seq |-> seq]
    /\ \A r \in Sources :
         /\ v.suppressed[r] =
              IF r = s /\ frees THEN None
              ELSE IF OwnerConflicts(u, s) /\ u.authority # None /\ u.authority.source \in Full
                        /\ u.authority.source = r
              THEN Gate(u.authority.session, clock, "HookClear") ELSE u.suppressed[r]
         /\ v.stale[r] = IF r = s /\ frees THEN u.stale[r] \cup ({u.suppressed[s].session} \ {None})
                         ELSE u.stale[r]
         /\ r # s => v.seqs[r] = u.seqs[r]
    /\ seq # None => v.seqs[s] = seq

\* The conditions under which it is.
Takes(u, s, ref) ==
    /\ s \notin IdentityOnly /\ ~AfterExit(u, s) /\ Routed(u, s, ref) /\ ~LabelConflicts(u, s)
    /\ OwnerConflicts(u, s) => ForegroundConfirms(u, s, ref)
    /\ ~AuthorityConflicts(u, s, ReportSession(u, s, ref))

LEMMA SessionsOfSources ==
    ASSUME Instance, NEW s \in Sources
    PROVE  Refs(s) \subseteq AllSessions \cup {None}
  BY SetupFacts DEF Refs

LEMMA ReportSessionType ==
    ASSUME Instance, NEW u \in Terminals, NEW s \in Sources, NEW ref \in AllSessions \cup {None}
    PROVE  ReportSession(u, s, ref) \in AllSessions \cup {None}
  <1>1. Identity(u) # None => Identity(u).session \in AllSessions
    BY DEF Identity, Terminals, Reports, Persisted
  <1> QED BY <1>1 DEF ReportSession, SameOwnerConflict

\* A source in force takes nothing over from another one.
LEMMA TakeoverFromAnother ==
    ASSUME Instance, NEW u, Well(u), NEW s \in Full \cap Sources, NEW ref, Routed(u, s, ref),
           OwnerConflicts(u, s), u.authority # None
    PROVE  u.authority.source # s
  <1> SUFFICES ASSUME u.authority.source = s
               PROVE  FALSE
    OBVIOUS
  <1>1. u.suppressed[s] = None
    BY DEF Well, GateOK, GateFits, Routed, GatedBy
  <1>2. Anchor(u, s) # None
    BY <1>1 DEF Routed, Anchored
  <1>3. Identity(u).source # s /\ Identity(u) # None
    BY DEF OwnerConflicts
  <1>4. u.authority.session = None
    BY <1>3 DEF Identity
  <1> QED BY <1>2, <1>3, <1>4 DEF Anchor, Identity

\* A report that waits at the gate changes nothing else.
LEMMA BufferFields ==
    ASSUME Instance, NEW u \in Terminals, NEW report \in Reports
    PROVE  LET v == Buffer(u, report)
               s == report.source
           IN
           /\ v \in Terminals
           /\ v.detected = u.detected /\ v.fallback = u.fallback /\ v.blocker = u.blocker
           /\ v.fallbackAt = u.fallbackAt /\ v.authority = u.authority
           /\ v.persisted = u.persisted /\ v.seqs = u.seqs
           /\ v.stale = u.stale /\ v.exit = u.exit /\ v.state = u.state
           /\ \A r \in Sources : r # s => v.suppressed[r] = u.suppressed[r]
           /\ \/ v.suppressed[s] = u.suppressed[s]
              \/ LET g == v.suppressed[s] IN
                 /\ g # None /\ g.pending = report
                 /\ u.suppressed[s] = None =>
                      /\ g.session = IF u.persisted # None /\ u.persisted.source = s
                                     THEN u.persisted.session ELSE None
                      /\ g.reason = "ProcessExit" /\ g.replacement = None
                 /\ u.suppressed[s] # None =>
                      /\ g.session = u.suppressed[s].session
                      /\ g.reason = u.suppressed[s].reason
                      /\ g.replacement = u.suppressed[s].replacement
  <1> DEFINE s == report.source
             persisted == IF u.persisted # None /\ u.persisted.source = s
                          THEN u.persisted.session ELSE None
             gate == IF u.suppressed[s] = None THEN Gate(persisted, clock, "ProcessExit")
                     ELSE u.suppressed[s]
             waiting == [gate EXCEPT !.pending = report]
             v == [u EXCEPT !.suppressed[s] = waiting]
  <1>1. CASE Buffer(u, report) = u
    BY <1>1
  <1>2. CASE Buffer(u, report) = v
    <2>1. s \in Sources /\ clock \in Times /\ persisted \in AllSessions \cup {None}
      BY DEF Reports, Instance, Terminals, Persisted
    <2> HIDE DEF s, persisted
    <2>2. /\ gate \in Gates
          /\ u.suppressed[s] = None => /\ gate.session = persisted /\ gate.reason = "ProcessExit"
                                       /\ gate.replacement = None
          /\ u.suppressed[s] # None => gate = u.suppressed[s]
      BY <2>1, GateFields, GateTypes
    <2> HIDE DEF gate
    <2>3. /\ waiting \in Gates /\ waiting.pending = report
          /\ waiting.session = gate.session /\ waiting.reason = gate.reason
          /\ waiting.replacement = gate.replacement
      BY <2>2 DEF Gates
    <2>4. waiting # None
      BY <2>3, NoneFacts
    <2> HIDE DEF waiting
    <2>5. /\ v \in Terminals
          /\ v.detected = u.detected /\ v.fallback = u.fallback /\ v.blocker = u.blocker
          /\ v.fallbackAt = u.fallbackAt /\ v.authority = u.authority
          /\ v.persisted = u.persisted /\ v.seqs = u.seqs
          /\ v.stale = u.stale /\ v.exit = u.exit /\ v.state = u.state
          /\ \A r \in Sources : v.suppressed[r] = IF r = s THEN waiting ELSE u.suppressed[r]
      BY <2>1, <2>3 DEF Terminals
    <2> HIDE DEF v
    <2> QED BY <1>2, <2>1, <2>2, <2>3, <2>4, <2>5 DEF s, persisted
  <1>3. Buffer(u, report) \in {u, v}
    BY DEF Buffer
  <1> QED BY <1>1, <1>2, <1>3

\* A state report is ignored, waits at the gate or is in force.
LEMMA HookOutcome ==
    ASSUME Instance, NEW u, Well(u), NEW s \in Sources, NEW ref \in AllSessions \cup {None},
           NEW state \in States, NEW seq \in setup.numbers \cup {None}
    PROVE  LET r == HookState(u, s, ref, state, seq)
               report == [source |-> s, session |-> ref, state |-> state, at |-> clock, seq |-> seq]
           IN
           \/ r = Quiet(u)
           \/ r = Quiet(Buffer(u, report)) /\ Buffered(u, s, ref, seq)
           \/ /\ r.term \in Terminals /\ r.term.state = StateOf(r.term)
              /\ r.told = (Identity(u) # Identity(r.term))
              /\ Taken(u, r.term, s, ref, state, seq) /\ Takes(u, s, ref)
  <1> DEFINE report == [source |-> s, session |-> ref, state |-> state, at |-> clock, seq |-> seq]
             takeover == OwnerConflicts(u, s) /\ ForegroundConfirms(u, s, ref)
             session == ReportSession(u, s, ref)
             reanchor == Reanchors(u, s, ref)
             numbered == IF reanchor THEN [u EXCEPT !.seqs[s] = None] ELSE u
             accepted == Accept(numbered, s, seq)
             displaced == IF takeover THEN SuppressCurrent(accepted) ELSE accepted
             opened == [displaced EXCEPT !.suppressed[s] = None]
             frees == (session # None \/ reanchor) /\ displaced.suppressed[s] # None
             ungated == IF frees THEN Remember(opened, s, displaced.suppressed[s].session)
                        ELSE displaced
             inforce == [report EXCEPT !.session = session]
             w == [ungated EXCEPT !.persisted = None, !.authority = inforce]
  <1> USE DEF Well
  <1>1. CASE HookState(u, s, ref, state, seq) = Quiet(u)
    BY <1>1
  <1>2. CASE /\ HookState(u, s, ref, state, seq) = Quiet(Buffer(u, report))
             /\ Buffered(u, s, ref, seq)
    BY <1>2
  <1>3. ASSUME HookState(u, s, ref, state, seq) = Done(u, w), Takes(u, s, ref)
        PROVE  LET r == HookState(u, s, ref, state, seq) IN
               /\ r.term \in Terminals /\ r.term.state = StateOf(r.term)
               /\ r.told = (Identity(u) # Identity(r.term))
               /\ Taken(u, r.term, s, ref, state, seq)
    <2>1. session \in AllSessions \cup {None} /\ clock \in Times
      BY ReportSessionType DEF Instance
    <2> HIDE DEF session, reanchor, takeover
    <2>2. /\ numbered \in Terminals
          /\ numbered.detected = u.detected /\ numbered.exit = u.exit
          /\ numbered.authority = u.authority /\ numbered.persisted = u.persisted
          /\ numbered.suppressed = u.suppressed /\ numbered.stale = u.stale
          /\ \A r \in Sources : r # s => numbered.seqs[r] = u.seqs[r]
      BY DEF Terminals
    <2> HIDE DEF numbered
    <2>3. /\ accepted \in Terminals
          /\ accepted.detected = u.detected /\ accepted.exit = u.exit
          /\ accepted.authority = u.authority /\ accepted.persisted = u.persisted
          /\ accepted.suppressed = u.suppressed /\ accepted.stale = u.stale
          /\ \A r \in Sources : r # s => accepted.seqs[r] = u.seqs[r]
          /\ seq # None => accepted.seqs[s] = seq
      <3>1. /\ accepted \in Terminals
            /\ accepted.detected = numbered.detected /\ accepted.exit = numbered.exit
            /\ accepted.authority = numbered.authority
            /\ accepted.persisted = numbered.persisted
            /\ accepted.suppressed = numbered.suppressed /\ accepted.stale = numbered.stale
            /\ \A r \in Sources : accepted.seqs[r] = IF r = s /\ seq # None THEN seq
                                                     ELSE numbered.seqs[r]
        BY <2>2, AcceptFields
      <3> HIDE DEF accepted
      <3> QED BY <2>2, <3>1
    <2> HIDE DEF accepted
    <2>4. /\ displaced \in Terminals
          /\ displaced.detected = u.detected /\ displaced.exit = u.exit
          /\ displaced.stale = u.stale /\ displaced.seqs = accepted.seqs
          /\ \A r \in Sources : displaced.suppressed[r] =
               IF takeover /\ u.authority # None /\ u.authority.source \in Full
                    /\ u.authority.source = r
               THEN Gate(u.authority.session, clock, "HookClear") ELSE u.suppressed[r]
      <3>1. CASE takeover
        <4>1. displaced = SuppressCurrent(accepted)
          BY <3>1
        <4> HIDE DEF displaced
        <4> QED BY <2>3, <3>1, <4>1, SuppressCurrentFields
      <3>2. CASE ~takeover
        BY <2>3, <3>2
      <3> QED BY <3>1, <3>2
    <2> HIDE DEF displaced
    <2>5. OwnerConflicts(u, s) <=> takeover
      BY <1>3 DEF Takes, takeover
    <2>6. displaced.suppressed[s] = u.suppressed[s]
      <3>1. CASE s \in Full
        <4>1. takeover /\ u.authority # None => u.authority.source # s
          BY <1>3, <2>5, <3>1, TakeoverFromAnother DEF Takes
        <4> QED BY <2>4, <4>1
      <3>2. CASE s \notin Full
        BY <2>4, <3>2
      <3> QED BY <3>1, <3>2
    <2>7. /\ ungated \in Terminals
          /\ ungated.detected = u.detected /\ ungated.exit = u.exit
          /\ ungated.seqs = accepted.seqs
          /\ \A r \in Sources :
               /\ ungated.suppressed[r] = IF r = s /\ frees THEN None ELSE displaced.suppressed[r]
               /\ ungated.stale[r] = IF r = s /\ frees
                                     THEN u.stale[r] \cup ({u.suppressed[s].session} \ {None})
                                     ELSE u.stale[r]
      <3>1. CASE frees
        <4>1. /\ opened \in Terminals
              /\ opened.detected = displaced.detected /\ opened.exit = displaced.exit
              /\ opened.seqs = displaced.seqs /\ opened.stale = displaced.stale
              /\ \A r \in Sources : opened.suppressed[r] =
                                      IF r = s THEN None ELSE displaced.suppressed[r]
          BY <2>4 DEF Terminals
        <4>2. u.suppressed[s].session \in AllSessions \cup {None}
          BY <2>6, <3>1, GateTypes
        <4>3. ungated = Remember(opened, s, u.suppressed[s].session)
          BY <2>6, <3>1
        <4> HIDE DEF opened, ungated
        <4>4. LET x == Remember(opened, s, u.suppressed[s].session) IN
              /\ x \in Terminals
              /\ x.detected = opened.detected /\ x.exit = opened.exit
              /\ x.suppressed = opened.suppressed /\ x.seqs = opened.seqs
              /\ x.stale[s] = opened.stale[s] \cup ({u.suppressed[s].session} \ {None})
              /\ \A r \in Sources : r # s => x.stale[r] = opened.stale[r]
          BY <4>1, <4>2, RememberFields
        <4>5. /\ ungated \in Terminals
              /\ ungated.detected = u.detected /\ ungated.exit = u.exit
              /\ ungated.seqs = accepted.seqs
          BY <2>4, <4>1, <4>3, <4>4
        <4>6. ASSUME NEW r \in Sources
              PROVE  /\ ungated.suppressed[r] = IF r = s THEN None ELSE displaced.suppressed[r]
                     /\ ungated.stale[r] = IF r = s
                                           THEN u.stale[r] \cup ({u.suppressed[s].session} \ {None})
                                           ELSE u.stale[r]
          <5>1. opened.stale[r] = u.stale[r]
            BY <2>4, <4>1
          <5>2. /\ ungated.suppressed[r] = opened.suppressed[r]
                /\ r = s => ungated.stale[r] = opened.stale[r] \cup ({u.suppressed[s].session} \ {None})
                /\ r # s => ungated.stale[r] = opened.stale[r]
            BY <4>3, <4>4
          <5> QED BY <4>1, <5>1, <5>2
        <4> HIDE DEF frees
        <4> QED BY <3>1, <4>5, <4>6
      <3>2. CASE ~frees
        BY <2>4, <3>2
      <3> QED BY <3>1, <3>2
    <2>8. frees <=> (session # None \/ reanchor) /\ u.suppressed[s] # None
      BY <2>6
    <2> HIDE DEF ungated, frees
    <2>9. inforce = [report EXCEPT !.session = session] /\ inforce \in Reports
      BY <2>1 DEF Reports
    <2>10. inforce = [source |-> s, session |-> session, state |-> state, at |-> clock,
                      seq |-> seq]
      OBVIOUS
    <2> HIDE DEF inforce, report
    <2>11. /\ w \in Terminals /\ w.detected = u.detected /\ w.exit = u.exit
           /\ w.persisted = None /\ w.authority = inforce /\ w.seqs = accepted.seqs
           /\ w.suppressed = ungated.suppressed /\ w.stale = ungated.stale
      BY <2>7, <2>9 DEF Terminals, Persisted
    <2> HIDE DEF w
    <2> DEFINE v == Recompute(w)
    <2>12. /\ v \in Terminals /\ v.state = StateOf(v) /\ Identity(v) = Identity(w)
           /\ v.detected = w.detected /\ v.exit = w.exit /\ v.persisted = w.persisted
           /\ v.authority = w.authority /\ v.seqs = w.seqs
           /\ v.suppressed = w.suppressed /\ v.stale = w.stale
      BY <2>11, RecomputeFields
    <2>13. /\ HookState(u, s, ref, state, seq).term = v
           /\ HookState(u, s, ref, state, seq).told = (Identity(u) # Identity(w))
      BY <1>3 DEF Done
    <2> HIDE DEF v
    <2>14. \A r \in Sources :
             /\ v.suppressed[r] =
                  IF r = s /\ frees THEN None
                  ELSE IF takeover /\ u.authority # None /\ u.authority.source \in Full
                            /\ u.authority.source = r
                  THEN Gate(u.authority.session, clock, "HookClear") ELSE u.suppressed[r]
             /\ v.stale[r] = IF r = s /\ frees
                             THEN u.stale[r] \cup ({u.suppressed[s].session} \ {None})
                             ELSE u.stale[r]
             /\ r # s => v.seqs[r] = u.seqs[r]
      BY <2>3, <2>4, <2>7, <2>11, <2>12
    <2>15. Taken(u, v, s, ref, state, seq)
      BY <2>3, <2>5, <2>8, <2>10, <2>11, <2>12, <2>14 DEF Taken, session, reanchor
    <2> QED BY <2>12, <2>13, <2>15
  <1>4. \/ HookState(u, s, ref, state, seq) = Quiet(u)
        \/ /\ HookState(u, s, ref, state, seq) = Quiet(Buffer(u, report))
           /\ Buffered(u, s, ref, seq)
        \/ HookState(u, s, ref, state, seq) = Done(u, w) /\ Takes(u, s, ref)
    <2> HIDE DEF w, report
    <2>1. CASE s \in IdentityOnly \/ AfterExit(u, s)
      BY <2>1 DEF HookState
    <2>2. CASE ~(s \in IdentityOnly \/ AfterExit(u, s)) /\ ~Routed(u, s, ref)
      BY <2>2 DEF HookState, report
    <2>3. CASE ~(s \in IdentityOnly \/ AfterExit(u, s)) /\ Routed(u, s, ref)
      BY <2>3 DEF HookState, w, report, Takes
    <2> QED BY <2>1, <2>2, <2>3
  <1> QED BY <1>1, <1>2, <1>3, <1>4

\* A result is a terminal whose state agrees with it as before, and tells of a
\* changed session.
Settled(u, r) ==
    /\ r.term \in Terminals
    /\ u.state = StateOf(u) => r.term.state = StateOf(r.term)
    /\ ~r.told => Identity(r.term) = Identity(u)

\* A source's number is no earlier than it was.
Grown(u, v, r) == u.seqs[r] # None => v.seqs[r] # None /\ v.seqs[r] >= u.seqs[r]

\* Nothing but a number changes.
Kept(u, v) ==
    /\ v.detected = u.detected /\ v.exit = u.exit /\ v.authority = u.authority
    /\ v.persisted = u.persisted /\ v.suppressed = u.suppressed /\ v.stale = u.stale
    /\ \A r \in Sources : Grown(u, v, r)

\* A report waits at the source's gate.
Waiting(u, v, s, ref, seq) ==
    /\ v.detected = u.detected /\ v.exit = u.exit /\ v.authority = u.authority
    /\ v.persisted = u.persisted /\ v.seqs = u.seqs /\ v.stale = u.stale
    /\ s \in Full /\ ref # None /\ seq # None
    /\ \A r \in Sources : r # s => v.suppressed[r] = u.suppressed[r]
    /\ LET g == v.suppressed[s] IN
       /\ g # None /\ g.reason = "ProcessExit"
       /\ g.pending # None /\ g.pending.source = s /\ g.pending.session = ref
       /\ g.pending.at = clock /\ g.pending.seq = seq
       /\ u.suppressed[s] = None =>
            /\ g.session = IF u.persisted # None /\ u.persisted.source = s
                           THEN u.persisted.session ELSE None
            /\ g.replacement = None
       /\ u.suppressed[s] # None =>
            /\ g.session = u.suppressed[s].session
            /\ g.replacement = u.suppressed[s].replacement

\* A session waits at the source's gate.
Announces(u, v, s, ref) ==
    /\ v.detected = u.detected /\ v.exit = u.exit /\ v.authority = u.authority
    /\ v.persisted = u.persisted /\ v.stale = u.stale
    /\ s \in Full /\ ref # None
    /\ \A r \in Sources : r # s => v.suppressed[r] = u.suppressed[r]
    /\ \A r \in Sources : Grown(u, v, r)
    /\ LET g == v.suppressed[s] IN
       /\ g # None /\ g.replacement = ref
       /\ u.suppressed[s] = None =>
            g.session = None /\ g.reason = "ProcessExit" /\ g.pending = None
       /\ u.suppressed[s] # None =>
            /\ g.session = u.suppressed[s].session /\ g.reason = u.suppressed[s].reason
            /\ g.pending \in {None, u.suppressed[s].pending}

\* A session is on record for the source.
Recorded(u, v, s, ref, start) ==
    LET takeover == OwnerConflicts(u, s)
        replaced == /\ s \in Full /\ u.authority # None /\ u.authority.source = s
                    /\ u.authority.session \notin {None, ref}
        stale == IF start \in Replacing[s] \/ takeover THEN u.stale[s] \ {ref} ELSE u.stale[s]
    IN
    /\ v.detected = u.detected /\ v.exit = u.exit /\ ref # None
    /\ v.persisted = [source |-> s, session |-> ref]
    /\ v.authority = IF replaced \/ takeover THEN None ELSE u.authority
    /\ \A r \in Sources : v.suppressed[r] =
         IF takeover /\ u.authority # None /\ u.authority.source \in Full
              /\ u.authority.source = r
         THEN Gate(u.authority.session, clock, "HookClear") ELSE u.suppressed[r]
    /\ \A r \in Sources : r # s => v.stale[r] = u.stale[r]
    /\ v.stale[s] = IF replaced THEN stale \cup {u.authority.session} ELSE stale
    /\ \A r \in Sources : Grown(u, v, r)

\* The conditions under which it is.
Records(u, s, ref, start) ==
    /\ s \in Full => /\ ProcessPresent(u, AgentOf(s)) /\ ~GatedBy(u, s, "ProcessExit")
                     /\ Anchor(u, s) # None
    /\ OwnerConflicts(u, s) => ForegroundConfirms(u, s, ref)

LEMMA GrownNumbers ==
    ASSUME Instance, NEW u \in Terminals
    PROVE  /\ \A r \in Sources : u.seqs[r] \in Nat \cup {None}
           /\ \A v \in Terminals : v.seqs = u.seqs => \A r \in Sources : Grown(u, v, r)
  <1>1. \A r \in Sources : u.seqs[r] \in Nat \cup {None}
    <2>1. setup.numbers \subseteq Nat \cup {None}
      BY SetupFacts
    <2>2. \A r \in Sources : u.seqs[r] \in setup.numbers \cup {None}
      BY DEF Terminals
    <2> QED BY <2>1, <2>2
  <1>2. ASSUME NEW v \in Terminals, v.seqs = u.seqs, NEW r \in Sources
        PROVE  Grown(u, v, r)
    <2>1. u.seqs[r] # None => u.seqs[r] >= u.seqs[r]
      BY <1>1
    <2> QED BY <1>2, <2>1 DEF Grown
  <1> QED BY <1>1, <1>2

LEMMA AcceptedNumbers ==
    ASSUME Instance, NEW u \in Terminals, NEW s \in Sources, NEW seq \in setup.numbers \cup {None},
           Acceptable(u, s, seq)
    PROVE  \A r \in Sources : Grown(u, Accept(u, s, seq), r)
  <1> SUFFICES ASSUME NEW r \in Sources
               PROVE  Grown(u, Accept(u, s, seq), r)
    OBVIOUS
  <1>1. Accept(u, s, seq).seqs[r] = IF r = s /\ seq # None THEN seq ELSE u.seqs[r]
    BY AcceptFields
  <1>2. u.seqs[r] \in Nat \cup {None} /\ seq \in Nat \cup {None}
    BY GrownNumbers, SetupFacts
  <1>3. r = s /\ seq # None /\ u.seqs[r] # None => seq >= u.seqs[r]
    BY <1>2 DEF Acceptable, NewSeq
  <1>4. u.seqs[r] # None => u.seqs[r] >= u.seqs[r]
    BY <1>2
  <1> QED BY <1>1, <1>3, <1>4 DEF Grown

\* The state shown depends on these fields.
LEMMA StateFields ==
    ASSUME NEW u, NEW v,
           v.detected = u.detected, v.fallback = u.fallback, v.blocker = u.blocker,
           v.fallbackAt = u.fallbackAt, v.authority = u.authority, v.exit = u.exit
    PROVE  StateOf(v) = StateOf(u)
  BY DEF StateOf, VisibleBlockerOverridesHook, Live, Effective, ProcessPresent,
         FallbackNotOlderThanHook

LEMMA HookResult ==
    ASSUME Instance, NEW u, Well(u), NEW s \in Sources, NEW ref \in AllSessions \cup {None},
           NEW state \in States, NEW seq \in setup.numbers \cup {None}
    PROVE  LET r == HookState(u, s, ref, state, seq) IN
           /\ Settled(u, r)
           /\ \/ Kept(u, r.term)
              \/ Waiting(u, r.term, s, ref, seq)
              \/ Taken(u, r.term, s, ref, state, seq) /\ Takes(u, s, ref)
  <1> DEFINE r == HookState(u, s, ref, state, seq)
             report == [source |-> s, session |-> ref, state |-> state, at |-> clock, seq |-> seq]
             b == Buffer(u, report)
  <1> SUFFICES /\ Settled(u, r)
               /\ \/ Kept(u, r.term)
                  \/ Waiting(u, r.term, s, ref, seq)
                  \/ Taken(u, r.term, s, ref, state, seq) /\ Takes(u, s, ref)
    OBVIOUS
  <1> USE DEF Well
  <1>1. \/ r = Quiet(u)
        \/ r = Quiet(b) /\ Buffered(u, s, ref, seq)
        \/ /\ r.term \in Terminals /\ r.term.state = StateOf(r.term)
           /\ r.told = (Identity(u) # Identity(r.term))
           /\ Taken(u, r.term, s, ref, state, seq) /\ Takes(u, s, ref)
    BY HookOutcome
  <1>2. \A r1 \in Sources : Grown(u, u, r1)
    BY GrownNumbers
  <1> HIDE DEF r
  <1>3. CASE r = Quiet(u)
    <2>1. r.term = u
      BY <1>3 DEF Quiet
    <2> QED BY <1>2, <2>1 DEF Settled, Kept
  <1>4. CASE r = Quiet(b) /\ Buffered(u, s, ref, seq)
    <2>1. report \in Reports
      BY DEF Reports, Instance
    <2>2. report.source = s /\ report.session = ref /\ report.at = clock /\ report.seq = seq
      OBVIOUS
    <2> HIDE DEF report
    <2>3. /\ b \in Terminals
          /\ b.detected = u.detected /\ b.fallback = u.fallback /\ b.blocker = u.blocker
          /\ b.fallbackAt = u.fallbackAt /\ b.authority = u.authority
          /\ b.persisted = u.persisted /\ b.seqs = u.seqs
          /\ b.stale = u.stale /\ b.exit = u.exit /\ b.state = u.state
          /\ \A x \in Sources : x # s => b.suppressed[x] = u.suppressed[x]
      BY <2>1, <2>2, BufferFields
    <2>4. \/ b.suppressed[s] = u.suppressed[s]
          \/ LET g == b.suppressed[s] IN
             /\ g # None /\ g.pending = report
             /\ u.suppressed[s] = None =>
                  /\ g.session = IF u.persisted # None /\ u.persisted.source = s
                                 THEN u.persisted.session ELSE None
                  /\ g.reason = "ProcessExit" /\ g.replacement = None
             /\ u.suppressed[s] # None =>
                  /\ g.session = u.suppressed[s].session
                  /\ g.reason = u.suppressed[s].reason
                  /\ g.replacement = u.suppressed[s].replacement
      BY <2>1, <2>2, BufferFields
    <2> HIDE DEF b
    <2>5. Settled(u, r)
      <3>1. StateOf(b) = StateOf(u)
        BY <2>3, StateFields
      <3>2. Identity(b) = Identity(u)
        BY <2>3 DEF Identity
      <3> QED BY <1>4, <2>3, <3>1, <3>2 DEF Settled, Quiet
    <2>6. s \in Full /\ ref # None /\ seq # None
             /\ (u.suppressed[s] # None => u.suppressed[s].reason = "ProcessExit")
      BY <1>4, GateTypes DEF Buffered, GatedBy
    <2>7. CASE b.suppressed[s] = u.suppressed[s]
      <3>1. b.suppressed = u.suppressed
        BY <2>3, <2>7 DEF Terminals
      <3>2. \A x \in Sources : Grown(u, b, x)
        BY <2>3, GrownNumbers
      <3>3. Kept(u, b)
        BY <2>3, <3>1, <3>2 DEF Kept
      <3> QED BY <1>4, <2>5, <3>3 DEF Quiet
    <2>8. CASE b.suppressed[s] # u.suppressed[s]
      <3>1. report # None
        BY <2>1, NoneFacts
      <3> DEFINE g == b.suppressed[s]
      <3>2. g # None /\ g.pending = report
        BY <2>4, <2>8
      <3>3. u.suppressed[s] = None =>
              /\ g.session = IF u.persisted # None /\ u.persisted.source = s
                             THEN u.persisted.session ELSE None
              /\ g.reason = "ProcessExit" /\ g.replacement = None
        BY <2>4, <2>8
      <3>4. u.suppressed[s] # None =>
              /\ g.session = u.suppressed[s].session /\ g.reason = u.suppressed[s].reason
              /\ g.replacement = u.suppressed[s].replacement
        BY <2>4, <2>8
      <3>5. Waiting(u, b, s, ref, seq)
        BY <2>2, <2>3, <2>6, <3>1, <3>2, <3>3, <3>4 DEF Waiting
      <3> QED BY <1>4, <2>5, <3>5 DEF Quiet
    <2> QED BY <2>7, <2>8
  <1>5. CASE /\ r.term \in Terminals /\ r.term.state = StateOf(r.term)
             /\ r.told = (Identity(u) # Identity(r.term))
             /\ Taken(u, r.term, s, ref, state, seq) /\ Takes(u, s, ref)
    BY <1>5 DEF Settled
  <1> QED BY <1>1, <1>3, <1>4, <1>5 DEF r

\* A handler's result that may tell of a changed session.
LEMMA DoneSettled ==
    ASSUME Instance, NEW u, NEW w \in Terminals
    PROVE  LET r == Done(u, w) IN
           /\ Settled(u, r)
           /\ r.term.detected = w.detected /\ r.term.exit = w.exit
           /\ r.term.authority = w.authority /\ r.term.persisted = w.persisted
           /\ r.term.seqs = w.seqs /\ r.term.suppressed = w.suppressed
           /\ r.term.stale = w.stale
  <1> DEFINE v == Recompute(w)
             r == Done(u, w)
  <1>1. /\ v \in Terminals /\ v.state = StateOf(v) /\ Identity(v) = Identity(w)
        /\ v.detected = w.detected /\ v.exit = w.exit
        /\ v.authority = w.authority /\ v.persisted = w.persisted
        /\ v.seqs = w.seqs /\ v.suppressed = w.suppressed /\ v.stale = w.stale
    BY RecomputeFields
  <1>2. r.term = v /\ r.told = (Identity(u) # Identity(w))
    BY DEF Done
  <1> HIDE DEF r, v
  <1>3. Settled(u, r)
    BY <1>1, <1>2 DEF Settled
  <1>4. /\ Settled(u, r)
        /\ r.term.detected = w.detected /\ r.term.exit = w.exit
        /\ r.term.authority = w.authority /\ r.term.persisted = w.persisted
        /\ r.term.seqs = w.seqs /\ r.term.suppressed = w.suppressed
        /\ r.term.stale = w.stale
    BY <1>1, <1>2, <1>3
  <1> QED BY <1>4 DEF r

\* A handler's result that tells nothing.
LEMMA QuietSettled ==
    ASSUME NEW u, NEW w \in Terminals,
           w.detected = u.detected, w.fallback = u.fallback, w.blocker = u.blocker,
           w.fallbackAt = u.fallbackAt, w.authority = u.authority, w.exit = u.exit,
           w.persisted = u.persisted, w.state = u.state
    PROVE  Settled(u, Quiet(w)) /\ Quiet(w).term = w
  <1>1. StateOf(w) = StateOf(u)
    BY StateFields
  <1>2. Identity(w) = Identity(u)
    BY DEF Identity
  <1> QED BY <1>1, <1>2 DEF Settled, Quiet

LEMMA AcceptedKept ==
    ASSUME Instance, NEW u \in Terminals, NEW s \in Sources, NEW seq \in setup.numbers \cup {None},
           Acceptable(u, s, seq)
    PROVE  LET v == Accept(u, s, seq) IN
           /\ v \in Terminals /\ Kept(u, v)
           /\ Settled(u, Quiet(v)) /\ Quiet(v).term = v
  <1> DEFINE v == Accept(u, s, seq)
  <1>1. /\ v \in Terminals
        /\ v.detected = u.detected /\ v.fallback = u.fallback /\ v.blocker = u.blocker
        /\ v.fallbackAt = u.fallbackAt /\ v.authority = u.authority
        /\ v.persisted = u.persisted /\ v.suppressed = u.suppressed
        /\ v.stale = u.stale /\ v.exit = u.exit /\ v.state = u.state
    BY AcceptFields
  <1>2. \A r \in Sources : Grown(u, v, r)
    BY AcceptedNumbers
  <1> HIDE DEF v
  <1>3. Kept(u, v)
    BY <1>1, <1>2 DEF Kept
  <1>4. Settled(u, Quiet(v)) /\ Quiet(v).term = v
    BY <1>1, QuietSettled
  <1> QED BY <1>1, <1>3, <1>4 DEF v

LEMMA UnchangedKept ==
    ASSUME Instance, NEW u \in Terminals
    PROVE  Kept(u, u) /\ Settled(u, Quiet(u)) /\ Quiet(u).term = u
  <1>1. Kept(u, u)
    BY GrownNumbers DEF Kept
  <1> QED BY <1>1, QuietSettled

\* A session start that waits at the gate, or that opens it.
LEMMA StartResult ==
    ASSUME Instance, NEW u \in Terminals, NEW s \in Sources \cap Full, NEW ref \in AllSessions,
           NEW seq \in setup.numbers, Acceptable(u, s, seq)
    PROVE  LET r == StartSession(u, s, ref, seq) IN
           /\ Settled(u, r)
           /\ \/ Announces(u, r.term, s, ref)
              \/ /\ ProcessPresent(u, AgentOf(s)) /\ r.term.detected = u.detected
                 /\ r.term.exit = u.exit
                 /\ \E w \in Terminals : Announces(u, w, s, ref)
                                           /\ GatesOpen(w, r.term, AgentOf(s))
  <1> DEFINE r == StartSession(u, s, ref, seq)
             gate == IF u.suppressed[s] = None THEN Gate(None, clock, "ProcessExit")
                     ELSE u.suppressed[s]
             kept == IF gate.pending # None /\ gate.pending.session # ref THEN None
                     ELSE gate.pending
             next == IF gate.replacement = ref THEN gate
                     ELSE [gate EXCEPT !.replacement = ref, !.pending = kept]
             taken == Accept(u, s, seq)
             w == [taken EXCEPT !.suppressed[s] = next]
             v == Ungate(w, None, AgentOf(s))
  <1> SUFFICES /\ Settled(u, r)
               /\ \/ Announces(u, r.term, s, ref)
                  \/ /\ ProcessPresent(u, AgentOf(s)) /\ r.term.detected = u.detected
                     /\ r.term.exit = u.exit
                     /\ \E x \in Terminals : Announces(u, x, s, ref)
                                               /\ GatesOpen(x, r.term, AgentOf(s))
    OBVIOUS
  <1>1. r = IF ProcessPresent(u, AgentOf(s)) THEN Done(u, v) ELSE Quiet(w)
    BY DEF StartSession
  <1> HIDE DEF r
  <1>2. /\ gate \in Gates
        /\ u.suppressed[s] = None => /\ gate.session = None /\ gate.reason = "ProcessExit"
                                     /\ gate.pending = None
        /\ u.suppressed[s] # None => gate = u.suppressed[s]
    BY GateFields, GateTypes DEF Instance
  <1> HIDE DEF gate
  <1>3. kept \in {None, gate.pending}
    OBVIOUS
  <1> HIDE DEF kept
  <1>4. /\ next \in Gates /\ next.replacement = ref
        /\ next.session = gate.session /\ next.reason = gate.reason
        /\ next.pending \in {None, gate.pending}
    BY <1>2, <1>3 DEF Gates
  <1>5. next # None
    BY <1>4, NoneFacts
  <1> HIDE DEF next
  <1>6. /\ taken \in Terminals
        /\ taken.detected = u.detected /\ taken.fallback = u.fallback /\ taken.blocker = u.blocker
        /\ taken.fallbackAt = u.fallbackAt /\ taken.authority = u.authority
        /\ taken.persisted = u.persisted /\ taken.suppressed = u.suppressed
        /\ taken.stale = u.stale /\ taken.exit = u.exit /\ taken.state = u.state
    BY AcceptFields
  <1>7. \A x \in Sources : Grown(u, taken, x)
    BY AcceptedNumbers
  <1> HIDE DEF taken
  <1>8. /\ w \in Terminals
        /\ w.detected = taken.detected /\ w.fallback = taken.fallback
        /\ w.blocker = taken.blocker /\ w.fallbackAt = taken.fallbackAt
        /\ w.authority = taken.authority /\ w.persisted = taken.persisted
        /\ w.stale = taken.stale /\ w.exit = taken.exit /\ w.state = taken.state
        /\ w.seqs = taken.seqs
        /\ \A x \in Sources : w.suppressed[x] = IF x = s THEN next ELSE taken.suppressed[x]
    BY <1>4, <1>6 DEF Terminals
  <1> HIDE DEF w
  <1>9. /\ w.detected = u.detected /\ w.fallback = u.fallback /\ w.blocker = u.blocker
        /\ w.fallbackAt = u.fallbackAt /\ w.authority = u.authority
        /\ w.persisted = u.persisted /\ w.stale = u.stale /\ w.exit = u.exit
        /\ w.state = u.state
    BY <1>6, <1>8
  <1>10. Announces(u, w, s, ref)
    <2>1. \A x \in Sources : Grown(u, w, x)
      BY <1>7, <1>8 DEF Grown
    <2>2. \A x \in Sources : x # s => w.suppressed[x] = u.suppressed[x]
      BY <1>6, <1>8
    <2>3. w.suppressed[s] = next
      BY <1>8
    <2>4. ref # None
      BY SourceFacts
    <2> QED BY <1>2, <1>4, <1>5, <1>9, <2>1, <2>2, <2>3, <2>4 DEF Announces
  <1>11. CASE ~ProcessPresent(u, AgentOf(s))
    <2>1. r = Quiet(w)
      BY <1>1, <1>11
    <2> QED BY <1>8, <1>9, <1>10, <2>1, QuietSettled
  <1>12. CASE ProcessPresent(u, AgentOf(s))
    <2>1. r = Done(u, v)
      BY <1>1, <1>12
    <2>2. AgentOf(s) # None
      BY <1>12 DEF ProcessPresent
    <2>3. v \in Terminals /\ v.detected = w.detected /\ v.exit = w.exit
      BY <1>8, UngateFields
    <2>4. GatesOpen(w, v, AgentOf(s))
      BY <1>8, <2>2, UngateOpens
    <2> HIDE DEF v
    <2>5. Settled(u, Done(u, v))
      BY <2>3, DoneSettled
    <2>6. LET x == Done(u, v).term IN
          /\ x.detected = v.detected /\ x.exit = v.exit
          /\ x.authority = v.authority /\ x.persisted = v.persisted
          /\ x.seqs = v.seqs /\ x.suppressed = v.suppressed /\ x.stale = v.stale
      BY <2>3, DoneSettled
    <2>7. GatesOpen(w, r.term, AgentOf(s))
      <3> DEFINE x == Done(u, v).term
      <3> HIDE DEF x
      <3>1. /\ x.authority = v.authority /\ x.persisted = v.persisted /\ x.seqs = v.seqs
            /\ x.suppressed = v.suppressed /\ x.stale = v.stale
        BY <2>6 DEF x
      <3>2. GatesOpen(w, x, AgentOf(s))
        BY <2>4, <3>1 DEF GatesOpen
      <3> QED BY <2>1, <3>2 DEF x
    <2> QED BY <1>8, <1>9, <1>10, <1>12, <2>1, <2>3, <2>5, <2>6, <2>7
  <1> QED BY <1>11, <1>12

\* A session report that is taken puts its session on record.
LEMMA RecordFields ==
    ASSUME Instance, NEW u \in Terminals, NEW s \in Sources, NEW ref \in AllSessions,
           NEW seq \in setup.numbers \cup {None}, NEW start, Acceptable(u, s, seq),
           NEW takeover, takeover <=> OwnerConflicts(u, s), NEW replaced,
           replaced <=> /\ s \in Full /\ u.authority # None /\ u.authority.source = s
                        /\ u.authority.session \notin {None, ref}
    PROVE  LET taken == Accept(u, s, seq)
               known == IF start \in Replacing[s] \/ takeover THEN Forget(taken, s, ref)
                        ELSE taken
               cleared == IF replaced
                          THEN [Remember(known, s, u.authority.session) EXCEPT !.authority = None]
                          ELSE IF takeover
                          THEN [SuppressCurrent(known) EXCEPT !.authority = None]
                          ELSE known
               w == [cleared EXCEPT !.persisted = [source |-> s, session |-> ref]]
           IN
           w \in Terminals /\ Recorded(u, w, s, ref, start)
  <1> DEFINE taken == Accept(u, s, seq)
             known == IF start \in Replacing[s] \/ takeover THEN Forget(taken, s, ref)
                      ELSE taken
             remembered == Remember(known, s, u.authority.session)
             shut == SuppressCurrent(known)
             cleared == IF replaced THEN [remembered EXCEPT !.authority = None]
                        ELSE IF takeover THEN [shut EXCEPT !.authority = None]
                        ELSE known
             w == [cleared EXCEPT !.persisted = [source |-> s, session |-> ref]]
             stale == IF start \in Replacing[s] \/ takeover THEN u.stale[s] \ {ref}
                      ELSE u.stale[s]
  <1> SUFFICES w \in Terminals /\ Recorded(u, w, s, ref, start)
    OBVIOUS
  <1>1. /\ taken \in Terminals
        /\ taken.detected = u.detected /\ taken.authority = u.authority
        /\ taken.persisted = u.persisted /\ taken.suppressed = u.suppressed
        /\ taken.stale = u.stale /\ taken.exit = u.exit
    BY AcceptFields
  <1>2. \A x \in Sources : Grown(u, taken, x)
    BY AcceptedNumbers
  <1> HIDE DEF taken
  <1>3. /\ known \in Terminals
        /\ known.detected = u.detected /\ known.authority = u.authority
        /\ known.persisted = u.persisted /\ known.suppressed = u.suppressed
        /\ known.exit = u.exit /\ known.seqs = taken.seqs
        /\ \A r \in Sources : r # s => known.stale[r] = u.stale[r]
        /\ known.stale[s] = stale
    <2>1. CASE start \in Replacing[s] \/ takeover
      <3>1. known = Forget(taken, s, ref) /\ stale = u.stale[s] \ {ref}
        BY <2>1
      <3> HIDE DEF known, stale
      <3> QED BY <1>1, <3>1, ForgetFields
    <2>2. CASE ~(start \in Replacing[s] \/ takeover)
      <3>1. known = taken /\ stale = u.stale[s]
        BY <2>2
      <3> HIDE DEF known, stale
      <3> QED BY <1>1, <3>1
    <2> QED BY <2>1, <2>2
  <1> HIDE DEF known, stale
  <1>4. \/ ~replaced /\ ~takeover
        \/ replaced /\ ~takeover
        \/ takeover /\ ~replaced
    BY DEF OwnerConflicts, Identity
  <1>5. /\ cleared \in Terminals
        /\ cleared.detected = u.detected /\ cleared.exit = u.exit /\ cleared.seqs = taken.seqs
        /\ cleared.authority = IF replaced \/ takeover THEN None ELSE u.authority
        /\ \A r \in Sources : cleared.suppressed[r] =
             IF takeover /\ u.authority # None /\ u.authority.source \in Full
                  /\ u.authority.source = r
             THEN Gate(u.authority.session, clock, "HookClear") ELSE u.suppressed[r]
        /\ \A r \in Sources : r # s => cleared.stale[r] = u.stale[r]
        /\ cleared.stale[s] = IF replaced THEN stale \cup {u.authority.session} ELSE stale
    <2>1. CASE ~replaced /\ ~takeover
      <3>1. cleared = known
        BY <2>1
      <3> HIDE DEF cleared
      <3> QED BY <1>3, <2>1, <3>1
    <2>2. CASE replaced /\ ~takeover
      <3>1. cleared = [remembered EXCEPT !.authority = None]
        BY <2>2
      <3>2. u.authority.session \in AllSessions
        BY <2>2 DEF Terminals, Reports
      <3> DEFINE y == u.authority.session
      <3> HIDE DEF y
      <3>3. y \in AllSessions /\ y # None
        BY <3>2, SourceFacts DEF y
      <3>4. remembered = Remember(known, s, y)
        BY DEF y
      <3> HIDE DEF remembered, cleared
      <3>5. known \in Terminals
        BY <1>3
      <3>6. /\ remembered \in Terminals
            /\ remembered.detected = known.detected /\ remembered.exit = known.exit
            /\ remembered.seqs = known.seqs /\ remembered.suppressed = known.suppressed
            /\ remembered.stale[s] = known.stale[s] \cup ({y} \ {None})
            /\ \A r \in Sources : r # s => remembered.stale[r] = known.stale[r]
        BY <3>3, <3>4, <3>5, RememberFields
      <3>7. /\ cleared \in Terminals
            /\ cleared.detected = remembered.detected /\ cleared.exit = remembered.exit
            /\ cleared.seqs = remembered.seqs /\ cleared.suppressed = remembered.suppressed
            /\ cleared.stale = remembered.stale /\ cleared.authority = None
        BY <3>1, <3>6 DEF Terminals
      <3>8. cleared.stale[s] = stale \cup {y}
        <4>1. {y} \ {None} = {y}
          BY <3>3
        <4> QED BY <1>3, <3>6, <3>7, <4>1
      <3> QED BY <1>3, <2>2, <3>6, <3>7, <3>8 DEF y
    <2>3. CASE takeover /\ ~replaced
      <3>1. cleared = [shut EXCEPT !.authority = None]
        BY <2>3
      <3>2. /\ shut \in Terminals
            /\ shut.detected = known.detected /\ shut.exit = known.exit
            /\ shut.seqs = known.seqs /\ shut.stale = known.stale
            /\ \A r \in Sources : shut.suppressed[r] =
                 IF known.authority # None /\ known.authority.source \in Full
                      /\ known.authority.source = r
                 THEN Gate(known.authority.session, clock, "HookClear")
                 ELSE known.suppressed[r]
        BY <1>3, SuppressCurrentFields
      <3> HIDE DEF shut, cleared
      <3>3. /\ cleared \in Terminals
            /\ cleared.detected = shut.detected /\ cleared.exit = shut.exit
            /\ cleared.seqs = shut.seqs /\ cleared.suppressed = shut.suppressed
            /\ cleared.stale = shut.stale /\ cleared.authority = None
        BY <3>1, <3>2 DEF Terminals
      <3> QED BY <1>3, <2>3, <3>2, <3>3
    <2> QED BY <1>4, <2>1, <2>2, <2>3
  <1> HIDE DEF cleared
  <1>6. /\ w \in Terminals
        /\ w.detected = cleared.detected /\ w.exit = cleared.exit /\ w.seqs = cleared.seqs
        /\ w.authority = cleared.authority /\ w.suppressed = cleared.suppressed
        /\ w.stale = cleared.stale /\ w.persisted = [source |-> s, session |-> ref]
    BY <1>5 DEF Terminals, Persisted
  <1> HIDE DEF w
  <1>7. \A x \in Sources : Grown(u, w, x)
    BY <1>2, <1>5, <1>6 DEF Grown
  <1>8. ref # None
    BY SourceFacts
  <1> QED BY <1>5, <1>6, <1>7, <1>8, Zenon DEF Recorded, stale

LEMMA SessionResult ==
    ASSUME Instance, NEW u, Well(u), NEW s \in Sources, NEW ref \in AllSessions \cup {None},
           NEW seq \in setup.numbers \cup {None}, NEW start
    PROVE  LET r == SessionRef(u, s, ref, seq, start) IN
           /\ Settled(u, r)
           /\ \/ Kept(u, r.term)
              \/ Announces(u, r.term, s, ref)
              \/ /\ s \in Full /\ ProcessPresent(u, AgentOf(s)) /\ r.term.detected = u.detected
                 /\ r.term.exit = u.exit
                 /\ \E w \in Terminals : Announces(u, w, s, ref)
                                           /\ GatesOpen(w, r.term, AgentOf(s))
              \/ Recorded(u, r.term, s, ref, start) /\ Records(u, s, ref, start)
  <1> DEFINE r == SessionRef(u, s, ref, seq, start)
             taken == Accept(u, s, seq)
             takeover == /\ OwnerConflicts(u, s) /\ start \in Starts
                         /\ ForegroundConfirms(u, s, ref)
             replaced == /\ s \in Full /\ u.authority # None /\ u.authority.source = s
                         /\ u.authority.session \notin {None, ref}
             known == IF start \in Replacing[s] \/ takeover THEN Forget(taken, s, ref)
                      ELSE taken
             cleared == IF replaced
                        THEN [Remember(known, s, u.authority.session) EXCEPT !.authority = None]
                        ELSE IF takeover
                        THEN [SuppressCurrent(known) EXCEPT !.authority = None]
                        ELSE known
             w == [cleared EXCEPT !.persisted = [source |-> s, session |-> ref]]
  <1> SUFFICES /\ Settled(u, r)
               /\ \/ Kept(u, r.term)
                  \/ Announces(u, r.term, s, ref)
                  \/ /\ s \in Full /\ ProcessPresent(u, AgentOf(s))
                     /\ r.term.detected = u.detected /\ r.term.exit = u.exit
                     /\ \E x \in Terminals : Announces(u, x, s, ref)
                                               /\ GatesOpen(x, r.term, AgentOf(s))
                  \/ Recorded(u, r.term, s, ref, start) /\ Records(u, s, ref, start)
    OBVIOUS
  <1> DEFINE waits == s \in Full /\ (\/ ~ProcessPresent(u, AgentOf(s))
                                     \/ GatedBy(u, s, "ProcessExit")
                                     \/ ~(Anchor(u, s) # None))
  <1> USE DEF Well
  <1>1. \/ r = Quiet(u)
        \/ /\ r = StartSession(u, s, ref, seq) /\ ref # None /\ seq # None
           /\ s \in Full /\ Acceptable(u, s, seq)
        \/ r = Quiet(taken) /\ Acceptable(u, s, seq)
        \/ /\ r = Done(u, w) /\ ref # None /\ Acceptable(u, s, seq) /\ ~waits
           /\ ~(OwnerConflicts(u, s) /\ ~takeover)
    <2> HIDE DEF w, taken, takeover, replaced, waits
    <2>1. CASE ref = None
      BY <2>1 DEF SessionRef
    <2>2. CASE ref # None /\ waits
      BY <2>2 DEF SessionRef, waits
    <2>3. CASE ref # None /\ ~waits /\ ~Acceptable(u, s, seq)
      BY <2>3 DEF SessionRef, waits
    <2>4. CASE ref # None /\ ~waits /\ Acceptable(u, s, seq)
      BY <2>4 DEF SessionRef, waits, taken, w, takeover, replaced
    <2> QED BY <2>1, <2>2, <2>3, <2>4
  <1> HIDE DEF r
  <1>2. CASE r = Quiet(u)
    BY <1>2, UnchangedKept
  <1>3. CASE /\ r = StartSession(u, s, ref, seq) /\ ref # None /\ seq # None
             /\ s \in Full /\ Acceptable(u, s, seq)
    BY <1>3, StartResult
  <1>4. CASE r = Quiet(taken) /\ Acceptable(u, s, seq)
    BY <1>4, AcceptedKept
  <1>5. CASE /\ r = Done(u, w) /\ ref # None /\ Acceptable(u, s, seq) /\ ~waits
             /\ ~(OwnerConflicts(u, s) /\ ~takeover)
    <2>1. takeover <=> OwnerConflicts(u, s)
      BY <1>5
    <2>2. w \in Terminals /\ Recorded(u, w, s, ref, start)
      <3> HIDE DEF takeover
      <3> QED BY <1>5, <2>1, RecordFields
    <2>3. Records(u, s, ref, start)
      BY <1>5 DEF Records
    <2> HIDE DEF w
    <2>4. /\ Settled(u, r)
          /\ r.term.detected = w.detected /\ r.term.exit = w.exit
          /\ r.term.authority = w.authority /\ r.term.persisted = w.persisted
          /\ r.term.seqs = w.seqs /\ r.term.suppressed = w.suppressed
          /\ r.term.stale = w.stale
      BY <1>5, <2>2, DoneSettled
    <2>5. Recorded(u, r.term, s, ref, start)
      BY <2>2, <2>4 DEF Recorded, Grown
    <2> QED BY <2>3, <2>4, <2>5
  <1> QED BY <1>1, <1>2, <1>3, <1>4, <1>5

\* The authority is cleared, and its reports are late from now on.
Clears(u, v) ==
    /\ v.detected = u.detected /\ v.exit = u.exit /\ v.stale = u.stale
    /\ u.authority # None /\ v.authority = None /\ v.persisted = None
    /\ \A r \in Sources : v.suppressed[r] =
         IF u.authority.source \in Full /\ u.authority.source = r
         THEN Gate(u.authority.session, clock, "HookClear") ELSE u.suppressed[r]

\* A custom source gives up what it holds.
Releases(u, v) ==
    /\ v.detected \in {u.detected, None} /\ v.exit = u.exit
    /\ v.stale = u.stale /\ v.suppressed = u.suppressed
    /\ u.authority # None => u.authority.source \notin Official
    /\ v.authority = None /\ v.persisted \in {u.persisted, None}

\* The process in front is the one seen before, or none is there.
SeenBefore(u, v, agent) ==
    /\ v.detected = agent /\ agent \in {None, u.detected}
    /\ v.exit = IF agent # None THEN None ELSE u.exit
    /\ v.authority = u.authority /\ v.persisted = u.persisted /\ v.seqs = u.seqs
    /\ v.suppressed = u.suppressed /\ v.stale = u.stale

\* A new process of the agent is in front.
SeenNew(u, v, agent) ==
    /\ v.detected = agent /\ agent # None /\ v.exit = None
    /\ ~ProcessPresent(u, agent)
    /\ GatesOpen(u, v, agent)

\* The agent's process has exited.
Exited(u, v, agent, at) ==
    LET newer == OutlivesExit(u, agent, at) IN
    /\ v.detected = agent /\ agent # None /\ v.exit = [agent |-> agent, at |-> at]
    /\ v.authority = IF u.authority # None /\ HookAgent(u) = agent /\ ~newer THEN None
                     ELSE u.authority
    /\ v.persisted = IF ~newer /\ u.persisted # None /\ AgentOf(u.persisted.source) = agent
                     THEN None ELSE u.persisted
    /\ GatesShut(u, v, agent, at)

\* The authority of another agent ends, its session stays on record.
Replaces(u, v, agent) ==
    /\ u.authority # None /\ HookAgent(u) # agent /\ HookAgent(u) # None
    /\ v.detected = u.detected /\ v.exit = u.exit /\ v.seqs = u.seqs /\ v.stale = u.stale
    /\ v.authority = None /\ v.persisted = Durable(u.authority)
    /\ \A r \in Sources : v.suppressed[r] =
         IF u.authority.source \in Full /\ u.authority.source = r
         THEN Gate(u.authority.session, clock, "HookClear") ELSE u.suppressed[r]

LEMMA ClearResult ==
    ASSUME Instance, NEW u, Well(u), NEW source, NEW seq \in setup.numbers \cup {None}
    PROVE  LET r == Clear(u, source, seq) IN
           /\ Settled(u, r)
           /\ Kept(u, r.term) \/ Clears(u, r.term)
  <1> DEFINE r == Clear(u, source, seq)
             s == u.authority.source
             taken == Accept(u, s, seq)
             shut == SuppressCurrent(taken)
             w == [shut EXCEPT !.authority = None, !.persisted = None]
             v == Recompute(w)
  <1> SUFFICES Settled(u, r) /\ (Kept(u, r.term) \/ Clears(u, r.term))
    OBVIOUS
  <1> USE DEF Well
  <1>1. \/ r = Quiet(u)
        \/ /\ u.authority # None
           /\ r = [term |-> v, told |-> Identity(u) # None]
    BY DEF Clear
  <1> HIDE DEF r
  <1>2. CASE r = Quiet(u)
    BY <1>2, UnchangedKept
  <1>3. CASE u.authority # None /\ r = [term |-> v, told |-> Identity(u) # None]
    <2>1. s \in Sources
      BY <1>3 DEF Terminals, Reports
    <2>2. /\ taken \in Terminals
          /\ taken.detected = u.detected /\ taken.authority = u.authority
          /\ taken.suppressed = u.suppressed /\ taken.stale = u.stale /\ taken.exit = u.exit
      BY <2>1, AcceptFields
    <2> HIDE DEF taken
    <2>3. /\ shut \in Terminals
          /\ shut.detected = taken.detected /\ shut.exit = taken.exit /\ shut.stale = taken.stale
          /\ \A x \in Sources : shut.suppressed[x] =
               IF taken.authority # None /\ taken.authority.source \in Full
                    /\ taken.authority.source = x
               THEN Gate(taken.authority.session, clock, "HookClear") ELSE taken.suppressed[x]
      BY <2>2, SuppressCurrentFields
    <2> HIDE DEF shut
    <2>4. /\ w \in Terminals /\ w.detected = shut.detected /\ w.exit = shut.exit
          /\ w.authority = None /\ w.persisted = None
          /\ w.suppressed = shut.suppressed /\ w.stale = shut.stale
      BY <2>3 DEF Terminals, Persisted
    <2> HIDE DEF w
    <2>5. /\ v \in Terminals /\ v.state = StateOf(v)
          /\ v.detected = w.detected /\ v.exit = w.exit
          /\ v.authority = w.authority /\ v.persisted = w.persisted
          /\ v.suppressed = w.suppressed /\ v.stale = w.stale
      BY <2>4, RecomputeFields
    <2> HIDE DEF v
    <2>6. r.term = v /\ r.told = (Identity(u) # None)
      BY <1>3
    <2>7. Identity(v) = None
      BY <2>4, <2>5 DEF Identity
    <2>8. Settled(u, r)
      BY <2>5, <2>6, <2>7 DEF Settled
    <2>9. Clears(u, v)
      BY <1>3, <2>2, <2>3, <2>4, <2>5 DEF Clears
    <2> QED BY <2>6, <2>8, <2>9
  <1> QED BY <1>1, <1>2, <1>3

LEMMA ReleaseResult ==
    ASSUME Instance, NEW u, Well(u), NEW s \in Sources \ Official,
           NEW seq \in setup.numbers \cup {None}
    PROVE  LET r == Release(u, s, seq) IN
           /\ Settled(u, r)
           /\ Kept(u, r.term) \/ Releases(u, r.term)
  <1> DEFINE r == Release(u, s, seq)
             mine == u.persisted # None /\ u.persisted.source = s
             taken == Accept(u, s, seq)
             freed == IF ProcessPresent(u, AgentOf(s)) THEN taken
                      ELSE [taken EXCEPT !.detected = None, !.fallback = "Unknown",
                                         !.blocker = FALSE, !.fallbackAt = None]
             w == [freed EXCEPT !.authority = None, !.persisted = IF mine THEN None ELSE @]
  <1> SUFFICES Settled(u, r) /\ (Kept(u, r.term) \/ Releases(u, r.term))
    OBVIOUS
  <1> USE DEF Well
  <1>1. \/ r = Quiet(u)
        \/ /\ u.authority # None => u.authority.source = s
           /\ r = Done(u, w)
    BY DEF Release
  <1> HIDE DEF r
  <1>2. CASE r = Quiet(u)
    BY <1>2, UnchangedKept
  <1>3. CASE (u.authority # None => u.authority.source = s) /\ r = Done(u, w)
    <2>1. /\ taken \in Terminals
          /\ taken.detected = u.detected /\ taken.persisted = u.persisted
          /\ taken.suppressed = u.suppressed /\ taken.stale = u.stale /\ taken.exit = u.exit
      BY AcceptFields
    <2> HIDE DEF taken
    <2>2. /\ freed \in Terminals
          /\ freed.detected \in {u.detected, None} /\ freed.persisted = u.persisted
          /\ freed.suppressed = u.suppressed /\ freed.stale = u.stale /\ freed.exit = u.exit
      <3> DEFINE x == [taken EXCEPT !.detected = None, !.fallback = "Unknown",
                                    !.blocker = FALSE, !.fallbackAt = None]
      <3>1. /\ x \in Terminals /\ x.detected = None /\ x.persisted = taken.persisted
            /\ x.suppressed = taken.suppressed /\ x.stale = taken.stale
            /\ x.exit = taken.exit
        BY <2>1 DEF Terminals, AllStates
      <3>2. freed \in {taken, x}
        OBVIOUS
      <3> HIDE DEF x, freed
      <3> QED BY <2>1, <3>1, <3>2
    <2> HIDE DEF freed
    <2>3. /\ w \in Terminals /\ w.detected = freed.detected /\ w.exit = freed.exit
          /\ w.suppressed = freed.suppressed /\ w.stale = freed.stale
          /\ w.authority = None /\ w.persisted \in {u.persisted, None}
      BY <2>2 DEF Terminals, Persisted
    <2> HIDE DEF w
    <2>4. /\ Settled(u, r)
          /\ r.term.detected = w.detected /\ r.term.exit = w.exit
          /\ r.term.authority = w.authority /\ r.term.persisted = w.persisted
          /\ r.term.suppressed = w.suppressed /\ r.term.stale = w.stale
      BY <1>3, <2>3, DoneSettled
    <2>5. Releases(u, r.term)
      BY <1>3, <2>2, <2>3, <2>4 DEF Releases
    <2> QED BY <2>4, <2>5
  <1> QED BY <1>1, <1>2, <1>3

\* What a detection result leaves.
LEMMA DetectedResult ==
    ASSUME Instance, NEW u, Well(u), NEW agent \in Agents \cup {None}, NEW state \in AllStates,
           NEW blocker \in BOOLEAN, NEW exited \in BOOLEAN, NEW at \in Times,
           exited => agent # None
    PROVE  LET v == Detected(u, agent, state, blocker, exited, at) IN
           /\ v \in Terminals /\ v.state = StateOf(v)
           /\ \/ ~exited /\ Kept(u, v)
              \/ \E e \in Terminals :
                   /\ \/ ~exited /\ (SeenBefore(u, e, agent) \/ SeenNew(u, e, agent))
                      \/ exited /\ Exited(u, e, agent, at)
                   /\ Kept(e, v) \/ Replaces(e, v, agent)
  <1> DEFINE v == Detected(u, agent, state, blocker, exited, at)
             n == Noted(u, agent, state, blocker, exited, at)
             newer == OutlivesExit(u, agent, at)
             e == IF exited THEN Exit(n, agent, at, newer) ELSE n
             previous == Previous(u, agent, at)
             w == ReplaceAuthority(e, u.detected, agent, at)
             y == IF HookAgent(u) = agent THEN [u EXCEPT !.detected = agent] ELSE u
  <1> SUFFICES /\ v \in Terminals /\ v.state = StateOf(v)
               /\ \/ ~exited /\ Kept(u, v)
                  \/ \E x \in Terminals :
                       /\ \/ ~exited /\ (SeenBefore(u, x, agent) \/ SeenNew(u, x, agent))
                          \/ exited /\ Exited(u, x, agent, at)
                       /\ Kept(x, v) \/ Replaces(x, v, agent)
    OBVIOUS
  <1> USE DEF Well
  <1>1. v = IF Live(u) /\ ~exited /\ ~HookConflicts(u, agent) THEN Recompute(y)
            ELSE IF ~exited /\ ObservedBeforeSuppression(u, agent, at) THEN Recompute(u)
            ELSE Recompute(w)
    BY DEF Detected
  <1> HIDE DEF v
  <1>2. ASSUME NEW x \in Terminals, v = Recompute(x)
        PROVE  /\ v \in Terminals /\ v.state = StateOf(v)
               /\ v.detected = x.detected /\ v.exit = x.exit /\ v.authority = x.authority
               /\ v.persisted = x.persisted /\ v.seqs = x.seqs
               /\ v.suppressed = x.suppressed /\ v.stale = x.stale
    BY <1>2, RecomputeFields
  <1>3. ASSUME NEW x \in Terminals, v = Recompute(x)
        PROVE  Kept(x, v)
    BY <1>2, <1>3, GrownNumbers DEF Kept
  <1>4. CASE Live(u) /\ ~exited /\ ~HookConflicts(u, agent)
    <2>1. v = Recompute(y)
      BY <1>1, <1>4
    <2>2. HookAgent(u) = agent => u.detected = agent
      BY <1>4 DEF Live, Effective, ProcessPresent, HookAgent
    <2>3. /\ y \in Terminals /\ y.detected = u.detected /\ y.exit = u.exit
          /\ y.authority = u.authority /\ y.persisted = u.persisted /\ y.seqs = u.seqs
          /\ y.suppressed = u.suppressed /\ y.stale = u.stale
      <3>1. CASE HookAgent(u) = agent
        BY <2>2, <3>1 DEF Terminals
      <3>2. CASE HookAgent(u) # agent
        BY <3>2
      <3> QED BY <3>1, <3>2
    <2> HIDE DEF y
    <2>4. Kept(y, v)
      BY <1>3, <2>1, <2>3
    <2>5. Kept(u, v)
      BY <2>3, <2>4 DEF Kept, Grown
    <2> QED BY <1>2, <1>4, <2>1, <2>3, <2>5
  <1>5. CASE /\ ~(Live(u) /\ ~exited /\ ~HookConflicts(u, agent))
             /\ ~exited /\ ObservedBeforeSuppression(u, agent, at)
    <2>1. v = Recompute(u)
      BY <1>1, <1>5
    <2> QED BY <1>2, <1>3, <1>5, <2>1
  <1>6. CASE /\ ~(Live(u) /\ ~exited /\ ~HookConflicts(u, agent))
             /\ ~(~exited /\ ObservedBeforeSuppression(u, agent, at))
    <2>1. v = Recompute(w)
      BY <1>1, <1>6
    <2>2. /\ n \in Terminals /\ n.detected = agent
          /\ n.exit = IF exited /\ agent # None THEN [agent |-> agent, at |-> at]
                      ELSE IF agent # None THEN None ELSE u.exit
      BY NotedFields
    <2>3. exited \/ agent \in {None, previous} => Stays(u, n)
      BY NotedFields
    <2>4. ~(exited \/ agent \in {None, previous}) => GatesOpen(u, n, agent)
      BY NotedFields
    <2> HIDE DEF n
    <2>5. /\ e \in Terminals /\ e.detected = agent
          /\ \/ ~exited /\ (SeenBefore(u, e, agent) \/ SeenNew(u, e, agent))
             \/ exited /\ Exited(u, e, agent, at)
      <3>1. CASE ~exited /\ agent \in {None, previous}
        <4>1. SeenBefore(u, n, agent)
          BY <2>2, <2>3, <3>1 DEF SeenBefore, Stays, Previous
        <4> QED BY <2>2, <3>1, <4>1
      <3>2. CASE ~exited /\ agent \notin {None, previous}
        <4>1. ~ProcessPresent(u, agent)
          BY <3>2, NoneFacts DEF ProcessPresent, SeenAgain, Previous
        <4>2. SeenNew(u, n, agent)
          BY <2>2, <2>4, <3>2, <4>1 DEF SeenNew
        <4> QED BY <2>2, <3>2, <4>2
      <3>3. CASE exited
        <4>1. e = Exit(n, agent, at, newer)
          BY <3>3
        <4>2. newer \in BOOLEAN
          BY DEF OutlivesExit
        <4>3. Owner(n, agent) = Owner(u, agent) /\ HookAgent(n) = HookAgent(u)
          BY <2>3, <3>3 DEF Owner, HookAgent, Stays
        <4> HIDE DEF e, newer
        <4>4. /\ e \in Terminals
              /\ e.detected = n.detected /\ e.exit = n.exit
              /\ e.authority = IF n.authority # None /\ HookAgent(n) = agent /\ ~newer THEN None
                               ELSE n.authority
              /\ e.persisted = IF ~newer /\ n.persisted # None
                                    /\ AgentOf(n.persisted.source) = agent
                               THEN None ELSE n.persisted
              /\ GatesShut(n, e, agent, at)
          BY <2>2, <4>1, <4>2, ExitFields
        <4>5. GatesShut(u, e, agent, at)
          BY <2>3, <3>3, <4>3, <4>4 DEF GatesShut, GatedBy, Stays
        <4>6. /\ e.authority = IF u.authority # None /\ HookAgent(u) = agent /\ ~newer THEN None
                               ELSE u.authority
              /\ e.persisted = IF ~newer /\ u.persisted # None
                                    /\ AgentOf(u.persisted.source) = agent
                               THEN None ELSE u.persisted
              /\ e.detected = agent /\ e.exit = [agent |-> agent, at |-> at]
          BY <2>2, <2>3, <3>3, <4>3, <4>4 DEF Stays
        <4>7. Exited(u, e, agent, at)
          BY <3>3, <4>5, <4>6, Zenon DEF Exited, newer
        <4> QED BY <2>2, <3>3, <4>4, <4>7
      <3> QED BY <3>1, <3>2, <3>3
    <2> HIDE DEF e
    <2>6. \/ w = e
          \/ w \in Terminals /\ Replaces(e, w, agent)
      <3>1. \/ w = e
            \/ /\ e.authority # None /\ HookAgent(e) # agent /\ HookAgent(e) # None
               /\ w \in Terminals
               /\ w.detected = e.detected /\ w.exit = e.exit /\ w.seqs = e.seqs
               /\ w.stale = e.stale
               /\ w.authority = None /\ w.persisted = Durable(e.authority)
               /\ \A r \in Sources : w.suppressed[r] =
                    IF e.authority.source \in Full /\ e.authority.source = r
                    THEN Gate(e.authority.session, clock, "HookClear") ELSE e.suppressed[r]
        BY <2>5, ReplaceAuthorityFields
      <3> HIDE DEF w
      <3> QED BY <3>1, Zenon DEF Replaces
    <2> HIDE DEF w
    <2>7. w \in Terminals
      BY <2>5, <2>6
    <2>8. Kept(w, v)
      BY <1>3, <2>1, <2>7
    <2>9. Replaces(e, w, agent) => Replaces(e, v, agent)
      <3>1. /\ v.detected = w.detected /\ v.exit = w.exit /\ v.authority = w.authority
            /\ v.persisted = w.persisted /\ v.seqs = w.seqs
            /\ v.suppressed = w.suppressed /\ v.stale = w.stale
        BY <1>2, <2>1, <2>7
      <3> QED BY <3>1 DEF Replaces
    <2> QED BY <1>2, <2>1, <2>5, <2>6, <2>7, <2>8, <2>9
  <1> QED BY <1>4, <1>5, <1>6

-----------------------------------------------------------------------------
(* The invariant of the record is kept.                                    *)

LEMMA KeptWell ==
    ASSUME NEW u, Well(u), NEW v \in Terminals, Kept(u, v)
    PROVE  Well(v)
  BY DEF Well, GateOK, GateFits, AuthorityOK, Kept

LEMMA WaitingWell ==
    ASSUME NEW u, Well(u), NEW v \in Terminals, NEW s \in Sources, NEW ref, NEW seq,
           Waiting(u, v, s, ref, seq)
    PROVE  Well(v)
  <1>1. AuthorityOK(v)
    BY DEF Well, AuthorityOK, Waiting
  <1>2. ASSUME NEW r \in Sources
        PROVE  GateFits(v, r)
    <2>1. GateFits(u, r)
      BY DEF Well, GateOK
    <2>2. CASE r # s
      BY <2>1, <2>2 DEF GateFits, Waiting
    <2>3. CASE r = s /\ u.suppressed[s] = None
      BY <2>3 DEF GateFits, Waiting
    <2>4. CASE r = s /\ u.suppressed[s] # None
      BY <2>1, <2>4 DEF GateFits, Waiting
    <2> QED BY <2>2, <2>3, <2>4
  <1> QED BY <1>1, <1>2 DEF Well, GateOK

LEMMA AnnouncesWell ==
    ASSUME NEW u, Well(u), NEW v \in Terminals, NEW s \in Sources, NEW ref,
           Announces(u, v, s, ref)
    PROVE  Well(v)
  <1>1. AuthorityOK(v)
    BY DEF Well, AuthorityOK, Announces
  <1>2. ASSUME NEW r \in Sources
        PROVE  GateFits(v, r)
    <2>1. GateFits(u, r)
      BY DEF Well, GateOK
    <2>2. CASE r # s
      BY <2>1, <2>2 DEF GateFits, Announces
    <2>3. CASE r = s /\ u.suppressed[s] = None
      BY <2>3 DEF GateFits, Announces
    <2>4. CASE r = s /\ u.suppressed[s] # None
      BY <2>1, <2>4 DEF GateFits, Announces
    <2> QED BY <2>2, <2>3, <2>4
  <1> QED BY <1>1, <1>2 DEF Well, GateOK

\* A gate that was made for a report that ended is fit.
LEMMA ClearedGateFits ==
    ASSUME Instance, NEW v, NEW s \in Sources \cap Full, NEW ref \in AllSessions \cup {None},
           v.suppressed[s] = Gate(ref, clock, "HookClear"),
           v.authority = None \/ v.authority.source # s,
           v.persisted = None \/ v.persisted.source # s
    PROVE  GateFits(v, s)
  <1>1. clock \in Times
    BY DEF Instance
  <1>2. LET g == v.suppressed[s] IN
        g.session = ref /\ g.reason = "HookClear" /\ g.replacement = None /\ g.pending = None
    BY <1>1, GateFields
  <1> QED BY <1>2 DEF GateFits

LEMMA TakenWell ==
    ASSUME Instance, NEW u, Well(u), NEW v \in Terminals, NEW s \in Sources, NEW ref, NEW state,
           NEW seq, Taken(u, v, s, ref, state, seq), Takes(u, s, ref),
           s \notin Official \ (Full \cup IdentityOnly)
    PROVE  Well(v)
  <1>1. v.authority.source = s /\ v.persisted = None /\ v.detected = u.detected
    BY DEF Taken
  <1>2. AuthorityOK(v)
    BY <1>1 DEF AuthorityOK, Takes
  <1>3. ASSUME NEW r \in Sources
        PROVE  GateFits(v, r)
    <2>1. GateFits(u, r) /\ u \in Terminals
      BY DEF Well, GateOK
    <2> DEFINE frees == (ReportSession(u, s, ref) # None \/ Reanchors(u, s, ref))
                           /\ u.suppressed[s] # None
               shuts == OwnerConflicts(u, s) /\ u.authority # None
                           /\ u.authority.source \in Full /\ u.authority.source = r
    <2>2. v.suppressed[r] = IF r = s /\ frees THEN None
                            ELSE IF shuts THEN Gate(u.authority.session, clock, "HookClear")
                            ELSE u.suppressed[r]
      BY DEF Taken
    <2>3. CASE r = s /\ frees
      BY <2>2, <2>3 DEF GateFits
    <2>4. CASE shuts /\ ~(r = s /\ frees)
      <3>1. r # s
        BY <2>4, TakeoverFromAnother DEF Takes
      <3>2. u.authority.session \in AllSessions \cup {None}
        BY <2>1, <2>4 DEF Terminals, Reports
      <3>3. v.suppressed[r] = Gate(u.authority.session, clock, "HookClear")
        BY <2>2, <2>4
      <3>4. r \in Sources \cap Full
        BY <2>4
      <3> QED BY <1>1, <3>1, <3>2, <3>3, <3>4, ClearedGateFits
    <2>5. CASE r # s /\ ~shuts
      BY <1>1, <2>1, <2>2, <2>5 DEF GateFits
    <2>6. CASE r = s /\ ~frees /\ ~shuts
      <3>1. s \in Full => u.suppressed[s] = None
        BY <2>6 DEF Takes, Routed
      <3> QED BY <1>1, <2>1, <2>2, <2>6, <3>1 DEF GateFits
    <2> QED BY <2>3, <2>4, <2>5, <2>6
  <1> QED BY <1>2, <1>3 DEF Well, GateOK

\* A source on record whose process is in front has no gate.
LEMMA RecordsUngated ==
    ASSUME NEW u, Well(u), NEW s \in Sources \cap Full, NEW ref, NEW start,
           Records(u, s, ref, start)
    PROVE  /\ u.suppressed[s] = None
           /\ OwnerConflicts(u, s) /\ u.authority # None => u.authority.source # s
  <1>1. u.suppressed[s] # None => u.suppressed[s].reason = "HookClear"
    BY GateTypes DEF Well, Records, GatedBy
  <1>2. u.detected = AgentOf(s) /\ Anchor(u, s) # None
    BY DEF Records, ProcessPresent
  <1>3. GateFits(u, s)
    BY DEF Well, GateOK
  <1>4. u.suppressed[s] = None
    BY <1>1, <1>2, <1>3 DEF GateFits, Anchor
  <1>5. OwnerConflicts(u, s) /\ u.authority # None => u.authority.source # s
    BY <1>2 DEF OwnerConflicts, Identity, Anchor
  <1> QED BY <1>4, <1>5

LEMMA RecordedWell ==
    ASSUME Instance, NEW u, Well(u), NEW v \in Terminals, NEW s \in Sources, NEW ref, NEW start,
           Recorded(u, v, s, ref, start), Records(u, s, ref, start)
    PROVE  Well(v)
  <1>1. v.authority \in {None, u.authority} /\ v.persisted = [source |-> s, session |-> ref]
    BY DEF Recorded
  <1>2. AuthorityOK(v)
    BY <1>1 DEF Well, AuthorityOK
  <1>3. ASSUME NEW r \in Sources
        PROVE  GateFits(v, r)
    <2>1. GateFits(u, r) /\ u \in Terminals
      BY DEF Well, GateOK
    <2> DEFINE shuts == OwnerConflicts(u, s) /\ u.authority # None
                           /\ u.authority.source \in Full /\ u.authority.source = r
    <2>2. v.suppressed[r] = IF shuts THEN Gate(u.authority.session, clock, "HookClear")
                            ELSE u.suppressed[r]
      BY DEF Recorded
    <2>3. CASE shuts
      <3>1. r # s
        BY <2>3, RecordsUngated
      <3>2. u.authority.session \in AllSessions \cup {None}
        BY <2>1, <2>3 DEF Terminals, Reports
      <3>3. v.authority = None
        BY <2>3 DEF Recorded
      <3>4. r \in Sources \cap Full
        BY <2>3
      <3>5. v.persisted.source # r
        BY <1>1, <3>1
      <3> QED BY <2>2, <2>3, <3>2, <3>3, <3>4, <3>5, ClearedGateFits
    <2>4. CASE ~shuts /\ r = s
      <3>1. s \in Full => u.suppressed[s] = None
        BY RecordsUngated
      <3> QED BY <1>1, <2>1, <2>2, <2>4, <3>1 DEF GateFits
    <2>5. CASE ~shuts /\ r # s
      BY <1>1, <2>1, <2>2, <2>5 DEF GateFits
    <2> QED BY <2>3, <2>4, <2>5
  <1> QED BY <1>2, <1>3 DEF Well, GateOK

LEMMA OpenWell ==
    ASSUME NEW u, Well(u), NEW v \in Terminals, NEW agent, GatesOpen(u, v, agent),
           v.detected = agent
    PROVE  Well(v)
  <1>1. \/ v.authority = u.authority /\ v.persisted = u.persisted
        \/ \E s \in Started(u, agent) :
             /\ v.persisted = [source |-> s, session |-> u.suppressed[s].replacement]
             /\ \/ v.authority = u.authority
                \/ u.suppressed[s].pending # None /\ v.authority = u.suppressed[s].pending
    BY DEF GatesOpen
  <1>2. ASSUME NEW s \in Started(u, agent), u.suppressed[s].pending # None
        PROVE  u.suppressed[s].pending.source = s /\ s \in Full
    <2>1. s \in Sources /\ u.suppressed[s] # None
      BY DEF Started, GatedBy
    <2>2. GateFits(u, s)
      BY <2>1 DEF Well, GateOK
    <2> QED BY <1>2, <2>1, <2>2 DEF GateFits
  <1>3. AuthorityOK(v)
    BY <1>1, <1>2 DEF Well, AuthorityOK
  <1>4. ASSUME NEW r \in Sources
        PROVE  GateFits(v, r)
    <2>1. GateFits(u, r)
      BY DEF Well, GateOK
    <2>2. v.suppressed[r] = IF r \in Started(u, agent) \cup Cleared(u, agent) THEN None
                            ELSE u.suppressed[r]
      BY DEF GatesOpen
    <2>3. CASE r \in Started(u, agent) \cup Cleared(u, agent)
      BY <2>2, <2>3 DEF GateFits
    <2>4. CASE r \notin Started(u, agent) \cup Cleared(u, agent)
      <3>1. v.suppressed[r] = u.suppressed[r]
        BY <2>2, <2>4
      <3>2. u.suppressed[r] # None /\ u.suppressed[r].reason = "HookClear" => AgentOf(r) # agent
        BY <2>4 DEF Cleared, GatedBy
      <3>3. \/ v.authority = u.authority
            \/ v.authority # None => v.authority.source # r
        BY <1>1, <1>2, <2>4
      <3>4. \/ v.persisted = u.persisted
            \/ v.persisted.source # r
        <4>1. ASSUME NEW s \in Started(u, agent),
                     v.persisted = [source |-> s, session |-> u.suppressed[s].replacement]
              PROVE  v.persisted.source # r
          <5>1. v.persisted.source = s
            BY <4>1
          <5> QED BY <2>4, <5>1
        <4> QED BY <1>1, <4>1
      <3> QED BY <2>1, <3>1, <3>2, <3>3, <3>4 DEF GateFits
    <2> QED BY <2>3, <2>4
  <1> QED BY <1>3, <1>4 DEF Well, GateOK

LEMMA ClearsWell ==
    ASSUME Instance, NEW u, Well(u), NEW v \in Terminals, Clears(u, v)
    PROVE  Well(v)
  <1>1. AuthorityOK(v)
    BY DEF AuthorityOK, Clears
  <1>2. ASSUME NEW r \in Sources
        PROVE  GateFits(v, r)
    <2>1. GateFits(u, r) /\ u \in Terminals
      BY DEF Well, GateOK
    <2>2. CASE u.authority.source \in Full /\ u.authority.source = r
      <3>1. u.authority.session \in AllSessions \cup {None}
        BY <2>1 DEF Terminals, Reports, Clears
      <3> QED BY <2>2, <3>1, ClearedGateFits DEF Clears
    <2>3. CASE ~(u.authority.source \in Full /\ u.authority.source = r)
      BY <2>1, <2>3 DEF Clears, GateFits
    <2> QED BY <2>2, <2>3
  <1> QED BY <1>1, <1>2 DEF Well, GateOK

LEMMA ReleasesWell ==
    ASSUME NEW u, Well(u), NEW v \in Terminals, Releases(u, v)
    PROVE  Well(v)
  <1>1. \A s \in Full : AgentOf(s) # None
    BY SourceFacts
  <1> QED BY <1>1 DEF Well, GateOK, GateFits, AuthorityOK, Releases

LEMMA SeenBeforeWell ==
    ASSUME NEW u, Well(u), NEW v \in Terminals, NEW agent, SeenBefore(u, v, agent)
    PROVE  Well(v)
  <1>1. \A s \in Full : AgentOf(s) # None
    BY SourceFacts
  <1> QED BY <1>1 DEF Well, GateOK, GateFits, AuthorityOK, SeenBefore

\* The gate of what is on record from the exited agent.
LEMMA ExitedOwner ==
    ASSUME NEW u, Well(u), NEW v, NEW agent, NEW at, Exited(u, v, agent, at),
           NEW s \in Sources \cap Full, AgentOf(s) = agent, v.persisted # None,
           v.persisted.source = s
    PROVE  Owner(u, agent) = u.persisted /\ v.persisted = u.persisted
  <1>1. v.persisted = u.persisted /\ OutlivesExit(u, agent, at)
    BY DEF Exited
  <1>2. s \in Official
    BY SourceFacts
  <1> QED BY <1>1, <1>2 DEF Owner, OutlivesExit

LEMMA ExitedWell ==
    ASSUME Instance, NEW u, Well(u), NEW v \in Terminals, NEW agent, NEW at \in Times,
           Exited(u, v, agent, at)
    PROVE  Well(v)
  <1>1. v.authority \in {u.authority, None} /\ v.persisted \in {u.persisted, None}
          /\ v.detected = agent
    BY DEF Exited
  <1>2. AuthorityOK(v)
    BY <1>1 DEF Well, AuthorityOK
  <1>3. ASSUME NEW r \in Sources
        PROVE  GateFits(v, r)
    <2> DEFINE owner == Owner(u, agent)
               gated == GatedBy(u, r, "ProcessExit") /\ AgentOf(r) = agent
    <2>1. GateFits(u, r) /\ u \in Terminals
      BY DEF Well, GateOK
    <2>2. v.suppressed[r] = IF owner # None /\ r = owner.source
                            THEN Gate(owner.session, at, "ProcessExit")
                            ELSE IF gated THEN Regate(u.suppressed[r], at)
                            ELSE u.suppressed[r]
      BY DEF Exited, GatesShut
    <2>3. ASSUME AgentOf(r) = agent, r \in Full, v.persisted # None, v.persisted.source = r
          PROVE  owner = v.persisted
      BY <2>3, ExitedOwner
    <2>4. CASE owner # None /\ r = owner.source
      <3>1. owner.session \in AllSessions \cup {None} /\ AgentOf(r) = agent
        BY <2>1, <2>4, OwnerFacts
      <3>2. v.suppressed[r] = Gate(owner.session, at, "ProcessExit")
        BY <2>2, <2>4
      <3> HIDE DEF owner
      <3>3. LET g == v.suppressed[r] IN
            /\ g.session = owner.session /\ g.reason = "ProcessExit"
            /\ g.replacement = None /\ g.pending = None
        BY <3>1, <3>2, GateFields
      <3> QED BY <2>3, <3>1, <3>3 DEF GateFits
    <2>5. CASE ~(owner # None /\ r = owner.source) /\ gated
      <3>1. u.suppressed[r] \in Gates
        BY <2>1, <2>5, GateTypes DEF GatedBy
      <3>2. LET g == v.suppressed[r] IN
            g.reason = "ProcessExit" /\ g.replacement = None /\ g.pending = None
        BY <2>2, <2>5, <3>1, RegateFields
      <3>3. ~(r \in Full /\ v.persisted # None /\ v.persisted.source = r)
        BY <2>3, <2>5
      <3> QED BY <3>2, <3>3 DEF GateFits
    <2>6. CASE ~(owner # None /\ r = owner.source) /\ ~gated
      <3>1. v.suppressed[r] = u.suppressed[r]
        BY <2>2, <2>6
      <3>2. r \in Full /\ v.persisted # None /\ v.persisted.source = r => AgentOf(r) # agent
        BY <2>3, <2>6
      <3> QED BY <1>1, <2>1, <3>1, <3>2 DEF GateFits
    <2> QED BY <2>4, <2>5, <2>6
  <1> QED BY <1>2, <1>3 DEF Well, GateOK

LEMMA ReplacesWell ==
    ASSUME Instance, NEW u, Well(u), NEW v \in Terminals, NEW agent, Replaces(u, v, agent),
           u.detected = agent
    PROVE  Well(v)
  <1>1. AuthorityOK(v)
    BY DEF AuthorityOK, Replaces
  <1>2. u.authority \in Reports /\ u.authority # None
    BY DEF Well, Terminals, Replaces
  <1>3. v.persisted # None => /\ v.persisted.source = u.authority.source
                              /\ v.persisted.session = u.authority.session
    BY <1>2, DurableFields DEF Replaces
  <1>4. ASSUME NEW r \in Sources
        PROVE  GateFits(v, r)
    <2>1. GateFits(u, r)
      BY DEF Well, GateOK
    <2>2. CASE u.authority.source \in Full /\ u.authority.source = r
      <3>1. u.authority.session \in AllSessions \cup {None} /\ clock \in Times
        BY <1>2 DEF Reports, Instance
      <3>2. v.suppressed[r] = Gate(u.authority.session, clock, "HookClear")
        BY <2>2 DEF Replaces
      <3>3. LET g == v.suppressed[r] IN
            /\ g.session = u.authority.session /\ g.reason = "HookClear"
            /\ g.replacement = None /\ g.pending = None
        BY <3>1, <3>2, GateFields
      <3>4. v.authority = None /\ v.detected # AgentOf(r)
        BY <1>2, <2>2 DEF Replaces, HookAgent
      <3> QED BY <1>3, <2>2, <3>3, <3>4 DEF GateFits
    <2>3. CASE ~(u.authority.source \in Full /\ u.authority.source = r)
      <3>1. v.suppressed[r] = u.suppressed[r] /\ v.authority = None
        BY <2>3 DEF Replaces
      <3>2. ~(r \in Full /\ v.persisted # None /\ v.persisted.source = r)
        BY <1>3, <2>3
      <3> QED BY <2>1, <3>1, <3>2 DEF GateFits
    <2> QED BY <2>2, <2>3
  <1> QED BY <1>1, <1>4 DEF Well, GateOK

-----------------------------------------------------------------------------
(* Exits are final.                                                        *)

\* No report of a source that has authority, or waits for it, was made before
\* the exit of its agent was handled.
Timely(u, exits, s) ==
    exits[s] # None =>
        /\ exits[s] <= clock
        /\ u.authority # None /\ u.authority.source = s /\ s \in Full
             => u.authority.at >= exits[s]
        /\ u.suppressed[s] # None /\ u.suppressed[s].pending # None
             => u.suppressed[s].pending.at >= exits[s]

\* Only a later report of a custom source stands for an exited agent.
Silent(u) ==
    u.exit # None /\ u.authority # None /\ HookAgent(u) = u.exit.agent
        /\ u.authority.source \notin Official
      => u.authority.at > u.exit.at

Past(u, exits) ==
    /\ exits \in [Sources -> Times \cup {None}]
    /\ \A s \in Sources : Timely(u, exits, s)
    /\ Silent(u)

LEMMA KeptPast ==
    ASSUME NEW u, NEW exits, Past(u, exits), NEW v, Kept(u, v)
    PROVE  Past(v, exits)
  BY DEF Past, Timely, Silent, HookAgent, Kept

LEMMA HookPast ==
    ASSUME Instance, NEW u, Well(u), NEW exits, Past(u, exits), NEW v \in Terminals,
           NEW s \in Sources, NEW ref, NEW state, NEW seq,
           \/ Kept(u, v)
           \/ Waiting(u, v, s, ref, seq)
           \/ Taken(u, v, s, ref, state, seq) /\ Takes(u, s, ref),
           s \notin Official \ (Full \cup IdentityOnly)
    PROVE  Past(v, exits)
  <1>1. clock \in Nat /\ Times \subseteq Nat
    BY SetupFacts
  <1>2. \A r \in Sources : exits[r] # None => exits[r] \in Nat /\ exits[r] <= clock
    BY <1>1 DEF Past, Timely
  <1>3. \A r \in Sources : exits[r] # None => clock >= exits[r]
    BY <1>1, <1>2
  <1>4. CASE Waiting(u, v, s, ref, seq)
    <2>1. Silent(v)
      BY <1>4 DEF Past, Silent, HookAgent, Waiting
    <2>2. ASSUME NEW r \in Sources
          PROVE  Timely(v, exits, r)
      <3>1. Timely(u, exits, r)
        BY DEF Past
      <3>2. CASE r # s
        BY <1>4, <3>1, <3>2 DEF Timely, Waiting
      <3>3. CASE r = s
        BY <1>3, <1>4, <3>1, <3>3 DEF Timely, Waiting
      <3> QED BY <3>2, <3>3
    <2> QED BY <2>1, <2>2 DEF Past
  <1>5. CASE Taken(u, v, s, ref, state, seq) /\ Takes(u, s, ref)
    <2>1. v.authority.source = s /\ v.authority.at = clock /\ v.exit = u.exit
      BY <1>5 DEF Taken
    <2>2. Silent(v)
      <3>1. ASSUME v.exit # None, v.authority # None, HookAgent(v) = v.exit.agent, s \notin Official
            PROVE  FALSE
        <4>1. AgentOf(s) = u.exit.agent
          BY <2>1, <3>1 DEF HookAgent
        <4>2. s \notin Full
          BY <3>1, SourceFacts
        <4> QED BY <1>5, <2>1, <3>1, <4>1, <4>2 DEF Takes, AfterExit
      <3> QED BY <2>1, <3>1 DEF Silent
    <2>3. ASSUME NEW r \in Sources
          PROVE  Timely(v, exits, r)
      <3>1. Timely(u, exits, r) /\ u \in Terminals
        BY DEF Past, Well
      <3> DEFINE shuts == OwnerConflicts(u, s) /\ u.authority # None
                            /\ u.authority.source \in Full /\ u.authority.source = r
      <3>2. \/ v.suppressed[r] \in {None, u.suppressed[r]}
            \/ v.suppressed[r] = Gate(u.authority.session, clock, "HookClear") /\ shuts
        BY <1>5 DEF Taken
      <3>3. CASE v.suppressed[r] \in {None, u.suppressed[r]}
        BY <1>3, <2>1, <3>1, <3>3 DEF Timely
      <3>4. CASE v.suppressed[r] = Gate(u.authority.session, clock, "HookClear") /\ shuts
        <4>1. u.authority.session \in AllSessions \cup {None} /\ clock \in Times
          BY <3>1, <3>4 DEF Terminals, Reports, Instance
        <4>2. v.suppressed[r].pending = None
          BY <3>4, <4>1, GateFields
        <4> QED BY <1>3, <2>1, <3>1, <4>2 DEF Timely
      <3> QED BY <3>2, <3>3, <3>4
    <2> QED BY <2>2, <2>3 DEF Past
  <1> QED BY <1>4, <1>5, KeptPast

LEMMA AnnouncesPast ==
    ASSUME NEW u, NEW exits, Past(u, exits), NEW v, NEW s \in Sources, NEW ref,
           Announces(u, v, s, ref)
    PROVE  Past(v, exits)
  <1>1. Silent(v)
    BY DEF Past, Silent, HookAgent, Announces
  <1>2. ASSUME NEW r \in Sources
        PROVE  Timely(v, exits, r)
    <2>1. Timely(u, exits, r)
      BY DEF Past
    <2>2. CASE r # s
      BY <2>1, <2>2 DEF Timely, Announces
    <2>3. CASE r = s /\ u.suppressed[s] = None
      BY <2>1, <2>3 DEF Timely, Announces
    <2>4. CASE r = s /\ u.suppressed[s] # None
      BY <2>1, <2>4 DEF Timely, Announces
    <2> QED BY <2>2, <2>3, <2>4
  <1> QED BY <1>1, <1>2 DEF Past

LEMMA OpenPast ==
    ASSUME NEW u, Well(u), NEW exits, Past(u, exits), NEW v, NEW agent, GatesOpen(u, v, agent),
           v.exit = None
    PROVE  Past(v, exits)
  <1>1. Silent(v)
    BY DEF Silent
  <1>2. ASSUME NEW r \in Sources
        PROVE  Timely(v, exits, r)
    <2>1. Timely(u, exits, r) /\ GateFits(u, r)
      BY DEF Past, Well, GateOK
    <2>2. v.suppressed[r] \in {None, u.suppressed[r]}
      BY DEF GatesOpen
    <2>3. \/ v.authority = u.authority
          \/ \E s \in Started(u, agent) :
               u.suppressed[s].pending # None /\ v.authority = u.suppressed[s].pending
      BY DEF GatesOpen
    <2>4. CASE v.authority = u.authority
      BY <2>1, <2>2, <2>4 DEF Timely
    <2>5. ASSUME NEW s \in Started(u, agent), u.suppressed[s].pending # None,
                 v.authority = u.suppressed[s].pending
          PROVE  Timely(v, exits, r)
      <3>1. s \in Sources /\ u.suppressed[s] # None
        BY DEF Started, GatedBy
      <3>2. GateFits(u, s)
        BY <3>1 DEF Well, GateOK
      <3>3. v.authority.source = s
        BY <2>5, <3>1, <3>2 DEF GateFits
      <3>4. Timely(u, exits, s)
        BY <3>1 DEF Past
      <3>5. r # s => Timely(v, exits, r)
        BY <2>1, <2>2, <3>3 DEF Timely
      <3>6. r = s => Timely(v, exits, r)
        BY <2>2, <2>5, <3>1, <3>4 DEF Timely
      <3> QED BY <3>5, <3>6
    <2> QED BY <2>3, <2>4, <2>5
  <1> QED BY <1>1, <1>2 DEF Past

\* A terminal whose report and buffered reports are among those before.
LEMMA FewerPast ==
    ASSUME NEW u, NEW exits, Past(u, exits), NEW v, v.exit \in {u.exit, None},
           v.authority \in {u.authority, None},
           \A r \in Sources : \/ v.suppressed[r] \in {u.suppressed[r], None}
                              \/ v.suppressed[r].pending = None
    PROVE  Past(v, exits)
  <1>1. Silent(v)
    BY DEF Past, Silent, HookAgent
  <1>2. ASSUME NEW r \in Sources
        PROVE  Timely(v, exits, r)
    <2>1. Timely(u, exits, r)
      BY DEF Past
    <2> QED BY <2>1 DEF Timely
  <1> QED BY <1>1, <1>2 DEF Past

\* The gate made for a full source's report holds no report.
LEMMA ShutPending ==
    ASSUME Instance, NEW u, Well(u), u.authority # None, NEW v, NEW r \in Sources,
           \/ v.suppressed[r] = u.suppressed[r]
           \/ v.suppressed[r] = Gate(u.authority.session, clock, "HookClear")
    PROVE  v.suppressed[r] = u.suppressed[r] \/ v.suppressed[r].pending = None
  <1>1. u.authority.session \in AllSessions \cup {None} /\ clock \in Times
    BY DEF Well, Terminals, Reports, Instance
  <1> QED BY <1>1, GateFields

LEMMA RecordedPast ==
    ASSUME Instance, NEW u, Well(u), NEW exits, Past(u, exits), NEW v, NEW s, NEW ref, NEW start,
           Recorded(u, v, s, ref, start)
    PROVE  Past(v, exits)
  <1>1. \A r \in Sources : \/ v.suppressed[r] = u.suppressed[r]
                           \/ v.suppressed[r].pending = None
    BY ShutPending DEF Recorded
  <1>2. v.exit = u.exit /\ v.authority \in {u.authority, None}
    BY DEF Recorded
  <1> QED BY <1>1, <1>2, FewerPast

LEMMA ClearsPast ==
    ASSUME Instance, NEW u, Well(u), NEW exits, Past(u, exits), NEW v, Clears(u, v)
    PROVE  Past(v, exits)
  <1>1. \A r \in Sources : \/ v.suppressed[r] = u.suppressed[r]
                           \/ v.suppressed[r].pending = None
    BY ShutPending DEF Clears
  <1>2. v.exit = u.exit /\ v.authority \in {u.authority, None}
    BY DEF Clears
  <1> QED BY <1>1, <1>2, FewerPast

LEMMA ReplacesPast ==
    ASSUME Instance, NEW u, Well(u), NEW exits, Past(u, exits), NEW v, NEW agent,
           Replaces(u, v, agent)
    PROVE  Past(v, exits)
  <1>1. \A r \in Sources : \/ v.suppressed[r] = u.suppressed[r]
                           \/ v.suppressed[r].pending = None
    BY ShutPending DEF Replaces
  <1>2. v.exit = u.exit /\ v.authority \in {u.authority, None}
    BY DEF Replaces
  <1> QED BY <1>1, <1>2, FewerPast

LEMMA ReleasesPast ==
    ASSUME NEW u, NEW exits, Past(u, exits), NEW v, Releases(u, v)
    PROVE  Past(v, exits)
  BY FewerPast DEF Releases

LEMMA SeenBeforePast ==
    ASSUME NEW u, NEW exits, Past(u, exits), NEW v, NEW agent, SeenBefore(u, v, agent)
    PROVE  Past(v, exits)
  BY FewerPast DEF SeenBefore

LEMMA ExitedPast ==
    ASSUME Instance, NEW u, Well(u), NEW exits, Past(u, exits), NEW v, NEW agent, NEW at \in Times,
           Exited(u, v, agent, at)
    PROVE  Past(v, [s \in Sources |-> IF AgentOf(s) = agent THEN clock ELSE exits[s]])
  <1> DEFINE exits2 == [s \in Sources |-> IF AgentOf(s) = agent THEN clock ELSE exits[s]]
  <1>1. exits2 \in [Sources -> Times \cup {None}]
    BY DEF Past, Instance
  <1>2. v.authority # None => /\ v.authority = u.authority
                              /\ HookAgent(u) = agent => OutlivesExit(u, agent, at)
    BY DEF Exited
  <1>3. Silent(v)
    <2>1. v.exit.agent = agent /\ v.exit.at = at
      BY DEF Exited
    <2> QED BY <1>2, <2>1 DEF Silent, HookAgent, OutlivesExit
  <1>4. ASSUME NEW r \in Sources
        PROVE  Timely(v, exits2, r)
    <2> DEFINE owner == Owner(u, agent)
               gated == GatedBy(u, r, "ProcessExit") /\ AgentOf(r) = agent
    <2>1. Timely(u, exits, r) /\ GateFits(u, r) /\ u \in Terminals
      BY DEF Past, Well, GateOK
    <2>2. v.suppressed[r] = IF owner # None /\ r = owner.source
                            THEN Gate(owner.session, at, "ProcessExit")
                            ELSE IF gated THEN Regate(u.suppressed[r], at)
                            ELSE u.suppressed[r]
      BY DEF Exited, GatesShut
    <2>3. owner # None => owner.session \in AllSessions \cup {None} /\ AgentOf(owner.source) = agent
      BY <2>1, OwnerFacts
    <2> HIDE DEF owner
    <2>4. \/ v.suppressed[r] = u.suppressed[r] /\ ~gated
          \/ v.suppressed[r].pending = None /\ AgentOf(r) = agent
      <3>1. CASE owner # None /\ r = owner.source
        BY <2>2, <2>3, <3>1, GateFields
      <3>2. CASE ~(owner # None /\ r = owner.source) /\ gated
        <4>1. u.suppressed[r] \in Gates
          BY <2>1, <3>2, GateTypes DEF GatedBy
        <4> QED BY <2>2, <3>2, <4>1, RegateFields
      <3>3. CASE ~(owner # None /\ r = owner.source) /\ ~gated
        BY <2>2, <3>3
      <3> QED BY <3>1, <3>2, <3>3
    <2>5. CASE AgentOf(r) # agent
      <3>1. exits2[r] = exits[r]
        BY <2>5
      <3> QED BY <1>2, <2>1, <2>4, <2>5, <3>1 DEF Timely
    <2>6. CASE AgentOf(r) = agent
      <3>1. exits2[r] = clock /\ clock <= clock
        BY <2>6, SetupFacts
      <3>2. ~(v.authority # None /\ v.authority.source = r /\ r \in Full)
        BY <1>2, <2>6, SourceFacts DEF HookAgent, OutlivesExit
      <3>3. ~(v.suppressed[r] # None /\ v.suppressed[r].pending # None)
        BY <2>1, <2>4, <2>6 DEF GateFits, GatedBy
      <3> QED BY <3>1, <3>2, <3>3 DEF Timely
    <2> QED BY <2>5, <2>6
  <1> QED BY <1>1, <1>3, <1>4 DEF Past

-----------------------------------------------------------------------------
(* The invariant.                                                          *)

IInv ==
    /\ Instance /\ observed \in 0 .. clock
    /\ saved \in Persisted /\ dirty \in BOOLEAN
    /\ Well(t) /\ StateAgrees /\ Past(t, exitedAt)
    /\ SavedUnlessDirty

LEMMA FrameSetup ==
    ASSUME setup' = setup
    PROVE  /\ Sources' = Sources /\ Times' = Times /\ Persisted' = Persisted
           /\ Terminals' = Terminals
           /\ \A p : Fresh(p)' = Fresh(p)
  <1>1. Sources' = Sources /\ Times' = Times
    BY DEF Sources, Times
  <1>2. Persisted' = Persisted /\ Reports' = Reports /\ Exits' = Exits
    BY <1>1 DEF Persisted, Reports, Exits
  <1>3. Gates' = Gates
    BY <1>1, <1>2 DEF Gates
  <1>4. Terminals' = Terminals
    BY <1>1, <1>2, <1>3 DEF Terminals
  <1>5. \A p : Fresh(p)' = Fresh(p)
    BY <1>1 DEF Fresh
  <1> QED BY <1>1, <1>2, <1>4, <1>5

\* Instances do not change, and the clock does not go back.
LEMMA Frame ==
    ASSUME Instance, setup' = setup, clock' \in Times, clock' >= clock
    PROVE  /\ Instance'
           /\ Well(t') => Well(t)'
           /\ Past(t', exitedAt') => Past(t, exitedAt)'
  <1>1. Sources' = Sources /\ Times' = Times /\ Terminals' = Terminals
    BY FrameSetup
  <1>2. Instance'
    BY <1>1 DEF Instance
  <1>3. Well(t') => Well(t)'
    BY <1>1 DEF Well, GateOK, GateFits, AuthorityOK
  <1>4. ASSUME Past(t', exitedAt'), NEW s \in Sources
        PROVE  Timely(t, exitedAt, s)'
    <2>1. Timely(t', exitedAt', s)
      BY <1>4 DEF Past
    <2>2. clock \in Nat /\ clock' \in Nat
      BY SetupFacts
    <2>3. exitedAt'[s] # None => exitedAt'[s] \in Nat
      BY <1>4, SetupFacts DEF Past
    <2> QED BY <2>1, <2>2, <2>3 DEF Timely
  <1>5. Past(t', exitedAt') => Past(t, exitedAt)'
    BY <1>1, <1>4 DEF Past, Silent, HookAgent
  <1> QED BY <1>2, <1>3, <1>5

\* A terminal that knows nothing but a session on record.
Blank(u, p) ==
    /\ u \in Terminals
    /\ u.detected = None /\ u.authority = None /\ u.persisted = p /\ u.exit = None
    /\ u.suppressed = [s \in Sources |-> None] /\ u.stale = [s \in Sources |-> {}]
    /\ u.state = "Unknown" /\ u.fallback = "Unknown"

LEMMA FreshBlank ==
    ASSUME Instance, NEW p \in Persisted
    PROVE  /\ Blank(Fresh(p), p)
           /\ \A q \in [Sources -> setup.numbers \cup {None}] :
                Blank([Fresh(p) EXCEPT !.seqs = q], p)
  <1>1. Fresh(p) \in Terminals
    BY DEF Fresh, Terminals, AllStates
  <1>2. Blank(Fresh(p), p)
    BY <1>1 DEF Fresh, Blank
  <1>3. ASSUME NEW q \in [Sources -> setup.numbers \cup {None}],
               NEW u, u = Fresh(p)
        PROVE  Blank([u EXCEPT !.seqs = q], p)
    <2>1. Blank(u, p)
      BY <1>2, <1>3
    <2> QED BY <1>3, <2>1 DEF Blank, Terminals
  <1> QED BY <1>2, <1>3

\* Such a terminal is as the invariant says.
LEMMA BlankFits ==
    ASSUME NEW u, NEW p, Blank(u, p)
    PROVE  /\ Well(u) /\ u.state = StateOf(u) /\ Identity(u) = p
           /\ Past(u, [s \in Sources |-> None])
  <1>1. Well(u)
    BY DEF Blank, Well, GateOK, GateFits, AuthorityOK
  <1>2. u.state = StateOf(u) /\ Identity(u) = p
    BY DEF Blank, StateOf, VisibleBlockerOverridesHook, Effective, Identity
  <1>3. Past(u, [s \in Sources |-> None])
    BY DEF Blank, Past, Timely, Silent
  <1> QED BY <1>1, <1>2, <1>3

LEMMA InitIInv == Init => IInv
  <1> SUFFICES ASSUME Init
               PROVE  IInv
    OBVIOUS
  <1>1. setup \in Setups /\ clock = 0 /\ observed = 0
          /\ exitedAt = [s \in Sources |-> None]
    BY DEF Init
  <1>2. dirty \in BOOLEAN
    BY DEF Init
  <1>3. Instance /\ observed \in 0 .. clock
    <2>1. setup.clock \in Nat
      BY <1>1, AuthorityAssumption
    <2> QED BY <1>1, <2>1 DEF Instance, Times
  <1>4. \E p \in Persisted : t = Fresh(p) /\ saved = p
    <2>1. PICK p \in {None} \cup {[source |-> s, session |-> x] :
                                    s \in Official \cap Sources, x \in AllSessions} :
                 t = Fresh(p) /\ saved = p
      BY DEF Init
    <2>2. p \in Persisted
      BY DEF Persisted
    <2> QED BY <2>1, <2>2
  <1>5. PICK p \in Persisted : t = Fresh(p) /\ saved = p
    BY <1>4
  <1>6. Well(t) /\ t.state = StateOf(t) /\ Identity(t) = p /\ Past(t, exitedAt)
    BY <1>1, <1>3, <1>5, FreshBlank, BlankFits
  <1> QED BY <1>2, <1>3, <1>5, <1>6 DEF IInv, StateAgrees, SavedUnlessDirty

\* An event's handler keeps the invariant if its result is as the invariant says.
LEMMA UpdateIInv ==
    ASSUME IInv, NEW r, NEW announced, Update(r, announced), Settled(t, r), Well(r.term),
           UNCHANGED <<setup, clock>>, observed' \in 0 .. clock, Past(r.term, exitedAt')
    PROVE  IInv'
  <1>1. t' = r.term /\ dirty' = (dirty \/ r.told) /\ saved' = saved
    BY DEF Update
  <1>2. Instance /\ clock' = clock /\ clock \in Times /\ clock \in Nat /\ setup' = setup
    BY SetupFacts DEF IInv, Instance
  <1>3. Well(t') /\ Past(t', exitedAt')
    BY <1>1
  <1>4. Instance' /\ Well(t)' /\ Past(t, exitedAt)'
    BY <1>2, <1>3, Frame
  <1>5. StateAgrees'
    BY <1>1 DEF IInv, StateAgrees, Settled
  <1>6. SavedUnlessDirty'
    BY <1>1 DEF IInv, SavedUnlessDirty, Settled
  <1>7. saved' \in Persisted' /\ dirty' \in BOOLEAN /\ observed' \in 0 .. clock'
    BY <1>1, <1>2, FrameSetup DEF IInv
  <1> QED BY <1>4, <1>5, <1>6, <1>7 DEF IInv

\* A hook's report, a session report and an observation keep what the invariant
\* says of the terminal.
LEMMA HookKeeps ==
    ASSUME Instance, NEW u, Well(u), NEW exits, Past(u, exits), NEW s \in Sources,
           NEW ref \in AllSessions \cup {None}, NEW state \in States,
           NEW seq \in setup.numbers \cup {None}, s \notin Official \ (Full \cup IdentityOnly)
    PROVE  LET r == HookState(u, s, ref, state, seq) IN
           Settled(u, r) /\ Well(r.term) /\ Past(r.term, exits)
  <1> DEFINE r == HookState(u, s, ref, state, seq)
  <1>1. /\ Settled(u, r)
        /\ \/ Kept(u, r.term)
           \/ Waiting(u, r.term, s, ref, seq)
           \/ Taken(u, r.term, s, ref, state, seq) /\ Takes(u, s, ref)
    BY HookResult
  <1> HIDE DEF r
  <1>2. r.term \in Terminals
    BY <1>1 DEF Settled
  <1>3. Well(r.term)
    BY <1>1, <1>2, KeptWell, WaitingWell, TakenWell
  <1>4. Past(r.term, exits)
    BY <1>1, <1>2, HookPast
  <1> QED BY <1>1, <1>3, <1>4 DEF r

LEMMA SessionKeeps ==
    ASSUME Instance, NEW u, Well(u), NEW exits, Past(u, exits), NEW s \in Sources,
           NEW ref \in AllSessions \cup {None}, NEW seq \in setup.numbers \cup {None}, NEW start
    PROVE  LET r == SessionRef(u, s, ref, seq, start) IN
           Settled(u, r) /\ Well(r.term) /\ Past(r.term, exits)
  <1> DEFINE r == SessionRef(u, s, ref, seq, start)
  <1>1. /\ Settled(u, r)
        /\ \/ Kept(u, r.term)
           \/ Announces(u, r.term, s, ref)
           \/ /\ s \in Full /\ ProcessPresent(u, AgentOf(s)) /\ r.term.detected = u.detected
              /\ r.term.exit = u.exit
              /\ \E w \in Terminals : Announces(u, w, s, ref)
                                        /\ GatesOpen(w, r.term, AgentOf(s))
           \/ Recorded(u, r.term, s, ref, start) /\ Records(u, s, ref, start)
    BY SessionResult
  <1> HIDE DEF r
  <1>2. r.term \in Terminals
    BY <1>1 DEF Settled
  <1>3. ASSUME ProcessPresent(u, AgentOf(s)), r.term.detected = u.detected,
               r.term.exit = u.exit,
               NEW w \in Terminals, Announces(u, w, s, ref), GatesOpen(w, r.term, AgentOf(s))
        PROVE  Well(r.term) /\ Past(r.term, exits)
    <2>1. Well(w) /\ Past(w, exits)
      BY <1>3, AnnouncesWell, AnnouncesPast
    <2>2. r.term.detected = AgentOf(s) /\ r.term.exit = None
      BY <1>3 DEF ProcessPresent
    <2> QED BY <1>2, <1>3, <2>1, <2>2, OpenWell, OpenPast
  <1>4. ASSUME Kept(u, r.term)
        PROVE  Well(r.term) /\ Past(r.term, exits)
    BY <1>2, <1>4, KeptWell, KeptPast
  <1>5. ASSUME Announces(u, r.term, s, ref)
        PROVE  Well(r.term) /\ Past(r.term, exits)
    BY <1>2, <1>5, AnnouncesWell, AnnouncesPast
  <1>6. ASSUME Recorded(u, r.term, s, ref, start), Records(u, s, ref, start)
        PROVE  Well(r.term) /\ Past(r.term, exits)
    BY <1>2, <1>6, RecordedWell, RecordedPast
  <1>7. Well(r.term) /\ Past(r.term, exits)
    BY <1>1, <1>3, <1>4, <1>5, <1>6
  <1> QED BY <1>1, <1>7 DEF r

LEMMA DetectedKeeps ==
    ASSUME Instance, NEW u, Well(u), Past(u, exitedAt), NEW agent \in Agents \cup {None},
           NEW state \in AllStates, NEW blocker \in BOOLEAN, NEW exited \in BOOLEAN,
           NEW at \in Times, exited => agent # None
    PROVE  LET v == Detected(u, agent, state, blocker, exited, at) IN
           /\ Well(v) /\ v.state = StateOf(v)
           /\ Past(v, IF exited THEN ExitHandled(agent) ELSE exitedAt)
  <1> DEFINE v == Detected(u, agent, state, blocker, exited, at)
             exits == IF exited THEN ExitHandled(agent) ELSE exitedAt
  <1>1. /\ v \in Terminals /\ v.state = StateOf(v)
        /\ \/ ~exited /\ Kept(u, v)
           \/ \E e \in Terminals :
                /\ \/ ~exited /\ (SeenBefore(u, e, agent) \/ SeenNew(u, e, agent))
                   \/ exited /\ Exited(u, e, agent, at)
                /\ Kept(e, v) \/ Replaces(e, v, agent)
    BY DetectedResult
  <1> HIDE DEF v
  <1>2. ASSUME NEW e \in Terminals,
               \/ ~exited /\ (SeenBefore(u, e, agent) \/ SeenNew(u, e, agent))
               \/ exited /\ Exited(u, e, agent, at)
        PROVE  Well(e) /\ Past(e, exits) /\ e.detected = agent
    <2>1. CASE ~exited /\ SeenBefore(u, e, agent)
      BY <2>1, SeenBeforeWell, SeenBeforePast DEF SeenBefore
    <2>2. CASE ~exited /\ SeenNew(u, e, agent)
      BY <2>2, OpenWell, OpenPast DEF SeenNew
    <2>3. CASE exited /\ Exited(u, e, agent, at)
      <3>1. Well(e) /\ e.detected = agent
        BY <2>3, ExitedWell DEF Exited
      <3>2. Past(e, [s \in Sources |-> IF AgentOf(s) = agent THEN clock ELSE exitedAt[s]])
        BY <2>3, ExitedPast
      <3> QED BY <2>3, <3>1, <3>2 DEF ExitHandled
    <2> QED BY <1>2, <2>1, <2>2, <2>3
  <1>3. ASSUME NEW e \in Terminals, Well(e), Past(e, exits), e.detected = agent,
               Kept(e, v) \/ Replaces(e, v, agent)
        PROVE  Well(v) /\ Past(v, exits)
    <2> HIDE DEF exits
    <2>1. Kept(e, v) => Well(v) /\ Past(v, exits)
      BY <1>1, <1>3, KeptWell, KeptPast
    <2>2. Replaces(e, v, agent) => Well(v) /\ Past(v, exits)
      BY <1>1, <1>3, ReplacesWell, ReplacesPast
    <2> QED BY <1>3, <2>1, <2>2
  <1>4. ASSUME ~exited, Kept(u, v)
        PROVE  Well(v) /\ Past(v, exits)
    BY <1>1, <1>4, KeptWell, KeptPast
  <1>5. Well(v) /\ Past(v, exits)
    BY <1>1, <1>2, <1>3, <1>4
  <1> QED BY <1>1, <1>5 DEF v

LEMMA ReportStateIInv == IInv /\ ReportState => IInv'
  <1> SUFFICES ASSUME IInv, ReportState
               PROVE  IInv'
    OBVIOUS
  <1>1. Instance /\ Well(t) /\ Past(t, exitedAt)
    BY DEF IInv
  <1>2. UNCHANGED <<setup, clock, exitedAt>> /\ observed' \in 0 .. clock
    BY DEF IInv, ReportState
  <1>3. PICK s \in Sources, state \in setup.states, seq \in setup.numbers : \E ref \in Refs(s) :
          LET result == IF s \in Official \ (Full \cup IdentityOnly)
                        THEN SessionRef(t, s, ref, seq, None)
                        ELSE HookState(t, s, ref, state, seq)
          IN  Update(result, TakenFor(s, ref, result.term))
    BY DEF ReportState
  <1>4. PICK ref \in Refs(s) :
          LET result == IF s \in Official \ (Full \cup IdentityOnly)
                        THEN SessionRef(t, s, ref, seq, None)
                        ELSE HookState(t, s, ref, state, seq)
          IN  Update(result, TakenFor(s, ref, result.term))
    BY <1>3
  <1>5. ref \in AllSessions \cup {None} /\ state \in States /\ seq \in setup.numbers \cup {None}
    BY <1>1, SessionsOfSources, SetupFacts
  <1>6. CASE s \in Official \ (Full \cup IdentityOnly)
    <2> DEFINE r == SessionRef(t, s, ref, seq, None)
    <2>1. Update(r, TakenFor(s, ref, r.term))
      BY <1>4, <1>6
    <2>2. Settled(t, r) /\ Well(r.term) /\ Past(r.term, exitedAt)
      BY <1>1, <1>5, SessionKeeps
    <2> HIDE DEF r
    <2> QED BY <1>2, <2>1, <2>2, UpdateIInv
  <1>7. CASE s \notin Official \ (Full \cup IdentityOnly)
    <2> DEFINE r == HookState(t, s, ref, state, seq)
    <2>1. Update(r, TakenFor(s, ref, r.term))
      BY <1>4, <1>7
    <2>2. Settled(t, r) /\ Well(r.term) /\ Past(r.term, exitedAt)
      BY <1>1, <1>5, <1>7, HookKeeps
    <2> HIDE DEF r
    <2> QED BY <1>2, <2>1, <2>2, UpdateIInv
  <1> QED BY <1>6, <1>7

LEMMA ReportSessionStartIInv == IInv /\ ReportSessionStart => IInv'
  <1> SUFFICES ASSUME IInv, ReportSessionStart
               PROVE  IInv'
    OBVIOUS
  <1>1. Instance /\ Well(t) /\ Past(t, exitedAt)
    BY DEF IInv
  <1>2. UNCHANGED <<setup, clock, exitedAt>> /\ observed' \in 0 .. clock
    BY DEF IInv, ReportSessionStart
  <1>3. PICK s \in Sources, seq \in setup.numbers, start \in {None} \cup setup.starts :
          \E ref \in Refs(s) :
             LET result == SessionRef(t, s, ref, seq, start)
             IN  Update(result, Announced(s, ref, result.term))
    BY DEF ReportSessionStart
  <1>4. PICK ref \in Refs(s) :
          LET result == SessionRef(t, s, ref, seq, start)
          IN  Update(result, Announced(s, ref, result.term))
    BY <1>3
  <1> DEFINE r == SessionRef(t, s, ref, seq, start)
  <1>5. ref \in AllSessions \cup {None} /\ seq \in setup.numbers \cup {None}
    BY <1>1, SessionsOfSources
  <1>6. Settled(t, r) /\ Well(r.term) /\ Past(r.term, exitedAt)
    BY <1>1, <1>5, SessionKeeps
  <1>7. Update(r, Announced(s, ref, r.term))
    BY <1>4
  <1> HIDE DEF r
  <1> QED BY <1>2, <1>6, <1>7, UpdateIInv

LEMMA ClearAuthorityIInv == IInv /\ ClearAuthority => IInv'
  <1> SUFFICES ASSUME IInv, ClearAuthority
               PROVE  IInv'
    OBVIOUS
  <1>1. Instance /\ Well(t) /\ Past(t, exitedAt)
    BY DEF IInv
  <1>2. UNCHANGED <<setup, clock, exitedAt>> /\ observed' \in 0 .. clock
    BY DEF IInv, ClearAuthority
  <1>3. PICK source \in Sources \cup {None}, seq \in setup.numbers :
          Update(Clear(t, source, seq), {})
    BY DEF ClearAuthority
  <1> DEFINE r == Clear(t, source, seq)
  <1>4. Settled(t, r) /\ (Kept(t, r.term) \/ Clears(t, r.term))
    BY <1>1, ClearResult
  <1>5. Update(r, {})
    BY <1>3
  <1> HIDE DEF r
  <1>6. Well(r.term) /\ Past(r.term, exitedAt)
    BY <1>1, <1>4, KeptWell, ClearsWell, KeptPast, ClearsPast DEF Settled
  <1> QED BY <1>2, <1>4, <1>5, <1>6, UpdateIInv

LEMMA ReleaseAgentIInv == IInv /\ ReleaseAgent => IInv'
  <1> SUFFICES ASSUME IInv, ReleaseAgent
               PROVE  IInv'
    OBVIOUS
  <1>1. Instance /\ Well(t) /\ Past(t, exitedAt)
    BY DEF IInv
  <1>2. UNCHANGED <<setup, clock, exitedAt>> /\ observed' \in 0 .. clock
    BY DEF IInv, ReleaseAgent
  <1>3. PICK s \in Sources \ Official, seq \in setup.numbers : Update(Release(t, s, seq), {})
    BY DEF ReleaseAgent
  <1> DEFINE r == Release(t, s, seq)
  <1>4. Settled(t, r) /\ (Kept(t, r.term) \/ Releases(t, r.term))
    BY <1>1, ReleaseResult
  <1>5. Update(r, {})
    BY <1>3
  <1> HIDE DEF r
  <1>6. Well(r.term) /\ Past(r.term, exitedAt)
    BY <1>1, <1>4, KeptWell, ReleasesWell, KeptPast, ReleasesPast DEF Settled
  <1> QED BY <1>2, <1>4, <1>5, <1>6, UpdateIInv

LEMMA DetectionResultIInv == IInv /\ DetectionResult => IInv'
  <1> SUFFICES ASSUME IInv, DetectionResult
               PROVE  IInv'
    OBVIOUS
  <1>1. Instance /\ Well(t) /\ Past(t, exitedAt)
    BY DEF IInv
  <1>2. PICK agent \in setup.agents \cup {None}, state \in setup.states \cup {"Unknown"},
             blocker \in BOOLEAN, exited \in BOOLEAN, at \in observed .. clock :
          /\ exited => agent # None /\ state = "Idle"
          /\ LET v == Detected(t, agent, state, blocker, exited, at)
             IN  Update([term |-> v, told |-> Identity(t) # Identity(v)], {})
          /\ observed' = at
          /\ exitedAt' = IF exited THEN ExitHandled(agent) ELSE exitedAt
          /\ UNCHANGED <<setup, clock>>
    BY DEF DetectionResult
  <1> DEFINE v == Detected(t, agent, state, blocker, exited, at)
             r == [term |-> v, told |-> Identity(t) # Identity(v)]
  <1>3. agent \in Agents \cup {None} /\ state \in AllStates
    <2>1. setup.agents \subseteq Agents /\ setup.states \subseteq AllStates
      BY <1>1, SetupFacts, SourceFacts
    <2>2. "Unknown" \in AllStates
      BY DEF AllStates
    <2> QED BY <2>1, <2>2
  <1>4. at \in 0 .. clock /\ at \in Times
    <2>1. clock \in Nat /\ clock \in Times /\ setup.clock \in Nat
      BY <1>1, SetupFacts DEF Instance
    <2>2. observed \in 0 .. clock
      BY DEF IInv
    <2> QED BY <2>1, <2>2 DEF Times
  <1>5. /\ Well(v) /\ v.state = StateOf(v)
        /\ Past(v, IF exited THEN ExitHandled(agent) ELSE exitedAt)
    BY <1>1, <1>2, <1>3, <1>4, DetectedKeeps
  <1> HIDE DEF v
  <1>6. Settled(t, r) /\ r.term = v
    BY <1>5 DEF Settled, Well
  <1>7. Update(r, {})
    BY <1>2 DEF v
  <1> HIDE DEF r
  <1> QED BY <1>2, <1>4, <1>5, <1>6, <1>7, UpdateIInv

LEMMA PaneExitsIInv == IInv /\ PaneExits => IInv'
  <1> SUFFICES ASSUME IInv, PaneExits
               PROVE  IInv'
    OBVIOUS
  <1>1. Instance /\ Well(t) /\ Past(t, exitedAt) /\ clock \in Times
    BY DEF IInv, Instance
  <1> DEFINE agent == IF EffectiveLabel(t) \in Agents THEN EffectiveLabel(t) ELSE t.detected
             v == Detected(t, agent, "Idle", FALSE, TRUE, clock)
             r == [term |-> v, told |-> Identity(t) # Identity(v)]
  <1>2. /\ agent # None /\ Update(r, {}) /\ exitedAt' = ExitHandled(agent)
        /\ UNCHANGED <<setup, clock, observed>>
    BY DEF PaneExits
  <1>3. agent \in Agents \cup {None}
    BY <1>1 DEF Well, Terminals
  <1> HIDE DEF agent
  <1>4. Well(v) /\ v.state = StateOf(v) /\ Past(v, ExitHandled(agent))
    BY <1>1, <1>2, <1>3, DetectedKeeps DEF AllStates
  <1> HIDE DEF v
  <1>5. Settled(t, r) /\ r.term = v
    BY <1>4 DEF Settled, Well
  <1>6. observed' \in 0 .. clock
    BY <1>2 DEF IInv
  <1> HIDE DEF r
  <1> QED BY <1>2, <1>4, <1>5, <1>6, UpdateIInv

\* A terminal that starts afresh keeps the invariant.
LEMMA FreshIInv ==
    ASSUME IInv, NEW p \in Persisted, Blank(t', p), UNCHANGED <<setup, clock, observed>>,
           exitedAt' = [s \in Sources |-> None], saved' \in Persisted,
           \/ dirty' = TRUE
           \/ dirty' = FALSE /\ saved' = p
    PROVE  IInv'
  <1>1. Instance /\ clock \in Times /\ clock \in Nat
    BY SetupFacts DEF IInv, Instance
  <1>2. Well(t') /\ t'.state = StateOf(t') /\ Identity(t') = p /\ Past(t', exitedAt')
    BY BlankFits
  <1>3. Instance' /\ Well(t)' /\ Past(t, exitedAt)'
    BY <1>1, <1>2, Frame
  <1>4. StateAgrees'
    BY <1>2 DEF StateAgrees
  <1>5. dirty' \in BOOLEAN /\ SavedUnlessDirty'
    BY <1>2 DEF SavedUnlessDirty
  <1>6. saved' \in Persisted' /\ observed' \in 0 .. clock'
    BY FrameSetup DEF IInv
  <1> QED BY <1>3, <1>4, <1>5, <1>6 DEF IInv

LEMMA RespawnIInv == IInv /\ Respawn => IInv'
  <1> SUFFICES ASSUME IInv, Respawn
               PROVE  IInv'
    OBVIOUS
  <1>1. Instance /\ t.seqs \in [Sources -> setup.numbers \cup {None}] /\ None \in Persisted
    BY DEF IInv, Well, Terminals, Persisted
  <1>2. t' = [Fresh(None) EXCEPT !.seqs = t.seqs]
    BY DEF Respawn
  <1>3. Blank(t', None)
    BY <1>1, <1>2, FreshBlank
  <1>4. saved' \in Persisted /\ UNCHANGED <<setup, clock, observed>> /\ dirty' = TRUE
          /\ exitedAt' = [s \in Sources |-> None]
    BY DEF IInv, Respawn
  <1> QED BY <1>1, <1>3, <1>4, FreshIInv

LEMMA RestartIInv == IInv /\ Restart => IInv'
  <1> SUFFICES ASSUME IInv, Restart
               PROVE  IInv'
    OBVIOUS
  <1> DEFINE p == IF saved # None /\ saved.source \in Official THEN saved ELSE None
  <1>1. Instance /\ p \in Persisted
    BY DEF IInv, Persisted
  <1>2. t' = Fresh(p) /\ saved' = t'.persisted
    BY DEF Restart
  <1> HIDE DEF p
  <1>3. Blank(t', p)
    BY <1>1, <1>2, FreshBlank
  <1>4. saved' = p
    BY <1>2, <1>3 DEF Blank
  <1>5. UNCHANGED <<setup, clock, observed>> /\ dirty' = FALSE
          /\ exitedAt' = [s \in Sources |-> None]
    BY DEF Restart
  <1> QED BY <1>1, <1>3, <1>4, <1>5, FreshIInv

\* Only the clock, or what is to be saved, changes.
LEMMA OtherIInv == IInv /\ (SaveSession \/ Tick \/ UNCHANGED vars) => IInv'
  <1> SUFFICES ASSUME IInv, SaveSession \/ Tick \/ UNCHANGED vars
               PROVE  IInv'
    OBVIOUS
  <1>1. Instance /\ clock \in Times /\ clock \in Nat /\ setup.clock \in Nat
          /\ Well(t) /\ StateAgrees /\ Past(t, exitedAt)
    BY SetupFacts DEF IInv, Instance
  <1>2. t' = t /\ setup' = setup /\ observed' = observed /\ exitedAt' = exitedAt
    BY DEF SaveSession, Tick, vars
  <1>3. clock' \in Times /\ clock' >= clock
    BY <1>1 DEF SaveSession, Tick, vars, Times
  <1>4. Instance' /\ Well(t)' /\ Past(t, exitedAt)'
    BY <1>1, <1>2, <1>3, Frame
  <1>5. StateAgrees'
    BY <1>1, <1>2 DEF StateAgrees
  <1>6. observed' \in 0 .. clock'
    <2>1. clock' \in Nat /\ observed \in 0 .. clock
      BY <1>1, <1>3, SetupFacts DEF IInv
    <2> QED BY <1>1, <1>2, <1>3, <2>1
  <1>7. saved' \in Persisted' /\ dirty' \in BOOLEAN /\ SavedUnlessDirty'
    <2>1. Identity(t) \in Persisted
      BY <1>1 DEF Identity, Well, Terminals, Reports, Persisted
    <2> QED BY <1>2, <2>1, FrameSetup DEF IInv, SaveSession, Tick, vars, SavedUnlessDirty
  <1> QED BY <1>4, <1>5, <1>6, <1>7 DEF IInv

LEMMA InductiveIInv == IInv /\ [Next]_vars => IInv'
  BY ReportStateIInv, ReportSessionStartIInv, ClearAuthorityIInv, ReleaseAgentIInv,
     DetectionResultIInv, PaneExitsIInv, RespawnIInv, RestartIInv, OtherIInv DEF Next

LEMMA Invariance == Spec => []IInv
  BY InitIInv, InductiveIInv, PTL DEF Spec

-----------------------------------------------------------------------------
(* What the terminal promises.                                             *)

\* The terminal's fields hold what their types allow, and the state it shows is
\* derived from them after every handler (recompute_effective_state).
THEOREM TerminalConsistent == Spec => []Consistent
  <1>1. IInv => Consistent
    BY DEF IInv, Instance, Well, Past, Consistent, TypeOK
  <1> QED BY <1>1, Invariance, PTL

\* The session that is saved is the terminal's, or is about to be saved: every
\* handler that changes it says so (mark_session_dirty).
THEOREM SessionSaved == Spec => []SavedUnlessDirty
  <1>1. IInv => SavedUnlessDirty
    BY DEF IInv
  <1> QED BY <1>1, Invariance, PTL

\* An agent's exit is final: no report of its process, in force, buffered or
\* late, speaks for the agent afterwards (set_detected_state_with_screen_signals_at,
\* set_hook_authority_at).
THEOREM ExitsAreFinal == Spec => []ExitIsFinal
  <1>1. ASSUME IInv
        PROVE  ExitIsFinal
    <2>1. Well(t) /\ Past(t, exitedAt)
      BY <1>1 DEF IInv
    <2>2. NothingSurvivesExit
      <3>1. t.authority # None => t.authority.source \in Sources
        BY <2>1 DEF Well, Terminals, Reports
      <3> QED BY <2>1, <3>1 DEF NothingSurvivesExit, Past, Timely
    <2>3. ExitedAgentSilent
      <3> SUFFICES ASSUME t.exit # None, Effective(t), HookAgent(t) = t.exit.agent
                   PROVE  t.authority.source \notin Official /\ t.authority.at > t.exit.at
        BY DEF ExitedAgentSilent
      <3>1. t.authority # None /\ t.authority.source \notin Full
        BY DEF Effective, ProcessPresent
      <3>2. t.authority.source \notin Official
        BY <2>1, <3>1 DEF Well, AuthorityOK
      <3> QED BY <2>1, <3>1, <3>2 DEF Past, Silent
    <2> QED BY <2>2, <2>3 DEF ExitIsFinal
  <1> QED BY <1>1, Invariance, PTL

-----------------------------------------------------------------------------
(* What a step does to the terminal, and what history keeps of it.         *)

HookDoes(u, v, s, ref, state, seq) ==
    \/ Kept(u, v)
    \/ Waiting(u, v, s, ref, seq)
    \/ Taken(u, v, s, ref, state, seq) /\ Takes(u, s, ref)

SessionDoes(u, v, s, ref, start) ==
    \/ Kept(u, v)
    \/ Announces(u, v, s, ref)
    \/ /\ s \in Full /\ ProcessPresent(u, AgentOf(s)) /\ v.detected = u.detected
       /\ v.exit = u.exit
       /\ \E w \in Terminals : Announces(u, w, s, ref) /\ GatesOpen(w, v, AgentOf(s))
    \/ Recorded(u, v, s, ref, start) /\ Records(u, s, ref, start)

Observed(u, v, agent, exited, at) ==
    \/ ~exited /\ (SeenBefore(u, v, agent) \/ SeenNew(u, v, agent))
    \/ exited /\ Exited(u, v, agent, at)

DetectedDoes(u, v, agent, exited, at) ==
    \/ ~exited /\ Kept(u, v)
    \/ \E e \in Terminals :
         /\ Observed(u, e, agent, exited, at)
         /\ Kept(e, v) \/ Replaces(e, v, agent)

Marked(announced) ==
    /\ retired' = (retired \cup Ended(t, t')) \ announced
    /\ wavered' = (/\ t'.authority # None
                   /\ wavered \/ ~ProcessPresent(t', HookAgent(t')))

HookStep ==
    \E s \in Sources, ref \in AllSessions \cup {None}, state \in States, seq \in setup.numbers :
        /\ s \notin Official \ (Full \cup IdentityOnly)
        /\ HookDoes(t, t', s, ref, state, seq) /\ Marked(TakenFor(s, ref, t'))

SessionStep ==
    \E s \in Sources, ref \in AllSessions \cup {None}, start \in {None} \cup Starts :
        /\ SessionDoes(t, t', s, ref, start)
        /\ \/ Marked(Announced(s, ref, t'))
           \/ s \notin Full /\ Marked(TakenFor(s, ref, t'))

EndStep == (Kept(t, t') \/ Clears(t, t') \/ Releases(t, t')) /\ Marked({})

DetectedStep ==
    \E agent \in Agents \cup {None}, exited \in BOOLEAN, at \in Times :
        DetectedDoes(t, t', agent, exited, at) /\ Marked({})

FreshStep ==
    /\ t'.authority = None /\ (Restart \/ t'.persisted = None)
    /\ retired' = {} /\ wavered' = FALSE

LEMMA UpdateMarked ==
    ASSUME NEW r, NEW announced, Update(r, announced)
    PROVE  t' = r.term /\ Marked(announced)
  BY DEF Update, Marked

LEMMA StepCases ==
    ASSUME IInv, [Next]_vars
    PROVE  \/ HookStep \/ SessionStep \/ EndStep \/ DetectedStep \/ FreshStep
           \/ t' = t /\ retired' = retired /\ wavered' = wavered
  <1>1. Instance /\ Well(t) /\ t \in Terminals
    BY DEF IInv, Well
  <1>2. ASSUME ReportState
        PROVE  HookStep \/ SessionStep
    <2>1. PICK s \in Sources, state \in setup.states, seq \in setup.numbers : \E ref \in Refs(s) :
            LET result == IF s \in Official \ (Full \cup IdentityOnly)
                          THEN SessionRef(t, s, ref, seq, None)
                          ELSE HookState(t, s, ref, state, seq)
            IN  Update(result, TakenFor(s, ref, result.term))
      BY <1>2 DEF ReportState
    <2>2. PICK ref \in Refs(s) :
            LET result == IF s \in Official \ (Full \cup IdentityOnly)
                          THEN SessionRef(t, s, ref, seq, None)
                          ELSE HookState(t, s, ref, state, seq)
            IN  Update(result, TakenFor(s, ref, result.term))
      BY <2>1
    <2>3. ref \in AllSessions \cup {None} /\ state \in States /\ seq \in setup.numbers \cup {None}
      BY <1>1, SessionsOfSources, SetupFacts
    <2>4. CASE s \in Official \ (Full \cup IdentityOnly)
      <3> DEFINE r == SessionRef(t, s, ref, seq, None)
      <3>1. SessionDoes(t, r.term, s, ref, None)
        BY <1>1, <2>3, SessionResult DEF SessionDoes
      <3>2. Update(r, TakenFor(s, ref, r.term))
        BY <2>2, <2>4
      <3> HIDE DEF r
      <3>3. t' = r.term /\ Marked(TakenFor(s, ref, t'))
        BY <3>2, UpdateMarked
      <3> QED BY <2>3, <2>4, <3>1, <3>3 DEF SessionStep
    <2>5. CASE s \notin Official \ (Full \cup IdentityOnly)
      <3> DEFINE r == HookState(t, s, ref, state, seq)
      <3>1. HookDoes(t, r.term, s, ref, state, seq)
        BY <1>1, <2>3, HookResult DEF HookDoes
      <3>2. Update(r, TakenFor(s, ref, r.term))
        BY <2>2, <2>5
      <3> HIDE DEF r
      <3>3. t' = r.term /\ Marked(TakenFor(s, ref, t'))
        BY <3>2, UpdateMarked
      <3> QED BY <2>3, <2>5, <3>1, <3>3 DEF HookStep
    <2> QED BY <2>4, <2>5
  <1>3. ASSUME ReportSessionStart
        PROVE  SessionStep
    <2>1. PICK s \in Sources, seq \in setup.numbers, start \in {None} \cup setup.starts :
            \E ref \in Refs(s) :
               LET result == SessionRef(t, s, ref, seq, start)
               IN  Update(result, Announced(s, ref, result.term))
      BY <1>3 DEF ReportSessionStart
    <2>2. PICK ref \in Refs(s) :
            LET result == SessionRef(t, s, ref, seq, start)
            IN  Update(result, Announced(s, ref, result.term))
      BY <2>1
    <2>3. ref \in AllSessions \cup {None} /\ seq \in setup.numbers \cup {None}
            /\ start \in {None} \cup Starts
      BY <1>1, SessionsOfSources, SetupFacts
    <2> DEFINE r == SessionRef(t, s, ref, seq, start)
    <2>4. SessionDoes(t, r.term, s, ref, start)
      BY <1>1, <2>3, SessionResult DEF SessionDoes
    <2>5. Update(r, Announced(s, ref, r.term))
      BY <2>2
    <2> HIDE DEF r
    <2>6. t' = r.term /\ Marked(Announced(s, ref, t'))
      BY <2>5, UpdateMarked
    <2>7. SessionDoes(t, t', s, ref, start)
      BY <2>4, <2>6
    <2> QED BY <2>3, <2>6, <2>7, Zenon DEF SessionStep
  <1>4. ASSUME ClearAuthority
        PROVE  EndStep
    <2>1. PICK source \in Sources \cup {None}, seq \in setup.numbers :
            Update(Clear(t, source, seq), {})
      BY <1>4 DEF ClearAuthority
    <2> DEFINE r == Clear(t, source, seq)
    <2>2. Kept(t, r.term) \/ Clears(t, r.term)
      BY <1>1, ClearResult
    <2> HIDE DEF r
    <2> QED BY <2>1, <2>2, UpdateMarked DEF EndStep, r
  <1>5. ASSUME ReleaseAgent
        PROVE  EndStep
    <2>1. PICK s \in Sources \ Official, seq \in setup.numbers : Update(Release(t, s, seq), {})
      BY <1>5 DEF ReleaseAgent
    <2> DEFINE r == Release(t, s, seq)
    <2>2. Kept(t, r.term) \/ Releases(t, r.term)
      BY <1>1, ReleaseResult
    <2> HIDE DEF r
    <2> QED BY <2>1, <2>2, UpdateMarked DEF EndStep, r
  <1>6. ASSUME DetectionResult
        PROVE  DetectedStep
    <2>1. PICK agent \in setup.agents \cup {None}, state \in setup.states \cup {"Unknown"},
               blocker \in BOOLEAN, exited \in BOOLEAN, at \in observed .. clock :
            /\ exited => agent # None
            /\ LET v == Detected(t, agent, state, blocker, exited, at)
               IN  Update([term |-> v, told |-> Identity(t) # Identity(v)], {})
      BY <1>6 DEF DetectionResult
    <2>2. agent \in Agents \cup {None} /\ state \in AllStates
      <3>1. setup.agents \subseteq Agents /\ setup.states \subseteq AllStates
        BY <1>1, SetupFacts, SourceFacts
      <3> QED BY <3>1 DEF AllStates
    <2>3. at \in Times
      BY <1>1, SetupFacts DEF IInv, Instance, Times
    <2> DEFINE v == Detected(t, agent, state, blocker, exited, at)
    <2>4. DetectedDoes(t, v, agent, exited, at)
      BY <1>1, <2>1, <2>2, <2>3, DetectedResult DEF DetectedDoes, Observed
    <2>5. t' = v /\ Marked({})
      BY <2>1, UpdateMarked
    <2> HIDE DEF v
    <2> QED BY <2>2, <2>3, <2>4, <2>5 DEF DetectedStep
  <1>7. ASSUME PaneExits
        PROVE  DetectedStep
    <2> DEFINE agent == IF EffectiveLabel(t) \in Agents THEN EffectiveLabel(t) ELSE t.detected
               v == Detected(t, agent, "Idle", FALSE, TRUE, clock)
    <2>1. agent # None /\ Update([term |-> v, told |-> Identity(t) # Identity(v)], {})
      BY <1>7 DEF PaneExits
    <2>2. agent \in Agents \cup {None} /\ clock \in Times /\ "Idle" \in AllStates
      BY <1>1 DEF Terminals, Instance, AllStates
    <2> HIDE DEF agent
    <2>3. DetectedDoes(t, v, agent, TRUE, clock)
      BY <1>1, <2>1, <2>2, DetectedResult DEF DetectedDoes, Observed
    <2> HIDE DEF v
    <2>4. t' = v /\ Marked({})
      BY <2>1, UpdateMarked
    <2> QED BY <2>2, <2>3, <2>4 DEF DetectedStep
  <1>8. ASSUME Respawn
        PROVE  FreshStep
    BY <1>8 DEF Respawn, Fresh, FreshStep
  <1>9. ASSUME Restart
        PROVE  FreshStep
    BY <1>9 DEF Restart, Fresh, FreshStep
  <1>10. ASSUME SaveSession \/ Tick \/ UNCHANGED vars
         PROVE  t' = t /\ retired' = retired /\ wavered' = wavered
    BY <1>10 DEF SaveSession, Tick, vars
  <1> QED BY <1>2, <1>3, <1>4, <1>5, <1>6, <1>7, <1>8, <1>9, <1>10 DEF Next

-----------------------------------------------------------------------------
(* Sessions change hands in the foreground only.                           *)

\* A source that comes to hold a session has its agent in the foreground.
Confirmed(u, v) == \A s \in Holders(v) \ Holders(u) : v.detected = AgentOf(s)

LEMMA FewerConfirmed ==
    ASSUME NEW u, NEW v, v.authority \in {u.authority, None}, v.persisted \in {u.persisted, None}
    PROVE  Confirmed(u, v)
  BY DEF Confirmed, Holders

LEMMA ConfirmedThen ==
    ASSUME NEW u, NEW e, Confirmed(u, e), NEW v, v.detected = e.detected,
           Holders(v) \subseteq Holders(e)
    PROVE  Confirmed(u, v)
  BY DEF Confirmed

\* A source that is not the session's comes to hold one if it may take over.
LEMMA TakeoverConfirmed ==
    ASSUME NEW u, Well(u), Identity(u) # None, NEW s \in Sources, NEW ref,
           OwnerConflicts(u, s) => ForegroundConfirms(u, s, ref), NEW v,
           v.detected = u.detected, Holders(v) \subseteq Holders(u) \cup {s}
    PROVE  Confirmed(u, v)
  <1>1. ASSUME s \notin Holders(u)
        PROVE  v.detected = AgentOf(s)
    <2>1. Identity(u).source # s
      BY <1>1 DEF Identity, Holders
    <2> QED BY <2>1 DEF OwnerConflicts, ForegroundConfirms
  <1> QED BY <1>1 DEF Confirmed

LEMMA HookConfirmed ==
    ASSUME Instance, NEW u, Well(u), Identity(u) # None, NEW v, NEW s \in Sources, NEW ref,
           NEW state, NEW seq, HookDoes(u, v, s, ref, state, seq)
    PROVE  Confirmed(u, v)
  <1>1. CASE Kept(u, v) \/ Waiting(u, v, s, ref, seq)
    BY <1>1, FewerConfirmed DEF Kept, Waiting
  <1>2. CASE Taken(u, v, s, ref, state, seq) /\ Takes(u, s, ref)
    <2>1. v.detected = u.detected /\ v.persisted = None /\ v.authority.source = s
      BY <1>2 DEF Taken
    <2>2. Holders(v) \subseteq {s}
      BY <2>1 DEF Holders
    <2> QED BY <1>2, <2>1, <2>2, TakeoverConfirmed DEF Takes
  <1> QED BY <1>1, <1>2 DEF HookDoes

LEMMA OpenConfirmed ==
    ASSUME NEW u, Well(u), NEW v, NEW agent, GatesOpen(u, v, agent), v.detected = agent
    PROVE  Confirmed(u, v)
  <1>1. \/ v.authority = u.authority /\ v.persisted = u.persisted
        \/ \E s \in Started(u, agent) :
             /\ v.persisted = [source |-> s, session |-> u.suppressed[s].replacement]
             /\ \/ v.authority = u.authority
                \/ u.suppressed[s].pending # None /\ v.authority = u.suppressed[s].pending
    BY DEF GatesOpen
  <1>2. ASSUME NEW s \in Started(u, agent),
               v.persisted = [source |-> s, session |-> u.suppressed[s].replacement],
               \/ v.authority = u.authority
               \/ u.suppressed[s].pending # None /\ v.authority = u.suppressed[s].pending
        PROVE  Confirmed(u, v)
    <2>1. s \in Sources /\ u.suppressed[s] # None /\ AgentOf(s) = agent
      BY DEF Started, GatedBy
    <2>2. GateFits(u, s)
      BY <2>1 DEF Well, GateOK
    <2>3. v.authority = u.authority \/ v.authority.source = s
      BY <1>2, <2>1, <2>2 DEF GateFits
    <2>4. v.persisted.source = s
      BY <1>2
    <2>5. Holders(v) \subseteq Holders(u) \cup {s}
      BY <2>3, <2>4 DEF Holders
    <2> QED BY <2>1, <2>5 DEF Confirmed
  <1>3. CASE v.authority = u.authority /\ v.persisted = u.persisted
    BY <1>3, FewerConfirmed
  <1> QED BY <1>1, <1>2, <1>3

LEMMA SessionConfirmed ==
    ASSUME Instance, NEW u, Well(u), Identity(u) # None, NEW v, NEW s \in Sources, NEW ref,
           NEW start, SessionDoes(u, v, s, ref, start)
    PROVE  Confirmed(u, v)
  <1>1. CASE Kept(u, v) \/ Announces(u, v, s, ref)
    BY <1>1, FewerConfirmed DEF Kept, Announces
  <1>2. ASSUME ProcessPresent(u, AgentOf(s)), v.detected = u.detected,
               NEW w \in Terminals, Announces(u, w, s, ref), GatesOpen(w, v, AgentOf(s))
        PROVE  Confirmed(u, v)
    <2>1. Well(w) /\ v.detected = AgentOf(s)
      BY <1>2, AnnouncesWell DEF ProcessPresent
    <2>2. Confirmed(w, v)
      BY <1>2, <2>1, OpenConfirmed
    <2>3. Holders(w) = Holders(u)
      BY <1>2 DEF Holders, Announces
    <2> QED BY <2>2, <2>3 DEF Confirmed
  <1>3. CASE Recorded(u, v, s, ref, start) /\ Records(u, s, ref, start)
    <2>1. /\ v.detected = u.detected /\ v.persisted = [source |-> s, session |-> ref]
          /\ v.authority \in {u.authority, None}
      BY <1>3 DEF Recorded
    <2>2. v.persisted.source = s
      BY <2>1
    <2>3. Holders(v) \subseteq Holders(u) \cup {s}
      BY <2>1, <2>2 DEF Holders
    <2> QED BY <1>3, <2>1, <2>3, TakeoverConfirmed DEF Records
  <1> QED BY <1>1, <1>2, <1>3 DEF SessionDoes

LEMMA ReplacesHolders ==
    ASSUME NEW u, Well(u), NEW v, NEW agent, Replaces(u, v, agent)
    PROVE  Holders(v) \subseteq Holders(u)
  <1>1. u.authority # None /\ u.authority \in Reports
    BY DEF Well, Terminals, Replaces
  <1>2. v.authority = None /\ v.persisted = Durable(u.authority)
    BY DEF Replaces
  <1>3. v.persisted # None => v.persisted.source = u.authority.source
                              /\ u.authority.session # None
    BY <1>2 DEF Durable
  <1> QED BY <1>1, <1>2, <1>3 DEF Holders

LEMMA DetectedConfirmed ==
    ASSUME Instance, NEW u, Well(u), NEW v, NEW agent, NEW exited \in BOOLEAN, NEW at \in Times,
           DetectedDoes(u, v, agent, exited, at)
    PROVE  Confirmed(u, v)
  <1>1. ASSUME NEW e \in Terminals, Observed(u, e, agent, exited, at)
        PROVE  Confirmed(u, e) /\ Well(e)
    <2>1. CASE SeenBefore(u, e, agent)
      BY <2>1, SeenBeforeWell, FewerConfirmed DEF SeenBefore
    <2>2. CASE SeenNew(u, e, agent)
      BY <2>2, OpenWell, OpenConfirmed DEF SeenNew
    <2>3. CASE Exited(u, e, agent, at)
      <3>1. Well(e)
        BY <2>3, ExitedWell
      <3>2. e.authority \in {u.authority, None} /\ e.persisted \in {u.persisted, None}
        BY <2>3 DEF Exited
      <3> QED BY <3>1, <3>2, FewerConfirmed
    <2> QED BY <1>1, <2>1, <2>2, <2>3 DEF Observed
  <1>2. ASSUME NEW e \in Terminals, Confirmed(u, e), Well(e), Kept(e, v) \/ Replaces(e, v, agent)
        PROVE  Confirmed(u, v)
    <2>1. v.detected = e.detected
      BY <1>2 DEF Kept, Replaces
    <2>2. Kept(e, v) => Holders(v) = Holders(e)
      BY DEF Kept, Holders
    <2> QED BY <1>2, <2>1, <2>2, ReplacesHolders, ConfirmedThen
  <1>3. Kept(u, v) => Confirmed(u, v)
    BY FewerConfirmed DEF Kept
  <1>4. ASSUME NEW e \in Terminals, Observed(u, e, agent, exited, at),
               Kept(e, v) \/ Replaces(e, v, agent)
        PROVE  Confirmed(u, v)
    BY <1>1, <1>2, <1>4
  <1> QED BY <1>3, <1>4 DEF DetectedDoes

LEMMA ConfirmedStep ==
    ASSUME IInv, [Next]_vars, Identity(t) # None, ~Restart
    PROVE  Confirmed(t, t')
  <1>1. Instance /\ Well(t)
    BY DEF IInv
  <1>2. ASSUME SessionStep
        PROVE  Confirmed(t, t')
    BY <1>1, <1>2, SessionConfirmed DEF SessionStep
  <1>3. ASSUME HookStep
        PROVE  Confirmed(t, t')
    BY <1>1, <1>3, HookConfirmed DEF HookStep
  <1>4. ASSUME EndStep
        PROVE  Confirmed(t, t')
    BY <1>4, FewerConfirmed DEF EndStep, Kept, Clears, Releases
  <1>5. ASSUME DetectedStep
        PROVE  Confirmed(t, t')
    BY <1>1, <1>5, DetectedConfirmed DEF DetectedStep
  <1>6. ASSUME FreshStep \/ t' = t
        PROVE  Confirmed(t, t')
    BY <1>6, FewerConfirmed DEF FreshStep
  <1> QED BY <1>2, <1>3, <1>4, <1>5, <1>6, StepCases

\* While a pane's session is some source's, another source comes to hold a
\* session only if its agent runs in the foreground
\* (foreground_agent_confirms_session_owner, and the gates that a new process of
\* the agent opens).
THEOREM OwnersConfirmed == Spec => OwnerConfirmed
  <1>1. IInv /\ [Next]_vars =>
          [Identity(t) # None /\ ~Restart
             => \A s \in Holders(t') \ Holders(t) : t'.detected = AgentOf(s)]_vars
    BY ConfirmedStep DEF Confirmed
  <1> QED BY <1>1, Invariance, PTL DEF Spec, OwnerConfirmed

-----------------------------------------------------------------------------
(* Nothing stale comes back.                                               *)

\* A session that ended is known to be stale, or is the one the gate is closed
\* against, and nothing that could put it in force holds it.
Barred(u, s, x) ==
    /\ s \in Full /\ x # None
    /\ \/ x \in u.stale[s]
       \/ u.suppressed[s] # None /\ u.suppressed[s].session = x
    /\ u.suppressed[s] # None => u.suppressed[s].replacement # x
    /\ u.authority # None /\ u.authority.source = s
         => x \in u.stale[s] /\ u.authority.session # x

RetiredOK(u, ended) ==
    /\ ended \subseteq Sources \X AllSessions
    /\ \A s \in Sources, x \in AllSessions : <<s, x>> \in ended => Barred(u, s, x)

LEMMA IdentityFields ==
    ASSUME Instance, NEW u \in Terminals
    PROVE  /\ u.authority # None /\ u.authority.session # None =>
                /\ Identity(u) # None /\ Identity(u).source = u.authority.source
                /\ Identity(u).session = u.authority.session
           /\ Identity(u) # None => Identity(u).session \in AllSessions
  <1>1. ASSUME u.authority # None, u.authority.session # None
        PROVE  /\ Identity(u) # None /\ Identity(u).source = u.authority.source
               /\ Identity(u).session = u.authority.session
    <2> DEFINE p == [source |-> u.authority.source, session |-> u.authority.session]
    <2>1. p \in [source : Sources, session : AllSessions]
      BY <1>1 DEF Terminals, Reports
    <2>2. p # None
      BY <2>1, NoneFacts
    <2>3. Identity(u) = p
      BY <1>1 DEF Identity
    <2> QED BY <2>2, <2>3
  <1>2. Identity(u) # None => Identity(u).session \in AllSessions
    BY DEF Identity, Terminals, Reports, Persisted
  <1> QED BY <1>1, <1>2

LEMMA TakenFields ==
    ASSUME Instance, NEW u, Well(u), NEW v, NEW r \in Sources, NEW ref \in AllSessions \cup {None},
           NEW state \in States, NEW seq \in setup.numbers, Taken(u, v, r, ref, state, seq)
    PROVE  /\ v.authority # None /\ v.authority.source = r
           /\ v.authority.session = ReportSession(u, r, ref)
           /\ v.authority.seq = seq
  <1>1. ReportSession(u, r, ref) \in AllSessions \cup {None} /\ clock \in Times
    BY ReportSessionType DEF Well, Instance
  <1>2. v.authority \in Reports
    BY <1>1 DEF Taken, Reports
  <1> QED BY <1>2, NoneFacts DEF Taken

LEMMA KeptBarred ==
    ASSUME NEW u, NEW v, Kept(u, v), NEW s \in Sources, NEW x, Barred(u, s, x)
    PROVE  Barred(v, s, x)
  BY DEF Barred, Kept

LEMMA WaitingBarred ==
    ASSUME NEW u, NEW v, NEW r \in Sources, NEW ref, NEW seq, Waiting(u, v, r, ref, seq),
           NEW s \in Sources, NEW x, Barred(u, s, x)
    PROVE  Barred(v, s, x)
  <1>1. CASE r # s
    BY <1>1 DEF Barred, Waiting
  <1>2. CASE r = s /\ u.suppressed[s] = None
    BY <1>2 DEF Barred, Waiting
  <1>3. CASE r = s /\ u.suppressed[s] # None
    BY <1>3 DEF Barred, Waiting
  <1> QED BY <1>1, <1>2, <1>3

LEMMA AnnouncesBarred ==
    ASSUME NEW u, NEW v, NEW r \in Sources, NEW ref, Announces(u, v, r, ref),
           NEW s \in Sources, NEW x, Barred(u, s, x), s # r \/ x # ref
    PROVE  Barred(v, s, x)
  <1>1. CASE r # s
    BY <1>1 DEF Barred, Announces
  <1>2. CASE r = s /\ u.suppressed[s] = None
    BY <1>2 DEF Barred, Announces
  <1>3. CASE r = s /\ u.suppressed[s] # None
    BY <1>3 DEF Barred, Announces
  <1> QED BY <1>1, <1>2, <1>3

\* A gate made for the report in force bars what was stale.
LEMMA ShutBarred ==
    ASSUME Instance, NEW u, Well(u), NEW s \in Sources, NEW x, Barred(u, s, x), NEW v,
           u.authority # None, u.authority.source = s, v.stale[s] = u.stale[s],
           v.suppressed[s] = Gate(u.authority.session, clock, "HookClear"),
           v.authority = None \/ v.authority.source # s
    PROVE  Barred(v, s, x)
  <1>1. u.authority.session \in AllSessions \cup {None} /\ clock \in Times
    BY DEF Well, Terminals, Reports, Instance
  <1>2. v.suppressed[s].replacement = None
    BY <1>1, GateFields
  <1> QED BY <1>2 DEF Barred

\* And it bars the session of that report.
LEMMA ShutEnded ==
    ASSUME Instance, NEW u, Well(u), NEW s \in Sources \cap Full, NEW v,
           u.authority # None, u.authority.source = s, u.authority.session # None,
           \E at \in Times, reason \in {"HookClear", "ProcessExit"} :
              v.suppressed[s] = Gate(u.authority.session, at, reason),
           v.authority = None \/ v.authority.source # s
    PROVE  Barred(v, s, u.authority.session)
  <1>1. u.authority.session \in AllSessions \cup {None}
    BY DEF Well, Terminals, Reports
  <1>2. /\ v.suppressed[s] # None /\ v.suppressed[s].replacement = None
        /\ v.suppressed[s].session = u.authority.session
    BY <1>1, GateFields
  <1> QED BY <1>2 DEF Barred

LEMMA RecordedBarred ==
    ASSUME Instance, NEW u, Well(u), NEW v, NEW r \in Sources, NEW ref, NEW start,
           Recorded(u, v, r, ref, start), Records(u, r, ref, start),
           NEW s \in Sources, NEW x, Barred(u, s, x), s # r \/ x # ref
    PROVE  Barred(v, s, x)
  <1> DEFINE shuts == OwnerConflicts(u, r) /\ u.authority # None
                        /\ u.authority.source \in Full /\ u.authority.source = s
  <1>1. v.suppressed[s] = IF shuts THEN Gate(u.authority.session, clock, "HookClear")
                          ELSE u.suppressed[s]
    BY DEF Recorded
  <1>2. v.authority \in {None, u.authority} /\ (OwnerConflicts(u, r) => v.authority = None)
    BY DEF Recorded
  <1>3. CASE s # r
    <2>1. v.stale[s] = u.stale[s]
      BY <1>3 DEF Recorded
    <2>2. CASE shuts
      <3>1. v.suppressed[s] = Gate(u.authority.session, clock, "HookClear")
        BY <1>1, <2>2
      <3> QED BY <1>2, <2>1, <2>2, <3>1, ShutBarred
    <2>3. CASE ~shuts
      BY <1>1, <1>2, <2>1, <2>3 DEF Barred
    <2> QED BY <2>2, <2>3
  <1>4. CASE s = r
    <2>1. u.suppressed[s] = None /\ ~shuts
      BY <1>4, RecordsUngated DEF Barred
    <2>2. x \in u.stale[s] => x \in v.stale[s]
      BY <1>4 DEF Recorded
    <2> QED BY <1>1, <1>2, <2>1, <2>2 DEF Barred
  <1> QED BY <1>3, <1>4

\* The session in force that a session report ends.
LEMMA RecordedEnded ==
    ASSUME Instance, NEW u, Well(u), NEW v, NEW r \in Sources, NEW ref, NEW start,
           Recorded(u, v, r, ref, start), Records(u, r, ref, start),
           u.authority # None, u.authority.source \in Full, u.authority.session # None,
           v.authority # u.authority
    PROVE  Barred(v, u.authority.source, u.authority.session)
  <1> DEFINE s == u.authority.source
             x == u.authority.session
             replaced == r \in Full /\ u.authority.source = r /\ u.authority.session # ref
  <1>1. s \in Sources
    BY DEF Well, Terminals, Reports
  <1>2. v.authority = None /\ (replaced \/ OwnerConflicts(u, r))
    BY DEF Recorded
  <1>3. CASE OwnerConflicts(u, r)
    <2>1. v.suppressed[s] = Gate(x, clock, "HookClear") /\ clock \in Times
      BY <1>1, <1>3 DEF Recorded, Instance
    <2> QED BY <1>1, <1>2, <2>1, ShutEnded
  <1>4. CASE replaced /\ ~OwnerConflicts(u, r)
    <2>1. x \in v.stale[s]
      BY <1>4 DEF Recorded
    <2>2. v.suppressed[s] = u.suppressed[s] /\ u.suppressed[s] = None
      BY <1>1, <1>4, RecordsUngated DEF Recorded
    <2> QED BY <1>2, <2>1, <2>2 DEF Barred
  <1> QED BY <1>2, <1>3, <1>4

LEMMA OpenBarred ==
    ASSUME NEW u, Well(u), NEW v, NEW agent, GatesOpen(u, v, agent), NEW s \in Sources, NEW x,
           Barred(u, s, x)
    PROVE  Barred(v, s, x)
  <1>1. v.suppressed[s] = IF s \in Started(u, agent) \cup Cleared(u, agent) THEN None
                          ELSE u.suppressed[s]
    BY DEF GatesOpen
  <1>2. v.stale[s] = IF s \in Cleared(u, agent)
                     THEN u.stale[s] \cup ({u.suppressed[s].session} \ {None})
                     ELSE IF s \in Started(u, agent)
                     THEN (u.stale[s] \cup {u.suppressed[s].session})
                             \ {None, u.suppressed[s].replacement}
                     ELSE u.stale[s]
    BY DEF GatesOpen
  <1>3. s \in Started(u, agent) \cup Cleared(u, agent) => u.suppressed[s] # None
    BY DEF Started, Cleared, GatedBy
  <1>4. /\ s \in Started(u, agent) \cup Cleared(u, agent) => x \in v.stale[s]
        /\ s \notin Started(u, agent) \cup Cleared(u, agent) => v.stale[s] = u.stale[s]
    BY <1>2, <1>3 DEF Barred
  <1>5. \/ v.authority = u.authority
        \/ /\ s \in Started(u, agent)
           /\ v.authority.session = u.suppressed[s].replacement
        \/ v.authority.source # s
    <2>1. ASSUME NEW r \in Started(u, agent), u.suppressed[r].pending # None,
                 u.suppressed[r].pending.session = u.suppressed[r].replacement,
                 v.authority = u.suppressed[r].pending
          PROVE  \/ s \in Started(u, agent) /\ v.authority.session = u.suppressed[s].replacement
                 \/ v.authority.source # s
      <3>1. r \in Sources /\ u.suppressed[r] # None
        BY DEF Started, GatedBy
      <3>2. GateFits(u, r)
        BY <3>1 DEF Well, GateOK
      <3>3. v.authority.source = r
        BY <2>1, <3>1, <3>2 DEF GateFits
      <3> QED BY <2>1, <3>3
    <2> QED BY <2>1 DEF GatesOpen
  <1> QED BY <1>1, <1>3, <1>4, <1>5 DEF Barred

LEMMA TakenBarred ==
    ASSUME Instance, NEW u, Well(u), NEW v, NEW r \in Sources, NEW ref \in AllSessions \cup {None},
           NEW state \in States, NEW seq \in setup.numbers, Taken(u, v, r, ref, state, seq), Takes(u, r, ref),
           NEW s \in Sources, NEW x, Barred(u, s, x), <<s, x>> \notin TakenFor(r, ref, v)
    PROVE  Barred(v, s, x)
  <1>1. v.authority # None /\ v.authority.source = r
    BY TakenFields
  <1>2. v.authority.session = ReportSession(u, r, ref)
    BY ONLY Taken(u, v, r, ref, state, seq) DEF Taken
  <1> DEFINE named == ReportSession(u, r, ref)
             frees == (named # None \/ Reanchors(u, r, ref)) /\ u.suppressed[r] # None
             shuts == OwnerConflicts(u, r) /\ u.authority # None
                        /\ u.authority.source \in Full /\ u.authority.source = s
  <1>3. v.suppressed[s] = IF s = r /\ frees THEN None
                          ELSE IF shuts THEN Gate(u.authority.session, clock, "HookClear")
                          ELSE u.suppressed[s]
    BY DEF Taken
  <1>4. v.stale[s] = IF s = r /\ frees THEN u.stale[s] \cup ({u.suppressed[r].session} \ {None})
                     ELSE u.stale[s]
    BY DEF Taken
  <1>5. v.authority # None /\ v.authority.source = r /\ v.authority.session = named
    BY <1>1, <1>2
  <1>6. CASE s # r
    <2>1. v.stale[s] = u.stale[s]
      BY <1>4, <1>6
    <2>2. CASE shuts
      <3>1. v.suppressed[s] = Gate(u.authority.session, clock, "HookClear")
        BY <1>3, <1>6, <2>2
      <3> QED BY <1>5, <1>6, <2>1, <2>2, <3>1, ShutBarred
    <2>3. CASE ~shuts
      <3>1. v.suppressed[s] = u.suppressed[s]
        BY <1>3, <1>6, <2>3
      <3> QED BY <1>5, <1>6, <2>1, <3>1 DEF Barred
    <2> QED BY <2>2, <2>3
  <1>7. CASE s = r
    <2>1. s \in Full /\ x # None
      BY DEF Barred
    <2>2. /\ ref \notin u.stale[s]
          /\ u.suppressed[s] # None => /\ ref # None /\ u.suppressed[s].session # ref
                                       /\ Reanchors(u, s, ref)
      BY <1>7, <2>1 DEF Takes, Routed, Reanchors, GatedBy
    <2>3. x # ref
      BY <2>2 DEF Barred
    <2>4. x # named
      <3>1. CASE named = ref
        BY <2>3, <3>1
      <3>2. CASE named # ref
        <4>1. ref # None
          BY <3>2 DEF ReportSession
        <4>2. <<s, named>> \in InForce(v)
          <5>1. named # None
            BY <3>2, IdentityFields, SourceFacts DEF ReportSession, SameOwnerConflict, Well
          <5> QED BY <1>5, <1>7, <2>1, <5>1 DEF InForce
        <4>3. <<s, named>> # <<r, ref>>
          BY <3>2
        <4>4. <<s, named>> \in TakenFor(r, ref, v)
          BY <4>1, <4>2, <4>3 DEF TakenFor
        <4> QED BY <4>4
      <3> QED BY <3>1, <3>2
    <2>5. ~shuts
      BY <1>7, <2>1, TakeoverFromAnother DEF Takes
    <2>6. v.suppressed[s] = None /\ x \in v.stale[s]
      <3>1. CASE u.suppressed[s] = None
        BY <1>3, <1>4, <1>7, <2>5, <3>1 DEF Barred
      <3>2. CASE u.suppressed[s] # None
        <4>1. frees
          BY <1>7, <2>2, <3>2
        <4> HIDE DEF frees
        <4> QED BY <1>3, <1>4, <1>7, <2>1, <4>1 DEF Barred
      <3> QED BY <3>1, <3>2
    <2> QED BY <1>5, <2>1, <2>4, <2>6 DEF Barred
  <1> QED BY <1>6, <1>7

\* The session in force that another source's report ends.
LEMMA TakenEnded ==
    ASSUME Instance, NEW u, Well(u), NEW v, NEW r \in Sources, NEW ref \in AllSessions \cup {None},
           NEW state \in States, NEW seq \in setup.numbers, Taken(u, v, r, ref, state, seq), Takes(u, r, ref),
           u.authority # None, u.authority.source \in Full, u.authority.session # None,
           <<u.authority.source, u.authority.session>> \in Ended(u, v)
    PROVE  Barred(v, u.authority.source, u.authority.session)
  <1>1. v.authority # None /\ v.authority.source = r
    BY TakenFields
  <1>2. v.authority.session = ReportSession(u, r, ref)
    BY ONLY Taken(u, v, r, ref, state, seq) DEF Taken
  <1> DEFINE s == u.authority.source
             x == u.authority.session
             named == ReportSession(u, r, ref)
  <1>3. s \in Sources /\ s \in Full
    BY DEF Well, Terminals, Reports
  <1>4. v.authority # None /\ v.authority.source = r /\ v.authority.session = named
    BY <1>1, <1>2
  <1>5. /\ <<s, x>> \notin InForce(v)
        /\ ~(v.authority.session = None /\ v.authority.source = u.authority.source)
    BY <1>4 DEF Ended
  <1>6. s # r
    <2> SUFFICES ASSUME s = r
                 PROVE  FALSE
      OBVIOUS
    <2>1. named # None
      BY <1>4, <1>5
    <2>2. named # x
      BY <1>3, <1>4, <1>5, <2>1 DEF InForce
    <2>3. AuthorityConflicts(u, r, named)
      BY <1>3, <2>1, <2>2 DEF AuthorityConflicts
    <2> QED BY <2>3 DEF Takes
  <1>7. OwnerConflicts(u, r)
    BY <1>6, IdentityFields DEF OwnerConflicts, Well
  <1>8. v.suppressed[s] = Gate(x, clock, "HookClear") /\ clock \in Times
    BY <1>3, <1>6, <1>7 DEF Taken, Instance
  <1> QED BY <1>3, <1>4, <1>6, <1>8, ShutEnded

\* What ended has been in force.
LEMMA EndedFacts ==
    ASSUME NEW u, NEW v, NEW s, NEW x, <<s, x>> \in Ended(u, v)
    PROVE  /\ u.authority # None /\ u.authority.source = s /\ u.authority.session = x
           /\ s \in Full /\ x # None /\ v.authority # u.authority
  BY DEF Ended, InForce

\* A report that waited at a gate is in force.
Resumes(u, v) ==
    v.authority # None /\ \E r \in Sources :
        u.suppressed[r] # None /\ u.suppressed[r].pending = v.authority

LEMMA NothingEnded ==
    ASSUME NEW u, NEW v, v.authority = u.authority \/ Resumes(u, v)
    PROVE  Ended(u, v) = {}
  <1>1. CASE v.authority = u.authority
    BY <1>1 DEF Ended, InForce
  <1>2. CASE u.authority = None
    BY <1>2 DEF Ended, InForce
  <1>3. CASE u.authority # None /\ Resumes(u, v)
    BY <1>3 DEF Ended, Resumes
  <1> QED BY <1>1, <1>2, <1>3

LEMMA OpenResumes ==
    ASSUME NEW u, NEW v, NEW agent, GatesOpen(u, v, agent)
    PROVE  v.authority = u.authority \/ Resumes(u, v)
  <1>1. ASSUME NEW r \in Started(u, agent), u.suppressed[r].pending # None,
               v.authority = u.suppressed[r].pending
        PROVE  Resumes(u, v)
    BY <1>1 DEF Resumes, Started, GatedBy
  <1> QED BY <1>1 DEF GatesOpen

\* What the step makes of stale sessions and of those it ends, unless they are
\* announced.
Bars(u, v, announced) ==
    \A s \in Sources, x \in AllSessions :
        (Barred(u, s, x) \/ <<s, x>> \in Ended(u, v)) /\ <<s, x>> \notin announced
          => Barred(v, s, x)

LEMMA KeptBars ==
    ASSUME NEW u, NEW v, Kept(u, v), NEW announced
    PROVE  Bars(u, v, announced)
  <1>1. Ended(u, v) = {}
    BY NothingEnded DEF Kept
  <1> QED BY <1>1, KeptBarred DEF Bars

LEMMA HookBars ==
    ASSUME Instance, NEW u, Well(u), NEW v, NEW r \in Sources, NEW ref \in AllSessions \cup {None},
           NEW state \in States, NEW seq \in setup.numbers, HookDoes(u, v, r, ref, state, seq)
    PROVE  Bars(u, v, TakenFor(r, ref, v))
  <1>1. CASE Kept(u, v)
    BY <1>1, KeptBars
  <1>2. CASE Waiting(u, v, r, ref, seq)
    <2>1. Ended(u, v) = {}
      BY <1>2, NothingEnded DEF Waiting
    <2> QED BY <1>2, <2>1, WaitingBarred DEF Bars
  <1>3. CASE Taken(u, v, r, ref, state, seq) /\ Takes(u, r, ref)
    <2> SUFFICES ASSUME NEW s \in Sources, NEW x \in AllSessions,
                        Barred(u, s, x) \/ <<s, x>> \in Ended(u, v),
                        <<s, x>> \notin TakenFor(r, ref, v)
                 PROVE  Barred(v, s, x)
      BY DEF Bars
    <2>1. CASE Barred(u, s, x)
      BY <1>3, <2>1, TakenBarred
    <2>2. CASE <<s, x>> \in Ended(u, v)
      <3>1. /\ u.authority # None /\ u.authority.source = s /\ u.authority.session = x
            /\ s \in Full /\ x # None
        BY <2>2, EndedFacts
      <3> QED BY <1>3, <2>2, <3>1, TakenEnded
    <2> QED BY <2>1, <2>2
  <1> QED BY <1>1, <1>2, <1>3 DEF HookDoes

\* A session announces itself to a process that is there.
LEMMA ThroughBars ==
    ASSUME Instance, NEW u, Well(u), NEW v, NEW r \in Sources \cap Full, NEW ref,
           NEW w \in Terminals, Announces(u, w, r, ref), GatesOpen(w, v, AgentOf(r))
    PROVE  Bars(u, v, Announced(r, ref, v))
  <1>1. Well(w)
    BY AnnouncesWell
  <1>2. Ended(u, v) = {}
    <2>1. w.authority = u.authority
      BY DEF Announces
    <2>2. ASSUME NEW q \in Sources, w.suppressed[q] # None, w.suppressed[q].pending # None
          PROVE  u.suppressed[q] # None /\ u.suppressed[q].pending = w.suppressed[q].pending
      BY <2>2 DEF Announces
    <2>3. Resumes(w, v) => Resumes(u, v)
      BY <2>2 DEF Resumes
    <2> QED BY <2>1, <2>3, OpenResumes, NothingEnded
  <1> SUFFICES ASSUME NEW s \in Sources, NEW x \in AllSessions, Barred(u, s, x),
                      <<s, x>> \notin Announced(r, ref, v)
               PROVE  Barred(v, s, x)
    BY <1>2 DEF Bars
  <1>3. CASE s # r \/ x # ref
    <2>1. Barred(w, s, x)
      BY <1>3, AnnouncesBarred
    <2> QED BY <1>1, <2>1, OpenBarred
  <1>4. CASE s = r /\ x = ref
    <2> DEFINE g == w.suppressed[r]
    <2>1. g # None /\ g.replacement = ref /\ ref # None
      BY DEF Announces
    <2>2. g.reason # "ProcessExit"
      <3> SUFFICES ASSUME g.reason = "ProcessExit"
                   PROVE  FALSE
        OBVIOUS
      <3>1. r \in Started(w, AgentOf(r))
        BY <2>1 DEF Started, GatedBy
      <3>2. PICK q \in Started(w, AgentOf(r)) :
              v.persisted = [source |-> q, session |-> w.suppressed[q].replacement]
        BY <3>1 DEF GatesOpen
      <3>3. q \in Sources /\ w.suppressed[q] # None /\ w.suppressed[q].replacement # None
              /\ AgentOf(q) = AgentOf(r)
        BY DEF Started, GatedBy
      <3>4. q \in Full
        BY <1>1, <3>3 DEF Well, GateOK, GateFits
      <3>5. q = r
        BY <3>3, <3>4, SourceFacts
      <3>6. v.persisted = [source |-> r, session |-> ref]
        BY <2>1, <3>2, <3>5
      <3>7. <<r, ref>> \in Announced(r, ref, v)
        BY <3>6 DEF Announced
      <3> QED BY <1>4, <3>7
    <2>3. g.reason = "HookClear"
      BY <1>1, <2>1, <2>2, GateTypes DEF Well
    <2>4. /\ u.suppressed[r] # None /\ u.suppressed[r].reason = "HookClear"
          /\ g.session = u.suppressed[r].session
      <3>1. u.suppressed[r] # None
        BY <2>2 DEF Announces
      <3>2. g.session = u.suppressed[r].session /\ g.reason = u.suppressed[r].reason
        BY <3>1 DEF Announces
      <3> QED BY <2>3, <3>1, <3>2
    <2>5. r \in Cleared(w, AgentOf(r))
      BY <2>1, <2>3 DEF Cleared, GatedBy
    <2>6. /\ v.suppressed[r] = None
          /\ v.stale[r] = u.stale[r] \cup ({u.suppressed[r].session} \ {None})
      BY <2>4, <2>5 DEF GatesOpen, Announces
    <2>7. x \in v.stale[r]
      BY <1>4, <2>6 DEF Barred
    <2>8. v.authority = None \/ v.authority.source # r
      <3>1. u.authority = None \/ u.authority.source # r
        BY <2>4 DEF Well, GateOK, GateFits
      <3>2. w.authority = u.authority
        BY DEF Announces
      <3>3. ASSUME NEW q \in Started(w, AgentOf(r)), w.suppressed[q].pending # None,
                   v.authority = w.suppressed[q].pending
            PROVE  v.authority.source # r
        <4>1. q \in Sources /\ w.suppressed[q] # None /\ w.suppressed[q].reason = "ProcessExit"
          BY DEF Started, GatedBy
        <4>2. w.suppressed[q].pending.source = q
          BY <1>1, <3>3, <4>1 DEF Well, GateOK, GateFits
        <4> QED BY <2>2, <3>3, <4>1, <4>2
      <3> QED BY <3>1, <3>2, <3>3 DEF GatesOpen
    <2> QED BY <1>4, <2>6, <2>7, <2>8 DEF Barred
  <1> QED BY <1>3, <1>4

LEMMA SessionBars ==
    ASSUME Instance, NEW u, Well(u), NEW v, NEW r \in Sources, NEW ref, NEW start,
           SessionDoes(u, v, r, ref, start), NEW announced,
           r \in Full => Announced(r, ref, v) \subseteq announced
    PROVE  Bars(u, v, announced)
  <1>1. CASE Kept(u, v)
    BY <1>1, KeptBars
  <1>2. CASE Announces(u, v, r, ref)
    <2>1. Ended(u, v) = {}
      BY <1>2, NothingEnded DEF Announces
    <2>2. <<r, ref>> \in announced
      BY <1>2 DEF Announces, Announced
    <2>3. ASSUME NEW s \in Sources, NEW x \in AllSessions, Barred(u, s, x),
                 <<s, x>> \notin announced
          PROVE  Barred(v, s, x)
      BY <1>2, <2>2, <2>3, AnnouncesBarred
    <2> QED BY <2>1, <2>3 DEF Bars
  <1>3. ASSUME r \in Full, NEW w \in Terminals, Announces(u, w, r, ref),
               GatesOpen(w, v, AgentOf(r))
        PROVE  Bars(u, v, announced)
    <2>1. Bars(u, v, Announced(r, ref, v))
      BY <1>3, ThroughBars
    <2> QED BY <1>3, <2>1 DEF Bars
  <1>4. CASE Recorded(u, v, r, ref, start) /\ Records(u, r, ref, start)
    <2>1. r \in Full => <<r, ref>> \in announced
      <3>1. v.persisted = [source |-> r, session |-> ref]
        BY <1>4 DEF Recorded
      <3> QED BY <3>1 DEF Announced
    <2>2. ASSUME NEW s \in Sources, NEW x \in AllSessions, Barred(u, s, x),
                 <<s, x>> \notin announced
          PROVE  Barred(v, s, x)
      <3>1. s # r \/ x # ref
        BY <2>1, <2>2 DEF Barred
      <3> QED BY <1>4, <2>2, <3>1, RecordedBarred
    <2>3. ASSUME NEW s \in Sources, NEW x \in AllSessions, <<s, x>> \in Ended(u, v)
          PROVE  Barred(v, s, x)
      <3>1. /\ u.authority # None /\ u.authority.source = s /\ u.authority.session = x
            /\ s \in Full /\ x # None /\ v.authority # u.authority
        BY <2>3, EndedFacts
      <3> QED BY <1>4, <3>1, RecordedEnded
    <2> QED BY <2>2, <2>3 DEF Bars
  <1> QED BY <1>1, <1>2, <1>3, <1>4 DEF SessionDoes

\* The authority ends, and its gate closes.
LEMMA ShutBars ==
    ASSUME Instance, NEW u, Well(u), NEW v, u.authority # None, v.authority = None,
           \A s \in Sources : v.stale[s] = u.stale[s],
           \A s \in Sources : v.suppressed[s] =
              IF u.authority.source \in Full /\ u.authority.source = s
              THEN Gate(u.authority.session, clock, "HookClear") ELSE u.suppressed[s]
    PROVE  Bars(u, v, {})
  <1>1. ASSUME NEW s \in Sources, NEW x \in AllSessions, Barred(u, s, x)
        PROVE  Barred(v, s, x)
    <2>1. s \in Full
      BY <1>1 DEF Barred
    <2>2. CASE u.authority.source = s
      <3>1. v.suppressed[s] = Gate(u.authority.session, clock, "HookClear")
        BY <2>1, <2>2
      <3>2. v.stale[s] = u.stale[s]
        OBVIOUS
      <3> QED BY <1>1, <2>2, <3>1, <3>2, ShutBarred
    <2>3. CASE u.authority.source # s
      <3>1. v.suppressed[s] = u.suppressed[s] /\ v.stale[s] = u.stale[s]
        BY <2>3
      <3> QED BY <1>1, <3>1 DEF Barred
    <2> QED BY <2>2, <2>3
  <1>2. ASSUME NEW s \in Sources, NEW x \in AllSessions, <<s, x>> \in Ended(u, v)
        PROVE  Barred(v, s, x)
    <2>1. u.authority.source = s /\ u.authority.session = x /\ s \in Full /\ x # None
      BY <1>2, EndedFacts
    <2>2. v.suppressed[s] = Gate(u.authority.session, clock, "HookClear") /\ clock \in Times
      BY <2>1 DEF Instance
    <2> QED BY <2>1, <2>2, ShutEnded
  <1> QED BY <1>1, <1>2 DEF Bars

LEMMA EndBars ==
    ASSUME Instance, NEW u, Well(u), NEW v, Kept(u, v) \/ Clears(u, v) \/ Releases(u, v)
    PROVE  Bars(u, v, {})
  <1>1. CASE Kept(u, v)
    BY <1>1, KeptBars
  <1>2. CASE Clears(u, v)
    BY <1>2, ShutBars DEF Clears
  <1>3. CASE Releases(u, v)
    <2>1. Ended(u, v) = {}
      BY <1>3, SourceFacts DEF Releases, Ended, InForce
    <2> QED BY <1>3, <2>1 DEF Releases, Bars, Barred
  <1> QED BY <1>1, <1>2, <1>3

\* The exited agent's gates close against what they were closed against, and
\* against what announced itself since.
LEMMA ExitedBarred ==
    ASSUME Instance, NEW u, Well(u), NEW v, NEW agent, NEW at \in Times, Exited(u, v, agent, at),
           NEW s \in Sources, NEW x \in AllSessions, Barred(u, s, x)
    PROVE  Barred(v, s, x)
  <1> DEFINE owner == Owner(u, agent)
             gated == GatedBy(u, s, "ProcessExit") /\ AgentOf(s) = agent
             g == u.suppressed[s]
  <1>1. s \in Full /\ x # None /\ GateFits(u, s)
    BY DEF Barred, Well, GateOK
  <1>2. v.suppressed[s] = IF owner # None /\ s = owner.source
                          THEN Gate(owner.session, at, "ProcessExit")
                          ELSE IF gated THEN Regate(g, at) ELSE g
    BY DEF Exited, GatesShut
  <1>3. v.stale[s] = IF gated THEN u.stale[s] \cup ({g.session} \ {None, ExitedSession(g)})
                     ELSE u.stale[s]
    BY DEF Exited, GatesShut
  <1>4. v.authority \in {None, u.authority}
    BY DEF Exited
  <1>5. x \in u.stale[s] => x \in v.stale[s]
    BY <1>3
  <1>6. v.authority # None /\ v.authority.source = s
          => x \in v.stale[s] /\ v.authority.session # x
    BY <1>4, <1>5 DEF Barred
  <1>7. CASE owner # None /\ s = owner.source
    <2>1. owner.session \in AllSessions \cup {None} /\ AgentOf(s) = agent
      BY <1>7, OwnerFacts DEF Well
    <2>2. /\ v.suppressed[s] # None /\ v.suppressed[s].replacement = None
          /\ v.suppressed[s].session = owner.session
      <3>1. v.suppressed[s] = Gate(owner.session, at, "ProcessExit")
        BY <1>2, <1>7
      <3> HIDE DEF owner
      <3> QED BY <2>1, <3>1, GateFields
    <2>3. x \in v.stale[s] \/ x = owner.session
      <3> SUFFICES ASSUME x \notin u.stale[s]
                   PROVE  x \in v.stale[s] \/ x = owner.session
        BY <1>5
      <3>1. g # None /\ g.session = x
        BY DEF Barred
      <3>2. owner = u.persisted /\ u.persisted.source = s
        BY <1>7 DEF Owner, Barred
      <3> QED BY <1>1, <1>7, <3>1, <3>2 DEF GateFits
    <2> QED BY <1>1, <1>6, <2>2, <2>3 DEF Barred
  <1>8. CASE ~(owner # None /\ s = owner.source) /\ gated
    <2>1. g \in Gates /\ g # None
      BY <1>8, GateTypes DEF GatedBy, Well
    <2>2. v.suppressed[s] = Regate(g, at)
      BY <1>2, <1>8
    <2>3. /\ v.suppressed[s] # None /\ v.suppressed[s].replacement = None
          /\ v.suppressed[s].session = ExitedSession(g)
      BY <2>1, <2>2, RegateFields
    <2>4. x \in v.stale[s] \/ x = ExitedSession(g)
      BY <1>1, <1>3, <1>8 DEF Barred
    <2> QED BY <1>1, <1>6, <2>3, <2>4 DEF Barred
  <1>9. CASE ~(owner # None /\ s = owner.source) /\ ~gated
    BY <1>2, <1>5, <1>6, <1>9 DEF Barred
  <1> QED BY <1>7, <1>8, <1>9

LEMMA ExitedBars ==
    ASSUME Instance, NEW u, Well(u), NEW v, NEW agent, NEW at \in Times, Exited(u, v, agent, at)
    PROVE  Bars(u, v, {})
  <1>1. ASSUME NEW s \in Sources, NEW x \in AllSessions, <<s, x>> \in Ended(u, v)
        PROVE  Barred(v, s, x)
    <2>1. /\ u.authority # None /\ u.authority.source = s /\ u.authority.session = x
          /\ s \in Full /\ x # None /\ v.authority # u.authority
      BY <1>1, EndedFacts
    <2>2. v.authority = None /\ HookAgent(u) = agent
      BY <2>1 DEF Exited
    <2>3. Owner(u, agent) = u.authority
      BY <2>1, <2>2, SourceFacts DEF Owner
    <2>4. v.suppressed[s] = Gate(x, at, "ProcessExit")
      BY <2>1, <2>3 DEF Exited, GatesShut
    <2> QED BY <2>1, <2>2, <2>4, ShutEnded
  <1> QED BY <1>1, ExitedBarred DEF Bars

LEMMA ObservedBars ==
    ASSUME Instance, NEW u, Well(u), NEW e \in Terminals, NEW agent, NEW exited \in BOOLEAN,
           NEW at \in Times, Observed(u, e, agent, exited, at)
    PROVE  Well(e) /\ Bars(u, e, {})
  <1>1. CASE SeenBefore(u, e, agent)
    <2>1. Ended(u, e) = {}
      BY <1>1, NothingEnded DEF SeenBefore
    <2>2. Bars(u, e, {})
      BY <1>1, <2>1 DEF SeenBefore, Bars, Barred
    <2> QED BY <1>1, <2>2, SeenBeforeWell
  <1>2. CASE SeenNew(u, e, agent)
    <2>1. Ended(u, e) = {}
      BY <1>2, OpenResumes, NothingEnded DEF SeenNew
    <2>2. Bars(u, e, {})
      BY <1>2, <2>1, OpenBarred DEF SeenNew, Bars
    <2> QED BY <1>2, <2>2, OpenWell DEF SeenNew
  <1>3. CASE Exited(u, e, agent, at)
    BY <1>3, ExitedWell, ExitedBars
  <1> QED BY <1>1, <1>2, <1>3 DEF Observed

\* An observation changes the report in force, or replaces it by none.
LEMMA ObservedThenReplaces ==
    ASSUME NEW u, Well(u), NEW e, NEW agent, NEW exited, NEW at, Observed(u, e, agent, exited, at),
           e.authority # None, HookAgent(e) # agent
    PROVE  e.authority = u.authority
  <1>1. CASE SeenBefore(u, e, agent)
    BY <1>1 DEF SeenBefore
  <1>2. CASE SeenNew(u, e, agent)
    <2>1. ASSUME NEW r \in Started(u, agent), u.suppressed[r].pending # None,
                 e.authority = u.suppressed[r].pending
          PROVE  FALSE
      <3>1. r \in Sources /\ u.suppressed[r] # None /\ AgentOf(r) = agent
        BY DEF Started, GatedBy
      <3>2. u.suppressed[r].pending.source = r
        BY <2>1, <3>1 DEF Well, GateOK, GateFits
      <3> QED BY <2>1, <3>1, <3>2 DEF HookAgent
    <2> QED BY <1>2, <2>1 DEF SeenNew, GatesOpen
  <1>3. CASE Exited(u, e, agent, at)
    BY <1>3 DEF Exited
  <1> QED BY <1>1, <1>2, <1>3 DEF Observed

LEMMA DetectedBars ==
    ASSUME Instance, NEW u, Well(u), NEW v, NEW agent, NEW exited \in BOOLEAN, NEW at \in Times,
           DetectedDoes(u, v, agent, exited, at)
    PROVE  Bars(u, v, {})
  <1>1. CASE Kept(u, v)
    BY <1>1, KeptBars
  <1>2. ASSUME NEW e \in Terminals, Observed(u, e, agent, exited, at), Kept(e, v)
        PROVE  Bars(u, v, {})
    <2>1. Bars(u, e, {})
      BY <1>2, ObservedBars
    <2>2. Ended(u, v) = Ended(u, e)
      BY <1>2 DEF Kept, Ended, InForce
    <2> QED BY <1>2, <2>1, <2>2, KeptBarred DEF Bars
  <1>3. ASSUME NEW e \in Terminals, Observed(u, e, agent, exited, at), Replaces(e, v, agent)
        PROVE  Bars(u, v, {})
    <2>1. Well(e) /\ Bars(u, e, {})
      BY <1>3, ObservedBars
    <2>2. e.authority = u.authority /\ e.authority # None /\ v.authority = None
      BY <1>3, ObservedThenReplaces DEF Replaces
    <2>3. Bars(e, v, {})
      BY <1>3, <2>1, ShutBars DEF Replaces
    <2>4. Ended(u, v) = Ended(e, v)
      BY <2>2 DEF Ended, InForce
    <2> QED BY <2>1, <2>3, <2>4 DEF Bars
  <1> QED BY <1>1, <1>2, <1>3 DEF DetectedDoes

\* Every step bars what ends with it and keeps barred what has ended.
LEMMA RetiredStep ==
    ASSUME IInv, RetiredOK(t, retired), [Next]_vars
    PROVE  RetiredOK(t', retired')
  <1>1. Instance /\ Well(t)
    BY DEF IInv
  <1>2. ASSUME NEW announced, Bars(t, t', announced), Marked(announced)
        PROVE  RetiredOK(t', retired')
    <2>1. Ended(t, t') \subseteq Sources \X AllSessions
      BY <1>1 DEF Ended, InForce, Well, Terminals, Reports
    <2>2. retired' = (retired \cup Ended(t, t')) \ announced
      BY <1>2 DEF Marked
    <2>3. retired' \subseteq Sources \X AllSessions
      BY <2>1, <2>2 DEF RetiredOK
    <2>4. ASSUME NEW s \in Sources, NEW x \in AllSessions, <<s, x>> \in retired'
          PROVE  Barred(t', s, x)
      <3>1. <<s, x>> \in retired \/ <<s, x>> \in Ended(t, t')
        BY <2>2, <2>4
      <3>2. <<s, x>> \notin announced
        BY <2>2, <2>4
      <3>3. <<s, x>> \in retired => Barred(t, s, x)
        BY DEF RetiredOK
      <3> QED BY <1>2, <3>1, <3>2, <3>3 DEF Bars
    <2> QED BY <2>3, <2>4 DEF RetiredOK
  <1>3. ASSUME HookStep
        PROVE  RetiredOK(t', retired')
    <2>1. PICK s \in Sources, ref \in AllSessions \cup {None}, state \in States,
               seq \in setup.numbers :
            HookDoes(t, t', s, ref, state, seq) /\ Marked(TakenFor(s, ref, t'))
      BY <1>3 DEF HookStep
    <2> QED BY <1>1, <1>2, <2>1, HookBars
  <1>4. ASSUME SessionStep
        PROVE  RetiredOK(t', retired')
    <2>1. PICK s \in Sources, ref \in AllSessions \cup {None}, start \in {None} \cup Starts :
            /\ SessionDoes(t, t', s, ref, start)
            /\ \/ Marked(Announced(s, ref, t'))
               \/ s \notin Full /\ Marked(TakenFor(s, ref, t'))
      BY <1>4 DEF SessionStep
    <2>2. Bars(t, t', Announced(s, ref, t'))
      BY <1>1, <2>1, SessionBars
    <2>3. s \notin Full => Bars(t, t', TakenFor(s, ref, t'))
      BY <1>1, <2>1, SessionBars
    <2> QED BY <1>2, <2>1, <2>2, <2>3
  <1>5. ASSUME EndStep
        PROVE  RetiredOK(t', retired')
    BY <1>1, <1>2, <1>5, EndBars DEF EndStep
  <1>6. ASSUME DetectedStep
        PROVE  RetiredOK(t', retired')
    <2>1. PICK agent \in Agents \cup {None}, exited \in BOOLEAN, at \in Times :
            DetectedDoes(t, t', agent, exited, at) /\ Marked({})
      BY <1>6 DEF DetectedStep
    <2> QED BY <1>1, <1>2, <2>1, DetectedBars
  <1>7. ASSUME FreshStep
        PROVE  RetiredOK(t', retired')
    BY <1>7 DEF FreshStep, RetiredOK
  <1>8. ASSUME t' = t, retired' = retired
        PROVE  RetiredOK(t', retired')
    BY <1>8
  <1> QED BY <1>3, <1>4, <1>5, <1>6, <1>7, <1>8, StepCases

\* The number of the report in force is remembered.
Numbered(u) ==
    u.authority # None /\ u.authority.seq # None
      => /\ u.seqs[u.authority.source] # None
         /\ u.seqs[u.authority.source] >= u.authority.seq

Present(u) == u.authority # None /\ ProcessPresent(u, HookAgent(u))

\* It still is after a step, if the report's agent runs before and after.
Remembers(u, v) ==
    Numbered(u) /\ (u.authority # None => Present(u)) /\ Present(v) => Numbered(v)

LEMMA GrownNumbered ==
    ASSUME Instance, NEW u \in Terminals, NEW v \in Terminals, v.authority = u.authority,
           u.authority # None => Grown(u, v, u.authority.source), Numbered(u)
    PROVE  Numbered(v)
  <1> SUFFICES ASSUME u.authority # None, u.authority.seq # None
               PROVE  Numbered(v)
    BY DEF Numbered
  <1> DEFINE s == u.authority.source
  <1>1. s \in Sources /\ u.authority.seq \in Nat
    <2>1. u.authority \in Reports
      BY DEF Terminals
    <2> QED BY <2>1, SetupFacts DEF Reports
  <1>2. u.seqs[s] \in Nat \cup {None} /\ v.seqs[s] \in Nat \cup {None}
    BY <1>1, GrownNumbers
  <1>3. u.seqs[s] # None /\ u.seqs[s] >= u.authority.seq
    BY DEF Numbered
  <1>4. v.seqs[s] # None /\ v.seqs[s] >= u.seqs[s]
    BY <1>3 DEF Grown
  <1>5. v.seqs[s] >= u.authority.seq
    BY <1>1, <1>2, <1>3, <1>4
  <1> QED BY <1>4, <1>5 DEF Numbered

LEMMA SameNumbered ==
    ASSUME Instance, NEW u \in Terminals, NEW v \in Terminals, v.authority = u.authority,
           v.seqs = u.seqs, Numbered(u)
    PROVE  Numbered(v)
  BY DEF Numbered

LEMMA KeptRemembers ==
    ASSUME Instance, NEW u \in Terminals, NEW v \in Terminals,
           v.authority \in {None, u.authority}, \A r \in Sources : Grown(u, v, r)
    PROVE  Remembers(u, v)
  <1>1. u.authority # None => u.authority.source \in Sources
    BY DEF Terminals, Reports
  <1>2. CASE v.authority = None
    BY <1>2 DEF Remembers, Present
  <1>3. CASE v.authority = u.authority
    BY <1>1, <1>3, GrownNumbered DEF Remembers
  <1> QED BY <1>2, <1>3

\* Gates that open leave the number of the report in force, unless its agent's
\* reports are numbered afresh.
LEMMA OpenNumbered ==
    ASSUME Instance, NEW u, Well(u), NEW v \in Terminals, NEW agent, GatesOpen(u, v, agent),
           Numbered(u),
           u.authority # None /\ HookAgent(u) = agent /\ u.authority.source \in Full
             => u.authority.source \in Started(u, agent)
    PROVE  Numbered(v)
  <1>1. ASSUME v.authority = u.authority,
               \A r \in Sources : v.seqs[r] = Renumbered(u, agent, r)
        PROVE  Numbered(v)
    <2> SUFFICES ASSUME u.authority # None
                 PROVE  Numbered(v)
      BY <1>1 DEF Numbered
    <2>1. u.authority.source \in Sources
      BY DEF Well, Terminals, Reports
    <2>2. v.seqs[u.authority.source] = u.seqs[u.authority.source]
      BY <1>1, <2>1 DEF Renumbered, HookAgent
    <2> QED BY <1>1, <2>2 DEF Numbered
  <1>2. ASSUME NEW r \in Started(u, agent), u.suppressed[r].pending # None,
               v.authority = u.suppressed[r].pending,
               v.seqs[r] = u.suppressed[r].pending.seq
        PROVE  Numbered(v)
    <2>1. r \in Sources /\ u.suppressed[r] # None
      BY DEF Started, GatedBy
    <2>2. v.authority.source = r /\ v.authority.seq # None
      BY <1>2, <2>1 DEF Well, GateOK, GateFits
    <2>3. v.authority.seq \in Nat
      <3>1. v.authority \in Reports
        BY <1>2 DEF Terminals
      <3> QED BY <2>2, <3>1, SetupFacts DEF Reports
    <2> QED BY <1>2, <2>2, <2>3 DEF Numbered
  <1>3. CASE /\ v.authority = u.authority
             /\ \A r \in Sources : v.seqs[r] = Renumbered(u, agent, r)
    BY <1>1, <1>3
  <1>4. CASE \E s \in Started(u, agent) :
               /\ u.suppressed[s].pending # None /\ v.authority = u.suppressed[s].pending
               /\ \A r \in Sources : v.seqs[r] = IF r = s THEN u.suppressed[s].pending.seq
                                                 ELSE Renumbered(u, agent, r)
    <2>1. PICK s \in Started(u, agent) :
               /\ u.suppressed[s].pending # None /\ v.authority = u.suppressed[s].pending
               /\ \A r \in Sources : v.seqs[r] = IF r = s THEN u.suppressed[s].pending.seq
                                                 ELSE Renumbered(u, agent, r)
      BY <1>4
    <2>2. v.seqs[s] = u.suppressed[s].pending.seq
      BY <2>1 DEF Started
    <2> QED BY <1>2, <2>1, <2>2
  <1> QED BY <1>3, <1>4 DEF GatesOpen

LEMMA HookRemembers ==
    ASSUME Instance, NEW u, Well(u), NEW v \in Terminals, NEW s \in Sources,
           NEW ref \in AllSessions \cup {None}, NEW state \in States, NEW seq \in setup.numbers,
           HookDoes(u, v, s, ref, state, seq)
    PROVE  Remembers(u, v)
  <1>1. CASE Kept(u, v)
    BY <1>1, KeptRemembers DEF Kept, Well
  <1>2. CASE Waiting(u, v, s, ref, seq)
    BY <1>2, SameNumbered DEF Waiting, Remembers, Well
  <1>3. CASE Taken(u, v, s, ref, state, seq) /\ Takes(u, s, ref)
    <2>1. v.authority.source = s
      BY <1>3, TakenFields
    <2>2. v.authority.seq = seq
      BY <1>3, TakenFields
    <2>3. seq # None => v.seqs[s] = seq /\ seq \in Nat
      BY <1>3, SetupFacts DEF Taken
    <2>4. Numbered(v)
      BY <2>1, <2>2, <2>3 DEF Numbered
    <2> QED BY <2>4 DEF Remembers
  <1> QED BY <1>1, <1>2, <1>3 DEF HookDoes

LEMMA SessionRemembers ==
    ASSUME Instance, NEW u, Well(u), NEW v \in Terminals, NEW s \in Sources, NEW ref, NEW start,
           SessionDoes(u, v, s, ref, start)
    PROVE  Remembers(u, v)
  <1>1. CASE Kept(u, v) \/ Announces(u, v, s, ref) \/ Recorded(u, v, s, ref, start)
    <2>1. v.authority \in {None, u.authority} /\ \A r \in Sources : Grown(u, v, r)
      BY <1>1 DEF Kept, Announces, Recorded
    <2> QED BY <2>1, KeptRemembers DEF Well
  <1>2. ASSUME s \in Full, NEW w \in Terminals, Announces(u, w, s, ref),
               GatesOpen(w, v, AgentOf(s))
        PROVE  Remembers(u, v)
    <2> SUFFICES ASSUME Numbered(u)
                 PROVE  Numbered(v)
      BY DEF Remembers
    <2>1. w.authority = u.authority /\ Numbered(w)
      BY <1>2, GrownNumbered DEF Announces, Well, Terminals, Reports
    <2>2. Well(w)
      BY <1>2, AnnouncesWell
    <2>3. ASSUME w.authority # None, HookAgent(w) = AgentOf(s), w.authority.source \in Full
          PROVE  w.authority.source \in Started(w, AgentOf(s))
      <3>1. w.authority.source = s
        BY <1>2, <2>3, SourceFacts DEF HookAgent
      <3>2. w.suppressed[s] # None /\ w.suppressed[s].replacement # None
        BY <1>2 DEF Announces
      <3>3. w.suppressed[s].reason # "HookClear"
        BY <2>2, <2>3, <3>1, <3>2 DEF Well, GateOK, GateFits
      <3>4. w.suppressed[s].reason = "ProcessExit"
        BY <2>2, <3>2, <3>3, GateTypes DEF Well
      <3> QED BY <3>1, <3>2, <3>4 DEF Started, GatedBy
    <2> QED BY <1>2, <2>1, <2>2, <2>3, OpenNumbered
  <1> QED BY <1>1, <1>2 DEF SessionDoes

LEMMA DetectedRemembers ==
    ASSUME Instance, NEW u, Well(u), NEW v \in Terminals, NEW agent, NEW exited \in BOOLEAN,
           NEW at \in Times, DetectedDoes(u, v, agent, exited, at)
    PROVE  Remembers(u, v)
  <1>1. CASE Kept(u, v)
    BY <1>1, KeptRemembers DEF Kept, Well
  <1>2. ASSUME NEW e \in Terminals, Observed(u, e, agent, exited, at)
        PROVE  Remembers(u, e)
    <2>1. CASE SeenBefore(u, e, agent)
      BY <2>1, SameNumbered DEF SeenBefore, Remembers, Well
    <2>2. CASE SeenNew(u, e, agent)
      <3> SUFFICES ASSUME Numbered(u), u.authority # None => Present(u)
                   PROVE  Numbered(e)
        BY DEF Remembers
      <3>1. u.authority # None => HookAgent(u) # agent
        BY <2>2 DEF SeenNew, Present
      <3> QED BY <2>2, <3>1, OpenNumbered DEF SeenNew
    <2>3. CASE Exited(u, e, agent, at)
      <3>1. e.exit = [agent |-> agent, at |-> at] /\ e.detected = agent /\ agent # None
        BY <2>3 DEF Exited
      <3>2. e.exit # None
        <4>1. agent \in Agents
          BY <3>1 DEF Terminals
        <4>2. [agent |-> agent, at |-> at] \in Exits
          BY <4>1 DEF Exits
        <4> QED BY <3>1, <4>2, NoneFacts
      <3> QED BY <3>2 DEF Remembers, Present, ProcessPresent
    <2> QED BY <1>2, <2>1, <2>2, <2>3 DEF Observed
  <1>3. ASSUME NEW e \in Terminals, Observed(u, e, agent, exited, at), Kept(e, v)
        PROVE  Remembers(u, v)
    <2>1. Remembers(u, e)
      BY <1>2, <1>3
    <2>2. Present(v) => Present(e)
      BY <1>3 DEF Kept, Present, ProcessPresent, HookAgent
    <2>3. Numbered(e) => Numbered(v)
      BY <1>3, GrownNumbered DEF Kept, Terminals, Reports
    <2> QED BY <2>1, <2>2, <2>3 DEF Remembers
  <1>4. ASSUME NEW e \in Terminals, Replaces(e, v, agent)
        PROVE  Remembers(u, v)
    BY <1>4 DEF Replaces, Remembers, Present
  <1> QED BY <1>1, <1>3, <1>4 DEF DetectedDoes

\* As long as the report's agent is seen to run.
RememberedOK == ~wavered => Numbered(t) /\ (t.authority # None => Present(t))

LEMMA RememberedStep ==
    ASSUME IInv, IInv', RememberedOK, [Next]_vars
    PROVE  RememberedOK'
  <1>1. Instance /\ Well(t)
    BY DEF IInv
  <1>2. t' \in Terminals
    <2>1. setup' = setup
      BY DEF Next, ReportState, ReportSessionStart, ClearAuthority, ReleaseAgent, DetectionResult,
             PaneExits, Respawn, SaveSession, Restart, Tick, vars
    <2>2. t' \in Terminals'
      BY DEF IInv, Well
    <2> QED BY <2>1, <2>2, FrameSetup
  <1>3. Numbered(t)' = Numbered(t') /\ Present(t)' = Present(t')
    BY DEF Numbered, Present, ProcessPresent, HookAgent
  <1>4. ASSUME NEW announced, Marked(announced), Remembers(t, t')
        PROVE  RememberedOK'
    <2> SUFFICES ASSUME ~wavered'
                 PROVE  Numbered(t') /\ (t'.authority # None => Present(t'))
      BY <1>3 DEF RememberedOK
    <2>1. CASE t'.authority = None
      BY <2>1 DEF Numbered
    <2>2. CASE t'.authority # None
      <3>1. ~wavered /\ Present(t')
        BY <1>4, <2>2 DEF Marked, Present
      <3> QED BY <1>4, <3>1 DEF RememberedOK, Remembers
    <2> QED BY <2>1, <2>2
  <1>5. ASSUME HookStep
        PROVE  RememberedOK'
    BY <1>1, <1>2, <1>4, <1>5, HookRemembers DEF HookStep
  <1>6. ASSUME SessionStep
        PROVE  RememberedOK'
    BY <1>1, <1>2, <1>4, <1>6, SessionRemembers DEF SessionStep
  <1>7. ASSUME EndStep
        PROVE  RememberedOK'
    <2>1. CASE Kept(t, t')
      BY <1>1, <1>2, <1>4, <1>7, <2>1, KeptRemembers DEF EndStep, Kept, Well
    <2>2. CASE Clears(t, t') \/ Releases(t, t')
      BY <1>4, <1>7, <2>2 DEF EndStep, Clears, Releases, Remembers, Present
    <2> QED BY <1>7, <2>1, <2>2 DEF EndStep
  <1>8. ASSUME DetectedStep
        PROVE  RememberedOK'
    BY <1>1, <1>2, <1>4, <1>8, DetectedRemembers DEF DetectedStep
  <1>9. ASSUME FreshStep
        PROVE  RememberedOK'
    BY <1>9 DEF FreshStep, RememberedOK, Numbered
  <1>10. ASSUME t' = t, wavered' = wavered
         PROVE  RememberedOK'
    BY <1>3, <1>10 DEF RememberedOK
  <1> QED BY <1>5, <1>6, <1>7, <1>8, <1>9, <1>10, StepCases

\* Nothing stale comes back: a session that ended has no authority again unless
\* it announces itself anew or another session's report is taken for it, and no
\* report replaces one that its source has numbered later
\* (route_full_lifecycle_hook_report, accept_hook_report).
THEOREM StaleSessionsStayOut == Spec => []StaleStaysOut
  <1> DEFINE SInv == IInv /\ RetiredOK(t, retired) /\ RememberedOK
  <1>1. Init => SInv
    <2> SUFFICES ASSUME Init
                 PROVE  SInv
      OBVIOUS
    <2>1. IInv
      BY InitIInv
    <2>2. retired = {} /\ t.authority = None
      BY DEF Init, Fresh
    <2> QED BY <2>1, <2>2 DEF RetiredOK, RememberedOK, Numbered
  <1>2. SInv /\ [Next]_vars => SInv'
    <2> SUFFICES ASSUME SInv, [Next]_vars
                 PROVE  SInv'
      OBVIOUS
    <2>1. IInv'
      BY InductiveIInv
    <2>2. RememberedOK'
      BY <2>1, RememberedStep
    <2>3. RetiredOK(t', retired')
      BY RetiredStep
    <2>4. Sources' = Sources
      <3>1. setup' = setup
        BY DEF Next, ReportState, ReportSessionStart, ClearAuthority, ReleaseAgent,
               DetectionResult, PaneExits, Respawn, SaveSession, Restart, Tick, vars
      <3> QED BY <3>1, FrameSetup
    <2>5. RetiredOK(t, retired)'
      BY <2>3, <2>4 DEF RetiredOK, Barred
    <2> QED BY <2>1, <2>2, <2>5
  <1>3. SInv => StaleStaysOut
    <2> SUFFICES ASSUME SInv
                 PROVE  StaleStaysOut
      OBVIOUS
    <2>1. RetiredStaysOut
      <3> SUFFICES ASSUME InForce(t) \cap retired # {}
                   PROVE  FALSE
        BY DEF RetiredStaysOut
      <3>1. PICK s \in Sources, x \in AllSessions : <<s, x>> \in InForce(t) \cap retired
        BY DEF RetiredOK
      <3>2. Barred(t, s, x)
        BY <3>1 DEF RetiredOK
      <3>3. t.authority # None /\ t.authority.source = s /\ t.authority.session = x
        BY <3>1 DEF InForce
      <3> QED BY <3>2, <3>3 DEF Barred
    <2>2. NumberRemembered
      BY DEF RememberedOK, Numbered, NumberRemembered
    <2> QED BY <2>1, <2>2 DEF StaleStaysOut
  <1> QED BY <1>1, <1>2, <1>3, PTL DEF Spec
=============================================================================
