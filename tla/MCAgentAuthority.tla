-------------------------- MODULE MCAgentAuthority --------------------------
(***************************************************************************)
(* Instances of AgentAuthority for TLC: the tables of the source files for *)
(* some of its integrations, and terminals that hear of them.              *)
(***************************************************************************)
EXTENDS AgentAuthority, TLC

\* pi, whose hooks report its states too; mastracode, whose sessions have ids
\* and whose reports are taken for a resumed session's; opencode, whose reports
\* are taken for the session on record; claude and hermes,
\* which report their sessions only; and scripts of the user's.
Labels == ("herdr:pi" :> "pi") @@ ("herdr:mastracode" :> "mastracode")
          @@ ("herdr:opencode" :> "opencode") @@ ("herdr:claude" :> "claude")
          @@ ("herdr:hermes" :> "hermes") @@ ("user:x" :> "pi") @@ ("user:y" :> "hermes")

Replacements == ("herdr:pi" :> {"new"}) @@ ("herdr:mastracode" :> {"startup"})
                @@ ("herdr:opencode" :> {"new"}) @@ ("herdr:claude" :> {"clear"})
                @@ ("herdr:hermes" :> {"new"}) @@ ("user:x" :> {}) @@ ("user:y" :> {})

Setup(sessions, agents, starts, states, numbers, readings) ==
    [sessions |-> sessions, agents |-> agents, starts |-> starts, states |-> states,
     numbers |-> numbers, clock |-> readings]

AllSetups ==
    {\* Two sessions of pi.
     Setup("herdr:pi" :> {"p1", "p2"}, {"pi"}, {"new"}, {"Idle"}, {1, 2}, 1),
     \* pi, and a script that reports for it too.
     Setup(("herdr:pi" :> {"p1"}) @@ ("user:x" :> {}), {"pi", "claude"}, {"new"},
           {"Idle", "Blocked"}, {1}, 1),
     \* Two sessions of opencode, and a process of claude.
     Setup("herdr:opencode" :> {"o1", "o2"}, {"opencode", "claude"}, {"new"}, {"Idle"},
           {1, 2}, 0),
     \* mastracode and claude take turns.
     Setup(("herdr:mastracode" :> {"m1", "m2"}) @@ ("herdr:claude" :> {"c1"}),
           {"mastracode", "claude"}, {"startup", "clear"}, {"Idle"}, {1}, 0),
     \* hermes, and a script that reports its states.
     Setup(("herdr:hermes" :> {"h1", "h2"}) @@ ("user:y" :> {"x1"}), {"hermes", "claude"},
           {"new"}, {"Idle", "Working"}, {1}, 1)}
=============================================================================
