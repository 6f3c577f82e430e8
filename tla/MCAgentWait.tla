----------------------------- MODULE MCAgentWait -----------------------------
(***************************************************************************)
(* The waits of AgentWait that TLC looks at.                               *)
(***************************************************************************)
EXTENDS AgentWait

CONSTANTS claude, codex

AllStatuses == {"Idle", "Working", "Done", "Unknown"}

Wait(agents, capacity, handlers, prompts, timed) ==
    [agents |-> agents, capacity |-> capacity, handlers |-> handlers,
     until |-> {"Idle", "Done"}, prompts |-> prompts, timed |-> timed]

AllWaits ==
    {\* With a timeout, and a hub that overflows.
     Wait({claude, codex}, 2, 2, FALSE, TRUE),
     Wait({claude}, 2, 3, FALSE, TRUE),
     \* After a prompt.
     Wait({claude}, 3, 3, TRUE, TRUE),
     \* Without a timeout.
     Wait({claude}, 6, 2, FALSE, FALSE)}
=============================================================================
