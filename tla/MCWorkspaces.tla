---------------------------- MODULE MCWorkspaces ----------------------------
(* The uses of Workspaces that TLC checks: what goes together in one, and  *)
(* how much of it.                                                         *)
EXTENDS Workspaces

Use(ops, panes, workspaces, numbers) ==
    [ops |-> ops, panes |-> panes, workspaces |-> workspaces, numbers |-> numbers]

AllUses ==
    {\* Things come and go, alone and with what they are part of.
     Use({"create", "tab", "split", "focus", "close", "died", "worktree"}, 4, 3, 3),
     \* Panes move, and workspaces close behind them.
     Use({"create", "split", "close", "pane"}, 3, 2, 3),
     \* Tabs, workspaces and panes move.
     Use({"create", "tab", "move", "close", "pane"}, 3, 3, 2),
     \* Layouts are applied, and shells do not start.
     Use({"tab", "split", "focus", "zoom", "swap", "apply", "fails"}, 4, 1, 4),
     \* Overlays lie over panes and over overlays.
     Use({"split", "focus", "zoom", "overlay", "died"}, 4, 1, 4),
     \* Tabs go and move, and overlays exit where they are no longer.
     Use({"tab", "split", "zoom", "overlay", "died"}, 4, 1, 4),
     Use({"tab", "zoom", "move", "overlay", "died"}, 4, 1, 4),
     \* Another server takes over.
     Use({"create", "tab", "split", "focus", "zoom", "close", "restart", "handoff"}, 3, 3, 3),
     \* It gives the panes of commands a shell, or fails to.
     Use({"tab", "split", "focus", "died", "handoff", "command"}, 3, 1, 3),
     Use({"create", "tab", "focus", "close", "died", "handoff", "command", "fails"}, 3, 2, 3),
     \* It cannot start every shell.
     Use({"create", "tab", "split", "focus", "died", "restart", "lose"}, 3, 2, 2)}

=============================================================================
