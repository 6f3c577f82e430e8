----------------------------- MODULE Workspaces -----------------------------
(***************************************************************************)
(* Workspaces, their tabs and panes, and what the user looks at            *)
(* (src/workspace.rs, src/workspace/tab.rs, src/app/actions.rs and the     *)
(* handlers under src/app/api).  Clients, key bindings and the end of a    *)
(* pane's process change them, one handler after the other.                *)
(*                                                                         *)
(* A layout tree is its leaves from left to right: a split puts the new    *)
(* pane behind the one it splits, and no handler here asks for more than   *)
(* that order.  A pane keeps its terminal for life, so a terminal has the  *)
(* name of its pane.  Indices start at 1; 0 is None.  A restart gives the  *)
(* panes new internal ids, which is a renaming; here they keep theirs.     *)
(***************************************************************************)
EXTENDS Naturals, Sequences, SequencesExt, FiniteSets, FiniteSetsExt

CONSTANT Uses       \* what the server is used for: the handlers that are called, and bounds

ASSUME WorkspacesAssumption ==
    \A u \in Uses :
        /\ u.ops \subseteq STRING
        /\ {u.panes,                \* bound: panes ever made
            u.workspaces,           \* bound: workspaces ever made in one run of the server
            u.numbers} \subseteq Nat \ {0}   \* bound: public numbers in a workspace

VARIABLES
    use,            \* the use, one of Uses
    app,            \* AppState
    overlays,       \* overlay_panes: pane -> where it was opened and over what
    commands,       \* panes started with a command of their own: launch_argv
    respawns,       \* those of them that get a shell when it exits: respawn_shell_on_exit
    nextPane,       \* PaneId::alloc
    nextWorkspace,  \* NEXT_WORKSPACE_ID
    \* history
    asked,          \* the last step was asked to change what the user looks at,
                    \*   or was a restart that lost panes, which may
    given           \* the public pane ids given since the server started, with the pane

vars == <<use, app, overlays, commands, respawns, nextPane, nextWorkspace, asked, given>>

NoFocus == [ws |-> 0, pane |-> 0]

PanesOf(w) == UNION {w.tabs[t].panes : t \in DOMAIN w.tabs}
AllPanes(a) == UNION {PanesOf(a.workspaces[i]) : i \in DOMAIN a.workspaces}
Indices(a) == DOMAIN a.workspaces
Index(a, id) == SelectInSeq(a.workspaces, LAMBDA w : w.id = id)
WorkspaceOf(a, p) == SelectInSeq(a.workspaces, LAMBDA w : p \in PanesOf(w))
TabOf(w, p) == SelectInSeq(w.tabs, LAMBDA t : p \in t.panes)
Clip(i, n) == IF i > n THEN n ELSE i

\* What is at the positions K of a sequence, in its order.
Only(s, K) ==
    LET taken[n \in 0 .. Len(s)] ==
            IF n = 0 THEN <<>> ELSE IF n \in K THEN Append(taken[n - 1], s[n]) ELSE taken[n - 1]
    IN  taken[Len(s)]

\* HashMap::insert.
With(map, key, value) == [k \in DOMAIN map \cup {key} |-> IF k = key THEN value ELSE map[k]]

\* The public pane ids that are registered, with their panes.
Registered(a) ==
    UNION {{[ws |-> a.workspaces[i].id, number |-> a.workspaces[i].numbers[p], pane |-> p] :
              p \in DOMAIN a.workspaces[i].numbers} : i \in Indices(a)}

\* parse_pane_id of a public pane id.
Resolve(a, ws, number) ==
    LET key == [ws |-> ws, number |-> number]
        found == {r.pane : r \in {r \in Registered(a) : r.ws = ws /\ r.number = number}}
    IN  IF key \in DOMAIN a.aliases
        THEN IF a.aliases[key] \in AllPanes(a) THEN a.aliases[key] ELSE 0
        ELSE IF found = {} THEN 0 ELSE Min(found)

-----------------------------------------------------------------------------
(* Tabs.                                                                   *)

NewTab(number, p) ==
    [number |-> number, root |-> p, layout |-> <<p>>, focus |-> p, zoomed |-> FALSE, panes |-> {p}]

Position(s, p) == SelectInSeq(s, LAMBDA q : q = p)
After(s, target, p) == InsertAt(s, Position(s, target) + 1, p)

\* TileLayout::close_focused, of a layout with more than one leaf.
CloseFocused(t) ==
    LET at == Position(t.layout, t.focus)
    IN  [t EXCEPT !.layout = RemoveFirst(@, t.focus),
                  !.focus = t.layout[IF at < Len(t.layout) THEN at + 1 ELSE at - 1]]

\* detach_pane, take_pane_for_move: another leaf becomes the root.
Detach(t, p) ==
    LET closed == CloseFocused([t EXCEPT !.focus = p])
    IN  [closed EXCEPT !.focus = IF t.focus = p THEN @ ELSE t.focus,
                       !.root = IF @ = p THEN closed.layout[1] ELSE @,
                       !.panes = @ \ {p}, !.zoomed = FALSE]

\* split_focused, insert_pane_near.
Insert(t, target, p) ==
    [t EXCEPT !.layout = After(@, target, p), !.focus = p, !.panes = @ \cup {p}, !.zoomed = FALSE]

-----------------------------------------------------------------------------
(* One workspace.                                                          *)

NewWorkspace(id, p) ==
    [id |-> id, tabs |-> <<NewTab(1, p)>>, active_tab |-> 1, numbers |-> [q \in {p} |-> 1],
     next_pane |-> 2, next_tab |-> 2, space |-> "none"]

Register(w, p) == [w EXCEPT !.numbers = With(@, p, w.next_pane), !.next_pane = @ + 1]
Unregister(w, P) == [w EXCEPT !.numbers = [p \in DOMAIN @ \ P |-> @[p]]]

\* adjust_active_tab_after_removal, and the same in close_tab, close_pane and
\* remove_pane.
WithoutTab(w, t) ==
    LET tabs == RemoveAt(w.tabs, t)
    IN  [w EXCEPT !.tabs = tabs,
                  !.active_tab = IF tabs = <<>> THEN 1
                                 ELSE IF @ > Len(tabs) THEN Len(tabs)
                                 ELSE IF t <= @ /\ @ > 1 THEN @ - 1 ELSE @]

\* close_tab.
CloseTab(w, t) == Unregister(WithoutTab(w, t), w.tabs[t].panes)

\* take_pane_for_move.
Take(w, p) ==
    LET t == TabOf(w, p)
    IN  IF Len(w.tabs[t].layout) = 1 THEN WithoutTab(w, t)
        ELSE [w EXCEPT !.tabs[t] = Detach(@, p)]

\* close_pane_would_close_workspace.
LastPane(w, p) == Len(w.tabs) = 1 /\ Len(w.tabs[1].layout) = 1

\* close_pane and remove_pane, unless the workspace has to close.
ClosePane(w, p) == Unregister(Take(w, p), {p})

\* create_tab_from_existing_pane, and create_tab_with_runtime.
AddTab(w, p) ==
    LET tab == NewTab(w.next_tab, p)
        numbered == IF p \in DOMAIN w.numbers THEN w ELSE Register(w, p)
    IN  [numbered EXCEPT !.tabs = Append(@, tab), !.next_tab = @ + 1]

\* move_tab, to an index the tab has afterwards.
MoveTabIn(w, from, to) ==
    LET tabs == InsertAt(RemoveAt(w.tabs, from), to, w.tabs[from])
        root == w.tabs[w.active_tab].root
    IN  [w EXCEPT !.tabs = tabs, !.active_tab = SelectInSeq(tabs, LAMBDA t : t.root = root)]

-----------------------------------------------------------------------------
(* The focus.                                                              *)

\* current_pane_focus_target.
CurrentFocus(a) ==
    IF a.active \notin Indices(a) THEN NoFocus
    ELSE LET w == a.workspaces[a.active]
         IN  [ws |-> w.id, pane |-> w.tabs[w.active_tab].focus]

\* record_pane_focus_change, record_pane_focus_after_navigation.
Record(a, previous) == IF previous = CurrentFocus(a) THEN a ELSE [a EXCEPT !.previous = previous]

\* switch_workspace_tab and switch_workspace.
SwitchTab(a, i, t) ==
    Record([a EXCEPT !.active = i, !.selected = i, !.workspaces[i].active_tab = t], CurrentFocus(a))
SwitchWorkspace(a, i) == SwitchTab(a, i, a.workspaces[i].active_tab)

\* focus_pane_in_workspace.
FocusPane(a, i, p) ==
    LET t == TabOf(a.workspaces[i], p)
    IN  IF CurrentFocus(a) = [ws |-> a.workspaces[i].id, pane |-> p] THEN a
        ELSE Record([SwitchTab(a, i, t) EXCEPT !.workspaces[i].tabs[t].focus = p], CurrentFocus(a))

\* remove_plugin_pane_records, remove_unattached_terminal_ids.
Forget(a, P) == [a EXCEPT !.previous = IF @.pane \in P THEN NoFocus ELSE @,
                          !.terminals = @ \ (P \ AllPanes(a))]

-----------------------------------------------------------------------------
(* Handlers.                                                               *)

Fresh == nextPane <= use.panes
Numbers(i) == Max({app.workspaces[i].next_pane, app.workspaces[i].next_tab}) <= use.numbers
Takes(op) == op \in use.ops
Keep(v) == UNCHANGED v

\* create_workspace_with_launch_env.
WithWorkspace(a, w, focus) ==
    LET b == [a EXCEPT !.workspaces = Append(@, w), !.terminals = @ \cup PanesOf(w)]
    IN  IF focus \/ a.active = 0 THEN SwitchWorkspace(b, Len(b.workspaces)) ELSE b

CreateWorkspace(focus) ==
    /\ Takes("create") /\ Fresh /\ nextWorkspace <= use.workspaces
    /\ app' = WithWorkspace(app, NewWorkspace(nextWorkspace, nextPane), focus)
    /\ nextPane' = nextPane + 1 /\ nextWorkspace' = nextWorkspace + 1
    /\ Keep(overlays)

\* handle_worktree_open of a checkout that is not open: the workspace of the
\* repository is marked, the new one belongs to it.
WorktreeOpen(i, focus) ==
    /\ Takes("worktree") /\ Fresh /\ nextWorkspace <= use.workspaces
    /\ app.workspaces[i].space # "linked"
    /\ \A j \in Indices(app) : app.workspaces[j].space = "main" => j = i
    /\ app' = WithWorkspace([app EXCEPT !.workspaces[i].space = "main"],
                            [NewWorkspace(nextWorkspace, nextPane) EXCEPT !.space = "linked"], focus)
    /\ nextPane' = nextPane + 1 /\ nextWorkspace' = nextWorkspace + 1
    /\ Keep(overlays)

\* handle_tab_create.
CreateTab(i, focus) ==
    /\ Takes("tab") /\ Fresh /\ Numbers(i)
    /\ LET w == AddTab(app.workspaces[i], nextPane)
           a == [app EXCEPT !.workspaces[i] = w, !.terminals = @ \cup {nextPane}]
       IN  app' = IF focus THEN SwitchTab(a, i, Len(w.tabs)) ELSE a
    /\ nextPane' = nextPane + 1 /\ Keep(<<overlays, nextWorkspace>>)

\* The shell of the tab does not start: its number is used up.
CreateTabFails(i) ==
    /\ Takes("fails") /\ app.workspaces[i].next_tab <= use.numbers
    /\ app' = [app EXCEPT !.workspaces[i].next_tab = @ + 1]
    /\ Keep(<<overlays, nextPane, nextWorkspace>>)

\* split_pane_with_runtime: the tab of the pane with the new pane in it.
SplitIn(a, i, target, p, focus) ==
    LET t == TabOf(a.workspaces[i], target)
        before == a.workspaces[i].tabs[t]
        split == Insert(before, target, p)
        after == IF focus THEN split ELSE [split EXCEPT !.focus = before.focus]
    IN  [a EXCEPT !.workspaces[i] = Register([a.workspaces[i] EXCEPT !.tabs[t] = after], p),
                  !.terminals = @ \cup {p}]

\* handle_pane_split.
Split(i, target, focus) ==
    /\ Takes("split") /\ Fresh /\ app.workspaces[i].next_pane <= use.numbers
    /\ LET a == SplitIn(app, i, target, nextPane, focus)
       IN  app' = IF focus
                  THEN Record(SwitchTab(a, i, TabOf(a.workspaces[i], target)), CurrentFocus(app))
                  ELSE a
    /\ nextPane' = nextPane + 1 /\ Keep(<<overlays, nextWorkspace>>)

\* split_focused_with_runtime when the shell does not start.
UndoSplit(t, target, p) ==
    LET split == [t EXCEPT !.layout = After(@, target, p), !.focus = p]
        closed == CloseFocused(split)
    IN  [closed EXCEPT !.focus = t.focus]

SplitFails(i, target) ==
    /\ Takes("fails") /\ Fresh
    /\ app' = [app EXCEPT !.workspaces[i].tabs[TabOf(app.workspaces[i], target)] =
                             UndoSplit(@, target, nextPane)]
    /\ nextPane' = nextPane + 1 /\ Keep(<<overlays, nextWorkspace>>)

\* handle_workspace_focus, handle_tab_focus, handle_pane_focus.
FocusTab(i, t) ==
    /\ Takes("focus") /\ t \in DOMAIN app.workspaces[i].tabs
    /\ app' = SwitchTab(app, i, t)
    /\ Keep(<<overlays, nextPane, nextWorkspace>>)
Focus(i, p) ==
    /\ Takes("focus") /\ app' = FocusPane(app, i, p)
    /\ Keep(<<overlays, nextPane, nextWorkspace>>)

\* last_pane_via_api.
FocusLast ==
    LET target == app.previous
        i == Index(app, target.ws)
    IN  /\ Takes("focus") /\ target # NoFocus
        /\ app' = IF i = 0 \/ TabOf(app.workspaces[i], target.pane) = 0 \/ CurrentFocus(app) = target
                  THEN [app EXCEPT !.previous = NoFocus]
                  ELSE FocusPane(app, i, target.pane)
        /\ Keep(<<overlays, nextPane, nextWorkspace>>)

\* apply_pane_zoom.
Zoom(i, p, desired) ==
    /\ Takes("zoom")
    /\ LET a == FocusPane(app, i, p)
           t == TabOf(a.workspaces[i], p)
       IN  app' = IF Len(a.workspaces[i].tabs[t].layout) = 1 THEN a
                  ELSE [a EXCEPT !.workspaces[i].tabs[t].zoomed = desired]
    /\ Keep(<<overlays, nextPane, nextWorkspace>>)

\* handle_pane_swap of two panes of a tab; the first gets the focus.
Swap(i, p, q) ==
    LET t == TabOf(app.workspaces[i], p)
        layout == app.workspaces[i].tabs[t].layout
        swapped == [k \in DOMAIN layout |-> IF layout[k] = p THEN q ELSE IF layout[k] = q THEN p ELSE layout[k]]
        a == [app EXCEPT !.workspaces[i].tabs[t] = [@ EXCEPT !.layout = swapped, !.focus = p]]
    IN  /\ Takes("swap") /\ p # q /\ q \in app.workspaces[i].tabs[t].panes
        /\ app' = Record(SwitchTab(a, i, t), CurrentFocus(app))
        /\ Keep(<<overlays, nextPane, nextWorkspace>>)

\* handle_tab_move.
MoveTab(i, from, to) ==
    /\ Takes("move") /\ from # to
    /\ {from, to} \subseteq DOMAIN app.workspaces[i].tabs
    /\ app' = [app EXCEPT !.workspaces[i] = MoveTabIn(@, from, to)]
    /\ Keep(<<overlays, nextPane, nextWorkspace>>)

\* The workspaces in another order: what is active and what is selected
\* is found again by its id.
Reordered(a, order) ==
    LET at(i) == SelectInSeq(order, LAMBDA w : i \in Indices(a) /\ w.id = a.workspaces[i].id)
    IN  [a EXCEPT !.workspaces = order, !.active = at(@), !.selected = Max({at(@), 1})]

\* move_workspace, to an index the workspace has afterwards.
MoveWorkspace(from, to) ==
    /\ Takes("move") /\ from # to /\ {from, to} \subseteq Indices(app)
    /\ app' = Reordered(app, InsertAt(RemoveAt(app.workspaces, from), to, app.workspaces[from]))
    /\ Keep(<<overlays, nextPane, nextWorkspace>>)

\* move_workspace_block: two workspaces before a third, or to the end.
MoveBlock(x, y, before) ==
    LET block == <<app.workspaces[x], app.workspaces[y]>>
        rest == Only(app.workspaces, Indices(app) \ {x, y})
        at == IF before = 0 THEN Len(rest) + 1
              ELSE SelectInSeq(rest, LAMBDA w : w.id = app.workspaces[before].id)
        order == SubSeq(rest, 1, at - 1) \o block \o SubSeq(rest, at, Len(rest))
    IN  /\ Takes("move") /\ x # y /\ before \notin {x, y} /\ order # app.workspaces
        /\ app' = Reordered(app, order)
        /\ Keep(<<overlays, nextPane, nextWorkspace>>)

-----------------------------------------------------------------------------
(* Moving a pane.                                                          *)

\* Where to: beside a pane, or to a new tab of a workspace; or to a new
\* workspace, which has the next id.
Destinations(a) ==
    {[ws |-> a.workspaces[j].id, beside |-> q] : j \in Indices(a), q \in {0} \cup AllPanes(a)}
      \cup {[ws |-> nextWorkspace, beside |-> 0]}

\* Mutant: what comes behind the workspace that closed keeps its index.
DropEmptiedKeep(a, i) ==
    LET rest == RemoveAt(a.workspaces, i)
    IN  [a EXCEPT !.workspaces = rest,
                  !.active = Clip(@, Len(rest)),
                  !.selected = IF rest = <<>> THEN 1 ELSE Clip(@, Len(rest))]

\* The source workspace of a move has no pane left.
DropEmptied(a, i) ==
    LET rest == RemoveAt(a.workspaces, i)
        at(k) == IF rest = <<>> THEN 0
                 ELSE IF k = i THEN Clip(i, Len(rest)) ELSE IF k > i THEN k - 1 ELSE k
    IN  [a EXCEPT !.workspaces = rest, !.active = at(@), !.selected = Max({at(@), 1})]

\* Mutant: there is no alias.
LeaveSourceSilently(a, i, p, cross) ==
    LET w == Take(a.workspaces[i], p)
    IN  IF ~cross THEN [a EXCEPT !.workspaces[i] = w]
        ELSE IF w.tabs = <<>> THEN DropEmptied(a, i)
        ELSE [a EXCEPT !.workspaces[i] = Unregister(w, {p})]

\* handle_pane_move, up to where the pane is nowhere.
LeaveSource(a, i, p, cross) ==
    LET w == Take(a.workspaces[i], p)
        key == [ws |-> w.id, number |-> w.numbers[p]]
        left == IF w.tabs = <<>> THEN DropEmptied(a, i)
                ELSE [a EXCEPT !.workspaces[i] = Unregister(w, {p})]
    IN  IF cross THEN [left EXCEPT !.aliases = With(@, key, p)] ELSE [a EXCEPT !.workspaces[i] = w]

\* insert_moved_pane_into_tab, create_tab_from_existing_pane,
\* Workspace::from_existing_pane.
Arrive(a, p, d, focus) ==
    LET j == Index(a, d.ws)
        w == a.workspaces[j]
        t == TabOf(w, d.beside)
        inserted == Insert(w.tabs[t], d.beside, p)
        tab == IF focus THEN inserted ELSE [inserted EXCEPT !.focus = w.tabs[t].focus]
        numbered == IF p \in DOMAIN w.numbers THEN w ELSE Register(w, p)
    IN  IF j = 0 THEN [a EXCEPT !.workspaces = Append(@, NewWorkspace(d.ws, p))]
        ELSE [a EXCEPT !.workspaces[j] =
                IF d.beside = 0 THEN AddTab(w, p) ELSE [numbered EXCEPT !.tabs[t] = tab]]

\* handle_pane_move.  A zoomed tab gives and takes no pane.
PaneMove(i, p, d, focus) ==
    LET w == app.workspaces[i]
        j == Index(app, d.ws)
        left == LeaveSource(app, i, p, d.ws # w.id)
        a == Arrive(left, p, d, focus)
        to == Index(a, d.ws)
    IN  /\ Takes("pane")
        /\ ~w.tabs[TabOf(w, p)].zoomed
        /\ IF j = 0 THEN nextWorkspace <= use.workspaces
           ELSE Numbers(j)
        /\ d.beside # 0 =>
              /\ j # 0 /\ d.beside \in PanesOf(app.workspaces[j])
              /\ LET t == TabOf(app.workspaces[j], d.beside)
                 IN  p \notin app.workspaces[j].tabs[t].panes /\ ~app.workspaces[j].tabs[t].zoomed
        /\ app' = IF focus \/ a.active = 0
                  THEN Record(SwitchTab(a, to, TabOf(a.workspaces[to], p)), CurrentFocus(app)) ELSE a
        /\ nextWorkspace' = IF j = 0 THEN nextWorkspace + 1 ELSE nextWorkspace
        /\ Keep(<<overlays, nextPane>>)

-----------------------------------------------------------------------------
(* Closing.                                                                *)

\* The workspaces that close with one: a repository takes its worktrees along.
Group(a, i) ==
    LET family == {j \in Indices(a) : a.workspaces[j].space # "none"}
    IN  IF a.workspaces[i].space = "main" /\ Cardinality(family) >= 2 THEN family ELSE {i}

\* close_selected_workspace, of a workspace that was selected for it.
CloseWorkspaceOf(a, i) ==
    LET gone == {a.workspaces[j].id : j \in Group(a, i)}
        rest == Only(a.workspaces, {j \in Indices(a) : a.workspaces[j].id \notin gone})
        kept == SelectInSeq(rest, LAMBDA w : a.active # 0 /\ w.id = a.workspaces[a.active].id)
        at == IF rest = <<>> THEN 0 ELSE IF kept # 0 THEN kept ELSE Clip(i, Len(rest))
        b == [a EXCEPT !.workspaces = rest, !.active = at, !.selected = Max({at, 1})]
    IN  Forget(b, AllPanes(a) \ AllPanes(b))

\* handle_workspace_close; confirm_close_accept_via_api closes the selected one.
CloseWorkspace(i) ==
    /\ Takes("close") /\ app' = CloseWorkspaceOf(app, i)
    /\ Keep(<<overlays, nextPane, nextWorkspace>>)

\* confirm_implicit_worktree_group_close: the user is asked first.
Asks(i) == Cardinality(Group(app, i)) >= 2
AskFirst(i) == app' = [app EXCEPT !.selected = i]

\* handle_tab_close.
CloseTabOf(i, t) ==
    LET w == app.workspaces[i]
        a == [app EXCEPT !.workspaces[i] = CloseTab(w, t)]
    IN  /\ Takes("close") /\ t \in DOMAIN w.tabs
        /\ IF Len(w.tabs) > 1 THEN app' = Forget(a, w.tabs[t].panes)
           ELSE IF Asks(i) THEN AskFirst(i) ELSE app' = CloseWorkspaceOf(app, i)
        /\ Keep(<<overlays, nextPane, nextWorkspace>>)

\* close_pane of src/app/api/panes.rs.
ClosePaneOf(i, p) ==
    LET w == app.workspaces[i]
    IN  /\ Takes("close")
        /\ IF ~LastPane(w, p) THEN app' = Forget([app EXCEPT !.workspaces[i] = ClosePane(w, p)], {p})
           ELSE IF Asks(i) THEN AskFirst(i) ELSE app' = CloseWorkspaceOf(app, i)
        /\ Keep(<<overlays, nextPane, nextWorkspace>>)

-----------------------------------------------------------------------------
(* A pane's process ends.                                                  *)

\* handle_pane_died.
Died(a, p) ==
    LET i == WorkspaceOf(a, p)
        rest == RemoveAt(a.workspaces, i)
        at(k) == LET kept == SelectInSeq(rest, LAMBDA w : k # 0 /\ w.id = a.workspaces[k].id)
                 IN  IF kept # 0 THEN kept ELSE Clip(k, Len(rest))
        b == IF LastPane(a.workspaces[i], p)
             THEN [a EXCEPT !.workspaces = rest, !.active = at(@), !.selected = Max({at(@), 1})]
             ELSE [a EXCEPT !.workspaces[i] = ClosePane(@, p)]
    IN  [Forget(b, {p}) EXCEPT !.aliases = [k \in {k \in DOMAIN @ : @[k] # p} |-> @[k]]]

\* Mutant: the tab stays as the exit of the overlay left it.
RestoreOverlayNever(a, b, p, o) == b

\* restore_overlay_after_exit: a is the state before the exit, b after it.
RestoreOverlay(a, b, p, o) ==
    LET there(s) == o.ws_idx \in Indices(s) /\ o.tab_idx \in DOMAIN s.workspaces[o.ws_idx].tabs
        before == a.workspaces[o.ws_idx]
        focused == there(a) /\ before.tabs[o.tab_idx].focus = p
        active == focused /\ a.active = o.ws_idx /\ before.active_tab = o.tab_idx
        after == b.workspaces[o.ws_idx]
        shown == [after EXCEPT !.active_tab = IF active THEN o.tab_idx ELSE @]
        tab == after.tabs[o.tab_idx]
        focus == IF o.focus \in tab.panes THEN o.focus ELSE tab.focus
        with(w, t) == [b EXCEPT !.workspaces[o.ws_idx] = [w EXCEPT !.tabs[o.tab_idx] = t]]
    IN  IF ~there(b) THEN b
        ELSE IF focused THEN with(shown, [tab EXCEPT !.focus = focus, !.zoomed = o.zoomed])
        ELSE IF there(a) THEN with(after, [tab EXCEPT !.zoomed = before.tabs[o.tab_idx].zoomed])
        ELSE b

\* AppEvent::PaneDied.  A pane that is to get a shell closes only if that shell
\* does not start.
PaneDied(p) ==
    /\ Takes("died") /\ p \in AllPanes(app)
    /\ p \in respawns => Takes("fails")
    /\ app' = IF p \in DOMAIN overlays THEN RestoreOverlay(app, Died(app, p), p, overlays[p])
              ELSE Died(app, p)
    /\ overlays' = [q \in DOMAIN overlays \ {p} |-> overlays[q]]
    /\ Keep(<<nextPane, nextWorkspace>>)

\* AppEvent::PaneDied of a pane that gets a shell
\* (respawn_shell_for_launch_pane): it takes the focus.
RespawnShell(p) ==
    /\ Takes("died") /\ p \in respawns
    /\ app' = FocusPane(app, WorkspaceOf(app, p), p)
    /\ overlays' = [q \in DOMAIN overlays \ {p} |-> overlays[q]]
    /\ commands' = commands \ {p} /\ respawns' = respawns \ {p}
    /\ Keep(<<nextPane, nextWorkspace>>)

\* spawn_pane_command, spawn_overlay_argv_command: a zoomed pane over the
\* focused one.
OpenOverlay ==
    LET i == app.active
        t == app.workspaces[i].active_tab
        tab == app.workspaces[i].tabs[t]
        a == SplitIn(app, i, tab.focus, nextPane, TRUE)
    IN  /\ Takes("overlay") /\ Fresh /\ i # 0 /\ app.workspaces[i].next_pane <= use.numbers
        /\ app' = Record([a EXCEPT !.workspaces[i].tabs[t].zoomed = TRUE], CurrentFocus(app))
        /\ overlays' = With(overlays, nextPane,
                            [ws_idx |-> i, tab_idx |-> t, focus |-> tab.focus, zoomed |-> tab.zoomed])
        /\ nextPane' = nextPane + 1 /\ Keep(nextWorkspace)

-----------------------------------------------------------------------------
(* layout.apply: a tab with n panes, which may take the place of another.  *)

\* The tab with its panes, each split off without the focus.
WithLayout(a, i, n) ==
    LET first == [a EXCEPT !.workspaces[i] = AddTab(@, nextPane), !.terminals = @ \cup {nextPane}]
        after[k \in 0 .. n - 1] ==
            IF k = 0 THEN first ELSE SplitIn(after[k - 1], i, nextPane + k - 1, nextPane + k, FALSE)
    IN  after[n - 1]

Room(i, n) == /\ nextPane + n - 1 <= use.panes /\ app.workspaces[i].next_tab <= use.numbers
              /\ app.workspaces[i].next_pane + n - 1 <= use.numbers

\* Mutant: the terminals of the tab that is replaced go on.
ReplaceTabLeak(a, i, t, n) ==
    LET b == WithLayout(a, i, n)
    IN  IF t = 0 THEN b ELSE [b EXCEPT !.workspaces[i] = CloseTab(@, t)]

\* handle_layout_apply up to the focus.
ReplaceTab(a, i, t, n) ==
    LET b == WithLayout(a, i, n)
    IN  IF t = 0 THEN b
        ELSE Forget([b EXCEPT !.workspaces[i] = CloseTab(@, t)], b.workspaces[i].tabs[t].panes)

\* handle_layout_apply.  The tab takes the focus if it is asked to, or if the
\* one it replaces had it.
LayoutApply(i, t, n, focus) ==
    LET a == ReplaceTab(app, i, t, n)
        replaces == app.active = i /\ t = app.workspaces[i].active_tab
    IN  /\ Takes("apply") /\ Room(i, n) /\ t \in {0} \cup DOMAIN app.workspaces[i].tabs
        /\ app' = IF focus \/ replaces THEN SwitchTab(a, i, Len(a.workspaces[i].tabs)) ELSE a
        /\ nextPane' = nextPane + n /\ Keep(<<overlays, nextWorkspace>>)

\* rollback_layout_tab.
Rollback(a, i) ==
    LET w == a.workspaces[i]
    IN  Forget([a EXCEPT !.workspaces[i] = CloseTab(w, Len(w.tabs))], w.tabs[Len(w.tabs)].panes)

\* The shell of pane n + 1 does not start.
LayoutFails(i, n) ==
    /\ Takes("apply") /\ Takes("fails") /\ Room(i, n + 1)
    /\ app' = Rollback(WithLayout(app, i, n), i)
    /\ nextPane' = nextPane + n + 1 /\ Keep(<<overlays, nextWorkspace>>)

-----------------------------------------------------------------------------
(* Commands.                                                               *)

\* A layout, an overlay or a plugin gives a new pane of a workspace that was
\* there a command; nothing else starts a pane with one.
MayLaunch ==
    LET known == {j \in Indices(app') : Index(app, app'.workspaces[j].id) # 0}
    IN  IF Takes("command") THEN UNION {PanesOf(app'.workspaces[j]) : j \in known} \ AllPanes(app) ELSE {}

\* What a handler makes of the commands: new panes may have one, and it is gone
\* with its pane.
Launches ==
    /\ \E launched \in SUBSET MayLaunch : commands' = (commands \cup launched) \cap AllPanes(app')
    /\ respawns' = respawns \cap AllPanes(app')

-----------------------------------------------------------------------------
(* A restart.                                                              *)

\* restore_tab, resolve_restored_pane: the shells of some panes do not start.
RestoreTab(t, lost) ==
    LET layout == Only(t.layout, {k \in DOMAIN t.layout : t.layout[k] \notin lost})
        kept(p) == IF p \in lost THEN layout[1] ELSE p
    IN  [t EXCEPT !.layout = layout, !.panes = @ \ lost, !.focus = kept(@), !.root = kept(@)]

\* restore_workspace: tabs without panes are left out.
RestoreWorkspace(w, lost) ==
    LET left == Only(w.tabs, {t \in DOMAIN w.tabs : ~(w.tabs[t].panes \subseteq lost)})
        tabs == [k \in DOMAIN left |-> RestoreTab(left[k], lost)]
    IN  [Unregister(w, lost) EXCEPT !.tabs = tabs, !.active_tab = Clip(@, Len(tabs))]

\* capture, restore_with_imports_and_failures, and what App::new makes of it;
\* aliases and the previous focus are not saved.
Restored(a, lost) ==
    LET left == Only(a.workspaces, {i \in Indices(a) : ~(PanesOf(a.workspaces[i]) \subseteq lost)})
        n == Len(left)
    IN  [workspaces |-> [i \in 1 .. n |-> RestoreWorkspace(left[i], lost)],
         active |-> IF a.active <= n THEN a.active ELSE 0,
         selected |-> Max({Clip(a.selected, n), 1}),
         previous |-> NoFocus, aliases |-> <<>>, terminals |-> a.terminals \ lost]

\* reserve_workspace_ids.
NextWorkspaceId(a) == Max({0} \cup {a.workspaces[i].id : i \in Indices(a)}) + 1

\* The server stops and starts again; every pane gets a new shell.
Restart(lost) ==
    /\ Takes("restart")
    /\ lost # {} => Takes("lose")
    /\ app' = Restored(app, lost) /\ commands' = {} /\ respawns' = {}
    /\ overlays' = <<>> /\ nextWorkspace' = NextWorkspaceId(app') /\ Keep(nextPane)

\* A live handoff: the processes go on in the new server, the commands with a
\* shell to follow them.
Handoff ==
    /\ Takes("handoff") /\ app' = Restored(app, {})
    /\ commands' = commands /\ respawns' = commands
    /\ overlays' = <<>> /\ nextWorkspace' = NextWorkspaceId(app') /\ Keep(nextPane)

-----------------------------------------------------------------------------
Init ==
    /\ use \in Uses
    /\ app = [workspaces |-> <<NewWorkspace(1, 1)>>, active |-> 1, selected |-> 1,
              previous |-> NoFocus, aliases |-> <<>>, terminals |-> {1}]
    /\ overlays = <<>> /\ commands = {} /\ respawns = {}
    /\ nextPane = 2 /\ nextWorkspace = 2
    /\ asked = FALSE /\ given = Registered(app)

\* Steps that are asked to change what the user looks at.
Focusing ==
    \/ CreateWorkspace(TRUE) \/ FocusLast \/ OpenOverlay
    \/ \E i \in Indices(app) :
          \/ WorktreeOpen(i, TRUE) \/ CreateTab(i, TRUE)
          \/ \E t \in DOMAIN app.workspaces[i].tabs : FocusTab(i, t)
          \/ \E n \in 1 .. use.panes, t \in {0} \cup DOMAIN app.workspaces[i].tabs : LayoutApply(i, t, n, TRUE)
          \/ \E p \in PanesOf(app.workspaces[i]) :
                \/ Split(i, p, TRUE) \/ Focus(i, p)
                \/ \E desired \in BOOLEAN : Zoom(i, p, desired)
                \/ \E q \in PanesOf(app.workspaces[i]) : Swap(i, p, q)
                \/ \E d \in Destinations(app) : PaneMove(i, p, d, TRUE)

\* Steps that are not.
Background ==
    \/ CreateWorkspace(FALSE)
    \/ \E i \in Indices(app) :
          \/ WorktreeOpen(i, FALSE) \/ CreateTab(i, FALSE) \/ CreateTabFails(i) \/ CloseWorkspace(i)
          \/ \E j \in Indices(app) : MoveWorkspace(i, j)
          \/ \E j \in Indices(app), k \in {0} \cup Indices(app) : MoveBlock(i, j, k)
          \/ \E t, u \in DOMAIN app.workspaces[i].tabs : MoveTab(i, t, u)
          \/ \E t \in DOMAIN app.workspaces[i].tabs : CloseTabOf(i, t)
          \/ \E n \in 1 .. use.panes, t \in {0} \cup DOMAIN app.workspaces[i].tabs : LayoutApply(i, t, n, FALSE)
          \/ \E n \in 1 .. use.panes : LayoutFails(i, n)
          \/ \E p \in PanesOf(app.workspaces[i]) :
                \/ Split(i, p, FALSE) \/ SplitFails(i, p) \/ ClosePaneOf(i, p) \/ PaneDied(p)
                \/ \E d \in Destinations(app) : PaneMove(i, p, d, FALSE)

\* Another server takes over.
Starting == Handoff \/ \E lost \in SUBSET AllPanes(app) : Restart(lost)

Next ==
    /\ \/ Focusing /\ Launches /\ asked' = TRUE /\ given' = given \cup Registered(app')
       \/ Background /\ Launches /\ asked' = FALSE /\ given' = given \cup Registered(app')
       \/ (\E p \in respawns : RespawnShell(p)) /\ asked' = FALSE /\ given' = given \cup Registered(app')
       \/ Starting /\ asked' = (AllPanes(app') # AllPanes(app)) /\ given' = Registered(app')
    /\ UNCHANGED use

Spec == Init /\ [][Next]_vars

-----------------------------------------------------------------------------
(* Properties.                                                             *)

Panes == 1 .. use.panes
Tab == [number : 1 .. use.numbers, root : Panes, layout : Seq(Panes), focus : Panes,
        zoomed : BOOLEAN, panes : SUBSET Panes]

\* Values stay in range: indices, numbers, panes (Workspace and Tab of
\* src/workspace.rs, AppState of src/app/state.rs).
TypeOK ==
    /\ \A i \in Indices(app) :
          LET w == app.workspaces[i]
          IN  /\ w.id \in 1 .. use.workspaces /\ w.active_tab \in DOMAIN w.tabs
              /\ \A t \in DOMAIN w.tabs : w.tabs[t] \in Tab
              /\ DOMAIN w.numbers \subseteq Panes
              /\ {w.next_pane, w.next_tab} \subseteq 1 .. use.numbers + 1
              /\ w.space \in {"none", "main", "linked"}
    /\ app.previous \in [ws : 0 .. use.workspaces, pane : 0 .. use.panes]
    /\ app.terminals \subseteq Panes /\ asked \in BOOLEAN
    /\ DOMAIN overlays \subseteq Panes
    /\ respawns \subseteq commands /\ commands \subseteq AllPanes(app)

\* A tab's tree holds its panes, each once; its focus and its root are among
\* them, whatever was split, moved, swapped, closed or lost
\* (assert_invariants_for_test, src/workspace.rs:1401).
TabsConsistent ==
    \A i \in Indices(app) : \A t \in DOMAIN app.workspaces[i].tabs :
        LET tab == app.workspaces[i].tabs[t]
        IN  /\ ToSet(tab.layout) = tab.panes /\ Len(tab.layout) = Cardinality(tab.panes)
            /\ {tab.focus, tab.root} \subseteq tab.panes

\* No pane is in two tabs, each is numbered where it is and nowhere else, and
\* neither tabs nor panes of a workspace share a number.
PanesOnce ==
    \A i \in Indices(app) :
        LET w == app.workspaces[i]
        IN  /\ DOMAIN w.numbers = PanesOf(w)
            /\ \A p, q \in PanesOf(w) : w.numbers[p] = w.numbers[q] => p = q
            /\ \A t, u \in DOMAIN w.tabs : t # u => /\ w.tabs[t].number # w.tabs[u].number
                                                   /\ w.tabs[t].panes \cap w.tabs[u].panes = {}
            /\ \A j \in Indices(app) \ {i} : /\ PanesOf(w) \cap PanesOf(app.workspaces[j]) = {}
                                            /\ w.id # app.workspaces[j].id

\* While there is a workspace, one is active, unless a restart lost it; what is
\* active and what is selected exists (assert_invariants_for_test,
\* src/app/state.rs:2195).
ViewExists ==
    IF app.workspaces = <<>> THEN app.active = 0 /\ app.selected = 1
    ELSE /\ app.selected \in Indices(app)
         /\ app.active \in Indices(app) \/ (app.active = 0 /\ Takes("lose"))

\* The terminals are those of the panes: a pane that closes, alone or with its
\* tab, workspace or worktree group, or whose layout is rolled back, takes its
\* terminal along, and a pane that moves keeps it.
TerminalsAttached == app.terminals = AllPanes(app)

\* The structure of workspaces, tabs, trees, numbers and terminals as a whole.
Consistent ==
    TypeOK /\ TabsConsistent /\ PanesOnce /\ ViewExists /\ TerminalsAttached

\* A public pane id that was given to a pane never leads to another one
\* (parse_pane_id, src/app/ids.rs).
IdsKeepTheirPane ==
    \A g \in given : Resolve(app, g.ws, g.number) \in {0, g.pane}

\* Every public id a pane was given leads to it as long as it lives, also
\* after moves between workspaces.
OldIdResolves ==
    \A g \in given : g.pane \in AllPanes(app) => Resolve(app, g.ws, g.number) = g.pane

\* A public id leads to the pane it was given to as long as that pane lives, and
\* nowhere afterwards.
IdsLead == IdsKeepTheirPane /\ OldIdResolves

\* The tab at the indices that an overlay remembers.
At(a, o) == <<a.workspaces[o.ws_idx].id, a.workspaces[o.ws_idx].tabs[o.tab_idx].number>>
IsThere(a, o) == o.ws_idx \in Indices(a) /\ o.tab_idx \in DOMAIN a.workspaces[o.ws_idx].tabs

\* The tabs that a step takes for the one an overlay lay in: when that overlay
\* exits, its indices lead to a tab it was not in.
Mistaken ==
    LET exits == {p \in DOMAIN overlays \ DOMAIN overlays' : p \in AllPanes(app) \ AllPanes(app')}
        tabOf(p) == LET w == app.workspaces[WorkspaceOf(app, p)] IN <<w.id, w.tabs[TabOf(w, p)].number>>
    IN  {At(app', overlays[p]) :
            p \in {p \in exits : IsThere(app', overlays[p]) /\ At(app', overlays[p]) # tabOf(p)}}

\* The panes that a step gives a shell in place of their command, and the focus;
\* what had it is remembered.
Respawned ==
    {p \in respawns \ respawns' : p \in AllPanes(app') /\ app'.previous = CurrentFocus(app)}

\* The tab that a workspace shows.
Shown(w) == <<w.id, w.tabs[w.active_tab].number>>

\* While a workspace is active, a step that is not asked to change the focus
\* leaves the user with the pane he types into, unless it closes or moves that
\* pane; and a workspace shows the tab it showed, unless that is gone.  So
\* indices are right again after every removal and every move, those that
\* overlays remember excepted.  A pane whose command, handed over, exits takes
\* the focus with its new shell, wherever the user is.
KeepsView ==
    ~asked' /\ app.active # 0 =>
        /\ LET was == CurrentFocus(app)
               i == Index(app', was.ws)
           IN  was # NoFocus /\ i # 0
                 => \/ TabOf(app'.workspaces[i], was.pane) = 0
                    \/ app'.workspaces[i].tabs[TabOf(app'.workspaces[i], was.pane)].number #
                          app.workspaces[app.active].tabs[app.workspaces[app.active].active_tab].number
                    \/ CurrentFocus(app') = was
                    \/ Shown(app'.workspaces[i]) \in Mistaken
                    \/ CurrentFocus(app').pane \in Respawned
        /\ \A i \in Indices(app) :
             LET w == app.workspaces[i]
                 j == Index(app', w.id)
                 v == app'.workspaces[j]
             IN  j # 0 /\ (\E t \in DOMAIN v.tabs : <<v.id, v.tabs[t].number>> = Shown(w))
                   => \/ Shown(v) \in {Shown(w)} \cup Mistaken
                      \/ Respawned \cap v.tabs[v.active_tab].panes # {}

\* Such a step does not touch a tab whose panes stay: not its focus, its order
\* or its zoom, the focus and the zoom of a mistaken tab and the focus of one with
\* a new shell excepted.  A failed split leaves no trace in the tab.
TabsKept ==
    ~asked' =>
        \A i \in Indices(app), j \in Indices(app') : app.workspaces[i].id = app'.workspaces[j].id =>
            \A t \in DOMAIN app.workspaces[i].tabs, u \in DOMAIN app'.workspaces[j].tabs :
                LET old == app.workspaces[i].tabs[t]
                    new == app'.workspaces[j].tabs[u]
                IN  old.number = new.number /\ old.panes = new.panes
                      => \/ new = old
                         \/ /\ <<app.workspaces[i].id, old.number>> \in Mistaken
                            /\ [new EXCEPT !.focus = old.focus, !.zoomed = old.zoomed] = old
                         \/ new.focus \in Respawned /\ [new EXCEPT !.focus = old.focus] = old

\* The panes that a step allocates all come to be, or none of them.
AllOrNothing ==
    AllPanes(app') \ AllPanes(app) \in {{}, nextPane .. nextPane' - 1}

\* A step changes no more than it was asked to, whether it succeeds or fails; the
\* exit of a command that was handed over moves the focus to its pane, and
\* nothing else.
Undisturbed == [][KeepsView /\ TabsKept /\ AllOrNothing]_vars

\* An overlay exits while it has its tab's focus, and the pane it covered is in
\* that tab; a restart that cannot start its process again is no exit.
CoverExits(p) ==
    LET w == app.workspaces[WorkspaceOf(app, p)]
        tab == w.tabs[TabOf(w, p)]
    IN  /\ ~asked' /\ p \in AllPanes(app) \ AllPanes(app')
        /\ tab.focus = p /\ overlays[p].focus \in tab.panes

\* That pane has the focus of its tab then, and the tab the zoom it had.
GivesBack(p) ==
    LET o == overlays[p]
        w == app'.workspaces[WorkspaceOf(app', o.focus)]
        tab == w.tabs[TabOf(w, o.focus)]
    IN  tab.focus = o.focus /\ tab.zoomed = o.zoomed

\* An overlay that exits while it has its tab's focus gives the focus and the
\* zoom back, if the pane it covered is still in that tab and the tab is still
\* where it was.
OverlayRestored ==
    [][\A p \in DOMAIN overlays \ DOMAIN overlays' :
        LET o == overlays[p]
            i == WorkspaceOf(app, p)
        IN  CoverExits(p) /\ i = o.ws_idx /\ TabOf(app.workspaces[i], p) = o.tab_idx
              => GivesBack(p)]_vars

=============================================================================
