----------------------------- MODULE InputLease -----------------------------
(***************************************************************************)
(* Who owns a key that is held down (src/app/input/lease.rs and its        *)
(* callers in src/app/mod.rs, src/app/input/terminal.rs and                *)
(* src/app/runtime.rs).  A press goes to the popup or the focused pane, or *)
(* is consumed by a binding; its repeats and its release follow the press, *)
(* also when another pane has the focus or a popup has opened meanwhile.   *)
(*                                                                         *)
(* Keys that commit text take no lease and have no release; they are left  *)
(* out.  Terminal ids are never used twice.                                *)
(***************************************************************************)
EXTENDS Naturals, FiniteSets

CONSTANTS
    Sources,        \* clients
    LeaseKeys,      \* InputLeaseKey: <<source, key>>
    Physical,       \* keys with a physical identity: repeats come as presses
    Panes,          \* terminals of panes
    Popups,         \* terminals of popups
    None,
    MaxRepeat       \* bound: repeats in one event (repeat_count)

ASSUME LeaseAssumption ==
    /\ \A sk \in LeaseKeys : sk = <<sk[1], sk[2]>> /\ sk[1] \in Sources
    /\ Panes \cap Popups = {}
    /\ {None, "consumed", "Pane"} \cap (Panes \cup Popups) = {}
    /\ None \notin {"consumed", "Pane"}
    /\ MaxRepeat \in Nat \ {0}

VARIABLES
    leases,         \* InputLeaseTable
    view,           \* [terminal: mode is Terminal, popup, focus]
    alive,          \* terminals with a runtime
    plan,           \* RepeatPlan::Reprocess being executed, or None
    \* the hosts
    held,           \* keys held down
    attached,       \* sources that are there
    \* history
    down,           \* the terminal that has seen the key's press and no release, and
                    \* has taken every event of the key since
    origin,         \* the terminal that took the press that is still held, or the first
                    \* repeat of it; "consumed" before
    context,        \* the context of that press
    sent            \* the event delivered in the last step

vars == <<leases, view, alive, plan, held, attached, down, origin, context, sent>>

Terminals == Panes \cup Popups

Forwarded(t) == [kind |-> "Forwarded", at |-> t]
Reprocess(c) == [kind |-> "Reprocess", at |-> c]
Suppress == [kind |-> "Suppress", at |-> None]

Leases == {Suppress} \cup {Forwarded(t) : t \in Terminals}
                     \cup {Reprocess(c) : c \in Popups \cup {"Pane"}}

\* None is not a lease.
ASSUME NoLeaseAssumption == None \notin Leases

\* terminal_input_context: "Pane", a popup, or None.
ContextOf(v) == IF v.popup # None THEN v.popup ELSE IF v.terminal THEN "Pane" ELSE None
Context == ContextOf(view)

Init ==
    /\ leases = [sk \in LeaseKeys |-> None]
    /\ \E p \in Panes : view = [terminal |-> TRUE, popup |-> None, focus |-> p]
    /\ alive = Terminals /\ plan = None
    /\ held = {} /\ attached = Sources
    /\ down = [sk \in LeaseKeys |-> None] /\ origin = [sk \in LeaseKeys |-> None]
    /\ context = [sk \in LeaseKeys |-> None]
    /\ sent = None

-----------------------------------------------------------------------------
(* Handling one key event.                                                 *)

\* What a binding may do to the view.  A popup takes every key, and a new one
\* has a terminal that was not there before.
Views ==
    [terminal : BOOLEAN, popup : {None} \cup (alive \cap Popups),
     focus : IF alive \cap Panes = {} THEN {None} ELSE alive \cap Panes]

Consumed == [target |-> None, fails |-> FALSE, copies |-> FALSE, view |-> view]

\* handle_terminal_key_headless_from, handle_non_terminal_key_headless: the
\* key is sent to the popup or the focused pane, whose queue may be full, or
\* it is consumed.
Outcomes ==
    LET to == IF view.popup # None THEN view.popup ELSE view.focus
        shown == [view EXCEPT !.terminal = @ \/ view.popup # None]
        send == IF to \in alive
                THEN [target : {to}, fails : BOOLEAN, copies : {FALSE}, view : {shown}] ELSE {}
        bind == [target : {None}, fails : {FALSE}, copies : BOOLEAN, view : Views]
    IN  CASE view.popup # None -> send \cup {[Consumed EXCEPT !.view = shown]}
          [] Context = "Pane" -> send \cup {o \in bind : o.copies => o.view = view}
          [] OTHER -> {o \in bind : ~o.copies}

Target(o) == IF o.fails THEN None ELSE o.target

\* An event of the key reaches a terminal, for the properties.
Send(sk, t, kind) == sent' = [key |-> sk, to |-> t, kind |-> kind]
Quiet == sent' = None

Plan(sk, c, n, tracked) == [key |-> sk, context |-> c, left |-> n, tracked |-> tracked, target |-> None]
Idle == plan = None

-----------------------------------------------------------------------------
(* A press.                                                                *)

\* complete_press.  A key that copied a selection has its lease already.
LeaseOfPress(before, after, o) ==
    IF Target(o) # None THEN Forwarded(o.target)
    ELSE IF ~o.copies /\ before = after /\ before # None THEN Reprocess(before)
    ELSE Suppress

Press(sk, n) ==
    /\ Idle /\ sk[1] \in attached
    /\ sk \in held => sk[2] \in Physical /\ leases[sk] = None
    /\ \E o \in Outcomes :
          LET lease == LeaseOfPress(Context, ContextOf(o.view), o)
          IN  /\ leases' = [leases EXCEPT ![sk] = lease]
              /\ view' = o.view
              /\ plan' = IF lease.kind = "Reprocess" /\ n > 1 THEN Plan(sk, lease.at, n - 1, TRUE) ELSE None
              /\ origin' = [origin EXCEPT ![sk] = IF Target(o) = None THEN "consumed" ELSE o.target]
              /\ IF Target(o) = None
                 THEN Quiet /\ UNCHANGED down
                 ELSE Send(sk, o.target, "Press") /\ down' = [down EXCEPT ![sk] = o.target]
    /\ held' = held \cup {sk}
    /\ context' = [context EXCEPT ![sk] = Context]
    /\ UNCHANGED <<alive, attached>>

-----------------------------------------------------------------------------
(* A repeat, or a press of a physical key that has a lease.                *)

\* forward_terminal_key_to_target_headless fails: the lease is given up.
Forward(sk, t, ok) ==
    IF ok THEN Send(sk, t, "Repeat") /\ UNCHANGED <<leases, down>>
    ELSE /\ Quiet /\ leases' = [leases EXCEPT ![sk] = None]
         /\ down' = [down EXCEPT ![sk] = None]

\* Mutant: the repeats of a forwarded key go to the pane that has the focus.
PlanRepeatAtFocus(sk, n) ==
    LET lease == leases[sk]
    IN  IF lease # None /\ lease.kind = "Forwarded"
        THEN \E ok \in BOOLEAN : /\ view.focus \notin alive => ~ok
                                 /\ Forward(sk, view.focus, ok) /\ UNCHANGED plan
        ELSE /\ Quiet /\ UNCHANGED down
             /\ plan' = IF Context # None /\ lease \in {None, Reprocess(Context)}
                        THEN Plan(sk, Context, n, lease # None) ELSE None
             /\ leases' = IF lease = None \/ lease = Reprocess(Context) THEN leases
                          ELSE [leases EXCEPT ![sk] = Suppress]

\* plan_repeat.
PlanRepeat(sk, n) ==
    LET lease == leases[sk]
    IN  IF lease # None /\ lease.kind = "Forwarded"
        THEN \E ok \in BOOLEAN : /\ lease.at \notin alive => ~ok
                                 /\ Forward(sk, lease.at, ok) /\ UNCHANGED plan
        ELSE /\ Quiet /\ UNCHANGED down
             /\ plan' = IF Context # None /\ lease \in {None, Reprocess(Context)}
                        THEN Plan(sk, Context, n, lease # None) ELSE None
             /\ leases' = IF lease = None \/ lease = Reprocess(Context) THEN leases
                          ELSE [leases EXCEPT ![sk] = Suppress]

Repeat(sk, n) ==
    /\ Idle /\ sk \in held /\ sk[1] \in attached
    /\ sk[2] \in Physical => leases[sk] # None
    /\ PlanRepeat(sk, n)
    /\ UNCHANGED <<view, alive, held, attached, origin, context>>

\* Mutant: the repetitions of one event are all handled.
ReprocessBlindly ==
    /\ plan # None
    /\ \E o \in Outcomes :
          /\ leases' = IF plan.tracked /\ Target(o) # None
                       THEN [leases EXCEPT ![plan.key] = Forwarded(o.target)] ELSE leases
          /\ view' = o.view
          /\ IF Target(o) = None THEN Quiet ELSE Send(plan.key, o.target, "Repeat")
          /\ down' = IF plan.tracked /\ Target(o) # None
                     THEN [down EXCEPT ![plan.key] = o.target] ELSE down
          /\ plan' = IF plan.left = 1 THEN None ELSE [plan EXCEPT !.left = @ - 1]
    /\ UNCHANGED <<alive, held, attached, origin, context>>

\* execute_repeat_plan_headless, one repetition: the key is handled as long as
\* the context is the same (reprocess_allowed); once a terminal has taken one,
\* the terminal owns the key.
ReprocessOne ==
    /\ plan # None
    /\ IF plan.target # None
       THEN \E ok \in BOOLEAN :
               /\ plan.target \notin alive => ~ok
               /\ Forward(plan.key, plan.target, ok)
               /\ plan' = IF plan.left = 1 \/ ~ok THEN None ELSE [plan EXCEPT !.left = @ - 1]
               /\ UNCHANGED <<view, origin>>
       ELSE IF Context # plan.context
       THEN /\ plan' = None /\ Quiet
            /\ leases' = IF plan.tracked THEN [leases EXCEPT ![plan.key] = Suppress] ELSE leases
            /\ UNCHANGED <<view, down, origin>>
       ELSE \E o \in Outcomes :
               LET owned == plan.tracked /\ Target(o) # None
                   own(f, x) == IF owned THEN [f EXCEPT ![plan.key] = x] ELSE f
               IN  /\ leases' = IF o.copies THEN [leases EXCEPT ![plan.key] = Suppress]
                                ELSE own(leases, Forwarded(o.target))
                   /\ down' = own(down, o.target) /\ origin' = own(origin, o.target)
                   /\ view' = o.view
                   /\ IF Target(o) = None THEN Quiet ELSE Send(plan.key, o.target, "Repeat")
                   /\ plan' = IF plan.left = 1 THEN None
                              ELSE [plan EXCEPT !.left = @ - 1,
                                                !.target = IF owned THEN o.target ELSE None]
    /\ UNCHANGED <<alive, held, attached, context>>

-----------------------------------------------------------------------------
(* The end of a lease.                                                     *)

\* Releases are sent for the leases of these keys; a terminal that does not
\* take one is not asked again.
CloseLeases(keys, refused) ==
    /\ leases' = [sk \in LeaseKeys |-> IF sk \in keys THEN None ELSE leases[sk]]
    /\ LET closed == {sk \in keys : leases[sk] # None /\ leases[sk].kind = "Forwarded"}
       IN  /\ refused \subseteq closed
           /\ down' = [sk \in LeaseKeys |->
                         IF sk \in closed /\ (sk \in refused \/ down[sk] = leases[sk].at)
                         THEN None ELSE down[sk]]

\* Mutant: the release goes to whoever has the focus.
ReleaseAtFocus(sk) ==
    /\ Idle /\ sk \in held /\ sk[1] \in attached
    /\ leases' = [leases EXCEPT ![sk] = None]
    /\ down' = [down EXCEPT ![sk] = IF @ = view.focus THEN None ELSE @]
    /\ held' = held \ {sk} /\ origin' = [origin EXCEPT ![sk] = None] /\ Quiet
    /\ UNCHANGED <<view, alive, plan, attached, context>>

\* remove_forwarded, then the release is sent.
Release(sk) ==
    /\ Idle /\ sk \in held /\ sk[1] \in attached
    /\ \E refused \in SUBSET {sk} : CloseLeases({sk}, refused)
    /\ held' = held \ {sk} /\ origin' = [origin EXCEPT ![sk] = None] /\ Quiet
    /\ UNCHANGED <<view, alive, plan, attached, context>>

OfSource(s) == {sk \in LeaseKeys : sk[1] = s}
ForgetOrigins(s) == origin' = [sk \in LeaseKeys |-> IF sk[1] = s THEN None ELSE origin[sk]]

\* OuterFocusLost: release_input_source.  What the host's user lets go of now
\* is not reported.
FocusLost(s) ==
    /\ Idle /\ s \in attached
    /\ \E refused \in SUBSET OfSource(s) : CloseLeases(OfSource(s), refused)
    /\ \E gone \in SUBSET (OfSource(s) \cap held) : held' = held \ gone
    /\ ForgetOrigins(s) /\ Quiet
    /\ UNCHANGED <<view, alive, plan, attached, context>>

\* remove_client: clear_input_source.
Disconnect(s) ==
    /\ Idle /\ s \in attached /\ attached' = attached \ {s}
    /\ \E refused \in SUBSET OfSource(s) : CloseLeases(OfSource(s), refused)
    /\ held' = held \ OfSource(s) /\ ForgetOrigins(s) /\ Quiet
    /\ UNCHANGED <<view, alive, plan, context>>

\* shutdown_terminal_runtime: release_input_target, then the terminal is gone.
CloseTerminal(t) ==
    /\ Idle /\ t \in alive /\ alive' = alive \ {t}
    /\ LET owned == {sk \in LeaseKeys : leases[sk] = Forwarded(t)}
       IN  \E refused \in SUBSET owned : CloseLeases(owned, refused)
    /\ \E v \in [terminal : BOOLEAN, popup : {IF view.popup = t THEN None ELSE view.popup},
                 focus : IF alive' \cap Panes = {} THEN {None} ELSE alive' \cap Panes] :
          view' = v
    /\ Quiet /\ UNCHANGED <<plan, held, attached, origin, context>>

\* The mouse or a request changes what has the focus.
ViewChanges ==
    /\ Idle /\ \E v \in Views : (view.popup # None => v.popup = view.popup) /\ view' = v
    /\ Quiet /\ UNCHANGED <<leases, alive, plan, held, attached, down, origin, context>>

Next ==
    \/ \E sk \in LeaseKeys, n \in 1 .. MaxRepeat : Press(sk, n) \/ Repeat(sk, n)
    \/ ReprocessOne
    \/ \E sk \in LeaseKeys : Release(sk)
    \/ \E s \in Sources : FocusLost(s) \/ Disconnect(s)
    \/ \E t \in Terminals : CloseTerminal(t)
    \/ ViewChanges

Spec == Init /\ [][Next]_vars

-----------------------------------------------------------------------------
(* Properties.                                                             *)

\* The type of every variable.
TypeOK ==
    /\ leases \in [LeaseKeys -> Leases \cup {None}]
    /\ view \in [terminal : BOOLEAN, popup : Popups \cup {None}, focus : Panes \cup {None}]
    /\ alive \subseteq Terminals /\ held \subseteq LeaseKeys /\ attached \subseteq Sources
    /\ down \in [LeaseKeys -> Terminals \cup {None}]
    /\ origin \in [LeaseKeys -> Terminals \cup {None, "consumed"}]
    /\ context \in [LeaseKeys -> Popups \cup {None, "Pane"}]

\* A key that nobody holds is down in no terminal: whoever has the focus when
\* it is let go of, and if its client is gone or has lost the focus, the
\* terminal that saw the press has seen the release, unless its queue was full
\* (remove_forwarded, release_input_source).
NoStuckKey ==
    \A sk \in LeaseKeys :
       down[sk] \in alive => sk \in held /\ sk[1] \in attached

\* The table of leases, the keys held and the keys down in terminals agree.
Consistent == TypeOK /\ NoStuckKey

\* A key that is down in a terminal repeats there and nowhere else, whatever
\* has the focus meanwhile, as long as the terminal is there and takes it
\* (plan_repeat).
RepeatsFollow ==
    [][ sent' # None /\ sent'.kind = "Repeat" =>
           LET sk == sent'.key IN down[sk] \in alive => sent'.to = down[sk] ]_vars

\* A key whose press was consumed repeats into a terminal only in the context
\* of its press: what closed a dialog or opened a popup does not type into what
\* comes then, not even the repetitions of one event (reprocess_allowed).
NoLeak ==
    [][ sent' # None /\ sent'.kind = "Repeat" =>
           LET sk == sent'.key IN origin[sk] = "consumed" => Context = context[sk] ]_vars
=============================================================================
