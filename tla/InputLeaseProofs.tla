-------------------------- MODULE InputLeaseProofs --------------------------
(***************************************************************************)
(* Proofs about InputLease for any number of clients, keys, panes and      *)
(* popups.  The properties are about what terminals have seen (down,       *)
(* origin); the inductive invariant IInv says what the lease table has to  *)
(* know of it, also while a repeat is being executed.                      *)
(***************************************************************************)
EXTENDS InputLease, TLAPS

Contexts == Popups \cup {"Pane"}

\* A key that is down in a terminal is leased to this terminal.
DownIsLeased ==
    \A sk \in LeaseKeys : down[sk] \in alive => leases[sk] = Forwarded(down[sk])

\* A consumed press leaves a lease that never forwards, or only after the key
\* was handled again in the context of the press.
HandledAgain(lease, c) ==
    \/ lease = Suppress
    \/ c \in Contexts /\ lease = Reprocess(c)

ConsumedOK ==
    \A sk \in LeaseKeys :
       origin[sk] = "consumed" => HandledAgain(leases[sk], context[sk])

Plans == [key : LeaseKeys, context : Contexts, left : Nat \ {0}, tracked : BOOLEAN,
          target : Terminals \cup {None}]

\* The repeat being executed and the lease of its key agree.
PlanOK ==
    plan # None =>
       /\ plan \in Plans /\ plan.key \in held /\ plan.key[1] \in attached
       /\ plan.target # None => plan.tracked /\ leases[plan.key] = Forwarded(plan.target)
       /\ plan.target = None =>
             /\ leases[plan.key] \in {None, Suppress, Reprocess(plan.context)}
             /\ origin[plan.key] = "consumed" => plan.context = context[plan.key]

IInv == TypeOK /\ NoStuckKey /\ DownIsLeased /\ ConsumedOK /\ PlanOK

AllViews == [terminal : BOOLEAN, popup : Popups \cup {None}, focus : Panes \cup {None}]

-----------------------------------------------------------------------------
(* Leases, contexts and outcomes.                                          *)

\* The three kinds of lease and the missing lease are different, and a lease
\* tells whose it is.
LEMMA LeaseFacts ==
    /\ \A t \in Terminals : /\ Forwarded(t) # None /\ Forwarded(t) # Suppress
                            /\ Forwarded(t) \in Leases
                            /\ t # None /\ t # "consumed"
    /\ \A c \in Contexts : /\ Reprocess(c) # None /\ Reprocess(c) # Suppress
                           /\ Reprocess(c) \in Leases /\ c # None
    /\ Suppress # None /\ Suppress \in Leases
    /\ \A t \in Terminals, u \in Terminals : Forwarded(t) = Forwarded(u) => t = u
    /\ \A t, c : Forwarded(t) # Reprocess(c) /\ Forwarded(t) # Suppress
    /\ \A c, d : Reprocess(c) = Reprocess(d) => c = d
    /\ \A t : Forwarded(t).kind = "Forwarded" /\ Forwarded(t).at = t
    /\ \A c : Reprocess(c).kind = "Reprocess" /\ Reprocess(c).at = c
    /\ Suppress.kind = "Suppress"
<1>1. /\ \A t : Forwarded(t).kind = "Forwarded" /\ Forwarded(t).at = t
      /\ \A c : Reprocess(c).kind = "Reprocess" /\ Reprocess(c).at = c
      /\ Suppress.kind = "Suppress"
  BY DEF Forwarded, Reprocess, Suppress
<1>2. /\ \A t \in Terminals : Forwarded(t) \in Leases /\ t # None /\ t # "consumed"
      /\ \A c \in Contexts : Reprocess(c) \in Leases /\ c # None
      /\ Suppress \in Leases
  BY LeaseAssumption DEF Leases, Contexts, Terminals
<1> QED
  BY <1>1, <1>2, NoLeaseAssumption

\* A lease that is not None is one of the three kinds.
LEMMA LeaseKinds ==
    ASSUME TypeOK, NEW sk \in LeaseKeys, leases[sk] # None
    PROVE  /\ leases[sk].kind = "Forwarded" =>
                 leases[sk].at \in Terminals /\ leases[sk] = Forwarded(leases[sk].at)
           /\ leases[sk].kind # "Forwarded" =>
                 \/ leases[sk] = Suppress
                 \/ \E c \in Contexts : leases[sk] = Reprocess(c)
<1>1. leases[sk] \in Leases
  BY DEF TypeOK
<1> QED
  BY <1>1, LeaseFacts DEF Leases, Contexts

\* A view has a context or none.
LEMMA ContextFacts ==
    ASSUME NEW v \in AllViews
    PROVE  ContextOf(v) \in Contexts \cup {None}
BY DEF AllViews, ContextOf, Contexts

\* Whatever handling a key does, it ends in a view, and only a key that was
\* not sent anywhere copies a selection.
LEMMA OutcomeFacts ==
    ASSUME TypeOK, NEW o \in Outcomes
    PROVE  /\ o.view \in AllViews
           /\ Target(o) # None => o.target \in Terminals /\ Target(o) = o.target /\ ~o.copies
           /\ o.copies \in BOOLEAN
<1> DEFINE to == IF view.popup # None THEN view.popup ELSE view.focus
           shown == [view EXCEPT !.terminal = @ \/ view.popup # None]
           send == IF to \in alive
                   THEN [target : {to}, fails : BOOLEAN, copies : {FALSE}, view : {shown}] ELSE {}
           bind == [target : {None}, fails : {FALSE}, copies : BOOLEAN, view : Views]
<1>1. view \in AllViews /\ alive \subseteq Terminals
  BY DEF TypeOK, AllViews
<1>2. shown \in AllViews
  <2>1. view.terminal \in BOOLEAN
    BY <1>1 DEF AllViews
  <2>2. (view.terminal \/ view.popup # None) \in BOOLEAN
    OBVIOUS
  <2> QED
    BY <1>1, <2>2 DEF AllViews
<1>3. Views \subseteq AllViews
  <2> SUFFICES ASSUME NEW v \in Views PROVE v \in AllViews
    OBVIOUS
  <2> QED
    BY DEF Views, AllViews
<1>4. CASE o \in send
  BY <1>1, <1>2, <1>4, LeaseFacts DEF Target
<1>5. CASE o \in bind
  BY <1>3, <1>5 DEF Target
<1>6. CASE o = [Consumed EXCEPT !.view = shown]
  BY <1>2, <1>6 DEF Consumed, Target
<1>7. o \in send \/ o \in bind \/ o = [Consumed EXCEPT !.view = shown]
  BY DEF Outcomes
<1> QED
  BY <1>4, <1>5, <1>6, <1>7

\* Ending leases: the keys lose them, and no key of a lease that ended is down
\* in the terminal of the lease.
LEMMA CloseFacts ==
    ASSUME TypeOK, NEW keys \in SUBSET LeaseKeys, NEW refused, CloseLeases(keys, refused)
    PROVE  /\ leases' \in [LeaseKeys -> Leases \cup {None}]
           /\ down' \in [LeaseKeys -> Terminals \cup {None}]
           /\ \A sk \in keys : leases'[sk] = None
           /\ \A sk \in LeaseKeys \ keys : leases'[sk] = leases[sk] /\ down'[sk] = down[sk]
           /\ \A sk \in LeaseKeys : down'[sk] \in {None, down[sk]}
           /\ \A sk \in keys : leases[sk] = Forwarded(down[sk]) => down'[sk] = None
<1>1. /\ leases' = [sk \in LeaseKeys |-> IF sk \in keys THEN None ELSE leases[sk]]
      /\ \E closed : /\ closed = {sk \in keys : leases[sk] # None /\ leases[sk].kind = "Forwarded"}
                     /\ down' = [sk \in LeaseKeys |->
                                   IF sk \in closed /\ (sk \in refused \/ down[sk] = leases[sk].at)
                                   THEN None ELSE down[sk]]
  BY DEF CloseLeases
<1>2. PICK closed : /\ closed = {sk \in keys : leases[sk] # None /\ leases[sk].kind = "Forwarded"}
                    /\ down' = [sk \in LeaseKeys |->
                                  IF sk \in closed /\ (sk \in refused \/ down[sk] = leases[sk].at)
                                  THEN None ELSE down[sk]]
  BY <1>1
<1>3. /\ leases \in [LeaseKeys -> Leases \cup {None}]
      /\ down \in [LeaseKeys -> Terminals \cup {None}]
  BY DEF TypeOK
<1>4. leases' \in [LeaseKeys -> Leases \cup {None}]
  BY <1>1, <1>3
<1>5. down' \in [LeaseKeys -> Terminals \cup {None}]
  BY <1>2, <1>3
<1>6. \A sk \in LeaseKeys : down'[sk] \in {None, down[sk]}
  BY <1>2
<1>7. ASSUME NEW sk \in keys, leases[sk] = Forwarded(down[sk])
      PROVE  down'[sk] = None
  <2>1. down[sk] \in Terminals \cup {None}
    BY <1>3
  <2>2. CASE down[sk] = None
    BY <1>6, <2>2
  <2>3. CASE down[sk] \in Terminals
    <3>1. leases[sk] # None /\ leases[sk].kind = "Forwarded" /\ leases[sk].at = down[sk]
      BY <1>7, <2>3, LeaseFacts
    <3> QED
      BY <1>2, <3>1
  <2> QED
    BY <2>1, <2>2, <2>3
<1>8. /\ \A sk \in keys : leases'[sk] = None
      /\ \A sk \in LeaseKeys \ keys : leases'[sk] = leases[sk] /\ down'[sk] = down[sk]
  BY <1>1, <1>2
<1> QED
  BY <1>4, <1>5, <1>6, <1>7, <1>8

-----------------------------------------------------------------------------
(* The steps.                                                              *)

\* A press leaves a lease that agrees with who took it.
LEMMA PressStep ==
    ASSUME IInv, NEW sk \in LeaseKeys, NEW n \in 1 .. MaxRepeat, Press(sk, n)
    PROVE  IInv'
<1> USE DEF IInv
<1>1. PICK o \in Outcomes :
         LET lease == LeaseOfPress(Context, ContextOf(o.view), o)
         IN  /\ leases' = [leases EXCEPT ![sk] = lease]
             /\ view' = o.view
             /\ plan' = IF lease.kind = "Reprocess" /\ n > 1 THEN Plan(sk, lease.at, n - 1, TRUE) ELSE None
             /\ origin' = [origin EXCEPT ![sk] = IF Target(o) = None THEN "consumed" ELSE o.target]
             /\ IF Target(o) = None
                THEN Quiet /\ UNCHANGED down
                ELSE Send(sk, o.target, "Press") /\ down' = [down EXCEPT ![sk] = o.target]
  BY DEF Press
<1> DEFINE lease == LeaseOfPress(Context, ContextOf(o.view), o)
<1>2. /\ sk[1] \in attached /\ held' = held \cup {sk} /\ alive' = alive /\ attached' = attached
      /\ context' = [context EXCEPT ![sk] = Context]
      /\ sk \in held => leases[sk] = None
  BY DEF Press
<1>3. /\ o.view \in AllViews
      /\ Target(o) # None => o.target \in Terminals /\ Target(o) = o.target /\ ~o.copies
  BY OutcomeFacts
<1>4. Context \in Contexts \cup {None}
  BY ContextFacts DEF Context, TypeOK, AllViews
<1>5. /\ Target(o) # None => lease = Forwarded(o.target)
      /\ Target(o) = None => \/ lease = Suppress
                             \/ Context \in Contexts /\ lease = Reprocess(Context)
  BY <1>4 DEF LeaseOfPress
<1>6. lease \in Leases
  BY <1>3, <1>5, LeaseFacts
<1>7. down[sk] \notin alive
  BY <1>2, LeaseFacts DEF NoStuckKey, DownIsLeased, TypeOK
<1>8. TypeOK'
  <2>1. leases' \in [LeaseKeys -> Leases \cup {None}]
    BY <1>1, <1>6 DEF TypeOK
  <2>2. view' \in AllViews
    BY <1>1, <1>3
  <2>3. down' \in [LeaseKeys -> Terminals \cup {None}]
    BY <1>1, <1>3 DEF TypeOK
  <2>4. origin' \in [LeaseKeys -> Terminals \cup {None, "consumed"}]
    BY <1>1, <1>3 DEF TypeOK
  <2>5. context' \in [LeaseKeys -> Popups \cup {None, "Pane"}]
    BY <1>2, <1>4 DEF TypeOK, Contexts
  <2>6. alive' \subseteq Terminals /\ held' \subseteq LeaseKeys /\ attached' \subseteq Sources
    BY <1>2 DEF TypeOK
  <2> QED
    BY <2>1, <2>2, <2>3, <2>4, <2>5, <2>6 DEF TypeOK, AllViews
<1>9. NoStuckKey' /\ DownIsLeased'
  <2> SUFFICES ASSUME NEW k \in LeaseKeys, down'[k] \in alive'
               PROVE  /\ k \in held' /\ k[1] \in attached'
                      /\ leases'[k] = Forwarded(down'[k])
    BY DEF NoStuckKey, DownIsLeased
  <2>1. CASE k = sk
    <3>1. Target(o) # None
      BY <1>1, <1>2, <1>7, <2>1
    <3>2. down'[k] = o.target /\ leases'[k] = lease
      BY <1>1, <2>1, <3>1 DEF TypeOK
    <3> QED
      BY <1>2, <1>5, <2>1, <3>1, <3>2
  <2>2. CASE k # sk
    <3>1. down'[k] = down[k] /\ leases'[k] = leases[k]
      BY <1>1, <2>2 DEF TypeOK
    <3> QED
      BY <1>2, <3>1 DEF NoStuckKey, DownIsLeased
  <2> QED
    BY <2>1, <2>2
<1>10. ConsumedOK'
  <2> SUFFICES ASSUME NEW k \in LeaseKeys, origin'[k] = "consumed"
               PROVE  HandledAgain(leases'[k], context'[k])
    BY DEF ConsumedOK, HandledAgain, Contexts, Suppress, Reprocess
  <2>1. CASE k = sk
    <3>1. Target(o) = None
      BY <1>1, <1>3, <2>1, LeaseFacts DEF TypeOK
    <3>2. leases'[k] = lease /\ context'[k] = Context
      BY <1>1, <1>2, <2>1 DEF TypeOK
    <3>3. HandledAgain(lease, Context)
      BY <1>5, <3>1 DEF HandledAgain
    <3> QED
      BY <3>2, <3>3
  <2>2. CASE k # sk
    <3>1. leases'[k] = leases[k] /\ context'[k] = context[k] /\ origin'[k] = origin[k]
      BY <1>1, <1>2, <2>2 DEF TypeOK
    <3> QED
      BY <3>1 DEF ConsumedOK
  <2> QED
    BY <2>1, <2>2
<1>11. PlanOK'
  <2> SUFFICES ASSUME plan' # None PROVE PlanOK'
    BY DEF PlanOK
  <2>1. lease.kind = "Reprocess" /\ n > 1 /\ plan' = Plan(sk, lease.at, n - 1, TRUE)
    BY <1>1
  <2>2. Context \in Contexts /\ lease = Reprocess(Context) /\ lease.at = Context
    BY <1>3, <1>5, <2>1, LeaseFacts
  <2>3. /\ plan'.key = sk /\ plan'.context = Context /\ plan'.left = n - 1
        /\ plan'.tracked = TRUE /\ plan'.target = None
        /\ plan' = [key |-> sk, context |-> Context, left |-> n - 1, tracked |-> TRUE, target |-> None]
    BY <2>1, <2>2 DEF Plan
  <2>4. n - 1 \in Nat \ {0}
    BY <2>1, LeaseAssumption
  <2>5. plan' \in Plans
    BY <2>2, <2>3, <2>4 DEF Plans
  <2>6. leases'[sk] = Reprocess(Context) /\ context'[sk] = Context
    BY <1>1, <1>2, <2>2 DEF TypeOK
  <2> QED
    BY <1>2, <2>3, <2>5, <2>6 DEF PlanOK, Plans, Contexts, Terminals, Suppress, Reprocess
<1> QED
  BY <1>8, <1>9, <1>10, <1>11

\* Giving up or keeping the lease of a key that is forwarded.
LEMMA ForwardFacts ==
    ASSUME IInv, NEW sk \in LeaseKeys, NEW t \in Terminals, NEW ok \in BOOLEAN,
           Forward(sk, t, ok), leases[sk] = Forwarded(t),
           UNCHANGED <<view, alive, held, attached, origin, context>>
    PROVE  TypeOK' /\ NoStuckKey' /\ DownIsLeased' /\ ConsumedOK'
<1> USE DEF IInv
<1>1. CASE ok
  <2>1. UNCHANGED <<leases, down>>
    BY <1>1 DEF Forward
  <2> QED
    BY <2>1 DEF TypeOK, NoStuckKey, DownIsLeased, ConsumedOK
<1>2. CASE ~ok
  <2>1. /\ leases' = [leases EXCEPT ![sk] = None] /\ down' = [down EXCEPT ![sk] = None]
    BY <1>2 DEF Forward
  <2>2. origin[sk] # "consumed"
    BY LeaseFacts DEF ConsumedOK, HandledAgain
  <2>3. TypeOK'
    BY <2>1 DEF TypeOK
  <2>4. NoStuckKey' /\ DownIsLeased'
    BY <2>1, LeaseFacts DEF NoStuckKey, DownIsLeased, TypeOK
  <2>5. ConsumedOK'
    <3> SUFFICES ASSUME NEW k \in LeaseKeys, origin[k] = "consumed"
                 PROVE  HandledAgain(leases'[k], context[k])
      BY DEF ConsumedOK, HandledAgain, Contexts, Suppress, Reprocess
    <3>1. leases'[k] = leases[k]
      BY <2>1, <2>2 DEF TypeOK
    <3> QED
      BY <3>1 DEF ConsumedOK
  <2> QED
    BY <2>3, <2>4, <2>5
<1> QED
  BY <1>1, <1>2

\* A repeat is forwarded, planned or suppressed.
LEMMA RepeatStep ==
    ASSUME IInv, NEW sk \in LeaseKeys, NEW n \in 1 .. MaxRepeat, Repeat(sk, n)
    PROVE  IInv'
<1> USE DEF IInv
<1>1. /\ plan = None /\ sk \in held /\ sk[1] \in attached /\ PlanRepeat(sk, n)
      /\ UNCHANGED <<view, alive, held, attached, origin, context>>
  BY DEF Repeat, Idle
<1>2. CASE leases[sk] # None /\ leases[sk].kind = "Forwarded"
  <2>1. PICK ok \in BOOLEAN : Forward(sk, leases[sk].at, ok) /\ UNCHANGED plan
    BY <1>1, <1>2 DEF PlanRepeat
  <2>2. leases[sk].at \in Terminals /\ leases[sk] = Forwarded(leases[sk].at)
    BY <1>2, LeaseKinds
  <2>3. TypeOK' /\ NoStuckKey' /\ DownIsLeased' /\ ConsumedOK'
    BY <1>1, <2>1, <2>2, ForwardFacts
  <2>4. PlanOK'
    BY <1>1, <2>1 DEF PlanOK
  <2> QED
    BY <2>3, <2>4
<1>3. CASE ~(leases[sk] # None /\ leases[sk].kind = "Forwarded")
  <2>1. /\ UNCHANGED down
        /\ plan' = IF Context # None /\ leases[sk] \in {None, Reprocess(Context)}
                   THEN Plan(sk, Context, n, leases[sk] # None) ELSE None
        /\ leases' = IF leases[sk] = None \/ leases[sk] = Reprocess(Context) THEN leases
                     ELSE [leases EXCEPT ![sk] = Suppress]
    BY <1>1, <1>3 DEF PlanRepeat
  <2>2. leases[sk] = None \/ leases[sk] = Suppress \/ \E c \in Contexts : leases[sk] = Reprocess(c)
    BY <1>3, LeaseKinds
  <2>3. down[sk] \notin alive
    BY <2>2, LeaseFacts DEF DownIsLeased, TypeOK
  <2>4. TypeOK'
    BY <1>1, <2>1, LeaseFacts DEF TypeOK
  <2>5. NoStuckKey'
    BY <1>1, <2>1 DEF NoStuckKey
  <2>6. /\ leases' \in [LeaseKeys -> Leases \cup {None}]
        /\ \A k \in LeaseKeys : k # sk => leases'[k] = leases[k]
        /\ leases'[sk] \in {leases[sk], Suppress}
        /\ leases[sk] = None => leases'[sk] = None
    BY <2>1, <2>4 DEF TypeOK
  <2>7. DownIsLeased'
    BY <1>1, <2>1, <2>3, <2>6 DEF DownIsLeased
  <2>8. ConsumedOK'
    <3> SUFFICES ASSUME NEW k \in LeaseKeys, origin[k] = "consumed"
                 PROVE  HandledAgain(leases'[k], context[k])
      BY <1>1 DEF ConsumedOK, HandledAgain, Contexts, Suppress, Reprocess
    <3> QED
      <4>1. HandledAgain(leases[k], context[k])
        BY DEF ConsumedOK
      <4>2. leases'[k] = leases[k] \/ leases'[k] = Suppress
        BY <2>6
      <4> QED
        BY <4>1, <4>2 DEF HandledAgain
  <2>9. PlanOK'
    <3> SUFFICES ASSUME plan' # None PROVE PlanOK'
      BY DEF PlanOK
    <3>1. /\ Context # None /\ leases[sk] \in {None, Reprocess(Context)}
          /\ plan' = Plan(sk, Context, n, leases[sk] # None)
      BY <2>1
    <3>2. Context \in Contexts
      BY <3>1, ContextFacts DEF Context, TypeOK, AllViews
    <3>3. leases'[sk] = leases[sk]
      BY <2>1, <3>1
    <3>4. /\ plan'.key = sk /\ plan'.context = Context /\ plan'.left = n /\ plan'.target = None
          /\ plan' = [key |-> sk, context |-> Context, left |-> n,
                      tracked |-> (leases[sk] # None), target |-> None]
      BY <3>1 DEF Plan
    <3>5. n \in Nat \ {0} /\ (leases[sk] # None) \in BOOLEAN
      BY LeaseAssumption
    <3>6. plan' \in Plans
      BY <3>2, <3>4, <3>5 DEF Plans
    <3>7. origin[sk] = "consumed" => Context = context[sk]
      BY <3>1, <3>2, LeaseFacts DEF ConsumedOK, HandledAgain
    <3> QED
      BY <1>1, <3>1, <3>3, <3>4, <3>6, <3>7 DEF PlanOK, Suppress, Reprocess
  <2> QED
    BY <2>4, <2>5, <2>7, <2>8, <2>9
<1> QED
  BY <1>2, <1>3

\* One repetition of the repeat being executed.
LEMMA ReprocessStep ==
    ASSUME IInv, ReprocessOne
    PROVE  IInv'
<1> USE DEF IInv
<1> DEFINE sk == plan.key
<1>1. /\ plan # None /\ plan \in Plans /\ sk \in held /\ sk[1] \in attached
      /\ plan.target # None => plan.tracked /\ leases[sk] = Forwarded(plan.target)
      /\ plan.target = None =>
            /\ leases[sk] \in {None, Suppress, Reprocess(plan.context)}
            /\ origin[sk] = "consumed" => plan.context = context[sk]
      /\ UNCHANGED <<alive, held, attached, context>>
  BY DEF ReprocessOne, PlanOK
<1>2. /\ sk \in LeaseKeys /\ plan.context \in Contexts /\ plan.left \in Nat \ {0}
      /\ plan.tracked \in BOOLEAN /\ plan.target \in Terminals \cup {None}
  BY <1>1 DEF Plans
<1>3. [plan EXCEPT !.left = @ - 1] \in Plans \/ plan.left = 1
  <2>1. plan.left # 1 => plan.left - 1 \in Nat \ {0}
    BY <1>2
  <2> QED
    BY <1>1, <2>1 DEF Plans
<1>4. CASE plan.target # None
  <2>1. PICK ok \in BOOLEAN :
           /\ Forward(sk, plan.target, ok) /\ UNCHANGED <<view, origin>>
           /\ plan' = IF plan.left = 1 \/ ~ok THEN None ELSE [plan EXCEPT !.left = @ - 1]
    BY <1>4 DEF ReprocessOne
  <2>2. TypeOK' /\ NoStuckKey' /\ DownIsLeased' /\ ConsumedOK'
    BY <1>1, <1>2, <1>4, <2>1, ForwardFacts
  <2>3. PlanOK'
    <3> SUFFICES ASSUME plan' # None PROVE PlanOK'
      BY DEF PlanOK
    <3>1. ok /\ plan.left # 1 /\ plan' = [plan EXCEPT !.left = @ - 1]
      BY <2>1
    <3>2. UNCHANGED leases
      BY <2>1, <3>1 DEF Forward
    <3>3. plan' \in Plans /\ plan'.key = sk /\ plan'.target = plan.target /\ plan'.tracked = plan.tracked
      BY <1>1, <1>3, <3>1 DEF Plans
    <3> QED
      BY <1>1, <1>4, <3>2, <3>3 DEF PlanOK, Plans, Contexts, Terminals, Suppress, Reprocess, Forwarded
  <2> QED
    BY <2>2, <2>3
<1>5. ASSUME plan.target = None PROVE down[sk] \notin alive
  BY <1>1, <1>2, <1>5, LeaseFacts DEF DownIsLeased, TypeOK
<1>6. CASE plan.target = None /\ Context # plan.context
  <2>1. /\ plan' = None /\ UNCHANGED <<view, down, origin>>
        /\ leases' = IF plan.tracked THEN [leases EXCEPT ![sk] = Suppress] ELSE leases
    BY <1>6 DEF ReprocessOne
  <2>2. TypeOK'
    BY <1>1, <1>2, <2>1, LeaseFacts DEF TypeOK
  <2>3. /\ \A k \in LeaseKeys : leases'[k] \in {leases[k], Suppress}
        /\ \A k \in LeaseKeys : k # sk => leases'[k] = leases[k]
    BY <1>2, <2>1 DEF TypeOK
  <2>4. NoStuckKey' /\ PlanOK'
    BY <1>1, <2>1 DEF NoStuckKey, PlanOK
  <2>5. DownIsLeased'
    BY <1>1, <1>5, <1>6, <2>1, <2>3 DEF DownIsLeased
  <2>6. ConsumedOK'
    <3> SUFFICES ASSUME NEW k \in LeaseKeys, origin[k] = "consumed"
                 PROVE  HandledAgain(leases'[k], context[k])
      BY <1>1, <2>1 DEF ConsumedOK, HandledAgain, Contexts, Suppress, Reprocess
    <3> QED
      BY <2>3 DEF ConsumedOK, HandledAgain
  <2> QED
    BY <2>2, <2>4, <2>5, <2>6
<1>7. CASE plan.target = None /\ Context = plan.context
  <2> DEFINE owned(o) == plan.tracked /\ Target(o) # None
  <2>1. PICK o \in Outcomes :
           /\ leases' = IF o.copies THEN [leases EXCEPT ![sk] = Suppress]
                        ELSE IF owned(o) THEN [leases EXCEPT ![sk] = Forwarded(o.target)] ELSE leases
           /\ down' = IF owned(o) THEN [down EXCEPT ![sk] = o.target] ELSE down
           /\ origin' = IF owned(o) THEN [origin EXCEPT ![sk] = o.target] ELSE origin
           /\ view' = o.view
           /\ plan' = IF plan.left = 1 THEN None
                      ELSE [plan EXCEPT !.left = @ - 1,
                                        !.target = IF owned(o) THEN o.target ELSE None]
    BY <1>7 DEF ReprocessOne
  <2>2. /\ o.view \in AllViews
        /\ owned(o) => o.target \in Terminals /\ ~o.copies
    BY OutcomeFacts
  <2>3. CASE owned(o)
    <3>1. /\ leases' = [leases EXCEPT ![sk] = Forwarded(o.target)]
          /\ down' = [down EXCEPT ![sk] = o.target] /\ origin' = [origin EXCEPT ![sk] = o.target]
      BY <2>1, <2>2, <2>3
    <3>2. TypeOK'
      <4>1. leases' \in [LeaseKeys -> Leases \cup {None}]
        BY <2>2, <2>3, <3>1, LeaseFacts DEF TypeOK
      <4>2. /\ down' \in [LeaseKeys -> Terminals \cup {None}]
            /\ origin' \in [LeaseKeys -> Terminals \cup {None, "consumed"}]
        BY <2>2, <2>3, <3>1 DEF TypeOK
      <4> QED
        BY <1>1, <2>1, <2>2, <4>1, <4>2 DEF TypeOK, AllViews
    <3>3. NoStuckKey' /\ DownIsLeased'
      <4> SUFFICES ASSUME NEW k \in LeaseKeys, down'[k] \in alive'
                   PROVE  /\ k \in held' /\ k[1] \in attached'
                          /\ leases'[k] = Forwarded(down'[k])
        BY DEF NoStuckKey, DownIsLeased
      <4>1. CASE k = sk
        BY <1>1, <1>2, <3>1, <4>1 DEF TypeOK
      <4>2. CASE k # sk
        <5>1. down'[k] = down[k] /\ leases'[k] = leases[k]
          BY <3>1, <4>2 DEF TypeOK
        <5> QED
          BY <1>1, <5>1 DEF NoStuckKey, DownIsLeased
      <4> QED
        BY <4>1, <4>2
    <3>4. ConsumedOK'
      <4> SUFFICES ASSUME NEW k \in LeaseKeys, origin'[k] = "consumed"
                   PROVE  HandledAgain(leases'[k], context[k])
        BY <1>1 DEF ConsumedOK, HandledAgain, Contexts, Suppress, Reprocess
      <4>1. k # sk
        BY <1>2, <2>2, <2>3, <3>1, LeaseFacts DEF TypeOK
      <4>2. leases'[k] = leases[k] /\ origin'[k] = origin[k]
        BY <3>1, <4>1 DEF TypeOK
      <4> QED
        BY <4>2 DEF ConsumedOK
    <3>5. PlanOK'
      <4> SUFFICES ASSUME plan' # None PROVE PlanOK'
        BY DEF PlanOK
      <4>1. plan.left # 1 /\ plan' = [plan EXCEPT !.left = @ - 1, !.target = o.target]
        BY <2>1, <2>3
      <4>2. plan.left - 1 \in Nat \ {0}
        BY <1>2, <4>1
      <4>3. plan' \in Plans /\ plan'.key = sk /\ plan'.target = o.target /\ plan'.tracked
        BY <1>1, <2>2, <2>3, <4>1, <4>2 DEF Plans
      <4>4. leases'[sk] = Forwarded(o.target) /\ o.target # None
        BY <1>2, <2>2, <2>3, <3>1, LeaseFacts DEF TypeOK
      <4> QED
        BY <1>1, <4>3, <4>4 DEF PlanOK, Plans, Contexts, Terminals, Suppress, Reprocess, Forwarded
    <3> QED
      BY <3>2, <3>3, <3>4, <3>5
  <2>4. CASE ~owned(o)
    <3>1. /\ leases' \in {leases, [leases EXCEPT ![sk] = Suppress]}
          /\ UNCHANGED <<down, origin>>
      BY <2>1, <2>4
    <3>2. TypeOK'
      <4>1. leases' \in [LeaseKeys -> Leases \cup {None}]
        BY <3>1, LeaseFacts DEF TypeOK
      <4> QED
        BY <1>1, <2>1, <2>2, <3>1, <4>1 DEF TypeOK, AllViews
    <3>3. /\ \A k \in LeaseKeys : leases'[k] \in {leases[k], Suppress}
          /\ \A k \in LeaseKeys : k # sk => leases'[k] = leases[k]
      BY <1>2, <3>1 DEF TypeOK
    <3>4. NoStuckKey' /\ DownIsLeased'
      BY <1>1, <1>5, <1>7, <3>1, <3>3 DEF NoStuckKey, DownIsLeased
    <3>5. ConsumedOK'
      <4> SUFFICES ASSUME NEW k \in LeaseKeys, origin[k] = "consumed"
                   PROVE  HandledAgain(leases'[k], context[k])
        BY <1>1, <3>1 DEF ConsumedOK, HandledAgain, Contexts, Suppress, Reprocess
      <4> QED
        BY <3>3 DEF ConsumedOK, HandledAgain
    <3>6. PlanOK'
      <4> SUFFICES ASSUME plan' # None PROVE PlanOK'
        BY DEF PlanOK
      <4>1. plan.left # 1 /\ plan' = [plan EXCEPT !.left = @ - 1, !.target = None]
        BY <2>1, <2>4
      <4>2. plan.left - 1 \in Nat \ {0}
        BY <1>2, <4>1
      <4>3. plan' \in Plans /\ plan'.key = sk /\ plan'.target = None /\ plan'.context = plan.context
        BY <1>1, <4>1, <4>2 DEF Plans
      <4>4. leases'[sk] \in {None, Suppress, Reprocess(plan.context)}
        BY <1>1, <1>2, <1>7, <3>3
      <4> QED
        BY <1>1, <1>7, <3>1, <4>3, <4>4
        DEF PlanOK, Plans, Contexts, Terminals, Suppress, Reprocess, Forwarded
    <3> QED
      BY <3>2, <3>4, <3>5, <3>6
  <2> QED
    BY <2>3, <2>4
<1> QED
  BY <1>4, <1>6, <1>7

\* What the ends of leases have in common: a key that keeps its lease stays
\* held and keeps its history.
LEMMA CloseStep ==
    ASSUME IInv, NEW keys \in SUBSET LeaseKeys, NEW refused, CloseLeases(keys, refused),
           plan = None, plan' = None, view' \in AllViews, alive' \subseteq alive,
           held' \subseteq held, attached' \subseteq attached, context' = context,
           \A k \in LeaseKeys \ keys : /\ k \in held => k \in held'
                                       /\ k[1] \in attached => k[1] \in attached'
                                       /\ origin'[k] = origin[k],
           origin' \in [LeaseKeys -> Terminals \cup {None, "consumed"}],
           \A k \in keys : origin'[k] # "consumed"
    PROVE  IInv'
<1> USE DEF IInv
<1>1. /\ leases' \in [LeaseKeys -> Leases \cup {None}]
      /\ down' \in [LeaseKeys -> Terminals \cup {None}]
      /\ \A k \in keys : leases'[k] = None
      /\ \A k \in LeaseKeys \ keys : leases'[k] = leases[k] /\ down'[k] = down[k]
      /\ \A k \in LeaseKeys : down'[k] \in {None, down[k]}
      /\ \A k \in keys : leases[k] = Forwarded(down[k]) => down'[k] = None
  BY CloseFacts
<1>2. TypeOK'
  BY <1>1 DEF TypeOK, AllViews
<1>3. NoStuckKey' /\ DownIsLeased'
  <2> SUFFICES ASSUME NEW k \in LeaseKeys, down'[k] \in alive'
               PROVE  /\ k \in held' /\ k[1] \in attached'
                      /\ leases'[k] = Forwarded(down'[k])
    BY DEF NoStuckKey, DownIsLeased
  <2>1. None \notin alive
    BY LeaseFacts DEF TypeOK
  <2>2. down'[k] = down[k] /\ down[k] \in alive /\ leases[k] = Forwarded(down[k])
    BY <1>1, <2>1 DEF DownIsLeased
  <2>3. k \notin keys
    BY <1>1, <2>1, <2>2
  <2> QED
    BY <1>1, <2>2, <2>3 DEF NoStuckKey
<1>4. ConsumedOK'
  <2> SUFFICES ASSUME NEW k \in LeaseKeys, origin'[k] = "consumed"
               PROVE  HandledAgain(leases'[k], context[k])
    BY DEF ConsumedOK, HandledAgain, Contexts, Suppress, Reprocess
  <2>1. k \notin keys
    OBVIOUS
  <2> QED
    BY <1>1, <2>1 DEF ConsumedOK
<1>5. PlanOK'
  BY DEF PlanOK
<1> QED
  BY <1>2, <1>3, <1>4, <1>5

\* A key is let go of.
LEMMA ReleaseStep ==
    ASSUME IInv, NEW sk \in LeaseKeys, Release(sk)
    PROVE  IInv'
<1>1. PICK refused \in SUBSET {sk} : CloseLeases({sk}, refused)
  BY DEF Release
<1>2. /\ plan = None /\ plan' = None /\ view' = view /\ alive' = alive /\ attached' = attached
      /\ context' = context /\ held' = held \ {sk} /\ origin' = [origin EXCEPT ![sk] = None]
  BY DEF Release, Idle
<1>3. /\ view' \in AllViews
      /\ origin' \in [LeaseKeys -> Terminals \cup {None, "consumed"}]
      /\ \A k \in {sk} : origin'[k] # "consumed"
      /\ \A k \in LeaseKeys \ {sk} : origin'[k] = origin[k]
  BY <1>2, LeaseAssumption DEF IInv, TypeOK, AllViews
<1> QED
  BY <1>1, <1>2, <1>3, CloseStep

\* The history of a client that lost the focus or is gone.
LEMMA ForgetFacts ==
    ASSUME TypeOK, NEW s \in Sources, ForgetOrigins(s)
    PROVE  /\ origin' \in [LeaseKeys -> Terminals \cup {None, "consumed"}]
           /\ \A k \in OfSource(s) : origin'[k] # "consumed"
           /\ \A k \in LeaseKeys \ OfSource(s) : origin'[k] = origin[k] /\ k[1] # s
           /\ OfSource(s) \subseteq LeaseKeys
BY LeaseAssumption DEF TypeOK, ForgetOrigins, OfSource

\* A client loses the focus.
LEMMA FocusLostStep ==
    ASSUME IInv, NEW s \in Sources, FocusLost(s)
    PROVE  IInv'
<1>1. PICK refused \in SUBSET OfSource(s) : CloseLeases(OfSource(s), refused)
  BY DEF FocusLost
<1>2. PICK gone \in SUBSET (OfSource(s) \cap held) : held' = held \ gone
  BY DEF FocusLost
<1>3. /\ plan = None /\ plan' = None /\ view' = view /\ alive' = alive /\ attached' = attached
      /\ context' = context /\ ForgetOrigins(s)
  BY DEF FocusLost, Idle
<1>4. view' \in AllViews
  BY <1>3 DEF IInv, TypeOK, AllViews
<1> QED
  BY <1>1, <1>2, <1>3, <1>4, ForgetFacts, CloseStep DEF IInv

\* A client goes away.
LEMMA DisconnectStep ==
    ASSUME IInv, NEW s \in Sources, Disconnect(s)
    PROVE  IInv'
<1>1. PICK refused \in SUBSET OfSource(s) : CloseLeases(OfSource(s), refused)
  BY DEF Disconnect
<1>2. /\ plan = None /\ plan' = None /\ view' = view /\ alive' = alive
      /\ attached' = attached \ {s} /\ held' = held \ OfSource(s)
      /\ context' = context /\ ForgetOrigins(s)
  BY DEF Disconnect, Idle
<1>3. view' \in AllViews
  BY <1>2 DEF IInv, TypeOK, AllViews
<1> QED
  BY <1>1, <1>2, <1>3, ForgetFacts, CloseStep DEF IInv

\* A terminal goes away: the keys leased to it were taken by a terminal.
LEMMA CloseTerminalStep ==
    ASSUME IInv, NEW t \in Terminals, CloseTerminal(t)
    PROVE  IInv'
<1> DEFINE owned == {sk \in LeaseKeys : leases[sk] = Forwarded(t)}
<1>1. PICK refused \in SUBSET owned : CloseLeases(owned, refused)
  BY DEF CloseTerminal
<1>2. /\ plan = None /\ plan' = None /\ alive' = alive \ {t}
      /\ UNCHANGED <<held, attached, origin, context>>
  BY DEF CloseTerminal, Idle
<1>3. view' \in AllViews
  <2>1. PICK v \in [terminal : BOOLEAN, popup : {IF view.popup = t THEN None ELSE view.popup},
                    focus : IF alive' \cap Panes = {} THEN {None} ELSE alive' \cap Panes] : view' = v
    BY DEF CloseTerminal
  <2> QED
    BY <2>1 DEF IInv, TypeOK, AllViews
<1>4. \A k \in owned : origin[k] # "consumed"
  BY LeaseFacts DEF IInv, ConsumedOK, HandledAgain
<1>5. origin' \in [LeaseKeys -> Terminals \cup {None, "consumed"}]
  BY <1>2 DEF IInv, TypeOK
<1> HIDE DEF owned
<1>6. owned \in SUBSET LeaseKeys
  BY DEF owned
<1> QED
  BY <1>1, <1>2, <1>3, <1>4, <1>5, <1>6, CloseStep

-----------------------------------------------------------------------------
(* The theorems.                                                           *)

\* The inductive invariant holds at the start.
LEMMA InitIInv == Init => IInv
<1> SUFFICES ASSUME Init PROVE IInv
  OBVIOUS
<1>1. TypeOK
  BY DEF Init, TypeOK
<1>2. NoStuckKey /\ DownIsLeased
  BY LeaseFacts DEF Init, NoStuckKey, DownIsLeased
<1>3. ConsumedOK
  BY LeaseAssumption DEF Init, ConsumedOK
<1>4. PlanOK
  BY DEF Init, PlanOK
<1> QED
  BY <1>1, <1>2, <1>3, <1>4 DEF IInv

\* Every step keeps it.
LEMMA NextIInv == IInv /\ [Next]_vars => IInv'
<1> SUFFICES ASSUME IInv, [Next]_vars PROVE IInv'
  OBVIOUS
<1>1. CASE \E sk \in LeaseKeys, n \in 1 .. MaxRepeat : Press(sk, n) \/ Repeat(sk, n)
  BY <1>1, PressStep, RepeatStep
<1>2. CASE ReprocessOne
  BY <1>2, ReprocessStep
<1>3. CASE \E sk \in LeaseKeys : Release(sk)
  BY <1>3, ReleaseStep
<1>4. CASE \E s \in Sources : FocusLost(s) \/ Disconnect(s)
  BY <1>4, FocusLostStep, DisconnectStep
<1>5. CASE \E t \in Terminals : CloseTerminal(t)
  BY <1>5, CloseTerminalStep
<1>6. CASE ViewChanges
  <2>1. PICK v \in Views : view' = v
    BY <1>6 DEF ViewChanges
  <2>2. UNCHANGED <<leases, alive, plan, held, attached, down, origin, context>>
    BY <1>6 DEF ViewChanges
  <2>3. view' \in AllViews
    BY <2>1 DEF Views, AllViews
  <2> QED
    BY <2>2, <2>3 DEF IInv, TypeOK, AllViews, NoStuckKey, DownIsLeased, ConsumedOK, PlanOK,
                      HandledAgain, Plans, Contexts, Terminals, Suppress, Reprocess, Forwarded
<1>7. CASE UNCHANGED vars
  BY <1>7 DEF vars, IInv, TypeOK, NoStuckKey, DownIsLeased, ConsumedOK, PlanOK,
              HandledAgain, Plans, Contexts, Terminals, Suppress, Reprocess, Forwarded
<1> QED
  BY <1>1, <1>2, <1>3, <1>4, <1>5, <1>6, <1>7 DEF Next

\* The inductive invariant holds.
THEOREM Invariance == Spec => []IInv
BY InitIInv, NextIInv, PTL DEF Spec

\* A key that nobody holds is down in no terminal (remove_forwarded,
\* release_input_source, clear_input_source, release_input_target).
THEOREM NoKeyStuck == Spec => []Consistent
<1>1. IInv => Consistent
  BY DEF IInv, Consistent
<1> QED
  BY <1>1, Invariance, PTL

\* A repeat is delivered by plan_repeat, to the terminal of the lease, or by
\* a repetition, to the terminal that has taken one before, or to whoever the
\* context of the press leads to.
LEMMA Deliveries ==
    ASSUME IInv, Next, sent' # None, sent'.kind = "Repeat"
    PROVE  /\ down[sent'.key] \in alive => sent'.to = down[sent'.key]
           /\ origin[sent'.key] = "consumed" => Context = context[sent'.key]
<1> USE DEF IInv
\* what a forwarded repeat does
<1>1. ASSUME NEW sk \in LeaseKeys, NEW t \in Terminals, leases[sk] = Forwarded(t),
             NEW ok \in BOOLEAN, Forward(sk, t, ok)
      PROVE  /\ down[sent'.key] \in alive => sent'.to = down[sent'.key]
             /\ origin[sent'.key] = "consumed" => Context = context[sent'.key]
  <2>1. sent'.key = sk /\ sent'.to = t
    BY <1>1 DEF Forward, Send, Quiet
  <2>2. origin[sk] # "consumed"
    BY <1>1, LeaseFacts DEF ConsumedOK, HandledAgain
  <2>3. down[sk] \in alive => down[sk] = t
    BY <1>1, LeaseFacts DEF DownIsLeased, TypeOK
  <2> QED
    BY <2>1, <2>2, <2>3
<1>2. ASSUME NEW sk \in LeaseKeys, NEW n \in 1 .. MaxRepeat, Press(sk, n) PROVE FALSE
  <2>1. PICK t : sent' = None \/ Send(sk, t, "Press")
    BY <1>2 DEF Press, Quiet
  <2>2. sent'.kind = "Press"
    BY <2>1 DEF Send
  <2> QED
    BY <2>2
<1>3. ASSUME NEW sk \in LeaseKeys, NEW n \in 1 .. MaxRepeat, Repeat(sk, n)
      PROVE  /\ down[sent'.key] \in alive => sent'.to = down[sent'.key]
             /\ origin[sent'.key] = "consumed" => Context = context[sent'.key]
  <2>1. leases[sk] # None /\ leases[sk].kind = "Forwarded"
    BY <1>3 DEF Repeat, PlanRepeat, Quiet
  <2>2. PICK ok \in BOOLEAN : Forward(sk, leases[sk].at, ok)
    BY <1>3, <2>1 DEF Repeat, PlanRepeat
  <2> QED
    BY <1>1, <2>1, <2>2, LeaseKinds
<1>4. ASSUME ReprocessOne
      PROVE  /\ down[sent'.key] \in alive => sent'.to = down[sent'.key]
             /\ origin[sent'.key] = "consumed" => Context = context[sent'.key]
  <2>1. /\ plan # None /\ plan.key \in LeaseKeys /\ plan.target \in Terminals \cup {None}
        /\ plan.context \in Contexts
        /\ plan.target # None => leases[plan.key] = Forwarded(plan.target)
        /\ plan.target = None =>
              /\ leases[plan.key] \in {None, Suppress, Reprocess(plan.context)}
              /\ origin[plan.key] = "consumed" => plan.context = context[plan.key]
    BY <1>4 DEF ReprocessOne, PlanOK, Plans
  <2>2. CASE plan.target # None
    <3>1. PICK ok \in BOOLEAN : Forward(plan.key, plan.target, ok)
      BY <1>4, <2>2 DEF ReprocessOne
    <3> QED
      BY <1>1, <2>1, <2>2, <3>1
  <2>3. CASE plan.target = None
    <3>1. Context = plan.context
      BY <1>4, <2>3 DEF ReprocessOne, Quiet
    <3>2. PICK o \in Outcomes : IF Target(o) = None THEN Quiet ELSE Send(plan.key, o.target, "Repeat")
      BY <1>4, <2>3, <3>1 DEF ReprocessOne
    <3>3. sent'.key = plan.key
      BY <3>2 DEF Quiet, Send
    <3>4. down[plan.key] \notin alive
      BY <2>1, <2>3, LeaseFacts DEF DownIsLeased, TypeOK
    <3> QED
      BY <2>1, <2>3, <3>1, <3>3, <3>4
  <2> QED
    BY <2>2, <2>3
<1>5. ASSUME \/ \E sk \in LeaseKeys : Release(sk)
             \/ \E s \in Sources : FocusLost(s) \/ Disconnect(s)
             \/ \E t \in Terminals : CloseTerminal(t)
             \/ ViewChanges
      PROVE  FALSE
  BY <1>5 DEF Release, FocusLost, Disconnect, CloseTerminal, ViewChanges, Quiet
<1> QED
  BY <1>2, <1>3, <1>4, <1>5 DEF Next

\* A key that is down in a terminal repeats there and nowhere else (plan_repeat).
THEOREM RepeatsReachTheirTerminal == Spec => RepeatsFollow
<1>1. IInv /\ [Next]_vars =>
         [ sent' # None /\ sent'.kind = "Repeat" =>
              LET sk == sent'.key IN down[sk] \in alive => sent'.to = down[sk] ]_vars
  BY Deliveries
<1> QED
  BY <1>1, Invariance, PTL DEF Spec, RepeatsFollow

\* A key whose press was consumed repeats into a terminal only in the context
\* of its press (reprocess_allowed).
THEOREM ConsumedKeysDoNotLeak == Spec => NoLeak
<1>1. IInv /\ [Next]_vars =>
         [ sent' # None /\ sent'.kind = "Repeat" =>
              LET sk == sent'.key IN origin[sk] = "consumed" => Context = context[sk] ]_vars
  BY Deliveries
<1> QED
  BY <1>1, Invariance, PTL DEF Spec, NoLeak
=============================================================================
