--------------------------- MODULE PaneOwnership ---------------------------
(***************************************************************************)
(* What a live handoff promises, without its messages and processes: who   *)
(* reads each pane's PTY.  The old server stops reading panes one by one   *)
(* and may take them back, until the handoff is committed; from then on    *)
(* only the new server takes panes, each from a state where nobody reads.  *)
(***************************************************************************)
CONSTANT Panes

VARIABLES reads, handed

Init ==
    /\ reads \in [Panes -> {"old", "nobody"}]     \* "nobody": no such pane
    /\ handed = FALSE

Stop(p) ==
    /\ reads[p] = "old"
    /\ reads' = [reads EXCEPT ![p] = "nobody"]
    /\ UNCHANGED handed

Resume(p) ==
    /\ ~handed /\ reads[p] = "nobody"
    /\ reads' = [reads EXCEPT ![p] = "old"]
    /\ UNCHANGED handed

Commit ==
    /\ ~handed /\ \A p \in Panes : reads[p] = "nobody"
    /\ handed' = TRUE
    /\ UNCHANGED reads

Take(p) ==
    /\ handed /\ reads[p] = "nobody"
    /\ reads' = [reads EXCEPT ![p] = "new"]
    /\ UNCHANGED handed

\* The old server crashes: it reads nothing any more.
Crash ==
    /\ reads' = [p \in Panes |-> IF reads[p] = "old" THEN "nobody" ELSE reads[p]]
    /\ UNCHANGED handed

Next ==
    \/ \E p \in Panes : Stop(p) \/ Resume(p) \/ Take(p)
    \/ Commit
    \/ Crash

Spec == Init /\ [][Next]_<<reads, handed>>

=============================================================================
