-------------------------- MODULE MCDetectionTask ---------------------------
(***************************************************************************)
(* The panes of DetectionTask that TLC looks at.                           *)
(***************************************************************************)
EXTENDS DetectionTask

CONSTANTS claude, codex

Setup(main, agents, screens, asked, changes, calls) ==
    [main |-> main, agents |-> agents, screens |-> screens, requests |-> asked,
     jobs |-> changes, calls |-> calls]

AllSetups ==
    {\* One agent after another.
     Setup(TRUE, {claude, codex}, {"working"}, {}, 3, 0),
     \* Exits, restarts, a reset and a release.
     Setup(TRUE, {claude}, {"idle", "working"}, {"release", "reset"}, 3, 1),
     \* Everything a screen may show.
     Setup(TRUE, {claude}, {"idle", "plain", "working", "blocked"}, {}, 2, 0),
     \* A hook takes authority, with a release or a reset.
     Setup(TRUE, {claude}, {"plain", "working"}, {"authority", "release", "reset"}, 2, 2),
     \* A pane that was handed over.
     Setup(FALSE, {claude}, {"idle", "plain", "working", "skip"}, {}, 3, 0)}

\* A spawned pane whose agent shows a model picker or a transcript.
PickerSetup == {Setup(TRUE, {claude}, {"plain", "skip"}, {}, 2, 0)}
=============================================================================
