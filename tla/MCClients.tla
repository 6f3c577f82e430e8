----------------------------- MODULE MCClients ------------------------------
(***************************************************************************)
(* The instances of Clients, with one terminal: two app clients and its    *)
(* output; one app client of each encoding and more output; and an app     *)
(* client beside clients that attach to the terminal, take it over from    *)
(* each other, or observe it, while it may go.                             *)
(***************************************************************************)
EXTENDS Clients

Left(outputs, events, terminals) ==
    [outputs |-> outputs, events |-> events, terminals |-> terminals]

Of(kinds, semantic, sizes, reports, bounds) ==
    [kinds |-> kinds, first |-> [c \in DOMAIN kinds |-> c], semantic |-> semantic,
     terminals |-> {"t1"}, sizes |-> sizes, reports |-> reports, left |-> bounds]

AllSetups ==
    {Of(<<"app", "app">>, {2}, {1}, 1, Left(1, 2, 0)),
     Of(<<"app">>, {}, {2}, 2, Left(4, 1, 0)),
     Of(<<"app">>, {1}, {2}, 2, Left(4, 1, 0)),
     Of(<<"app", "attach">>, {1}, {3}, 1, Left(0, 3, 1)),
     Of(<<"app", "observe">>, {}, {3}, 1, Left(0, 2, 1)),
     Of(<<"app", "attach", "attach">>, {1}, {4}, 1, Left(0, 1, 1))}
=============================================================================
