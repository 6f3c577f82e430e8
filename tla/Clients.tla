------------------------------ MODULE Clients -------------------------------
(***************************************************************************)
(* The clients of the headless server (src/server/headless.rs, clients.rs, *)
(* client_transport.rs): which client is in the foreground and gives the   *)
(* panes their size, which one is attached to a terminal of its own, and   *)
(* how frames reach all of them although each has room for one frame only. *)
(* The main loop handles one event at a time; PTY readers, the clients and *)
(* one writer thread per client run beside it.                             *)
(*                                                                         *)
(* Sizes are small numbers, 0 is MIN_COLS x MIN_ROWS.  A pane is as large  *)
(* as the client in the foreground: the layout is left out.  A frame is a  *)
(* size and what it shows of each part: the app's own chrome and terminals.*)
(***************************************************************************)
EXTENDS Naturals, Sequences, FiniteSets, SequencesExt

CONSTANTS
    None,
    Setups   \* records: the kinds of the clients, those with the semantic
             \* encoding, terminals, sizes, and bounds on what happens

\* Bounds: how many outputs, client events and changes of terminals there may
\* be (left), and how many reports of a writer may be unhandled (reports).
ASSUME ClientsAssumption ==
    \A u \in Setups :
        /\ u.kinds \in Seq({"app", "attach", "observe"})
        /\ u.first \in [DOMAIN u.kinds -> Nat] /\ u.sizes \subseteq Nat
        /\ u.semantic \subseteq DOMAIN u.kinds
        /\ u.reports \in Nat /\ u.left \in [outputs : Nat, events : Nat, terminals : Nat]
        /\ "chrome" \notin u.terminals /\ IsFiniteSet(u.terminals)

Chrome == "chrome"

\* What a client shows: a size and, of each part, its version and its size.
Parts == {Chrome} \cup UNION {u.terminals : u \in Setups}
Frame == [size : Nat, parts : UNION {[P -> [version : Nat, size : Nat]] : P \in SUBSET Parts}]

\* A frame as it is sent, with the frame it is a difference to.
Message == [frame : Frame, base : Frame \cup {None}]

\* None is no client, terminal, frame or message.
ASSUME NoneAssumption == None \notin Nat \cup Parts \cup Frame \cup Message

VARIABLES
    setup,    \* the instance, fixed at the start
    srv,      \* what the main loop owns, and the writers' queues
    users,    \* the client processes: "out", "open", "shut" (closed), "done"
    content,  \* the version of the chrome and of every terminal's screen
    written,  \* terminals with bytes for which no render is requested yet
    left      \* how many outputs, client events and changes of terminals may follow

vars == <<setup, srv, users, content, written, left>>

Ids == DOMAIN setup.kinds

-----------------------------------------------------------------------------
(* The state of the server: operators on the record srv. *)

IsApp(s, c) == c \in DOMAIN s.conns /\ s.conns[c].mode = "app"

NewConnection(c) ==
    [mode |-> IF setup.kinds[c] = "app" THEN "app" ELSE "pending", terminal |-> None,
     size |-> setup.first[c], writer |-> TRUE, deferred |-> FALSE, last |-> None, repaint |-> FALSE]

\* A writer's queue without its messages, and what its client shows.
Unused == [alive |-> TRUE, slot |-> None, shown |-> None, garbled |-> FALSE]

RequestRepaint(c, conn) ==
    IF c \in setup.semantic THEN [conn EXCEPT !.last = None] ELSE [conn EXCEPT !.repaint = TRUE]

\* The order of the activity stamps.
Touch(s, c) == [s EXCEPT !.recent = Append(RemoveFirst(@, c), c)]

LatestAppClient(s) ==
    LET latest == SelectLastInSeq(s.recent, LAMBDA c : IsApp(s, c))
    IN  IF latest = 0 THEN None ELSE s.recent[latest]

SyncForeground(s) ==
    IF s.fg \in DOMAIN s.conns THEN [s EXCEPT !.size = s.conns[s.fg].size]
    ELSE [s EXCEPT !.fg = None, !.size = 0]

Promote(s, c) ==
    IF c \notin DOMAIN s.conns THEN s ELSE SyncForeground([Touch(s, c) EXCEPT !.fg = c])

PromoteLatest(s) == SyncForeground([s EXCEPT !.fg = LatestAppClient(s)])

\* A terminal that changes its size has all its rows dirty.
ResizeTerminals(s, ts, size) ==
    [s EXCEPT !.sizes = [t \in DOMAIN @ |-> IF t \in ts THEN size ELSE @[t]],
              !.dirty = [t \in DOMAIN @ |-> IF t \in ts /\ s.sizes[t] # size THEN "All" ELSE @[t]]]

ResizeShared(s) ==
    IF s.fg \notin DOMAIN s.conns THEN s
    ELSE [ResizeTerminals(s, s.live \ s.locks, s.size) EXCEPT
            !.conns = [c \in DOMAIN @ |-> RequestRepaint(c, @[c])]]

\* Mutant: the terminal's lock outlives its attachment.
RemoveKeepsLock(s, c) ==
    IF c \notin DOMAIN s.conns THEN s
    ELSE LET t == s.conns[c].terminal
             gone == [s EXCEPT
                        !.conns = [d \in DOMAIN @ \ {c} |-> @[d]],
                        !.recent = RemoveFirst(@, c),
                        !.owners = IF s.conns[c].mode = "attach" THEN [@ EXCEPT ![t] = None] ELSE @]
         IN  IF s.fg = c THEN PromoteLatest(gone) ELSE gone

RemoveClient(s, c) ==
    IF c \notin DOMAIN s.conns THEN s
    ELSE LET t == s.conns[c].terminal
             attached == s.conns[c].mode = "attach"
             gone == [s EXCEPT
                        !.conns = [d \in DOMAIN @ \ {c} |-> @[d]],
                        !.recent = RemoveFirst(@, c),
                        !.owners = IF attached THEN [@ EXCEPT ![t] = None] ELSE @,
                        !.locks = IF attached /\ t \in s.live THEN @ \ {t} ELSE @]
         IN  IF s.fg = c THEN PromoteLatest(gone) ELSE gone

NeedsSharedResize(s, c) ==
    \/ s.fg = c
    \/ c \in DOMAIN s.conns /\ s.conns[c].mode \in {"attach", "observe"} /\ s.fg # None

RemoveAndResize(s, c) ==
    IF NeedsSharedResize(s, c) THEN ResizeShared(RemoveClient(s, c)) ELSE RemoveClient(s, c)

\* One after the other.
RemoveAll(s, cs) ==
    LET after[n \in 0 .. Len(cs)] == IF n = 0 THEN s ELSE RemoveAndResize(after[n - 1], cs[n])
    IN  after[Len(cs)]

TerminalStreamClients(s, t) ==
    {c \in DOMAIN s.conns : s.conns[c].mode \in {"attach", "observe"} /\ s.conns[c].terminal = t}

-----------------------------------------------------------------------------
(* Frames. *)

HasWriter(s, c) == s.conns[c].writer

Targets(s) == {c \in DOMAIN s.conns : HasWriter(s, c) /\ s.conns[c].mode # "pending"}

Shows(s, c) ==
    IF IsApp(s, c) THEN {Chrome} \cup s.live ELSE {s.conns[c].terminal}

Part(s, p) == [version |-> content[p], size |-> IF p = Chrome THEN 0 ELSE s.sizes[p]]

FrameOf(s, c) ==
    [size |-> s.conns[c].size, parts |-> [p \in Shows(s, c) |-> Part(s, p)]]

IsCurrent(c, conn, frame) == conn.last = frame /\ ~conn.repaint

\* What a frame in the terminal encoding is a difference to.
BaseOf(c, conn, frame) ==
    IF c \in setup.semantic \/ conn.repaint \/ conn.last = None THEN None
    ELSE IF conn.last.size # frame.size THEN None ELSE conn.last

\* One frame for one client: skipped, put into its slot, or deferred.
Offer(s, c, frame) ==
    LET conn == s.conns[c]
    IN  IF IsCurrent(c, conn, frame) THEN [s EXCEPT !.conns[c].deferred = FALSE]
        ELSE IF s.wires[c].slot # None THEN [s EXCEPT !.conns[c].deferred = TRUE]
        ELSE [s EXCEPT !.conns[c].deferred = FALSE, !.conns[c].last = frame,
                       !.conns[c].repaint = FALSE,
                       !.wires[c].slot = [frame |-> frame, base |-> BaseOf(c, conn, frame)]]

\* A client is broken when its writer or its terminal is gone.
Broken(s, c, frame) ==
    ~s.wires[c].alive /\ ~IsCurrent(c, s.conns[c], frame)

\* The foreground's render, the last one, gives the panes their size again.
RenderOne(r, c) ==
    IF ~IsApp(r.s, c) /\ r.s.conns[c].terminal \notin r.s.live
    THEN [s |-> IF r.s.wires[c].alive THEN r.s ELSE RemoveAndResize(r.s, c), broken |-> Append(r.broken, c)]
    ELSE LET s == IF IsApp(r.s, c) /\ r.s.fg = c
                  THEN ResizeTerminals(r.s, r.s.live \ r.s.locks, r.s.conns[c].size) ELSE r.s
             frame == FrameOf(s, c)
             clean == [s EXCEPT !.dirty = [t \in DOMAIN @ |-> IF t \in Shows(s, c) THEN "Clean" ELSE @[t]]]
         IN  IF Broken(s, c, frame) THEN [s |-> clean, broken |-> Append(r.broken, c)]
             ELSE [r EXCEPT !.s = Offer(clean, c, frame)]

\* The targets are rendered in the order of their ids, the foreground last.
RenderBackground(s) ==
    LET after[n \in 0 .. Len(setup.kinds)] ==
            IF n = 0 THEN [s |-> s, broken |-> <<>>]
            ELSE IF n \in Targets(s) \ {s.fg} THEN RenderOne(after[n - 1], n) ELSE after[n - 1]
    IN  after[Len(setup.kinds)]

RenderAndStream(s) ==
    LET background == RenderBackground(s)
        r == IF s.fg \in Targets(s) THEN RenderOne(background, s.fg) ELSE background
    IN  RemoveAll(r.s, r.broken)

\* Mutant: a deferred frame is no obstacle.
RetainedAnyway(s, c) ==
    /\ Targets(s) = {c} /\ IsApp(s, c)
    /\ s.conns[c].last # None /\ s.conns[c].last.size = s.conns[c].size
    /\ \A t \in s.live : s.dirty[t] # "All"

\* The only client's last frame may be patched with the dirty rows.
RetainedAllowed(s, c) ==
    /\ Targets(s) = {c} /\ IsApp(s, c) /\ ~s.conns[c].deferred
    /\ s.conns[c].last # None /\ s.conns[c].last.size = s.conns[c].size
    /\ \A t \in s.live : s.dirty[t] # "All"

Patched(s, c) ==
    [s.conns[c].last EXCEPT !.parts =
        [p \in DOMAIN @ |-> IF p # Chrome /\ s.dirty[p] # "Clean" THEN Part(s, p) ELSE @[p]]]

\* Whatever fails on the way, the full render follows.
RetainedUpdate(s, c) ==
    LET frame == Patched(s, c)
        clean == [s EXCEPT !.dirty = [t \in DOMAIN @ |-> IF t \in s.live THEN "Clean" ELSE @[t]]]
        sent == Offer(clean, c, frame)
    IN  IF clean = s THEN s
        ELSE IF Broken(s, c, frame) THEN RenderAndStream(RemoveAndResize(clean, c))
        ELSE IF sent.conns[c].deferred THEN RenderAndStream(sent)
        ELSE sent

Visible(s) ==
    \E c \in Targets(s) : s.sources \cap Shows(s, c) # {}

-----------------------------------------------------------------------------
(* The handlers of the main loop.  Most of them ask for a full render. *)

Full(s) == [s EXCEPT !.full = TRUE]

Counts(n) == left[n] > 0 /\ left' = [left EXCEPT ![n] = @ - 1]

Reads(c) == users[c] = "open"

Connect(c) ==
    /\ users[c] = "out" /\ users' = [users EXCEPT ![c] = "open"]
    /\ LET s == [Touch(srv, c) EXCEPT
                   !.conns = [d \in DOMAIN @ \cup {c} |-> IF d = c THEN NewConnection(c) ELSE @[d]]]
           app == setup.kinds[c] = "app"
       IN  srv' = Full(ResizeShared(SyncForeground(IF app THEN [s EXCEPT !.fg = c] ELSE s)))
    /\ UNCHANGED <<setup, content, written, left>>

\* A client becomes the viewer of a terminal.
Stream(s, c, mode, t) ==
    LET new == [Touch(s, c) EXCEPT
                  !.conns[c] = [@ EXCEPT !.mode = mode, !.terminal = t, !.last = None, !.repaint = FALSE]]
    IN  IF s.fg = c THEN PromoteLatest(new) ELSE new

Pending(c) == Reads(c) /\ c \in DOMAIN srv.conns /\ srv.conns[c].mode = "pending"

Attach(c, t, takeover) ==
    /\ setup.kinds[c] = "attach" /\ Pending(c)
    /\ LET owner == srv.owners[t]
           others == IF owner = None THEN srv ELSE RemoveAndResize(srv, owner)
           s == Stream(others, c, "attach", t)
       IN  srv' = IF \/ t \notin srv.live \/ t \in srv.reads
                     \/ owner # None /\ ~takeover
                  THEN RemoveAndResize(srv, c)
                  ELSE Full(ResizeTerminals([s EXCEPT !.owners[t] = c, !.locks = @ \cup {t}],
                                            {t}, s.conns[c].size))
    /\ UNCHANGED <<setup, users, content, written, left>>

Observe(c, t) ==
    /\ setup.kinds[c] = "observe" /\ Pending(c)
    /\ srv' = IF t \in srv.live THEN Full(Stream(srv, c, "observe", t)) ELSE RemoveAndResize(srv, c)
    /\ UNCHANGED <<setup, users, content, written, left>>

\* A key, a paste or, with a host surface to redraw, a gained focus.
Input(c, redraw) ==
    /\ Reads(c) /\ IsApp(srv, c) /\ Counts("events")
    /\ LET conn == srv.conns[c]
           s == [srv EXCEPT !.conns[c] =
                   IF redraw THEN [RequestRepaint(c, conn) EXCEPT !.deferred = TRUE]
                   ELSE IF c \in setup.semantic THEN [conn EXCEPT !.last = None] ELSE conn]
           top == Promote(s, c)
       IN  srv' = Full(IF srv.fg = c THEN top ELSE ResizeShared(top))
    /\ UNCHANGED <<setup, users, content, written>>

\* The binding that detaches: the writer goes, the connection waits for the
\* client to close.
DetachKey(c) ==
    /\ Reads(c) /\ IsApp(srv, c) /\ Counts("events")
    /\ LET top == Promote(srv, c)
           s == IF srv.fg = c THEN top ELSE ResizeShared(top)
           last == IF c \in setup.semantic THEN None ELSE s.conns[c].last
       IN  srv' = [s EXCEPT !.conns[c] = [@ EXCEPT !.writer = FALSE, !.last = last]]
    /\ UNCHANGED <<setup, users, content, written>>

\* Also of a client that the server has removed and that does not know yet.
Resize(c, size) ==
    /\ Reads(c) /\ ~Pending(c) /\ Counts("events")
    /\ IF c \notin DOMAIN srv.conns THEN srv' = Full(ResizeShared(srv))
       ELSE LET conn == srv.conns[c]
                s == [srv EXCEPT !.conns[c].size = size]
                new == [srv EXCEPT !.conns[c] = RequestRepaint(c, [conn EXCEPT !.size = size])]
            IN  srv' = Full(IF conn.mode = "attach" THEN ResizeTerminals(new, {conn.terminal} \cap srv.live, size)
                            ELSE IF conn.mode = "observe" THEN new ELSE ResizeShared(Promote(s, c)))
    /\ UNCHANGED <<setup, users, content, written>>

Detach(c) ==
    /\ Reads(c) /\ ~Pending(c) /\ Counts("events")
    /\ srv' = Full(RemoveAndResize(srv, c)) /\ users' = [users EXCEPT ![c] = "shut"]
    /\ UNCHANGED <<setup, content, written>>

\* Nobody looks at its queue any more, and what its writer still reports is ignored.
Disconnected(c) ==
    /\ users[c] = "shut" /\ users' = [users EXCEPT ![c] = "done"]
    /\ srv' = Full([RemoveAndResize(srv, c) EXCEPT !.wires[c] = Unused, !.drained[c] = 0])
    /\ UNCHANGED <<setup, content, written, left>>

WriterDrained(c) ==
    /\ srv.drained[c] > 0
    /\ LET s == [srv EXCEPT !.drained[c] = @ - 1]
       IN  srv' = IF c \in DOMAIN s.conns /\ s.conns[c].deferred
                  THEN Full([s EXCEPT !.conns[c].deferred = FALSE]) ELSE s
    /\ UNCHANGED <<setup, users, content, written, left>>

\* A message to all: who cannot be reached is removed.  The table of clients
\* has no order.
Broadcast ==
    /\ \E c \in DOMAIN srv.conns : HasWriter(srv, c) /\ ~srv.wires[c].alive
    /\ \E cs \in SetToSeqs({c \in DOMAIN srv.conns : HasWriter(srv, c) /\ ~srv.wires[c].alive}) :
          srv' = RemoveAll(srv, cs)
    /\ UNCHANGED <<setup, users, content, written, left>>

\* Telling a client to leave may show that it cannot be reached.
SendAndRemove(s, c) ==
    IF HasWriter(s, c) /\ ~s.wires[c].alive THEN RemoveAndResize(s, c) ELSE RemoveClient(s, c)

SendAndRemoveAll(s, cs) ==
    LET after[n \in 0 .. Len(cs)] == IF n = 0 THEN s ELSE SendAndRemove(after[n - 1], cs[n])
    IN  after[Len(cs)]

\* A handoff begins: everybody has to connect anew, to whichever server.
DisconnectAll ==
    /\ DOMAIN srv.conns # {} /\ Counts("terminals")
    /\ \E cs \in SetToSeqs(DOMAIN srv.conns) :
          srv' = ResizeShared(SyncForeground([SendAndRemoveAll(srv, cs) EXCEPT !.fg = None]))
    /\ UNCHANGED <<setup, users, content, written>>

\* A pane dies, or it is closed and only the next render notices its viewers.
TerminalGoes(t, died) ==
    /\ t \in srv.live /\ Counts("terminals")
    /\ LET s == [srv EXCEPT !.live = @ \ {t}, !.reads = @ \ {t}, !.sources = @ \ {t}]
       IN  IF died THEN \E cs \in SetToSeqs(TerminalStreamClients(s, t)) : srv' = Full(RemoveAll(s, cs))
           ELSE srv' = Full(s)
    /\ content' = [content EXCEPT ![Chrome] = @ + 1] /\ written' = written \ {t}
    /\ UNCHANGED <<setup, users>>

\* A read that scrolls the terminal, which nobody may be attached to.
StartRead(t) ==
    /\ t \in srv.live \ srv.reads /\ srv.owners[t] = None /\ Counts("terminals")
    /\ srv' = [srv EXCEPT !.reads = @ \cup {t}]
    /\ UNCHANGED <<setup, users, content, written>>

EndRead(t) ==
    /\ t \in srv.reads
    /\ srv' = [srv EXCEPT !.reads = @ \ {t}]
    /\ UNCHANGED <<setup, users, content, written, left>>

\* The state of the app changes.
AppChanges ==
    /\ Counts("outputs")
    /\ content' = [content EXCEPT ![Chrome] = @ + 1] /\ srv' = Full(srv)
    /\ UNCHANGED <<setup, users, written>>

Render ==
    /\ srv.full \/ srv.sources # {}
    /\ LET retained == {c \in Targets(srv) : RetainedAllowed(srv, c)}
           s == IF srv.full THEN RenderAndStream(srv)
                ELSE IF ~Visible(srv) THEN srv
                ELSE IF retained = {} THEN RenderAndStream(srv)
                ELSE RetainedUpdate(srv, CHOOSE c \in retained : TRUE)
       IN  srv' = [s EXCEPT !.full = FALSE, !.sources = {}]
    /\ UNCHANGED <<setup, users, content, written, left>>

-----------------------------------------------------------------------------
(* The other threads. *)

\* A PTY reader changes the screen, and then asks for a render.
Output(t) ==
    /\ t \in srv.live \ written /\ Counts("outputs")
    /\ content' = [content EXCEPT ![t] = @ + 1] /\ written' = written \cup {t}
    /\ srv' = [srv EXCEPT !.dirty[t] = IF @ = "All" THEN @ ELSE "Rows"]
    /\ UNCHANGED <<setup, users>>

Signal(t) ==
    /\ t \in written /\ written' = written \ {t}
    /\ srv' = [srv EXCEPT !.sources = @ \cup {t}]
    /\ UNCHANGED <<setup, users, content, left>>

\* The writer takes the frame out of the slot, reports it and writes it; what
\* it reports before and after the write makes no difference to the server.
Takes(c) ==
    srv.wires[c].alive /\ srv.wires[c].slot # None /\ srv.drained[c] < setup.reports

\* A difference to something else than what the client shows would garble it.
WriteFrame(c) ==
    /\ Takes(c) /\ users[c] = "open"
    /\ LET w == srv.wires[c]
       IN  srv' = [srv EXCEPT !.drained[c] = @ + 1, !.wires[c] =
                     [@ EXCEPT !.slot = None, !.shown = w.slot.frame,
                               !.garbled = w.garbled \/ w.slot.base \notin {None, w.shown}]]
    /\ UNCHANGED <<setup, users, content, written, left>>

WriteFails(c) ==
    /\ Takes(c) /\ users[c] # "open"
    /\ srv' = [srv EXCEPT !.drained[c] = @ + 1, !.wires[c] = [@ EXCEPT !.slot = None, !.alive = FALSE]]
    /\ UNCHANGED <<setup, users, content, written, left>>

\* The client ends, told to or not.
Close(c) ==
    /\ Reads(c) /\ Counts("events") /\ users' = [users EXCEPT ![c] = "shut"]
    /\ UNCHANGED <<setup, srv, content, written>>

-----------------------------------------------------------------------------
Init ==
    /\ setup \in Setups
    /\ srv = [conns |-> <<>>, recent |-> <<>>, fg |-> None, size |-> 0,
              owners |-> [t \in setup.terminals |-> None], locks |-> {},
              live |-> setup.terminals, reads |-> {},
              sizes |-> [t \in setup.terminals |-> 0], dirty |-> [t \in setup.terminals |-> "Clean"],
              full |-> FALSE, sources |-> {}, drained |-> [c \in Ids |-> 0],
              wires |-> [c \in Ids |-> Unused]]
    /\ users = [c \in Ids |-> "out"]
    /\ content = [p \in {Chrome} \cup setup.terminals |-> 0]
    /\ written = {} /\ left = setup.left

Next ==
    \/ \E c \in Ids :
         \/ \E size \in setup.sizes : Resize(c, size)
         \/ \E t \in setup.terminals : Observe(c, t) \/ \E takeover \in BOOLEAN : Attach(c, t, takeover)
         \/ \E redraw \in BOOLEAN : Input(c, redraw)
         \/ Connect(c) \/ DetachKey(c) \/ Detach(c) \/ Close(c) \/ Disconnected(c)
         \/ WriterDrained(c) \/ WriteFrame(c) \/ WriteFails(c)
    \/ \E t \in setup.terminals :
         \/ \E died \in BOOLEAN : TerminalGoes(t, died)
         \/ StartRead(t) \/ EndRead(t) \/ Output(t) \/ Signal(t)
    \/ Broadcast \/ DisconnectAll \/ AppChanges \/ Render

Spec == Init /\ [][Next]_vars

-----------------------------------------------------------------------------
\* The foreground is an app client, there is one if there is any app client,
\* and the app has its size.
ForegroundOK(s) ==
    /\ s.fg = None => /\ s.size = 0 /\ \A c \in DOMAIN s.conns : ~IsApp(s, c)
    /\ s.fg # None => IsApp(s, s.fg) /\ s.size = s.conns[s.fg].size

\* A terminal has one attached client at most, the one in the table of owners;
\* it is locked exactly as long, and nothing scrolls it meanwhile.
AttachmentsOK(s) ==
    \A t \in s.live :
        /\ \A c \in DOMAIN s.conns :
              s.owners[t] = c <=> s.conns[c].mode = "attach" /\ s.conns[c].terminal = t
        /\ s.owners[t] \in DOMAIN s.conns \cup {None}
        /\ t \in s.locks <=> s.owners[t] # None
        /\ t \in s.reads => s.owners[t] = None

\* A terminal has the size of the client attached to it, and the size of the
\* foreground as soon as nobody is, however clients come, go, take over, are
\* found broken or resize (resize_shared_runtime_to_effective_size).
SizesOK(s) ==
    \A t \in s.live :
        IF s.owners[t] # None THEN s.sizes[t] = s.conns[s.owners[t]].size
        ELSE s.fg # None => s.sizes[t] = s.size

\* Foreground, attachments and sizes agree after every handler.
Consistent == ForegroundOK(srv) /\ AttachmentsOK(srv) /\ SizesOK(srv)

\* What a client will have been sent when its queue is empty.
Newest(c) ==
    LET w == srv.wires[c]
    IN  IF w.slot # None THEN w.slot.frame ELSE w.shown

\* A client that has been told to leave or has closed: its disconnection is
\* still to be handled and will render for all others.
Leaving(c) ==
    users[c] = "shut" \/ (c \in DOMAIN srv.conns /\ ~HasWriter(srv, c))

\* No update is forgotten: a client that is not on its way to the current
\* screen is due for a render, be it requested, to be requested by the thread
\* that has changed the screen, or deferred until its writer reports that its
\* slot is free; and what it is sent fits what it shows (send_retained_frame_to_client,
\* render_and_stream, ClientWriterDrained).
NothingForgotten ==
    \A c \in Targets(srv) : users[c] = "open" =>
        /\ ~srv.wires[c].garbled
        /\ \/ Newest(c) = FrameOf(srv, c)
           \/ srv.full \/ srv.sources # {} \/ written # {}
           \/ srv.conns[c].deferred /\ (srv.wires[c].slot # None \/ srv.drained[c] > 0)
           \/ \E d \in Ids : Leaving(d)
=============================================================================
