---------------------------- MODULE ClientsProofs ----------------------------
(***************************************************************************)
(* Proofs about Clients for any clients, terminals and bounds.             *)
(*                                                                         *)
(* The operators on the server are compositions on one record: a lemma     *)
(* per operator says what it leaves of each field (...Fields), and a       *)
(* relation sums up what a group of them does: Removes takes clients away  *)
(* and gives the panes their size again, Pass is what a render does to     *)
(* some clients, Tame is a handler that sends no frame.  The loops over    *)
(* clients are functions on 0 .. n; LeastNumber carries the induction.     *)
(*                                                                         *)
(* Foreground, attachments and sizes are inductive with the order of       *)
(* activity (Sound), but not in the middle of a handler: there a terminal  *)
(* that lost its owner may still have the old size (Nearly).  That no      *)
(* update is forgotten needs three more facts: the last frame the server   *)
(* has on record for a client is the one its queue leads to (WiresOK); a   *)
(* writer that failed has a client that is leaving (UsersOK); and the      *)
(* frame a client is on its way to is right but for rows that are marked   *)
(* dirty and whose render is requested or about to be (FreshOK), which is  *)
(* what a retained update patches.                                         *)
(***************************************************************************)
EXTENDS Clients, SequenceTheorems, FiniteSetTheorems, WellFoundedInduction, TLAPS

Terminals == setup.terminals

\* Frames and messages of this instance.
Screen == {f \in Frame : DOMAIN f.parts \subseteq {Chrome} \cup Terminals}
Letter == [frame : Screen, base : Screen \cup {None}]

Connection ==
    [mode : {"app", "pending", "attach", "observe"}, terminal : Terminals \cup {None},
     size : Nat, writer : BOOLEAN, deferred : BOOLEAN, last : Screen \cup {None}, repaint : BOOLEAN]

Wire ==
    [alive : BOOLEAN, slot : Letter \cup {None}, shown : Screen \cup {None}, garbled : BOOLEAN]

Connections == UNION {[C -> Connection] : C \in SUBSET Ids}

Server ==
    [conns : Connections, recent : Seq(Ids),
     fg : Ids \cup {None}, size : Nat,
     owners : [Terminals -> Ids \cup {None}], locks : SUBSET Terminals,
     live : SUBSET Terminals, reads : SUBSET Terminals,
     sizes : [Terminals -> Nat], dirty : [Terminals -> {"Clean", "Rows", "All"}],
     full : BOOLEAN, sources : SUBSET Terminals, drained : [Ids -> Nat], wires : [Ids -> Wire]]

\* The values of the variables.
Typed ==
    /\ setup \in Setups
    /\ srv \in Server
    /\ users \in [Ids -> {"out", "open", "shut", "done"}]
    /\ content \in [{Chrome} \cup Terminals -> Nat]
    /\ written \in SUBSET Terminals
    /\ left \in [outputs : Nat, events : Nat, terminals : Nat]

\* Each element of the sequence occurs once.
Once(s) == \A i, j \in DOMAIN s : s[i] = s[j] => i = j

\* The connections in the order of their activity; who shows a terminal names
\* it, and who has no writer any more is an app client.
ConnectionsOK(s) ==
    /\ ToSet(s.recent) = DOMAIN s.conns
    /\ Once(s.recent)
    /\ \A c \in DOMAIN s.conns :
          /\ s.conns[c].mode \in {"attach", "observe"} <=> s.conns[c].terminal # None
          /\ ~s.conns[c].writer => s.conns[c].mode = "app"

\* The client at the other end: what it has before it connects and after it
\* is gone, and what the server knows of what it shows.
UsersOK(s) ==
    \A c \in Ids :
        /\ users[c] \in {"out", "done"} => c \notin DOMAIN s.conns /\ s.wires[c] = Unused
        /\ ~s.wires[c].alive => users[c] = "shut"

\* What the queue of wire w leads to (Newest).
Coming(w) == IF w.slot # None THEN w.slot.frame ELSE w.shown

WireOK(w) == ~w.garbled /\ (w.slot # None => w.slot.base \in {None, w.shown})

WiresOK(s) ==
    \A c \in Ids : users[c] = "open" =>
        /\ WireOK(s.wires[c])
        /\ c \in DOMAIN s.conns => s.conns[c].last \in {None, Coming(s.wires[c])}

\* The frame shows part p as it is.
Right(s, frame, p) == frame.parts[p] = Part(s, p)

\* The frame is the one of the client but for rows of terminals that are marked
\* as dirty and for which a render is requested or about to be.
Fresh(s, c, frame) ==
    /\ frame # None /\ frame.size = s.conns[c].size /\ DOMAIN frame.parts = Shows(s, c)
    /\ \A p \in Shows(s, c) :
          Right(s, frame, p) \/ (p \in Terminals /\ s.dirty[p] # "Clean" /\ p \in s.sources \cup written)

Waits(s, c) == s.conns[c].deferred /\ (s.wires[c].slot # None \/ s.drained[c] > 0)

\* Without a request for a full render, and unless some client is leaving, every
\* client is on its way to a fresh frame or waits for its writer.
FreshOK ==
    ~srv.full /\ (\A d \in Ids : ~Leaving(d)) =>
        \A c \in Targets(srv) : Waits(srv, c) \/ Fresh(srv, c, Coming(srv.wires[c]))

\* What holds of the server after every handler.
Sound(s) ==
    s \in Server /\ ConnectionsOK(s) /\ ForegroundOK(s) /\ AttachmentsOK(s) /\ SizesOK(s)

IInv == Typed /\ Sound(srv) /\ UsersOK(srv) /\ WiresOK(srv) /\ FreshOK

-----------------------------------------------------------------------------
(* Numbers and sequences.                                                  *)

\* A set of naturals that is not empty has a least element.
LEMMA LeastNumber ==
    ASSUME NEW N, N \subseteq Nat, N # {}
    PROVE  \E n \in N : \A m \in N : n <= m
<1> DEFINE R == OpToRel(<, Nat)
<1>1. IsWellFoundedOn(R, Nat)
  BY NatLessThanWellFounded
<1> HIDE DEF R
<1>2. PICK n \in N : \A m \in N : ~(<<m, n>> \in R)
  BY <1>1, WFMin
<1>3. \A m \in N : ~(m < n)
  BY <1>2 DEF R, OpToRel
<1>4. QED
  BY <1>3

\* A set of positions that is not empty has a first and a last one.
LEMMA FirstPosition ==
    ASSUME NEW n \in Nat, NEW P, P \subseteq 1 .. n, P # {}
    PROVE  Min(P) \in P /\ \A k \in P : Min(P) <= k
<1>1. P \subseteq Nat
  OBVIOUS
<1>2. \E i \in P : \A k \in P : i <= k
  BY <1>1, LeastNumber
<1>3. QED
  BY <1>2 DEF Min

LEMMA LastPosition ==
    ASSUME NEW n \in Nat, NEW P, P \subseteq 1 .. n, P # {}
    PROVE  Max(P) \in P /\ \A k \in P : Max(P) >= k
<1> DEFINE Q == {m \in Nat : n - m \in P}
<1>1. Q # {}
  <2>1. PICK k \in P : TRUE
    OBVIOUS
  <2>2. n - k \in Q
    OBVIOUS
  <2>3. QED
    BY <2>2
<1>2. PICK m \in Q : \A k \in Q : m <= k
  BY <1>1, LeastNumber
<1>3. \A k \in P : n - m >= k
  <2>1. SUFFICES ASSUME NEW k \in P PROVE n - m >= k
    OBVIOUS
  <2>2. n - k \in Q
    OBVIOUS
  <2>3. QED
    BY <1>2, <2>2
<1>4. n - m \in P
  OBVIOUS
<1>5. QED
  BY <1>3, <1>4 DEF Max

\* RemoveFirst takes an element out of such a sequence and keeps the others.
LEMMA RemoveFirstOnce ==
    ASSUME NEW T, NEW s \in Seq(T), Once(s), NEW c
    PROVE  /\ RemoveFirst(s, c) \in Seq(T) /\ Once(RemoveFirst(s, c))
           /\ ToSet(RemoveFirst(s, c)) = ToSet(s) \ {c}
<1>1. CASE \A i \in 1 .. Len(s) : s[i] # c
  <2>1. RemoveFirst(s, c) = s
    BY <1>1 DEF RemoveFirst
  <2>2. QED
    BY <1>1, <2>1 DEF ToSet
<1>2. CASE \E i \in 1 .. Len(s) : s[i] = c
  <2> DEFINE P == {i \in 1 .. Len(s) : s[i] = c}
             p == Min(P)
             a == SubSeq(s, 1, p - 1)
             b == SubSeq(s, p + 1, Len(s))
             r == a \o b
  <2>1. p \in 1 .. Len(s) /\ s[p] = c
    <3>1. P # {} /\ P \subseteq 1 .. Len(s) /\ Len(s) \in Nat
      BY <1>2
    <3>2. Min(P) \in P
      BY <3>1, FirstPosition
    <3>3. QED
      BY <3>2
  <2>2. RemoveFirst(s, c) = r
    BY <1>2 DEF RemoveFirst, RemoveAt, SelectInSeq
  <2> HIDE DEF p
  <2>a. a \in Seq(T) /\ Len(a) = p - 1 /\ \A i \in 1 .. p - 1 : a[i] = s[i]
    BY <2>1, SubSeqProperties
  <2>b. b \in Seq(T) /\ Len(b) = Len(s) - p /\ \A i \in 1 .. Len(s) - p : b[i] = s[i + p]
    BY <2>1, SubSeqProperties
  <2> HIDE DEF a, b
  <2>3. r \in Seq(T) /\ Len(r) = Len(s) - 1
    BY <2>1, <2>a, <2>b
  <2>4. \A i \in 1 .. Len(r) : r[i] = IF i < p THEN s[i] ELSE s[i + 1]
    BY <2>1, <2>3, <2>a, <2>b, ConcatProperties
  <2> HIDE DEF r
  <2>5. Once(r)
    <3>1. SUFFICES ASSUME NEW i \in 1 .. Len(r), NEW j \in 1 .. Len(r), r[i] = r[j] PROVE i = j
      BY <2>3 DEF Once
    <3>2. \A k \in 1 .. Len(r) : k \in 1 .. Len(s) /\ k + 1 \in 1 .. Len(s)
      BY <2>1, <2>3
    <3>3. \A k, l \in 1 .. Len(s) : s[k] = s[l] => k = l
      BY DEF Once
    <3>4. CASE i < p /\ j < p
      BY <2>4, <3>1, <3>2, <3>3, <3>4
    <3>5. CASE ~(i < p) /\ ~(j < p)
      <4>1. i + 1 = j + 1
        BY <2>4, <3>1, <3>2, <3>3, <3>5
      <4>2. QED
        BY <3>1, <4>1
    <3>6. CASE i < p /\ ~(j < p)
      <4>1. i = j + 1
        BY <2>4, <3>1, <3>2, <3>3, <3>6
      <4>2. QED
        BY <2>1, <3>1, <3>6, <4>1
    <3>7. CASE ~(i < p) /\ j < p
      <4>1. i + 1 = j
        BY <2>4, <3>1, <3>2, <3>3, <3>7
      <4>2. QED
        BY <2>1, <3>1, <3>7, <4>1
    <3>8. QED
      BY <3>4, <3>5, <3>6, <3>7
  <2>6. \A i \in 1 .. Len(s) : i # p => \E k \in 1 .. Len(r) : r[k] = s[i]
    <3>1. SUFFICES ASSUME NEW i \in 1 .. Len(s), i # p PROVE \E k \in 1 .. Len(r) : r[k] = s[i]
      OBVIOUS
    <3>2. CASE i < p
      BY <2>1, <2>3, <2>4, <3>2
    <3>3. CASE i > p
      <4>1. i - 1 \in 1 .. Len(r) /\ r[i - 1] = s[i]
        BY <2>1, <2>3, <2>4, <3>3
      <4>2. QED
        BY <4>1
    <3>4. QED
      BY <2>1, <3>1, <3>2, <3>3
  <2>7. ToSet(r) \subseteq ToSet(s) \ {c}
    <3>1. SUFFICES ASSUME NEW i \in 1 .. Len(r) PROVE r[i] \in ToSet(s) /\ r[i] # c
      BY <2>3 DEF ToSet
    <3>2. \A k \in 1 .. Len(s) : s[k] \in ToSet(s) /\ (s[k] = c => k = p)
      BY <2>1 DEF ToSet, Once
    <3>3. CASE i < p
      BY <2>1, <2>3, <2>4, <3>1, <3>2, <3>3
    <3>4. CASE ~(i < p)
      <4>1. i + 1 \in 1 .. Len(s) /\ i + 1 # p /\ r[i] = s[i + 1]
        BY <2>1, <2>3, <2>4, <3>1, <3>4
      <4>2. QED
        BY <3>2, <4>1
    <3>5. QED
      BY <3>3, <3>4
  <2>8. ToSet(s) \ {c} \subseteq ToSet(r)
    <3>1. SUFFICES ASSUME NEW i \in 1 .. Len(s), s[i] # c PROVE s[i] \in ToSet(r)
      BY DEF ToSet
    <3>2. PICK k \in 1 .. Len(r) : r[k] = s[i]
      BY <2>1, <2>6, <3>1
    <3>3. QED
      BY <2>3, <3>2 DEF ToSet
  <2>9. QED
    BY <2>2, <2>3, <2>5, <2>7, <2>8
<1>3. QED
  BY <1>1, <1>2

LEMMA AppendOnce ==
    ASSUME NEW T, NEW s \in Seq(T), Once(s), NEW c \in T, c \notin ToSet(s)
    PROVE  /\ Append(s, c) \in Seq(T) /\ Once(Append(s, c))
           /\ ToSet(Append(s, c)) = ToSet(s) \cup {c}
<1>1. Append(s, c) \in Seq(T) /\ Len(Append(s, c)) = Len(s) + 1
  OBVIOUS
<1>2. \A i \in 1 .. Len(s) : Append(s, c)[i] = s[i]
  OBVIOUS
<1>3. Append(s, c)[Len(s) + 1] = c
  OBVIOUS
<1>4. Once(Append(s, c))
  BY <1>1, <1>2, <1>3 DEF Once, ToSet
<1>5. ToSet(Append(s, c)) = ToSet(s) \cup {c}
  BY <1>1, <1>2, <1>3 DEF ToSet
<1>6. QED
  BY <1>1, <1>4, <1>5

-----------------------------------------------------------------------------
(* The values.                                                             *)

LEMMA ConnectionsDef ==
    ASSUME NEW f
    PROVE  f \in Connections <=> DOMAIN f \subseteq Ids /\ f \in [DOMAIN f -> Connection]
BY DEF Connections

\* What is known of the instance.
LEMMA SetupOK ==
    ASSUME setup \in Setups
    PROVE  /\ Ids = 1 .. Len(setup.kinds) /\ Len(setup.kinds) \in Nat
           /\ setup.first \in [Ids -> Nat] /\ setup.sizes \subseteq Nat
           /\ setup.kinds \in [Ids -> {"app", "attach", "observe"}]
           /\ Chrome \notin Terminals /\ IsFiniteSet(Terminals)
           /\ {Chrome} \cup Terminals \subseteq Parts
           /\ None \notin Ids /\ None \notin Terminals /\ None \notin Nat
           /\ None \notin Frame /\ None \notin Message
<1>1. /\ setup.kinds \in Seq({"app", "attach", "observe"})
      /\ setup.first \in [DOMAIN setup.kinds -> Nat] /\ setup.sizes \subseteq Nat
      /\ Chrome \notin Terminals /\ IsFiniteSet(Terminals)
  BY ClientsAssumption DEF Chrome, Terminals
<1>2. Ids = 1 .. Len(setup.kinds) /\ Len(setup.kinds) \in Nat
      /\ setup.kinds \in [Ids -> {"app", "attach", "observe"}]
  BY <1>1 DEF Ids
<1>3. {Chrome} \cup Terminals \subseteq Parts
  BY DEF Parts, Terminals
<1>4. QED
  BY <1>1, <1>2, <1>3, NoneAssumption DEF Ids

\* A connection is a function of the fields.
LEMMA ConnectionFields ==
    ASSUME NEW s \in Server, NEW c \in DOMAIN s.conns
    PROVE  /\ c \in Ids /\ s.conns[c] \in Connection
           /\ s.conns[c].mode \in {"app", "pending", "attach", "observe"}
           /\ s.conns[c].terminal \in Terminals \cup {None}
           /\ s.conns[c].size \in Nat /\ s.conns[c].writer \in BOOLEAN
           /\ s.conns[c].deferred \in BOOLEAN /\ s.conns[c].repaint \in BOOLEAN
           /\ s.conns[c].last \in Screen \cup {None}
<1>1. s.conns \in Connections
  BY DEF Server
<1>2. c \in Ids /\ s.conns[c] \in Connection
  BY <1>1, ConnectionsDef
<1>3. QED
  BY <1>2 DEF Connection

-----------------------------------------------------------------------------
(* The operators on the server, field by field.                            *)

\* What a change leaves alone.
SameTerminals(s, x) ==
    x.owners = s.owners /\ x.locks = s.locks /\ x.live = s.live /\ x.reads = s.reads
SameScreens(s, x) == x.sizes = s.sizes /\ x.dirty = s.dirty
SameRest(s, x) == x.full = s.full /\ x.sources = s.sources /\ x.drained = s.drained /\ x.wires = s.wires

LEMMA TouchFields ==
    ASSUME NEW s \in Server, Once(s.recent), NEW c \in Ids
    PROVE  LET x == Touch(s, c)
           IN  /\ x \in Server /\ x.conns = s.conns /\ x.fg = s.fg /\ x.size = s.size
               /\ SameTerminals(s, x) /\ SameScreens(s, x) /\ SameRest(s, x)
               /\ Once(x.recent) /\ ToSet(x.recent) = ToSet(s.recent) \cup {c}
<1>1. s.recent \in Seq(Ids)
  BY DEF Server
<1> DEFINE r == RemoveFirst(s.recent, c)
<1>2. r \in Seq(Ids) /\ Once(r) /\ ToSet(r) = ToSet(s.recent) \ {c}
  BY <1>1, RemoveFirstOnce
<1> HIDE DEF r
<1>3. /\ Append(r, c) \in Seq(Ids) /\ Once(Append(r, c))
      /\ ToSet(Append(r, c)) = ToSet(r) \cup {c}
  BY <1>2, AppendOnce
<1>4. Touch(s, c) = [s EXCEPT !.recent = Append(r, c)]
  BY DEF Touch, r
<1>5. Touch(s, c).recent = Append(r, c)
  BY <1>4 DEF Server
<1>6. Touch(s, c) \in Server
  BY <1>3, <1>4 DEF Server
<1>7. QED
  BY <1>2, <1>3, <1>4, <1>5, <1>6 DEF Server, SameTerminals, SameScreens, SameRest

\* The latest app client is one of the app clients, if there is any.
LEMMA LatestApp ==
    ASSUME NEW s \in Server, ConnectionsOK(s)
    PROVE  IF \E c \in DOMAIN s.conns : IsApp(s, c)
           THEN LatestAppClient(s) \in DOMAIN s.conns /\ IsApp(s, LatestAppClient(s))
           ELSE LatestAppClient(s) = None
<1> DEFINE P == {i \in 1 .. Len(s.recent) : IsApp(s, s.recent[i])}
<1>1. s.recent \in Seq(Ids) /\ ToSet(s.recent) = DOMAIN s.conns
  BY DEF Server, ConnectionsOK
<1>2. LatestAppClient(s) = IF P = {} THEN None ELSE s.recent[Max(P)]
  <2>1. ASSUME P # {} PROVE Max(P) \in P
    <3>1. P \subseteq 1 .. Len(s.recent) /\ Len(s.recent) \in Nat
      BY <1>1
    <3>2. QED
      BY <2>1, <3>1, LastPosition
  <2>2. QED
    BY <2>1 DEF LatestAppClient, SelectLastInSeq
<1>3. CASE P = {}
  BY <1>1, <1>2, <1>3 DEF ToSet
<1>4. CASE P # {}
  <2>1. P \subseteq 1 .. Len(s.recent) /\ Len(s.recent) \in Nat
    BY <1>1
  <2>2. Max(P) \in P
    BY <1>4, <2>1, LastPosition
  <2>3. LatestAppClient(s) = s.recent[Max(P)] /\ IsApp(s, s.recent[Max(P)])
    BY <1>2, <1>4, <2>2
  <2>4. QED
    BY <2>3 DEF IsApp
<1>5. QED
  BY <1>3, <1>4

LEMMA SyncFields ==
    ASSUME setup \in Setups, NEW s \in Server
    PROVE  LET x == SyncForeground(s)
           IN  /\ x \in Server /\ x.conns = s.conns /\ x.recent = s.recent
               /\ SameTerminals(s, x) /\ SameScreens(s, x) /\ SameRest(s, x)
               /\ IF s.fg \in DOMAIN s.conns
                  THEN x.fg = s.fg /\ x.size = s.conns[s.fg].size
                  ELSE x.fg = None /\ x.size = 0
<1> DEFINE fg == IF s.fg \in DOMAIN s.conns THEN s.fg ELSE None
           size == IF s.fg \in DOMAIN s.conns THEN s.conns[s.fg].size ELSE 0
           x == [s EXCEPT !.fg = fg, !.size = size]
<1>1. fg \in Ids \cup {None} /\ size \in Nat
  BY ConnectionFields
<1>2. SyncForeground(s) = x
  <2>1. s.fg \in DOMAIN s.conns => [s EXCEPT !.size = size] = x
    BY DEF Server
  <2>2. QED
    BY <2>1 DEF SyncForeground
<1> HIDE DEF fg, size
<1>3. x \in Server /\ x.fg = fg /\ x.size = size
  BY <1>1 DEF Server
<1>4. x.conns = s.conns /\ x.recent = s.recent
      /\ SameTerminals(s, x) /\ SameScreens(s, x) /\ SameRest(s, x)
  BY DEF Server, SameTerminals, SameScreens, SameRest
<1>5. QED
  BY <1>2, <1>3, <1>4 DEF fg, size

LEMMA PromoteLatestFields ==
    ASSUME setup \in Setups, NEW s \in Server, ConnectionsOK(s)
    PROVE  LET x == PromoteLatest(s)
           IN  /\ x \in Server /\ x.conns = s.conns /\ x.recent = s.recent
               /\ SameTerminals(s, x) /\ SameScreens(s, x) /\ SameRest(s, x)
               /\ ForegroundOK(x)
<1> DEFINE c == LatestAppClient(s)
           y == [s EXCEPT !.fg = c]
           x == SyncForeground(y)
<1>1. DOMAIN s.conns \subseteq Ids /\ None \notin Ids
  BY ConnectionFields, SetupOK
<1>2. IF \E d \in DOMAIN s.conns : IsApp(s, d) THEN c \in DOMAIN s.conns /\ IsApp(s, c) ELSE c = None
  BY LatestApp
<1> HIDE DEF c
<1>3. /\ y \in Server /\ y.fg = c /\ y.conns = s.conns /\ y.recent = s.recent
      /\ SameTerminals(s, y) /\ SameScreens(s, y) /\ SameRest(s, y)
  BY <1>1, <1>2 DEF Server, SameTerminals, SameScreens, SameRest
<1> HIDE DEF y
<1>4. /\ x \in Server /\ x.conns = y.conns /\ x.recent = y.recent
      /\ SameTerminals(y, x) /\ SameScreens(y, x) /\ SameRest(y, x)
      /\ IF y.fg \in DOMAIN y.conns
         THEN x.fg = y.fg /\ x.size = y.conns[y.fg].size
         ELSE x.fg = None /\ x.size = 0
  BY <1>3, SyncFields
<1> HIDE DEF x
<1>5. ForegroundOK(x)
  BY <1>1, <1>2, <1>3, <1>4 DEF ForegroundOK, IsApp
<1>6. SameTerminals(s, x) /\ SameScreens(s, x) /\ SameRest(s, x)
  BY <1>3, <1>4 DEF SameTerminals, SameScreens, SameRest
<1>7. x = PromoteLatest(s)
  BY DEF PromoteLatest, x, y, c
<1>8. QED
  BY <1>3, <1>4, <1>5, <1>6, <1>7

LEMMA PromoteFields ==
    ASSUME setup \in Setups, NEW s \in Server, ConnectionsOK(s),
           NEW c \in DOMAIN s.conns, IsApp(s, c)
    PROVE  LET x == Promote(s, c)
           IN  /\ x \in Server /\ x.conns = s.conns /\ x.fg = c
               /\ SameTerminals(s, x) /\ SameScreens(s, x) /\ SameRest(s, x)
               /\ ForegroundOK(x) /\ ConnectionsOK(x)
<1> DEFINE z == Touch(s, c)
           y == [z EXCEPT !.fg = c]
           x == SyncForeground(y)
<1>1. c \in Ids /\ DOMAIN s.conns \subseteq Ids /\ None \notin Ids
  BY ConnectionFields, SetupOK
<1>2. /\ z \in Server /\ z.conns = s.conns
      /\ SameTerminals(s, z) /\ SameScreens(s, z) /\ SameRest(s, z)
      /\ Once(z.recent) /\ ToSet(z.recent) = ToSet(s.recent) \cup {c}
  BY <1>1, TouchFields DEF ConnectionsOK
<1> HIDE DEF z
<1>3. /\ y \in Server /\ y.fg = c /\ y.conns = z.conns /\ y.recent = z.recent
      /\ SameTerminals(z, y) /\ SameScreens(z, y) /\ SameRest(z, y)
  BY <1>1, <1>2 DEF Server, SameTerminals, SameScreens, SameRest
<1> HIDE DEF y
<1>4. /\ x \in Server /\ x.conns = y.conns /\ x.recent = y.recent
      /\ SameTerminals(y, x) /\ SameScreens(y, x) /\ SameRest(y, x)
      /\ x.fg = c /\ x.size = y.conns[c].size
  BY <1>2, <1>3, SyncFields
<1> HIDE DEF x
<1>5. ForegroundOK(x)
  BY <1>1, <1>2, <1>3, <1>4 DEF ForegroundOK, IsApp
<1>6. SameTerminals(s, x) /\ SameScreens(s, x) /\ SameRest(s, x)
  BY <1>2, <1>3, <1>4 DEF SameTerminals, SameScreens, SameRest
<1>7. ConnectionsOK(x)
  BY <1>2, <1>3, <1>4 DEF ConnectionsOK
<1>8. x = Promote(s, c)
  BY DEF Promote, x, y, z
<1>9. QED
  BY <1>2, <1>3, <1>4, <1>5, <1>6, <1>7, <1>8

LEMMA ResizeTerminalsFields ==
    ASSUME NEW s \in Server, NEW ts, NEW size \in Nat
    PROVE  LET x == ResizeTerminals(s, ts, size)
           IN  /\ x \in Server /\ x.conns = s.conns /\ x.recent = s.recent /\ x.fg = s.fg /\ x.size = s.size
               /\ SameTerminals(s, x) /\ SameRest(s, x)
               /\ \A t \in Terminals :
                     /\ x.sizes[t] = IF t \in ts THEN size ELSE s.sizes[t]
                     /\ x.dirty[t] = IF t \in ts /\ s.sizes[t] # size THEN "All" ELSE s.dirty[t]
<1> DEFINE sizes == [t \in DOMAIN s.sizes |-> IF t \in ts THEN size ELSE s.sizes[t]]
           dirty == [t \in DOMAIN s.dirty |-> IF t \in ts /\ s.sizes[t] # size THEN "All" ELSE s.dirty[t]]
           x == [s EXCEPT !.sizes = sizes, !.dirty = dirty]
<1>1. /\ s.sizes \in [Terminals -> Nat]
      /\ s.dirty \in [Terminals -> {"Clean", "Rows", "All"}]
  BY DEF Server
<1>2. /\ sizes \in [Terminals -> Nat]
      /\ dirty \in [Terminals -> {"Clean", "Rows", "All"}]
      /\ \A t \in Terminals :
            /\ sizes[t] = IF t \in ts THEN size ELSE s.sizes[t]
            /\ dirty[t] = IF t \in ts /\ s.sizes[t] # size THEN "All" ELSE s.dirty[t]
  BY <1>1
<1>3. x = ResizeTerminals(s, ts, size)
  BY DEF ResizeTerminals
<1> HIDE DEF sizes, dirty
<1>4. /\ x \in Server /\ x.conns = s.conns /\ x.recent = s.recent /\ x.fg = s.fg /\ x.size = s.size
      /\ SameTerminals(s, x) /\ SameRest(s, x) /\ x.sizes = sizes /\ x.dirty = dirty
  BY <1>2 DEF Server, SameTerminals, SameRest
<1>5. QED
  BY <1>2, <1>3, <1>4

\* The connection is the same but for the frame it compares with.
SameClient(k, l) ==
    /\ l.mode = k.mode /\ l.terminal = k.terminal /\ l.size = k.size
    /\ l.writer = k.writer /\ l.deferred = k.deferred /\ l.last \in {k.last, None}

\* Connections of s are gone, the others are the same.
Reduced(s, x) ==
    /\ DOMAIN x.conns \subseteq DOMAIN s.conns
    /\ \A c \in DOMAIN x.conns : SameClient(s.conns[c], x.conns[c])

LEMMA ReducedTransitive ==
    ASSUME NEW s, NEW x, NEW y, Reduced(s, x), Reduced(x, y)
    PROVE  Reduced(s, y)
BY DEF Reduced, SameClient

LEMMA RepaintFields ==
    ASSUME NEW c, NEW k \in Connection
    PROVE  RequestRepaint(c, k) \in Connection /\ SameClient(k, RequestRepaint(c, k))
BY DEF RequestRepaint, Connection, SameClient

LEMMA ResizeSharedFields ==
    ASSUME setup \in Setups, NEW s \in Server
    PROVE  LET x == ResizeShared(s)
           IN  /\ x \in Server /\ x.recent = s.recent /\ x.fg = s.fg /\ x.size = s.size
               /\ SameTerminals(s, x) /\ SameRest(s, x)
               /\ Reduced(s, x) /\ DOMAIN x.conns = DOMAIN s.conns
               /\ \A t \in Terminals :
                     IF s.fg \in DOMAIN s.conns /\ t \in s.live \ s.locks
                     THEN /\ x.sizes[t] = s.size
                          /\ s.sizes[t] = s.size => x.dirty[t] = s.dirty[t]
                     ELSE x.sizes[t] = s.sizes[t] /\ x.dirty[t] = s.dirty[t]
<1>1. CASE s.fg \notin DOMAIN s.conns
  <2>1. ResizeShared(s) = s
    BY <1>1 DEF ResizeShared
  <2>2. QED
    BY <1>1, <2>1 DEF SameTerminals, SameRest, Reduced, SameClient
<1>2. CASE s.fg \in DOMAIN s.conns
  <2> DEFINE ts == s.live \ s.locks
             y == ResizeTerminals(s, ts, s.size)
             conns == [c \in DOMAIN y.conns |-> RequestRepaint(c, y.conns[c])]
             x == [y EXCEPT !.conns = conns]
  <2>1. s.size \in Nat
    BY DEF Server
  <2>2. /\ y \in Server /\ y.conns = s.conns /\ y.recent = s.recent /\ y.fg = s.fg /\ y.size = s.size
        /\ SameTerminals(s, y) /\ SameRest(s, y)
        /\ \A t \in Terminals :
              /\ y.sizes[t] = IF t \in ts THEN s.size ELSE s.sizes[t]
              /\ y.dirty[t] = IF t \in ts /\ s.sizes[t] # s.size THEN "All" ELSE s.dirty[t]
    BY <2>1, ResizeTerminalsFields
  <2>3. x = ResizeShared(s)
    BY <1>2 DEF ResizeShared
  <2> HIDE DEF y
  <2>4. /\ DOMAIN conns = DOMAIN s.conns
        /\ \A c \in DOMAIN s.conns : conns[c] \in Connection /\ SameClient(s.conns[c], conns[c])
    BY <2>2, ConnectionFields, RepaintFields
  <2>5. conns \in Connections
    BY <2>4, ConnectionsDef, ConnectionFields
  <2> HIDE DEF conns
  <2>6. /\ x \in Server /\ x.conns = conns /\ x.recent = y.recent /\ x.fg = y.fg /\ x.size = y.size
        /\ SameTerminals(y, x) /\ SameScreens(y, x) /\ SameRest(y, x)
    BY <2>2, <2>5 DEF Server, SameTerminals, SameScreens, SameRest
  <2> HIDE DEF x
  <2>7. Reduced(s, x) /\ DOMAIN x.conns = DOMAIN s.conns
    BY <2>4, <2>6 DEF Reduced
  <2>8. SameTerminals(s, x) /\ SameRest(s, x)
    BY <2>2, <2>6 DEF SameTerminals, SameRest
  <2>9. \A t \in Terminals :
           IF t \in ts THEN x.sizes[t] = s.size /\ (s.sizes[t] = s.size => x.dirty[t] = s.dirty[t])
           ELSE x.sizes[t] = s.sizes[t] /\ x.dirty[t] = s.dirty[t]
    BY <2>2, <2>6 DEF SameScreens
  <2>10. QED
    BY <1>2, <2>2, <2>3, <2>6, <2>7, <2>8, <2>9
<1>3. QED
  BY <1>1, <1>2

-----------------------------------------------------------------------------
(* What the operators keep.                                                *)

\* Attached terminals have the size of their client.
OwnedSizesOK(s) ==
    \A t \in s.live : s.owners[t] # None => s.sizes[t] = s.conns[s.owners[t]].size

\* Sound but for the sizes of the shared terminals.
Nearly(s) ==
    s \in Server /\ ConnectionsOK(s) /\ ForegroundOK(s) /\ AttachmentsOK(s) /\ OwnedSizesOK(s)

LEMMA NearlySound ==
    ASSUME NEW s
    PROVE  Sound(s) <=> Nearly(s) /\ SizesOK(s)
BY DEF Sound, Nearly, SizesOK, OwnedSizesOK

\* A shared resize makes the sizes right that may be wrong.
LEMMA ResizeSharedSound ==
    ASSUME setup \in Setups, NEW s, Nearly(s)
    PROVE  Sound(ResizeShared(s))
<1> DEFINE x == ResizeShared(s)
<1> USE DEF Nearly
<1>1. /\ x \in Server /\ x.recent = s.recent /\ x.fg = s.fg /\ x.size = s.size
      /\ SameTerminals(s, x) /\ SameRest(s, x)
      /\ Reduced(s, x) /\ DOMAIN x.conns = DOMAIN s.conns
      /\ \A t \in Terminals :
            IF s.fg \in DOMAIN s.conns /\ t \in s.live \ s.locks
            THEN x.sizes[t] = s.size
            ELSE x.sizes[t] = s.sizes[t]
  BY ResizeSharedFields
<1> HIDE DEF x
<1>2. ConnectionsOK(x)
  BY <1>1 DEF ConnectionsOK, Reduced, SameClient
<1>3. ForegroundOK(x)
  BY <1>1 DEF ForegroundOK, IsApp, Reduced, SameClient
<1>4. AttachmentsOK(x)
  BY <1>1 DEF AttachmentsOK, SameTerminals, Reduced, SameClient
<1>5. SizesOK(x)
  <2>1. SUFFICES ASSUME NEW t \in x.live
                 PROVE  IF x.owners[t] # None THEN x.sizes[t] = x.conns[x.owners[t]].size
                        ELSE x.fg # None => x.sizes[t] = x.size
    BY DEF SizesOK
  <2>2. t \in Terminals /\ t \in s.live /\ x.owners[t] = s.owners[t]
    BY <1>1, <2>1 DEF Server, SameTerminals
  <2>3. CASE s.owners[t] # None
    <3>1. t \in s.locks /\ s.owners[t] \in DOMAIN s.conns
      BY <2>2, <2>3 DEF AttachmentsOK
    <3>2. x.sizes[t] = s.sizes[t] /\ s.sizes[t] = s.conns[s.owners[t]].size
      BY <1>1, <2>2, <2>3, <3>1 DEF OwnedSizesOK
    <3>3. QED
      BY <1>1, <2>2, <2>3, <3>1, <3>2 DEF Reduced, SameClient
  <2>4. CASE s.owners[t] = None
    <3>1. t \notin s.locks
      BY <2>2, <2>4 DEF AttachmentsOK
    <3>2. s.fg # None => s.fg \in DOMAIN s.conns
      BY DEF ForegroundOK, IsApp
    <3>3. QED
      BY <1>1, <2>2, <2>4, <3>1, <3>2
  <2>5. QED
    BY <2>3, <2>4
<1>6. QED
  BY <1>1, <1>2, <1>3, <1>4, <1>5 DEF Sound, x

\* A client, if there is one, that shows a terminal that is gone.
Stale(s, c) ==
    c \in DOMAIN s.conns => s.conns[c].mode # "app" /\ s.conns[c].terminal \notin s.live

\* The server without a client; its terminal may have to be resized.
LEMMA RemoveClientFields ==
    ASSUME setup \in Setups, NEW s, Nearly(s), NEW c
    PROVE  LET x == RemoveClient(s, c)
           IN  /\ x \in Server /\ DOMAIN x.conns = DOMAIN s.conns \ {c}
               /\ \A d \in DOMAIN x.conns : x.conns[d] = s.conns[d]
               /\ x.live = s.live /\ x.reads = s.reads /\ SameScreens(s, x) /\ SameRest(s, x)
               /\ Nearly(x)
               /\ SizesOK(s) /\ (~NeedsSharedResize(s, c) \/ (c \in DOMAIN s.conns /\ Stale(s, c)))
                     => SizesOK(x) /\ x.fg = s.fg /\ x.size = s.size
<1>0. s \in Server /\ ConnectionsOK(s) /\ ForegroundOK(s) /\ AttachmentsOK(s) /\ OwnedSizesOK(s)
  BY DEF Nearly
<1>1. CASE c \notin DOMAIN s.conns
  <2>1. RemoveClient(s, c) = s
    BY <1>1 DEF RemoveClient
  <2>2. QED
    BY <1>0, <1>1, <2>1 DEF SameScreens, SameRest
<1>2. CASE c \in DOMAIN s.conns
  <2> DEFINE t == s.conns[c].terminal
             attached == s.conns[c].mode = "attach"
             conns == [d \in DOMAIN s.conns \ {c} |-> s.conns[d]]
             recent == RemoveFirst(s.recent, c)
             owners == IF attached THEN [s.owners EXCEPT ![t] = None] ELSE s.owners
             locks == IF attached /\ t \in s.live THEN s.locks \ {t} ELSE s.locks
             gone == [s EXCEPT !.conns = conns, !.recent = recent, !.owners = owners, !.locks = locks]
             x == IF s.fg = c THEN PromoteLatest(gone) ELSE gone
  <2>1. x = RemoveClient(s, c)
    BY <1>2 DEF RemoveClient
  <2>2. /\ c \in Ids /\ DOMAIN s.conns \subseteq Ids /\ None \notin Ids
        /\ t \in Terminals \cup {None} /\ None \notin Terminals
    BY <1>0, <1>2, ConnectionFields, SetupOK
  <2>3. conns \in Connections
    BY <1>0, <2>2, ConnectionFields, ConnectionsDef
  <2>4. recent \in Seq(Ids) /\ Once(recent) /\ ToSet(recent) = ToSet(s.recent) \ {c}
    <3>1. s.recent \in Seq(Ids) /\ Once(s.recent)
      BY <1>0 DEF Server, ConnectionsOK
    <3>2. QED
      BY <3>1, RemoveFirstOnce
  <2>5. /\ owners \in [Terminals -> Ids \cup {None}]
        /\ \A u \in Terminals : owners[u] = IF attached /\ u = t THEN None ELSE s.owners[u]
    BY <1>0 DEF Server
  <2>6. locks \in SUBSET Terminals
    BY <1>0 DEF Server
  <2> HIDE DEF recent, owners
  <2>7. /\ gone \in Server /\ gone.conns = conns /\ gone.recent = recent /\ gone.owners = owners
        /\ gone.locks = locks /\ gone.fg = s.fg /\ gone.size = s.size
        /\ gone.live = s.live /\ gone.reads = s.reads /\ SameScreens(s, gone) /\ SameRest(s, gone)
    BY <1>0, <2>3, <2>4, <2>5, <2>6 DEF Server, SameScreens, SameRest
  <2> HIDE DEF gone
  <2>8. ConnectionsOK(gone)
    BY <1>0, <2>4, <2>7 DEF ConnectionsOK
  <2>9. /\ x \in Server /\ x.conns = conns /\ x.recent = recent
        /\ SameTerminals(gone, x) /\ SameScreens(gone, x) /\ SameRest(gone, x)
        /\ s.fg = c => ForegroundOK(x)
        /\ s.fg # c => x = gone
    <3>1. CASE s.fg = c
      BY <2>7, <2>8, <3>1, PromoteLatestFields
    <3>2. CASE s.fg # c
      BY <2>7, <3>2 DEF SameTerminals, SameScreens, SameRest
    <3>3. QED
      BY <3>1, <3>2
  <2> HIDE DEF x
  <2>10. ForegroundOK(x)
    <3>1. CASE s.fg = c
      BY <2>9, <3>1
    <3>2. CASE s.fg # c
      BY <1>0, <2>2, <2>7, <2>9, <3>2 DEF ForegroundOK, IsApp
    <3>3. QED
      BY <3>1, <3>2
  <2>11. /\ x.live = s.live /\ x.reads = s.reads /\ x.owners = owners /\ x.locks = locks
         /\ SameScreens(s, x) /\ SameRest(s, x)
    BY <2>7, <2>9 DEF SameTerminals, SameScreens, SameRest
  <2>12. ConnectionsOK(x)
    BY <2>8, <2>9, <2>7 DEF ConnectionsOK
  <2>13. /\ DOMAIN x.conns = DOMAIN s.conns \ {c}
         /\ \A d \in DOMAIN x.conns : x.conns[d] = s.conns[d]
    BY <2>9
  <2>14. \A u \in s.live : u \in Terminals
    BY <1>0 DEF Server
  <2>15. \A u \in s.live : s.owners[u] = c <=> attached /\ u = t
    BY <1>0, <1>2 DEF AttachmentsOK
  <2>16. AttachmentsOK(x)
    <3>1. SUFFICES ASSUME NEW u \in s.live
                   PROVE  /\ \A d \in DOMAIN x.conns :
                               x.owners[u] = d <=> x.conns[d].mode = "attach" /\ x.conns[d].terminal = u
                          /\ x.owners[u] \in DOMAIN x.conns \cup {None}
                          /\ u \in x.locks <=> x.owners[u] # None
                          /\ u \in x.reads => x.owners[u] = None
      BY <2>11 DEF AttachmentsOK
    <3>2. /\ \A d \in DOMAIN s.conns :
               s.owners[u] = d <=> s.conns[d].mode = "attach" /\ s.conns[d].terminal = u
          /\ s.owners[u] \in DOMAIN s.conns \cup {None}
          /\ u \in s.locks <=> s.owners[u] # None
          /\ u \in s.reads => s.owners[u] = None
      BY <1>0 DEF AttachmentsOK
    <3>3. CASE attached /\ u = t
      <4>1. x.owners[u] = None /\ u \notin x.locks /\ s.owners[u] = c
        BY <2>5, <2>11, <2>14, <2>15, <3>3
      <4>2. QED
        BY <2>2, <2>13, <3>2, <4>1
    <3>4. CASE ~(attached /\ u = t)
      <4>1. x.owners[u] = s.owners[u] /\ (u \in x.locks <=> u \in s.locks) /\ s.owners[u] # c
        BY <2>5, <2>11, <2>14, <2>15, <3>4
      <4>2. QED
        BY <2>11, <2>13, <3>2, <4>1
    <3>5. QED
      BY <3>3, <3>4
  <2>17. OwnedSizesOK(x)
    <3>1. SUFFICES ASSUME NEW u \in s.live, x.owners[u] # None
                   PROVE  x.sizes[u] = x.conns[x.owners[u]].size
      BY <2>11 DEF OwnedSizesOK
    <3>2. x.owners[u] = s.owners[u] /\ s.owners[u] # c
      BY <2>5, <2>11, <2>14, <2>15, <3>1
    <3>3. s.sizes[u] = s.conns[s.owners[u]].size /\ s.owners[u] \in DOMAIN s.conns
      BY <1>0, <3>1, <3>2 DEF OwnedSizesOK, AttachmentsOK
    <3>4. QED
      BY <2>11, <2>13, <3>2, <3>3 DEF SameScreens
  <2>18. ASSUME SizesOK(s), ~NeedsSharedResize(s, c) \/ Stale(s, c)
         PROVE  SizesOK(x) /\ x.fg = s.fg /\ x.size = s.size
    <3>1. s.fg # c /\ (attached => s.fg = None \/ t \notin s.live)
      BY <1>0, <1>2, <2>2, <2>18 DEF NeedsSharedResize, Stale, ForegroundOK, IsApp
    <3>2. x.fg = s.fg /\ x.size = s.size
      BY <2>7, <2>9, <3>1
    <3>3. SUFFICES ASSUME NEW u \in s.live, x.owners[u] = None, x.fg # None
                   PROVE  x.sizes[u] = x.size
      BY <2>11, <2>17, <3>2 DEF SizesOK, OwnedSizesOK
    <3>4. ~(attached /\ u = t)
      BY <3>1, <3>2, <3>3
    <3>5. s.owners[u] = None
      BY <2>5, <2>11, <2>14, <3>3, <3>4
    <3>6. QED
      BY <2>11, <2>18, <3>2, <3>3, <3>5 DEF SizesOK, SameScreens
  <2>19. Nearly(x)
    BY <2>9, <2>10, <2>12, <2>16, <2>17 DEF Nearly
  <2>20. QED
    BY <2>1, <2>9, <2>11, <2>13, <2>18, <2>19
<1>3. QED
  BY <1>1, <1>2

\* A removal leaves the others alone, and the removal of clients that show
\* nothing any more the sizes of the terminals too.
Removes(s, x, C) ==
    /\ Nearly(x)
    /\ SizesOK(s) => SizesOK(x)
    /\ SizesOK(s) /\ (\A c \in C : Stale(s, c)) => x.sizes = s.sizes
    /\ Reduced(s, x) /\ DOMAIN x.conns = DOMAIN s.conns \ C
    /\ x.live = s.live /\ x.reads = s.reads /\ SameRest(s, x)

LEMMA RemovesTransitive ==
    ASSUME NEW s, NEW x, NEW y, NEW C, NEW D, Removes(s, x, C), Removes(x, y, D)
    PROVE  Removes(s, y, C \cup D)
<1>1. Reduced(s, y)
  BY ReducedTransitive DEF Removes
<1>2. DOMAIN y.conns = DOMAIN s.conns \ (C \cup D)
  BY DEF Removes
<1>3. SameRest(s, y)
  BY DEF Removes, SameRest
<1>4. ASSUME SizesOK(s), \A c \in C \cup D : Stale(s, c) PROVE y.sizes = s.sizes
  <2>1. x.sizes = s.sizes /\ SizesOK(x)
    BY <1>4 DEF Removes
  <2>2. \A c \in D : Stale(x, c)
    BY <1>4 DEF Removes, Stale, Reduced, SameClient
  <2>3. QED
    BY <2>1, <2>2 DEF Removes
<1>5. QED
  BY <1>1, <1>2, <1>3, <1>4 DEF Removes

LEMMA RemovesNothing ==
    ASSUME NEW s, Nearly(s)
    PROVE  Removes(s, s, {})
BY DEF Removes, Reduced, SameClient, SameRest

LEMMA RemoveClientRemoves ==
    ASSUME setup \in Setups, NEW s, Nearly(s), NEW c, ~NeedsSharedResize(s, c) \/ ~SizesOK(s)
    PROVE  Removes(s, RemoveClient(s, c), {c})
BY RemoveClientFields DEF Removes, Reduced, SameClient, SameScreens

LEMMA RemoveAndResizeRemoves ==
    ASSUME setup \in Setups, NEW s, Nearly(s), NEW c
    PROVE  Removes(s, RemoveAndResize(s, c), {c})
<1> DEFINE x == RemoveClient(s, c)
           y == ResizeShared(x)
<1>1. CASE NeedsSharedResize(s, c)
  <2>1. /\ Nearly(x) /\ DOMAIN x.conns = DOMAIN s.conns \ {c}
        /\ \A d \in DOMAIN x.conns : x.conns[d] = s.conns[d]
        /\ x.live = s.live /\ x.reads = s.reads /\ SameRest(s, x)
    BY RemoveClientFields
  <2> HIDE DEF x
  <2>2. Nearly(y) /\ SizesOK(y)
    BY <2>1, ResizeSharedSound, NearlySound
  <2>3. /\ y \in Server /\ SameTerminals(x, y) /\ SameRest(x, y)
        /\ Reduced(x, y) /\ DOMAIN y.conns = DOMAIN x.conns
        /\ \A t \in Terminals :
              IF x.fg \in DOMAIN x.conns /\ t \in x.live \ x.locks
              THEN y.sizes[t] = x.size ELSE y.sizes[t] = x.sizes[t]
    BY <2>1, ResizeSharedFields DEF Nearly
  <2> HIDE DEF y
  <2>4. Reduced(s, y)
    BY <2>1, <2>3 DEF Reduced, SameClient
  <2>5. RemoveAndResize(s, c) = y
    BY <1>1 DEF RemoveAndResize, y, x
  <2>6. ASSUME SizesOK(s), Stale(s, c) PROVE y.sizes = s.sizes
    <3>2. SizesOK(x) /\ x.sizes = s.sizes
      <4>1. CASE c \notin DOMAIN s.conns
        BY <2>6, <4>1 DEF RemoveClient, x
      <4>2. CASE c \in DOMAIN s.conns
        BY <2>6, <4>2, RemoveClientFields DEF x, SameScreens
      <4>3. QED
        BY <4>1, <4>2
    <3>3. \A t \in Terminals : y.sizes[t] = x.sizes[t]
      <4>1. SUFFICES ASSUME NEW t \in x.live \ x.locks, x.fg \in DOMAIN x.conns PROVE x.sizes[t] = x.size
        BY <2>3
      <4>2. x.owners[t] = None /\ x.fg # None
        BY <2>1, <4>1, ConnectionFields, SetupOK DEF Nearly, AttachmentsOK
      <4>3. QED
        BY <3>2, <4>1, <4>2 DEF SizesOK
    <3>4. y.sizes \in [Terminals -> Nat] /\ x.sizes \in [Terminals -> Nat]
      BY <2>1, <2>3 DEF Nearly, Server
    <3>5. QED
      BY <3>2, <3>3, <3>4
  <2>7. QED
    BY <2>1, <2>2, <2>3, <2>4, <2>5, <2>6 DEF Removes, SameTerminals, SameRest
<1>2. CASE ~NeedsSharedResize(s, c)
  BY <1>2, RemoveClientRemoves DEF RemoveAndResize
<1>3. QED
  BY <1>1, <1>2

-----------------------------------------------------------------------------
(* Loops.  A loop over n elements is a function of the number of rounds;   *)
(* there is one, as a shortest run that does not exist would extend a      *)
(* shorter one that does.                                                  *)

LEMMA UpTo ==
    ASSUME NEW n \in Nat, NEW G, 0 \in G, \A k \in 0 .. n - 1 : k \in G => k + 1 \in G
    PROVE  \A k \in 0 .. n : k \in G
<1> DEFINE N == {k \in Nat : k <= n /\ k \notin G}
<1>1. ASSUME N # {} PROVE FALSE
  <2>1. PICK k \in N : \A m \in N : k <= m
    BY <1>1, LeastNumber
  <2>2. k # 0 /\ k - 1 \in 0 .. n - 1
    BY <2>1
  <2>3. k - 1 \notin N
    BY <2>1, <2>2
  <2>4. k - 1 \in G
    BY <2>2, <2>3
  <2>5. k - 1 + 1 \in G
    BY <2>2, <2>4
  <2>6. QED
    BY <2>1, <2>2, <2>5
<1>2. QED
  BY <1>1

LEMMA RemoveAllSteps ==
    ASSUME NEW s, NEW T, NEW cs \in Seq(T)
    PROVE  \E after : /\ after[0] = s
                      /\ \A n \in 1 .. Len(cs) : after[n] = RemoveAndResize(after[n - 1], cs[n])
                      /\ RemoveAll(s, cs) = after[Len(cs)]
<1> DEFINE N == Len(cs)
           Run(f, n) == f[0] = s /\ \A k \in 1 .. n : f[k] = RemoveAndResize(f[k - 1], cs[k])
           Runs(n) == \E f : Run(f, n)
           G == {n \in 0 .. N : Runs(n)}
<1>1. N \in Nat
  OBVIOUS
<1>2. 0 \in G
  <2>1. Run([k \in {0} |-> s], 0)
    OBVIOUS
  <2> HIDE DEF Run
  <2>2. Runs(0)
    BY <2>1
  <2> HIDE DEF Runs
  <2>3. QED
    BY <1>1, <2>2
<1>3. ASSUME NEW n \in 0 .. N - 1, n \in G PROVE n + 1 \in G
  <2>1. PICK f : Run(f, n)
    <3> HIDE DEF Run
    <3>1. QED
      BY <1>3
  <2> DEFINE g == [k \in 0 .. n + 1 |-> IF k = n + 1 THEN RemoveAndResize(f[n], cs[n + 1]) ELSE f[k]]
  <2>2. g[0] = s
    BY <2>1
  <2>3. ASSUME NEW k \in 1 .. n + 1 PROVE g[k] = RemoveAndResize(g[k - 1], cs[k])
    BY <2>1
  <2>4. Run(g, n + 1)
    BY <2>2, <2>3
  <2> HIDE DEF Run, g
  <2>5. Runs(n + 1)
    BY <2>4
  <2> HIDE DEF Runs
  <2>6. QED
    BY <1>1, <2>5
<1>4. N \in G
  <2> HIDE DEF G
  <2>1. \A k \in 0 .. N : k \in G
    BY <1>1, <1>2, <1>3, UpTo
  <2>2. QED
    BY <1>1, <2>1
<1>5. PICK f : Run(f, N)
  <2> HIDE DEF Run
  <2>1. QED
    BY <1>4
<1> DEFINE Eq(g) == g = [n \in 0 .. N |-> IF n = 0 THEN s ELSE RemoveAndResize(g[n - 1], cs[n])]
           h == [n \in 0 .. N |-> f[n]]
           after == CHOOSE g : Eq(g)
<1>6. Eq(h)
  <2>1. SUFFICES ASSUME NEW n \in 0 .. N
                 PROVE  h[n] = IF n = 0 THEN s ELSE RemoveAndResize(h[n - 1], cs[n])
    BY Zenon
  <2>2. CASE n = 0
    BY <1>5, <2>2
  <2>3. CASE n # 0
    BY <1>1, <1>5, <2>3
  <2>4. QED
    BY <2>2, <2>3
<1>7. Eq(after)
  BY <1>6, Zenon
<1>8. RemoveAll(s, cs) = after[N]
  BY DEF RemoveAll
<1> HIDE DEF after
<1>9. after[0] = s
  BY <1>1, <1>7
<1>10. ASSUME NEW n \in 1 .. N PROVE after[n] = RemoveAndResize(after[n - 1], cs[n])
  BY <1>1, <1>7
<1>11. QED
  BY <1>8, <1>9, <1>10

\* RemoveAll removes all of them.
LEMMA RemoveAllRemoves ==
    ASSUME setup \in Setups, NEW s, Nearly(s), NEW T, NEW cs \in Seq(T)
    PROVE  Removes(s, RemoveAll(s, cs), ToSet(cs))
<1>1. PICK after : /\ after[0] = s
                   /\ \A n \in 1 .. Len(cs) : after[n] = RemoveAndResize(after[n - 1], cs[n])
                   /\ RemoveAll(s, cs) = after[Len(cs)]
  BY RemoveAllSteps
<1> DEFINE First(n) == {cs[k] : k \in 1 .. n}
           G == {n \in 0 .. Len(cs) : Removes(s, after[n], First(n))}
<1>2. Len(cs) \in Nat
  OBVIOUS
<1>3. 0 \in G
  <2>1. First(0) = {}
    OBVIOUS
  <2>2. Removes(s, after[0], {})
    BY <1>1, RemovesNothing
  <2> HIDE DEF First
  <2>3. Removes(s, after[0], First(0))
    BY <2>1, <2>2
  <2>4. QED
    BY <1>2, <2>3
<1>4. ASSUME NEW n \in 0 .. Len(cs) - 1, n \in G PROVE n + 1 \in G
  <2>0. Removes(s, after[n], First(n))
    BY <1>4
  <2>1. Removes(s, after[n], First(n)) /\ Nearly(after[n])
    BY <2>0 DEF Removes
  <2>2. after[n + 1] = RemoveAndResize(after[n], cs[n + 1])
    BY <1>1, <1>2
  <2>3. Removes(after[n], after[n + 1], {cs[n + 1]})
    BY <2>1, <2>2, RemoveAndResizeRemoves
  <2>4. First(n + 1) = First(n) \cup {cs[n + 1]}
    OBVIOUS
  <2>5. Removes(s, after[n + 1], First(n + 1))
    BY <2>1, <2>3, <2>4, RemovesTransitive
  <2>6. QED
    BY <1>2, <2>5
<1>5. Len(cs) \in G
  <2> HIDE DEF G
  <2>1. \A k \in 0 .. Len(cs) : k \in G
    BY <1>2, <1>3, <1>4, UpTo
  <2>2. QED
    BY <1>2, <2>1
<1>6. First(Len(cs)) = ToSet(cs)
  BY DEF ToSet
<1>7. QED
  BY <1>1, <1>5, <1>6

-----------------------------------------------------------------------------
(* Frames.                                                                 *)

SameWho(k, l) ==
    l.mode = k.mode /\ l.terminal = k.terminal /\ l.size = k.size /\ l.writer = k.writer

\* Only who shows what, and in which size, matters for what Sound says.
Alike(s, x) ==
    /\ x \in Server /\ x.recent = s.recent /\ x.fg = s.fg /\ x.size = s.size
    /\ SameTerminals(s, x) /\ x.sizes = s.sizes
    /\ DOMAIN x.conns = DOMAIN s.conns
    /\ \A c \in DOMAIN s.conns : SameWho(s.conns[c], x.conns[c])

LEMMA AlikeSound ==
    ASSUME NEW s, NEW x, Sound(s), Alike(s, x)
    PROVE  Sound(x)
<1>1. /\ s \in Server /\ ConnectionsOK(s) /\ ForegroundOK(s) /\ AttachmentsOK(s) /\ SizesOK(s)
  BY DEF Sound
<1>2. /\ x \in Server /\ x.recent = s.recent /\ x.fg = s.fg /\ x.size = s.size
      /\ SameTerminals(s, x) /\ x.sizes = s.sizes
      /\ DOMAIN x.conns = DOMAIN s.conns
      /\ \A c \in DOMAIN s.conns : SameWho(s.conns[c], x.conns[c])
  BY DEF Alike
<1>3. ConnectionsOK(x)
  BY <1>1, <1>2 DEF ConnectionsOK, SameWho
<1>4. ForegroundOK(x)
  BY <1>1, <1>2 DEF ForegroundOK, IsApp, SameWho
<1>5. AttachmentsOK(x)
  BY <1>1, <1>2 DEF AttachmentsOK, SameTerminals, SameWho
<1>6. SizesOK(x)
  BY <1>1, <1>2 DEF SizesOK, AttachmentsOK, SameTerminals, SameWho
<1>7. QED
  BY <1>2, <1>3, <1>4, <1>5, <1>6 DEF Sound

\* A frame and a message are no None.
LEMMA ScreenNotNone ==
    ASSUME setup \in Setups
    PROVE  /\ None \notin Screen /\ None \notin Letter
           /\ \A f \in Screen : \A b \in Screen \cup {None} : [frame |-> f, base |-> b] \in Letter
<1>1. Screen \subseteq Frame
  BY DEF Screen
<1>2. Letter \subseteq Message
  BY <1>1 DEF Letter, Message
<1>3. QED
  BY <1>1, <1>2, SetupOK DEF Letter

\* What a target shows is a frame.
LEMMA FrameOfTyped ==
    ASSUME Typed, NEW s, Sound(s), NEW c \in DOMAIN s.conns, s.conns[c].mode # "pending"
    PROVE  /\ Shows(s, c) \subseteq {Chrome} \cup Terminals
           /\ FrameOf(s, c) \in Screen
<1>1. setup \in Setups /\ content \in [{Chrome} \cup Terminals -> Nat]
  BY DEF Typed
<1>2. s \in Server /\ ConnectionsOK(s)
  BY DEF Sound
<1>3. /\ s.conns[c].size \in Nat /\ s.conns[c].terminal \in Terminals \cup {None}
      /\ s.conns[c].mode \in {"app", "pending", "attach", "observe"}
  BY <1>1, <1>2, ConnectionFields
<1>4. s.live \subseteq Terminals /\ s.sizes \in [Terminals -> Nat]
  BY <1>2 DEF Server
<1>5. s.conns[c].mode # "app" => s.conns[c].terminal \in Terminals
  BY <1>2, <1>3 DEF ConnectionsOK
<1>6. Shows(s, c) \subseteq {Chrome} \cup Terminals
  BY <1>4, <1>5 DEF Shows, IsApp
<1>7. \A p \in Shows(s, c) : Part(s, p) \in [version : Nat, size : Nat]
  BY <1>1, <1>4, <1>6 DEF Part
<1> DEFINE P == Shows(s, c)
           parts == [p \in P |-> Part(s, p)]
<1>8. P \in SUBSET Parts
  BY <1>1, <1>6, SetupOK
<1> HIDE DEF P
<1>9. parts \in [P -> [version : Nat, size : Nat]] /\ DOMAIN parts = P
  BY <1>7 DEF P
<1>10. parts \in UNION {[Q -> [version : Nat, size : Nat]] : Q \in SUBSET Parts}
  BY <1>8, <1>9
<1> HIDE DEF parts
<1>11. [size |-> s.conns[c].size, parts |-> parts] \in Screen
  BY <1>3, <1>6, <1>9, <1>10 DEF Screen, Frame, P
<1>12. QED
  BY <1>6, <1>11 DEF FrameOf, parts, P

\* The frame is underway, or it waits for the slot to be free.
Settled(s, c, frame) ==
    (s.conns[c].deferred /\ s.wires[c].slot # None) \/ Coming(s.wires[c]) = frame

LEMMA WireFields ==
    ASSUME NEW s \in Server, NEW c \in Ids
    PROVE  /\ s.wires[c] \in Wire /\ s.wires[c].alive \in BOOLEAN
           /\ s.wires[c].slot \in Letter \cup {None} /\ s.wires[c].shown \in Screen \cup {None}
           /\ s.wires[c].garbled \in BOOLEAN
<1>1. s.wires[c] \in Wire
  BY DEF Server
<1>2. QED
  BY <1>1 DEF Wire

\* The server with another connection and wire of a client.
Put(s, c, l, v) == [s EXCEPT !.conns[c] = l, !.wires[c] = v]

LEMMA PutFields ==
    ASSUME NEW s \in Server, NEW c \in DOMAIN s.conns,
           NEW l \in Connection, SameWho(s.conns[c], l), NEW v \in Wire
    PROVE  LET x == Put(s, c, l, v)
           IN  /\ Alike(s, x) /\ x.dirty = s.dirty
               /\ x.full = s.full /\ x.sources = s.sources /\ x.drained = s.drained
               /\ \A d \in DOMAIN s.conns : d # c => x.conns[d] = s.conns[d]
               /\ \A d \in Ids : d # c => x.wires[d] = s.wires[d]
               /\ x.conns[c] = l /\ x.wires[c] = v
<1> DEFINE conns == [s.conns EXCEPT ![c] = l]
           wires == [s.wires EXCEPT ![c] = v]
           y == Put(s, c, l, v)
<1>0. c \in Ids /\ s.conns \in Connections /\ s.wires \in [Ids -> Wire]
  BY ConnectionFields DEF Server
<1>1. /\ DOMAIN conns = DOMAIN s.conns /\ conns[c] = l
      /\ \A d \in DOMAIN s.conns : d # c => conns[d] = s.conns[d]
  OBVIOUS
<1>2. conns \in Connections
  <2>1. \A d \in DOMAIN conns : d \in Ids /\ conns[d] \in Connection
    BY <1>1, ConnectionFields
  <2>2. conns \in [DOMAIN conns -> Connection]
    BY <2>1
  <2>3. QED
    BY <2>1, <2>2, ConnectionsDef
<1>3. /\ wires \in [Ids -> Wire] /\ wires[c] = v
      /\ \A d \in Ids : d # c => wires[d] = s.wires[d]
  BY <1>0
<1>4. y = [s EXCEPT !.conns = conns, !.wires = wires]
  BY DEF Put, Server
<1> HIDE DEF conns, wires
<1>5. /\ y \in Server /\ y.conns = conns /\ y.wires = wires
      /\ y.recent = s.recent /\ y.fg = s.fg /\ y.size = s.size
      /\ SameTerminals(s, y) /\ y.sizes = s.sizes /\ y.dirty = s.dirty
      /\ y.full = s.full /\ y.sources = s.sources /\ y.drained = s.drained
  BY <1>2, <1>3, <1>4 DEF Server, SameTerminals
<1> HIDE DEF y
<1>6. \A d \in DOMAIN s.conns : SameWho(s.conns[d], y.conns[d])
  BY <1>1, <1>5 DEF SameWho
<1>7. QED
  BY <1>1, <1>3, <1>5, <1>6 DEF Alike, y

\* An offer concerns its client only.
LEMMA OfferFields ==
    ASSUME setup \in Setups, NEW s \in Server, NEW c \in DOMAIN s.conns, NEW frame \in Screen
    PROVE  LET x == Offer(s, c, frame)
               k == s.conns[c]
               w == s.wires[c]
           IN  /\ Alike(s, x) /\ x.dirty = s.dirty
               /\ x.full = s.full /\ x.sources = s.sources /\ x.drained = s.drained
               /\ \A d \in DOMAIN s.conns : d # c => x.conns[d] = s.conns[d]
               /\ \A d \in Ids : d # c => x.wires[d] = s.wires[d]
               /\ x.wires[c].alive = w.alive /\ x.wires[c].garbled = w.garbled
               /\ x.wires[c].shown = w.shown
               /\ \/ k.last = frame /\ x.conns[c].last = frame /\ x.wires[c] = w
                  \/ /\ x.conns[c].last = k.last /\ x.conns[c].deferred
                     /\ x.wires[c] = w /\ w.slot # None
                  \/ /\ x.conns[c].last = frame /\ w.slot = None
                     /\ \E b \in {None, k.last} : x.wires[c].slot = [frame |-> frame, base |-> b]
<1> DEFINE k == s.conns[c]
           w == s.wires[c]
           x == Offer(s, c, frame)
<1>1. c \in Ids /\ k \in Connection /\ k.last \in Screen \cup {None}
  BY ConnectionFields
<1>2. w \in Wire
  BY <1>1, WireFields
<1>3. s.conns \in Connections /\ s.wires \in [Ids -> Wire]
  BY DEF Server
<1> DEFINE calm == [k EXCEPT !.deferred = FALSE]
           late == [k EXCEPT !.deferred = TRUE]
           new == [k EXCEPT !.deferred = FALSE, !.last = frame, !.repaint = FALSE]
           base == BaseOf(c, k, frame)
           sent == [w EXCEPT !.slot = [frame |-> frame, base |-> base]]
<1>5. /\ calm \in Connection /\ SameWho(k, calm) /\ calm.last = k.last
      /\ late \in Connection /\ SameWho(k, late) /\ late.last = k.last /\ late.deferred
      /\ new \in Connection /\ SameWho(k, new) /\ new.last = frame
  BY <1>1 DEF Connection, SameWho
<1>6. base \in {None, k.last}
  BY DEF BaseOf
<1>7. /\ sent \in Wire /\ sent.alive = w.alive /\ sent.garbled = w.garbled /\ sent.shown = w.shown
      /\ sent.slot = [frame |-> frame, base |-> base]
  <2>1. [frame |-> frame, base |-> base] \in Letter
    BY <1>1, <1>6, ScreenNotNone
  <2> HIDE DEF base
  <2>2. QED
    BY <1>2, <2>1 DEF Wire
<1>8. CASE IsCurrent(c, k, frame)
  <2>1. x = [s EXCEPT !.conns[c].deferred = FALSE]
    BY <1>8 DEF Offer
  <2>2. x = Put(s, c, calm, w)
    BY <1>3, <2>1 DEF Server, Put
  <2> HIDE DEF x, calm
  <2>3. k.last = frame
    BY <1>8 DEF IsCurrent
  <2>4. /\ Alike(s, x) /\ x.dirty = s.dirty
        /\ x.full = s.full /\ x.sources = s.sources /\ x.drained = s.drained
        /\ \A d \in DOMAIN s.conns : d # c => x.conns[d] = s.conns[d]
        /\ \A d \in Ids : d # c => x.wires[d] = s.wires[d]
        /\ x.conns[c] = calm /\ x.wires[c] = w
    BY <1>2, <1>5, <2>2, PutFields
  <2>5. QED
    BY <1>5, <2>3, <2>4 DEF x
<1>9. CASE ~IsCurrent(c, k, frame) /\ w.slot # None
  <2>1. x = [s EXCEPT !.conns[c].deferred = TRUE]
    BY <1>9 DEF Offer
  <2>2. x = Put(s, c, late, w)
    BY <1>3, <2>1 DEF Server, Put
  <2> HIDE DEF x, late
  <2>3. /\ Alike(s, x) /\ x.dirty = s.dirty
        /\ x.full = s.full /\ x.sources = s.sources /\ x.drained = s.drained
        /\ \A d \in DOMAIN s.conns : d # c => x.conns[d] = s.conns[d]
        /\ \A d \in Ids : d # c => x.wires[d] = s.wires[d]
        /\ x.conns[c] = late /\ x.wires[c] = w
    BY <1>2, <1>5, <2>2, PutFields
  <2>4. QED
    BY <1>5, <1>9, <2>3 DEF x
<1>10. CASE ~IsCurrent(c, k, frame) /\ w.slot = None
  <2>1. x = [s EXCEPT !.conns[c].deferred = FALSE, !.conns[c].last = frame,
                      !.conns[c].repaint = FALSE,
                      !.wires[c].slot = [frame |-> frame, base |-> base]]
    BY <1>10 DEF Offer
  <2>2. x = Put(s, c, new, sent)
    <3>1. s.conns[c] \in [DOMAIN k -> {k[i] : i \in DOMAIN k}]
      BY <1>1 DEF Connection
    <3> DEFINE a == [s.conns EXCEPT ![c].deferred = FALSE]
               b == [a EXCEPT ![c].last = frame]
               e == [b EXCEPT ![c].repaint = FALSE]
    <3>2. a = [s.conns EXCEPT ![c] = [k EXCEPT !.deferred = FALSE]]
      OBVIOUS
    <3>3. b = [s.conns EXCEPT ![c] = [k EXCEPT !.deferred = FALSE, !.last = frame]]
      BY <3>2
    <3>4. e = [s.conns EXCEPT ![c] = new]
      BY <3>3
    <3>5. x = [s EXCEPT !.conns = e, !.wires = [s.wires EXCEPT ![c] = sent]]
      BY <2>1 DEF Server
    <3>6. QED
      BY <3>4, <3>5 DEF Server, Put
  <2> HIDE DEF x, new, sent, base
  <2>3. /\ Alike(s, x) /\ x.dirty = s.dirty
        /\ x.full = s.full /\ x.sources = s.sources /\ x.drained = s.drained
        /\ \A d \in DOMAIN s.conns : d # c => x.conns[d] = s.conns[d]
        /\ \A d \in Ids : d # c => x.wires[d] = s.wires[d]
        /\ x.conns[c] = new /\ x.wires[c] = sent
    BY <1>5, <1>7, <2>2, PutFields
  <2>4. QED
    BY <1>5, <1>6, <1>7, <1>10, <2>3 DEF x
<1>11. QED
  BY <1>8, <1>9, <1>10

-----------------------------------------------------------------------------
(* Rendering.                                                              *)

\* A part of a render: clients may be gone, those with a writer only, and
\* frames are offered.
Pass(s, x) ==
    /\ Sound(x) /\ WiresOK(x)
    /\ DOMAIN x.conns \subseteq DOMAIN s.conns
    /\ \A c \in DOMAIN x.conns : SameWho(s.conns[c], x.conns[c])
    /\ \A c \in DOMAIN s.conns \ DOMAIN x.conns : s.conns[c].writer
    /\ x.live = s.live /\ x.full = s.full /\ x.sources = s.sources /\ x.drained = s.drained
    /\ \A c \in Ids :
          /\ x.wires[c].alive = s.wires[c].alive
          /\ c \notin DOMAIN s.conns => x.wires[c] = s.wires[c]

LEMMA PassNothing ==
    ASSUME NEW s, Sound(s), WiresOK(s)
    PROVE  Pass(s, s)
BY DEF Pass, SameWho

LEMMA PassTransitive ==
    ASSUME NEW s, NEW x, NEW y, Pass(s, x), Pass(x, y)
    PROVE  Pass(s, y)
<1>1. /\ Sound(y) /\ WiresOK(y)
      /\ DOMAIN y.conns \subseteq DOMAIN s.conns
      /\ y.live = s.live /\ y.full = s.full /\ y.sources = s.sources /\ y.drained = s.drained
  BY DEF Pass
<1>2. \A c \in DOMAIN y.conns : SameWho(s.conns[c], y.conns[c])
  BY DEF Pass, SameWho
<1>3. \A c \in DOMAIN s.conns \ DOMAIN y.conns : s.conns[c].writer
  BY DEF Pass, SameWho
<1>4. ASSUME NEW c \in Ids
      PROVE  /\ y.wires[c].alive = s.wires[c].alive
             /\ c \notin DOMAIN s.conns => y.wires[c] = s.wires[c]
  BY DEF Pass
<1>5. QED
  BY <1>1, <1>2, <1>3, <1>4 DEF Pass

LEMMA RemovesPass ==
    ASSUME NEW s, Sound(s), WiresOK(s), NEW x, NEW C, Removes(s, x, C),
           \A c \in C \cap DOMAIN s.conns : s.conns[c].writer
    PROVE  Pass(s, x)
<1>1. /\ Nearly(x) /\ SizesOK(x) /\ SameRest(s, x) /\ x.live = s.live
      /\ DOMAIN x.conns = DOMAIN s.conns \ C
      /\ \A c \in DOMAIN x.conns : SameClient(s.conns[c], x.conns[c])
  BY DEF Removes, Sound, Reduced
<1>2. Sound(x)
  BY <1>1, NearlySound
<1>3. \A c \in DOMAIN x.conns : SameWho(s.conns[c], x.conns[c])
  BY <1>1 DEF SameWho, SameClient
<1>4. WiresOK(x)
  BY <1>1 DEF WiresOK, SameRest, SameClient
<1>5. QED
  BY <1>1, <1>2, <1>3, <1>4 DEF Pass, SameRest

\* Rows become clean.
LEMMA CleanPass ==
    ASSUME NEW s, Sound(s), WiresOK(s), NEW P
    PROVE  LET x == [s EXCEPT !.dirty = [t \in DOMAIN @ |-> IF t \in P THEN "Clean" ELSE @[t]]]
           IN  /\ Pass(s, x) /\ x.conns = s.conns /\ x.wires = s.wires /\ x.sizes = s.sizes
               /\ x.live = s.live /\ x.fg = s.fg
<1> DEFINE dirty == [t \in DOMAIN s.dirty |-> IF t \in P THEN "Clean" ELSE s.dirty[t]]
           x == [s EXCEPT !.dirty = dirty]
<1>1. s \in Server
  BY DEF Sound
<1>2. dirty \in [Terminals -> {"Clean", "Rows", "All"}]
  BY <1>1 DEF Server
<1> HIDE DEF dirty
<1>3. /\ x \in Server /\ x.conns = s.conns /\ x.wires = s.wires /\ x.sizes = s.sizes
      /\ x.recent = s.recent /\ x.size = s.size /\ x.live = s.live /\ x.fg = s.fg
      /\ SameTerminals(s, x) /\ SameRest(s, x)
  BY <1>1, <1>2 DEF Server, SameTerminals, SameRest
<1> HIDE DEF x
<1>4. Sound(x)
  BY <1>3, AlikeSound DEF Alike, SameWho
<1>5. WiresOK(x)
  BY <1>3 DEF WiresOK
<1>6. Pass(s, x)
  BY <1>3, <1>4, <1>5 DEF Pass, SameRest, SameWho
<1>7. QED
  BY <1>3, <1>6 DEF x, dirty

\* An offer keeps frames and queue together, and settles its client.
LEMMA OfferPass ==
    ASSUME setup \in Setups, NEW s, Sound(s), WiresOK(s), NEW c \in DOMAIN s.conns, NEW frame \in Screen
    PROVE  LET x == Offer(s, c, frame)
           IN  /\ Pass(s, x) /\ DOMAIN x.conns = DOMAIN s.conns
               /\ x.sizes = s.sizes /\ x.fg = s.fg /\ x.dirty = s.dirty
               /\ \A d \in DOMAIN s.conns : d # c => x.conns[d] = s.conns[d]
               /\ \A d \in Ids : d # c => x.wires[d] = s.wires[d]
               /\ users[c] = "open" => Settled(x, c, frame)
               /\ users[c] = "open" /\ ~x.conns[c].deferred => Coming(x.wires[c]) = frame
<1> DEFINE x == Offer(s, c, frame)
           k == s.conns[c]
           w == s.wires[c]
<1>1. s \in Server /\ c \in Ids
  BY ConnectionFields DEF Sound
<1>2. /\ Alike(s, x) /\ x.dirty = s.dirty
      /\ x.full = s.full /\ x.sources = s.sources /\ x.drained = s.drained
      /\ \A d \in DOMAIN s.conns : d # c => x.conns[d] = s.conns[d]
      /\ \A d \in Ids : d # c => x.wires[d] = s.wires[d]
      /\ x.wires[c].alive = w.alive /\ x.wires[c].garbled = w.garbled
      /\ x.wires[c].shown = w.shown
      /\ \/ k.last = frame /\ x.conns[c].last = frame /\ x.wires[c] = w
         \/ /\ x.conns[c].last = k.last /\ x.conns[c].deferred
            /\ x.wires[c] = w /\ w.slot # None
         \/ /\ x.conns[c].last = frame /\ w.slot = None
            /\ \E b \in {None, k.last} : x.wires[c].slot = [frame |-> frame, base |-> b]
  BY <1>1, OfferFields
<1> HIDE DEF x
<1>3. Sound(x)
  BY <1>2, AlikeSound
<1>4. ASSUME users[c] = "open"
      PROVE  /\ WireOK(x.wires[c]) /\ x.conns[c].last \in {None, Coming(x.wires[c])}
             /\ Settled(x, c, frame)
             /\ ~x.conns[c].deferred => Coming(x.wires[c]) = frame
  <2>1. WireOK(w) /\ k.last \in {None, Coming(w)}
    BY <1>1, <1>4 DEF WiresOK
  <2>2. frame # None /\ k.last \in Screen \cup {None}
    BY <1>1, ScreenNotNone, ConnectionFields
  <2>3. CASE k.last = frame /\ x.conns[c].last = frame /\ x.wires[c] = w
    BY <2>1, <2>2, <2>3 DEF Settled
  <2>4. CASE /\ x.conns[c].last = k.last /\ x.conns[c].deferred
             /\ x.wires[c] = w /\ w.slot # None
    BY <2>1, <2>4 DEF Settled
  <2>5. CASE /\ x.conns[c].last = frame /\ w.slot = None
             /\ \E b \in {None, k.last} : x.wires[c].slot = [frame |-> frame, base |-> b]
    <3>1. PICK b \in {None, k.last} : x.wires[c].slot = [frame |-> frame, base |-> b]
      BY <2>5
    <3>2. x.wires[c].slot # None
      BY <2>2, <3>1, ScreenNotNone
    <3>3. Coming(x.wires[c]) = frame /\ x.wires[c].slot.base = b
      BY <3>1, <3>2 DEF Coming
    <3>4. Coming(w) = x.wires[c].shown
      BY <1>2, <2>5 DEF Coming
    <3>5. WireOK(x.wires[c])
      BY <1>2, <2>1, <3>1, <3>3, <3>4 DEF WireOK
    <3>6. QED
      BY <2>5, <3>3, <3>5 DEF Settled
  <2>6. QED
    BY <1>2, <2>3, <2>4, <2>5
<1>5. WiresOK(x)
  BY <1>2, <1>4 DEF WiresOK, Alike
<1>6. Pass(s, x)
  BY <1>2, <1>3, <1>5 DEF Pass, Alike, SameTerminals
<1>7. QED
  BY <1>2, <1>4, <1>6 DEF Alike, x

\* The render for the foreground finds the shared terminals in its size.
LEMMA ForegroundResize ==
    ASSUME setup \in Setups, NEW s, Sound(s), IsApp(s, s.fg)
    PROVE  ResizeTerminals(s, s.live \ s.locks, s.conns[s.fg].size) = s
<1>1. s \in Server /\ ForegroundOK(s) /\ AttachmentsOK(s) /\ SizesOK(s)
  BY DEF Sound
<1>2. s.fg \in DOMAIN s.conns /\ s.fg # None
  BY <1>1, ConnectionFields, SetupOK DEF IsApp
<1>3. ASSUME NEW t \in s.live \ s.locks PROVE s.sizes[t] = s.conns[s.fg].size
  <2>1. s.owners[t] = None
    BY <1>1 DEF AttachmentsOK
  <2>2. QED
    BY <1>1, <1>2, <2>1 DEF SizesOK, ForegroundOK
<1> DEFINE size == s.conns[s.fg].size
           sizes == [t \in DOMAIN s.sizes |-> IF t \in s.live \ s.locks THEN size ELSE s.sizes[t]]
           dirty == [t \in DOMAIN s.dirty |->
                        IF t \in s.live \ s.locks /\ s.sizes[t] # size THEN "All" ELSE s.dirty[t]]
<1>4. /\ s.sizes \in [Terminals -> Nat]
      /\ s.dirty \in [Terminals -> {"Clean", "Rows", "All"}]
  BY <1>1 DEF Server
<1>5. sizes = s.sizes /\ dirty = s.dirty
  BY <1>3, <1>4
<1>6. ResizeTerminals(s, s.live \ s.locks, size) = [s EXCEPT !.sizes = sizes, !.dirty = dirty]
  BY DEF ResizeTerminals
<1> HIDE DEF sizes, dirty
<1>7. QED
  BY <1>1, <1>5, <1>6 DEF Server

\* All clients are there and can be reached.
Calm(s) == \A c \in DOMAIN s.conns : users[c] = "open" /\ s.wires[c].alive

\* The render for one target.  If all is calm then either it is settled or its
\* terminal is gone; the others are left alone in any case.
Rendered(s, broken, c, q) ==
    /\ q = [s |-> q.s, broken |-> q.broken]
    /\ Pass(s, q.s) /\ DOMAIN s.conns \ {c} \subseteq DOMAIN q.s.conns
    /\ q.broken \in {broken, Append(broken, c)}
    /\ Calm(s) =>
          /\ DOMAIN q.s.conns = DOMAIN s.conns /\ q.s.sizes = s.sizes
          /\ \A d \in DOMAIN s.conns : d # c =>
                q.s.conns[d] = s.conns[d] /\ q.s.wires[d] = s.wires[d]
          /\ IF Stale(s, c) THEN q.broken = Append(broken, c)
             ELSE q.broken = broken /\ Settled(q.s, c, FrameOf(s, c))

LEMMA RenderOnePass ==
    ASSUME Typed, NEW s, Sound(s), WiresOK(s), NEW broken, NEW c \in Targets(s)
    PROVE  Rendered(s, broken, c, RenderOne([s |-> s, broken |-> broken], c))
<1> USE DEF Rendered
<1> DEFINE r == [s |-> s, broken |-> broken]
           q == RenderOne(r, c)
           frame == FrameOf(s, c)
           clean == [s EXCEPT !.dirty = [t \in DOMAIN @ |-> IF t \in Shows(s, c) THEN "Clean" ELSE @[t]]]
<1>1. setup \in Setups /\ s \in Server
  BY DEF Typed, Sound
<1>2. c \in DOMAIN s.conns /\ s.conns[c].mode # "pending" /\ s.conns[c].writer /\ DOMAIN s.conns \subseteq Ids
  BY <1>1, ConnectionFields DEF Targets, HasWriter
<1>3. frame \in Screen
  BY <1>2, FrameOfTyped
<1> HIDE DEF frame
<1>4. CASE ~IsApp(s, c) /\ s.conns[c].terminal \notin s.live
  <2> DEFINE x == IF s.wires[c].alive THEN s ELSE RemoveAndResize(s, c)
  <2>1. q = [s |-> x, broken |-> Append(broken, c)]
    BY <1>4 DEF RenderOne
  <2>2. Stale(s, c)
    BY <1>4 DEF Stale, IsApp
  <2>3. CASE s.wires[c].alive
    <3>1. Pass(s, s)
      BY PassNothing
    <3>2. QED
      BY <2>1, <2>2, <2>3, <3>1
  <2>4. CASE ~s.wires[c].alive
    <3> DEFINE y == RemoveAndResize(s, c)
    <3>1. Removes(s, y, {c})
      BY <1>1, NearlySound, RemoveAndResizeRemoves
    <3> HIDE DEF y
    <3>2. Pass(s, y)
      BY <1>2, <3>1, RemovesPass
    <3>3. DOMAIN s.conns \ {c} \subseteq DOMAIN y.conns
      BY <3>1 DEF Removes
    <3>4. ~Calm(s)
      BY <1>2, <2>4 DEF Calm
    <3>5. q = [s |-> y, broken |-> Append(broken, c)]
      BY <2>1, <2>4 DEF y
    <3> HIDE DEF q
    <3>6. QED
      BY <3>2, <3>3, <3>4, <3>5 DEF q
  <2>5. QED
    BY <2>3, <2>4
<1>5. CASE ~(~IsApp(s, c) /\ s.conns[c].terminal \notin s.live)
  <2>0. ~Stale(s, c)
    BY <1>2, <1>5 DEF Stale, IsApp
  <2>1. (IF IsApp(s, c) /\ s.fg = c
         THEN ResizeTerminals(s, s.live \ s.locks, s.conns[c].size) ELSE s) = s
    BY <1>1, ForegroundResize
  <2>2. q = IF Broken(clean, c, frame) THEN [s |-> clean, broken |-> Append(broken, c)]
            ELSE [s |-> Offer(clean, c, frame), broken |-> broken]
    <3>1. ~(~IsApp(r.s, c) /\ r.s.conns[c].terminal \notin r.s.live)
      BY <1>5
    <3>2. (IF IsApp(r.s, c) /\ r.s.fg = c
           THEN ResizeTerminals(r.s, r.s.live \ r.s.locks, r.s.conns[c].size) ELSE r.s) = s
      BY <2>1
    <3>3. q = IF Broken(s, c, frame) THEN [s |-> clean, broken |-> Append(broken, c)]
              ELSE [r EXCEPT !.s = Offer(clean, c, frame)]
      BY <3>1, <3>2 DEF RenderOne, frame
    <3>4. Broken(s, c, frame) = Broken(clean, c, frame)
      BY <1>1 DEF Broken, Server
    <3>5. [r EXCEPT !.s = Offer(clean, c, frame)] = [s |-> Offer(clean, c, frame), broken |-> broken]
      OBVIOUS
    <3>6. QED
      BY <3>3, <3>4, <3>5
  <2>3. /\ Pass(s, clean) /\ clean.conns = s.conns /\ clean.wires = s.wires /\ clean.sizes = s.sizes
        /\ clean.live = s.live
    BY CleanPass
  <2> HIDE DEF clean, r
  <2>4. CASE Broken(clean, c, frame)
    <3>1. q = [s |-> clean, broken |-> Append(broken, c)]
      BY <2>2, <2>4
    <3>2. ~Calm(s)
      BY <1>2, <2>3, <2>4 DEF Broken, Calm
    <3> HIDE DEF q
    <3>3. QED
      BY <2>3, <3>1, <3>2 DEF q, r
  <2>5. CASE ~Broken(clean, c, frame)
    <3> DEFINE x == Offer(clean, c, frame)
    <3>1. /\ Pass(clean, x) /\ DOMAIN x.conns = DOMAIN s.conns /\ x.sizes = s.sizes
          /\ \A d \in DOMAIN s.conns : d # c => x.conns[d] = s.conns[d]
          /\ \A d \in Ids : d # c => x.wires[d] = s.wires[d]
          /\ users[c] = "open" => Settled(x, c, frame)
      BY <1>1, <1>2, <1>3, <2>3, OfferPass DEF Pass
    <3>2. q = [s |-> x, broken |-> broken]
      BY <2>2, <2>5
    <3> HIDE DEF x, q
    <3>3. Pass(s, x)
      BY <2>3, <3>1, PassTransitive
    <3>4. Calm(s) => users[c] = "open"
      BY <1>2 DEF Calm
    <3>5. QED
      BY <1>2, <2>0, <3>1, <3>2, <3>3, <3>4 DEF q, r, frame
  <2>6. QED
    BY <2>4, <2>5
<1>6. QED
  BY <1>4, <1>5

LEMMA SameFrame ==
    ASSUME NEW s, NEW x, Pass(s, x), x.sizes = s.sizes, NEW c \in DOMAIN x.conns
    PROVE  Shows(x, c) = Shows(s, c) /\ FrameOf(x, c) = FrameOf(s, c)
<1>1. /\ c \in DOMAIN s.conns /\ SameWho(s.conns[c], x.conns[c]) /\ x.live = s.live
  BY DEF Pass
<1>2. Shows(x, c) = Shows(s, c)
  BY <1>1 DEF Shows, IsApp, SameWho
<1>3. \A p : Part(x, p) = Part(s, p)
  BY DEF Part
<1>4. QED
  BY <1>1, <1>2, <1>3 DEF FrameOf, SameWho

\* The targets in D are rendered.
Progress(s, r, D) ==
    /\ r = [s |-> r.s, broken |-> r.broken]
    /\ Pass(s, r.s) /\ DOMAIN s.conns \ D \subseteq DOMAIN r.s.conns
    /\ r.broken \in Seq(Targets(s))
    /\ Calm(s) =>
          /\ DOMAIN r.s.conns = DOMAIN s.conns /\ r.s.sizes = s.sizes
          /\ \A c \in ToSet(r.broken) : Stale(s, c)
          /\ \A c \in D : c \in ToSet(r.broken) \/ Settled(r.s, c, FrameOf(s, c))

LEMMA ToSetAppend ==
    ASSUME NEW T, NEW q \in Seq(T), NEW c \in T
    PROVE  Append(q, c) \in Seq(T) /\ ToSet(Append(q, c)) = ToSet(q) \cup {c}
<1>1. Append(q, c) \in Seq(T) /\ Len(Append(q, c)) = Len(q) + 1
  OBVIOUS
<1>2. \A i \in 1 .. Len(q) : Append(q, c)[i] = q[i]
  OBVIOUS
<1>3. Append(q, c)[Len(q) + 1] = c
  OBVIOUS
<1>4. QED
  BY <1>1, <1>2, <1>3 DEF ToSet

LEMMA ProgressStep ==
    ASSUME Typed, NEW s, Sound(s), NEW D, D \subseteq Targets(s),
           NEW r, Progress(s, r, D), NEW c \in Targets(s) \ D
    PROVE  Progress(s, RenderOne(r, c), D \cup {c})
<1> DEFINE q == RenderOne(r, c)
           x == r.s
           y == q.s
<1>1. /\ r = [s |-> x, broken |-> r.broken]
      /\ Pass(s, x) /\ DOMAIN s.conns \ D \subseteq DOMAIN x.conns
      /\ r.broken \in Seq(Targets(s))
      /\ Calm(s) =>
            /\ DOMAIN x.conns = DOMAIN s.conns /\ x.sizes = s.sizes
            /\ \A d \in ToSet(r.broken) : Stale(s, d)
            /\ \A d \in D : d \in ToSet(r.broken) \/ Settled(x, d, FrameOf(s, d))
  BY DEF Progress
<1>2. /\ Sound(x) /\ WiresOK(x) /\ x.live = s.live
      /\ c \in DOMAIN s.conns /\ c \in DOMAIN x.conns /\ SameWho(s.conns[c], x.conns[c])
  BY <1>1 DEF Pass, Targets
<1>3. c \in Targets(x) /\ (Stale(x, c) <=> Stale(s, c))
  BY <1>2 DEF Targets, HasWriter, SameWho, Stale
<1> HIDE DEF x
<1>4. /\ q = [s |-> y, broken |-> q.broken]
      /\ Pass(x, y) /\ DOMAIN x.conns \ {c} \subseteq DOMAIN y.conns
      /\ q.broken \in {r.broken, Append(r.broken, c)}
      /\ Calm(x) =>
            /\ DOMAIN y.conns = DOMAIN x.conns /\ y.sizes = x.sizes
            /\ \A d \in DOMAIN x.conns : d # c =>
                  y.conns[d] = x.conns[d] /\ y.wires[d] = x.wires[d]
            /\ IF Stale(x, c) THEN q.broken = Append(r.broken, c)
               ELSE q.broken = r.broken /\ Settled(y, c, FrameOf(x, c))
  <2>1. q = RenderOne([s |-> x, broken |-> r.broken], c)
    BY <1>1
  <2> HIDE DEF q
  <2>2. Rendered(x, r.broken, c, q)
    BY <1>2, <1>3, <2>1, RenderOnePass
  <2>3. QED
    BY <2>2 DEF Rendered
<1> HIDE DEF q, y
<1>5. Pass(s, y)
  BY <1>1, <1>4, PassTransitive
<1>6. DOMAIN s.conns \ (D \cup {c}) \subseteq DOMAIN y.conns
  BY <1>1, <1>4
<1>7. /\ q.broken \in Seq(Targets(s))
      /\ ToSet(q.broken) \subseteq ToSet(r.broken) \cup {c}
      /\ ToSet(r.broken) \subseteq ToSet(q.broken)
      /\ q.broken = Append(r.broken, c) => c \in ToSet(q.broken)
  <2>1. /\ Append(r.broken, c) \in Seq(Targets(s))
        /\ ToSet(Append(r.broken, c)) = ToSet(r.broken) \cup {c}
    BY <1>1, ToSetAppend
  <2>2. QED
    BY <1>1, <1>4, <2>1
<1>8. ASSUME Calm(s)
      PROVE  /\ DOMAIN y.conns = DOMAIN s.conns /\ y.sizes = s.sizes
             /\ \A d \in ToSet(q.broken) : Stale(s, d)
             /\ \A d \in D \cup {c} : d \in ToSet(q.broken) \/ Settled(y, d, FrameOf(s, d))
  <2>1. /\ DOMAIN x.conns = DOMAIN s.conns /\ x.sizes = s.sizes
        /\ \A d \in ToSet(r.broken) : Stale(s, d)
        /\ \A d \in D : d \in ToSet(r.broken) \/ Settled(x, d, FrameOf(s, d))
    BY <1>1, <1>8
  <2>2. Calm(x)
    <3>1. DOMAIN s.conns \subseteq Ids
      BY ConnectionFields DEF Sound
    <3>2. QED
      BY <1>1, <1>8, <2>1, <3>1 DEF Calm, Pass
  <2>3. /\ DOMAIN y.conns = DOMAIN x.conns /\ y.sizes = x.sizes
        /\ \A d \in DOMAIN x.conns : d # c =>
              y.conns[d] = x.conns[d] /\ y.wires[d] = x.wires[d]
        /\ IF Stale(x, c) THEN q.broken = Append(r.broken, c)
           ELSE q.broken = r.broken /\ Settled(y, c, FrameOf(x, c))
    BY <1>4, <2>2
  <2>4. FrameOf(x, c) = FrameOf(s, c)
    BY <1>1, <1>2, <2>1, SameFrame
  <2>5. \A d \in ToSet(q.broken) : Stale(s, d)
    BY <1>3, <1>7, <2>1, <2>3
  <2>6. ASSUME NEW d \in D \cup {c}
        PROVE  d \in ToSet(q.broken) \/ Settled(y, d, FrameOf(s, d))
    <3>1. CASE d = c
      BY <1>7, <2>3, <2>4, <3>1
    <3>2. CASE d # c
      <4>1. d \in DOMAIN x.conns /\ d \in D
        BY <2>1, <2>6, <3>2 DEF Targets
      <4>2. y.conns[d] = x.conns[d] /\ y.wires[d] = x.wires[d]
        BY <2>3, <3>2, <4>1
      <4>3. d \in ToSet(r.broken) \/ Settled(x, d, FrameOf(s, d))
        BY <2>1, <4>1
      <4>4. QED
        BY <1>7, <4>2, <4>3 DEF Settled
    <3>3. QED
      BY <3>1, <3>2
  <2>7. QED
    BY <2>1, <2>3, <2>5, <2>6
<1>9. QED
  BY <1>4, <1>5, <1>6, <1>7, <1>8 DEF Progress, q, y

\* A round of the loop over the clients behind the foreground.
First(s) == [s |-> s, broken |-> <<>>]
Round(s, r, n) == IF n \in Targets(s) \ {s.fg} THEN RenderOne(r, n) ELSE r

LEMMA RenderBackgroundSteps ==
    ASSUME setup \in Setups, NEW s
    PROVE  \E after : /\ after[0] = First(s)
                      /\ \A n \in 1 .. Len(setup.kinds) : after[n] = Round(s, after[n - 1], n)
                      /\ RenderBackground(s) = after[Len(setup.kinds)]
<1> DEFINE N == Len(setup.kinds)
           Run(f, n) == f[0] = First(s) /\ \A k \in 1 .. n : f[k] = Round(s, f[k - 1], k)
           Runs(n) == \E f : Run(f, n)
           G == {n \in 0 .. N : Runs(n)}
<1>1. N \in Nat
  BY SetupOK
<1>2. 0 \in G
  <2>1. Run([k \in {0} |-> First(s)], 0)
    OBVIOUS
  <2> HIDE DEF Run
  <2>2. Runs(0)
    BY <2>1
  <2> HIDE DEF Runs
  <2>3. QED
    BY <1>1, <2>2
<1>3. ASSUME NEW n \in 0 .. N - 1, n \in G PROVE n + 1 \in G
  <2>1. PICK f : Run(f, n)
    <3> HIDE DEF Run
    <3>1. QED
      BY <1>3
  <2> DEFINE g == [k \in 0 .. n + 1 |-> IF k = n + 1 THEN Round(s, f[n], n + 1) ELSE f[k]]
  <2>2. g[0] = First(s)
    BY <2>1
  <2>3. ASSUME NEW k \in 1 .. n + 1 PROVE g[k] = Round(s, g[k - 1], k)
    BY <2>1
  <2>4. Run(g, n + 1)
    BY <2>2, <2>3
  <2> HIDE DEF Run, g
  <2>5. Runs(n + 1)
    BY <2>4
  <2> HIDE DEF Runs
  <2>6. QED
    BY <1>1, <2>5
<1>4. N \in G
  <2> HIDE DEF G
  <2>1. \A k \in 0 .. N : k \in G
    BY <1>1, <1>2, <1>3, UpTo
  <2>2. QED
    BY <1>1, <2>1
<1>5. PICK f : Run(f, N)
  <2> HIDE DEF Run
  <2>1. QED
    BY <1>4
<1> DEFINE Eq(g) == g = [n \in 0 .. N |-> IF n = 0 THEN First(s) ELSE Round(s, g[n - 1], n)]
           h == [n \in 0 .. N |-> f[n]]
           after == CHOOSE g : Eq(g)
<1>6. Eq(h)
  <2>1. SUFFICES ASSUME NEW n \in 0 .. N
                 PROVE  h[n] = IF n = 0 THEN First(s) ELSE Round(s, h[n - 1], n)
    BY Zenon
  <2>2. CASE n = 0
    BY <1>5, <2>2
  <2>3. CASE n # 0
    BY <1>1, <1>5, <2>3
  <2>4. QED
    BY <2>2, <2>3
<1>7. Eq(after)
  BY <1>6, Zenon
<1>8. RenderBackground(s) = after[N]
  BY DEF RenderBackground, Round, First
<1> HIDE DEF after
<1>9. after[0] = First(s)
  BY <1>1, <1>7
<1>10. ASSUME NEW n \in 1 .. N PROVE after[n] = Round(s, after[n - 1], n)
  BY <1>1, <1>7
<1>11. QED
  BY <1>8, <1>9, <1>10


LEMMA RenderBackgroundProgress ==
    ASSUME Typed, NEW s, Sound(s), WiresOK(s)
    PROVE  Progress(s, RenderBackground(s), Targets(s) \ {s.fg})
<1> DEFINE N == Len(setup.kinds)
           Done(n) == {c \in Targets(s) \ {s.fg} : c <= n}
<1>1. setup \in Setups /\ N \in Nat /\ Targets(s) \subseteq 1 .. N
  BY SetupOK, ConnectionFields DEF Typed, Sound, Targets
<1>2. PICK after : /\ after[0] = First(s)
                   /\ \A n \in 1 .. N : after[n] = Round(s, after[n - 1], n)
                   /\ RenderBackground(s) = after[N]
  BY <1>1, RenderBackgroundSteps
<1> DEFINE G == {n \in 0 .. N : Progress(s, after[n], Done(n))}
<1>3. 0 \in G
  <2>1. Done(0) = {}
    BY <1>1
  <2>2. First(s) = [s |-> First(s).s, broken |-> First(s).broken] /\ First(s).s = s /\ First(s).broken = <<>>
    BY DEF First
  <2>3. <<>> \in Seq(Targets(s)) /\ ToSet(<<>>) = {}
    BY DEF ToSet
  <2>4. Pass(s, s)
    BY PassNothing
  <2>5. Progress(s, First(s), {})
    BY <2>2, <2>3, <2>4 DEF Progress
  <2> HIDE DEF Done
  <2>6. Progress(s, after[0], Done(0))
    BY <1>2, <2>1, <2>5
  <2>7. QED
    BY <1>1, <2>6
<1>4. ASSUME NEW n \in 0 .. N - 1, n \in G PROVE n + 1 \in G
  <2>1. Progress(s, after[n], Done(n))
    BY <1>4
  <2>2. after[n + 1] = Round(s, after[n], n + 1)
    BY <1>1, <1>2
  <2>3. CASE n + 1 \in Targets(s) \ {s.fg}
    <3>1. Done(n + 1) = Done(n) \cup {n + 1} /\ n + 1 \notin Done(n)
      BY <1>1, <2>3
    <3>2. Done(n) \subseteq Targets(s)
      OBVIOUS
    <3> HIDE DEF Done
    <3>3. Progress(s, RenderOne(after[n], n + 1), Done(n) \cup {n + 1})
      BY <2>1, <2>3, <3>1, <3>2, ProgressStep
    <3>4. Progress(s, after[n + 1], Done(n + 1))
      BY <2>2, <2>3, <3>1, <3>3 DEF Round
    <3>5. QED
      BY <1>1, <3>4
  <2>4. CASE n + 1 \notin Targets(s) \ {s.fg}
    <3>1. Done(n + 1) = Done(n)
      BY <1>1, <2>4
    <3> HIDE DEF Done
    <3>2. Progress(s, after[n + 1], Done(n + 1))
      BY <2>1, <2>2, <2>4, <3>1 DEF Round
    <3>3. QED
      BY <1>1, <3>2
  <2>5. QED
    BY <2>3, <2>4
<1>5. N \in G
  <2> HIDE DEF G
  <2>1. \A k \in 0 .. N : k \in G
    BY <1>1, <1>3, <1>4, UpTo
  <2>2. QED
    BY <1>1, <2>1
<1>6. Done(N) = Targets(s) \ {s.fg}
  BY <1>1
<1> HIDE DEF Done
<1>7. QED
  BY <1>2, <1>5, <1>6

\* A full render is a pass, and if all is calm then it settles every target
\* that is left.
LEMMA RenderAndStreamPass ==
    ASSUME Typed, NEW s, Sound(s), WiresOK(s)
    PROVE  LET x == RenderAndStream(s)
           IN  /\ Pass(s, x)
               /\ Calm(s) => \A c \in Targets(x) : Settled(x, c, FrameOf(x, c))
<1> DEFINE b == RenderBackground(s)
           r == IF s.fg \in Targets(s) THEN RenderOne(b, s.fg) ELSE b
           y == r.s
           x == RemoveAll(y, r.broken)
<1>1. setup \in Setups
  BY DEF Typed
<1>2. Progress(s, b, Targets(s) \ {s.fg})
  BY RenderBackgroundProgress
<1>3. x = RenderAndStream(s)
  BY DEF RenderAndStream
<1> HIDE DEF b
<1>4. Progress(s, r, Targets(s))
  <2>1. CASE s.fg \in Targets(s)
    <3>1. Progress(s, RenderOne(b, s.fg), (Targets(s) \ {s.fg}) \cup {s.fg})
      BY <1>2, <2>1, ProgressStep
    <3>2. (Targets(s) \ {s.fg}) \cup {s.fg} = Targets(s)
      BY <2>1
    <3>3. QED
      BY <2>1, <3>1, <3>2
  <2>2. CASE s.fg \notin Targets(s)
    <3>1. Targets(s) \ {s.fg} = Targets(s)
      BY <2>2
    <3>2. QED
      BY <1>2, <2>2, <3>1
  <2>3. QED
    BY <2>1, <2>2
<1> HIDE DEF r
<1>5. /\ Pass(s, y)
      /\ r.broken \in Seq(Targets(s))
      /\ Calm(s) =>
            /\ DOMAIN y.conns = DOMAIN s.conns /\ y.sizes = s.sizes
            /\ \A c \in ToSet(r.broken) : Stale(s, c)
            /\ \A c \in Targets(s) : c \in ToSet(r.broken) \/ Settled(y, c, FrameOf(s, c))
  BY <1>4 DEF Progress
<1> HIDE DEF y
<1>6. Sound(y) /\ Nearly(y) /\ SizesOK(y) /\ WiresOK(y)
  BY <1>5, NearlySound DEF Pass
<1>7. Removes(y, x, ToSet(r.broken))
  BY <1>1, <1>5, <1>6, RemoveAllRemoves
<1> HIDE DEF x
<1>8. ToSet(r.broken) \subseteq Targets(s)
  BY <1>5 DEF ToSet
<1>9. Pass(y, x)
  <2>1. \A c \in ToSet(r.broken) \cap DOMAIN y.conns : y.conns[c].writer
    BY <1>5, <1>8 DEF Pass, Targets, HasWriter, SameWho
  <2>2. QED
    BY <1>6, <1>7, <2>1, RemovesPass
<1>10. Pass(s, x)
  BY <1>5, <1>9, PassTransitive
<1>11. ASSUME Calm(s), NEW c \in Targets(x) PROVE Settled(x, c, FrameOf(x, c))
  <2>1. /\ c \in DOMAIN x.conns /\ c \in DOMAIN y.conns /\ c \notin ToSet(r.broken)
        /\ x.wires = y.wires /\ x.conns[c].deferred = y.conns[c].deferred
    BY <1>7 DEF Targets, Removes, Reduced, SameClient, SameRest
  <2>2. c \in Targets(s)
    BY <1>10, <1>11 DEF Pass, SameWho, Targets, HasWriter
  <2>3. Settled(y, c, FrameOf(s, c))
    BY <1>5, <1>11, <2>1, <2>2
  <2>4. x.sizes = s.sizes
    <3>1. \A d \in ToSet(r.broken) : Stale(y, d)
      BY <1>5, <1>11 DEF Stale, Pass, SameWho
    <3>2. QED
      BY <1>5, <1>6, <1>7, <1>11, <3>1 DEF Removes
  <2>5. FrameOf(x, c) = FrameOf(s, c)
    BY <1>10, <2>1, <2>4, SameFrame
  <2>6. QED
    BY <2>1, <2>3, <2>5 DEF Settled
<1>12. QED
  BY <1>3, <1>10, <1>11

-----------------------------------------------------------------------------
(* Updates of the retained frame.                                          *)

Sized == [version : Nat, size : Nat]

LEMMA ScreenFields ==
    ASSUME NEW f \in Screen
    PROVE  /\ f.size \in Nat /\ DOMAIN f.parts \subseteq {Chrome} \cup Terminals
           /\ f.parts \in [DOMAIN f.parts -> Sized]
           /\ f = [size |-> f.size, parts |-> f.parts]
<1>1. /\ f \in [size : Nat, parts : UNION {[P -> Sized] : P \in SUBSET Parts}]
      /\ DOMAIN f.parts \subseteq {Chrome} \cup Terminals
  BY DEF Screen, Frame, Sized
<1>2. PICK P \in SUBSET Parts : f.parts \in [P -> Sized]
  BY <1>1
<1>3. QED
  BY <1>1, <1>2

LEMMA ScreenOf ==
    ASSUME setup \in Setups, NEW n \in Nat, NEW g,
           DOMAIN g \subseteq {Chrome} \cup Terminals, g \in [DOMAIN g -> Sized]
    PROVE  [size |-> n, parts |-> g] \in Screen
<1>1. DOMAIN g \in SUBSET Parts
  BY SetupOK
<1>2. g \in UNION {[P -> Sized] : P \in SUBSET Parts}
  BY <1>1
<1>3. QED
  BY <1>2 DEF Screen, Frame, Sized

\* A frame of the size of the client that shows each part as it is.
LEMMA AllRight ==
    ASSUME NEW s, NEW c, NEW f \in Screen, f.size = s.conns[c].size,
           DOMAIN f.parts = Shows(s, c), \A p \in Shows(s, c) : Right(s, f, p)
    PROVE  f = FrameOf(s, c)
<1>1. /\ f.parts \in [DOMAIN f.parts -> Sized]
      /\ f = [size |-> f.size, parts |-> f.parts]
  BY ScreenFields
<1>2. f.parts = [p \in Shows(s, c) |-> Part(s, p)]
  BY <1>1 DEF Right
<1>3. QED
  BY <1>1, <1>2 DEF FrameOf

\* The last frame with the dirty rows.
LEMMA PatchedFields ==
    ASSUME Typed, NEW s, Sound(s), NEW c \in DOMAIN s.conns, s.conns[c].last # None
    PROVE  LET last == s.conns[c].last
               f == Patched(s, c)
           IN  /\ f \in Screen /\ f.size = last.size /\ DOMAIN f.parts = DOMAIN last.parts
               /\ \A p \in DOMAIN last.parts :
                     f.parts[p] = IF p # Chrome /\ s.dirty[p] # "Clean" THEN Part(s, p) ELSE last.parts[p]
<1> DEFINE last == s.conns[c].last
           P == DOMAIN last.parts
           g == [p \in P |-> IF p # Chrome /\ s.dirty[p] # "Clean" THEN Part(s, p) ELSE last.parts[p]]
<1>1. setup \in Setups /\ content \in [{Chrome} \cup Terminals -> Nat] /\ s \in Server
  BY DEF Typed, Sound
<1>2. last \in Screen
  BY <1>1, ConnectionFields
<1> HIDE DEF last
<1>3. /\ last.size \in Nat /\ P \subseteq {Chrome} \cup Terminals /\ last.parts \in [P -> Sized]
      /\ last = [size |-> last.size, parts |-> last.parts]
  BY <1>2, ScreenFields
<1>4. s.sizes \in [Terminals -> Nat]
  BY <1>1 DEF Server
<1>5. \A p \in {Chrome} \cup Terminals : Part(s, p) \in Sized
  BY <1>1, <1>4 DEF Part, Sized
<1>6. Patched(s, c) = [last EXCEPT !.parts = g]
  BY DEF Patched, last
<1>7. g \in [P -> Sized] /\ DOMAIN g = P
  BY <1>3, <1>5
<1>8. \A p \in P : g[p] = IF p # Chrome /\ s.dirty[p] # "Clean" THEN Part(s, p) ELSE last.parts[p]
  OBVIOUS
<1> HIDE DEF g
<1>9. Patched(s, c) = [size |-> last.size, parts |-> g]
  BY <1>3, <1>6
<1>10. [size |-> last.size, parts |-> g] \in Screen
  BY <1>1, <1>3, <1>7, ScreenOf
<1>11. QED
  BY <1>7, <1>8, <1>9, <1>10 DEF last

\* Every client is underway to a fresh frame, or waits.
Due(s) == \A c \in Targets(s) : Waits(s, c) \/ Fresh(s, c, Coming(s.wires[c]))

\* The frame that is patched is the one that is underway.
LEMMA RetainedFresh ==
    ASSUME setup \in Setups, NEW s, Sound(s), WiresOK(s), Calm(s), Due(s),
           NEW c, RetainedAllowed(s, c)
    PROVE  s.conns[c].last = Coming(s.wires[c]) /\ Fresh(s, c, s.conns[c].last)
<1>1. /\ c \in Targets(s) /\ c \in DOMAIN s.conns /\ ~s.conns[c].deferred
      /\ s.conns[c].last # None
  BY DEF RetainedAllowed, IsApp
<1>2. c \in Ids
  BY <1>1, ConnectionFields DEF Sound
<1>3. s.conns[c].last = Coming(s.wires[c])
  BY <1>1, <1>2 DEF WiresOK, Calm
<1>4. Fresh(s, c, Coming(s.wires[c]))
  BY <1>1 DEF Due, Waits
<1>5. QED
  BY <1>3, <1>4

\* An update of the retained frame is a pass, and it settles what is due.
LEMMA RetainedUpdatePass ==
    ASSUME Typed, NEW s, Sound(s), WiresOK(s), NEW c, RetainedAllowed(s, c)
    PROVE  LET x == RetainedUpdate(s, c)
           IN  /\ Pass(s, x)
               /\ Calm(s) /\ Due(s) => \A d \in Targets(x) : Settled(x, d, FrameOf(x, d))
<1> DEFINE last == s.conns[c].last
           frame == Patched(s, c)
           clean == [s EXCEPT !.dirty = [t \in DOMAIN @ |-> IF t \in s.live THEN "Clean" ELSE @[t]]]
           sent == Offer(clean, c, frame)
           x == RetainedUpdate(s, c)
<1>1. /\ Targets(s) = {c} /\ c \in DOMAIN s.conns /\ IsApp(s, c)
      /\ last # None /\ last.size = s.conns[c].size
  BY DEF RetainedAllowed, IsApp
<1>2. setup \in Setups /\ s \in Server /\ c \in Ids /\ s.conns[c].writer
      /\ Chrome \notin Terminals /\ s.live \subseteq Terminals
  <2>1. setup \in Setups /\ s \in Server
    BY DEF Typed, Sound
  <2>2. c \in Ids /\ Chrome \notin Terminals
    BY <1>1, <2>1, ConnectionFields, SetupOK
  <2>3. s.conns[c].writer
    BY <1>1 DEF Targets, HasWriter
  <2>4. QED
    BY <2>1, <2>2, <2>3 DEF Server
<1>3. /\ frame \in Screen /\ frame.size = last.size /\ DOMAIN frame.parts = DOMAIN last.parts
      /\ \A p \in DOMAIN last.parts :
            frame.parts[p] = IF p # Chrome /\ s.dirty[p] # "Clean" THEN Part(s, p) ELSE last.parts[p]
  BY <1>1, PatchedFields
<1>4. x = IF clean = s THEN s
          ELSE IF Broken(s, c, frame) THEN RenderAndStream(RemoveAndResize(clean, c))
          ELSE IF sent.conns[c].deferred THEN RenderAndStream(sent)
          ELSE sent
  BY DEF RetainedUpdate
<1>5. Shows(s, c) = {Chrome} \cup s.live
  BY <1>1 DEF Shows
<1>6. clean = s => \A t \in s.live : s.dirty[t] = "Clean"
  <2>1. s.dirty \in [Terminals -> {"Clean", "Rows", "All"}]
    BY <1>2 DEF Server
  <2>2. clean.dirty = [t \in DOMAIN s.dirty |-> IF t \in s.live THEN "Clean" ELSE s.dirty[t]]
    BY <1>2 DEF Server
  <2> HIDE DEF clean
  <2>3. QED
    BY <1>2, <2>1, <2>2
<1>7. ASSUME Calm(s), Due(s)
      PROVE  frame = FrameOf(s, c) /\ (clean = s => Coming(s.wires[c]) = FrameOf(s, c))
  <2>1. last = Coming(s.wires[c]) /\ Fresh(s, c, last)
    BY <1>2, <1>7, RetainedFresh
  <2>2. /\ DOMAIN last.parts = Shows(s, c)
        /\ \A p \in Shows(s, c) :
              Right(s, last, p) \/ (p \in Terminals /\ s.dirty[p] # "Clean" /\ p \in s.sources \cup written)
    BY <2>1 DEF Fresh
  <2>3. last \in Screen
    BY <1>1, <1>2, ConnectionFields
  <2> HIDE DEF last, frame, clean
  <2>4. \A p \in Shows(s, c) : Right(s, frame, p)
    BY <1>2, <1>3, <2>2 DEF Right
  <2>5. frame = FrameOf(s, c)
    BY <1>1, <1>3, <2>2, <2>4, AllRight
  <2>6. ASSUME clean = s PROVE last = FrameOf(s, c)
    <3>1. \A p \in Shows(s, c) : Right(s, last, p)
      BY <1>2, <1>5, <1>6, <2>2, <2>6
    <3>2. QED
      BY <1>1, <2>2, <2>3, <3>1, AllRight
  <2>7. QED
    BY <2>1, <2>5, <2>6
<1>8. CASE clean = s
  <2>1. x = s
    BY <1>4, <1>8
  <2>2. Pass(s, s)
    BY PassNothing
  <2> HIDE DEF x
  <2>3. QED
    BY <1>1, <1>7, <1>8, <2>1, <2>2 DEF Settled, x
<1>9. CASE clean # s
  <2>1. /\ Pass(s, clean) /\ clean.conns = s.conns /\ clean.wires = s.wires /\ clean.sizes = s.sizes
        /\ Sound(clean) /\ WiresOK(clean)
    BY CleanPass DEF Pass
  <2> HIDE DEF clean, frame, last, x
  <2>2. CASE Broken(s, c, frame)
    <3> DEFINE y == RemoveAndResize(clean, c)
    <3>1. Removes(clean, y, {c})
      BY <1>2, <2>1, NearlySound, RemoveAndResizeRemoves
    <3> HIDE DEF y
    <3>2. Pass(clean, y)
      BY <1>2, <2>1, <3>1, RemovesPass
    <3>3. Pass(y, RenderAndStream(y))
      BY <3>2, RenderAndStreamPass DEF Pass
    <3>4. Pass(s, RenderAndStream(y))
      BY <2>1, <3>2, <3>3, PassTransitive
    <3>5. ~Calm(s)
      BY <1>1, <2>2 DEF Broken, Calm
    <3>6. x = RenderAndStream(y)
      BY <1>4, <1>9, <2>2 DEF y
    <3>7. QED
      BY <3>4, <3>5, <3>6 DEF x
  <2>3. CASE ~Broken(s, c, frame)
    <3>1. /\ Pass(clean, sent) /\ DOMAIN sent.conns = DOMAIN s.conns
          /\ sent.sizes = s.sizes
          /\ users[c] = "open" /\ ~sent.conns[c].deferred => Coming(sent.wires[c]) = frame
      BY <1>1, <1>2, <1>3, <2>1, OfferPass
    <3> HIDE DEF sent
    <3>2. Pass(s, sent)
      BY <2>1, <3>1, PassTransitive
    <3>3. CASE sent.conns[c].deferred
      <4>1. /\ Pass(sent, RenderAndStream(sent))
            /\ Calm(sent) => \A d \in Targets(RenderAndStream(sent)) :
                  Settled(RenderAndStream(sent), d, FrameOf(RenderAndStream(sent), d))
        BY <3>2, RenderAndStreamPass DEF Pass
      <4>2. Calm(s) => Calm(sent)
        <5>1. DOMAIN s.conns \subseteq Ids
          BY <1>2, ConnectionFields
        <5>2. QED
          BY <3>1, <3>2, <5>1 DEF Calm, Pass
      <4>3. x = RenderAndStream(sent)
        BY <1>4, <1>9, <2>3, <3>3
      <4>4. Pass(s, x)
        BY <3>2, <4>1, <4>3, PassTransitive
      <4>5. QED
        BY <4>1, <4>2, <4>3, <4>4 DEF x
    <3>4. CASE ~sent.conns[c].deferred
      <4>1. x = sent
        BY <1>4, <1>9, <2>3, <3>4
      <4>2. ASSUME Calm(s), Due(s), NEW d \in Targets(sent) PROVE Settled(sent, d, FrameOf(sent, d))
        <5>1. d = c /\ users[c] = "open"
          BY <1>1, <3>2, <4>2 DEF Targets, HasWriter, Pass, SameWho, Calm
        <5>2. FrameOf(sent, c) = FrameOf(s, c)
          BY <1>1, <3>1, <3>2, SameFrame
        <5>3. QED
          BY <1>7, <3>1, <3>4, <4>2, <5>1, <5>2 DEF Settled
      <4>3. QED
        BY <3>2, <4>1, <4>2 DEF x
    <3>5. QED
      BY <3>3, <3>4
  <2>4. QED
    BY <2>2, <2>3
<1>10. QED
  BY <1>8, <1>9

-----------------------------------------------------------------------------
(* Everybody has to leave.                                                 *)

LEMMA SendAndRemoveAllSteps ==
    ASSUME NEW s, NEW T, NEW cs \in Seq(T)
    PROVE  \E after : /\ after[0] = s
                      /\ \A n \in 1 .. Len(cs) : after[n] = SendAndRemove(after[n - 1], cs[n])
                      /\ SendAndRemoveAll(s, cs) = after[Len(cs)]
<1> DEFINE N == Len(cs)
           Run(f, n) == f[0] = s /\ \A k \in 1 .. n : f[k] = SendAndRemove(f[k - 1], cs[k])
           Runs(n) == \E f : Run(f, n)
           G == {n \in 0 .. N : Runs(n)}
<1>1. N \in Nat
  OBVIOUS
<1>2. 0 \in G
  <2>1. Run([k \in {0} |-> s], 0)
    OBVIOUS
  <2> HIDE DEF Run
  <2>2. Runs(0)
    BY <2>1
  <2> HIDE DEF Runs
  <2>3. QED
    BY <1>1, <2>2
<1>3. ASSUME NEW n \in 0 .. N - 1, n \in G PROVE n + 1 \in G
  <2>1. PICK f : Run(f, n)
    <3> HIDE DEF Run
    <3>1. QED
      BY <1>3
  <2> DEFINE g == [k \in 0 .. n + 1 |-> IF k = n + 1 THEN SendAndRemove(f[n], cs[n + 1]) ELSE f[k]]
  <2>2. g[0] = s
    BY <2>1
  <2>3. ASSUME NEW k \in 1 .. n + 1 PROVE g[k] = SendAndRemove(g[k - 1], cs[k])
    BY <2>1
  <2>4. Run(g, n + 1)
    BY <2>2, <2>3
  <2> HIDE DEF Run, g
  <2>5. Runs(n + 1)
    BY <2>4
  <2> HIDE DEF Runs
  <2>6. QED
    BY <1>1, <2>5
<1>4. N \in G
  <2> HIDE DEF G
  <2>1. \A k \in 0 .. N : k \in G
    BY <1>1, <1>2, <1>3, UpTo
  <2>2. QED
    BY <1>1, <2>1
<1>5. PICK f : Run(f, N)
  <2> HIDE DEF Run
  <2>1. QED
    BY <1>4
<1> DEFINE Eq(g) == g = [n \in 0 .. N |-> IF n = 0 THEN s ELSE SendAndRemove(g[n - 1], cs[n])]
           h == [n \in 0 .. N |-> f[n]]
           after == CHOOSE g : Eq(g)
<1>6. Eq(h)
  <2>1. SUFFICES ASSUME NEW n \in 0 .. N
                 PROVE  h[n] = IF n = 0 THEN s ELSE SendAndRemove(h[n - 1], cs[n])
    BY Zenon
  <2>2. CASE n = 0
    BY <1>5, <2>2
  <2>3. CASE n # 0
    BY <1>1, <1>5, <2>3
  <2>4. QED
    BY <2>2, <2>3
<1>7. Eq(after)
  BY <1>6, Zenon
<1>8. SendAndRemoveAll(s, cs) = after[N]
  BY DEF SendAndRemoveAll
<1> HIDE DEF after
<1>9. after[0] = s
  BY <1>1, <1>7
<1>10. ASSUME NEW n \in 1 .. N PROVE after[n] = SendAndRemove(after[n - 1], cs[n])
  BY <1>1, <1>7
<1>11. QED
  BY <1>8, <1>9, <1>10


\* The clients in C are gone.
Drops(s, x, C) ==
    /\ Nearly(x) /\ DOMAIN x.conns = DOMAIN s.conns \ C
    /\ SameRest(s, x) /\ x.live = s.live /\ x.reads = s.reads

LEMMA SendAndRemoveDrops ==
    ASSUME setup \in Setups, NEW s, Nearly(s), NEW c
    PROVE  Drops(s, SendAndRemove(s, c), {c})
<1>1. Drops(s, RemoveAndResize(s, c), {c})
  BY RemoveAndResizeRemoves DEF Removes, Drops
<1>2. Drops(s, RemoveClient(s, c), {c})
  BY RemoveClientFields DEF Drops
<1>3. QED
  BY <1>1, <1>2 DEF SendAndRemove

LEMMA SendAndRemoveAllDrops ==
    ASSUME setup \in Setups, NEW s, Nearly(s), NEW T, NEW cs \in Seq(T)
    PROVE  Drops(s, SendAndRemoveAll(s, cs), ToSet(cs))
<1>1. PICK after : /\ after[0] = s
                   /\ \A n \in 1 .. Len(cs) : after[n] = SendAndRemove(after[n - 1], cs[n])
                   /\ SendAndRemoveAll(s, cs) = after[Len(cs)]
  BY SendAndRemoveAllSteps
<1> DEFINE Gone(n) == {cs[k] : k \in 1 .. n}
           G == {n \in 0 .. Len(cs) : Drops(s, after[n], Gone(n))}
<1>2. Len(cs) \in Nat
  OBVIOUS
<1>3. 0 \in G
  <2>1. Gone(0) = {}
    OBVIOUS
  <2>2. Drops(s, after[0], {})
    BY <1>1 DEF Drops, SameRest
  <2> HIDE DEF Gone
  <2>3. Drops(s, after[0], Gone(0))
    BY <2>1, <2>2
  <2>4. QED
    BY <1>2, <2>3
<1>4. ASSUME NEW n \in 0 .. Len(cs) - 1, n \in G PROVE n + 1 \in G
  <2>1. Drops(s, after[n], Gone(n))
    BY <1>4
  <2>2. after[n + 1] = SendAndRemove(after[n], cs[n + 1]) /\ Nearly(after[n])
    BY <1>1, <1>2, <2>1 DEF Drops
  <2>3. Drops(after[n], after[n + 1], {cs[n + 1]})
    BY <2>2, SendAndRemoveDrops
  <2>4. Gone(n + 1) = Gone(n) \cup {cs[n + 1]}
    OBVIOUS
  <2> HIDE DEF Gone
  <2>5. Drops(s, after[n + 1], Gone(n + 1))
    BY <2>1, <2>3, <2>4 DEF Drops, SameRest
  <2>6. QED
    BY <1>2, <2>5
<1>5. Len(cs) \in G
  <2> HIDE DEF G
  <2>1. \A k \in 0 .. Len(cs) : k \in G
    BY <1>2, <1>3, <1>4, UpTo
  <2>2. QED
    BY <1>2, <2>1
<1>6. Gone(Len(cs)) = ToSet(cs)
  BY DEF ToSet
<1> HIDE DEF Gone
<1>7. QED
  BY <1>1, <1>5, <1>6

\* The orders of a finite set hold all its elements.
LEMMA SetToSeqsAll ==
    ASSUME NEW S, IsFiniteSet(S), NEW cs \in SetToSeqs(S)
    PROVE  cs \in Seq(S) /\ ToSet(cs) = S
<1> DEFINE n == Cardinality(S)
<1>1. n \in Nat
  BY FS_CardinalityType
<1>2. cs \in [1 .. n -> S] /\ \A i, j \in 1 .. n : i # j => cs[i] # cs[j]
  BY DEF SetToSeqs
<1>3. cs \in Seq(S) /\ Len(cs) = n
  BY <1>1, <1>2
<1>4. Cardinality(1 .. n) = n
  BY <1>1, FS_Interval
<1>5. cs \in Injection(1 .. n, S)
  BY <1>2 DEF Injection, IsInjective
<1> HIDE DEF n
<1>6. cs \in Surjection(1 .. n, S)
  BY <1>4, <1>5, FS_Injection DEF n
<1>7. \A c \in S : \E i \in 1 .. n : cs[i] = c
  BY <1>6 DEF Surjection
<1>8. ToSet(cs) = S
  BY <1>2, <1>3, <1>7 DEF ToSet
<1>9. QED
  BY <1>3, <1>8

LEMMA IdsFinite ==
    ASSUME setup \in Setups, NEW C, C \subseteq Ids
    PROVE  IsFiniteSet(C)
<1>1. IsFiniteSet(Ids)
  BY SetupOK, FS_Interval
<1>2. QED
  BY <1>1, FS_Subset

-----------------------------------------------------------------------------
(* A step of the specification.                                            *)

\* Sound speaks of the instance, which stays.
LEMMA SoundPrimed ==
    ASSUME setup' = setup, Sound(srv')
    PROVE  Sound(srv)'
<1>1. Ids' = Ids /\ Terminals' = Terminals
  BY DEF Ids, Terminals
<1>2. Screen' = Screen
  BY <1>1 DEF Screen
<1>3. Letter' = Letter
  BY <1>2 DEF Letter
<1>4. Connection' = Connection
  BY <1>1, <1>2 DEF Connection
<1>5. Wire' = Wire
  BY <1>2, <1>3 DEF Wire
<1>6. Connections' = Connections
  BY <1>1, <1>4 DEF Connections
<1>7. Server' = Server
  BY <1>1, <1>5, <1>6 DEF Server
<1>8. QED
  BY <1>7 DEF Sound, ConnectionsOK, ForegroundOK, AttachmentsOK, SizesOK, IsApp, Once

\* What a step has to keep.
LEMMA StepKeeps ==
    ASSUME Typed, setup' = setup, Sound(srv'), FreshOK',
           users' \in [Ids -> {"out", "open", "shut", "done"}],
           content' \in [{Chrome} \cup Terminals -> Nat], written' \in SUBSET Terminals,
           left' \in [outputs : Nat, events : Nat, terminals : Nat],
           \A c \in Ids : users'[c] \in {"out", "done"} =>
               c \notin DOMAIN srv'.conns /\ srv'.wires[c] = Unused,
           \A c \in Ids : ~srv'.wires[c].alive => users'[c] = "shut",
           \A c \in Ids : users'[c] = "open" => WireOK(srv'.wires[c]),
           \A c \in DOMAIN srv'.conns : users'[c] = "open" =>
               srv'.conns[c].last \in {None, Coming(srv'.wires[c])}
    PROVE  IInv'
<1>1. Ids' = Ids /\ Terminals' = Terminals
  BY DEF Ids, Terminals
<1>2. Sound(srv)'
  BY SoundPrimed
<1>3. srv' \in Server'
  BY <1>2 DEF Sound
<1>4. Typed'
  BY <1>1, <1>3 DEF Typed
<1>5. UsersOK(srv)'
  BY <1>1 DEF UsersOK, Unused
<1>6. WiresOK(srv)'
  BY <1>1 DEF WiresOK, WireOK, Coming
<1>7. QED
  BY <1>2, <1>4, <1>5, <1>6 DEF IInv

\* The clients at the other end and what they are sent stay.
Tame(s, x) ==
    /\ Sound(x) /\ x.wires = s.wires
    /\ DOMAIN x.conns \subseteq DOMAIN s.conns
    /\ \A c \in DOMAIN x.conns : x.conns[c].last \in {s.conns[c].last, None}

LEMMA StepTame ==
    ASSUME IInv, setup' = setup, Tame(srv, srv'), users' = users, FreshOK',
           content' \in [{Chrome} \cup Terminals -> Nat], written' \in SUBSET Terminals,
           left' \in [outputs : Nat, events : Nat, terminals : Nat]
    PROVE  IInv'
<1>1. /\ Typed /\ users \in [Ids -> {"out", "open", "shut", "done"}]
      /\ UsersOK(srv) /\ WiresOK(srv)
  BY DEF IInv, Typed
<1>2. /\ Sound(srv') /\ srv'.wires = srv.wires /\ DOMAIN srv'.conns \subseteq DOMAIN srv.conns
      /\ \A c \in DOMAIN srv'.conns : srv'.conns[c].last \in {srv.conns[c].last, None}
  BY DEF Tame
<1>3. DOMAIN srv'.conns \subseteq Ids
  BY <1>2, ConnectionFields DEF Sound
<1>4. \A c \in Ids : users'[c] \in {"out", "done"} =>
          c \notin DOMAIN srv'.conns /\ srv'.wires[c] = Unused
  BY <1>1, <1>2 DEF UsersOK
<1>5. \A c \in Ids : ~srv'.wires[c].alive => users'[c] = "shut"
  BY <1>1, <1>2 DEF UsersOK
<1>6. \A c \in Ids : users'[c] = "open" => WireOK(srv'.wires[c])
  BY <1>1, <1>2 DEF WiresOK
<1>7. \A c \in DOMAIN srv'.conns : users'[c] = "open" =>
          srv'.conns[c].last \in {None, Coming(srv'.wires[c])}
  BY <1>1, <1>2, <1>3 DEF WiresOK
<1>8. QED
  BY <1>1, <1>2, <1>4, <1>5, <1>6, <1>7, StepKeeps

\* Nothing is due before a render that is requested.
LEMMA FullFresh ==
    ASSUME srv'.full
    PROVE  FreshOK'
BY DEF FreshOK

LEMMA FullFields ==
    ASSUME NEW s, Sound(s)
    PROVE  LET x == Full(s)
           IN  /\ Sound(x) /\ Alike(s, x) /\ x.full /\ x.conns = s.conns /\ x.wires = s.wires
               /\ x.sizes = s.sizes /\ x.dirty = s.dirty /\ x.sources = s.sources /\ x.drained = s.drained
<1> DEFINE x == Full(s)
<1>1. s \in Server
  BY DEF Sound
<1>2. /\ x \in Server /\ x.conns = s.conns /\ x.wires = s.wires /\ x.sizes = s.sizes /\ x.full
      /\ x.recent = s.recent /\ x.fg = s.fg /\ x.size = s.size /\ SameTerminals(s, x)
      /\ x.dirty = s.dirty /\ x.sources = s.sources /\ x.drained = s.drained
  BY <1>1 DEF Full, Server, SameTerminals
<1> HIDE DEF x
<1>3. Alike(s, x)
  BY <1>2 DEF Alike, SameWho
<1>4. Sound(x)
  BY <1>3, AlikeSound
<1>5. QED
  BY <1>2, <1>3, <1>4 DEF x

\* A request for a render changes nothing else.
LEMMA FullTame ==
    ASSUME NEW s, NEW x, Tame(s, x)
    PROVE  Tame(s, Full(x))
BY FullFields DEF Tame

LEMMA RemovesTame ==
    ASSUME NEW s, Sound(s), NEW x, NEW C, Removes(s, x, C)
    PROVE  Tame(s, x)
<1>1. Sound(x)
  BY NearlySound DEF Removes, Sound
<1>2. QED
  BY <1>1 DEF Removes, Tame, Reduced, SameClient, SameRest

LEMMA CountsTyped ==
    ASSUME Typed, NEW n \in {"outputs", "events", "terminals"}, Counts(n)
    PROVE  left' \in [outputs : Nat, events : Nat, terminals : Nat]
<1>1. left \in [outputs : Nat, events : Nat, terminals : Nat]
  BY DEF Typed
<1>2. left[n] > 0 /\ left' = [left EXCEPT ![n] = @ - 1]
  BY DEF Counts
<1>3. QED
  BY <1>1, <1>2

LEMMA Known ==
    ASSUME IInv
    PROVE  /\ setup \in Setups /\ Typed /\ Sound(srv) /\ Nearly(srv) /\ SizesOK(srv)
           /\ srv \in Server /\ ConnectionsOK(srv) /\ ForegroundOK(srv) /\ AttachmentsOK(srv)
           /\ UsersOK(srv) /\ WiresOK(srv) /\ FreshOK
           /\ DOMAIN srv.conns \subseteq Ids /\ None \notin Ids
           /\ users \in [Ids -> {"out", "open", "shut", "done"}]
           /\ content \in [{Chrome} \cup Terminals -> Nat] /\ written \in SUBSET Terminals
           /\ left \in [outputs : Nat, events : Nat, terminals : Nat]
<1>1. /\ Typed /\ Sound(srv) /\ UsersOK(srv) /\ WiresOK(srv) /\ FreshOK
  BY DEF IInv
<1>2. /\ setup \in Setups /\ users \in [Ids -> {"out", "open", "shut", "done"}]
      /\ content \in [{Chrome} \cup Terminals -> Nat] /\ written \in SUBSET Terminals
      /\ left \in [outputs : Nat, events : Nat, terminals : Nat]
  BY <1>1 DEF Typed
<1>3. srv \in Server /\ ConnectionsOK(srv) /\ ForegroundOK(srv) /\ AttachmentsOK(srv) /\ SizesOK(srv)
  BY <1>1 DEF Sound
<1>4. DOMAIN srv.conns \subseteq Ids /\ None \notin Ids
  BY <1>2, <1>3, ConnectionFields, SetupOK
<1>5. Nearly(srv)
  BY <1>1, NearlySound
<1>6. QED
  BY <1>1, <1>2, <1>3, <1>4, <1>5

LEMMA ConnectKeeps ==
    ASSUME IInv, NEW c \in Ids, Connect(c)
    PROVE  IInv'
<1>0. /\ setup \in Setups /\ Typed /\ Sound(srv) /\ Nearly(srv)
      /\ srv \in Server /\ ConnectionsOK(srv) /\ ForegroundOK(srv) /\ AttachmentsOK(srv)
      /\ UsersOK(srv) /\ WiresOK(srv)
      /\ DOMAIN srv.conns \subseteq Ids /\ None \notin Ids
      /\ users \in [Ids -> {"out", "open", "shut", "done"}]
  BY Known
<1> DEFINE z == Touch(srv, c)
           k == NewConnection(c)
           conns == [d \in DOMAIN z.conns \cup {c} |-> IF d = c THEN k ELSE z.conns[d]]
           s == [z EXCEPT !.conns = conns]
           app == setup.kinds[c] = "app"
           y == IF app THEN [s EXCEPT !.fg = c] ELSE s
           v == SyncForeground(y)
           u == ResizeShared(v)
           x == Full(u)
<1>1. /\ users[c] = "out" /\ users' = [users EXCEPT ![c] = "open"] /\ srv' = x
      /\ setup' = setup /\ content' = content /\ written' = written /\ left' = left
  BY DEF Connect
<1>2. c \notin DOMAIN srv.conns /\ srv.wires[c] = Unused
  BY <1>0, <1>1 DEF UsersOK
<1>3. /\ k \in Connection /\ k.terminal = None /\ k.writer /\ k.last = None
      /\ k.mode = IF app THEN "app" ELSE "pending"
  <2>1. setup.first[c] \in Nat
    BY <1>0, SetupOK
  <2>2. QED
    BY <2>1 DEF NewConnection, Connection
<1> HIDE DEF k
<1>4. /\ z \in Server /\ z.conns = srv.conns /\ z.fg = srv.fg /\ z.size = srv.size
      /\ SameTerminals(srv, z) /\ SameScreens(srv, z) /\ SameRest(srv, z)
      /\ Once(z.recent) /\ ToSet(z.recent) = ToSet(srv.recent) \cup {c}
  BY <1>0, TouchFields DEF ConnectionsOK
<1> HIDE DEF z
<1>5. /\ DOMAIN conns = DOMAIN srv.conns \cup {c} /\ conns[c] = k
      /\ \A d \in DOMAIN srv.conns : conns[d] = srv.conns[d]
  BY <1>2, <1>4
<1>6. conns \in Connections
  <2> HIDE DEF conns
  <2>1. \A d \in DOMAIN conns : d \in Ids /\ conns[d] \in Connection
    BY <1>0, <1>3, <1>5, ConnectionFields
  <2>2. DOMAIN conns \subseteq Ids
    BY <2>1
  <2>3. conns \in [DOMAIN conns -> Connection]
    <3>1. conns = [d \in DOMAIN conns |-> conns[d]]
      BY DEF conns
    <3>2. QED
      BY <2>1, <3>1
  <2>4. QED
    BY <2>2, <2>3, ConnectionsDef
<1> HIDE DEF conns
<1>7. /\ y \in Server /\ y.conns = conns /\ y.recent = z.recent
      /\ y.fg = IF app THEN c ELSE srv.fg
      /\ SameTerminals(srv, y) /\ SameScreens(srv, y) /\ SameRest(srv, y)
  BY <1>4, <1>6 DEF Server, SameTerminals, SameScreens, SameRest
<1> HIDE DEF y
<1>8. /\ v \in Server /\ v.conns = y.conns /\ v.recent = y.recent
      /\ SameTerminals(y, v) /\ SameScreens(y, v) /\ SameRest(y, v)
      /\ IF y.fg \in DOMAIN y.conns
         THEN v.fg = y.fg /\ v.size = y.conns[y.fg].size
         ELSE v.fg = None /\ v.size = 0
  BY <1>0, <1>7, SyncFields
<1> HIDE DEF v
<1>9. ConnectionsOK(v)
  BY <1>0, <1>3, <1>4, <1>5, <1>7, <1>8 DEF ConnectionsOK
<1>10. ForegroundOK(v)
  <2>1. CASE app
    BY <1>0, <1>3, <1>5, <1>7, <1>8, <2>1 DEF ForegroundOK, IsApp
  <2>2. CASE ~app
    BY <1>0, <1>2, <1>3, <1>5, <1>7, <1>8, <2>2 DEF ForegroundOK, IsApp
  <2>3. QED
    BY <2>1, <2>2
<1>11. /\ v.owners = srv.owners /\ v.locks = srv.locks /\ v.live = srv.live /\ v.reads = srv.reads
       /\ v.sizes = srv.sizes /\ v.wires = srv.wires /\ v.conns = conns
  BY <1>7, <1>8 DEF SameTerminals, SameScreens, SameRest
<1>12. AttachmentsOK(v)
  BY <1>0, <1>2, <1>3, <1>5, <1>11 DEF AttachmentsOK
<1>13. OwnedSizesOK(v)
  BY <1>0, <1>5, <1>11 DEF OwnedSizesOK, AttachmentsOK, Nearly
<1>14. Nearly(v)
  BY <1>8, <1>9, <1>10, <1>12, <1>13 DEF Nearly
<1>15. Sound(u)
  BY <1>0, <1>14, ResizeSharedSound
<1>16. /\ u.wires = srv.wires /\ DOMAIN u.conns = DOMAIN srv.conns \cup {c}
       /\ \A d \in DOMAIN u.conns : u.conns[d].last \in {v.conns[d].last, None}
  BY <1>0, <1>5, <1>8, <1>11, ResizeSharedFields DEF Reduced, SameClient, SameRest
<1> HIDE DEF u
<1>17. /\ Sound(x) /\ x.full /\ x.wires = srv.wires /\ x.conns = u.conns
  BY <1>15, <1>16, FullFields
<1> HIDE DEF x
<1>18. \A d \in Ids : users'[d] = IF d = c THEN "open" ELSE users[d]
  BY <1>0, <1>1
<1>19. FreshOK'
  BY <1>1, <1>17, FullFresh
<1>20. \A d \in Ids : users'[d] \in {"out", "done"} =>
          d \notin DOMAIN srv'.conns /\ srv'.wires[d] = Unused
  BY <1>0, <1>1, <1>16, <1>17, <1>18 DEF UsersOK
<1>21. \A d \in Ids : ~srv'.wires[d].alive => users'[d] = "shut"
  BY <1>0, <1>1, <1>2, <1>17, <1>18 DEF UsersOK, Unused
<1>22. \A d \in Ids : users'[d] = "open" => WireOK(srv'.wires[d])
  BY <1>0, <1>1, <1>2, <1>17, <1>18 DEF WiresOK, Unused, WireOK
<1>23. \A d \in DOMAIN srv'.conns : users'[d] = "open" =>
          srv'.conns[d].last \in {None, Coming(srv'.wires[d])}
  BY <1>0, <1>1, <1>2, <1>3, <1>5, <1>11, <1>16, <1>17, <1>18 DEF WiresOK
<1>24. users' \in [Ids -> {"out", "open", "shut", "done"}]
  BY <1>0, <1>1
<1>25. QED
  BY <1>0, <1>1, <1>17, <1>19, <1>20, <1>21, <1>22, <1>23, <1>24, StepKeeps, Known

\* Nobody is about to leave.
Quiet(s) ==
    (\A d \in Ids : users[d] # "shut") /\ (\A d \in DOMAIN s.conns : s.conns[d].writer)

LEMMA FreshMeans ==
    ASSUME DOMAIN srv.conns \subseteq Ids
    PROVE  FreshOK <=> (~srv.full /\ Quiet(srv) => Due(srv))
<1>1. (\A d \in Ids : ~Leaving(d)) <=> Quiet(srv)
  BY DEF Leaving, Quiet, HasWriter
<1>2. QED
  BY <1>1 DEF FreshOK, Due

LEMMA FreshPrimed ==
    ASSUME setup' = setup, users' = users, content' = content, written' = written,
           DOMAIN srv'.conns \subseteq Ids, ~srv'.full /\ Quiet(srv') => Due(srv')
    PROVE  FreshOK'
<1>1. Ids' = Ids /\ Terminals' = Terminals
  BY DEF Ids, Terminals
<1>2. SUFFICES ASSUME ~srv'.full, \A d \in Ids : ~Leaving(d)', NEW c \in Targets(srv)'
               PROVE  (Waits(srv, c) \/ Fresh(srv, c, Coming(srv.wires[c])))'
  BY <1>1 DEF FreshOK
<1>3. Quiet(srv')
  BY <1>2 DEF Leaving, Quiet, HasWriter
<1>4. c \in Targets(srv')
  BY <1>2 DEF Targets, HasWriter
<1>5. Waits(srv', c) \/ Fresh(srv', c, Coming(srv'.wires[c]))
  BY <1>2, <1>3, <1>4 DEF Due
<1>6. QED
  BY <1>1, <1>5 DEF Waits, Fresh, Right, Part, Shows, IsApp, Coming

LEMMA QuietCalm ==
    ASSUME NEW s, UsersOK(s), Quiet(s), DOMAIN s.conns \subseteq Ids,
           users \in [Ids -> {"out", "open", "shut", "done"}]
    PROVE  Calm(s)
BY DEF UsersOK, Quiet, Calm

LEMMA SetConnection ==
    ASSUME NEW s \in Server, NEW c \in DOMAIN s.conns, NEW l \in Connection
    PROVE  LET x == [s EXCEPT !.conns[c] = l]
           IN  /\ x \in Server /\ x.recent = s.recent /\ x.fg = s.fg /\ x.size = s.size
               /\ SameTerminals(s, x) /\ SameScreens(s, x) /\ SameRest(s, x)
               /\ DOMAIN x.conns = DOMAIN s.conns /\ x.conns[c] = l
               /\ \A d \in DOMAIN s.conns : d # c => x.conns[d] = s.conns[d]
<1> DEFINE conns == [s.conns EXCEPT ![c] = l]
           x == [s EXCEPT !.conns = conns]
<1>1. /\ DOMAIN conns = DOMAIN s.conns /\ conns[c] = l
      /\ \A d \in DOMAIN s.conns : d # c => conns[d] = s.conns[d]
  OBVIOUS
<1>2. conns \in Connections
  <2>1. \A d \in DOMAIN conns : d \in Ids /\ conns[d] \in Connection
    BY <1>1, ConnectionFields
  <2>2. conns \in [DOMAIN conns -> Connection]
    BY <2>1
  <2>3. QED
    BY <2>1, <2>2, ConnectionsDef
<1> HIDE DEF conns
<1>3. /\ x \in Server /\ x.conns = conns /\ x.recent = s.recent /\ x.fg = s.fg /\ x.size = s.size
      /\ SameTerminals(s, x) /\ SameScreens(s, x) /\ SameRest(s, x)
  BY <1>2 DEF Server, SameTerminals, SameScreens, SameRest
<1>4. QED
  BY <1>1, <1>3 DEF conns

\* A pending client becomes a viewer.
LEMMA StreamFields ==
    ASSUME setup \in Setups, NEW s, Nearly(s), NEW c \in DOMAIN s.conns, s.conns[c].mode = "pending",
           NEW mode \in {"attach", "observe"}, NEW t \in Terminals
    PROVE  LET x == Stream(s, c, mode, t)
           IN  /\ x \in Server /\ x.fg = s.fg /\ x.size = s.size
               /\ SameTerminals(s, x) /\ SameScreens(s, x) /\ SameRest(s, x)
               /\ ConnectionsOK(x) /\ ForegroundOK(x)
               /\ DOMAIN x.conns = DOMAIN s.conns
               /\ x.conns[c].mode = mode /\ x.conns[c].terminal = t /\ x.conns[c].last = None
               /\ x.conns[c].size = s.conns[c].size
               /\ \A d \in DOMAIN s.conns : d # c => x.conns[d] = s.conns[d]
<1> DEFINE z == Touch(s, c)
           k == z.conns[c]
           l == [k EXCEPT !.mode = mode, !.terminal = t, !.last = None, !.repaint = FALSE]
           x == [z EXCEPT !.conns[c] = l]
<1>1. s \in Server /\ ConnectionsOK(s) /\ ForegroundOK(s) /\ c \in Ids /\ None \notin Terminals
      /\ None \notin Ids
  BY ConnectionFields, SetupOK DEF Nearly
<1>2. s.fg # c
  BY <1>1 DEF ForegroundOK, IsApp
<1>3. Stream(s, c, mode, t) = x
  BY <1>2 DEF Stream
<1>4. /\ z \in Server /\ z.conns = s.conns /\ z.fg = s.fg /\ z.size = s.size
      /\ SameTerminals(s, z) /\ SameScreens(s, z) /\ SameRest(s, z)
      /\ Once(z.recent) /\ ToSet(z.recent) = ToSet(s.recent) \cup {c}
  BY <1>1, TouchFields DEF ConnectionsOK
<1> HIDE DEF z
<1>5. k \in Connection
  BY <1>4, ConnectionFields
<1>6. /\ l \in Connection /\ l.mode = mode /\ l.terminal = t /\ l.last = None /\ l.size = k.size
      /\ l.writer = k.writer
  BY <1>5 DEF Connection
<1> HIDE DEF l
<1>7. /\ x \in Server /\ x.recent = z.recent /\ x.fg = z.fg /\ x.size = z.size
      /\ SameTerminals(z, x) /\ SameScreens(z, x) /\ SameRest(z, x)
      /\ DOMAIN x.conns = DOMAIN z.conns /\ x.conns[c] = l
      /\ \A d \in DOMAIN z.conns : d # c => x.conns[d] = z.conns[d]
  BY <1>4, <1>6, SetConnection
<1> HIDE DEF x
<1>8. SameTerminals(s, x) /\ SameScreens(s, x) /\ SameRest(s, x)
  BY <1>4, <1>7 DEF SameTerminals, SameScreens, SameRest
<1>9. ConnectionsOK(x)
  <2>1. ToSet(x.recent) = DOMAIN x.conns /\ Once(x.recent)
    BY <1>1, <1>4, <1>7 DEF ConnectionsOK
  <2>2. k.writer
    BY <1>1, <1>4, <1>5 DEF ConnectionsOK, Connection
  <2>3. ASSUME NEW d \in DOMAIN x.conns
        PROVE  /\ x.conns[d].mode \in {"attach", "observe"} <=> x.conns[d].terminal # None
               /\ ~x.conns[d].writer => x.conns[d].mode = "app"
    <3>1. CASE d = c
      BY <1>1, <1>6, <1>7, <2>2, <3>1
    <3>2. CASE d # c
      BY <1>1, <1>4, <1>7, <2>3, <3>2 DEF ConnectionsOK
    <3>3. QED
      BY <3>1, <3>2
  <2>4. QED
    BY <2>1, <2>3 DEF ConnectionsOK
<1>10. ForegroundOK(x)
  BY <1>1, <1>2, <1>4, <1>6, <1>7 DEF ForegroundOK, IsApp
<1>11. QED
  BY <1>3, <1>4, <1>6, <1>7, <1>8, <1>9, <1>10

\* A pending client that cannot have what it asks for is removed.
LEMMA RefusalKeeps ==
    ASSUME IInv, NEW c, Pending(c), srv' = RemoveAndResize(srv, c),
           UNCHANGED <<setup, users, content, written, left>>
    PROVE  IInv'
<1>0. /\ setup \in Setups /\ Sound(srv) /\ Nearly(srv) /\ SizesOK(srv) /\ FreshOK
      /\ srv \in Server /\ ConnectionsOK(srv) /\ ForegroundOK(srv) /\ DOMAIN srv.conns \subseteq Ids
      /\ None \notin Ids
      /\ content \in [{Chrome} \cup Terminals -> Nat] /\ written \in SUBSET Terminals
      /\ left \in [outputs : Nat, events : Nat, terminals : Nat]
  BY Known
<1>1. c \in DOMAIN srv.conns /\ srv.conns[c].mode = "pending"
  BY DEF Pending
<1>2. ~NeedsSharedResize(srv, c)
  BY <1>0, <1>1 DEF NeedsSharedResize, ForegroundOK, IsApp
<1> DEFINE x == RemoveClient(srv, c)
<1>3. srv' = x
  BY <1>2 DEF RemoveAndResize
<1>4. /\ x \in Server /\ DOMAIN x.conns = DOMAIN srv.conns \ {c}
      /\ \A d \in DOMAIN x.conns : x.conns[d] = srv.conns[d]
      /\ x.live = srv.live /\ SameScreens(srv, x) /\ SameRest(srv, x)
      /\ Nearly(x) /\ SizesOK(x)
  BY <1>0, <1>2, RemoveClientFields
<1> HIDE DEF x
<1>5. Tame(srv, x)
  BY <1>4, NearlySound DEF Tame, SameRest
<1>6. ASSUME ~x.full, Quiet(x) PROVE Due(x)
  <2>1. Quiet(srv)
    BY <1>0, <1>1, <1>4, <1>6 DEF Quiet, ConnectionsOK
  <2>2. Due(srv)
    BY <1>0, <1>4, <1>6, <2>1, FreshMeans DEF SameRest
  <2>3. ASSUME NEW d \in Targets(x) PROVE Waits(x, d) \/ Fresh(x, d, Coming(x.wires[d]))
    <3>1. d \in Targets(srv) /\ d \in DOMAIN x.conns /\ x.conns[d] = srv.conns[d]
      BY <1>4, <2>3 DEF Targets, HasWriter
    <3>2. Waits(srv, d) \/ Fresh(srv, d, Coming(srv.wires[d]))
      BY <2>2, <3>1 DEF Due
    <3>3. Waits(srv, d) => Waits(x, d)
      BY <1>4, <3>1 DEF Waits, SameRest
    <3>4. Shows(x, d) = Shows(srv, d) /\ \A p : Part(x, p) = Part(srv, p)
      BY <1>4, <3>1 DEF Shows, IsApp, Part, SameScreens, Targets
    <3>5. x.wires = srv.wires /\ x.sources = srv.sources /\ x.dirty = srv.dirty
      BY <1>4 DEF SameRest, SameScreens
    <3>6. Fresh(srv, d, Coming(srv.wires[d])) => Fresh(x, d, Coming(x.wires[d]))
      BY <3>1, <3>4, <3>5 DEF Fresh, Right
    <3>7. QED
      BY <3>2, <3>3, <3>6
  <2>4. QED
    BY <2>3 DEF Due
<1>7. FreshOK'
  BY <1>0, <1>3, <1>4, <1>6, FreshPrimed
<1>8. QED
  BY <1>0, <1>3, <1>5, <1>7, StepTame

\* A step that only asks for a render.
LEMMA RequestKeeps ==
    ASSUME IInv, NEW x, Tame(srv, x), srv' = Full(x), setup' = setup, users' = users,
           content' \in [{Chrome} \cup Terminals -> Nat], written' \in SUBSET Terminals,
           left' \in [outputs : Nat, events : Nat, terminals : Nat]
    PROVE  IInv'
<1>1. Tame(srv, srv')
  BY FullTame
<1>2. srv'.full
  BY FullFields DEF Tame
<1>3. QED
  BY <1>1, <1>2, FullFresh, StepTame

LEMMA ObserveKeeps ==
    ASSUME IInv, NEW c \in Ids, NEW t \in Terminals, Observe(c, t)
    PROVE  IInv'
<1>0. /\ setup \in Setups /\ Sound(srv) /\ Nearly(srv) /\ SizesOK(srv) /\ AttachmentsOK(srv)
      /\ ForegroundOK(srv) /\ srv \in Server /\ None \notin Ids
      /\ content \in [{Chrome} \cup Terminals -> Nat] /\ written \in SUBSET Terminals
      /\ left \in [outputs : Nat, events : Nat, terminals : Nat]
  BY Known
<1> DEFINE x == Stream(srv, c, "observe", t)
<1>1. /\ Pending(c) /\ UNCHANGED <<setup, users, content, written, left>>
      /\ srv' = IF t \in srv.live THEN Full(x) ELSE RemoveAndResize(srv, c)
  BY DEF Observe
<1>2. c \in DOMAIN srv.conns /\ srv.conns[c].mode = "pending"
  BY <1>1 DEF Pending
<1>3. CASE t \notin srv.live
  <2>1. srv' = RemoveAndResize(srv, c)
    BY <1>1, <1>3
  <2>2. QED
    BY <1>1, <2>1, RefusalKeeps
<1>4. CASE t \in srv.live
  <2>1. /\ x \in Server /\ x.fg = srv.fg /\ x.size = srv.size
        /\ SameTerminals(srv, x) /\ SameScreens(srv, x) /\ SameRest(srv, x)
        /\ ConnectionsOK(x) /\ ForegroundOK(x)
        /\ DOMAIN x.conns = DOMAIN srv.conns
        /\ x.conns[c].mode = "observe" /\ x.conns[c].terminal = t /\ x.conns[c].last = None
        /\ x.conns[c].size = srv.conns[c].size
        /\ \A d \in DOMAIN srv.conns : d # c => x.conns[d] = srv.conns[d]
    BY <1>0, <1>2, StreamFields
  <2>2. srv' = Full(x)
    BY <1>1, <1>4
  <2> HIDE DEF x
  <2>3. \A u \in srv.live : srv.owners[u] # c
    BY <1>0, <1>2 DEF AttachmentsOK
  <2>4. AttachmentsOK(x)
    BY <1>0, <1>2, <2>1, <2>3 DEF AttachmentsOK, SameTerminals
  <2>5. SizesOK(x)
    BY <1>0, <2>1, <2>3 DEF SizesOK, AttachmentsOK, SameTerminals, SameScreens
  <2>6. Sound(x)
    BY <2>1, <2>4, <2>5 DEF Sound
  <2>7. Tame(srv, x)
    BY <2>1, <2>6 DEF Tame, SameRest
  <2>8. QED
    BY <1>0, <1>1, <2>2, <2>7, RequestKeeps
<1>5. QED
  BY <1>3, <1>4

\* The terminal is free once its owner, if there is one, is removed.
LEMMA Free ==
    ASSUME setup \in Setups, NEW s, Sound(s), NEW t \in s.live
    PROVE  LET owner == s.owners[t]
               x == IF owner = None THEN s ELSE RemoveAndResize(s, owner)
           IN  /\ Sound(x) /\ Tame(s, x) /\ x.live = s.live /\ x.reads = s.reads
               /\ x.owners[t] = None /\ DOMAIN x.conns = DOMAIN s.conns \ {owner}
               /\ \A d \in DOMAIN x.conns : x.conns[d].mode = s.conns[d].mode
<1> DEFINE owner == s.owners[t]
           y == RemoveAndResize(s, owner)
<1>1. s \in Server /\ AttachmentsOK(s) /\ Nearly(s) /\ DOMAIN s.conns \subseteq Ids /\ None \notin Ids
  BY NearlySound, SetupOK, ConnectionFields DEF Sound
<1>2. CASE owner = None
  BY <1>1, <1>2 DEF Tame
<1>3. CASE owner # None
  <2>1. Removes(s, y, {owner})
    BY <1>1, RemoveAndResizeRemoves
  <2> HIDE DEF y
  <2>2. Tame(s, y)
    BY <2>1, RemovesTame
  <2>3. /\ DOMAIN y.conns = DOMAIN s.conns \ {owner} /\ y.live = s.live /\ y.reads = s.reads
        /\ \A d \in DOMAIN y.conns : y.conns[d].mode = s.conns[d].mode /\ y.conns[d].terminal = s.conns[d].terminal
    BY <2>1 DEF Removes, Reduced, SameClient
  <2>4. AttachmentsOK(y)
    BY <2>2 DEF Tame, Sound
  <2>5. \A d \in DOMAIN y.conns : ~(y.conns[d].mode = "attach" /\ y.conns[d].terminal = t)
    BY <1>1, <2>3 DEF AttachmentsOK
  <2>6. y.owners[t] = None
    BY <2>3, <2>4, <2>5 DEF AttachmentsOK
  <2>7. QED
    BY <1>3, <2>2, <2>3, <2>6 DEF Tame, y
<1>4. QED
  BY <1>2, <1>3

LEMMA AttachKeeps ==
    ASSUME IInv, NEW c \in Ids, NEW t \in Terminals, NEW takeover \in BOOLEAN, Attach(c, t, takeover)
    PROVE  IInv'
<1>0. /\ setup \in Setups /\ Sound(srv) /\ AttachmentsOK(srv) /\ srv \in Server /\ None \notin Ids
      /\ content \in [{Chrome} \cup Terminals -> Nat] /\ written \in SUBSET Terminals
      /\ left \in [outputs : Nat, events : Nat, terminals : Nat]
  BY Known
<1> DEFINE owner == srv.owners[t]
           o == IF owner = None THEN srv ELSE RemoveAndResize(srv, owner)
           s == Stream(o, c, "attach", t)
           y == [s EXCEPT !.owners[t] = c, !.locks = @ \cup {t}]
           x == ResizeTerminals(y, {t}, s.conns[c].size)
           refused == t \notin srv.live \/ t \in srv.reads \/ (owner # None /\ ~takeover)
<1>1. /\ Pending(c) /\ UNCHANGED <<setup, users, content, written, left>>
      /\ srv' = IF refused THEN RemoveAndResize(srv, c) ELSE Full(x)
  BY DEF Attach
<1>2. c \in DOMAIN srv.conns /\ srv.conns[c].mode = "pending"
  BY <1>1 DEF Pending
<1>3. CASE refused
  <2>1. srv' = RemoveAndResize(srv, c)
    BY <1>1, <1>3
  <2>2. QED
    BY <1>1, <2>1, RefusalKeeps
<1>4. CASE ~refused
  <2>1. /\ Sound(o) /\ Tame(srv, o) /\ o.live = srv.live /\ o.reads = srv.reads
        /\ o.owners[t] = None /\ DOMAIN o.conns = DOMAIN srv.conns \ {owner}
        /\ \A d \in DOMAIN o.conns : o.conns[d].mode = srv.conns[d].mode
    BY <1>0, <1>4, Free
  <2>2. srv' = Full(x)
    BY <1>1, <1>4
  <2> HIDE DEF o
  <2>3. c # owner
    BY <1>0, <1>2, <1>4 DEF AttachmentsOK
  <2>4. /\ c \in DOMAIN o.conns /\ o.conns[c].mode = "pending"
        /\ o \in Server /\ AttachmentsOK(o) /\ SizesOK(o) /\ Nearly(o)
    BY <1>2, <2>1, <2>3, NearlySound DEF Sound
  <2>5. /\ s \in Server /\ s.fg = o.fg /\ s.size = o.size
        /\ SameTerminals(o, s) /\ SameScreens(o, s) /\ SameRest(o, s)
        /\ ConnectionsOK(s) /\ ForegroundOK(s)
        /\ DOMAIN s.conns = DOMAIN o.conns
        /\ s.conns[c].mode = "attach" /\ s.conns[c].terminal = t /\ s.conns[c].last = None
        /\ \A d \in DOMAIN o.conns : d # c => s.conns[d] = o.conns[d]
    BY <1>0, <2>4, StreamFields
  <2> HIDE DEF s
  <2>6. /\ y \in Server /\ y.conns = s.conns /\ y.recent = s.recent /\ y.fg = s.fg /\ y.size = s.size
        /\ y.live = s.live /\ y.reads = s.reads /\ SameScreens(s, y) /\ SameRest(s, y)
        /\ y.owners[t] = c /\ y.locks = s.locks \cup {t}
        /\ \A u \in Terminals : u # t => y.owners[u] = s.owners[u]
    BY <2>5 DEF Server, SameScreens, SameRest
  <2> HIDE DEF y
  <2>7. /\ x \in Server /\ x.conns = y.conns /\ x.recent = y.recent /\ x.fg = y.fg /\ x.size = y.size
        /\ SameTerminals(y, x) /\ SameRest(y, x)
        /\ \A u \in Terminals : x.sizes[u] = IF u = t THEN s.conns[c].size ELSE y.sizes[u]
    BY <2>4, <2>5, <2>6, ConnectionFields, ResizeTerminalsFields
  <2> HIDE DEF x
  <2>8. /\ x.live = o.live /\ x.reads = o.reads /\ x.owners[t] = c /\ t \in x.locks
        /\ \A u \in Terminals : u # t =>
              /\ x.owners[u] = o.owners[u] /\ (u \in x.locks <=> u \in o.locks)
              /\ x.sizes[u] = o.sizes[u]
        /\ x.wires = o.wires /\ x.conns = s.conns
    BY <2>5, <2>6, <2>7 DEF SameTerminals, SameScreens, SameRest
  <2>9. o.live \subseteq Terminals
    BY <2>4 DEF Server
  <2>10. AttachmentsOK(x)
    <3>1. SUFFICES ASSUME NEW u \in o.live
                   PROVE  /\ \A d \in DOMAIN x.conns :
                               x.owners[u] = d <=> x.conns[d].mode = "attach" /\ x.conns[d].terminal = u
                          /\ x.owners[u] \in DOMAIN x.conns \cup {None}
                          /\ u \in x.locks <=> x.owners[u] # None
                          /\ u \in x.reads => x.owners[u] = None
      BY <2>8 DEF AttachmentsOK
    <3>2. /\ \A d \in DOMAIN o.conns :
               o.owners[u] = d <=> o.conns[d].mode = "attach" /\ o.conns[d].terminal = u
          /\ o.owners[u] \in DOMAIN o.conns \cup {None}
          /\ u \in o.locks <=> o.owners[u] # None
          /\ u \in o.reads => o.owners[u] = None
      BY <2>4 DEF AttachmentsOK
    <3>3. CASE u = t
      <4>1. x.owners[u] = c /\ u \in x.locks /\ u \notin x.reads /\ o.owners[u] = None
        BY <1>4, <2>1, <2>8, <3>3
      <4>2. \A d \in DOMAIN x.conns : c = d <=> x.conns[d].mode = "attach" /\ x.conns[d].terminal = u
        BY <1>0, <2>1, <2>4, <2>5, <2>8, <3>2, <3>3, <4>1, ConnectionFields
      <4>3. QED
        BY <1>0, <2>4, <2>5, <2>8, <4>1, <4>2
    <3>4. CASE u # t
      <4>1. x.owners[u] = o.owners[u] /\ (u \in x.locks <=> u \in o.locks)
        BY <2>8, <2>9, <3>1, <3>4
      <4>2. QED
        BY <2>4, <2>5, <2>8, <3>2, <3>4, <4>1
    <3>5. QED
      BY <3>3, <3>4
  <2>11. SizesOK(x)
    <3>1. SUFFICES ASSUME NEW u \in o.live
                   PROVE  IF x.owners[u] # None THEN x.sizes[u] = x.conns[x.owners[u]].size
                          ELSE x.fg # None => x.sizes[u] = x.size
      BY <2>8 DEF SizesOK
    <3>2. CASE u = t
      BY <1>0, <2>7, <2>8, <2>9, <3>2
    <3>3. CASE u # t
      <4>1. x.owners[u] = o.owners[u] /\ x.sizes[u] = o.sizes[u]
        BY <2>8, <2>9, <3>3
      <4>2. /\ o.owners[u] \in DOMAIN o.conns \cup {None} /\ o.owners[u] # c
            /\ IF o.owners[u] # None THEN o.sizes[u] = o.conns[o.owners[u]].size
               ELSE o.fg # None => o.sizes[u] = o.size
        BY <2>4 DEF AttachmentsOK, SizesOK
      <4>3. x.fg = o.fg /\ x.size = o.size
        BY <2>5, <2>6, <2>7
      <4>4. QED
        BY <2>5, <2>8, <4>1, <4>2, <4>3
    <3>4. QED
      BY <3>2, <3>3
  <2>12. Sound(x)
    <3>1. ConnectionsOK(x) /\ ForegroundOK(x)
      BY <2>5, <2>6, <2>7 DEF ConnectionsOK, ForegroundOK, IsApp
    <3>2. QED
      BY <2>7, <2>10, <2>11, <3>1 DEF Sound
  <2>13. Tame(srv, x)
    <3>1. x.wires = srv.wires /\ DOMAIN x.conns \subseteq DOMAIN srv.conns
      BY <2>1, <2>5, <2>8 DEF Tame
    <3>2. \A d \in DOMAIN x.conns : x.conns[d].last \in {srv.conns[d].last, None}
      BY <2>1, <2>5, <2>8 DEF Tame
    <3>3. QED
      BY <2>12, <3>1, <3>2 DEF Tame
  <2>14. QED
    BY <1>0, <1>1, <2>2, <2>13, RequestKeeps
<1>5. QED
  BY <1>3, <1>4

\* The client comes to the front; whether the shared sizes still fit is open.
LEMMA PromoteNearly ==
    ASSUME setup \in Setups, NEW s \in Server, ConnectionsOK(s), AttachmentsOK(s), OwnedSizesOK(s),
           NEW c, IsApp(s, c)
    PROVE  /\ Nearly(Promote(s, c)) /\ Promote(s, c).fg = c
           /\ Promote(s, c).conns = s.conns /\ SameRest(s, Promote(s, c))
           /\ Sound(s) /\ s.fg = c => Sound(Promote(s, c))
<1> DEFINE x == Promote(s, c)
<1>1. c \in DOMAIN s.conns
  BY DEF IsApp
<1>2. /\ x \in Server /\ x.conns = s.conns /\ x.fg = c
      /\ SameTerminals(s, x) /\ SameScreens(s, x) /\ SameRest(s, x)
      /\ ForegroundOK(x) /\ ConnectionsOK(x)
  BY <1>1, PromoteFields
<1> HIDE DEF x
<1>3. AttachmentsOK(x) /\ OwnedSizesOK(x)
  BY <1>2 DEF AttachmentsOK, OwnedSizesOK, SameTerminals, SameScreens
<1>4. ASSUME Sound(s), s.fg = c PROVE SizesOK(x)
  <2>1. c # None
    BY <1>1, SetupOK, ConnectionFields
  <2>2. x.size = s.size
    BY <1>2, <1>4, <2>1 DEF Sound, ForegroundOK
  <2>3. QED
    BY <1>2, <1>4, <2>2 DEF Sound, SizesOK, SameTerminals, SameScreens
<1>5. QED
  BY <1>2, <1>3, <1>4 DEF Nearly, Sound, x

\* What happens on input: the shared terminals follow another foreground.
LEMMA FrontSound ==
    ASSUME setup \in Setups, NEW s, Sound(s), NEW c, IsApp(s, c)
    PROVE  LET top == Promote(s, c)
               x == IF s.fg = c THEN top ELSE ResizeShared(top)
           IN  Sound(x) /\ Reduced(s, x) /\ DOMAIN x.conns = DOMAIN s.conns /\ SameRest(s, x)
<1> DEFINE top == Promote(s, c)
           y == ResizeShared(top)
<1>1. s \in Server /\ ConnectionsOK(s) /\ AttachmentsOK(s) /\ OwnedSizesOK(s)
  BY NearlySound DEF Sound, Nearly
<1>2. /\ Nearly(top) /\ top.conns = s.conns /\ SameRest(s, top)
      /\ s.fg = c => Sound(top)
  BY <1>1, PromoteNearly
<1> HIDE DEF top
<1>3. CASE s.fg = c
  BY <1>2, <1>3 DEF Reduced, SameClient, top
<1>4. CASE s.fg # c
  <2>1. Sound(y)
    BY <1>2, ResizeSharedSound
  <2>2. Reduced(top, y) /\ DOMAIN y.conns = DOMAIN top.conns /\ SameRest(top, y)
    BY <1>2, ResizeSharedFields DEF Nearly
  <2> HIDE DEF y
  <2>3. Reduced(s, y) /\ SameRest(s, y)
    BY <1>2, <2>2 DEF Reduced, SameRest
  <2>4. QED
    BY <1>2, <1>4, <2>1, <2>2, <2>3 DEF y, top
<1>5. QED
  BY <1>3, <1>4

LEMMA InputKeeps ==
    ASSUME IInv, NEW c \in Ids, NEW redraw \in BOOLEAN, Input(c, redraw)
    PROVE  IInv'
<1>0. /\ setup \in Setups /\ Typed /\ Sound(srv) /\ srv \in Server
      /\ content \in [{Chrome} \cup Terminals -> Nat] /\ written \in SUBSET Terminals
  BY Known
<1> DEFINE k == srv.conns[c]
           l == IF redraw THEN [RequestRepaint(c, k) EXCEPT !.deferred = TRUE]
                ELSE IF c \in setup.semantic THEN [k EXCEPT !.last = None] ELSE k
           s == [srv EXCEPT !.conns[c] = l]
           top == Promote(s, c)
           x == IF s.fg = c THEN top ELSE ResizeShared(top)
<1>1. /\ IsApp(srv, c) /\ Counts("events") /\ UNCHANGED <<setup, users, content, written>>
      /\ srv' = Full(IF srv.fg = c THEN top ELSE ResizeShared(top))
  BY DEF Input
<1>2. c \in DOMAIN srv.conns /\ k \in Connection
  BY <1>0, <1>1, ConnectionFields DEF IsApp
<1>3. l \in Connection /\ SameWho(k, l) /\ l.last \in {k.last, None}
  <2>1. RequestRepaint(c, k) \in Connection /\ SameClient(k, RequestRepaint(c, k))
    BY <1>2, RepaintFields
  <2> HIDE DEF k
  <2>2. QED
    BY <1>2, <2>1 DEF Connection, SameWho, SameClient
<1> HIDE DEF l
<1>4. /\ s \in Server /\ s.recent = srv.recent /\ s.fg = srv.fg /\ s.size = srv.size
      /\ SameTerminals(srv, s) /\ SameScreens(srv, s) /\ SameRest(srv, s)
      /\ DOMAIN s.conns = DOMAIN srv.conns /\ s.conns[c] = l
      /\ \A d \in DOMAIN srv.conns : d # c => s.conns[d] = srv.conns[d]
  BY <1>0, <1>2, <1>3, SetConnection
<1> HIDE DEF s
<1>5. Sound(s) /\ IsApp(s, c)
  <2>1. \A d \in DOMAIN srv.conns : SameWho(srv.conns[d], s.conns[d])
    BY <1>3, <1>4 DEF SameWho
  <2>2. Alike(srv, s)
    BY <1>4, <2>1 DEF Alike, SameScreens
  <2>3. QED
    BY <1>0, <1>1, <1>4, <2>1, <2>2, AlikeSound DEF IsApp, SameWho
<1>6. Sound(x) /\ Reduced(s, x) /\ DOMAIN x.conns = DOMAIN s.conns /\ SameRest(s, x)
  BY <1>0, <1>5, FrontSound
<1>7. srv' = Full(x)
  BY <1>1, <1>4
<1> HIDE DEF x
<1>8. Tame(srv, x)
  BY <1>3, <1>4, <1>6 DEF Tame, Reduced, SameClient, SameRest
<1>9. left' \in [outputs : Nat, events : Nat, terminals : Nat]
  BY <1>0, <1>1, CountsTyped
<1>10. QED
  BY <1>0, <1>1, <1>7, <1>8, <1>9, RequestKeeps

LEMMA DetachKeyKeeps ==
    ASSUME IInv, NEW c \in Ids, DetachKey(c)
    PROVE  IInv'
<1>0. /\ setup \in Setups /\ Typed /\ Sound(srv) /\ srv \in Server
      /\ content \in [{Chrome} \cup Terminals -> Nat] /\ written \in SUBSET Terminals
  BY Known
<1> DEFINE top == Promote(srv, c)
           s == IF srv.fg = c THEN top ELSE ResizeShared(top)
           k == s.conns[c]
           l == [k EXCEPT !.writer = FALSE, !.last = IF c \in setup.semantic THEN None ELSE k.last]
           x == [s EXCEPT !.conns[c] = l]
<1>1. /\ IsApp(srv, c) /\ Counts("events") /\ UNCHANGED <<setup, users, content, written>>
      /\ srv' = x
  BY DEF DetachKey
<1>2. Sound(s) /\ Reduced(srv, s) /\ DOMAIN s.conns = DOMAIN srv.conns /\ SameRest(srv, s)
  BY <1>0, <1>1, FrontSound
<1> HIDE DEF s
<1>3. c \in DOMAIN s.conns /\ s \in Server /\ k \in Connection /\ k.mode = "app"
  BY <1>1, <1>2, ConnectionFields DEF IsApp, Sound, Reduced, SameClient
<1>4. /\ l \in Connection /\ l.mode = k.mode /\ l.terminal = k.terminal /\ l.size = k.size
      /\ ~l.writer /\ l.last \in {k.last, None}
  BY <1>3 DEF Connection
<1> HIDE DEF l
<1>5. /\ x \in Server /\ x.recent = s.recent /\ x.fg = s.fg /\ x.size = s.size
      /\ SameTerminals(s, x) /\ SameScreens(s, x) /\ SameRest(s, x)
      /\ DOMAIN x.conns = DOMAIN s.conns /\ x.conns[c] = l
      /\ \A d \in DOMAIN s.conns : d # c => x.conns[d] = s.conns[d]
  BY <1>3, <1>4, SetConnection
<1> HIDE DEF x
<1>6. \A d \in DOMAIN s.conns : /\ x.conns[d].mode = s.conns[d].mode
                                /\ x.conns[d].terminal = s.conns[d].terminal
                                /\ x.conns[d].size = s.conns[d].size
  BY <1>4, <1>5
<1>7. ConnectionsOK(x)
  BY <1>2, <1>3, <1>4, <1>5, <1>6 DEF Sound, ConnectionsOK
<1>8. ForegroundOK(x) /\ AttachmentsOK(x)
  BY <1>2, <1>5, <1>6 DEF Sound, ForegroundOK, AttachmentsOK, IsApp, SameTerminals
<1>9. SizesOK(x)
  BY <1>2, <1>5, <1>6 DEF Sound, AttachmentsOK, SizesOK, SameTerminals, SameScreens
<1>10. Sound(x)
  BY <1>5, <1>7, <1>8, <1>9 DEF Sound
<1>11. Tame(srv, x)
  BY <1>2, <1>4, <1>5, <1>10 DEF Tame, Reduced, SameClient, SameRest
<1>12. ~Quiet(x)
  BY <1>3, <1>4, <1>5 DEF Quiet
<1>13. FreshOK'
  <2>1. DOMAIN x.conns \subseteq Ids
    BY <1>5, ConnectionFields
  <2>2. QED
    BY <1>1, <1>12, <2>1, FreshPrimed
<1>14. left' \in [outputs : Nat, events : Nat, terminals : Nat]
  BY <1>0, <1>1, CountsTyped
<1>15. QED
  BY <1>0, <1>1, <1>11, <1>13, <1>14, StepTame

LEMMA ResizeKeeps ==
    ASSUME IInv, NEW c \in Ids, NEW size \in setup.sizes, Resize(c, size)
    PROVE  IInv'
<1>0. /\ setup \in Setups /\ Typed /\ Sound(srv) /\ Nearly(srv) /\ SizesOK(srv) /\ srv \in Server
      /\ ConnectionsOK(srv) /\ ForegroundOK(srv) /\ AttachmentsOK(srv) /\ None \notin Ids
      /\ DOMAIN srv.conns \subseteq Ids
      /\ content \in [{Chrome} \cup Terminals -> Nat] /\ written \in SUBSET Terminals
  BY Known
<1> DEFINE k == srv.conns[c]
           s == [srv EXCEPT !.conns[c].size = size]
           l == RequestRepaint(c, [k EXCEPT !.size = size])
           new == [srv EXCEPT !.conns[c] = l]
           x == IF c \notin DOMAIN srv.conns THEN ResizeShared(srv)
                ELSE IF k.mode = "attach" THEN ResizeTerminals(new, {k.terminal} \cap srv.live, size)
                ELSE IF k.mode = "observe" THEN new ELSE ResizeShared(Promote(s, c))
<1>1. /\ Reads(c) /\ ~Pending(c) /\ Counts("events") /\ UNCHANGED <<setup, users, content, written>>
  BY DEF Resize
<1>2. srv' = Full(x)
  <2>1. CASE c \notin DOMAIN srv.conns
    BY <2>1 DEF Resize
  <2>2. CASE c \in DOMAIN srv.conns
    BY <2>2 DEF Resize
  <2>3. QED
    BY <2>1, <2>2
<1>3. size \in Nat
  BY <1>0, SetupOK
<1>4. left' \in [outputs : Nat, events : Nat, terminals : Nat]
  BY <1>0, <1>1, CountsTyped
<1>5. CASE c \notin DOMAIN srv.conns
  <2> DEFINE y == ResizeShared(srv)
  <2>1. x = y
    BY <1>5
  <2>2. Sound(y)
    BY <1>0, ResizeSharedSound
  <2>3. SameRest(srv, y) /\ Reduced(srv, y)
    BY <1>0, ResizeSharedFields
  <2> HIDE DEF x, y
  <2>4. Tame(srv, x)
    BY <2>1, <2>2, <2>3 DEF Tame, Reduced, SameRest, SameClient
  <2>5. QED
    BY <1>0, <1>1, <1>2, <1>4, <2>4, RequestKeeps
<1>6. CASE c \in DOMAIN srv.conns /\ k.mode \in {"attach", "observe"}
  <2>1. k \in Connection /\ k.terminal \in Terminals \cup {None}
    BY <1>0, <1>6, ConnectionFields
  <2>2. [k EXCEPT !.size = size] \in Connection
    BY <1>3, <2>1 DEF Connection
  <2>3. /\ l \in Connection /\ l.mode = k.mode /\ l.terminal = k.terminal /\ l.size = size
        /\ l.writer = k.writer /\ l.last \in {k.last, None}
    <3> DEFINE m == [k EXCEPT !.size = size]
    <3>1. m.mode = k.mode /\ m.terminal = k.terminal /\ m.size = size /\ m.writer = k.writer /\ m.last = k.last
      BY <2>1 DEF Connection
    <3>2. m \in Connection
      BY <2>2
    <3> HIDE DEF m
    <3>3. RequestRepaint(c, m) \in Connection /\ SameClient(m, RequestRepaint(c, m))
      BY <3>2, RepaintFields
    <3>4. QED
      BY <3>1, <3>3 DEF SameClient, m
  <2> HIDE DEF l
  <2>4. /\ new \in Server /\ new.recent = srv.recent /\ new.fg = srv.fg /\ new.size = srv.size
        /\ SameTerminals(srv, new) /\ SameScreens(srv, new) /\ SameRest(srv, new)
        /\ DOMAIN new.conns = DOMAIN srv.conns /\ new.conns[c] = l
        /\ \A d \in DOMAIN srv.conns : d # c => new.conns[d] = srv.conns[d]
    BY <1>0, <1>6, <2>3, SetConnection
  <2> HIDE DEF new
  <2> DEFINE ts == IF k.mode = "attach" THEN {k.terminal} \cap srv.live ELSE {}
             y == ResizeTerminals(new, ts, size)
  <2>5. /\ x \in Server /\ x.conns = new.conns /\ x.recent = new.recent /\ x.fg = new.fg /\ x.size = new.size
        /\ SameTerminals(new, x) /\ SameRest(new, x)
        /\ \A t \in Terminals : x.sizes[t] = IF t \in ts THEN size ELSE new.sizes[t]
    <3>1. CASE k.mode = "attach"
      <4>1. x = y
        BY <1>6, <3>1
      <4> HIDE DEF x
      <4>2. QED
        BY <1>3, <2>4, <4>1, ResizeTerminalsFields
    <3>2. CASE k.mode = "observe"
      <4>1. x = new /\ ts = {}
        BY <1>6, <3>2
      <4> HIDE DEF x
      <4>2. QED
        BY <2>4, <4>1 DEF SameTerminals, SameRest
    <3>3. QED
      BY <1>6, <3>1, <3>2
  <2> HIDE DEF x
  <2>6. /\ x.owners = srv.owners /\ x.locks = srv.locks /\ x.live = srv.live /\ x.reads = srv.reads
        /\ new.sizes = srv.sizes /\ x.wires = srv.wires
    BY <2>4, <2>5 DEF SameTerminals, SameScreens, SameRest
  <2>7. srv.fg # c
    BY <1>0, <1>6 DEF ForegroundOK, IsApp
  <2>8. ConnectionsOK(x)
    BY <1>0, <1>6, <2>3, <2>4, <2>5 DEF ConnectionsOK
  <2>9. ForegroundOK(x)
    BY <1>0, <2>3, <2>4, <2>5, <2>7 DEF ForegroundOK, IsApp
  <2>10. AttachmentsOK(x)
    BY <1>0, <2>3, <2>4, <2>5, <2>6 DEF AttachmentsOK
  <2>11. SizesOK(x)
    <3>1. SUFFICES ASSUME NEW t \in srv.live
                   PROVE  IF srv.owners[t] # None THEN x.sizes[t] = x.conns[srv.owners[t]].size
                          ELSE x.fg # None => x.sizes[t] = x.size
      BY <2>6 DEF SizesOK
    <3>2. /\ t \in Terminals /\ srv.owners[t] \in DOMAIN srv.conns \cup {None}
          /\ srv.owners[t] = c <=> k.mode = "attach" /\ k.terminal = t
          /\ IF srv.owners[t] # None THEN srv.sizes[t] = srv.conns[srv.owners[t]].size
             ELSE srv.fg # None => srv.sizes[t] = srv.size
      BY <1>0, <1>6 DEF Server, AttachmentsOK, SizesOK
    <3>3. CASE srv.owners[t] = c
      <4>1. t \in ts
        BY <3>2, <3>3
      <4>2. x.sizes[t] = size
        BY <2>5, <3>2, <4>1
      <4>3. QED
        BY <1>0, <2>3, <2>4, <2>5, <3>3, <4>2
    <3>4. CASE srv.owners[t] # c
      <4>1. t \notin ts
        BY <3>2, <3>4
      <4>2. x.sizes[t] = srv.sizes[t]
        BY <2>5, <2>6, <3>2, <4>1
      <4>3. QED
        BY <2>4, <2>5, <3>2, <3>4, <4>2
    <3>5. QED
      BY <3>3, <3>4
  <2>12. Sound(x)
    BY <2>5, <2>8, <2>9, <2>10, <2>11 DEF Sound
  <2>13. Tame(srv, x)
    BY <2>3, <2>4, <2>5, <2>6, <2>12 DEF Tame
  <2>14. QED
    BY <1>0, <1>1, <1>2, <1>4, <2>13, RequestKeeps
<1>7. CASE c \in DOMAIN srv.conns /\ k.mode \notin {"attach", "observe"}
  <2> DEFINE m == [k EXCEPT !.size = size]
             r == [srv EXCEPT !.conns[c] = m]
             top == Promote(r, c)
             y == ResizeShared(top)
  <2>1. k \in Connection /\ k.mode = "app"
    BY <1>0, <1>1, <1>7, ConnectionFields DEF Pending
  <2>2. /\ m \in Connection /\ m.mode = k.mode /\ m.terminal = k.terminal /\ m.size = size
        /\ m.writer = k.writer /\ m.last = k.last
    BY <1>3, <2>1 DEF Connection
  <2>3. s = r
    OBVIOUS
  <2>4. x = y
    BY <1>7, <2>3
  <2> HIDE DEF m, x, s
  <2>5. /\ r \in Server /\ r.recent = srv.recent /\ r.fg = srv.fg /\ r.size = srv.size
        /\ SameTerminals(srv, r) /\ SameScreens(srv, r) /\ SameRest(srv, r)
        /\ DOMAIN r.conns = DOMAIN srv.conns /\ r.conns[c] = m
        /\ \A d \in DOMAIN srv.conns : d # c => r.conns[d] = srv.conns[d]
    BY <1>0, <1>7, <2>2, SetConnection
  <2> HIDE DEF r
  <2>6. ConnectionsOK(r) /\ IsApp(r, c)
    BY <1>0, <1>7, <2>1, <2>2, <2>5 DEF ConnectionsOK, IsApp
  <2>7. AttachmentsOK(r)
    BY <1>0, <2>2, <2>5 DEF AttachmentsOK, SameTerminals
  <2>8. OwnedSizesOK(r)
    <3>1. \A t \in srv.live : srv.owners[t] # c /\ srv.owners[t] \in DOMAIN srv.conns \cup {None}
      BY <1>0, <1>7, <2>1 DEF AttachmentsOK
    <3>2. QED
      BY <1>0, <2>5, <3>1 DEF Nearly, OwnedSizesOK, SameTerminals, SameScreens
  <2>9. Nearly(top) /\ top.conns = r.conns /\ SameRest(r, top)
    BY <1>0, <2>5, <2>6, <2>7, <2>8, PromoteNearly
  <2> HIDE DEF top
  <2>10. Sound(y)
    BY <1>0, <2>9, ResizeSharedSound
  <2>11. Reduced(top, y) /\ DOMAIN y.conns = DOMAIN top.conns /\ SameRest(top, y)
    BY <1>0, <2>9, ResizeSharedFields DEF Nearly
  <2> HIDE DEF y
  <2>12. Tame(srv, y)
    BY <2>2, <2>5, <2>9, <2>10, <2>11 DEF Tame, Reduced, SameClient, SameRest
  <2>13. QED
    BY <1>0, <1>1, <1>2, <1>4, <2>4, <2>12, RequestKeeps
<1>8. QED
  BY <1>5, <1>6, <1>7

LEMMA RemovalTame ==
    ASSUME IInv, NEW c
    PROVE  Tame(srv, RemoveAndResize(srv, c)) /\ DOMAIN RemoveAndResize(srv, c).conns = DOMAIN srv.conns \ {c}
<1>1. Removes(srv, RemoveAndResize(srv, c), {c}) /\ Sound(srv)
  BY Known, RemoveAndResizeRemoves
<1>2. QED
  BY <1>1, RemovesTame DEF Removes

LEMMA DetachKeeps ==
    ASSUME IInv, NEW c \in Ids, Detach(c)
    PROVE  IInv'
<1>0. /\ Typed /\ UsersOK(srv) /\ WiresOK(srv)
      /\ users \in [Ids -> {"out", "open", "shut", "done"}]
      /\ content \in [{Chrome} \cup Terminals -> Nat] /\ written \in SUBSET Terminals
  BY Known
<1> DEFINE y == RemoveAndResize(srv, c)
           x == Full(y)
<1>1. /\ Counts("events") /\ srv' = x /\ users' = [users EXCEPT ![c] = "shut"]
      /\ setup' = setup /\ content' = content /\ written' = written
  BY DEF Detach
<1>2. Tame(srv, y)
  BY RemovalTame
<1> HIDE DEF y
<1>3. Tame(srv, x) /\ x.full
  BY <1>2, FullTame, FullFields DEF Tame
<1> HIDE DEF x
<1>4. /\ Sound(x) /\ x.wires = srv.wires /\ DOMAIN x.conns \subseteq DOMAIN srv.conns
      /\ \A d \in DOMAIN x.conns : d \in Ids /\ x.conns[d].last \in {srv.conns[d].last, None}
  BY <1>3, ConnectionFields DEF Tame, Sound
<1>5. \A d \in Ids : users'[d] = IF d = c THEN "shut" ELSE users[d]
  BY <1>0, <1>1
<1>6. \A d \in Ids : users'[d] \in {"out", "done"} =>
          d \notin DOMAIN srv'.conns /\ srv'.wires[d] = Unused
  BY <1>0, <1>1, <1>4, <1>5 DEF UsersOK
<1>7. \A d \in Ids : ~srv'.wires[d].alive => users'[d] = "shut"
  BY <1>0, <1>1, <1>4, <1>5 DEF UsersOK
<1>8. \A d \in Ids : users'[d] = "open" => WireOK(srv'.wires[d])
  BY <1>0, <1>1, <1>4, <1>5 DEF WiresOK
<1>9. \A d \in DOMAIN srv'.conns : users'[d] = "open" =>
          srv'.conns[d].last \in {None, Coming(srv'.wires[d])}
  BY <1>0, <1>1, <1>4, <1>5 DEF WiresOK
<1>10. left' \in [outputs : Nat, events : Nat, terminals : Nat]
  BY <1>0, <1>1, CountsTyped
<1>11. FreshOK'
  BY <1>1, <1>3, FullFresh
<1>12. users' \in [Ids -> {"out", "open", "shut", "done"}]
  BY <1>0, <1>1
<1>13. QED
  BY <1>0, <1>1, <1>4, <1>6, <1>7, <1>8, <1>9, <1>10, <1>11, <1>12, StepKeeps

LEMMA DisconnectedKeeps ==
    ASSUME IInv, NEW c \in Ids, Disconnected(c)
    PROVE  IInv'
<1>0. /\ setup \in Setups /\ Typed /\ UsersOK(srv) /\ WiresOK(srv)
      /\ users \in [Ids -> {"out", "open", "shut", "done"}]
      /\ content \in [{Chrome} \cup Terminals -> Nat] /\ written \in SUBSET Terminals
      /\ left \in [outputs : Nat, events : Nat, terminals : Nat]
  BY Known
<1> DEFINE y == RemoveAndResize(srv, c)
           z == [y EXCEPT !.wires[c] = Unused, !.drained[c] = 0]
           x == Full(z)
<1>1. /\ srv' = x /\ users' = [users EXCEPT ![c] = "done"]
      /\ setup' = setup /\ content' = content /\ written' = written /\ left' = left
  BY DEF Disconnected
<1>2. Tame(srv, y) /\ DOMAIN y.conns = DOMAIN srv.conns \ {c}
  BY RemovalTame
<1> HIDE DEF y
<1>3. /\ Sound(y) /\ y.wires = srv.wires /\ y \in Server
      /\ \A d \in DOMAIN y.conns : d \in Ids /\ y.conns[d].last \in {srv.conns[d].last, None}
  BY <1>2, ConnectionFields DEF Tame, Sound
<1>4. Unused \in Wire
  BY DEF Unused, Wire
<1>5. /\ z \in Server /\ z.conns = y.conns /\ z.recent = y.recent /\ z.fg = y.fg /\ z.size = y.size
      /\ SameTerminals(y, z) /\ z.sizes = y.sizes
      /\ \A d \in Ids : z.wires[d] = IF d = c THEN Unused ELSE y.wires[d]
  BY <1>3, <1>4 DEF Server, SameTerminals
<1> HIDE DEF z
<1>6. Sound(z)
  <2>1. Alike(y, z)
    BY <1>5 DEF Alike, SameWho
  <2>2. QED
    BY <1>3, <2>1, AlikeSound
<1>7. Sound(x) /\ x.full /\ x.conns = z.conns /\ x.wires = z.wires
  BY <1>6, FullFields
<1> HIDE DEF x
<1>8. \A d \in Ids : users'[d] = IF d = c THEN "done" ELSE users[d]
  BY <1>0, <1>1
<1>9. \A d \in Ids : users'[d] \in {"out", "done"} =>
          d \notin DOMAIN srv'.conns /\ srv'.wires[d] = Unused
  BY <1>0, <1>1, <1>2, <1>3, <1>5, <1>7, <1>8 DEF UsersOK
<1>10. \A d \in Ids : ~srv'.wires[d].alive => users'[d] = "shut"
  BY <1>0, <1>1, <1>3, <1>5, <1>7, <1>8 DEF UsersOK, Unused
<1>11. \A d \in Ids : users'[d] = "open" => WireOK(srv'.wires[d])
  BY <1>0, <1>1, <1>3, <1>5, <1>7, <1>8 DEF WiresOK
<1>12. \A d \in DOMAIN srv'.conns : users'[d] = "open" =>
          srv'.conns[d].last \in {None, Coming(srv'.wires[d])}
  BY <1>0, <1>1, <1>2, <1>3, <1>5, <1>7, <1>8 DEF WiresOK
<1>13. FreshOK'
  BY <1>1, <1>7, FullFresh
<1>14. users' \in [Ids -> {"out", "open", "shut", "done"}]
  BY <1>0, <1>1
<1>15. QED
  BY <1>0, <1>1, <1>7, <1>9, <1>10, <1>11, <1>12, <1>13, <1>14, StepKeeps

\* What is due stays so if the screens and what is underway are the same.
LEMMA DueKept ==
    ASSUME NEW s, NEW x, Due(s), x.conns = s.conns, x.live = s.live, x.sizes = s.sizes,
           x.dirty = s.dirty, x.sources = s.sources,
           \A c \in Targets(s) : /\ Coming(x.wires[c]) = Coming(s.wires[c])
                                 /\ Waits(s, c) => Waits(x, c)
    PROVE  Due(x)
<1>1. SUFFICES ASSUME NEW c \in Targets(x)
               PROVE  Waits(x, c) \/ Fresh(x, c, Coming(x.wires[c]))
  BY DEF Due
<1>2. c \in Targets(s)
  BY <1>1 DEF Targets, HasWriter
<1>3. Waits(s, c) \/ Fresh(s, c, Coming(s.wires[c]))
  BY <1>2 DEF Due
<1>4. Shows(x, c) = Shows(s, c) /\ \A p : Part(x, p) = Part(s, p)
  BY DEF Shows, IsApp, Part
<1>5. Fresh(s, c, Coming(s.wires[c])) => Fresh(x, c, Coming(x.wires[c]))
  BY <1>2, <1>4 DEF Fresh, Right
<1>6. QED
  BY <1>2, <1>3, <1>5

LEMMA WriterDrainedKeeps ==
    ASSUME IInv, NEW c \in Ids, WriterDrained(c)
    PROVE  IInv'
<1>0. /\ Sound(srv) /\ srv \in Server /\ FreshOK /\ DOMAIN srv.conns \subseteq Ids
      /\ content \in [{Chrome} \cup Terminals -> Nat] /\ written \in SUBSET Terminals
      /\ left \in [outputs : Nat, events : Nat, terminals : Nat]
  BY Known
<1> DEFINE s == [srv EXCEPT !.drained[c] = @ - 1]
           late == c \in DOMAIN s.conns /\ s.conns[c].deferred
           y == [s EXCEPT !.conns[c].deferred = FALSE]
<1>1. /\ srv.drained[c] > 0 /\ UNCHANGED <<setup, users, content, written, left>>
      /\ srv' = IF late THEN Full(y) ELSE s
  BY DEF WriterDrained
<1>2. /\ s \in Server /\ s.conns = srv.conns /\ s.recent = srv.recent /\ s.fg = srv.fg /\ s.size = srv.size
      /\ SameTerminals(srv, s) /\ SameScreens(srv, s) /\ s.wires = srv.wires
      /\ s.full = srv.full /\ s.sources = srv.sources
      /\ \A d \in Ids : d # c => s.drained[d] = srv.drained[d]
  <2> DEFINE drained == [srv.drained EXCEPT ![c] = @ - 1]
  <2>1. srv.drained \in [Ids -> Nat]
    BY <1>0 DEF Server
  <2>2. drained \in [Ids -> Nat] /\ \A d \in Ids : d # c => drained[d] = srv.drained[d]
    BY <1>1, <2>1
  <2>3. s = [srv EXCEPT !.drained = drained]
    BY <1>0 DEF Server
  <2> HIDE DEF drained, s
  <2>4. s \in Server /\ s.drained = drained
    BY <1>0, <2>2, <2>3 DEF Server
  <2>5. QED
    BY <1>0, <2>2, <2>3, <2>4 DEF Server, SameTerminals, SameScreens
<1> HIDE DEF s
<1>3. Sound(s)
  <2>1. Alike(srv, s)
    BY <1>2 DEF Alike, SameWho, SameScreens
  <2>2. QED
    BY <1>0, <2>1, AlikeSound
<1>4. CASE late
  <2> DEFINE k == s.conns[c]
             l == [k EXCEPT !.deferred = FALSE]
             z == [s EXCEPT !.conns[c] = l]
  <2>1. k \in Connection
    BY <1>2, <1>4, ConnectionFields
  <2>2. l \in Connection /\ SameWho(k, l) /\ l.last = k.last
    BY <2>1 DEF Connection, SameWho
  <2>3. y = z
    BY <2>1
  <2> HIDE DEF l, y
  <2>4. /\ z \in Server /\ z.recent = s.recent /\ z.fg = s.fg /\ z.size = s.size
        /\ SameTerminals(s, z) /\ SameScreens(s, z) /\ SameRest(s, z)
        /\ DOMAIN z.conns = DOMAIN s.conns /\ z.conns[c] = l
        /\ \A d \in DOMAIN s.conns : d # c => z.conns[d] = s.conns[d]
    BY <1>2, <1>4, <2>2, SetConnection
  <2> HIDE DEF z
  <2>5. Alike(s, z)
    <3>1. \A d \in DOMAIN s.conns : SameWho(s.conns[d], z.conns[d])
      BY <2>2, <2>4 DEF SameWho
    <3>2. QED
      BY <2>4, <3>1 DEF Alike, SameScreens
  <2>6. Tame(srv, z)
    BY <1>2, <1>3, <2>2, <2>4, <2>5, AlikeSound DEF Tame, SameRest
  <2>7. srv' = Full(z)
    BY <1>1, <1>4, <2>3
  <2>8. QED
    BY <1>0, <1>1, <2>6, <2>7, RequestKeeps
<1>5. CASE ~late
  <2>1. srv' = s
    BY <1>1, <1>5
  <2>2. Tame(srv, s)
    BY <1>2, <1>3 DEF Tame
  <2>3. ASSUME ~s.full, Quiet(s) PROVE Due(s)
    <3>1. Due(srv)
      BY <1>0, <1>2, <2>3, FreshMeans DEF Quiet
    <3>2. \A d \in Targets(srv) : Waits(srv, d) => Waits(s, d)
      BY <1>0, <1>2, <1>5 DEF Waits, Targets
    <3>3. QED
      BY <1>2, <3>1, <3>2, DueKept DEF SameTerminals, SameScreens
  <2>4. FreshOK'
    BY <1>0, <1>1, <1>2, <2>1, <2>3, FreshPrimed
  <2>5. QED
    BY <1>0, <1>1, <2>1, <2>2, <2>4, StepTame
<1>6. QED
  BY <1>4, <1>5

LEMMA BroadcastKeeps ==
    ASSUME IInv, Broadcast
    PROVE  IInv'
<1>0. /\ setup \in Setups /\ Sound(srv) /\ Nearly(srv) /\ UsersOK(srv) /\ DOMAIN srv.conns \subseteq Ids
      /\ content \in [{Chrome} \cup Terminals -> Nat] /\ written \in SUBSET Terminals
      /\ left \in [outputs : Nat, events : Nat, terminals : Nat]
  BY Known
<1> DEFINE C == {c \in DOMAIN srv.conns : HasWriter(srv, c) /\ ~srv.wires[c].alive}
<1>1. /\ C # {} /\ UNCHANGED <<setup, users, content, written, left>>
      /\ \E cs \in SetToSeqs(C) : srv' = RemoveAll(srv, cs)
  BY DEF Broadcast
<1>2. PICK cs \in SetToSeqs(C) : srv' = RemoveAll(srv, cs)
  BY <1>1
<1>3. cs \in Seq(C)
  BY <1>0, IdsFinite, SetToSeqsAll
<1>4. Removes(srv, srv', ToSet(cs))
  BY <1>0, <1>2, <1>3, RemoveAllRemoves
<1>5. Tame(srv, srv')
  BY <1>0, <1>4, RemovesTame
<1>6. ~Quiet(srv')
  <2>1. PICK c \in C : TRUE
    BY <1>1
  <2>2. c \in Ids /\ users[c] = "shut"
    BY <1>0, <2>1 DEF UsersOK
  <2>3. QED
    BY <2>2 DEF Quiet
<1>7. FreshOK'
  <2>1. DOMAIN srv'.conns \subseteq Ids
    BY <1>0, <1>5 DEF Tame
  <2>2. QED
    BY <1>1, <1>6, <2>1, FreshPrimed
<1>8. QED
  BY <1>0, <1>1, <1>5, <1>7, StepTame

LEMMA DisconnectAllKeeps ==
    ASSUME IInv, DisconnectAll
    PROVE  IInv'
<1>0. /\ setup \in Setups /\ Typed /\ Nearly(srv) /\ DOMAIN srv.conns \subseteq Ids
      /\ content \in [{Chrome} \cup Terminals -> Nat] /\ written \in SUBSET Terminals
  BY Known
<1>1. /\ Counts("terminals") /\ UNCHANGED <<setup, users, content, written>>
  BY DEF DisconnectAll
<1>2. PICK cs \in SetToSeqs(DOMAIN srv.conns) :
          srv' = ResizeShared(SyncForeground([SendAndRemoveAll(srv, cs) EXCEPT !.fg = None]))
  BY DEF DisconnectAll
<1> DEFINE z == SendAndRemoveAll(srv, cs)
           y == [z EXCEPT !.fg = None]
           x == SyncForeground(y)
<1>3. cs \in Seq(DOMAIN srv.conns) /\ ToSet(cs) = DOMAIN srv.conns
  BY <1>0, IdsFinite, SetToSeqsAll
<1>4. Drops(srv, z, DOMAIN srv.conns)
  BY <1>0, <1>3, SendAndRemoveAllDrops
<1> HIDE DEF z
<1>5. /\ z \in Server /\ DOMAIN z.conns = {} /\ SameRest(srv, z)
      /\ ConnectionsOK(z) /\ AttachmentsOK(z)
  BY <1>4 DEF Drops, Nearly
<1>6. /\ y \in Server /\ y.conns = z.conns /\ y.recent = z.recent
      /\ SameTerminals(z, y) /\ SameScreens(z, y) /\ SameRest(z, y)
  BY <1>5 DEF Server, SameTerminals, SameScreens, SameRest
<1> HIDE DEF y
<1>7. /\ x \in Server /\ x.conns = y.conns /\ x.recent = y.recent
      /\ SameTerminals(y, x) /\ SameScreens(y, x) /\ SameRest(y, x)
      /\ x.fg = None /\ x.size = 0
  BY <1>0, <1>5, <1>6, SyncFields
<1> HIDE DEF x
<1>8. srv' = x
  BY <1>2, <1>5, <1>6, <1>7 DEF ResizeShared, x, y, z
<1>9. ConnectionsOK(x) /\ AttachmentsOK(x)
  BY <1>5, <1>6, <1>7 DEF ConnectionsOK, AttachmentsOK, SameTerminals
<1>10. ForegroundOK(x)
  BY <1>5, <1>6, <1>7 DEF ForegroundOK
<1>11. SizesOK(x)
  BY <1>5, <1>6, <1>7, <1>9 DEF SizesOK, AttachmentsOK
<1>12. Sound(x)
  BY <1>7, <1>9, <1>10, <1>11 DEF Sound
<1>13. Tame(srv, x)
  BY <1>5, <1>6, <1>7, <1>12 DEF Tame, SameRest
<1>14. Due(x)
  BY <1>5, <1>6, <1>7 DEF Due, Targets
<1>15. FreshOK'
  BY <1>1, <1>5, <1>6, <1>7, <1>8, <1>14, FreshPrimed
<1>16. left' \in [outputs : Nat, events : Nat, terminals : Nat]
  BY <1>0, <1>1, CountsTyped
<1>17. QED
  BY <1>0, <1>1, <1>8, <1>13, <1>15, <1>16, StepTame

LEMMA TerminalGoesKeeps ==
    ASSUME IInv, NEW t \in Terminals, NEW died \in BOOLEAN, TerminalGoes(t, died)
    PROVE  IInv'
<1>0. /\ setup \in Setups /\ Typed /\ Sound(srv) /\ srv \in Server /\ DOMAIN srv.conns \subseteq Ids
      /\ ConnectionsOK(srv) /\ ForegroundOK(srv) /\ AttachmentsOK(srv) /\ SizesOK(srv)
      /\ content \in [{Chrome} \cup Terminals -> Nat] /\ written \in SUBSET Terminals
  BY Known
<1> DEFINE s == [srv EXCEPT !.live = @ \ {t}, !.reads = @ \ {t}, !.sources = @ \ {t}]
           C == TerminalStreamClients(s, t)
<1>1. /\ Counts("terminals") /\ setup' = setup /\ users' = users
      /\ content' = [content EXCEPT ![Chrome] = @ + 1] /\ written' = written \ {t}
      /\ IF died THEN \E cs \in SetToSeqs(C) : srv' = Full(RemoveAll(s, cs)) ELSE srv' = Full(s)
  BY DEF TerminalGoes
<1>2. /\ s \in Server /\ s.conns = srv.conns /\ s.recent = srv.recent /\ s.fg = srv.fg /\ s.size = srv.size
      /\ s.owners = srv.owners /\ s.locks = srv.locks /\ s.sizes = srv.sizes /\ s.wires = srv.wires
      /\ s.live = srv.live \ {t} /\ s.reads = srv.reads \ {t}
  BY <1>0 DEF Server
<1> HIDE DEF s
<1>3. Sound(s)
  <2>1. ConnectionsOK(s) /\ ForegroundOK(s)
    BY <1>0, <1>2 DEF ConnectionsOK, ForegroundOK, IsApp
  <2>2. AttachmentsOK(s)
    BY <1>0, <1>2 DEF AttachmentsOK
  <2>3. SizesOK(s)
    BY <1>0, <1>2 DEF SizesOK
  <2>4. QED
    BY <1>2, <2>1, <2>2, <2>3 DEF Sound
<1>4. \E x : srv' = Full(x) /\ Tame(s, x)
  <2>1. CASE died
    <3>1. PICK cs \in SetToSeqs(C) : srv' = Full(RemoveAll(s, cs))
      BY <1>1, <2>1
    <3>2. C \subseteq Ids
      BY <1>0, <1>2 DEF TerminalStreamClients
    <3>3. cs \in Seq(C)
      BY <1>0, <3>2, IdsFinite, SetToSeqsAll
    <3>4. Removes(s, RemoveAll(s, cs), ToSet(cs))
      BY <1>0, <1>3, <3>3, NearlySound, RemoveAllRemoves
    <3>5. Tame(s, RemoveAll(s, cs))
      BY <1>3, <3>4, RemovesTame
    <3>6. QED
      BY <3>1, <3>5
  <2>2. CASE ~died
    <3>1. srv' = Full(s) /\ Tame(s, s)
      BY <1>1, <1>3, <2>2 DEF Tame
    <3>2. QED
      BY <3>1
  <2>3. QED
    BY <2>1, <2>2
<1>5. PICK x : srv' = Full(x) /\ Tame(s, x)
  BY <1>4
<1>6. Tame(srv, x)
  BY <1>2, <1>5 DEF Tame
<1>7. content' \in [{Chrome} \cup Terminals -> Nat] /\ written' \in SUBSET Terminals
  BY <1>0, <1>1
<1>8. left' \in [outputs : Nat, events : Nat, terminals : Nat]
  BY <1>0, <1>1, CountsTyped
<1>9. QED
  BY <1>1, <1>5, <1>6, <1>7, <1>8, RequestKeeps

\* A read starts or ends: the screens are the same.
LEMMA ReadsKeep ==
    ASSUME IInv, NEW r, r \subseteq Terminals, srv' = [srv EXCEPT !.reads = r],
           \A t \in srv.live \cap r : srv.owners[t] = None,
           left' \in [outputs : Nat, events : Nat, terminals : Nat],
           UNCHANGED <<setup, users, content, written>>
    PROVE  IInv'
<1>0. /\ Sound(srv) /\ srv \in Server /\ FreshOK /\ DOMAIN srv.conns \subseteq Ids
      /\ ConnectionsOK(srv) /\ ForegroundOK(srv) /\ AttachmentsOK(srv) /\ SizesOK(srv)
      /\ content \in [{Chrome} \cup Terminals -> Nat] /\ written \in SUBSET Terminals
  BY Known
<1> DEFINE s == [srv EXCEPT !.reads = r]
<1>1. /\ s \in Server /\ s.conns = srv.conns /\ s.recent = srv.recent /\ s.fg = srv.fg /\ s.size = srv.size
      /\ s.owners = srv.owners /\ s.locks = srv.locks /\ s.live = srv.live /\ s.reads = r
      /\ SameScreens(srv, s) /\ SameRest(srv, s)
  BY <1>0 DEF Server, SameScreens, SameRest
<1>2. srv' = s
  OBVIOUS
<1> HIDE DEF s
<1>3. Sound(s)
  <2>1. ConnectionsOK(s) /\ ForegroundOK(s)
    BY <1>0, <1>1 DEF ConnectionsOK, ForegroundOK, IsApp
  <2>2. SizesOK(s)
    BY <1>0, <1>1 DEF SizesOK, SameScreens
  <2>3. AttachmentsOK(s)
    BY <1>0, <1>1 DEF AttachmentsOK
  <2>4. QED
    BY <1>1, <2>1, <2>2, <2>3 DEF Sound
<1>4. ASSUME ~s.full, Quiet(s) PROVE Due(s)
  <2>1. Due(srv)
    BY <1>0, <1>1, <1>4, FreshMeans DEF Quiet, SameRest
  <2>2. QED
    BY <1>1, <2>1, DueKept DEF SameScreens, SameRest, Waits
<1>5. FreshOK'
  BY <1>0, <1>1, <1>2, <1>4, FreshPrimed
<1>6. Tame(srv, s)
  BY <1>1, <1>3 DEF Tame, SameRest
<1>7. QED
  BY <1>0, <1>2, <1>5, <1>6, StepTame

LEMMA StartReadKeeps ==
    ASSUME IInv, NEW t \in Terminals, StartRead(t)
    PROVE  IInv'
<1>1. Typed /\ srv \in Server /\ AttachmentsOK(srv)
  BY Known
<1>2. /\ srv.owners[t] = None /\ Counts("terminals") /\ UNCHANGED <<setup, users, content, written>>
      /\ srv' = [srv EXCEPT !.reads = srv.reads \cup {t}]
  BY <1>1 DEF StartRead, Server
<1>3. left' \in [outputs : Nat, events : Nat, terminals : Nat]
  BY <1>1, <1>2, CountsTyped
<1>4. srv.reads \cup {t} \subseteq Terminals
  BY <1>1 DEF Server
<1>5. \A u \in srv.live \cap (srv.reads \cup {t}) : srv.owners[u] = None
  BY <1>1, <1>2 DEF AttachmentsOK
<1>6. QED
  BY <1>2, <1>3, <1>4, <1>5, ReadsKeep

LEMMA EndReadKeeps ==
    ASSUME IInv, NEW t \in Terminals, EndRead(t)
    PROVE  IInv'
<1>1. /\ srv \in Server /\ AttachmentsOK(srv)
      /\ left \in [outputs : Nat, events : Nat, terminals : Nat]
  BY Known
<1>2. /\ UNCHANGED <<setup, users, content, written, left>>
      /\ srv' = [srv EXCEPT !.reads = srv.reads \ {t}]
  BY <1>1 DEF EndRead, Server
<1>3. srv.reads \ {t} \subseteq Terminals
  BY <1>1 DEF Server
<1>4. \A u \in srv.live \cap (srv.reads \ {t}) : srv.owners[u] = None
  BY <1>1 DEF AttachmentsOK
<1>5. QED
  BY <1>1, <1>2, <1>3, <1>4, ReadsKeep

LEMMA AppChangesKeeps ==
    ASSUME IInv, AppChanges
    PROVE  IInv'
<1>1. /\ Typed /\ Sound(srv) /\ content \in [{Chrome} \cup Terminals -> Nat] /\ written \in SUBSET Terminals
  BY Known
<1>2. /\ Counts("outputs") /\ srv' = Full(srv) /\ setup' = setup /\ users' = users /\ written' = written
      /\ content' = [content EXCEPT ![Chrome] = @ + 1]
  BY DEF AppChanges
<1>3. left' \in [outputs : Nat, events : Nat, terminals : Nat]
  BY <1>1, <1>2, CountsTyped
<1>4. content' \in [{Chrome} \cup Terminals -> Nat]
  BY <1>1, <1>2
<1>5. Tame(srv, srv)
  BY <1>1 DEF Tame
<1>6. QED
  BY <1>1, <1>2, <1>3, <1>4, <1>5, RequestKeeps

\* The reader of a terminal has changed it, and asks for a render: nothing else
\* changes for the clients.
LEMMA ScreensPrimed ==
    ASSUME setup' = setup, users' = users, FreshOK, DOMAIN srv.conns \subseteq Ids,
           srv'.conns = srv.conns, srv'.live = srv.live, srv'.sizes = srv.sizes,
           srv'.full = srv.full, srv'.wires = srv.wires, srv'.drained = srv.drained,
           srv.sources \cup written \subseteq srv'.sources \cup written',
           \A p \in {Chrome} \cup Terminals :
              \/ content'[p] = content[p] /\ (p \in Terminals => srv'.dirty[p] = srv.dirty[p])
              \/ p \in Terminals /\ srv'.dirty[p] # "Clean" /\ p \in srv'.sources \cup written',
           \A c \in Targets(srv) : Shows(srv, c) \subseteq {Chrome} \cup Terminals
    PROVE  FreshOK'
<1>1. Ids' = Ids /\ Terminals' = Terminals
  BY DEF Ids, Terminals
<1>2. SUFFICES ASSUME ~srv'.full, \A d \in Ids : ~Leaving(d)', NEW c \in Targets(srv)'
               PROVE  (Waits(srv, c) \/ Fresh(srv, c, Coming(srv.wires[c])))'
  BY <1>1 DEF FreshOK
<1>3. \A d \in Ids : ~Leaving(d)
  BY <1>2 DEF Leaving, HasWriter
<1>4. c \in Targets(srv)
  BY <1>2 DEF Targets, HasWriter
<1>5. Waits(srv, c) \/ Fresh(srv, c, Coming(srv.wires[c]))
  BY <1>2, <1>3, <1>4 DEF FreshOK
<1>6. Waits(srv, c) => Waits(srv, c)'
  BY DEF Waits
<1>7. Shows(srv, c)' = Shows(srv, c) /\ Coming(srv.wires[c])' = Coming(srv.wires[c])
  BY DEF Shows, IsApp, Coming
<1>8. ASSUME Fresh(srv, c, Coming(srv.wires[c])) PROVE Fresh(srv, c, Coming(srv.wires[c]))'
  <2> DEFINE f == Coming(srv.wires[c])
  <2>1. f' = f
    BY <1>7
  <2>2. /\ f # None /\ f.size = srv.conns[c].size /\ DOMAIN f.parts = Shows(srv, c)
        /\ \A p \in Shows(srv, c) : \/ f.parts[p] = Part(srv, p)
                                    \/ p \in Terminals /\ srv.dirty[p] # "Clean" /\ p \in srv.sources \cup written
    BY <1>8 DEF Fresh, Right
  <2> HIDE DEF f
  <2>3. ASSUME NEW p \in Shows(srv, c)
        PROVE  \/ f.parts[p] = Part(srv, p)'
               \/ p \in Terminals /\ srv'.dirty[p] # "Clean" /\ p \in srv'.sources \cup written'
    <3>1. p \in {Chrome} \cup Terminals
      BY <1>4, <2>3
    <3>2. CASE p \in Terminals /\ srv'.dirty[p] # "Clean" /\ p \in srv'.sources \cup written'
      BY <3>2
    <3>3. CASE content'[p] = content[p] /\ (p \in Terminals => srv'.dirty[p] = srv.dirty[p])
      <4>1. Part(srv, p)' = Part(srv, p)
        BY <3>3 DEF Part
      <4>2. QED
        BY <2>2, <2>3, <3>3, <4>1
    <3>4. QED
      BY <3>1, <3>2, <3>3
  <2>4. Fresh(srv, c, f)'
    BY <1>1, <1>7, <2>1, <2>2, <2>3 DEF Fresh, Right
  <2>5. QED
    BY <2>1, <2>4 DEF f
<1>9. QED
  BY <1>5, <1>6, <1>8

\* What the targets show.
LEMMA TargetsShow ==
    ASSUME IInv
    PROVE  \A c \in Targets(srv) : Shows(srv, c) \subseteq {Chrome} \cup Terminals
<1>1. Typed /\ Sound(srv)
  BY Known
<1>2. QED
  BY <1>1, FrameOfTyped DEF Targets

LEMMA SignalKeeps ==
    ASSUME IInv, NEW t \in Terminals, Signal(t)
    PROVE  IInv'
<1>0. /\ Sound(srv) /\ srv \in Server /\ FreshOK /\ DOMAIN srv.conns \subseteq Ids
      /\ content \in [{Chrome} \cup Terminals -> Nat] /\ written \in SUBSET Terminals
      /\ left \in [outputs : Nat, events : Nat, terminals : Nat]
  BY Known
<1> DEFINE s == [srv EXCEPT !.sources = srv.sources \cup {t}]
<1>1. /\ srv' = s /\ written' = written \ {t}
      /\ setup' = setup /\ users' = users /\ content' = content /\ left' = left
  BY <1>0 DEF Signal, Server
<1>2. /\ s \in Server /\ s.conns = srv.conns /\ s.recent = srv.recent /\ s.fg = srv.fg /\ s.size = srv.size
      /\ SameTerminals(srv, s) /\ SameScreens(srv, s) /\ s.full = srv.full /\ s.drained = srv.drained
      /\ s.wires = srv.wires /\ s.sources = srv.sources \cup {t}
  BY <1>0 DEF Server, SameTerminals, SameScreens
<1> HIDE DEF s
<1>3. Sound(s)
  <2>1. Alike(srv, s)
    BY <1>2 DEF Alike, SameWho, SameScreens
  <2>2. QED
    BY <1>0, <2>1, AlikeSound
<1>4. FreshOK'
  <2>1. srv.sources \cup written \subseteq srv'.sources \cup written'
    BY <1>1, <1>2
  <2>2. \A c \in Targets(srv) : Shows(srv, c) \subseteq {Chrome} \cup Terminals
    BY TargetsShow
  <2>3. /\ srv'.live = srv.live /\ srv'.sizes = srv.sizes /\ srv'.dirty = srv.dirty
    BY <1>1, <1>2 DEF SameTerminals, SameScreens
  <2>4. QED
    BY <1>0, <1>1, <1>2, <2>1, <2>2, <2>3, ScreensPrimed
<1>5. Tame(srv, s)
  BY <1>2, <1>3 DEF Tame
<1>6. QED
  BY <1>0, <1>1, <1>4, <1>5, StepTame

LEMMA OutputKeeps ==
    ASSUME IInv, NEW t \in Terminals, Output(t)
    PROVE  IInv'
<1>0. /\ Typed /\ Sound(srv) /\ srv \in Server /\ FreshOK /\ DOMAIN srv.conns \subseteq Ids
      /\ content \in [{Chrome} \cup Terminals -> Nat] /\ written \in SUBSET Terminals
  BY Known
<1> DEFINE dirty == [srv.dirty EXCEPT ![t] = IF @ = "All" THEN @ ELSE "Rows"]
           s == [srv EXCEPT !.dirty = dirty]
<1>1. /\ srv' = s /\ written' = written \cup {t} /\ content' = [content EXCEPT ![t] = @ + 1]
      /\ setup' = setup /\ users' = users /\ Counts("outputs")
  BY <1>0 DEF Output, Server
<1>2. /\ dirty \in [Terminals -> {"Clean", "Rows", "All"}]
      /\ dirty[t] # "Clean" /\ \A u \in Terminals : u # t => dirty[u] = srv.dirty[u]
  BY <1>0 DEF Server
<1> HIDE DEF dirty
<1>3. /\ s \in Server /\ s.conns = srv.conns /\ s.recent = srv.recent /\ s.fg = srv.fg /\ s.size = srv.size
      /\ SameTerminals(srv, s) /\ s.sizes = srv.sizes /\ s.dirty = dirty /\ SameRest(srv, s)
  BY <1>0, <1>2 DEF Server, SameTerminals, SameRest
<1> HIDE DEF s
<1>4. Sound(s)
  <2>1. Alike(srv, s)
    BY <1>3 DEF Alike, SameWho
  <2>2. QED
    BY <1>0, <2>1, AlikeSound
<1>5. content' \in [{Chrome} \cup Terminals -> Nat] /\ \A p \in {Chrome} \cup Terminals : p # t => content'[p] = content[p]
  BY <1>0, <1>1
<1>6. FreshOK'
  <2>1. srv.sources \cup written \subseteq srv'.sources \cup written'
    BY <1>1, <1>3 DEF SameRest
  <2>2. \A c \in Targets(srv) : Shows(srv, c) \subseteq {Chrome} \cup Terminals
    BY TargetsShow
  <2>3. \A p \in {Chrome} \cup Terminals :
            \/ content'[p] = content[p] /\ (p \in Terminals => srv'.dirty[p] = srv.dirty[p])
            \/ p \in Terminals /\ srv'.dirty[p] # "Clean" /\ p \in srv'.sources \cup written'
    BY <1>1, <1>2, <1>3, <1>5
  <2>4. QED
    BY <1>0, <1>1, <1>3, <2>1, <2>2, <2>3, ScreensPrimed DEF SameTerminals, SameRest
<1>7. Tame(srv, s)
  BY <1>3, <1>4 DEF Tame, SameRest
<1>8. left' \in [outputs : Nat, events : Nat, terminals : Nat]
  BY <1>0, <1>1, CountsTyped
<1>9. QED
  BY <1>0, <1>1, <1>5, <1>6, <1>7, <1>8, StepTame

\* The writer of client c reports, and leaves wire v.
Reported(s, c, v) == [s EXCEPT !.drained[c] = @ + 1, !.wires[c] = v]

LEMMA WriterFields ==
    ASSUME NEW s, Sound(s), NEW c \in Ids, NEW v \in Wire
    PROVE  LET x == Reported(s, c, v)
           IN  /\ Sound(x) /\ x.conns = s.conns /\ x.live = s.live /\ SameScreens(s, x)
               /\ x.full = s.full /\ x.sources = s.sources
               /\ x.wires[c] = v /\ x.drained[c] > 0
               /\ \A d \in Ids : d # c => x.wires[d] = s.wires[d] /\ x.drained[d] = s.drained[d]
<1> DEFINE drained == [s.drained EXCEPT ![c] = @ + 1]
           wires == [s.wires EXCEPT ![c] = v]
           x == [s EXCEPT !.drained = drained, !.wires = wires]
<1>0. s \in Server
  BY DEF Sound
<1>1. s.drained \in [Ids -> Nat] /\ s.wires \in [Ids -> Wire]
  BY <1>0 DEF Server
<1>2. drained \in [Ids -> Nat] /\ drained[c] > 0 /\ \A d \in Ids : d # c => drained[d] = s.drained[d]
  BY <1>1
<1>3. wires \in [Ids -> Wire] /\ wires[c] = v /\ \A d \in Ids : d # c => wires[d] = s.wires[d]
  BY <1>1
<1>4. Reported(s, c, v) = x
  BY <1>0 DEF Server, Reported
<1> HIDE DEF drained, wires
<1>5. /\ x \in Server /\ x.drained = drained /\ x.wires = wires
      /\ x.conns = s.conns /\ x.recent = s.recent /\ x.fg = s.fg /\ x.size = s.size
      /\ SameTerminals(s, x) /\ SameScreens(s, x) /\ x.full = s.full /\ x.sources = s.sources
  BY <1>0, <1>2, <1>3 DEF Server, SameTerminals, SameScreens
<1> HIDE DEF x
<1>6. Alike(s, x)
  BY <1>5 DEF Alike, SameWho, SameScreens
<1>7. Sound(x)
  BY <1>6, AlikeSound
<1>8. QED
  BY <1>2, <1>3, <1>4, <1>5, <1>7 DEF SameTerminals

LEMMA WriteFrameKeeps ==
    ASSUME IInv, NEW c \in Ids, WriteFrame(c)
    PROVE  IInv'
<1>0. /\ Typed /\ Sound(srv) /\ srv \in Server /\ FreshOK /\ DOMAIN srv.conns \subseteq Ids
      /\ setup \in Setups /\ UsersOK(srv) /\ WiresOK(srv)
      /\ users \in [Ids -> {"out", "open", "shut", "done"}]
      /\ content \in [{Chrome} \cup Terminals -> Nat] /\ written \in SUBSET Terminals
      /\ left \in [outputs : Nat, events : Nat, terminals : Nat]
  BY Known
<1> DEFINE w == srv.wires[c]
           v == [w EXCEPT !.slot = None, !.shown = w.slot.frame,
                          !.garbled = w.garbled \/ w.slot.base \notin {None, w.shown}]
           s == Reported(srv, c, v)
<1>1. /\ w.alive /\ w.slot # None /\ users[c] = "open" /\ srv' = s
      /\ UNCHANGED <<setup, users, content, written, left>>
  BY <1>0 DEF WriteFrame, Takes, Server, Reported
<1>2. w \in Wire /\ w.slot \in Letter /\ w.slot.frame \in Screen /\ None \notin Screen /\ WireOK(w)
  <2>1. w \in Wire /\ w.slot \in Letter
    BY <1>0, <1>1, WireFields
  <2>2. w.slot.frame \in Screen
    BY <2>1 DEF Letter
  <2>3. WireOK(w)
    BY <1>0, <1>1 DEF WiresOK
  <2>4. QED
    BY <1>0, <2>1, <2>2, <2>3, ScreenNotNone
<1> HIDE DEF w
<1>3. /\ v \in Wire /\ v.alive = w.alive /\ v.slot = None /\ v.shown = w.slot.frame /\ ~v.garbled
  BY <1>1, <1>2 DEF Wire, WireOK
<1> HIDE DEF v
<1>4. /\ Sound(s) /\ s.conns = srv.conns /\ s.live = srv.live /\ SameScreens(srv, s)
      /\ s.full = srv.full /\ s.sources = srv.sources /\ s.wires[c] = v /\ s.drained[c] > 0
      /\ \A d \in Ids : d # c => s.wires[d] = srv.wires[d] /\ s.drained[d] = srv.drained[d]
  BY <1>0, <1>3, WriterFields
<1> HIDE DEF s
<1>5. WireOK(v) /\ Coming(v) = Coming(w)
  BY <1>1, <1>3 DEF WireOK, Coming
<1>6. \A d \in Ids : Coming(s.wires[d]) = Coming(srv.wires[d])
  BY <1>4, <1>5 DEF w
<1>7. ASSUME ~s.full, Quiet(s) PROVE Due(s)
  <2>1. Due(srv)
    BY <1>0, <1>4, <1>7, FreshMeans DEF Quiet
  <2>2. \A d \in Targets(srv) : Waits(srv, d) => Waits(s, d)
    BY <1>0, <1>4 DEF Waits, Targets
  <2>3. \A d \in Targets(srv) : Coming(s.wires[d]) = Coming(srv.wires[d])
    BY <1>0, <1>6 DEF Targets
  <2>4. QED
    BY <1>4, <2>1, <2>2, <2>3, DueKept DEF SameScreens
<1>8. FreshOK'
  BY <1>0, <1>1, <1>4, <1>7, FreshPrimed
<1>9. \A d \in Ids : users'[d] \in {"out", "done"} =>
          d \notin DOMAIN srv'.conns /\ srv'.wires[d] = Unused
  BY <1>0, <1>1, <1>4 DEF UsersOK
<1>10. \A d \in Ids : ~srv'.wires[d].alive => users'[d] = "shut"
  BY <1>0, <1>1, <1>3, <1>4 DEF UsersOK
<1>11. \A d \in Ids : users'[d] = "open" => WireOK(srv'.wires[d])
  BY <1>0, <1>1, <1>4, <1>5 DEF WiresOK
<1>12. \A d \in DOMAIN srv'.conns : users'[d] = "open" =>
          srv'.conns[d].last \in {None, Coming(srv'.wires[d])}
  BY <1>0, <1>1, <1>4, <1>6 DEF WiresOK
<1>13. QED
  BY <1>0, <1>1, <1>4, <1>8, <1>9, <1>10, <1>11, <1>12, StepKeeps

LEMMA WriteFailsKeeps ==
    ASSUME IInv, NEW c \in Ids, WriteFails(c)
    PROVE  IInv'
<1>0. /\ Typed /\ Sound(srv) /\ srv \in Server /\ DOMAIN srv.conns \subseteq Ids
      /\ setup \in Setups /\ UsersOK(srv) /\ WiresOK(srv)
      /\ users \in [Ids -> {"out", "open", "shut", "done"}]
      /\ content \in [{Chrome} \cup Terminals -> Nat] /\ written \in SUBSET Terminals
      /\ left \in [outputs : Nat, events : Nat, terminals : Nat]
  BY Known
<1> DEFINE w == srv.wires[c]
           v == [w EXCEPT !.slot = None, !.alive = FALSE]
           s == Reported(srv, c, v)
<1>1. /\ w.slot # None /\ users[c] # "open" /\ srv' = s
      /\ UNCHANGED <<setup, users, content, written, left>>
  BY <1>0 DEF WriteFails, Takes, Server, Reported
<1>2. users[c] = "shut"
  BY <1>0, <1>1 DEF UsersOK, Unused
<1>3. v \in Wire
  <2>1. w \in Wire
    BY <1>0, WireFields
  <2> HIDE DEF w
  <2>2. QED
    BY <2>1 DEF Wire
<1> HIDE DEF v
<1>4. /\ Sound(s) /\ s.conns = srv.conns
      /\ \A d \in Ids : d # c => s.wires[d] = srv.wires[d]
  BY <1>0, <1>3, WriterFields
<1> HIDE DEF s
<1>5. FreshOK'
  <2>1. ~Quiet(srv')
    BY <1>2 DEF Quiet
  <2>2. QED
    BY <1>0, <1>1, <1>4, <2>1, FreshPrimed
<1>6. \A d \in Ids : users'[d] \in {"out", "done"} =>
          d \notin DOMAIN srv'.conns /\ srv'.wires[d] = Unused
  BY <1>0, <1>1, <1>2, <1>4 DEF UsersOK
<1>7. \A d \in Ids : ~srv'.wires[d].alive => users'[d] = "shut"
  BY <1>0, <1>1, <1>2, <1>4 DEF UsersOK
<1>8. \A d \in Ids : users'[d] = "open" => WireOK(srv'.wires[d])
  BY <1>0, <1>1, <1>4 DEF WiresOK
<1>9. \A d \in DOMAIN srv'.conns : users'[d] = "open" =>
          srv'.conns[d].last \in {None, Coming(srv'.wires[d])}
  BY <1>0, <1>1, <1>4 DEF WiresOK
<1>10. QED
  BY <1>0, <1>1, <1>4, <1>5, <1>6, <1>7, <1>8, <1>9, StepKeeps

LEMMA CloseKeeps ==
    ASSUME IInv, NEW c \in Ids, Close(c)
    PROVE  IInv'
<1>0. /\ Typed /\ Sound(srv) /\ srv \in Server /\ DOMAIN srv.conns \subseteq Ids
      /\ UsersOK(srv) /\ WiresOK(srv)
      /\ users \in [Ids -> {"out", "open", "shut", "done"}]
      /\ content \in [{Chrome} \cup Terminals -> Nat] /\ written \in SUBSET Terminals
  BY Known
<1>1. /\ users[c] = "open" /\ Counts("events") /\ users' = [users EXCEPT ![c] = "shut"]
      /\ UNCHANGED <<setup, srv, content, written>>
  BY DEF Close, Reads
<1>2. left' \in [outputs : Nat, events : Nat, terminals : Nat]
  BY <1>0, <1>1, CountsTyped
<1>3. /\ users' \in [Ids -> {"out", "open", "shut", "done"}] /\ users'[c] = "shut"
      /\ \A d \in Ids : d # c => users'[d] = users[d]
  BY <1>0, <1>1
<1>4. FreshOK'
  <2>1. Ids' = Ids
    BY <1>1 DEF Ids
  <2>2. Leaving(c)'
    BY <1>3 DEF Leaving
  <2>3. QED
    BY <2>1, <2>2 DEF FreshOK
<1>5. \A d \in Ids : users'[d] \in {"out", "done"} =>
          d \notin DOMAIN srv'.conns /\ srv'.wires[d] = Unused
  BY <1>0, <1>1, <1>3 DEF UsersOK
<1>6. \A d \in Ids : ~srv'.wires[d].alive => users'[d] = "shut"
  BY <1>0, <1>1, <1>3 DEF UsersOK
<1>7. \A d \in Ids : users'[d] = "open" => WireOK(srv'.wires[d])
  BY <1>0, <1>1, <1>3 DEF WiresOK
<1>8. \A d \in DOMAIN srv'.conns : users'[d] = "open" =>
          srv'.conns[d].last \in {None, Coming(srv'.wires[d])}
  BY <1>0, <1>1, <1>3 DEF WiresOK
<1>9. QED
  BY <1>0, <1>1, <1>2, <1>3, <1>4, <1>5, <1>6, <1>7, <1>8, StepKeeps

\* The requests that a render has answered.
Answered(s) == [s EXCEPT !.full = FALSE, !.sources = {}]

LEMMA AnsweredFields ==
    ASSUME NEW s, Sound(s)
    PROVE  LET x == Answered(s)
           IN  /\ Sound(x) /\ x.conns = s.conns /\ x.live = s.live /\ SameScreens(s, x)
               /\ x.wires = s.wires /\ x.drained = s.drained /\ ~x.full /\ x.sources = {}
<1> DEFINE x == Answered(s)
<1>1. s \in Server
  BY DEF Sound
<1>2. /\ x \in Server /\ x.conns = s.conns /\ x.recent = s.recent /\ x.fg = s.fg /\ x.size = s.size
      /\ SameTerminals(s, x) /\ SameScreens(s, x) /\ x.wires = s.wires /\ x.drained = s.drained
      /\ ~x.full /\ x.sources = {}
  BY <1>1 DEF Answered, Server, SameTerminals, SameScreens
<1> HIDE DEF x
<1>3. Alike(s, x)
  BY <1>2 DEF Alike, SameWho, SameScreens
<1>4. Sound(x)
  BY <1>3, AlikeSound
<1>5. QED
  BY <1>2, <1>4 DEF x, SameTerminals

\* After a pass over all targets each is on its way to the current frame.
LEMMA SettledDue ==
    ASSUME Typed, NEW s, Sound(s), \A c \in Targets(s) : Settled(s, c, FrameOf(s, c))
    PROVE  Due(Answered(s))
<1> DEFINE x == Answered(s)
<1>0. /\ x.conns = s.conns /\ x.live = s.live /\ x.sizes = s.sizes /\ x.wires = s.wires
  BY AnsweredFields DEF SameScreens
<1> HIDE DEF x
<1>1. SUFFICES ASSUME NEW c \in Targets(x)
               PROVE  Waits(x, c) \/ Fresh(x, c, Coming(x.wires[c]))
  BY DEF Due, x
<1>2. c \in Targets(s) /\ c \in DOMAIN s.conns /\ s.conns[c].mode # "pending"
  BY <1>0, <1>1 DEF Targets, HasWriter
<1>3. FrameOf(s, c) \in Screen /\ None \notin Screen
  BY <1>2, FrameOfTyped, ScreenNotNone DEF Typed
<1>4. CASE s.conns[c].deferred /\ s.wires[c].slot # None
  BY <1>0, <1>4 DEF Waits
<1>5. CASE Coming(s.wires[c]) = FrameOf(s, c)
  <2> DEFINE f == FrameOf(s, c)
  <2>1. /\ f.size = x.conns[c].size /\ DOMAIN f.parts = Shows(s, c)
        /\ \A p \in Shows(s, c) : f.parts[p] = Part(s, p)
    BY <1>0 DEF FrameOf
  <2>2. Shows(x, c) = Shows(s, c) /\ \A p : Part(x, p) = Part(s, p)
    BY <1>0 DEF Shows, IsApp, Part
  <2>3. Coming(x.wires[c]) = f /\ f # None
    BY <1>0, <1>3, <1>5
  <2> HIDE DEF f
  <2>4. QED
    BY <2>1, <2>2, <2>3 DEF Fresh, Right
<1>6. QED
  BY <1>2, <1>4, <1>5 DEF Settled

\* Output that no client shows needs no frame.
LEMMA UnseenDue ==
    ASSUME NEW s, Sound(s), Due(s), ~Visible(s)
    PROVE  Due(Answered(s))
<1> DEFINE x == Answered(s)
<1>0. /\ x.conns = s.conns /\ x.live = s.live /\ x.sizes = s.sizes /\ x.wires = s.wires
      /\ x.dirty = s.dirty /\ x.drained = s.drained
  BY AnsweredFields DEF SameScreens
<1> HIDE DEF x
<1>1. SUFFICES ASSUME NEW c \in Targets(x)
               PROVE  Waits(x, c) \/ Fresh(x, c, Coming(x.wires[c]))
  BY DEF Due, x
<1>2. c \in Targets(s)
  BY <1>0, <1>1 DEF Targets, HasWriter
<1>3. Waits(s, c) \/ Fresh(s, c, Coming(s.wires[c]))
  BY <1>2 DEF Due
<1>4. Waits(s, c) => Waits(x, c)
  BY <1>0 DEF Waits
<1>5. Shows(x, c) = Shows(s, c) /\ \A p : Part(x, p) = Part(s, p)
  BY <1>0 DEF Shows, IsApp, Part
<1>6. \A p \in Shows(s, c) : p \notin s.sources
  BY <1>2 DEF Visible
<1>7. Fresh(s, c, Coming(s.wires[c])) => Fresh(x, c, Coming(x.wires[c]))
  BY <1>0, <1>5, <1>6 DEF Fresh, Right
<1>8. QED
  BY <1>3, <1>4, <1>7

LEMMA RenderKeeps ==
    ASSUME IInv, Render
    PROVE  IInv'
<1>0. /\ Typed /\ Sound(srv) /\ FreshOK /\ DOMAIN srv.conns \subseteq Ids
      /\ setup \in Setups /\ UsersOK(srv) /\ WiresOK(srv)
      /\ users \in [Ids -> {"out", "open", "shut", "done"}]
      /\ content \in [{Chrome} \cup Terminals -> Nat] /\ written \in SUBSET Terminals
      /\ left \in [outputs : Nat, events : Nat, terminals : Nat]
  BY Known
<1> DEFINE retained == {c \in Targets(srv) : RetainedAllowed(srv, c)}
           one == CHOOSE c \in retained : TRUE
           p == IF srv.full THEN RenderAndStream(srv)
                ELSE IF ~Visible(srv) THEN srv
                ELSE IF retained = {} THEN RenderAndStream(srv)
                ELSE RetainedUpdate(srv, one)
           x == Answered(p)
<1>1. srv' = x /\ UNCHANGED <<setup, users, content, written, left>>
  BY DEF Render, Answered
<1>2. retained # {} => RetainedAllowed(srv, one)
  OBVIOUS
<1> HIDE DEF one, retained
<1>3. /\ Pass(srv, RenderAndStream(srv))
      /\ Calm(srv) => \A c \in Targets(RenderAndStream(srv)) :
                         Settled(RenderAndStream(srv), c, FrameOf(RenderAndStream(srv), c))
  BY <1>0, RenderAndStreamPass
<1>4. retained # {} =>
        /\ Pass(srv, RetainedUpdate(srv, one))
        /\ Calm(srv) /\ Due(srv) => \A c \in Targets(RetainedUpdate(srv, one)) :
                         Settled(RetainedUpdate(srv, one), c, FrameOf(RetainedUpdate(srv, one), c))
  BY <1>0, <1>2, RetainedUpdatePass
<1>5. Pass(srv, p)
  BY <1>0, <1>3, <1>4, PassNothing
<1>6. Calm(srv) /\ (srv.full \/ Due(srv)) => Due(x)
  <2>1. SUFFICES ASSUME Calm(srv), srv.full \/ Due(srv) PROVE Due(x)
    OBVIOUS
  <2>2. Sound(p)
    BY <1>5 DEF Pass
  <2>3. CASE ~srv.full /\ ~Visible(srv)
    <3>1. p = srv /\ Due(srv)
      BY <2>1, <2>3
    <3>2. QED
      BY <1>0, <2>3, <3>1, UnseenDue
  <2>4. CASE srv.full \/ Visible(srv)
    <3>1. \A c \in Targets(p) : Settled(p, c, FrameOf(p, c))
      BY <1>3, <1>4, <2>1, <2>4
    <3> HIDE DEF p
    <3>2. QED
      BY <1>0, <2>2, <3>1, SettledDue
  <2>5. QED
    BY <2>3, <2>4
<1> HIDE DEF p
<1>7. /\ Sound(p) /\ WiresOK(p) /\ DOMAIN p.conns \subseteq DOMAIN srv.conns
      /\ \A c \in DOMAIN p.conns : SameWho(srv.conns[c], p.conns[c])
      /\ \A c \in DOMAIN srv.conns \ DOMAIN p.conns : srv.conns[c].writer
      /\ \A c \in Ids : /\ p.wires[c].alive = srv.wires[c].alive
                        /\ c \notin DOMAIN srv.conns => p.wires[c] = srv.wires[c]
  BY <1>5 DEF Pass
<1>8. Sound(x) /\ x.conns = p.conns /\ x.wires = p.wires /\ ~x.full
  BY <1>7, AnsweredFields
<1> HIDE DEF x
<1>9. ASSUME Quiet(x) PROVE Due(x)
  <2>1. Quiet(srv)
    BY <1>7, <1>8, <1>9 DEF Quiet, SameWho
  <2>2. Calm(srv)
    BY <1>0, <2>1, QuietCalm
  <2>3. srv.full \/ Due(srv)
    BY <1>0, <2>1, FreshMeans
  <2>4. QED
    BY <1>6, <2>2, <2>3
<1>10. FreshOK'
  BY <1>0, <1>1, <1>7, <1>8, <1>9, FreshPrimed
<1>11. \A d \in Ids : users'[d] \in {"out", "done"} =>
          d \notin DOMAIN srv'.conns /\ srv'.wires[d] = Unused
  BY <1>0, <1>1, <1>7, <1>8 DEF UsersOK
<1>12. \A d \in Ids : ~srv'.wires[d].alive => users'[d] = "shut"
  BY <1>0, <1>1, <1>7, <1>8 DEF UsersOK
<1>13. \A d \in Ids : users'[d] = "open" => WireOK(srv'.wires[d])
  BY <1>1, <1>7, <1>8 DEF WiresOK
<1>14. \A d \in DOMAIN srv'.conns : users'[d] = "open" =>
          srv'.conns[d].last \in {None, Coming(srv'.wires[d])}
  BY <1>0, <1>1, <1>7, <1>8 DEF WiresOK
<1>15. QED
  BY <1>0, <1>1, <1>8, <1>10, <1>11, <1>12, <1>13, <1>14, StepKeeps

-----------------------------------------------------------------------------
(* The theorems.                                                           *)

LEMMA InitKeeps == Init => IInv
<1>1. SUFFICES ASSUME Init PROVE IInv
  OBVIOUS
<1>2. setup \in Setups
  BY <1>1 DEF Init
<1>3. /\ srv.conns = <<>> /\ srv.recent = <<>> /\ srv.fg = None /\ srv.size = 0
      /\ srv.owners = [t \in Terminals |-> None] /\ srv.locks = {} /\ srv.live = Terminals /\ srv.reads = {}
      /\ srv.wires = [c \in Ids |-> Unused]
  BY <1>1 DEF Init, Terminals
<1>4. srv \in Server
  <2>1. Unused \in Wire
    BY DEF Unused, Wire
  <2>2. <<>> \in Connections /\ <<>> \in Seq(Ids)
    <3> DEFINE e == <<>>
    <3>1. e \in Seq(Connection) /\ e \in Seq(Ids) /\ DOMAIN e = {}
      OBVIOUS
    <3>2. e \in [DOMAIN e -> Connection]
      BY <3>1
    <3> HIDE DEF e
    <3>3. DOMAIN e \subseteq Ids
      BY <3>1
    <3>4. e \in Connections
      BY <3>2, <3>3, ConnectionsDef
    <3>5. QED
      BY <3>1, <3>4 DEF e
  <2>3. QED
    BY <1>1, <2>1, <2>2 DEF Init, Server, Terminals
<1>5. users = [c \in Ids |-> "out"]
  BY <1>1 DEF Init
<1>6. Typed
  <2>1. setup.left \in [outputs : Nat, events : Nat, terminals : Nat]
    BY <1>2, ClientsAssumption
  <2>2. QED
    BY <1>1, <1>2, <1>4, <1>5, <2>1 DEF Init, Typed, Terminals
<1>7. DOMAIN srv.conns = {}
  BY <1>3
<1>8. Sound(srv)
  <2>1. ConnectionsOK(srv)
    BY <1>3, <1>7 DEF ConnectionsOK, Once, ToSet
  <2>2. ForegroundOK(srv) /\ AttachmentsOK(srv) /\ SizesOK(srv)
    BY <1>3, <1>7 DEF ForegroundOK, AttachmentsOK, SizesOK
  <2>3. QED
    BY <1>4, <2>1, <2>2 DEF Sound
<1>9. UsersOK(srv) /\ WiresOK(srv)
  BY <1>3, <1>5, <1>7 DEF UsersOK, WiresOK, Unused
<1>10. FreshOK
  BY <1>7 DEF FreshOK, Targets
<1>11. QED
  BY <1>6, <1>8, <1>9, <1>10 DEF IInv

LEMMA NextKeeps == IInv /\ [Next]_vars => IInv'
<1>1. SUFFICES ASSUME IInv, [Next]_vars PROVE IInv'
  OBVIOUS
<1>2. setup.terminals = Terminals
  BY DEF Terminals
<1>3. ASSUME NEW c \in Ids,
             \/ \E size \in setup.sizes : Resize(c, size)
             \/ \E t \in setup.terminals : Observe(c, t) \/ \E takeover \in BOOLEAN : Attach(c, t, takeover)
             \/ \E redraw \in BOOLEAN : Input(c, redraw)
      PROVE  IInv'
  BY <1>1, <1>2, <1>3, ResizeKeeps, ObserveKeeps, AttachKeeps, InputKeeps
<1>4. ASSUME NEW c \in Ids,
             \/ Connect(c) \/ DetachKey(c) \/ Detach(c) \/ Close(c) \/ Disconnected(c)
             \/ WriterDrained(c) \/ WriteFrame(c) \/ WriteFails(c)
      PROVE  IInv'
  BY <1>1, <1>4, ConnectKeeps, DetachKeyKeeps, DetachKeeps, CloseKeeps, DisconnectedKeeps,
     WriterDrainedKeeps, WriteFrameKeeps, WriteFailsKeeps
<1>5. ASSUME NEW t \in setup.terminals,
             \/ \E died \in BOOLEAN : TerminalGoes(t, died)
             \/ StartRead(t) \/ EndRead(t) \/ Output(t) \/ Signal(t)
      PROVE  IInv'
  BY <1>1, <1>2, <1>5, TerminalGoesKeeps, StartReadKeeps, EndReadKeeps, OutputKeeps, SignalKeeps
<1>6. CASE Broadcast \/ DisconnectAll \/ AppChanges \/ Render
  BY <1>1, <1>6, BroadcastKeeps, DisconnectAllKeeps, AppChangesKeeps, RenderKeeps
<1>7. CASE UNCHANGED vars
  <2>1. UNCHANGED <<setup, srv, users, content, written, left>>
    BY <1>7 DEF vars
  <2>2. /\ Typed /\ Sound(srv) /\ UsersOK(srv) /\ WiresOK(srv) /\ FreshOK
    BY <1>1 DEF IInv
  <2>3. FreshOK'
    <3>1. DOMAIN srv'.conns \subseteq Ids
      BY <1>1, <2>1, Known
    <3>2. ~srv.full /\ Quiet(srv) => Due(srv)
      BY <1>1, <2>2, Known, FreshMeans
    <3>3. QED
      BY <2>1, <3>1, <3>2, FreshPrimed
  <2>4. Tame(srv, srv)
    BY <2>2 DEF Tame
  <2>5. QED
    BY <1>1, <2>1, <2>2, <2>3, <2>4, StepTame DEF Typed
<1>8. QED
  BY <1>1, <1>3, <1>4, <1>5, <1>6, <1>7 DEF Next

LEMMA Invariant == Spec => []IInv
<1>1. Init => IInv
  BY InitKeeps
<1>2. IInv /\ [Next]_vars => IInv'
  BY NextKeeps
<1>3. QED
  BY <1>1, <1>2, PTL DEF Spec

\* The foreground is an app client and gives the app its size, a terminal has
\* one owner, the attached client, and the size of its owner or of the
\* foreground, after every handler, for any clients, terminals and bounds
\* (promote_client, remove_client_and_resize, attach_terminal_client).
THEOREM ClientsConsistent == Spec => []Consistent
<1>1. IInv => Consistent
  BY DEF IInv, Sound, Consistent
<1>2. QED
  BY <1>1, Invariant, PTL

\* No client is forgotten: it is on its way to the current screen or something
\* that renders for it is bound to follow, although a client has room for one
\* frame only, and the differences it is sent fit what it shows, for any
\* clients, terminals and bounds (render_and_stream, ClientWriterDrained).
THEOREM NoUpdateForgotten == Spec => []NothingForgotten
<1>1. ASSUME IInv PROVE NothingForgotten
  <2>0. /\ srv \in Server /\ FreshOK /\ WiresOK(srv) /\ DOMAIN srv.conns \subseteq Ids /\ setup \in Setups
    BY <1>1, Known
  <2>1. SUFFICES ASSUME NEW c \in Targets(srv), users[c] = "open",
                        ~(srv.full \/ srv.sources # {} \/ written # {}
                          \/ (srv.conns[c].deferred /\ (srv.wires[c].slot # None \/ srv.drained[c] > 0))
                          \/ \E d \in Ids : Leaving(d))
                 PROVE  Newest(c) = FrameOf(srv, c)
    <3>1. \A c \in Targets(srv) : users[c] = "open" => ~srv.wires[c].garbled
      BY <2>0 DEF Targets, WiresOK, WireOK
    <3>2. QED
      BY <3>1 DEF NothingForgotten
  <2>2. c \in Ids
    BY <2>0, <2>1 DEF Targets
  <2> DEFINE f == Coming(srv.wires[c])
  <2>3. Fresh(srv, c, f)
    BY <2>0, <2>1 DEF FreshOK, Waits
  <2>4. f \in Screen
    <3>1. f \in Screen \cup {None}
      BY <2>0, <2>2, WireFields DEF Coming, Letter
    <3>2. QED
      BY <2>3, <3>1 DEF Fresh
  <2>5. f = Newest(c)
    BY DEF Newest, Coming
  <2> HIDE DEF f
  <2>6. /\ f.size = srv.conns[c].size /\ DOMAIN f.parts = Shows(srv, c)
        /\ \A p \in Shows(srv, c) : Right(srv, f, p)
    BY <2>1, <2>3 DEF Fresh
  <2>7. QED
    BY <2>4, <2>5, <2>6, AllRight
<1>2. QED
  BY <1>1, Invariant, PTL

=============================================================================
