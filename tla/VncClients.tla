----------------------------- MODULE VncClients -----------------------------
(***************************************************************************)
(* The clients of the VNC server and their input (core/src/vnc.c), up to   *)
(* the keys the display layer holds (core/src/gemu_display_vnc.c).         *)
(*                                                                         *)
(* The accept thread makes clients, each with a reader and a writer        *)
(* thread; the emulator thread drains the input and shuts the server down. *)
(* Every section that holds s->lock is one action.  What the writer sends  *)
(* is in VncUpdates; here it only sends, sleeps and ends.                  *)
(*                                                                         *)
(* A client that is freed may connect again as a new one.  The order of    *)
(* s->clients does not matter, so it is a set.                             *)
(***************************************************************************)
EXTENDS Naturals, Sequences, FiniteSets

CONSTANTS
    Clients,
    MaxClients,    \* VNC_MAX_CLIENTS
    Keys,          \* keysyms, each its own key
    QueueSize,     \* VNC_KEY_QUEUE
    Exclusive,     \* share=allow-exclusive
    PasswordRequired

ASSUME MaxClientsAssumption == MaxClients \in Nat
ASSUME QueueSizeAssumption == QueueSize \in Nat \ {0}
ASSUME OptionsAssumption == Exclusive \in BOOLEAN /\ PasswordRequired \in BOOLEAN

VARIABLES
    running,          \* s->running
    acceptor,         \* the accept thread: "select", "start", "exit"
    clients,          \* s->clients
    reader,           \* reader thread of each client, "free" when there is none
    writer,           \* its writer thread
    alive,            \* c->alive; shutdown() is called where this is cleared
    shared,           \* the client's shared flag
    held,             \* c->held: keysyms the client holds down
    keys,             \* s->keys, oldest first
    button,           \* s->pointer.button
    password_valid,   \* s->password_valid
    shown_held,       \* the display's held keys
    stopper,          \* gemu_vnc_shutdown: "no", "join", "done"
    lost              \* history: a key event found one of the tables full

input == <<held, keys, button, lost>>
display == <<password_valid, shown_held, stopper>>
vars == <<running, acceptor, clients, reader, writer, alive, shared, input,
          display>>

Events == [key : Keys, down : BOOLEAN]

TypeOK ==
    /\ running \in BOOLEAN /\ button \in BOOLEAN /\ lost \in BOOLEAN
    /\ password_valid \in BOOLEAN
    /\ acceptor \in {"select", "start", "exit"}
    /\ clients \subseteq Clients
    /\ Cardinality(clients) <= MaxClients
    /\ reader \in [Clients -> {"free", "accepted", "handshake", "welcome",
                               "recv", "done", "join", "close"}]
    /\ writer \in [Clients -> {"none", "run", "asleep", "sending", "exit"}]
    /\ alive \in [Clients -> BOOLEAN] /\ shared \in [Clients -> BOOLEAN]
    /\ held \in [Clients -> SUBSET Keys]
    /\ keys \in Seq(Events) /\ Len(keys) <= QueueSize
    /\ shown_held \subseteq Keys
    /\ stopper \in {"no", "join", "done"}

Init ==
    /\ running = TRUE /\ acceptor = "select" /\ clients = {}
    /\ reader = [c \in Clients |-> "free"]
    /\ writer = [c \in Clients |-> "none"]
    /\ alive = [c \in Clients |-> FALSE] /\ shared = [c \in Clients |-> TRUE]
    /\ held = [c \in Clients |-> {}]
    /\ keys = <<>> /\ button = FALSE
    /\ password_valid = FALSE
    /\ shown_held = {} /\ stopper = "no" /\ lost = FALSE

-----------------------------------------------------------------------------
\* pthread_cond_broadcast: every sleeping writer looks again.
Woken(wr) == [c \in Clients |-> IF wr[c] = "asleep" THEN "run" ELSE wr[c]]

\* push_key for each event of a sequence: it drops the oldest event when the
\* queue is full.  (A faulty variant precedes each definition that the
\* properties are tested on.)
Pushed(q, events) ==
    LET all == q \o events
        over == IF Len(all) > QueueSize THEN Len(all) - QueueSize ELSE 0
    IN  SubSeq(all, over + 1, Len(all))

\* unheld: a key went down that c->held had no room for.
PushKeys(events, unheld) ==
    /\ keys' = Pushed(keys, events)
    /\ lost' = (lost \/ unheld \/ Len(keys) + Len(events) > QueueSize)

\* The releases of a set of keys, in some order of c->held.
Releases(released) ==
    {[i \in DOMAIN order |-> [key |-> order[i], down |-> FALSE]] :
        order \in {o \in [1..Cardinality(released) -> released] :
                     \A i, j \in DOMAIN o : o[i] = o[j] => i = j}}

-----------------------------------------------------------------------------
\* accept_main

\* The loop's test, at the end of a round.
NextRound == IF running THEN "select" ELSE "exit"

\* select times out, or the connection cannot be taken.
AcceptNothing ==
    /\ acceptor = "select"
    /\ acceptor' = NextRound
    /\ UNCHANGED <<running, clients, reader, writer, alive, shared, input,
                   display>>

Room == Cardinality(clients) < MaxClients

\* A new client is put in the table, if there is room.
Accept(c) ==
    /\ acceptor = "select" /\ reader[c] = "free" /\ Room
    /\ acceptor' = "start"
    /\ clients' = clients \cup {c}
    /\ reader' = [reader EXCEPT ![c] = "accepted"]
    /\ alive' = [alive EXCEPT ![c] = TRUE]
    /\ UNCHANGED <<running, writer, shared, input, display>>

\* The reader is started, or the client is removed (client_remove) and freed.
StartReader(c) ==
    /\ acceptor = "start" /\ reader[c] = "accepted"
    /\ acceptor' = NextRound
    /\ \/ /\ reader' = [reader EXCEPT ![c] = "handshake"]
          /\ UNCHANGED <<clients, alive, writer, button>>
       \/ /\ reader' = [reader EXCEPT ![c] = "free"]
          /\ alive' = [alive EXCEPT ![c] = FALSE]
          /\ clients' = clients \ {c}
          /\ button' = FALSE
          /\ writer' = Woken(writer)
    /\ UNCHANGED <<running, shared, held, keys, lost, display>>

-----------------------------------------------------------------------------
\* reader_main

To(c, place) == reader' = [reader EXCEPT ![c] = place]

\* The loop's test, before each message.
Again(c) == To(c, IF alive[c] /\ running THEN "recv" ELSE "done")

\* handshake: version, authentication, the shared flag.  The last thing sent
\* is ServerInit, which fails on a socket that was shut down.
Handshake(c) ==
    /\ reader[c] = "handshake"
    /\ \/ /\ alive[c] /\ (PasswordRequired => password_valid)
          /\ \E s \in BOOLEAN : shared' = [shared EXCEPT ![c] = s]
          /\ To(c, "welcome")
       \/ To(c, "done") /\ UNCHANGED shared
    /\ UNCHANGED <<running, acceptor, clients, writer, alive, input, display>>

\* An exclusive request disconnects everyone else; the writer is started, or
\* the client given up.
Welcome(c) ==
    /\ reader[c] = "welcome"
    /\ alive' = IF Exclusive /\ ~shared[c]
                THEN [d \in Clients |-> alive[d] /\ (d \in clients => d = c)]
                ELSE alive
    /\ \/ Again(c) /\ writer' = [writer EXCEPT ![c] = "run"]
       \/ To(c, "done") /\ UNCHANGED writer
    /\ shared' = [shared EXCEPT ![c] = TRUE]
    /\ UNCHANGED <<running, acceptor, clients, input, display>>

\* client_key.  A message that arrived before the socket was shut down is
\* still handled.
Key(c, k, down) ==
    /\ reader[c] = "recv"
    /\ Again(c)
    /\ LET full == Cardinality(held[c]) >= QueueSize
       IN  /\ held' = [held EXCEPT ![c] = IF ~down THEN @ \ {k}
                                          ELSE IF full THEN @ ELSE @ \cup {k}]
           /\ PushKeys(<<[key |-> k, down |-> down]>>, down /\ full /\ k \notin held[c])
    /\ UNCHANGED <<running, acceptor, clients, writer, alive, shared, button,
                   display>>

\* client_pointer
Pointer(c, down) ==
    /\ reader[c] = "recv"
    /\ Again(c)
    /\ button' = down
    /\ UNCHANGED <<running, acceptor, clients, writer, alive, shared, held,
                   keys, lost, display>>

\* The client disconnects, was disconnected, or sends something unknown.
RecvFails(c) ==
    /\ reader[c] = "recv"
    /\ To(c, "done")
    /\ UNCHANGED <<running, acceptor, clients, writer, alive, shared, input,
                   display>>

\* done: the writer is told to end ...
DoneQuietly(c) ==
    /\ reader[c] = "done"
    /\ alive' = [alive EXCEPT ![c] = FALSE]
    /\ To(c, "join")
    /\ UNCHANGED <<running, acceptor, clients, writer, shared, input, display>>

Done(c) ==
    /\ reader[c] = "done"
    /\ alive' = [alive EXCEPT ![c] = FALSE]
    /\ writer' = Woken(writer)
    /\ To(c, "join")
    /\ UNCHANGED <<running, acceptor, clients, shared, input, display>>

\* ... and joined, if it was started.
JoinableAtOnce(c) == TRUE
Joinable(c) == writer[c] \in {"none", "exit"}

\* The keys that client_remove releases.
ReleasedNone(c) == {}
Released(c) == held[c]

\* pthread_join and client_remove
Remove(c) ==
    /\ reader[c] = "join" /\ Joinable(c)
    /\ clients' = clients \ {c}
    /\ \E events \in Releases(Released(c)) : PushKeys(events, FALSE)
    /\ held' = [held EXCEPT ![c] = {}]
    /\ button' = FALSE
    /\ writer' = Woken(writer)
    /\ To(c, "close")
    /\ UNCHANGED <<running, acceptor, alive, shared, display>>

\* The socket is closed and the client freed.
Close(c) ==
    /\ reader[c] = "close"
    /\ To(c, "free")
    /\ writer' = [writer EXCEPT ![c] = IF @ = "exit" THEN "none" ELSE @]
    /\ UNCHANGED <<running, acceptor, clients, alive, shared, input, display>>

-----------------------------------------------------------------------------
\* writer_main

WriterRun(c) ==
    /\ writer[c] = "run"
    /\ \/ ~(alive[c] /\ running) /\ writer' = [writer EXCEPT ![c] = "exit"]
       \/ /\ alive[c] /\ running
          /\ \E place \in {"asleep", "sending", "exit"} :
                writer' = [writer EXCEPT ![c] = place]
    /\ UNCHANGED <<running, acceptor, clients, reader, alive, shared, input,
                   display>>

\* send_update ends; a failure disconnects the client.
WriterSent(c) ==
    /\ writer[c] = "sending"
    /\ writer' = [writer EXCEPT ![c] = "run"]
    /\ alive' \in {alive, [alive EXCEPT ![c] = FALSE]}
    /\ UNCHANGED <<running, acceptor, clients, reader, shared, input, display>>

-----------------------------------------------------------------------------
\* The emulator and monitor threads.

\* gemu_vnc_update_argb: a new frame wakes the writers.
Frame ==
    /\ stopper = "no" /\ \E c \in Clients : writer[c] = "asleep"
    /\ writer' = Woken(writer)
    /\ UNCHANGED <<running, acceptor, clients, reader, alive, shared, input,
                   display>>

\* gemu_vnc_pop_key_event and set_held, from gemu_display_vnc_poll
PopKey ==
    /\ stopper = "no" /\ keys # <<>>
    /\ keys' = Tail(keys)
    /\ shown_held' = IF Head(keys).down THEN shown_held \cup {Head(keys).key}
                     ELSE shown_held \ {Head(keys).key}
    /\ UNCHANGED <<running, acceptor, clients, reader, writer, alive, shared,
                   held, button, lost, password_valid, stopper>>

\* gemu_vnc_set_password and gemu_vnc_expire_password
SetPassword(valid) ==
    /\ PasswordRequired /\ stopper = "no"
    /\ password_valid' = valid
    /\ UNCHANGED <<running, acceptor, clients, reader, writer, alive, shared,
                   input, shown_held, stopper>>

\* gemu_vnc_shutdown: everyone is disconnected, the accept thread is joined.
Shutdown ==
    /\ stopper = "no"
    /\ running' = FALSE
    /\ alive' = [c \in Clients |-> alive[c] /\ c \notin clients]
    /\ writer' = Woken(writer)
    /\ stopper' = "join"
    /\ UNCHANGED <<acceptor, clients, reader, shared, input, password_valid,
                   shown_held>>

ShutdownJoin ==
    /\ stopper = "join" /\ acceptor = "exit"
    /\ stopper' = "done"
    /\ UNCHANGED <<running, acceptor, clients, reader, writer, alive, shared,
                   input, password_valid, shown_held>>

Over == stopper = "done" /\ UNCHANGED vars

\* What a reader does without its peer's help.
ReaderThread(c) ==
    \/ Welcome(c) \/ Done(c) \/ Remove(c) \/ Close(c)
    \/ ~alive[c] /\ (Handshake(c) \/ RecvFails(c))

Peer(c) ==
    \/ Handshake(c) \/ RecvFails(c)
    \/ \E k \in Keys, down \in BOOLEAN : Key(c, k, down)
    \/ \E down \in BOOLEAN : Pointer(c, down)

Next ==
    \/ AcceptNothing
    \/ \E c \in Clients : Accept(c) \/ StartReader(c)
    \/ \E c \in Clients : ReaderThread(c) \/ WriterRun(c) \/ WriterSent(c) \/ Peer(c)
    \/ Frame \/ PopKey
    \/ \E valid \in BOOLEAN : SetPassword(valid)
    \/ Shutdown \/ ShutdownJoin
    \/ Over

Spec == Init /\ [][Next]_vars

\* Threads are scheduled; peers need not answer, send() may block as long as
\* the client is connected, and select may see nobody.
FairSpec ==
    /\ Spec
    /\ WF_vars(AcceptNothing) /\ WF_vars(ShutdownJoin)
    /\ \A c \in Clients :
          /\ WF_vars(ReaderThread(c)) /\ WF_vars(StartReader(c))
          /\ WF_vars(WriterRun(c)) /\ WF_vars(~alive[c] /\ WriterSent(c))

-----------------------------------------------------------------------------
(***************************************************************************)
(* Properties.                                                             *)
(***************************************************************************)

\* A client that others can still reach, through s->clients or as the writer
\* thread, has not been freed (client_remove, pthread_join before free).
NoUseAfterFree ==
    \A c \in Clients :
        /\ reader[c] = "free" => c \notin clients
        /\ reader[c] \in {"close", "free"} => writer[c] \in {"none", "exit"}

\* "Release anything this client was holding so keys don't stick": once the
\* display has seen every event, it holds no key that no client holds, unless
\* the queue overflowed, and no button is down when everybody is gone.
NothingSticks ==
    /\ keys = <<>> /\ ~lost => shown_held \subseteq UNION {held[c] : c \in Clients}
    /\ clients = {} => ~button

\* A client that was disconnected, by its peer, by an exclusive client or by a
\* failed send, is freed in the end: its reader does not wait for a writer that
\* nobody wakes.
DisconnectedIsFreed ==
    \A c \in Clients : (reader[c] # "free" /\ ~alive[c]) ~> reader[c] = "free"

\* gemu_vnc_shutdown returns.
ShutdownEnds == (stopper = "join") ~> (stopper = "done")

\* Sessions end: those that were disconnected, and all of them at shutdown.
SessionsEnd == DisconnectedIsFreed /\ ShutdownEnds
=============================================================================
