--------------------------- MODULE DisplayProofs ----------------------------
(***************************************************************************)
(* Proofs about pictures.  The VNC server: the writer's bookkeeping is     *)
(* right for every number of tiles, colours, sizes and frames, and a       *)
(* client is never freed while s->clients or a writer thread can still     *)
(* reach it, and leaves no key behind on the display, for any number of    *)
(* clients and keys and any table and queue size.  The NES video chip: it  *)
(* shows the scroll that was set, raises one interrupt for each blank and  *)
(* finds the sprites of each line, for every size of the name tables, of   *)
(* the screen and of the sprites' memory.                                  *)
(***************************************************************************)
EXTENDS VncClients, VncUpdates, NesVideo, NesSprites, SequenceTheorems, FiniteSetTheorems, TLAPS

\* A frame has been published exactly when there is a picture.
FrameInv == (fb = NoPicture) <=> (frame_seq = 0)

\* What the writer sends is the newest frame unless a newer one was published.
OutInv ==
    /\ sender = "sending" => out \in Updates
    /\ sender = "sending" /\ sent_seq = frame_seq => out.picture = fb

\* The client shows the picture last sent, and that is the newest frame once
\* the client is counted as having it.
ShownInv ==
    /\ shown = last
    /\ connected /\ sender # "sending" /\ sent_seq = frame_seq /\ frame_seq # 0
          => last = fb

\* The picture last sent has the client's size, but while a new size is being
\* announced, or when that failed.
LastInv ==
    last # NoPicture =>
        \/ last_size = cw
        \/ sender = "sending" /\ out.resize
        \/ sender \in {"run", "exit"} /\ ~connected

\* The parts of the type invariant, by the prover that handles them.
Switches ==
    /\ connected \in BOOLEAN /\ req \in BOOLEAN /\ req_full \in BOOLEAN
    /\ desktop_size \in BOOLEAN /\ unwoken \in BOOLEAN

Data ==
    /\ w \in Sizes \cup {NoSize} /\ fb \in Pictures \cup {NoPicture}
    /\ frame_seq \in Nat /\ sent_seq \in 0..frame_seq
    /\ cw \in Sizes
    /\ last \in Pictures \cup {NoPicture}
    /\ last_size \in Sizes \cup {NoSize}
    /\ sender \in {"run", "asleep", "sending", "exit"}
    /\ out \in Updates \cup {NoPicture}
    /\ shown \in Pictures \cup {NoPicture}

LEMMA TypeParts == UpdTypeOK <=> Switches /\ Data
  BY Zenon DEF UpdTypeOK, Switches, Data

Books == Data /\ FrameInv /\ OutInv /\ ShownInv /\ LastInv

IInv == Switches /\ Books

LEMMA InitInv == UpdInit => IInv
  <1> SUFFICES ASSUME UpdInit PROVE IInv
    OBVIOUS
  <1>1. Switches
    BY Zenon DEF UpdInit, Switches
  <1>2. Data
    BY DEF UpdInit, Data
  <1>3. FrameInv /\ OutInv /\ ShownInv /\ LastInv
    BY PictureAssumption DEF UpdInit, FrameInv, OutInv, ShownInv, LastInv, Pictures
  <1> QED BY <1>1, <1>2, <1>3 DEF IInv, Books

\* The flags stay flags.
LEMMA FlagsInv == ASSUME IInv, [UpdNext]_updVars PROVE Switches'
  <1> USE DEF Switches, frame, asked, client
  <1>0. Switches
    BY DEF IInv
  <1>1. ASSUME NEW size \in Sizes, NEW picture \in Pictures,
               Publish(size, picture)
        PROVE  Switches'
    BY <1>0, <1>1, Zenon DEF Publish, Broadcast
  <1>2. CASE SetPixelFormat
    BY <1>0, <1>2, Zenon DEF SetPixelFormat
  <1>3. ASSUME NEW desk \in BOOLEAN, SetEncodings(desk) PROVE Switches'
    BY <1>0, <1>3, Zenon DEF SetEncodings, Broadcast
  <1>4. ASSUME NEW incremental \in BOOLEAN, Request(incremental) PROVE Switches'
    BY <1>0, <1>4, Zenon DEF Request, Broadcast
  <1>5. CASE Disconnect \/ Kill
    BY <1>0, <1>5, Zenon DEF Disconnect, Kill, Broadcast
  <1>6. CASE Sleep \/ Take \/ Send \/ SendFails \/ OutOfMemory \/ Exit
    BY <1>0, <1>6, Zenon DEF Sleep, Take, Send, SendFails, OutOfMemory, Exit
  <1>7. CASE UNCHANGED updVars
    BY <1>0, <1>7, Zenon DEF updVars
  <1> QED BY <1>1, <1>2, <1>3, <1>4, <1>5, <1>6, <1>7 DEF UpdNext, Writer, WriterRuns, Gone

LEMMA PublishInv ==
  ASSUME IInv, NEW size \in Sizes, NEW picture \in Pictures,
         Publish(size, picture)
  PROVE  Books'
  <1> USE DEF IInv, Books, Publish, Broadcast, asked, client
  <1>1. Data'
    BY DEF Data
  <1>2. picture # NoPicture
    BY PictureAssumption DEF Pictures
  <1>3. FrameInv' /\ OutInv' /\ ShownInv'
    BY <1>2 DEF Data, FrameInv, OutInv, ShownInv
  <1>4. LastInv'
    BY DEF Data, LastInv
  <1> QED BY <1>1, <1>3, <1>4

LEMMA ReaderInv ==
  ASSUME IInv,
         \/ SetPixelFormat \/ Disconnect \/ Kill
         \/ \E desk \in BOOLEAN : SetEncodings(desk)
         \/ \E incremental \in BOOLEAN : Request(incremental)
  PROVE  Books'
  BY DEF IInv, Books, Data, FrameInv, OutInv, ShownInv, LastInv,
     SetPixelFormat, Disconnect, Kill, SetEncodings, Request, Broadcast,
     frame, asked, client

LEMMA TakeInv == ASSUME IInv, Take PROVE Books'
  <1> USE DEF IInv, Books, Take, frame, asked, client
  <1>0. req_full \in BOOLEAN /\ SizeChanged \in BOOLEAN
    BY Zenon DEF Switches, SizeChanged
  <1>1. out' \in Updates /\ out'.picture = fb /\ out'.resize = SizeChanged
    BY <1>0 DEF Data, Updates, Ready
  <1>2. cw' \in Sizes
    BY DEF Data, SizeChanged
  <1>3. Data'
    BY <1>1, <1>2 DEF Data, SentSeq
  <1>4. FrameInv' /\ OutInv' /\ ShownInv'
    BY <1>1 DEF FrameInv, OutInv, ShownInv
  <1>5. LastInv'
    BY <1>1 DEF LastInv
  <1> QED BY <1>3, <1>4, <1>5

LEMMA SendInv == ASSUME IInv, Send PROVE Books'
  <1> USE DEF IInv, Books, Send, frame, asked
  <1>1. out \in Updates /\ out.picture \in Pictures
    BY DEF OutInv, Updates
  <1>2. Shown(Dirty) = out.picture
    <2>1. CASE last = NoPicture
      BY <2>1, <1>1 DEF Shown, Dirty, SendAll, Pictures
    <2>2. CASE last # NoPicture
      <3>1. last \in Pictures /\ shown = last
        BY <2>2 DEF Data, ShownInv
      <3>2. \A tile \in Tiles : tile \notin Dirty => shown[tile] = out.picture[tile]
        BY <3>1 DEF Dirty
      <3> QED BY <3>1, <3>2, <1>1 DEF Shown, Pictures
    <2> QED BY <2>1, <2>2
  <1>3. shown' = out.picture /\ last' = out.picture
    BY <1>2
  <1>4. Data'
    BY <1>1, <1>3 DEF Data
  <1>5. FrameInv' /\ OutInv'
    BY DEF FrameInv, OutInv
  <1>6. ShownInv'
    BY <1>3 DEF ShownInv, OutInv
  <1>7. LastInv'
    <2>1. CASE SendAll
      BY <2>1 DEF LastInv
    <2>2. CASE ~SendAll
      BY <2>2 DEF LastInv, SendAll
    <2> QED BY <2>1, <2>2
  <1> QED BY <1>4, <1>5, <1>6, <1>7

LEMMA WriterInv ==
  ASSUME IInv, Sleep \/ SendFails \/ OutOfMemory \/ Exit
  PROVE  Books'
  BY DEF IInv, Books, Data, FrameInv, OutInv, ShownInv, LastInv, Sleep, SendFails,
     OutOfMemory, Exit, frame, asked, client

\* The inductive invariant holds in every reachable state.
THEOREM Invariance == UpdSpec => []IInv
  <1>1. IInv /\ [UpdNext]_updVars => IInv'
    <2> SUFFICES ASSUME IInv, [UpdNext]_updVars PROVE IInv'
      OBVIOUS
    <2>1. CASE UNCHANGED updVars
      BY <2>1, FlagsInv DEF updVars, IInv, Books, Data, FrameInv, OutInv,
         ShownInv, LastInv
    <2>2. CASE UpdNext
      BY <2>1, <2>2, FlagsInv, PublishInv, ReaderInv, TakeInv, SendInv, WriterInv
         DEF UpdNext, Writer, WriterRuns, Gone, IInv
    <2> QED BY <2>1, <2>2
  <1> QED BY <1>1, InitInv, PTL DEF UpdSpec

\* The variables keep their types, and no client is counted as having a frame
\* that was never published.
THEOREM UpdatesTyped == UpdSpec => []UpdTypeOK
  <1>1. IInv => UpdTypeOK
    BY TypeParts DEF IInv, Books
  <1> QED BY <1>1, Invariance, PTL

\* A client that has been sent the newest frame shows it (send_update and
\* writer_main), for every number of tiles and colours.
THEOREM ClientShowsFrame == UpdSpec => []ShowsCurrentFrame
  <1>1. IInv => ShowsCurrentFrame
    BY DEF IInv, Books, FrameInv, ShownInv, ShowsCurrentFrame
  <1> QED BY <1>1, Invariance, PTL

\* Changed tiles are compared with a picture of the same size (send_update),
\* for every sequence of size changes.
THEOREM LastHasSize == UpdSpec => []LastFits
  <1>1. IInv => LastFits
    BY DEF IInv, Books, LastInv, LastFits, SendAll
  <1> QED BY <1>1, Invariance, PTL

-----------------------------------------------------------------------------
\* The part of TypeOK about threads.
ThreadsOK ==
    /\ reader \in [Clients -> {"free", "accepted", "handshake", "welcome",
                               "recv", "done", "join", "close"}]
    /\ writer \in [Clients -> {"none", "run", "asleep", "sending", "exit"}]

\* Where the two threads of a client can be: the writer runs only while the
\* reader is in its loop, on its way out, or has joined it; and a client that
\* was removed is no longer in the table.
ClientOK(c) ==
    /\ writer[c] # "none" => reader[c] \in {"recv", "done", "join", "close"}
    /\ reader[c] = "close" => writer[c] \in {"none", "exit"}
    /\ reader[c] \in {"close", "free"} => c \notin clients

Lifetimes == ThreadsOK /\ \A c \in Clients : ClientOK(c)

\* Waking the writers leaves their type and who has one unchanged.
LEMMA WokenType ==
    ASSUME ThreadsOK
    PROVE  /\ Woken(writer) \in [Clients -> {"none", "run", "asleep", "sending", "exit"}]
           /\ \A c \in Clients :
                 /\ Woken(writer)[c] = "none" <=> writer[c] = "none"
                 /\ Woken(writer)[c] = "exit" <=> writer[c] = "exit"
BY DEF ThreadsOK, Woken

\* Every step keeps the lifetimes right.
LEMMA LifetimesStep ==
    ASSUME Lifetimes, [Next]_vars
    PROVE  Lifetimes'
<1> USE DEF Lifetimes, ThreadsOK, ClientOK
<1>1. CASE AcceptNothing
  BY <1>1 DEF AcceptNothing
<1>2. ASSUME NEW c \in Clients, Accept(c) PROVE Lifetimes'
  BY <1>2 DEF Accept
<1>3. ASSUME NEW c \in Clients, StartReader(c) PROVE Lifetimes'
  <2>1. CASE UNCHANGED writer /\ UNCHANGED clients /\ reader' = [reader EXCEPT ![c] = "handshake"]
    BY <1>3, <2>1 DEF StartReader
  <2>2. CASE /\ reader' = [reader EXCEPT ![c] = "free"]
             /\ clients' = clients \ {c} /\ writer' = Woken(writer)
    BY <1>3, <2>2, WokenType DEF StartReader
  <2> QED BY <1>3, <2>1, <2>2 DEF StartReader
<1>4. ASSUME NEW c \in Clients, Handshake(c) PROVE Lifetimes'
  BY <1>4 DEF Handshake, To
<1>5. ASSUME NEW c \in Clients, Welcome(c) PROVE Lifetimes'
  BY <1>5 DEF Welcome, To, Again
<1>6. ASSUME NEW c \in Clients, RecvFails(c) PROVE Lifetimes'
  BY <1>6 DEF RecvFails, To
<1>7. ASSUME NEW c \in Clients, Done(c) PROVE Lifetimes'
  BY <1>7, WokenType DEF Done, To
<1>8. ASSUME NEW c \in Clients, Remove(c) PROVE Lifetimes'
  <2>1. writer[c] \in {"none", "exit"}
    BY <1>8 DEF Remove, Joinable
  <2>2. /\ reader' = [reader EXCEPT ![c] = "close"] /\ reader[c] = "join"
        /\ clients' = clients \ {c} /\ writer' = Woken(writer)
    BY <1>8 DEF Remove, To
  <2> QED BY <2>1, <2>2, WokenType
<1>9. ASSUME NEW c \in Clients, Close(c) PROVE Lifetimes'
  BY <1>9 DEF Close, To
<1>10. ASSUME NEW c \in Clients, WriterRun(c) PROVE Lifetimes'
  BY <1>10 DEF WriterRun
<1>11. ASSUME NEW c \in Clients, WriterSent(c) PROVE Lifetimes'
  BY <1>11 DEF WriterSent
<1>12. ASSUME NEW c \in Clients, NEW k \in Keys, NEW down \in BOOLEAN, Key(c, k, down)
       PROVE  Lifetimes'
  BY <1>12 DEF Key, Again, To
<1>13. ASSUME NEW c \in Clients, NEW down \in BOOLEAN, Pointer(c, down) PROVE Lifetimes'
  BY <1>13 DEF Pointer, Again, To
<1>14. CASE Frame
  BY <1>14, WokenType DEF Frame
<1>15. CASE PopKey
  BY <1>15 DEF PopKey
<1>16. ASSUME NEW valid \in BOOLEAN, SetPassword(valid) PROVE Lifetimes'
  BY <1>16 DEF SetPassword
<1>17. CASE Shutdown
  BY <1>17, WokenType DEF Shutdown
<1>18. CASE ShutdownJoin
  BY <1>18 DEF ShutdownJoin
<1>19. CASE UNCHANGED vars
  BY <1>19 DEF vars
<1> QED
  BY <1>1, <1>2, <1>3, <1>4, <1>5, <1>6, <1>7, <1>8, <1>9, <1>10, <1>11, <1>12,
     <1>13, <1>14, <1>15, <1>16, <1>17, <1>18, <1>19
  DEF Next, ReaderThread, Peer, Over

\* A client that s->clients still lists, or whose writer thread still runs, has
\* not been freed (client_remove and pthread_join before free in reader_main).
THEOREM FreedIsUnreachable == Spec => []NoUseAfterFree
<1>1. Init => Lifetimes
  BY DEF Init, Lifetimes, ThreadsOK, ClientOK
<1>2. Lifetimes => NoUseAfterFree
  BY DEF Lifetimes, ThreadsOK, ClientOK, NoUseAfterFree
<1> QED BY <1>1, <1>2, LifetimesStep, PTL DEF Spec

----------------------------------------------------------------------------
(***************************************************************************)
(* Keys do not stick.                                                      *)
(***************************************************************************)

\* What the events of q say about key k: its last one is a press; there is none.
Asked(q, k) == \E i \in 1..Len(q) : /\ q[i].key = k /\ q[i].down
                                    /\ \A j \in 1..Len(q) : j > i => q[j].key # k
Silent(q, k) == \A i \in 1..Len(q) : q[i].key # k

\* Whether the display will hold k once it has seen them, if it holds s now.
WillHold(q, s, k) == Asked(q, k) \/ (Silent(q, k) /\ k \in s)

HeldBySome(h, k) == \E c \in Clients : k \in h[c]

InputTyped ==
    /\ keys \in Seq(Events) /\ shown_held \in SUBSET Keys
    /\ held \in [Clients -> SUBSET Keys]
    /\ \A c \in Clients : IsFiniteSet(held[c])

\* A client whose reader handles messages is in the table.
Listed ==
    /\ reader \in [Clients -> {"free", "accepted", "handshake", "welcome",
                               "recv", "done", "join", "close"}]
    /\ \A c \in Clients : reader[c] \notin {"free", "close"} => c \in clients

StickInv ==
    /\ InputTyped /\ Listed
    /\ button => clients # {}
    /\ ~lost => \A k \in Keys : WillHold(keys, shown_held, k) => HeldBySome(held, k)

LEMMA AskedLater ==
  ASSUME NEW q \in Seq(Events), NEW ev \in Seq(Events), NEW s, NEW k,
         WillHold(q \o ev, s, k)
  PROVE  Asked(ev, k) \/ (Silent(ev, k) /\ WillHold(q, s, k))
<1> DEFINE n == Len(q)
           m == Len(ev)
           z == q \o ev
<1>1. n \in Nat /\ m \in Nat /\ Len(z) = n + m
  BY LenProperties, ConcatProperties
<1>2. \A i \in 1..(n + m) : z[i] = IF i <= n THEN q[i] ELSE ev[i - n]
  BY ConcatProperties
<1>3. WillHold(z, s, k)
  OBVIOUS
<1>0. /\ Asked(q, k) <=> \E i \in 1..n : /\ q[i].key = k /\ q[i].down
                                         /\ \A j \in 1..n : j > i => q[j].key # k
      /\ Asked(ev, k) <=> \E i \in 1..m : /\ ev[i].key = k /\ ev[i].down
                                          /\ \A j \in 1..m : j > i => ev[j].key # k
      /\ Silent(q, k) <=> \A i \in 1..n : q[i].key # k
      /\ Silent(ev, k) <=> \A i \in 1..m : ev[i].key # k
  BY DEF Asked, Silent
<1>4. /\ Asked(z, k) <=> \E i \in 1..(n + m) : /\ z[i].key = k /\ z[i].down
                                               /\ \A j \in 1..(n + m) : j > i => z[j].key # k
      /\ Silent(z, k) <=> \A i \in 1..(n + m) : z[i].key # k
  BY <1>1 DEF Asked, Silent
<1> HIDE DEF n, m, z
<1>5. /\ \A i \in 1..n : i \in 1..(n + m) /\ z[i] = q[i]
      /\ \A i \in 1..m : n + i \in 1..(n + m) /\ z[n + i] = ev[i]
  <2>1. \A i \in 1..n : i \in 1..(n + m) /\ i <= n
    BY <1>1
  <2>2. \A i \in 1..m : n + i \in 1..(n + m) /\ ~(n + i <= n) /\ (n + i) - n = i
    BY <1>1
  <2> QED
    BY <1>2, <2>1, <2>2
<1>6. CASE Silent(ev, k)
  <2>1. CASE Asked(z, k)
    <3>1. PICK i \in 1..(n + m) : /\ z[i].key = k /\ z[i].down
                                  /\ \A j \in 1..(n + m) : j > i => z[j].key # k
      BY <1>4, <2>1
    <3>2. i \in 1..n
      <4> SUFFICES ASSUME i \notin 1..n PROVE FALSE
        OBVIOUS
      <4>1. i - n \in 1..m /\ n + (i - n) = i
        BY <1>1
      <4> QED
        BY <1>0, <1>5, <1>6, <3>1, <4>1
    <3>3. /\ q[i].key = k /\ q[i].down
          /\ \A j \in 1..n : j > i => q[j].key # k
      BY <1>5, <3>1, <3>2
    <3> QED
      BY <1>0, <1>6, <3>2, <3>3 DEF WillHold
  <2>2. CASE Silent(z, k) /\ k \in s
    BY <1>0, <1>4, <1>5, <1>6, <2>2 DEF WillHold
  <2> QED
    BY <1>3, <2>1, <2>2 DEF WillHold
<1>7. CASE ~Silent(ev, k)
  <2>1. PICK h \in 1..m : ev[h].key = k
    BY <1>0, <1>7
  <2>2. n + h \in 1..(n + m) /\ z[n + h].key = k
    BY <1>5, <2>1
  <2>3. Asked(z, k)
    BY <1>3, <1>4, <2>2 DEF WillHold
  <2>4. PICK i \in 1..(n + m) : /\ z[i].key = k /\ z[i].down
                                /\ \A j \in 1..(n + m) : j > i => z[j].key # k
    BY <1>4, <2>3
  <2>5. ~(n + h > i)
    BY <2>2, <2>4
  <2>6. i - n \in 1..m /\ n + (i - n) = i
    BY <1>1, <2>5
  <2>7. ev[i - n].key = k /\ ev[i - n].down
    BY <1>5, <2>4, <2>6
  <2>8. \A j \in 1..m : j > i - n => ev[j].key # k
    <3> SUFFICES ASSUME NEW j \in 1..m, j > i - n PROVE ev[j].key # k
      OBVIOUS
    <3>1. n + j \in 1..(n + m) /\ z[n + j] = ev[j]
      BY <1>5
    <3>2. n + j > i
      BY <1>1, <2>6
    <3> QED
      BY <2>4, <3>1, <3>2
  <2> QED
    BY <1>0, <2>6, <2>7, <2>8
<1> QED
  BY <1>6, <1>7

LEMMA AskedEarlier ==
  ASSUME NEW q \in Seq(Events), q # <<>>, NEW s, NEW k,
         WillHold(Tail(q), IF Head(q).down THEN s \cup {Head(q).key} ELSE s \ {Head(q).key}, k)
  PROVE  WillHold(q, s, k)
<1> DEFINE m == Len(q) - 1
           rest == Tail(q)
<1>1. m \in Nat /\ Len(q) = m + 1 /\ Len(rest) = m /\ \A i \in 1..m : rest[i] = q[i + 1]
  BY LenProperties, EmptySeq, HeadTailProperties
<1>2. Head(q) = q[1]
  BY SMT
<1>3. /\ Asked(q, k) <=> \E i \in 1..(m + 1) : /\ q[i].key = k /\ q[i].down
                                               /\ \A j \in 1..(m + 1) : j > i => q[j].key # k
      /\ Silent(q, k) <=> \A i \in 1..(m + 1) : q[i].key # k
  BY <1>1 DEF Asked, Silent
<1>4. /\ Asked(rest, k) <=> \E i \in 1..m : /\ rest[i].key = k /\ rest[i].down
                                            /\ \A j \in 1..m : j > i => rest[j].key # k
      /\ Silent(rest, k) <=> \A i \in 1..m : rest[i].key # k
  BY <1>1 DEF Asked, Silent
<1>5. \/ Asked(rest, k)
      \/ Silent(rest, k) /\ (IF q[1].down THEN k \in s \/ k = q[1].key ELSE k \in s /\ k # q[1].key)
  BY <1>2 DEF WillHold
<1> HIDE DEF m, rest
<1>6. \A j \in 1..(m + 1) : j # 1 => j - 1 \in 1..m /\ (j - 1) + 1 = j
  BY <1>1
<1>7. \A i \in 1..m : i + 1 \in 1..(m + 1)
  BY <1>1
<1>8. 1 \in 1..(m + 1)
  BY <1>1
<1>9. CASE Asked(rest, k)
  <2>1. PICK i \in 1..m : /\ rest[i].key = k /\ rest[i].down
                          /\ \A j \in 1..m : j > i => rest[j].key # k
    BY <1>4, <1>9
  <2>2. q[i + 1].key = k /\ q[i + 1].down
    BY <1>1, <2>1
  <2>3. \A j \in 1..(m + 1) : j > i + 1 => q[j].key # k
    <3> SUFFICES ASSUME NEW j \in 1..(m + 1), j > i + 1 PROVE q[j].key # k
      OBVIOUS
    <3>1. j - 1 \in 1..m /\ (j - 1) + 1 = j /\ j - 1 > i
      BY <1>1
    <3> QED
      BY <1>1, <2>1, <3>1
  <2> QED
    BY <1>3, <1>7, <2>2, <2>3 DEF WillHold
<1>10. CASE Silent(rest, k)
  <2>1. \A j \in 1..(m + 1) : j # 1 => q[j].key # k
    <3> SUFFICES ASSUME NEW j \in 1..(m + 1), j # 1 PROVE q[j].key # k
      OBVIOUS
    <3>1. j - 1 \in 1..m /\ q[(j - 1) + 1] = q[j]
      BY <1>6
    <3>2. rest[j - 1] = q[j]
      BY <1>1, <3>1
    <3> QED
      BY <1>4, <1>10, <3>1, <3>2
  <2>2. CASE q[1].key = k
    <3>1. q[1].down
      BY <1>4, <1>5, <1>10, <2>2
    <3>2. \A j \in 1..(m + 1) : j > 1 => q[j].key # k
      BY <2>1
    <3> QED
      BY <1>3, <1>8, <2>2, <3>1, <3>2 DEF WillHold
  <2>3. CASE q[1].key # k
    <3>1. Silent(q, k)
      BY <1>3, <2>1, <2>3
    <3>2. k \in s
      BY <1>4, <1>5, <1>10, <2>3
    <3> QED
      BY <3>1, <3>2 DEF WillHold
  <2> QED
    BY <2>2, <2>3
<1> QED
  BY <1>5, <1>9, <1>10

\* The releases of a client's keys name every one of them.
LEMMA ReleasesAll ==
  ASSUME NEW S \in SUBSET Keys, IsFiniteSet(S), NEW ev \in Releases(S)
  PROVE  /\ ev \in Seq(Events)
         /\ \A k : ~Asked(ev, k)
         /\ \A k \in S : ~Silent(ev, k)
<1> DEFINE n == Cardinality(S)
<1>1. n \in Nat
  BY FS_CardinalityType
<1>2. PICK o \in [1..n -> S] : /\ \A i, j \in DOMAIN o : o[i] = o[j] => i = j
                               /\ ev = [i \in DOMAIN o |-> [key |-> o[i], down |-> FALSE]]
  BY DEF Releases
<1>3. o \in Injection(1..n, S)
  <2>1. \A i, j \in 1..n : o[i] = o[j] => i = j
    BY <1>2, Zenon
  <2> QED
    BY <1>2, <2>1 DEF Injection, IsInjective
<1>4. IsFiniteSet(1..n) /\ Cardinality(1..n) = n
  BY <1>1, FS_Interval
<1>5. o \in Surjection(1..n, S)
  BY <1>3, <1>4, FS_Injection
<1>6. \A k \in S : \E i \in 1..n : o[i] = k
  BY <1>5 DEF Surjection
<1> HIDE DEF n
<1>7. \A i \in 1..n : /\ ev[i] = [key |-> o[i], down |-> FALSE] /\ ev[i] \in Events
                      /\ ev[i].key = o[i] /\ ~ev[i].down
  BY <1>2 DEF Events
<1>8. ev \in Seq(Events) /\ Len(ev) = n
  <2>1. ev \in [1..n -> Events]
    BY <1>2, <1>7
  <2> QED
    BY <1>1, <2>1, SeqDef, LenProperties
<1>9. \A k : ~Asked(ev, k)
  BY <1>7, <1>8 DEF Asked
<1>10. \A k \in S : ~Silent(ev, k)
  BY <1>6, <1>7, <1>8 DEF Silent
<1> QED
  BY <1>8, <1>9, <1>10

\* Unless the queue overflows, events are put at its end.
LEMMA PushedIs ==
  ASSUME NEW q \in Seq(Events), NEW ev \in Seq(Events)
  PROVE  /\ Pushed(q, ev) \in Seq(Events)
         /\ Len(q) + Len(ev) <= QueueSize => Pushed(q, ev) = q \o ev
<1> DEFINE all == q \o ev
           n == Len(all)
<1>1. all \in Seq(Events) /\ n = Len(q) + Len(ev) /\ n \in Nat
  BY ConcatProperties, LenProperties
<1>2. \A i \in 1..n : all[i] \in Events
  BY <1>1, ElementOfSeq
<1>3. QueueSize \in Nat
  BY QueueSizeAssumption
<1> HIDE DEF all, n
<1> DEFINE over == IF n > QueueSize THEN n - QueueSize ELSE 0
<1>4. Pushed(q, ev) = SubSeq(all, over + 1, n)
  BY DEF Pushed, all, n
<1>5. over \in Nat /\ (n <= QueueSize => over = 0)
  BY <1>1, <1>3
<1> HIDE DEF over
<1>6. SubSeq(all, over + 1, n) \in Seq(Events)
  <2>1. over + 1 \in Int /\ n \in Int /\ \A i \in (over + 1)..n : all[i] \in Events
    BY <1>1, <1>2, <1>5
  <2> QED
    BY <2>1, SubSeqProperties
<1>7. n <= QueueSize => SubSeq(all, over + 1, n) = all
  <2> SUFFICES ASSUME n <= QueueSize PROVE SubSeq(all, 1, n) = all
    BY <1>5
  <2>1. SubSeq(all, 1, n) \in Seq(Events) /\ Len(SubSeq(all, 1, n)) = n
        /\ \A i \in 1..n : SubSeq(all, 1, n)[i] = all[i]
    <3>1. 1 \in Int /\ n \in Int /\ \A i \in 1..n : all[i] \in Events
      BY <1>1, <1>2
    <3>2. (IF 1 <= n THEN n - 1 + 1 ELSE 0) = n /\ n - 1 + 1 = n
      BY <1>1
    <3>3. \A i \in 1..n : 1 + i - 1 = i
      BY <1>1
    <3> QED
      BY <3>1, <3>2, <3>3, SubSeqProperties
  <2>2. Len(all) = n
    BY DEF n
  <2> QED
    BY <1>1, <2>1, <2>2, SeqEqual
<1> QED
  BY <1>1, <1>4, <1>6, <1>7 DEF all

\* Nothing of the input moves, and no client leaves the table.
LEMMA InputStays ==
  ASSUME StickInv, UNCHANGED <<input, shown_held>>, Listed', button => clients' # {}
  PROVE  StickInv'
BY DEF StickInv, InputTyped, input, HeldBySome

\* A reader moves within its loop.
LEMMA ReaderMoves ==
  ASSUME Listed, NEW c \in Clients, NEW place, To(c, place), clients' = clients,
         place \in {"handshake", "welcome", "recv", "done", "join"}, reader[c] \notin {"free", "close"}
  PROVE  Listed'
BY DEF Listed, To

LEMMA KeyKeeps ==
  ASSUME StickInv, NEW c \in Clients, NEW k \in Keys, NEW down \in BOOLEAN, Key(c, k, down)
  PROVE  StickInv'
<1> DEFINE e == [key |-> k, down |-> down]
           full == Cardinality(held[c]) >= QueueSize
           mine == IF ~down THEN held[c] \ {k} ELSE IF full THEN held[c] ELSE held[c] \cup {k}
<1>1. /\ reader[c] = "recv" /\ clients' = clients /\ button' = button /\ shown_held' = shown_held
      /\ keys' = Pushed(keys, <<e>>) /\ held' = [held EXCEPT ![c] = mine]
      /\ lost' = (lost \/ (down /\ full /\ k \notin held[c]) \/ Len(keys) + Len(<<e>>) > QueueSize)
  BY DEF Key, PushKeys, display
<1>2. Listed'
  BY <1>1, ReaderMoves DEF StickInv, Key, Again
<1>3. /\ keys \in Seq(Events) /\ shown_held \in SUBSET Keys /\ held \in [Clients -> SUBSET Keys]
      /\ \A d \in Clients : IsFiniteSet(held[d])
  BY DEF StickInv, InputTyped
<1>4. e \in Events /\ <<e>> \in Seq(Events)
  BY DEF Events
<1>5. /\ keys' \in Seq(Events)
      /\ Len(keys) + Len(<<e>>) <= QueueSize => keys' = keys \o <<e>>
  BY <1>1, <1>3, <1>4, PushedIs
<1>6. mine \in SUBSET Keys /\ IsFiniteSet(mine)
  BY <1>3, FS_AddElement, FS_RemoveElement
<1>7. /\ ~down => mine = held[c] \ {k}
      /\ down => \/ mine = held[c] \cup {k}
                 \/ full /\ mine = held[c]
  OBVIOUS
<1> HIDE DEF mine, full
<1>8. held' \in [Clients -> SUBSET Keys] /\ held'[c] = mine /\ \A d \in Clients \ {c} : held'[d] = held[d]
  BY <1>1, <1>3, <1>6
<1>9. InputTyped'
  BY <1>1, <1>3, <1>5, <1>6, <1>8 DEF InputTyped
<1>10. ASSUME ~lost', NEW h \in Keys, WillHold(keys', shown_held', h)
       PROVE  HeldBySome(held', h)
  <2>1. ~lost /\ ~(Len(keys) + Len(<<e>>) > QueueSize) /\ (down /\ full => k \in held[c])
    BY <1>1, <1>10
  <2>2. Len(keys) \in Nat /\ Len(<<e>>) \in Nat /\ QueueSize \in Nat
    BY <1>3, <1>4, LenProperties, QueueSizeAssumption
  <2>3. keys' = keys \o <<e>>
    BY <1>5, <2>1, <2>2
  <2>4. Asked(<<e>>, h) \/ (Silent(<<e>>, h) /\ WillHold(keys, shown_held, h))
    BY <1>1, <1>3, <1>4, <1>10, <2>3, AskedLater
  <2>5. \A i : i \in 1..Len(<<e>>) <=> i = 1
    <3>1. Len(<<e>>) = 1
      OBVIOUS
    <3>2. \A i : i \in 1..1 <=> i = 1
      OBVIOUS
    <3> QED
      BY <3>1, <3>2
  <2>6. <<e>>[1].key = k /\ <<e>>[1].down = down
    OBVIOUS
  <2>7. CASE Asked(<<e>>, h)
    <3>1. h = k /\ down
      BY <2>5, <2>6, <2>7 DEF Asked
    <3>2. h \in mine
      BY <1>7, <2>1, <3>1
    <3> QED
      BY <1>8, <3>2 DEF HeldBySome
  <2>8. CASE Silent(<<e>>, h) /\ WillHold(keys, shown_held, h)
    <3>1. h # k
      BY <2>5, <2>6, <2>8 DEF Silent
    <3>2. HeldBySome(held, h)
      BY <2>1, <2>8 DEF StickInv
    <3>3. PICK d \in Clients : h \in held[d]
      BY <3>2 DEF HeldBySome
    <3>4. h \in held'[d]
      BY <1>7, <1>8, <3>1, <3>3
    <3> QED
      BY <3>4 DEF HeldBySome
  <2> QED
    BY <2>4, <2>7, <2>8
<1> QED
  BY <1>1, <1>2, <1>9, <1>10 DEF StickInv

\* A client that leaves releases what it holds; others may hold it still, but
\* the display will not.
LEMMA RemoveKeeps ==
  ASSUME StickInv, NEW c \in Clients, Remove(c)
  PROVE  StickInv'
<1>1. PICK ev \in Releases(held[c]) : PushKeys(ev, FALSE)
  BY DEF Remove, Released
<1>2. /\ reader[c] = "join" /\ reader' = [reader EXCEPT ![c] = "close"] /\ clients' = clients \ {c}
      /\ ~button' /\ shown_held' = shown_held /\ held' = [held EXCEPT ![c] = {}]
  BY DEF Remove, To, display
<1>3. /\ keys' = Pushed(keys, ev) /\ lost' = (lost \/ Len(keys) + Len(ev) > QueueSize)
  BY <1>1 DEF PushKeys
<1>4. /\ keys \in Seq(Events) /\ shown_held \in SUBSET Keys /\ held \in [Clients -> SUBSET Keys]
      /\ \A d \in Clients : IsFiniteSet(held[d])
  BY DEF StickInv, InputTyped
<1>5. /\ ev \in Seq(Events) /\ \A k : ~Asked(ev, k)
      /\ \A k \in held[c] : ~Silent(ev, k)
  BY <1>1, <1>4, ReleasesAll
<1>6. /\ keys' \in Seq(Events)
      /\ Len(keys) + Len(ev) <= QueueSize => keys' = keys \o ev
  BY <1>3, <1>4, <1>5, PushedIs
<1>7. Listed'
  BY <1>2 DEF StickInv, Listed
<1>8. held' \in [Clients -> SUBSET Keys] /\ held'[c] = {} /\ \A d \in Clients \ {c} : held'[d] = held[d]
  BY <1>2, <1>4
<1>9. InputTyped'
  BY <1>2, <1>4, <1>6, <1>8, FS_EmptySet DEF InputTyped
<1>10. ASSUME ~lost', NEW h \in Keys, WillHold(keys', shown_held', h)
       PROVE  HeldBySome(held', h)
  <2>1. ~lost /\ ~(Len(keys) + Len(ev) > QueueSize)
    BY <1>3, <1>10
  <2>2. Len(keys) \in Nat /\ Len(ev) \in Nat /\ QueueSize \in Nat
    BY <1>4, <1>5, LenProperties, QueueSizeAssumption
  <2>3. keys' = keys \o ev
    BY <1>6, <2>1, <2>2
  <2>4. Silent(ev, h) /\ WillHold(keys, shown_held, h)
    BY <1>2, <1>4, <1>5, <1>10, <2>3, AskedLater
  <2>5. h \notin held[c] /\ HeldBySome(held, h)
    BY <1>5, <2>1, <2>4 DEF StickInv
  <2>6. PICK d \in Clients : h \in held[d]
    BY <2>5 DEF HeldBySome
  <2>7. h \in held'[d]
    BY <1>8, <2>5, <2>6
  <2> QED
    BY <2>7 DEF HeldBySome
<1> QED
  BY <1>2, <1>7, <1>9, <1>10 DEF StickInv

LEMMA PopKeeps ==
  ASSUME StickInv, PopKey
  PROVE  StickInv'
<1> DEFINE s == IF Head(keys).down THEN shown_held \cup {Head(keys).key}
                ELSE shown_held \ {Head(keys).key}
<1>1. /\ keys # <<>> /\ keys' = Tail(keys) /\ shown_held' = s
      /\ UNCHANGED <<reader, clients, held, button, lost>>
  BY DEF PopKey
<1>2. /\ keys \in Seq(Events) /\ shown_held \in SUBSET Keys
      /\ held \in [Clients -> SUBSET Keys] /\ \A c \in Clients : IsFiniteSet(held[c])
  BY DEF StickInv, InputTyped
<1>3. Head(keys) \in Events /\ Tail(keys) \in Seq(Events)
  BY <1>1, <1>2, HeadTailProperties
<1>4. s \in SUBSET Keys
  BY <1>2, <1>3 DEF Events
<1>5. ASSUME NEW k, WillHold(keys', shown_held', k)
      PROVE  WillHold(keys, shown_held, k)
  BY <1>1, <1>2, <1>5, AskedEarlier
<1> HIDE DEF s
<1>6. InputTyped'
  BY <1>1, <1>2, <1>3, <1>4 DEF InputTyped
<1>7. Listed' /\ (button' => clients' # {})
  BY <1>1 DEF StickInv, Listed
<1>8. ~lost' => \A k \in Keys : WillHold(keys', shown_held', k) => HeldBySome(held', k)
  BY <1>1, <1>5 DEF StickInv, HeldBySome
<1> QED
  BY <1>6, <1>7, <1>8 DEF StickInv

LEMMA StickStep ==
  ASSUME StickInv, [Next]_vars
  PROVE  StickInv'
<1>0. Listed /\ (button => clients # {})
  BY DEF StickInv
<1>1. CASE AcceptNothing
  <2>1. UNCHANGED <<input, shown_held, reader, clients>>
    BY <1>1 DEF AcceptNothing, display
  <2> QED
    BY <1>0, <2>1, InputStays DEF Listed
<1>2. ASSUME NEW c \in Clients, Accept(c) PROVE StickInv'
  <2>1. /\ UNCHANGED <<input, shown_held>> /\ clients' = clients \cup {c}
        /\ reader' = [reader EXCEPT ![c] = "accepted"]
    BY <1>2 DEF Accept, display
  <2> QED
    BY <1>0, <2>1, InputStays DEF Listed
<1>3. ASSUME NEW c \in Clients, StartReader(c) PROVE StickInv'
  <2>0. reader[c] = "accepted" /\ UNCHANGED <<held, keys, lost, shown_held>>
    BY <1>3 DEF StartReader, display
  <2>1. CASE /\ reader' = [reader EXCEPT ![c] = "handshake"]
             /\ UNCHANGED <<clients, button>>
    <3>1. Listed'
      BY <1>0, <2>0, <2>1 DEF Listed
    <3> QED
      BY <1>0, <2>0, <2>1, <3>1, InputStays DEF input
  <2>2. CASE /\ reader' = [reader EXCEPT ![c] = "free"]
             /\ clients' = clients \ {c} /\ button' = FALSE
    <3>1. Listed'
      BY <1>0, <2>0, <2>2 DEF Listed
    <3>2. InputTyped'
      BY <2>0 DEF StickInv, InputTyped
    <3> QED
      BY <2>0, <2>2, <3>1, <3>2 DEF StickInv, HeldBySome
  <2> QED
    BY <1>3, <2>1, <2>2 DEF StartReader
<1>4. ASSUME NEW c \in Clients, Handshake(c) \/ RecvFails(c) \/ Done(c) PROVE StickInv'
  <2>1. UNCHANGED <<input, shown_held, clients>> /\ reader[c] \notin {"free", "close"}
    BY <1>4 DEF Handshake, RecvFails, Done, display
  <2>2. \E place \in {"welcome", "done", "join"} : To(c, place)
    BY <1>4 DEF Handshake, RecvFails, Done
  <2> QED
    BY <1>0, <2>1, <2>2, ReaderMoves, InputStays
<1>5. ASSUME NEW c \in Clients, Welcome(c) PROVE StickInv'
  <2>1. UNCHANGED <<input, shown_held, clients>> /\ reader[c] = "welcome"
    BY <1>5 DEF Welcome, display
  <2>2. \E place \in {"recv", "done"} : To(c, place)
    BY <1>5 DEF Welcome, Again
  <2> QED
    BY <1>0, <2>1, <2>2, ReaderMoves, InputStays
<1>6. ASSUME NEW c \in Clients, Close(c) PROVE StickInv'
  <2>1. UNCHANGED <<input, shown_held, clients>> /\ reader' = [reader EXCEPT ![c] = "free"]
    BY <1>6 DEF Close, To, display
  <2>2. Listed'
    BY <1>0, <2>1 DEF Listed
  <2> QED
    BY <1>0, <2>1, <2>2, InputStays
<1>7. ASSUME NEW c \in Clients, WriterRun(c) \/ WriterSent(c) PROVE StickInv'
  <2>1. UNCHANGED <<input, shown_held, reader, clients>>
    BY <1>7 DEF WriterRun, WriterSent, display
  <2> QED
    BY <1>0, <2>1, InputStays DEF Listed
<1>8. ASSUME NEW c \in Clients, NEW down \in BOOLEAN, Pointer(c, down) PROVE StickInv'
  <2>1. /\ UNCHANGED <<held, keys, lost, shown_held, clients>> /\ reader[c] = "recv"
        /\ button' = down /\ Again(c)
    BY <1>8 DEF Pointer, display
  <2>2. Listed' /\ clients' # {}
    BY <1>0, <2>1, ReaderMoves DEF Again, Listed
  <2>3. InputTyped'
    BY <2>1 DEF StickInv, InputTyped
  <2> QED
    BY <2>1, <2>2, <2>3 DEF StickInv, HeldBySome
<1>9. CASE Frame \/ Shutdown \/ ShutdownJoin \/ UNCHANGED vars
  <2>1. UNCHANGED <<input, shown_held, reader, clients>>
    BY <1>9 DEF Frame, Shutdown, ShutdownJoin, vars, display
  <2> QED
    BY <1>0, <2>1, InputStays DEF Listed
<1>10. ASSUME NEW valid \in BOOLEAN, SetPassword(valid) PROVE StickInv'
  <2>1. UNCHANGED <<input, shown_held, reader, clients>>
    BY <1>10 DEF SetPassword
  <2> QED
    BY <1>0, <2>1, InputStays DEF Listed
<1> QED
  BY <1>1, <1>2, <1>3, <1>4, <1>5, <1>6, <1>7, <1>8, <1>9, <1>10, KeyKeeps, RemoveKeeps, PopKeeps
  DEF Next, ReaderThread, Peer, Over

\* "Release anything this client was holding so keys don't stick": once the
\* display has seen every event it holds no key that no client holds, unless a
\* table was full (client_key, client_remove and push_key of core/src/vnc.c),
\* for any number of clients and keys and any size of the tables.
THEOREM KeysReleased == Spec => []NothingSticks
<1>1. Init => StickInv
  <2> SUFFICES ASSUME Init PROVE StickInv
    OBVIOUS
  <2>1. /\ keys = <<>> /\ shown_held = {} /\ button = FALSE
        /\ held = [c \in Clients |-> {}] /\ reader = [c \in Clients |-> "free"]
    BY DEF Init
  <2>2. InputTyped /\ Listed
    BY <2>1, EmptySeq, FS_EmptySet DEF InputTyped, Listed
  <2>3. Len(<<>>) = 0
    BY EmptySeq
  <2>4. \A k : ~WillHold(keys, shown_held, k)
    BY <2>1, <2>3 DEF WillHold, Asked
  <2> QED
    BY <2>1, <2>2, <2>4 DEF StickInv
<1>2. StickInv => NothingSticks
  <2> SUFFICES ASSUME StickInv PROVE NothingSticks
    OBVIOUS
  <2>1. Len(<<>>) = 0
    BY EmptySeq
  <2>2. \A k : keys = <<>> => Silent(keys, k)
    BY <2>1 DEF Silent
  <2>3. keys = <<>> /\ ~lost => shown_held \subseteq UNION {held[c] : c \in Clients}
    BY <2>2 DEF StickInv, InputTyped, WillHold, HeldBySome
  <2>4. clients = {} => ~button
    BY DEF StickInv
  <2> QED
    BY <2>3, <2>4 DEF NothingSticks
<1>3. StickInv /\ [Next]_vars => StickInv'
  BY StickStep
<1> QED
  BY <1>1, <1>2, <1>3, PTL DEF Spec

LEMMA DivOfSum ==
  ASSUME NEW b \in Nat, NEW u \in Nat, NEW m \in Nat \ {0}, u < m
  PROVE  (b * m + u) \div m = b /\ (b * m + u) % m = u
<1>1. b * m \in Nat
  OBVIOUS
<1> QED
  BY <1>1

LEMMA SumOfDiv ==
  ASSUME NEW n \in Nat, NEW m \in Nat \ {0}
  PROVE  /\ (n \div m) * m + (n % m) = n
         /\ (n % m) < m /\ (n % m) \in Nat /\ n \div m \in Nat
OBVIOUS

\* A counter below m that is one further.
LEMMA NextRest ==
  ASSUME NEW m \in Nat \ {0}, NEW n \in Nat
  PROVE  /\ n % m \in 0 .. m - 1
         /\ (n + 1) % m = IF n % m = m - 1 THEN 0 ELSE (n % m) + 1
<1> DEFINE q == n \div m
           r == n % m
<1>1. q * m + r = n /\ r < m /\ r \in Nat /\ q \in Nat
  BY SumOfDiv
<1> HIDE DEF q, r
<1>2. CASE r = m - 1
  <2>1. (q + 1) * m + 0 = n + 1
    BY <1>1, <1>2
  <2>2. ((q + 1) * m + 0) % m = 0
    BY <1>1, DivOfSum
  <2> QED
    BY <1>1, <1>2, <2>1, <2>2 DEF r
<1>3. CASE r # m - 1
  <2>1. q * m + (r + 1) = n + 1
    BY <1>1
  <2>2. (q * m + (r + 1)) % m = r + 1
    <3>1. r + 1 \in Nat /\ r + 1 < m
      BY <1>1, <1>3
    <3> DEFINE u == r + 1
    <3> HIDE DEF u
    <3>2. (q * m + u) % m = u
      BY <1>1, <3>1, DivOfSum DEF u
    <3> QED
      BY <3>2 DEF u
  <2> QED
    BY <1>1, <1>3, <2>1, <2>2 DEF r
<1> QED
  BY <1>2, <1>3

LEMMA RestAgain ==
  ASSUME NEW m \in Nat \ {0}, NEW n \in Nat, n < m
  PROVE  n % m = n
  OBVIOUS

\* Where an address is, over both pairs of name tables.
ColumnOf(a) == a.ntx * Columns + a.cx
LineOf(a) == (a.nty * Rows + a.cy) * Fine + a.fine

\* Going right from the last column of the second table leads to the first one.
LEMMA ColumnNext ==
  ASSUME NEW a \in Addresses
  PROVE  /\ ColumnOf(a) \in 0 .. 2 * Columns - 1
         /\ IncrCoarseX(a) \in Addresses
         /\ ColumnOf(IncrCoarseX(a)) = IF ColumnOf(a) = 2 * Columns - 1 THEN 0 ELSE ColumnOf(a) + 1
         /\ IncrCoarseX(a).cy = a.cy /\ LineOf(IncrCoarseX(a)) = LineOf(a)
<1>0. Columns \in Nat \ {0}
  BY VideoSizes
<1> USE <1>0
<1>1. a.cx \in 0 .. Columns - 1 /\ a.ntx \in {0, 1}
  BY DEF Addresses
<1>2. CASE a.cx = Columns - 1
  <2> DEFINE b == [a EXCEPT !.cx = 0, !.ntx = 1 - a.ntx]
  <2>1. /\ b \in Addresses /\ b.cx = 0 /\ b.ntx = 1 - a.ntx
        /\ b.cy = a.cy /\ b.nty = a.nty /\ b.fine = a.fine
    <3> DEFINE n == 1 - a.ntx
               z == 0
    <3>1. n \in 0 .. 1 /\ z \in 0 .. Columns - 1
      BY <1>1
    <3> HIDE DEF n, z
    <3> DEFINE c == [a EXCEPT !.cx = z, !.ntx = n]
    <3>2. /\ c \in Addresses /\ c.cx = z /\ c.ntx = n
          /\ c.cy = a.cy /\ c.nty = a.nty /\ c.fine = a.fine
      BY <3>1 DEF Addresses
    <3>3. c = b
      BY DEF n, z
    <3> QED
      BY <3>2, <3>3 DEF n, z
  <2>2. IncrCoarseX(a) = b
    BY <1>2 DEF IncrCoarseX
  <2> HIDE DEF b
  <2> QED
    BY <1>1, <1>2, <2>1, <2>2 DEF ColumnOf, LineOf
<1>3. CASE a.cx # Columns - 1
  <2> DEFINE b == [a EXCEPT !.cx = a.cx + 1]
  <2>1. b \in Addresses /\ b.cx = a.cx + 1 /\ b.ntx = a.ntx /\ b.cy = a.cy /\ b.nty = a.nty /\ b.fine = a.fine
    BY <1>1, <1>3 DEF Addresses
  <2>2. IncrCoarseX(a) = b
    BY <1>3 DEF IncrCoarseX
  <2> HIDE DEF b
  <2>3. ColumnOf(b) = ColumnOf(a) + 1 /\ ColumnOf(a) \in 0 .. 2 * Columns - 2 /\ LineOf(b) = LineOf(a)
    <3>1. a.ntx * Columns \in {0, Columns}
      BY <1>1
    <3> DEFINE p == a.ntx * Columns
               x == a.cx
    <3>2. ColumnOf(a) = p + x /\ ColumnOf(b) = p + (x + 1) /\ LineOf(b) = LineOf(a)
      BY <2>1 DEF ColumnOf, LineOf
    <3>3. p \in {0, Columns}
      BY <3>1
    <3> HIDE DEF p
    <3>4. x \in 0 .. Columns - 2
      BY <1>1, <1>3
    <3> HIDE DEF x
    <3> QED
      BY <3>2, <3>3, <3>4
  <2> QED
    BY <1>1, <1>3, <2>1, <2>2, <2>3
<1> QED
  BY <1>2, <1>3

\* Going down from the last shown line of the lower table leads to the first one.
LEMMA LineNext ==
  ASSUME NEW a \in Addresses
  PROVE  /\ IncrY(a) \in Addresses /\ ColumnOf(IncrY(a)) = ColumnOf(a)
         /\ a.cy < Rows => /\ LineOf(a) \in 0 .. 2 * ShownRows - 1
                           /\ IncrY(a).cy < Rows
                           /\ LineOf(IncrY(a)) = IF LineOf(a) = 2 * ShownRows - 1 THEN 0 ELSE LineOf(a) + 1
<1>a. /\ {Columns, Rows, RowMax, Fine, ShownRows} \subseteq Nat \ {0} /\ Rows <= RowMax
      /\ ShownRows = Rows * Fine
  BY VideoSizes
<1>1. a.cy \in 0 .. RowMax /\ a.nty \in {0, 1} /\ a.fine \in 0 .. Fine - 1
  BY DEF Addresses
<1>2. ASSUME NEW k \in Nat, NEW f \in 0 .. Fine - 1, k < 2 * Rows
      PROVE  k * Fine + f \in 0 .. 2 * ShownRows - 1
  <2>1. k * Fine \in Nat /\ k * Fine + f >= 0
    BY <1>a
  <2>2. (k + 1) * Fine <= (2 * Rows) * Fine
    <3> DEFINE d == 2 * Rows - (k + 1)
    <3>1. d \in Nat /\ 2 * Rows = (k + 1) + d
      BY <1>a, <1>2
    <3> HIDE DEF d
    <3>2. ((k + 1) + d) * Fine = (k + 1) * Fine + d * Fine /\ d * Fine \in Nat
      BY <1>a, <3>1
    <3> QED
      BY <1>a, <3>1, <3>2
  <2>3. (k + 1) * Fine = k * Fine + Fine /\ (2 * Rows) * Fine = 2 * ShownRows
    BY <1>a
  <2> QED
    BY <1>a, <1>2, <2>1, <2>2, <2>3
<1> DEFINE k == a.nty * Rows + a.cy
<1>3. k \in Nat /\ LineOf(a) = k * Fine + a.fine /\ (a.cy < Rows => k < 2 * Rows)
  BY <1>a, <1>1 DEF LineOf
<1>4. a.cy < Rows => LineOf(a) \in 0 .. 2 * ShownRows - 1
  BY <1>1, <1>2, <1>3
<1>5. CASE a.fine < Fine - 1
  <2> DEFINE b == [a EXCEPT !.fine = a.fine + 1]
  <2>1. /\ b \in Addresses /\ b.cx = a.cx /\ b.ntx = a.ntx /\ b.cy = a.cy /\ b.nty = a.nty
        /\ b.fine = a.fine + 1
    BY <1>a, <1>1, <1>5 DEF Addresses
  <2>2. IncrY(a) = b
    BY <1>5 DEF IncrY
  <2> HIDE DEF b
  <2>3. LineOf(b) = k * Fine + (a.fine + 1) /\ ColumnOf(b) = ColumnOf(a)
    BY <2>1 DEF LineOf, ColumnOf
  <2>4. a.fine + 1 \in 0 .. Fine - 1 /\ k * Fine \in Nat
    BY <1>a, <1>1, <1>3, <1>5
  <2> HIDE DEF k
  <2>5. a.cy < Rows => k * Fine + (a.fine + 1) \in 0 .. 2 * ShownRows - 1
    BY <1>2, <1>3, <2>4
  <2> QED
    BY <1>a, <1>1, <1>3, <1>4, <2>1, <2>2, <2>3, <2>4, <2>5
<1>6. CASE ~(a.fine < Fine - 1)
  <2> DEFINE cy == IF a.cy \in {Rows - 1, RowMax} THEN 0 ELSE a.cy + 1
             nty == IF a.cy = Rows - 1 THEN 1 - a.nty ELSE a.nty
             b == [a EXCEPT !.fine = 0, !.cy = cy, !.nty = nty]
  <2>1. IncrY(a) = b
    BY <1>6 DEF IncrY
  <2>2. cy \in 0 .. RowMax /\ nty \in 0 .. 1 /\ 0 \in 0 .. Fine - 1
    <3>1. cy \in 0 .. RowMax
      <4>1. CASE a.cy \in {Rows - 1, RowMax}
        BY <1>a, <4>1
      <4>2. CASE a.cy \notin {Rows - 1, RowMax}
        <5>1. cy = a.cy + 1
          BY <4>2
        <5> HIDE DEF cy
        <5>2. a.cy \in 0 .. RowMax /\ a.cy # RowMax /\ RowMax \in Nat
          BY <1>a, <1>1, <4>2
        <5> QED
          BY <5>1, <5>2
      <4> QED
        BY <4>1, <4>2
    <3>2. nty \in 0 .. 1
      BY <1>a, <1>1
    <3>3. 0 \in 0 .. Fine - 1
      BY <1>a
    <3> QED
      BY <3>1, <3>2, <3>3
  <2>3. cy = 0 \/ (cy = a.cy + 1 /\ a.cy # Rows - 1)
    OBVIOUS
  <2>4. a.fine = Fine - 1
    BY <1>a, <1>1, <1>6
  <2>5. a.cy < Rows => /\ cy < Rows
                       /\ IF a.cy = Rows - 1 THEN cy = 0 /\ nty = 1 - a.nty ELSE cy = a.cy + 1 /\ nty = a.nty
    BY <1>a, <1>1
  <2> HIDE DEF cy, nty
  <2>6. b \in Addresses /\ b.cx = a.cx /\ b.ntx = a.ntx /\ b.cy = cy /\ b.nty = nty /\ b.fine = 0
    BY <2>2 DEF Addresses
  <2> HIDE DEF b
  <2>7. ColumnOf(b) = ColumnOf(a) /\ LineOf(b) = (nty * Rows + cy) * Fine + 0
    BY <2>6 DEF ColumnOf, LineOf
  <2>8. ASSUME a.cy < Rows
        PROVE  LineOf(b) = IF LineOf(a) = 2 * ShownRows - 1 THEN 0 ELSE LineOf(a) + 1
    <3>1. LineOf(a) + 1 = (k + 1) * Fine
      BY <1>a, <1>3, <2>4
    <3>2. CASE a.cy # Rows - 1
      <4>1. nty * Rows + cy = k + 1 /\ k + 1 < 2 * Rows
        BY <1>a, <1>1, <1>3, <2>5, <2>8, <3>2
      <4>2. LineOf(b) = (k + 1) * Fine
        BY <1>a, <1>3, <2>7, <4>1
      <4>3. (k + 1) * Fine + 0 \in 0 .. 2 * ShownRows - 1
        BY <1>2, <1>3, <4>1, <2>2
      <4> QED
        BY <1>a, <1>4, <2>8, <3>1, <4>2, <4>3
    <3>3. CASE a.cy = Rows - 1 /\ a.nty = 0
      <4>1. k + 1 = Rows /\ nty * Rows + cy = Rows
        BY <1>a, <1>1, <2>5, <2>8, <3>3
      <4>2. LineOf(a) + 1 = ShownRows /\ LineOf(b) = ShownRows
        BY <1>a, <2>7, <3>1, <4>1
      <4> QED
        BY <1>a, <1>4, <2>8, <4>2
    <3>4. CASE a.cy = Rows - 1 /\ a.nty = 1
      <4>1. k + 1 = 2 * Rows /\ nty * Rows + cy = 0
        BY <1>a, <1>1, <2>5, <2>8, <3>4
      <4>2. LineOf(a) + 1 = 2 * ShownRows /\ LineOf(b) = 0
        BY <1>a, <2>7, <3>1, <4>1
      <4> QED
        BY <1>a, <1>4, <2>8, <4>2
    <3> QED
      BY <1>1, <3>2, <3>3, <3>4
  <2> QED
    BY <1>4, <2>1, <2>5, <2>6, <2>7, <2>8
<1> QED
  BY <1>5, <1>6

\* What the registers and the pipeline hold, and where a frame's dots are.
VideoTyped ==
  /\ line \in 0 .. Prerender /\ step \in 0 .. LastStep
  /\ t \in Addresses /\ v \in Addresses /\ base \in Addresses
  /\ pipe[1] \in Addresses /\ pipe[2] \in Addresses /\ pipe[3] \in Addresses
  /\ nmiEn \in BOOLEAN /\ incRow \in BOOLEAN /\ on \in BOOLEAN
  /\ vblank \in BOOLEAN /\ pending \in BOOLEAN /\ toggle \in BOOLEAN
  /\ steady \in 0 .. 2 /\ taken \in 0 .. 1

LEMMA SizesAre ==
  /\ Columns \in Nat \ {0} /\ Rows \in Nat \ {0} /\ RowMax \in Nat \ {0} /\ Fine \in Nat \ {0}
  /\ ShownRows \in Nat \ {0} /\ BlankLines \in Nat \ {0} /\ Rows <= RowMax
BY VideoSizes

LEMMA PositionsAre ==
  /\ Prerender \in Nat /\ Prerender > ShownRows + 1 /\ ShownRows \in Nat \ {0}
  /\ LastStep \in 1 .. Columns + 4 /\ CopyX = Columns + 1 /\ CopyY = Columns + 2
  /\ Active => LastStep = Columns + 4
  /\ ~Active => LastStep = 1
  /\ Columns \in Nat \ {0}
BY SizesAre DEF Prerender, LastStep, CopyX, CopyY

\* Every number of 15 bits is an address.
LEMMA AddressOfNumber ==
  ASSUME NEW n \in Nat
  PROVE  Address(n) \in Addresses
<1> DEFINE M == Columns * (RowMax + 1)
           a == n % Columns
           b == (n \div Columns) % (RowMax + 1)
           c == (n \div M) % 2
           d == (n \div (2 * M)) % 2
           e == (n \div (4 * M)) % Fine
<1>0. Columns \in Nat \ {0} /\ RowMax + 1 \in Nat \ {0} /\ Fine \in Nat \ {0}
  BY SizesAre
<1>1. M \in Nat \ {0}
  BY <1>0
<1>2. 2 * Columns * (RowMax + 1) = 2 * M /\ 4 * Columns * (RowMax + 1) = 4 * M
  BY <1>0
<1>3. Address(n) = [cx |-> a, cy |-> b, ntx |-> c, nty |-> d, fine |-> e]
  BY <1>2 DEF Address
<1> HIDE DEF M
<1>4. 2 * M \in Nat \ {0} /\ 4 * M \in Nat \ {0}
  BY <1>1
<1>5. a \in 0 .. Columns - 1
  BY <1>0, NextRest
<1>6. b \in 0 .. RowMax
  <2>1. n \div Columns \in Nat
    BY <1>0, SumOfDiv
  <2>2. b \in 0 .. (RowMax + 1) - 1
    BY <1>0, <2>1, NextRest
  <2>3. (RowMax + 1) - 1 = RowMax
    BY <1>0, SizesAre
  <2> QED
    BY <2>2, <2>3
<1>7. c \in 0 .. 1
  <2>1. n \div M \in Nat
    BY <1>1, SumOfDiv
  <2> QED
    BY <2>1
<1>8. d \in 0 .. 1
  <2>1. n \div (2 * M) \in Nat
    BY <1>4, SumOfDiv
  <2> QED
    BY <2>1
<1>9. e \in 0 .. Fine - 1
  <2>1. n \div (4 * M) \in Nat
    BY <1>4, SumOfDiv
  <2> QED
    BY <1>0, <2>1, NextRest
<1> HIDE DEF a, b, c, d, e
<1> QED
  BY <1>3, <1>5, <1>6, <1>7, <1>8, <1>9 DEF Addresses

LEMMA NumberOfAddress ==
  ASSUME NEW a \in Addresses
  PROVE  Number(a) \in Nat
<1>1. a.cx \in Nat /\ a.cy \in Nat /\ a.ntx \in Nat /\ a.nty \in Nat /\ a.fine \in Nat
  BY SizesAre DEF Addresses
<1> DEFINE q == a.ntx + 2 * (a.nty + 2 * a.fine)
           r == a.cy + (RowMax + 1) * q
<1>2. q \in Nat /\ Columns \in Nat /\ RowMax + 1 \in Nat
  BY <1>1, SizesAre
<1>3. Number(a) = a.cx + Columns * r
  BY DEF Number
<1> HIDE DEF q
<1>4. r \in Nat
  BY <1>1, <1>2
<1> HIDE DEF r
<1> QED
  BY <1>1, <1>2, <1>3, <1>4

\* The addresses v takes when $2007 is read or written outside the picture.
LEMMA VramNext ==
  ASSUME NEW a \in Addresses, NEW i \in BOOLEAN
  PROVE  Address((Number(a) + IF i THEN Columns ELSE 1) % (4 * Columns * (RowMax + 1) * Fine)) \in Addresses
<1> DEFINE M == Columns * (RowMax + 1)
           N == 4 * Columns * (RowMax + 1) * Fine
           n == Number(a) + IF i THEN Columns ELSE 1
<1>0. Columns \in Nat \ {0} /\ RowMax + 1 \in Nat \ {0} /\ Fine \in Nat \ {0}
  BY SizesAre
<1>1. M \in Nat \ {0} /\ N = 4 * (M * Fine)
  BY <1>0
<1> HIDE DEF N, M
<1>2. M * Fine \in Nat \ {0}
  BY <1>0, <1>1
<1>3. N \in Nat \ {0}
  BY <1>1, <1>2
<1>4. n \in Nat
  BY <1>0, NumberOfAddress
<1> HIDE DEF n
<1>5. n % N \in Nat
  BY <1>3, <1>4, SumOfDiv
<1>6. Address(n % N) \in Addresses
  BY <1>5, AddressOfNumber
<1> QED
  BY <1>6 DEF n, N

LEMMA StepMoves ==
  ASSUME VideoTyped, DotsPass
  PROVE  /\ line' \in 0 .. Prerender /\ step' \in 0 .. LastStep'
         /\ step < LastStep => line' = line /\ step' = step + 1 /\ LastStep' = LastStep /\ Active' = Active
         /\ step = LastStep => step' = 0 /\ line' = IF line = Prerender THEN 0 ELSE line + 1
<1> USE PositionsAre
<1>1. line \in 0 .. Prerender /\ step \in 0 .. LastStep
  BY DEF VideoTyped
<1>2. LastStep \in 1 .. Columns + 4 /\ LastStep' \in Nat
  BY SizesAre DEF LastStep
<1>3. CASE step < LastStep
  <2>1. line' = line /\ step' = step + 1
    BY <1>1, <1>2, <1>3 DEF DotsPass
  <2>2. LastStep' = LastStep /\ Active' = Active
    BY <2>1 DEF LastStep, Active, Prerender
  <2> QED
    BY <1>1, <1>2, <1>3, <2>1, <2>2
<1>4. CASE step = LastStep
  <2>1. step' = 0 /\ line' = IF line = Prerender THEN 0 ELSE line + 1
    BY <1>1, <1>2, <1>4 DEF DotsPass
  <2> QED
    BY <1>1, <1>2, <1>4, <2>1
<1> QED
  BY <1>1, <1>2, <1>3, <1>4

LEMMA VideoTypedInit == VideoInit => VideoTyped
<1> SUFFICES ASSUME VideoInit PROVE VideoTyped
  OBVIOUS
<1>1. Columns - 1 \in 0 .. Columns - 1 /\ 0 \in 0 .. Columns - 1 /\ Rows - 1 \in 0 .. RowMax
      /\ RowMax \in 0 .. RowMax /\ Fine - 1 \in 0 .. Fine - 1 /\ 0 \in 0 .. Fine - 1
  BY SizesAre
<1>2. t \in Addresses
  BY <1>1 DEF VideoInit, Addresses
<1>3. v = t /\ base = t /\ pipe[1] = t /\ pipe[2] = t /\ pipe[3] = t
  BY DEF VideoInit
<1>4. line \in 0 .. Prerender /\ step \in 0 .. LastStep
  BY PositionsAre DEF VideoInit
<1>5. steady \in 0 .. 2 /\ taken \in 0 .. 1
  BY DEF VideoInit
<1> QED
  BY <1>2, <1>3, <1>4, <1>5 DEF VideoTyped, VideoInit

LEMMA TakesX ==
  ASSUME NEW a \in Addresses, NEW x \in 0 .. Columns - 1, NEW n \in 0 .. 1,
         NEW b, b = [a EXCEPT !.cx = x, !.ntx = n]
  PROVE  /\ b \in Addresses /\ b.cx = x /\ b.ntx = n
         /\ b.cy = a.cy /\ b.nty = a.nty /\ b.fine = a.fine
BY DEF Addresses

LEMMA TakesY ==
  ASSUME NEW a \in Addresses, NEW c \in Addresses,
         NEW b, b = [a EXCEPT !.cy = c.cy, !.nty = c.nty, !.fine = c.fine]
  PROVE  /\ b \in Addresses /\ b.cy = c.cy /\ b.nty = c.nty /\ b.fine = c.fine
         /\ b.cx = a.cx /\ b.ntx = a.ntx
BY DEF Addresses

LEMMA FieldsOf ==
  ASSUME NEW a \in Addresses
  PROVE  /\ a.cx \in 0 .. Columns - 1 /\ a.cy \in 0 .. RowMax /\ a.ntx \in 0 .. 1 /\ a.nty \in 0 .. 1
         /\ a.fine \in 0 .. Fine - 1
BY DEF Addresses

LEMMA SameAddress ==
  ASSUME NEW a \in Addresses, NEW b \in Addresses,
         a.cx = b.cx, a.ntx = b.ntx, a.cy = b.cy, a.nty = b.nty, a.fine = b.fine
  PROVE  a = b
BY DEF Addresses

LEMMA WalksOn ==
  ASSUME NEW a \in Addresses
  PROVE  IncrCoarseX(a) \in Addresses /\ IncrY(IncrCoarseX(a)) \in Addresses
BY ColumnNext, LineNext

\* What the chip does to v, the pipeline and the record of the picture.
LEMMA ScanTyped ==
  ASSUME VideoTyped, UNCHANGED t, Scan
  PROVE  /\ v' \in Addresses /\ base' \in Addresses /\ steady' \in 0 .. 2
         /\ pipe'[1] \in Addresses /\ pipe'[2] \in Addresses /\ pipe'[3] \in Addresses
<1>1. CASE Fetch
  BY <1>1, WalksOn DEF Fetch, VideoTyped
<1>2. CASE step = CopyX /\ v' = CopiesX /\ base' = [base EXCEPT !.cx = t.cx, !.ntx = t.ntx]
           /\ steady' = (IF line = Prerender THEN 1 ELSE steady) /\ UNCHANGED pipe
  <2>1. t \in Addresses /\ v \in Addresses /\ base \in Addresses
    BY DEF VideoTyped
  <2>2. v' \in Addresses
    BY <1>2, <2>1, FieldsOf, TakesX DEF CopiesX
  <2>3. base' \in Addresses
    BY <1>2, <2>1, FieldsOf, TakesX
  <2> QED
    BY <1>2, <2>2, <2>3 DEF VideoTyped
<1>3. CASE /\ v' = CopiesY /\ base' = [t EXCEPT !.cx = base.cx, !.ntx = base.ntx]
           /\ steady' = (IF steady = 1 THEN 2 ELSE 0) /\ UNCHANGED pipe
  <2>1. t \in Addresses /\ v \in Addresses /\ base \in Addresses
    BY DEF VideoTyped
  <2>2. v' \in Addresses
    <3>2. v' = [v EXCEPT !.cy = t.cy, !.nty = t.nty, !.fine = t.fine]
      BY <1>3 DEF CopiesY
    <3> QED
      BY <2>1, <3>2, TakesY
  <2>3. base' \in Addresses
    BY <1>3, <2>1, FieldsOf, TakesX
  <2> QED
    BY <1>3, <2>2, <2>3 DEF VideoTyped
<1>4. CASE UNCHANGED <<v, pipe, base>> /\ steady' \in {0, steady}
  BY <1>4 DEF VideoTyped
<1> QED
  BY <1>1, <1>2, <1>3, <1>4 DEF Scan, scanVars

\* The flag, the pending interrupt and the one taken, in the blank and out of it.
BlankInv ==
  /\ vblank => \/ line > ShownRows + 1 /\ line < Prerender
               \/ line = ShownRows + 1 /\ step > 0
               \/ line = Prerender /\ step = 0
  /\ ~vblank => ~pending /\ taken = 0
  /\ vblank /\ nmiEn => pending \/ taken = 1
  /\ taken = 1 => ~pending

LEMMA TickBlank ==
  ASSUME VideoTyped, BlankInv, Tick
  PROVE  /\ BlankInv'
         /\ vblank' \in BOOLEAN /\ pending' \in BOOLEAN /\ taken' \in 0 .. 1
<1> USE PositionsAre
<1>0. /\ line \in 0 .. Prerender /\ step \in 0 .. LastStep /\ Prerender' = Prerender
      /\ vblank \in BOOLEAN /\ pending \in BOOLEAN /\ taken \in 0 .. 1 /\ nmiEn \in BOOLEAN
  BY DEF VideoTyped, Prerender
<1>1. /\ step < LastStep => line' = line /\ step' = step + 1
      /\ step = LastStep => step' = 0 /\ line' = IF line = Prerender THEN 0 ELSE line + 1
  BY StepMoves DEF Tick
<1>2. nmiEn' = nmiEn
  BY DEF Tick, regVars
<1>3. ASSUME NEW p \in BOOLEAN, HandOver(p), vblank' \in BOOLEAN, p => vblank',
             vblank' /\ nmiEn => p \/ taken = 1, p => taken = 0, ~vblank' => taken = 0
      PROVE  /\ pending' \in BOOLEAN /\ taken' \in 0 .. 1
             /\ ~vblank' => ~pending' /\ taken' = 0
             /\ vblank' /\ nmiEn' => pending' \/ taken' = 1
             /\ taken' = 1 => ~pending'
  <2>1. pending' = FALSE /\ (p => taken' = 1) /\ (~p => taken' = taken)
    BY <1>0, <1>3 DEF HandOver
  <2>2. CASE p
    <3>1. vblank' /\ ~pending' /\ taken' = 1
      BY <1>3, <2>1, <2>2
    <3>2. taken' \in 0 .. 1
      BY <3>1
    <3>3. pending' \in BOOLEAN
      BY <2>1
    <3> QED
      BY <3>1, <3>2, <3>3
  <2>3. CASE ~p
    <3>1. taken' = taken /\ taken \in 0 .. 1
      BY <1>0, <2>1, <2>3
    <3>2. vblank' /\ nmiEn' => taken = 1
      BY <1>2, <1>3, <2>3
    <3> QED
      BY <1>3, <2>1, <3>1, <3>2
  <2> QED
    BY <2>2, <2>3
<1>4. CASE Flags
  <2>1. step = 0 /\ step < LastStep /\ line' = line /\ step' = 1
    BY <1>0, <1>1, <1>4 DEF Flags
  <2>2. CASE line = ShownRows + 1
    <3>1. vblank' = TRUE /\ HandOver(pending \/ nmiEn)
      BY <1>4, <2>2 DEF Flags
    <3>2. ~vblank /\ ~pending /\ taken = 0
      BY <1>0, <2>1, <2>2 DEF BlankInv
    <3>3. /\ pending' \in BOOLEAN /\ taken' \in 0 .. 1
          /\ ~vblank' => ~pending' /\ taken' = 0
          /\ vblank' /\ nmiEn' => pending' \/ taken' = 1
          /\ taken' = 1 => ~pending'
      BY <1>0, <1>3, <3>1, <3>2
    <3> QED
      BY <1>0, <2>1, <2>2, <3>1, <3>3 DEF BlankInv
  <2>3. CASE line = Prerender
    <3>1. vblank' = FALSE /\ pending' = FALSE /\ taken' = 0
      BY <1>4, <2>3 DEF Flags
    <3>2. ~vblank' /\ ~pending' /\ taken' = 0
      BY <3>1
    <3>3. taken' # 1
      BY <3>2
    <3>4. BlankInv'
      BY <3>2, <3>3 DEF BlankInv
    <3>5. vblank' \in BOOLEAN /\ pending' \in BOOLEAN
      BY <3>1
    <3>6. taken' \in 0 .. 1
      BY <3>1
    <3> QED
      BY <3>4, <3>5, <3>6
  <2>4. CASE line # ShownRows + 1 /\ line # Prerender
    <3>1. vblank' = vblank /\ HandOver(pending)
      BY <1>4, <2>4 DEF Flags
    <3>2. /\ pending' \in BOOLEAN /\ taken' \in 0 .. 1
          /\ ~vblank' => ~pending' /\ taken' = 0
          /\ vblank' /\ nmiEn' => pending' \/ taken' = 1
          /\ taken' = 1 => ~pending'
      BY <1>0, <1>3, <3>1 DEF BlankInv
    <3> QED
      BY <1>0, <2>1, <2>4, <3>1, <3>2 DEF BlankInv
  <2> QED
    BY <2>2, <2>3, <2>4
<1>5. CASE Scan
  <2>1. step # 0 /\ vblank' = vblank /\ HandOver(pending)
    BY <1>5 DEF Scan
  <2>2. /\ pending' \in BOOLEAN /\ taken' \in 0 .. 1
        /\ ~vblank' => ~pending' /\ taken' = 0
        /\ vblank' /\ nmiEn' => pending' \/ taken' = 1
        /\ taken' = 1 => ~pending'
    BY <1>0, <1>3, <2>1 DEF BlankInv
  <2>3. CASE step < LastStep
    <3>1. vblank => line \in ShownRows + 1 .. Prerender - 1
      BY <1>0, <2>1 DEF BlankInv
    <3> QED
      BY <1>0, <1>1, <2>1, <2>2, <2>3, <3>1 DEF BlankInv
  <2>4. CASE step = LastStep
    <3>1. vblank => line \in ShownRows + 1 .. Prerender - 1
      BY <1>0, <2>1 DEF BlankInv
    <3>2. line' = (IF line = Prerender THEN 0 ELSE line + 1) /\ step' = 0
      BY <1>1, <2>4
    <3>3. vblank => line' = line + 1
      BY <1>0, <3>1, <3>2
    <3> QED
      BY <1>0, <2>1, <2>2, <3>1, <3>2, <3>3 DEF BlankInv
  <2> QED
    BY <1>0, <2>3, <2>4
<1> QED
  BY <1>4, <1>5 DEF Tick

LEMMA SamePosition ==
  ASSUME VideoTyped, Untimed
  PROVE  line' \in 0 .. Prerender' /\ step' \in 0 .. LastStep' /\ Active' = Active /\ LastStep' = LastStep
BY DEF VideoTyped, Untimed, LastStep, Active, Prerender

\* The program's accesses keep the registers what they are.
LEMMA ProgramTyped ==
  ASSUME VideoTyped, Program
  PROVE  VideoTyped'
<1>0. /\ nmiEn \in BOOLEAN /\ incRow \in BOOLEAN /\ on \in BOOLEAN /\ vblank \in BOOLEAN
      /\ pending \in BOOLEAN /\ toggle \in BOOLEAN /\ steady \in 0 .. 2 /\ taken \in 0 .. 1
      /\ 0 \in 0 .. 2 /\ 0 \in 0 .. 1
  BY DEF VideoTyped
<1>1. /\ t \in Addresses /\ v \in Addresses /\ base \in Addresses
      /\ pipe[1] \in Addresses /\ pipe[2] \in Addresses /\ pipe[3] \in Addresses
  BY DEF VideoTyped
<1>a. CASE ReadStatus
  BY <1>a, <1>0, <1>1, SamePosition DEF ReadStatus, VideoTyped, scanVars
<1>b. CASE WriteCtrl
  <2>1. PICK en \in BOOLEAN, inc \in BOOLEAN, x \in 0 .. 1, y \in 0 .. 1 :
          /\ nmiEn' = en /\ incRow' = inc
          /\ t' = [t EXCEPT !.ntx = x, !.nty = y]
          /\ pending' = (pending \/ (vblank /\ Enables(en)))
          /\ taken' = IF en /\ ~nmiEn THEN 0 ELSE taken
    BY <1>b DEF WriteCtrl
  <2>2. t' \in Addresses
    BY <2>1, <1>1 DEF Addresses
  <2>3. pending' \in BOOLEAN /\ nmiEn' \in BOOLEAN /\ incRow' \in BOOLEAN
    BY <2>1, <1>0
  <2>4. taken' \in 0 .. 1
    BY <2>1, <1>0
  <2> QED
    BY <1>b, <2>2, <2>3, <2>4, <1>0, <1>1, SamePosition DEF WriteCtrl, Writes, VideoTyped
<1>c. CASE WriteMask
  <2>1. steady' \in 0 .. 2 /\ on' \in BOOLEAN
    BY <1>c, <1>0 DEF WriteMask
  <2> QED
    BY <1>c, <2>1, <1>0, <1>1, SamePosition DEF WriteMask, Writes, VideoTyped
<1>d. CASE WriteScroll
  <2>1. t' \in Addresses
    <3>1. CASE ~toggle
      <4>1. PICK x \in 0 .. Columns - 1 : t' = [t EXCEPT !.cx = x]
        BY <1>d, <3>1 DEF WriteScroll
      <4> QED
        BY <4>1, <1>1 DEF Addresses
    <3>2. CASE toggle
      <4>1. PICK y \in 0 .. RowMax, f \in 0 .. Fine - 1 : t' = [t EXCEPT !.cy = y, !.fine = f]
        BY <1>d, <3>2 DEF WriteScroll
      <4> QED
        BY <4>1, <1>1 DEF Addresses
    <3> QED
      BY <3>1, <3>2
  <2>2. toggle' \in BOOLEAN
    BY <1>d, <1>0 DEF WriteScroll
  <2> QED
    BY <1>d, <2>1, <2>2, <1>0, <1>1, SamePosition DEF WriteScroll, Writes, VideoTyped
<1>e. CASE WriteAddr
  <2>1. PICK y \in 0 .. RowMax :
          IF ~toggle THEN \E nx, ny \in 0 .. 1, f \in 0 .. Fine \div 2 - 1 :
                    /\ t' = [t EXCEPT !.cy = y, !.ntx = nx, !.nty = ny, !.fine = f]
                    /\ UNCHANGED <<v, steady>>
          ELSE \E x \in 0 .. Columns - 1 :
                    /\ t' = [t EXCEPT !.cy = y, !.cx = x]
                    /\ v' = t' /\ steady' = 0
    BY <1>e DEF WriteAddr
  <2>2. t' \in Addresses /\ v' \in Addresses /\ steady' \in 0 .. 2
    <3>1. CASE ~toggle
      <4>1. PICK nx \in 0 .. 1, ny \in 0 .. 1, f \in 0 .. Fine \div 2 - 1 :
              /\ t' = [t EXCEPT !.cy = y, !.ntx = nx, !.nty = ny, !.fine = f]
              /\ UNCHANGED <<v, steady>>
        BY <2>1, <3>1
      <4>2. f \in 0 .. Fine - 1
        BY SizesAre
      <4>3. t' \in Addresses
        <5> DEFINE a == [t EXCEPT !.cy = y, !.ntx = nx]
                   b == [a EXCEPT !.nty = ny, !.fine = f]
        <5>1. a \in Addresses
          BY <1>1 DEF Addresses
        <5>2. t' = b
          BY <4>1
        <5> HIDE DEF a
        <5>3. b \in Addresses
          BY <4>2, <5>1 DEF Addresses
        <5> QED
          BY <5>2, <5>3
      <4> QED
        BY <4>1, <4>3, <1>0, <1>1
    <3>2. CASE toggle
      <4>1. PICK x \in 0 .. Columns - 1 :
              /\ t' = [t EXCEPT !.cy = y, !.cx = x]
              /\ v' = t' /\ steady' = 0
        BY <2>1, <3>2
      <4>2. t' \in Addresses
        BY <4>1, <1>1 DEF Addresses
      <4> QED
        BY <4>1, <4>2, <1>0
    <3> QED
      BY <3>1, <3>2
  <2>3. toggle' \in BOOLEAN
    BY <1>e, <1>0 DEF WriteAddr
  <2> QED
    BY <1>e, <2>2, <2>3, <1>0, <1>1, SamePosition DEF WriteAddr, Writes, VideoTyped
<1>f. CASE IncrementVramAddr
  <2>1. v' \in Addresses
    <3>1. CASE on /\ Active
      BY <1>f, <3>1, <1>1, WalksOn DEF IncrementVramAddr
    <3>2. CASE ~(on /\ Active)
      <4>1. v' = Address((Number(v) + IF incRow THEN Columns ELSE 1) % (4 * Columns * (RowMax + 1) * Fine))
        BY <1>f, <3>2 DEF IncrementVramAddr
      <4> QED
        BY <4>1, <1>0, <1>1, VramNext
    <3> QED
      BY <3>1, <3>2
  <2> QED
    BY <1>f, <2>1, <1>0, <1>1, SamePosition DEF IncrementVramAddr, Writes, VideoTyped
<1>g. CASE ResetVideo
  <2>1. Address(0) \in Addresses
    BY AddressOfNumber
  <2>2. /\ t' \in Addresses /\ v' \in Addresses /\ base' \in Addresses
        /\ pipe'[1] \in Addresses /\ pipe'[2] \in Addresses /\ pipe'[3] \in Addresses
    BY <1>g, <2>1, <1>1 DEF ResetVideo
  <2>3. line' \in 0 .. Prerender' /\ step' \in 0 .. LastStep'
    <3>1. line' = Prerender /\ step' = 0 /\ Prerender' = Prerender
      BY <1>g DEF ResetVideo, Prerender
    <3>2. LastStep' \in Nat
      BY SizesAre DEF LastStep
    <3> QED
      BY <3>1, <3>2, PositionsAre
  <2>4. steady' \in 0 .. 2 /\ taken' \in 0 .. 1
    BY <1>g, <1>0 DEF ResetVideo
  <2> QED
    BY <1>g, <2>2, <2>3, <2>4, <1>0 DEF ResetVideo, VideoTyped
<1> QED
  BY <1>a, <1>b, <1>c, <1>d, <1>e, <1>f, <1>g DEF Program

LEMMA ProgramBlank ==
  ASSUME VideoTyped, BlankInv, Program
  PROVE  BlankInv'
<1>0. vblank \in BOOLEAN /\ pending \in BOOLEAN /\ nmiEn \in BOOLEAN /\ taken \in 0 .. 1
  BY DEF VideoTyped
<1>a. CASE ReadStatus
  <2>1. ~vblank' /\ ~pending' /\ taken' = 0
    BY <1>a DEF ReadStatus
  <2>2. taken' # 1
    BY <2>1
  <2> QED
    BY <2>1, <2>2 DEF BlankInv
<1>b. CASE WriteCtrl
  <2>1. PICK en \in BOOLEAN :
          /\ nmiEn' = en
          /\ pending' = (pending \/ (vblank /\ Enables(en)))
          /\ taken' = IF en /\ ~nmiEn THEN 0 ELSE taken
    BY <1>b DEF WriteCtrl
  <2>2. UNCHANGED <<line, step, vblank, Prerender>>
    BY <1>b DEF WriteCtrl, Writes, Untimed, Prerender
  <2>3. CASE en /\ ~nmiEn
    <3>1. nmiEn' /\ taken' = 0 /\ pending' = (pending \/ vblank)
      BY <2>1, <2>3 DEF Enables
    <3>2. taken' # 1
      BY <3>1
    <3> QED
      BY <2>2, <3>1, <3>2 DEF BlankInv
  <2>4. CASE ~(en /\ ~nmiEn)
    <3>1. taken' = taken /\ pending' = pending /\ (nmiEn' => nmiEn)
      BY <2>1, <2>4, <1>0 DEF Enables
    <3> QED
      BY <2>2, <3>1 DEF BlankInv
  <2> QED
    BY <2>3, <2>4
<1>c. CASE WriteMask \/ WriteScroll \/ WriteAddr \/ IncrementVramAddr
  <2>1. UNCHANGED <<line, step, vblank, Prerender, pending, taken, nmiEn>>
    BY <1>c DEF WriteMask, WriteScroll, WriteAddr, IncrementVramAddr, Writes, Untimed, Prerender
  <2> QED
    BY <2>1 DEF BlankInv
<1>g. CASE ResetVideo
  <2>1. line' = Prerender' /\ step' = 0 /\ ~nmiEn' /\ ~pending' /\ taken' = 0
    BY <1>g DEF ResetVideo, Prerender
  <2>2. taken' # 1
    BY <2>1
  <2> QED
    BY <2>1, <2>2 DEF BlankInv
<1> QED
  BY <1>a, <1>b, <1>c, <1>g DEF Program

\* a is n lines below b, and k columns right of it.
OnLine(b, a, n) == a.cy < Rows /\ LineOf(a) = (LineOf(b) + n) % (2 * ShownRows)
At(b, a, k, n)  == OnLine(b, a, n) /\ ColumnOf(a) = (ColumnOf(b) + k) % (2 * Columns)

LEMMA AtNextColumn ==
  ASSUME NEW b \in Addresses, NEW a \in Addresses, NEW k \in Nat, NEW n \in Nat, At(b, a, k, n)
  PROVE  At(b, IncrCoarseX(a), k + 1, n)
<1> DEFINE M == 2 * Columns
           c == ColumnOf(b) + k
           m == IncrCoarseX(a)
<1>1. M \in Nat \ {0}
  BY SizesAre
<1>2. c \in Nat /\ ColumnOf(b) + (k + 1) = c + 1
  <2>1. ColumnOf(b) \in Nat
    BY <1>1, ColumnNext
  <2> QED
    BY <2>1
<1>3. /\ ColumnOf(m) = IF ColumnOf(a) = M - 1 THEN 0 ELSE ColumnOf(a) + 1
      /\ m.cy = a.cy /\ LineOf(m) = LineOf(a)
  BY ColumnNext
<1>4. ColumnOf(a) = c % M /\ OnLine(b, a, n)
  BY DEF At
<1> HIDE DEF M, c, m
<1>5. ColumnOf(m) = (c + 1) % M
  BY <1>1, <1>2, <1>3, <1>4, NextRest
<1>6. OnLine(b, m, n)
  BY <1>3, <1>4 DEF OnLine
<1>7. ColumnOf(m) = (ColumnOf(b) + (k + 1)) % M
  BY <1>2, <1>5
<1>8. ColumnOf(m) = (ColumnOf(b) + (k + 1)) % (2 * Columns)
  BY <1>7 DEF M
<1>9. At(b, m, k + 1, n)
  BY <1>6, <1>8 DEF At
<1> QED
  BY <1>9 DEF m

LEMMA LineIsNat ==
  ASSUME NEW a \in Addresses
  PROVE  LineOf(a) \in Nat
<1> DEFINE p == a.nty * Rows + a.cy
<1>1. a.nty \in Nat /\ a.cy \in Nat /\ a.fine \in Nat /\ Rows \in Nat /\ Fine \in Nat
  BY SizesAre, FieldsOf
<1>2. LineOf(a) = p * Fine + a.fine
  BY DEF LineOf
<1>3. p \in Nat
  BY <1>1
<1> HIDE DEF p
<1> QED
  BY <1>1, <1>2, <1>3

LEMMA OnNextLine ==
  ASSUME NEW b \in Addresses, NEW a \in Addresses, NEW n \in Nat, OnLine(b, a, n)
  PROVE  OnLine(b, IncrY(a), n + 1)
<1> DEFINE M == 2 * ShownRows
           c == LineOf(b) + n
           m == IncrY(a)
<1>1. M \in Nat \ {0}
  BY SizesAre
<1>2. c \in Nat /\ LineOf(b) + (n + 1) = c + 1
  <2>1. LineOf(b) \in Nat
    BY LineIsNat
  <2> QED
    BY <2>1
<1>3. m.cy < Rows /\ LineOf(m) = IF LineOf(a) = M - 1 THEN 0 ELSE LineOf(a) + 1
  BY LineNext DEF OnLine
<1>4. LineOf(a) = c % M
  BY DEF OnLine
<1> HIDE DEF M, c, m
<1>5. LineOf(m) = (c + 1) % M
  BY <1>1, <1>2, <1>3, <1>4, NextRest
<1>7. LineOf(m) = (LineOf(b) + (n + 1)) % M
  BY <1>2, <1>5
<1>8. LineOf(m) = (LineOf(b) + (n + 1)) % (2 * ShownRows)
  BY <1>7 DEF M
<1>9. OnLine(b, m, n + 1)
  BY <1>3, <1>8 DEF OnLine
<1> QED
  BY <1>9 DEF m

\* An address is in its own column; on its own line, when that is shown.
LEMMA AtItself ==
  ASSUME NEW a \in Addresses
  PROVE  /\ ColumnOf(a) = (ColumnOf(a) + 0) % (2 * Columns)
         /\ a.cy < Rows => At(a, a, 0, 0)
<1>1. 2 * Columns \in Nat \ {0} /\ 2 * ShownRows \in Nat \ {0}
  BY SizesAre
<1>2. ColumnOf(a) \in 0 .. 2 * Columns - 1
  BY ColumnNext
<1>3. a.cy < Rows => LineOf(a) \in 0 .. 2 * ShownRows - 1
  BY LineNext
<1> DEFINE C == 2 * Columns
           L == 2 * ShownRows
           x == ColumnOf(a)
           y == LineOf(a)
<1>4. C \in Nat \ {0} /\ x \in 0 .. C - 1
  BY <1>1, <1>2
<1>5. L \in Nat \ {0} /\ (a.cy < Rows => y \in 0 .. L - 1)
  BY <1>1, <1>3
<1> HIDE DEF C, L, x, y
<1>6. x = (x + 0) % C
  BY <1>4, RestAgain
<1>7. a.cy < Rows => y = (y + 0) % L
  BY <1>5, RestAgain
<1> QED
  BY <1>6, <1>7 DEF At, OnLine, C, L, x, y

\* The line that is being prepared at the end of a line, and the tiles of the
\* line that have gone through the pipeline.
Following == IF line = Prerender THEN 0 ELSE line + 1
Fetched      == IF step = 0 THEN 0 ELSE step - 1

\* While a picture is steady, where v and the addresses in the pipeline are.
TilesAt ==
  /\ line < ShownRows /\ step <= Columns =>
       /\ At(base, pipe[2], Fetched, line) /\ At(base, pipe[3], Fetched + 1, line)
       /\ At(base, v, Fetched + 2, line)
  /\ line < ShownRows /\ step \in 2 .. CopyX => At(base, pipe[1], step - 2, line)
  /\ line < ShownRows /\ step = CopyX => OnLine(base, v, line + 1)
  /\ line < ShownRows /\ step = CopyY => At(base, v, 0, line + 1)
  /\ Active /\ step = Columns + 3 => At(base, v, 0, Following)
  /\ Active /\ step = Columns + 4 => At(base, pipe[3], 0, Following) /\ At(base, v, 1, Following)

PictureInv ==
  /\ steady = 1 => line = Prerender /\ step = CopyY /\ v.cx = base.cx /\ v.ntx = base.ntx
  /\ steady = 2 /\ base.cy < Rows => TilesAt

LEMMA FetchPicture ==
  ASSUME VideoTyped, PictureInv, Fetch, Active, step # 0, step \notin {CopyX, CopyY}, DotsPass
  PROVE  PictureInv'
<1> USE PositionsAre
<1>0. line \in 0 .. Prerender /\ step \in 0 .. Columns + 4 /\ LastStep = Columns + 4
  BY DEF VideoTyped
<1>1. /\ v \in Addresses /\ base \in Addresses
      /\ pipe[1] \in Addresses /\ pipe[2] \in Addresses /\ pipe[3] \in Addresses
  BY DEF VideoTyped
<1>2. /\ step < LastStep => line' = line /\ step' = step + 1 /\ Active' = Active
      /\ step = LastStep => step' = 0 /\ line' = Following
      /\ Prerender' = Prerender /\ CopyX' = CopyX /\ CopyY' = CopyY
  BY StepMoves DEF Following, Prerender, CopyX, CopyY
<1>3. /\ pipe'[1] = pipe[2] /\ pipe'[2] = pipe[3] /\ pipe'[3] = v
      /\ v' = (IF step = Columns THEN IncrY(IncrCoarseX(v)) ELSE IncrCoarseX(v))
      /\ steady' = steady /\ base' = base
  BY DEF Fetch
<1>4. steady # 1
  BY DEF PictureInv
<1> SUFFICES ASSUME steady = 2, base.cy < Rows PROVE TilesAt'
  BY <1>3, <1>4 DEF PictureInv
<1>5. TilesAt
  BY DEF PictureInv
<1>6. CASE line < ShownRows /\ step < Columns
  <2>1. /\ line' = line /\ step' = step + 1 /\ Fetched = step - 1 /\ Fetched' = step /\ step \in Nat \ {0}
        /\ Fetched + 1 = step /\ Fetched + 2 = step + 1
        /\ step' <= Columns /\ step' \notin {CopyX, CopyY, Columns + 3, Columns + 4}
    <3>1. step \in Nat \ {0} /\ step < LastStep
      BY <1>0, <1>6
    <3>2. line' = line /\ step' = step + 1
      BY <1>2, <3>1
    <3>3. Fetched = step - 1 /\ Fetched' = step
      BY <3>1, <3>2 DEF Fetched
    <3>4. step' <= Columns /\ step' \notin {Columns + 1, Columns + 2, Columns + 3, Columns + 4}
      BY <1>6, <3>1, <3>2
    <3> QED
      BY <3>1, <3>2, <3>3, <3>4
  <2>2. At(base, pipe[2], step - 1, line) /\ At(base, pipe[3], step, line) /\ At(base, v, step + 1, line)
    BY <1>5, <1>6, <2>1 DEF TilesAt
  <2>3. At(base, IncrCoarseX(v), (step + 1) + 1, line)
    BY <1>0, <1>1, <2>1, <2>2, AtNextColumn
  <2>4. (step + 1) + 1 = Fetched' + 2 /\ Fetched' + 1 = step + 1 /\ step' - 2 = step - 1
    BY <2>1
  <2>5. v' = IncrCoarseX(v)
    BY <1>3, <1>6, <1>0
  <2>6. At(base, pipe'[2], Fetched', line') /\ At(base, pipe'[3], Fetched' + 1, line')
    BY <1>3, <2>1, <2>2, <2>4
  <2>7. At(base, v', Fetched' + 2, line')
    BY <2>1, <2>3, <2>4, <2>5
  <2>8. At(base, pipe'[1], step' - 2, line')
    BY <1>3, <2>1, <2>2, <2>4
  <2> HIDE DEF Fetched
  <2> QED
    BY <1>2, <1>3, <2>1, <2>6, <2>7, <2>8 DEF TilesAt, At, OnLine, LineOf, ColumnOf
<1>7. CASE line < ShownRows /\ step = Columns
  <2>1. line' = line /\ step' = CopyX' /\ step' = Columns + 1 /\ Fetched + 2 = Columns + 1
    <3>1. step < LastStep /\ step # 0
      BY <1>0, <1>7
    <3>2. line' = line /\ step' = step + 1
      BY <1>2, <3>1
    <3>3. Fetched = step - 1
      BY <1>7 DEF Fetched
    <3> QED
      BY <1>2, <1>7, <3>2, <3>3
  <2>2. At(base, pipe[2], Columns - 1, line) /\ At(base, v, Columns + 1, line)
    <3>1. Fetched = Columns - 1
      BY <2>1, <1>7 DEF Fetched
    <3> QED
      BY <1>5, <1>7, <2>1, <3>1 DEF TilesAt
  <2>3. OnLine(base, v', line + 1)
    <3> DEFINE m == IncrCoarseX(v)
    <3>1. At(base, m, (Columns + 1) + 1, line) /\ m \in Addresses
      BY <1>0, <1>1, <2>2, AtNextColumn, WalksOn
    <3>2. v' = IncrY(m)
      BY <1>3, <1>7
    <3> HIDE DEF m
    <3> QED
      BY <1>0, <1>1, <3>1, <3>2, OnNextLine DEF At
  <2>4. At(base, pipe'[1], step' - 2, line')
    <3>1. step' - 2 = Columns - 1
      BY <2>1
    <3> QED
      BY <1>3, <2>1, <2>2, <3>1
  <2>5. ~(step' <= Columns) /\ step' # CopyY' /\ step' # Columns + 3 /\ step' # Columns + 4
    BY <1>2, <2>1
  <2> QED
    BY <1>2, <1>3, <2>1, <2>3, <2>4, <2>5 DEF TilesAt, At, OnLine, LineOf, ColumnOf
<1>8. CASE line = Prerender /\ step <= Columns
  <2>1. line' = Prerender /\ step' = step + 1
    <3>1. step < LastStep
      BY <1>0, <1>8
    <3> QED
      BY <1>2, <1>8, <3>1
  <2>2. ~(line' < ShownRows) /\ step' # Columns + 3 /\ step' # Columns + 4
    BY <1>0, <1>8, <2>1
  <2> QED
    BY <2>2 DEF TilesAt
<1>9. CASE step = Columns + 3
  <2>1. line' = line /\ step' = Columns + 4 /\ Following' = Following
    <3>1. step < LastStep
      BY <1>0, <1>9
    <3>2. line' = line /\ step' = step + 1
      BY <1>2, <3>1
    <3> QED
      BY <1>2, <1>9, <3>2 DEF Following
  <2>2. At(base, v, 0, Following) /\ Following \in Nat
    BY <1>0, <1>5, <1>9 DEF TilesAt, Following
  <2>3. v' = IncrCoarseX(v)
    BY <1>3, <1>9
  <2>4. At(base, IncrCoarseX(v), 0 + 1, Following)
    BY <1>1, <2>2, AtNextColumn
  <2>5. At(base, pipe'[3], 0, Following) /\ At(base, v', 1, Following)
    BY <1>3, <2>2, <2>3, <2>4
  <2>6. ~(step' <= Columns) /\ step' \notin {CopyX', CopyY', Columns + 3} /\ step' \notin 2 .. CopyX'
    BY <1>2, <2>1
  <2> QED
    BY <1>3, <2>1, <2>5, <2>6 DEF TilesAt, At, OnLine, LineOf, ColumnOf
<1>10. CASE step = Columns + 4
  <2>1. step' = 0 /\ line' = Following
    BY <1>0, <1>2, <1>10
  <2>2. /\ At(base, pipe[3], 0, Following) /\ At(base, v, 1, Following) /\ Following \in Nat
    BY <1>0, <1>5, <1>10 DEF TilesAt, Following
  <2>3. v' = IncrCoarseX(v)
    BY <1>3, <1>10
  <2>4. At(base, IncrCoarseX(v), 1 + 1, Following)
    BY <1>1, <2>2, AtNextColumn
  <2>5. Fetched' = 0
    BY <2>1 DEF Fetched
  <2>6. /\ At(base, pipe'[2], Fetched', line') /\ At(base, pipe'[3], Fetched' + 1, line')
        /\ At(base, v', Fetched' + 2, line')
    BY <1>3, <2>1, <2>2, <2>3, <2>4, <2>5
  <2>7. step' \notin {CopyX', CopyY', Columns + 3, Columns + 4} /\ step' \notin 2 .. CopyX'
    BY <1>2, <2>1
  <2> HIDE DEF Fetched
  <2> QED
    BY <1>3, <2>6, <2>7 DEF TilesAt, At, OnLine, LineOf, ColumnOf
<1>11. line < ShownRows \/ line = Prerender
  BY DEF Active
<1>12. step < Columns \/ step = Columns \/ step = Columns + 3 \/ step = Columns + 4
  BY <1>0
<1> QED
  BY <1>0, <1>6, <1>7, <1>8, <1>9, <1>10, <1>11, <1>12

LEMMA CopyXPicture ==
  ASSUME VideoTyped, PictureInv, DotsPass, Active, step = CopyX, UNCHANGED <<t, pipe>>,
         v' = CopiesX, base' = [base EXCEPT !.cx = t.cx, !.ntx = t.ntx],
         steady' = IF line = Prerender THEN 1 ELSE steady
  PROVE  PictureInv'
<1> USE PositionsAre
<1>0. line \in 0 .. Prerender /\ LastStep = Columns + 4 /\ Prerender' = Prerender /\ CopyX' = CopyX /\ CopyY' = CopyY
  BY DEF VideoTyped, Prerender, CopyX, CopyY
<1>1. v \in Addresses /\ base \in Addresses /\ t.cx \in 0 .. Columns - 1 /\ t.ntx \in 0 .. 1
  BY FieldsOf DEF VideoTyped
<1>2. line' = line /\ step' = Columns + 2 /\ step' = CopyY'
  <2>1. step < LastStep
    BY <1>0
  <2>2. line' = line /\ step' = step + 1
    BY <2>1, StepMoves
  <2> QED
    BY <1>0, <2>2
<1>3. /\ v' \in Addresses /\ v'.cx = t.cx /\ v'.ntx = t.ntx
      /\ v'.cy = v.cy /\ v'.nty = v.nty /\ v'.fine = v.fine
  <2>1. v' = [v EXCEPT !.cx = t.cx, !.ntx = t.ntx]
    BY DEF CopiesX
  <2> QED
    BY <1>1, <2>1 DEF Addresses
<1>4. /\ base' \in Addresses /\ base'.cx = t.cx /\ base'.ntx = t.ntx
      /\ base'.cy = base.cy /\ base'.nty = base.nty /\ base'.fine = base.fine
  BY <1>1 DEF Addresses
<1>5. steady' = 1 => line' = Prerender' /\ step' = CopyY' /\ v'.cx = base'.cx /\ v'.ntx = base'.ntx
  <2>1. steady # 1
    BY DEF PictureInv
  <2>2. steady' = 1 => line = Prerender
    BY <2>1
  <2> QED
    BY <1>0, <1>2, <1>3, <1>4, <2>2
<1>6. ASSUME steady' = 2, base'.cy < Rows
      PROVE  TilesAt'
  <2>1. steady = 2 /\ base.cy < Rows /\ line # Prerender
    BY <1>4, <1>6
  <2>2. line < ShownRows /\ OnLine(base, v, line + 1)
    BY <2>1 DEF PictureInv, TilesAt, Active
  <2>3. LineOf(v') = LineOf(v) /\ LineOf(base') = LineOf(base) /\ v'.cy < Rows
    BY <1>3, <1>4, <2>2 DEF LineOf, OnLine
  <2>4. OnLine(base', v', line' + 1)
    BY <1>2, <2>2, <2>3 DEF OnLine
  <2>5. ColumnOf(v') = ColumnOf(base')
    BY <1>3, <1>4 DEF ColumnOf
  <2>6. ColumnOf(v') = (ColumnOf(base') + 0) % (2 * Columns)
    BY <1>3, <1>4, <2>5, AtItself
  <2>7. /\ ~(step' <= Columns) /\ step' \notin 2 .. CopyX' /\ step' # CopyX'
        /\ step' # Columns + 3 /\ step' # Columns + 4
    BY <1>0, <1>2
  <2>8. At(base', v', 0, line' + 1)
    BY <2>4, <2>6 DEF At
  <2> QED
    BY <2>7, <2>8 DEF TilesAt, At, OnLine, LineOf, ColumnOf
<1> QED
  BY <1>5, <1>6 DEF PictureInv

LEMMA CopyYPicture ==
  ASSUME VideoTyped, PictureInv, DotsPass, Active, step = CopyY, UNCHANGED <<t, pipe>>,
         IF line = Prerender
           THEN /\ v' = CopiesY
                /\ base' = [t EXCEPT !.cx = base.cx, !.ntx = base.ntx]
                /\ steady' = IF steady = 1 THEN 2 ELSE 0
           ELSE UNCHANGED <<v, base, steady>>
  PROVE  PictureInv'
<1> USE PositionsAre
<1>0. line \in 0 .. Prerender /\ LastStep = Columns + 4 /\ Prerender' = Prerender /\ CopyX' = CopyX /\ CopyY' = CopyY
  BY DEF VideoTyped, Prerender, CopyX, CopyY
<1>1. v \in Addresses /\ base \in Addresses /\ t \in Addresses
  BY DEF VideoTyped
<1>2. line' = line /\ step' = Columns + 3 /\ Active' = Active
  <2>1. step < LastStep
    BY <1>0
  <2>2. line' = line /\ step' = step + 1 /\ Active' = Active
    BY <2>1, StepMoves
  <2> QED
    BY <1>0, <2>2
<1>3. /\ ~(step' <= Columns) /\ step' \notin 2 .. CopyX' /\ step' # CopyX'
      /\ step' # CopyY' /\ step' # Columns + 4
  BY <1>0, <1>2
<1>4. CASE line = Prerender
  <2>1. steady' # 1 /\ (steady' = 2 => steady = 1)
    BY <1>4
  <2>2. ASSUME steady' = 2, base'.cy < Rows
        PROVE  TilesAt'
    <3>1. v.cx = base.cx /\ v.ntx = base.ntx
      BY <2>1, <2>2 DEF PictureInv
    <3>2. /\ v' \in Addresses /\ v'.cy = t.cy /\ v'.nty = t.nty /\ v'.fine = t.fine
          /\ v'.cx = v.cx /\ v'.ntx = v.ntx
      <4>1. v' = [v EXCEPT !.cy = t.cy, !.nty = t.nty, !.fine = t.fine]
        BY <1>4 DEF CopiesY
      <4> QED
        BY <1>1, <4>1 DEF Addresses
    <3>3. /\ base' \in Addresses /\ base'.cx = base.cx /\ base'.ntx = base.ntx
          /\ base'.cy = t.cy /\ base'.nty = t.nty /\ base'.fine = t.fine
      <4>1. base.cx \in 0 .. Columns - 1 /\ base.ntx \in 0 .. 1
        BY <1>1, FieldsOf
      <4> QED
        BY <1>1, <1>4, <4>1 DEF Addresses
    <3>4. v' = base'
      BY <3>1, <3>2, <3>3, SameAddress
    <3>5. At(base', v', 0, 0)
      BY <2>2, <3>3, <3>4, AtItself
    <3>6. Following' = 0
      BY <1>0, <1>2, <1>4 DEF Following
    <3> QED
      BY <1>3, <3>5, <3>6 DEF TilesAt, At, OnLine, LineOf, ColumnOf
  <2> QED
    BY <2>1, <2>2 DEF PictureInv
<1>5. CASE line # Prerender
  <2>1. v' = v /\ base' = base /\ steady' = steady /\ steady # 1 /\ line < ShownRows
    BY <1>5 DEF PictureInv, Active
  <2>2. ASSUME steady = 2, base.cy < Rows
        PROVE  TilesAt'
    <3>1. At(base, v, 0, line + 1)
      BY <2>1, <2>2 DEF PictureInv, TilesAt
    <3>2. Following' = line + 1
      BY <1>0, <1>2, <1>5 DEF Following
    <3> QED
      BY <1>3, <2>1, <3>1, <3>2 DEF TilesAt, At, OnLine, LineOf, ColumnOf
  <2> QED
    BY <2>1, <2>2 DEF PictureInv
<1> QED
  BY <1>4, <1>5

LEMMA TickPicture ==
  ASSUME VideoTyped, PictureInv, Tick
  PROVE  PictureInv'
<1> USE PositionsAre
<1>0. line \in 0 .. Prerender /\ step \in 0 .. LastStep /\ Prerender' = Prerender /\ CopyX' = CopyX /\ CopyY' = CopyY
  BY DEF VideoTyped, Prerender, CopyX, CopyY
<1>1. DotsPass /\ UNCHANGED t
  BY DEF Tick, regVars
<1>2. CASE Flags
  <2>1. step = 0 /\ UNCHANGED <<v, pipe, steady, base>> /\ step < LastStep
    BY <1>0, <1>2 DEF Flags, scanVars
  <2>2. line' = line /\ step' = 1
    BY <1>0, <1>1, <2>1, StepMoves
  <2>3. steady # 1
    BY <2>1 DEF PictureInv
  <2>4. ASSUME steady = 2, base.cy < Rows
        PROVE  TilesAt'
    <3>1. Fetched' = Fetched
      BY <2>1, <2>2 DEF Fetched
    <3>2. line < ShownRows => /\ At(base, pipe[2], Fetched, line) /\ At(base, pipe[3], Fetched + 1, line)
                              /\ At(base, v, Fetched + 2, line)
      BY <2>1, <2>4 DEF PictureInv, TilesAt
    <3>3. step' \notin {CopyX', CopyY', Columns + 3, Columns + 4} /\ step' \notin 2 .. CopyX'
      BY <1>0, <2>2
    <3> HIDE DEF Fetched
    <3> QED
      BY <2>1, <2>2, <3>1, <3>2, <3>3 DEF TilesAt, At, OnLine, LineOf, ColumnOf
  <2> QED
    BY <2>1, <2>3, <2>4 DEF PictureInv
<1>3. CASE Scan /\ ~Active
  <2>1. UNCHANGED scanVars /\ step # 0 /\ line >= ShownRows /\ line # Prerender /\ LastStep = 1
    BY <1>0, <1>3 DEF Scan, Active
  <2>2. step = LastStep /\ step' = 0 /\ line' = line + 1
    BY <1>0, <1>1, <2>1, StepMoves
  <2>3. steady # 1 /\ steady' = steady
    BY <2>1 DEF PictureInv, scanVars
  <2>4. ~(line' < ShownRows) /\ step' # Columns + 3 /\ step' # Columns + 4
    BY <1>0, <2>1, <2>2
  <2>5. TilesAt'
    BY <2>4 DEF TilesAt
  <2> QED
    BY <2>3, <2>5 DEF PictureInv
<1>4. CASE Scan /\ Active /\ ~on
  <2>1. steady' = 0
    BY <1>4 DEF Scan
  <2> QED
    BY <2>1 DEF PictureInv
<1>5. CASE Scan /\ Active /\ on /\ step \notin {CopyX, CopyY}
  <2>1. Fetch /\ step # 0
    BY <1>0, <1>5 DEF Scan
  <2> QED
    BY <1>1, <1>5, <2>1, FetchPicture
<1>6. CASE Scan /\ Active /\ on /\ step = CopyX
  <2>1. /\ v' = CopiesX /\ base' = [base EXCEPT !.cx = t.cx, !.ntx = t.ntx]
        /\ steady' = (IF line = Prerender THEN 1 ELSE steady) /\ UNCHANGED pipe
    BY <1>0, <1>6 DEF Scan
  <2> QED
    BY <1>1, <1>6, <2>1, CopyXPicture
<1>7. CASE Scan /\ Active /\ on /\ step = CopyY
  <2>1. /\ UNCHANGED pipe
        /\ IF line = Prerender
             THEN /\ v' = CopiesY
                  /\ base' = [t EXCEPT !.cx = base.cx, !.ntx = base.ntx]
                  /\ steady' = IF steady = 1 THEN 2 ELSE 0
             ELSE UNCHANGED <<v, base, steady>>
    BY <1>0, <1>7 DEF Scan
  <2> QED
    BY <1>1, <1>7, <2>1, CopyYPicture
<1> QED
  BY <1>2, <1>3, <1>4, <1>5, <1>6, <1>7 DEF Tick

LEMMA ProgramPicture ==
  ASSUME VideoTyped, PictureInv, Program
  PROVE  PictureInv'
<1>1. CASE steady' = 0
  BY <1>1 DEF PictureInv
<1>2. CASE UNCHANGED <<line, step, v, pipe, base, steady>>
  BY <1>2 DEF PictureInv, TilesAt, At, OnLine, LineOf, ColumnOf, Fetched, Following, Prerender, Active, CopyX, CopyY
<1>a. CASE ReadStatus
  BY <1>a, <1>2 DEF ReadStatus, Untimed, scanVars
<1>b. CASE WriteCtrl
  BY <1>b, <1>2 DEF WriteCtrl, Writes, Untimed
<1>d. CASE WriteScroll
  BY <1>d, <1>2 DEF WriteScroll, Writes, Untimed
<1>e. CASE WriteAddr
  <2>1. UNCHANGED <<line, step, pipe, base>> /\ (steady' = 0 \/ UNCHANGED <<v, steady>>)
    BY <1>e DEF WriteAddr, Writes, Untimed
  <2> QED
    BY <1>1, <1>2, <2>1
<1>c. CASE WriteMask
  <2>1. UNCHANGED <<line, step, pipe, base, v>> /\ (steady' = 0 \/ UNCHANGED steady)
    BY <1>c DEF WriteMask, Writes, Untimed
  <2> QED
    BY <1>1, <1>2, <2>1
<1>f. CASE IncrementVramAddr \/ ResetVideo
  BY <1>f, <1>1 DEF IncrementVramAddr, ResetVideo
<1> QED
  BY <1>a, <1>b, <1>c, <1>d, <1>e, <1>f DEF Program

\* The inductive invariant of the video chip.
VideoInv == VideoTyped /\ BlankInv /\ PictureInv

LEMMA VideoInvInit == VideoInit => VideoInv
<1> SUFFICES ASSUME VideoInit PROVE VideoInv
  OBVIOUS
<1>1. VideoTyped
  BY VideoTypedInit
<1>2. line = Prerender /\ step = 0 /\ pending = FALSE /\ steady = 0
      /\ taken = (IF vblank /\ nmiEn THEN 1 ELSE 0)
  BY DEF VideoInit
<1>3. BlankInv
  BY <1>2 DEF BlankInv
<1>4. PictureInv
  BY <1>2 DEF PictureInv
<1> QED
  BY <1>1, <1>3, <1>4 DEF VideoInv

LEMMA VideoInvNext == VideoInv /\ [VideoNext]_videoVars => VideoInv'
<1> SUFFICES ASSUME VideoInv, [VideoNext]_videoVars PROVE VideoInv'
  OBVIOUS
<1>0. VideoTyped /\ BlankInv /\ PictureInv
  BY DEF VideoInv
<1>1. CASE Tick
  <2>1. BlankInv' /\ vblank' \in BOOLEAN /\ pending' \in BOOLEAN /\ taken' \in 0 .. 1
    BY <1>0, <1>1, TickBlank
  <2>2. PictureInv'
    BY <1>0, <1>1, TickPicture
  <2>3. line' \in 0 .. Prerender' /\ step' \in 0 .. LastStep'
    BY <1>0, <1>1, StepMoves DEF Tick, Prerender
  <2>4. UNCHANGED <<nmiEn, incRow, on, t, toggle>>
    BY <1>1 DEF Tick, regVars
  <2>5. /\ v' \in Addresses /\ base' \in Addresses /\ steady' \in 0 .. 2
        /\ pipe'[1] \in Addresses /\ pipe'[2] \in Addresses /\ pipe'[3] \in Addresses
    <3>1. CASE Flags
      BY <1>0, <3>1 DEF Flags, scanVars, VideoTyped
    <3>2. CASE Scan
      BY <1>0, <2>4, <3>2, ScanTyped
    <3> QED
      BY <1>1, <3>1, <3>2 DEF Tick
  <2>6. VideoTyped'
    BY <1>0, <2>1, <2>3, <2>4, <2>5 DEF VideoTyped
  <2> QED
    BY <2>1, <2>2, <2>6 DEF VideoInv
<1>2. CASE Program
  BY <1>0, <1>2, ProgramTyped, ProgramBlank, ProgramPicture DEF VideoInv
<1>3. CASE UNCHANGED videoVars
  BY <1>0, <1>3 DEF VideoInv, VideoTyped, BlankInv, PictureInv, TilesAt, At, OnLine, LineOf, ColumnOf, Fetched,
     Following, Prerender, Active, LastStep, CopyX, CopyY, videoVars
<1> QED
  BY <1>1, <1>2, <1>3 DEF VideoNext

LEMMA VideoInvShows == VideoInv => PictureKeepsTime
<1> SUFFICES ASSUME VideoInv PROVE PictureKeepsTime
  OBVIOUS
<1> USE PositionsAre
<1>0. VideoTyped /\ BlankInv /\ PictureInv
  BY DEF VideoInv
<1>1. OneNmiPerEdge
  BY <1>0 DEF OneNmiPerEdge, BlankInv, VideoTyped
<1>2. SteadyPicture
  <2>1. SUFFICES ASSUME steady = 2, line < ShownRows, step \in 2 .. CopyX, base.cy < Rows
        PROVE  /\ pipe[1].ntx * Columns + pipe[1].cx = (base.ntx * Columns + base.cx + step - 2) % (2 * Columns)
               /\ (pipe[1].nty * Rows + pipe[1].cy) * Fine + pipe[1].fine
                    = ((base.nty * Rows + base.cy) * Fine + base.fine + line) % (2 * ShownRows)
    BY DEF SteadyPicture
  <2>2. At(base, pipe[1], step - 2, line)
    BY <1>0, <2>1 DEF PictureInv, TilesAt
  <2>3. ColumnOf(base) \in Nat /\ step \in Nat
    <3>1. ColumnOf(base) \in 0 .. 2 * Columns - 1
      BY <1>0, ColumnNext DEF VideoTyped
    <3> QED
      BY <2>1, <3>1
  <2>4. ColumnOf(base) + (step - 2) = ColumnOf(base) + step - 2
    BY <2>3
  <2> QED
    BY <2>2, <2>4 DEF At, OnLine, ColumnOf, LineOf
<1> QED
  BY <1>1, <1>2 DEF PictureKeepsTime

\* While the program writes to the registers at any time, a picture whose scroll
\* it set in the blank shows that scroll on every line and in every column, and
\* no blank goes by without its one interrupt.
THEOREM PictureTimely == VideoSpec => []PictureKeepsTime
<1>1. VideoInit => VideoInv
  BY VideoInvInit
<1>2. VideoInv /\ [VideoNext]_videoVars => VideoInv'
  BY VideoInvNext
<1>3. VideoInv => PictureKeepsTime
  BY VideoInvShows
<1> QED
  BY <1>1, <1>2, <1>3, PTL DEF VideoSpec

----------------------------------------------------------------------------
(***************************************************************************)
(* The NES video chip's search for the sprites of the next line.           *)
(***************************************************************************)

\* How the sprites that reach a line are counted.
LEMMA BeforeNext ==
  ASSUME NEW r, NEW n \in Nat
  PROVE  /\ Before(n, r) \in Nat /\ Before(0, r) = 0
         /\ n \in Reaching(n + 1, r) <=> InRange(oam[4 * n], r, tall)
         /\ Before(n + 1, r) = IF n \in Reaching(n + 1, r) THEN Before(n, r) + 1 ELSE Before(n, r)
<1>1. \A m \in Nat : IsFiniteSet(Reaching(m, r)) /\ Before(m, r) \in Nat
  <2> TAKE m \in Nat
  <2>1. IsFiniteSet(0 .. m - 1)
    BY FS_Interval
  <2>2. Reaching(m, r) \in SUBSET (0 .. m - 1)
    BY DEF Reaching
  <2>3. IsFiniteSet(Reaching(m, r))
    BY <2>1, <2>2, FS_Subset
  <2> QED
    BY <2>3, FS_CardinalityType DEF Before
<1>2. Before(0, r) = 0
  <2>1. Reaching(0, r) = {}
    BY DEF Reaching
  <2> QED
    BY <2>1, FS_EmptySet DEF Before
<1>3. n \in Reaching(n + 1, r) <=> InRange(oam[4 * n], r, tall)
  BY DEF Reaching
<1>4. n \notin Reaching(n, r)
  BY DEF Reaching
<1>5. CASE InRange(oam[4 * n], r, tall)
  <2>1. Reaching(n + 1, r) = Reaching(n, r) \cup {n}
    BY <1>5 DEF Reaching
  <2>2. Cardinality(Reaching(n, r) \cup {n}) = Cardinality(Reaching(n, r)) + 1
    BY <1>1, <1>4, FS_AddElement
  <2> QED
    BY <1>1, <1>2, <1>3, <1>5, <2>1, <2>2 DEF Before
<1>6. CASE ~InRange(oam[4 * n], r, tall)
  <2>1. Reaching(n + 1, r) = Reaching(n, r)
    BY <1>6 DEF Reaching
  <2> QED
    BY <1>1, <1>2, <1>3, <1>6, <2>1 DEF Before
<1> QED
  BY <1>5, <1>6

LEMMA BeforeGrows ==
  ASSUME NEW r, NEW n \in Nat, NEW i \in Nat, i <= n
  PROVE  /\ Before(i, r) <= Before(n, r)
         /\ i < n => (i \in Reaching(n, r) <=> i \in Reaching(i + 1, r))
         /\ i \in Reaching(n, r) => Before(i, r) < Before(n, r)
<1>1. \A j, m \in Nat : j <= m => Before(j, r) <= Before(m, r)
  <2> TAKE j, m \in Nat
  <2> HAVE j <= m
  <2>1. IsFiniteSet(Reaching(m, r))
    <3>1. IsFiniteSet(0 .. m - 1)
      BY FS_Interval
    <3>2. Reaching(m, r) \in SUBSET (0 .. m - 1)
      BY DEF Reaching
    <3> QED
      BY <3>1, <3>2, FS_Subset
  <2>2. Reaching(j, r) \in SUBSET Reaching(m, r)
    BY DEF Reaching
  <2> QED
    BY <2>1, <2>2, FS_Subset DEF Before
<1>2. i < n => (i \in Reaching(n, r) <=> i \in Reaching(i + 1, r))
  BY DEF Reaching
<1>3. ASSUME i \in Reaching(n, r) PROVE Before(i, r) < Before(n, r)
  <2>1. i < n /\ i + 1 \in Nat
    BY <1>3 DEF Reaching
  <2>2. i \in Reaching(i + 1, r)
    BY <1>2, <1>3, <2>1
  <2>3. Before(i + 1, r) = Before(i, r) + 1 /\ Before(i, r) \in Nat
    BY <2>2, BeforeNext
  <2>4. Before(i + 1, r) <= Before(n, r) /\ Before(n, r) \in Nat
    BY <1>1, <2>1, BeforeNext
  <2> QED
    BY <2>3, <2>4
<1> QED
  BY <1>1, <1>2, <1>3

EvalRecs == [slot : Nat, byte : 0 .. 3, copy : Nat, done : BOOLEAN, zero : BOOLEAN]
Oam2Bytes == 0 .. 4 * PerLine - 1

\* The sprites before n that are drawn have been copied to m.
Copied(m, n) ==
  \A j \in Reaching(n, row) : Before(j, row) < PerLine =>
    \A b \in 0 .. 3 : m[4 * Before(j, row) + b] = oam[4 * j + b]

\* After d pairs of dots the search is at sprite i, and has found those before it.
Halfway(e, m, a, d, i) ==
  /\ ~e.done /\ e.slot = Before(i, row) /\ e.slot < PerLine
  /\ a = 4 * i + e.byte /\ d = i + 3 * e.slot + e.byte
  /\ e.byte > 0 => i \in Reaching(i + 1, row)
  /\ \A b \in 0 .. 3 : b < e.byte => m[4 * e.slot + b] = oam[4 * i + b]
  /\ Copied(m, i)
  /\ e.zero <=> (i > 0 \/ e.byte > 0) /\ 0 \in Reaching(1, row)

\* Or it has found all that are drawn.
Complete(e, m) ==
  /\ e.done \/ e.slot = PerLine
  /\ e.slot = IF Before(Sprites, row) < PerLine THEN Before(Sprites, row) ELSE PerLine
  /\ Copied(m, Sprites)
  /\ e.zero <=> 0 \in Reaching(1, row)

Searched(e, m, a, d) == Complete(e, m) \/ \E i \in 0 .. Sprites - 1 : Halfway(e, m, a, d, i)

LEMMA OamRemainder ==
  ASSUME NEW x \in 0 .. OamSize - 1
  PROVE  x % OamSize = x
<1> DEFINE n == OamSize
<1>1. n \in Nat /\ n > 0
  BY SpriteSizes DEF OamSize
<1>2. x \in 0 .. n - 1
  OBVIOUS
<1> HIDE DEF n
<1>3. x % n = x
  BY <1>1, <1>2
<1> QED
  BY <1>3 DEF n

\* A sprite has been dealt with: on to the next one, unless none is left or
\* there is room for none.
LEMMA NextSprite ==
  ASSUME NEW i \in 0 .. Sprites - 1, NEW e \in EvalRecs, NEW m, NEW d,
         e.slot = Before(i + 1, row), e.slot <= PerLine, e.byte = 0,
         e.done <=> 4 * (i + 1) >= OamSize, d = i + 1 + 3 * e.slot, Copied(m, i + 1),
         e.zero <=> 0 \in Reaching(1, row)
  PROVE  Searched(e, m, (4 * (i + 1)) % OamSize, d)
<1>1. /\ i \in Nat /\ i + 1 \in Nat /\ i + 1 <= Sprites /\ Sprites \in Nat /\ PerLine \in Nat
      /\ e.slot \in Nat
  BY SpriteSizes DEF EvalRecs
<1>2. e.done <=> i + 1 = Sprites
  BY <1>1 DEF OamSize
<1>3. CASE i + 1 < Sprites /\ e.slot < PerLine
  <2>1. i + 1 \in 0 .. Sprites - 1 /\ 4 * (i + 1) \in 0 .. OamSize - 1
    BY <1>1, <1>3 DEF OamSize
  <2>2. (4 * (i + 1)) % OamSize = 4 * (i + 1) + e.byte
    BY <1>1, <2>1, OamRemainder
  <2>3. d = (i + 1) + 3 * e.slot + e.byte
    BY <1>1
  <2>4. ~e.done
    BY <1>1, <1>2, <1>3
  <2>5. \A b \in 0 .. 3 : ~(b < e.byte)
    OBVIOUS
  <2>6. i + 1 > 0 /\ ~(e.byte > 0)
    BY <1>1
  <2> DEFINE a == (4 * (i + 1)) % OamSize
             k == i + 1
  <2>7. /\ ~e.done /\ e.slot = Before(k, row) /\ e.slot < PerLine
        /\ a = 4 * k + e.byte /\ d = k + 3 * e.slot + e.byte /\ k > 0 /\ ~(e.byte > 0)
        /\ Copied(m, k) /\ k \in 0 .. Sprites - 1
    BY <1>3, <2>1, <2>2, <2>3, <2>4, <2>6
  <2> HIDE DEF a, k
  <2>8. Halfway(e, m, a, d, k)
    BY <2>5, <2>7 DEF Halfway
  <2> QED
    BY <2>7, <2>8 DEF Searched, a
<1>4. CASE ~(i + 1 < Sprites /\ e.slot < PerLine)
  <2>1. e.done \/ e.slot = PerLine
    BY <1>1, <1>2, <1>4
  <2>2. Before(Sprites, row) \in Nat /\ e.slot <= Before(Sprites, row)
    BY <1>1, BeforeNext, BeforeGrows
  <2>3. e.slot = IF Before(Sprites, row) < PerLine THEN Before(Sprites, row) ELSE PerLine
    <3>1. CASE i + 1 = Sprites
      BY <1>1, <2>2, <3>1
    <3>2. CASE e.slot = PerLine
      BY <1>1, <2>2, <3>2
    <3> QED
      BY <1>1, <1>4, <3>1, <3>2
  <2>4. ASSUME NEW j \in Reaching(Sprites, row), Before(j, row) < PerLine
        PROVE  j \in Reaching(i + 1, row)
    <3>1. j \in Nat /\ j < Sprites /\ Before(j, row) \in Nat
      <4>1. j \in Nat /\ j < Sprites
        BY <1>1 DEF Reaching
      <4> QED
        BY <4>1, BeforeNext
    <3>2. j < i + 1
      <4> SUFFICES ASSUME i + 1 <= j PROVE FALSE
        BY <1>1, <3>1
      <4>1. e.slot <= Before(j, row)
        BY <1>1, <3>1, BeforeGrows
      <4>2. e.slot = PerLine
        BY <1>1, <1>4, <3>1
      <4> QED
        BY <1>1, <2>4, <3>1, <4>1, <4>2
    <3> QED
      BY <1>1, <3>1, <3>2 DEF Reaching
  <2>5. Copied(m, Sprites)
    BY <2>4 DEF Copied
  <2> QED
    BY <2>1, <2>3, <2>5 DEF Searched, Complete
<1> QED
  BY <1>3, <1>4

\* What was copied before is not written over.
LEMMA CopiedKept ==
  ASSUME NEW i \in Nat, DOMAIN oam2 = Oam2Bytes, Copied(oam2, i),
         NEW k \in Oam2Bytes, k >= 4 * Before(i, row), NEW val
  PROVE  /\ Copied([oam2 EXCEPT ![k] = val], i)
         /\ [oam2 EXCEPT ![k] = val][k] = val
         /\ \A x \in Oam2Bytes : x # k => [oam2 EXCEPT ![k] = val][x] = oam2[x]
<1> DEFINE m == [oam2 EXCEPT ![k] = val]
<1>1. m[k] = val /\ \A x \in Oam2Bytes : x # k => m[x] = oam2[x]
  OBVIOUS
<1> HIDE DEF m
<1>2. ASSUME NEW j \in Reaching(i, row), Before(j, row) < PerLine, NEW b \in 0 .. 3
      PROVE  m[4 * Before(j, row) + b] = oam[4 * j + b]
  <2>1. j \in Nat /\ j <= i
    BY DEF Reaching
  <2>2. Before(j, row) < Before(i, row) /\ Before(j, row) \in Nat /\ Before(i, row) \in Nat
    BY <2>1, BeforeGrows, BeforeNext
  <2>3. 4 * Before(j, row) + b \in Oam2Bytes /\ 4 * Before(j, row) + b # k
    BY <1>2, <2>2, SpriteSizes DEF Oam2Bytes
  <2>4. oam2[4 * Before(j, row) + b] = oam[4 * j + b]
    BY <1>2 DEF Copied
  <2> QED
    BY <1>1, <2>3, <2>4
<1>3. Copied(m, i)
  BY <1>2 DEF Copied
<1> QED
  BY <1>1, <1>3 DEF m

LEMMA WithEval ==
  \A e \in EvalRecs : \A u :
    \A y \in BOOLEAN, g \in BOOLEAN, b \in 0 .. 3, n \in Nat :
      u = [e EXCEPT !.zero = y, !.byte = b, !.slot = n, !.done = g] =>
        u \in EvalRecs /\ u.zero = y /\ u.byte = b /\ u.slot = n /\ u.done = g
BY DEF EvalRecs

LEMMA SlotByte ==
  ASSUME NEW n \in Nat, n < PerLine, NEW b \in 0 .. 3
  PROVE  4 * n + b \in Oam2Bytes /\ 4 * n + b >= 4 * n
BY SpriteSizes DEF Oam2Bytes

\* One step of the search while sprites are collected.
LEMMA CollectStep ==
  ASSUME NEW e \in EvalRecs, NEW i \in 0 .. Sprites - 1, NEW d \in Nat, DOMAIN oam2 = Oam2Bytes,
         Halfway(e, oam2, oamaddr, d, i), NEW first \in BOOLEAN, first <=> d = 0,
         Collect(e, oamaddr, oam[oamaddr], InRange(oam[oamaddr], row, tall), first)
  PROVE  eval' \in EvalRecs /\ DOMAIN oam2' = Oam2Bytes /\ Searched(eval', oam2', oamaddr', d + 1)
<1> DEFINE val == oam[oamaddr]
           in == InRange(oam[oamaddr], row, tall)
           k == 4 * e.slot + e.byte
           next == Next4(e, oamaddr, in)
<1>1. /\ ~e.done
      /\ e.byte > 0 => i \in Reaching(i + 1, row)
      /\ \A b \in 0 .. 3 : b < e.byte => oam2[4 * e.slot + b] = oam[4 * i + b]
      /\ Copied(oam2, i)
      /\ e.zero <=> (i > 0 \/ e.byte > 0) /\ 0 \in Reaching(1, row)
  BY DEF Halfway
<1>2. /\ e.slot = Before(i, row) /\ e.slot < PerLine
      /\ oamaddr = 4 * i + e.byte /\ d = i + 3 * e.slot + e.byte
      /\ i \in Nat /\ i < Sprites /\ Sprites \in Nat /\ PerLine \in Nat /\ e.slot \in Nat
      /\ e.byte \in 0 .. 3
  BY SpriteSizes DEF EvalRecs, Halfway
<1>0. e.zero \in BOOLEAN /\ e.copy \in Nat
  BY DEF EvalRecs
<1>3. k \in Oam2Bytes /\ k >= 4 * Before(i, row)
  <2>1. k \in Oam2Bytes /\ k >= 4 * e.slot
    BY <1>2, SlotByte
  <2> QED
    BY <1>2, <2>1
<1>4. oam2' = [oam2 EXCEPT ![k] = val] /\ oamaddr' = next % OamSize
  BY DEF Collect
<1> DEFINE z == e.zero \/ (first /\ e.byte = 0 /\ in)
           b2 == IF e.byte = 0 THEN (IF in THEN 1 ELSE 0) ELSE (e.byte + 1) % 4
           n2 == IF e.byte = 3 THEN e.slot + 1 ELSE e.slot
           f2 == next >= OamSize
<1>5. /\ eval' \in EvalRecs /\ eval'.zero = z /\ eval'.byte = b2 /\ eval'.slot = n2
      /\ eval'.done = f2
  <2>1. eval' = [e EXCEPT !.zero = z, !.byte = b2, !.slot = n2, !.done = f2]
    BY DEF Collect
  <2>2. z \in BOOLEAN /\ f2 \in BOOLEAN
    BY <1>0
  <2>3. b2 \in 0 .. 3 /\ n2 \in Nat
    BY <1>2
  <2> HIDE DEF z, b2, n2, f2
  <2>4. \A y \in BOOLEAN, g \in BOOLEAN, b \in 0 .. 3, n \in Nat :
          eval' = [e EXCEPT !.zero = y, !.byte = b, !.slot = n, !.done = g] =>
            eval' \in EvalRecs /\ eval'.zero = y /\ eval'.byte = b /\ eval'.slot = n /\ eval'.done = g
    BY WithEval
  <2> QED
    BY <2>1, <2>2, <2>3, <2>4
<1>6. /\ Copied(oam2', i) /\ oam2'[k] = val /\ DOMAIN oam2' = Oam2Bytes
      /\ \A x \in Oam2Bytes : x # k => oam2'[x] = oam2[x]
  <2>1. /\ Copied([oam2 EXCEPT ![k] = val], i) /\ [oam2 EXCEPT ![k] = val][k] = val
        /\ \A x \in Oam2Bytes : x # k => [oam2 EXCEPT ![k] = val][x] = oam2[x]
    <3>1. Copied(oam2, i) /\ i \in Nat
      BY <1>1, <1>2
    <3> HIDE DEF k, val
    <3> QED
      BY <1>3, <3>1, CopiedKept
  <2> HIDE DEF k, val
  <2> QED
    BY <1>4, <2>1
<1>7. in \in BOOLEAN /\ (next >= OamSize) \in BOOLEAN
  BY DEF InRange
<1>8. CASE e.byte = 0
  <2>1. in <=> i \in Reaching(i + 1, row)
    BY <1>1, <1>2, <1>8, BeforeNext
  <2>2. CASE ~in
    <3>1. next = 4 * (i + 1)
      BY <1>1, <1>2, <1>8, <2>2 DEF Next4, Aligned
    <3>2. Before(i + 1, row) = e.slot
      BY <1>1, <1>2, <2>1, <2>2, BeforeNext
    <3> HIDE DEF in, next
    <3>3. /\ eval' \in EvalRecs /\ eval'.slot = e.slot /\ eval'.byte = 0
          /\ (eval'.done <=> next >= OamSize) /\ eval'.zero = e.zero
      <4>1. ~(first /\ e.byte = 0 /\ in) /\ b2 = 0 /\ n2 = e.slot
        BY <1>8, <2>2
      <4> QED
        BY <1>0, <1>5, <4>1
    <3>4. Copied(oam2', i + 1)
      <4>1. Reaching(i + 1, row) = Reaching(i, row)
        BY <1>2, <2>1, <2>2 DEF Reaching
      <4> QED
        BY <1>6, <4>1 DEF Copied
    <3>5. eval'.zero <=> 0 \in Reaching(1, row)
      <4>1. CASE i = 0
        BY <1>1, <1>8, <2>1, <2>2, <3>3, <4>1
      <4>2. CASE i > 0
        BY <1>1, <3>3, <4>2
      <4> QED
        BY <1>2, <4>1, <4>2
    <3>6. d + 1 = i + 1 + 3 * eval'.slot
      BY <1>1, <1>2, <1>8, <3>3
    <3>7. eval'.slot <= PerLine
      BY <1>1, <1>2, <3>3
    <3>8. Searched(eval', oam2', (4 * (i + 1)) % OamSize, d + 1)
      BY <3>1, <3>2, <3>3, <3>4, <3>5, <3>6, <3>7, NextSprite
    <3> QED
      BY <1>4, <1>6, <3>1, <3>3, <3>8
  <2>3. CASE in
    <3>1. next = 4 * i + 1 /\ next < OamSize
      BY <1>1, <1>2, <1>8, <2>3 DEF Next4, OamSize
    <3>2. next % OamSize = 4 * i + 1
      <4>1. 4 * i + 1 \in 0 .. OamSize - 1
        BY <1>2 DEF OamSize
      <4> QED
        BY <3>1, <4>1, OamRemainder
    <3>3. val = oam[4 * i + 0] /\ k = 4 * e.slot + 0
      BY <1>1, <1>2, <1>8
    <3> HIDE DEF in, next
    <3>4. ~(next >= OamSize)
      BY <1>2, <3>1 DEF OamSize
    <3>5. /\ eval' \in EvalRecs /\ eval'.slot = e.slot /\ eval'.byte = 1 /\ ~eval'.done
          /\ (eval'.zero <=> e.zero \/ first)
      <4>1. b2 = 1 /\ n2 = e.slot /\ (z <=> e.zero \/ first)
        BY <1>8, <2>3
      <4> QED
        BY <1>5, <3>4, <4>1
    <3>6. eval'.zero <=> 0 \in Reaching(1, row)
      <4>1. CASE i = 0
        <5>1. d = 0
          BY <1>1, <1>2, <1>8, <4>1, BeforeNext
        <5> QED
          BY <2>1, <2>3, <3>5, <4>1, <5>1
      <4>2. CASE i > 0
        <5>1. d # 0
          BY <1>1, <1>2, <1>8, <4>2
        <5> QED
          BY <1>1, <3>5, <4>2, <5>1
      <4> QED
        BY <1>2, <4>1, <4>2
    <3>7. \A b \in 0 .. 3 : b < 1 => oam2'[4 * e.slot + b] = oam[4 * i + b]
      BY <1>6, <3>3
    <3>8. d + 1 = i + 3 * e.slot + 1
      BY <1>1, <1>2, <1>8
    <3>9. Halfway(eval', oam2', 4 * i + 1, d + 1, i)
      BY <1>1, <1>6, <2>1, <2>3, <3>5, <3>6, <3>7, <3>8 DEF Halfway
    <3> QED
      BY <1>4, <1>6, <3>2, <3>5, <3>9 DEF Searched
  <2> QED
    BY <1>7, <2>2, <2>3
<1>9. CASE e.byte \in {1, 2}
  <2>1. next = 4 * i + (e.byte + 1) /\ next < OamSize
    BY <1>1, <1>2, <1>9 DEF Next4, OamSize
  <2>2. next % OamSize = 4 * i + (e.byte + 1)
    <3>1. 4 * i + (e.byte + 1) \in 0 .. OamSize - 1
      BY <1>2, <1>9 DEF OamSize
    <3> QED
      BY <2>1, <3>1, OamRemainder
  <2>3. val = oam[4 * i + e.byte]
    BY <1>2
  <2> DEFINE q == e.byte + 1
  <2>4. /\ q \in {2, 3} /\ (e.byte + 1) % 4 = q /\ e.byte # 0 /\ e.byte # 3 /\ q > 0
        /\ e.byte = q - 1
    BY <1>9
  <2>5. ~(next >= OamSize)
    BY <1>2, <1>9, <2>1 DEF OamSize
  <2> HIDE DEF in, next, val
  <2>6. /\ eval' \in EvalRecs /\ eval'.slot = e.slot /\ eval'.byte = q /\ ~eval'.done
        /\ eval'.zero = e.zero
    <3>1. b2 = q /\ n2 = e.slot
      BY <2>4
    <3>2. z <=> e.zero
      BY <2>4
    <3> QED
      BY <1>0, <1>5, <2>5, <3>1, <3>2
  <2>7. ASSUME NEW b \in 0 .. 3, b < q PROVE oam2'[4 * e.slot + b] = oam[4 * i + b]
    <3>1. CASE b = e.byte
      BY <1>6, <2>3, <3>1
    <3>2. CASE b < e.byte
      <4>1. 4 * e.slot + b \in Oam2Bytes /\ 4 * e.slot + b # k
        <5>1. 4 * e.slot + b # 4 * e.slot + e.byte
          BY <1>2, <3>2
        <5> QED
          BY <1>2, <5>1, SlotByte
      <4>2. oam2[4 * e.slot + b] = oam[4 * i + b]
        BY <1>1, <3>2
      <4> QED
        BY <1>6, <4>1, <4>2
    <3> QED
      BY <1>2, <2>4, <2>7, <3>1, <3>2
  <2>8. d + 1 = i + 3 * e.slot + q
    BY <1>1, <1>2
  <2>9. i \in Reaching(i + 1, row) /\ (eval'.zero <=> 0 \in Reaching(1, row))
    BY <1>1, <1>2, <1>9, <2>6
  <2> HIDE DEF q
  <2>10. Halfway(eval', oam2', 4 * i + q, d + 1, i)
    BY <1>1, <1>6, <2>4, <2>6, <2>7, <2>8, <2>9 DEF Halfway
  <2> QED
    BY <1>4, <1>6, <2>2, <2>6, <2>10 DEF Searched, q
<1>10. CASE e.byte = 3
  <2>1. next = 4 * (i + 1)
    BY <1>1, <1>2, <1>10 DEF Next4, Aligned
  <2>2. i \in Reaching(i + 1, row) /\ (e.zero <=> 0 \in Reaching(1, row))
    BY <1>1, <1>2, <1>10
  <2>3. Before(i + 1, row) = e.slot + 1
    BY <1>1, <1>2, <2>2, BeforeNext
  <2>4. val = oam[4 * i + 3] /\ k = 4 * e.slot + 3
    BY <1>1, <1>2, <1>10
  <2>5. ASSUME NEW b \in 0 .. 3 PROVE oam2'[4 * e.slot + b] = oam[4 * i + b]
    <3>1. CASE b = 3
      BY <1>6, <2>4, <3>1
    <3>2. CASE b < 3
      <4>1. 4 * e.slot + b \in Oam2Bytes /\ 4 * e.slot + b # k
        <5>1. 4 * e.slot + b # 4 * e.slot + 3
          BY <1>2, <3>2
        <5> QED
          BY <1>2, <2>4, <5>1, SlotByte
      <4>2. oam2[4 * e.slot + b] = oam[4 * i + b]
        BY <1>1, <1>10, <3>2
      <4> QED
        BY <1>6, <4>1, <4>2
    <3> QED
      BY <3>1, <3>2
  <2>6. Copied(oam2', i + 1)
    <3>1. ASSUME NEW j \in Reaching(i + 1, row) PROVE j = i \/ j \in Reaching(i, row)
      BY <1>2, <3>1 DEF Reaching
    <3>2. \A j \in Reaching(i, row) : Before(j, row) < PerLine =>
            \A b \in 0 .. 3 : oam2'[4 * Before(j, row) + b] = oam[4 * j + b]
      BY <1>6 DEF Copied
    <3>3. \A b \in 0 .. 3 : oam2'[4 * Before(i, row) + b] = oam[4 * i + b]
      BY <1>2, <2>5
    <3> HIDE DEF k, val, in, next
    <3> QED
      BY <3>1, <3>2, <3>3 DEF Copied
  <2> HIDE DEF in, next, k, val
  <2>7. /\ eval' \in EvalRecs /\ eval'.slot = e.slot + 1 /\ eval'.byte = 0
        /\ (eval'.done <=> next >= OamSize) /\ eval'.zero = e.zero
    <3>1. b2 = 0 /\ n2 = e.slot + 1
      BY <1>10
    <3>2. z <=> e.zero
      BY <1>10
    <3> QED
      BY <1>0, <1>5, <3>1, <3>2
  <2>8. d + 1 = i + 1 + 3 * eval'.slot /\ eval'.slot <= PerLine
    BY <1>1, <1>2, <1>10, <2>7
  <2>9. Searched(eval', oam2', (4 * (i + 1)) % OamSize, d + 1)
    BY <2>1, <2>2, <2>3, <2>6, <2>7, <2>8, NextSprite
  <2> QED
    BY <1>4, <1>6, <2>1, <2>7, <2>9
<1> QED
  BY <1>2, <1>8, <1>9, <1>10

\* A step of the search that is over changes nothing of what it found.
LEMMA SearchStep ==
  ASSUME NEW e \in EvalRecs, NEW d \in Nat, e = Started(dots), dots = d + 1, DOMAIN oam2 = Oam2Bytes,
         Searched(e, oam2, oamaddr, d), Search
  PROVE  eval' \in EvalRecs /\ DOMAIN oam2' = Oam2Bytes /\ Searched(eval', oam2', oamaddr', dots)
<1> DEFINE val == oam[oamaddr]
           in == InRange(oam[oamaddr], row, tall)
<1>1. e.slot \in Nat /\ PerLine \in Nat /\ e.done \in BOOLEAN
  BY SpriteSizes DEF EvalRecs
<1>2. /\ e.done => eval' = e /\ oam2' = oam2
      /\ ~e.done /\ e.slot < PerLine => Collect(e, oamaddr, oam[oamaddr], in, dots = 1)
      /\ ~e.done /\ ~(e.slot < PerLine) => Overflow(e, oamaddr, in)
  BY DEF Search
<1>3. CASE Complete(e, oam2)
  <2>1. /\ e.done \/ e.slot = PerLine
        /\ e.slot = IF Before(Sprites, row) < PerLine THEN Before(Sprites, row) ELSE PerLine
        /\ Copied(oam2, Sprites)
        /\ e.zero <=> 0 \in Reaching(1, row)
    BY <1>3 DEF Complete
  <2>2. CASE e.done
    BY <1>2, <1>3, <2>2 DEF Searched
  <2>3. CASE ~e.done
    <3>1. e.slot = PerLine
      BY <2>1, <2>3
    <3>2. Overflow(e, oamaddr, in)
      BY <1>1, <1>2, <2>3, <3>1
    <3> DEFINE c == IF e.copy > 0 THEN e.copy - 1 ELSE IF in THEN 3 ELSE 0
               f == e.copy = 1 \/ (IF in \/ e.copy > 0 THEN oamaddr + 1 ELSE oamaddr + 5) >= OamSize
    <3>3. eval' = [e EXCEPT !.copy = c, !.done = f] /\ oam2' = oam2
      BY <3>2 DEF Overflow
    <3>4. c \in Nat /\ f \in BOOLEAN
      BY DEF EvalRecs
    <3> HIDE DEF c, f
    <3>5. eval' \in EvalRecs /\ eval'.slot = e.slot /\ eval'.zero = e.zero
      BY <3>3, <3>4 DEF EvalRecs
    <3>6. Complete(eval', oam2')
      BY <2>1, <3>1, <3>3, <3>5 DEF Complete
    <3> QED
      BY <3>3, <3>5, <3>6 DEF Searched
  <2> QED
    BY <2>2, <2>3
<1>4. CASE \E i \in 0 .. Sprites - 1 : Halfway(e, oam2, oamaddr, d, i)
  <2>1. PICK i \in 0 .. Sprites - 1 : Halfway(e, oam2, oamaddr, d, i)
    BY <1>4
  <2>2. ~e.done /\ e.slot < PerLine
    BY <2>1 DEF Halfway
  <2>3. Collect(e, oamaddr, oam[oamaddr], in, dots = 1) /\ (dots = 1) \in BOOLEAN
    BY <1>2, <2>2
  <2>4. (dots = 1) <=> d = 0
    OBVIOUS
  <2>5. \A first \in BOOLEAN : (first <=> d = 0) /\ Collect(e, oamaddr, oam[oamaddr], in, first) =>
          eval' \in EvalRecs /\ DOMAIN oam2' = Oam2Bytes /\ Searched(eval', oam2', oamaddr', d + 1)
    BY <2>1, CollectStep
  <2> HIDE DEF in
  <2> QED
    BY <2>3, <2>4, <2>5
<1> QED
  BY <1>3, <1>4 DEF Searched

\* There are steps enough, and what was found is loaded.
LEMMA LoadStepPicks ==
  ASSUME row \in Nat, Visible, eval \in EvalRecs, Searched(eval, oam2, oamaddr, SearchSteps), Load
  PROVE  /\ DOMAIN drawn' = 1 .. (IF Before(Sprites, row) < PerLine THEN Before(Sprites, row) ELSE PerLine)
         /\ \A i \in Reaching(Sprites, row) : Before(i, row) < PerLine =>
              drawn'[Before(i, row) + 1] = [bytes |-> Sprite(i), zero |-> i = 0]
<1>1. /\ Sprites \in Nat /\ Sprites > 0 /\ PerLine \in Nat /\ PerLine > 0
      /\ SearchSteps \in Nat /\ SearchSteps >= Sprites + 3 * PerLine
  BY SpriteSizes
<1>2. Complete(eval, oam2)
  <2> SUFFICES ASSUME NEW i \in 0 .. Sprites - 1, Halfway(eval, oam2, oamaddr, SearchSteps, i) PROVE FALSE
    BY DEF Searched
  <2>1. eval.slot < PerLine /\ SearchSteps = i + 3 * eval.slot + eval.byte
    BY DEF Halfway
  <2>2. eval.slot \in Nat /\ eval.byte \in 0 .. 3
    BY DEF EvalRecs
  <2> QED
    BY <1>1, <2>1, <2>2
<1> DEFINE N == IF Before(Sprites, row) < PerLine THEN Before(Sprites, row) ELSE PerLine
<1>3. /\ eval.slot = N /\ Copied(oam2, Sprites)
      /\ eval.zero <=> 0 \in Reaching(1, row)
  BY <1>2 DEF Complete
<1>4. drawn' = [i \in 1 .. eval.slot |-> [bytes |-> Slot2(i - 1), zero |-> i = 1 /\ eval.zero]]
  BY DEF Load
<1>5. ASSUME NEW i \in Reaching(Sprites, row), Before(i, row) < PerLine
      PROVE  drawn'[Before(i, row) + 1] = [bytes |-> Sprite(i), zero |-> i = 0]
  <2> DEFINE n == Before(i, row)
  <2>1. i \in Nat /\ i < Sprites
    BY <1>1 DEF Reaching
  <2>2. n \in Nat /\ n < Before(Sprites, row) /\ Before(Sprites, row) \in Nat
    BY <1>1, <2>1, BeforeNext, BeforeGrows
  <2>3. n + 1 \in 1 .. eval.slot /\ (n + 1) - 1 = n
    BY <1>1, <1>3, <1>5, <2>2
  <2>4. \A b \in 0 .. 3 : oam2[4 * n + b] = oam[4 * i + b]
    BY <1>3, <1>5 DEF Copied
  <2>5. 4 * n + 0 = 4 * n /\ 4 * i + 0 = 4 * i
    BY <2>1, <2>2
  <2>6. (n + 1 = 1 /\ eval.zero) <=> i = 0
    <3>1. CASE i = 0
      <4>1. n = 0
        BY <3>1, BeforeNext
      <4>2. 0 \in Reaching(1, row)
        BY <1>1, <3>1, BeforeGrows
      <4> QED
        BY <1>3, <3>1, <4>1, <4>2
    <3>2. CASE i > 0
      <4> SUFFICES ASSUME n = 0, 0 \in Reaching(1, row) PROVE FALSE
        BY <1>3, <2>2, <3>2
      <4>1. Before(1, row) = 1
        <5>1. Before(0 + 1, row) = Before(0, row) + 1 /\ Before(0, row) = 0
          BY BeforeNext
        <5> QED
          BY <5>1
      <4>2. Before(1, row) <= Before(i, row)
        BY <2>1, <3>2, BeforeGrows
      <4> QED
        BY <4>1, <4>2
    <3> QED
      BY <2>1, <3>1, <3>2
  <2> HIDE DEF n
  <2>7. drawn'[n + 1] = [bytes |-> Slot2(n), zero |-> n + 1 = 1 /\ eval.zero]
    BY <1>4, <2>3
  <2>8. Slot2(n) = Sprite(i)
    <3>1. oam2[4 * n] = oam[4 * i]
      BY <2>4, <2>5
    <3>2. oam2[4 * n + 1] = oam[4 * i + 1] /\ oam2[4 * n + 2] = oam[4 * i + 2] /\ oam2[4 * n + 3] = oam[4 * i + 3]
      BY <2>4
    <3> QED
      BY <3>1, <3>2 DEF Slot2, Sprite
  <2>9. (n + 1 = 1 /\ eval.zero) = (i = 0)
    BY <2>6
  <2> QED
    BY <2>7, <2>8, <2>9 DEF n
<1>6. DOMAIN drawn' = 1 .. N
  BY <1>3, <1>4
<1> QED
  BY <1>5, <1>6

SpriteInv ==
  /\ row \in 0 .. LastRow /\ dots \in 0 .. LoadStep /\ calm \in 0 .. 2
  /\ dots > 0 => Visible \/ row = LastRow
  /\ calm > 0 =>
       /\ shows
       /\ dots < 2 => oamaddr = 0
       /\ Visible /\ dots > 0 => DOMAIN oam2 = Oam2Bytes
       /\ Visible /\ dots > 1 => eval \in EvalRecs /\ Searched(eval, oam2, oamaddr, dots - 1)
  /\ SpritesPicked

LEMMA SpritesStart == SpriteInit => SpriteInv
<1> SUFFICES ASSUME SpriteInit PROVE SpriteInv
  OBVIOUS
<1>1. row = LastRow /\ dots = 0 /\ calm = 0
  BY DEF SpriteInit
<1>2. LastRow \in Nat /\ LoadStep \in Nat
  BY SpriteSizes DEF LastRow, LoadStep
<1> QED
  BY <1>1, <1>2 DEF SpriteInv, SpritesPicked

\* The program's accesses.
LEMMA SpritesInterfere ==
  ASSUME SpriteInv, SpriteProgram
  PROVE  SpriteInv'
<1>1. row \in 0 .. LastRow /\ dots \in 0 .. LoadStep /\ (dots > 0 => Visible \/ row = LastRow)
  BY DEF SpriteInv
<1>2. calm' = 0 /\ ((row' = row /\ dots' = dots) \/ (row' = LastRow /\ dots' = 0))
  BY DEF SpriteProgram, SetHeight, SetShows, SetOamAddr, WriteOam, ResetSprites, Interferes
<1>3. LastRow \in Nat /\ LoadStep \in Nat
  BY SpriteSizes DEF LastRow, LoadStep
<1>4. (row \in 0 .. LastRow /\ dots \in 0 .. LoadStep /\ (dots > 0 => Visible \/ row = LastRow))'
  BY <1>1, <1>2, <1>3 DEF Visible, LastRow, LoadStep
<1> QED
  BY <1>2, <1>4 DEF SpriteInv, SpritesPicked

\* The line and the memory stand still during a search.
LEMMA SearchedThen ==
  ASSUME row' = row, oam' = oam, tall' = tall, NEW d, dots' - 1 = d,
         Searched(eval', oam2', oamaddr', d)
  PROVE  Searched(eval, oam2, oamaddr, dots - 1)'
<1>1. \A n, i \in Int : (n \in Reaching(i, row)' <=> n \in Reaching(i, row)) /\ Before(i, row)' = Before(i, row)
  BY DEF Reaching, Before, InRange
<1> QED
  BY <1>1 DEF Searched, Halfway, Complete, Copied, Before, Reaching, InRange

\* Dot 0, and the pairs of dots of a search.
LEMMA SpritesSearch ==
  ASSUME SpriteInv, SpriteTick, dots < LoadStep
  PROVE  SpriteInv'
<1>1. /\ row \in 0 .. LastRow /\ dots \in 0 .. LoadStep /\ calm \in 0 .. 2
      /\ dots > 0 => Visible \/ row = LastRow
      /\ calm > 0 =>
           /\ shows
           /\ dots < 2 => oamaddr = 0
           /\ Visible /\ dots > 0 => DOMAIN oam2 = Oam2Bytes
           /\ Visible /\ dots > 1 => eval \in EvalRecs /\ Searched(eval, oam2, oamaddr, dots - 1)
  BY DEF SpriteInv
<1>2. /\ LastRow \in Nat /\ LastRow = ShownLines + 1 /\ LoadStep \in Nat /\ LoadStep = SearchSteps + 1
      /\ ShownLines \in Nat /\ SearchSteps \in Nat /\ SearchSteps > 0
  BY SpriteSizes DEF LastRow, LoadStep
<1>3. /\ dots' = IF dots = EndStep THEN 0 ELSE dots + 1
      /\ row' = IF dots < EndStep THEN row ELSE IF row = LastRow THEN 0 ELSE row + 1
      /\ shows' = shows /\ tall' = tall /\ oam' = oam
  BY DEF SpriteTick
<1>4. calm' = calm
  BY <1>1, <1>2 DEF SpriteTick
<1>5. CASE EndStep = 0
  <2>1. row = ShownLines /\ dots = 0
    BY <1>1, <1>2, <1>5 DEF EndStep, Visible
  <2>2. row' = LastRow /\ dots' = 0
    BY <1>2, <1>3, <1>5, <2>1
  <2>3. oamaddr' = oamaddr
    BY <1>2, <2>1 DEF SpriteTick
  <2>4. (row \in 0 .. LastRow /\ dots \in 0 .. LoadStep /\ calm \in 0 .. 2)'
    BY <1>1, <1>2, <1>4, <2>2 DEF LastRow, LoadStep
  <2>5. SpritesPicked'
    BY <1>2, <2>2 DEF SpritesPicked, LastRow
  <2> QED
    BY <1>1, <1>3, <1>4, <2>1, <2>2, <2>3, <2>4, <2>5 DEF SpriteInv
<1>6. CASE EndStep # 0
  <2>1. EndStep = LoadStep /\ (Visible \/ row = LastRow)
    BY <1>6 DEF EndStep
  <2>2. row' = row /\ dots' = dots + 1 /\ Visible' = Visible
    BY <1>1, <1>2, <1>3, <2>1 DEF Visible
  <2>3. (row \in 0 .. LastRow /\ dots \in 0 .. LoadStep /\ calm \in 0 .. 2)'
    BY <1>1, <1>2, <1>4, <2>2 DEF LastRow, LoadStep
  <2>4. (dots > 0 => Visible \/ row = LastRow)'
    BY <2>1, <2>2 DEF LastRow
  <2>5. SpritesPicked'
    BY <1>1, <2>2 DEF SpritesPicked
  <2>6. ASSUME calm > 0
        PROVE  /\ dots' < 2 => oamaddr' = 0
               /\ Visible => DOMAIN oam2' = Oam2Bytes
               /\ Visible /\ dots > 0 => eval' \in EvalRecs /\ Searched(eval', oam2', oamaddr', dots)
    <3>1. CASE dots = 0
      <4>1. oam2' = (IF shows /\ Visible THEN ClearedOam2 ELSE oam2) /\ oamaddr' = oamaddr
        BY <1>2, <3>1 DEF SpriteTick
      <4>2. Visible => DOMAIN oam2' = Oam2Bytes
        BY <1>1, <2>6, <4>1 DEF ClearedOam2, Oam2Bytes
      <4> QED
        BY <1>1, <2>6, <3>1, <4>1, <4>2
    <3>2. CASE dots > 0 /\ Visible
      <4>1. Search
        BY <1>1, <1>2, <2>6, <3>2 DEF SpriteTick
      <4>2. DOMAIN oam2 = Oam2Bytes
        BY <1>1, <2>6, <3>2
      <4>3. dots - 1 \in Nat /\ dots = (dots - 1) + 1
        BY <1>1, <3>2
      <4>4. Started(dots) \in EvalRecs /\ Searched(Started(dots), oam2, oamaddr, dots - 1)
        <5>1. CASE dots = 1
          <6>1. Started(dots) = NoEval /\ oamaddr = 0 /\ dots - 1 = 0
            BY <1>1, <2>6, <5>1 DEF Started
          <6>2. /\ NoEval \in EvalRecs /\ NoEval.slot = 0 /\ NoEval.byte = 0 /\ NoEval.done = FALSE
                /\ NoEval.zero = FALSE
            BY DEF NoEval, EvalRecs
          <6>3. 0 \in 0 .. Sprites - 1 /\ 0 < PerLine
            BY SpriteSizes
          <6>4. Copied(oam2, 0) /\ Before(0, row) = 0
            <7>1. Reaching(0, row) = {}
              BY DEF Reaching
            <7> QED
              BY <7>1, BeforeNext DEF Copied
          <6>5. Halfway(NoEval, oam2, 0, 0, 0)
            BY <6>2, <6>3, <6>4 DEF Halfway
          <6> QED
            BY <6>1, <6>2, <6>3, <6>5 DEF Searched
        <5>2. CASE dots > 1
          BY <1>1, <2>6, <3>2, <5>2 DEF Started
        <5> QED
          BY <1>1, <3>2, <5>1, <5>2
      <4> DEFINE e == Started(dots)
                 d == dots - 1
      <4>5. e \in EvalRecs /\ Searched(e, oam2, oamaddr, d) /\ d \in Nat /\ dots = d + 1 /\ e = Started(dots)
        BY <4>3, <4>4
      <4> HIDE DEF e, d
      <4>6. eval' \in EvalRecs /\ DOMAIN oam2' = Oam2Bytes /\ Searched(eval', oam2', oamaddr', dots)
        BY <4>1, <4>2, <4>5, SearchStep
      <4>7. ~(dots' < 2)
        BY <1>1, <2>2, <3>2
      <4> QED
        BY <4>6, <4>7
    <3>3. CASE dots > 0 /\ ~Visible
      <4>1. ~(dots' < 2)
        BY <1>1, <2>2, <3>3
      <4> QED
        BY <3>3, <4>1
    <3> QED
      BY <1>1, <3>1, <3>2, <3>3
  <2>7. dots' - 1 = dots
    BY <1>1, <2>2
  <2>8. calm' > 0 => shows'
    BY <1>1, <1>3, <1>4
  <2>9. ASSUME calm' > 0, Visible', dots' > 1
        PROVE  (eval \in EvalRecs /\ Searched(eval, oam2, oamaddr, dots - 1))'
    <3>1. dots > 0
      BY <1>1, <2>2, <2>9
    <3>2. eval' \in EvalRecs /\ Searched(eval', oam2', oamaddr', dots)
      BY <1>4, <2>2, <2>6, <2>9, <3>1
    <3>3. Searched(eval, oam2, oamaddr, dots - 1)'
      BY <1>3, <2>2, <2>7, <3>2, SearchedThen
    <3> QED
      BY <3>2, <3>3 DEF EvalRecs
  <2>10. (DOMAIN oam2 = Oam2Bytes)' <=> DOMAIN oam2' = Oam2Bytes
    BY DEF Oam2Bytes
  <2> QED
    BY <1>4, <2>2, <2>3, <2>4, <2>5, <2>6, <2>8, <2>9, <2>10 DEF SpriteInv
<1> QED
  BY <1>5, <1>6

\* The sprites found are loaded.
LEMMA SpritesLoad ==
  ASSUME SpriteInv, SpriteTick, dots = LoadStep
  PROVE  SpriteInv'
<1>1. /\ row \in 0 .. LastRow /\ dots \in 0 .. LoadStep /\ calm \in 0 .. 2
      /\ dots > 0 => Visible \/ row = LastRow
      /\ calm > 0 =>
           /\ shows
           /\ Visible /\ dots > 1 => eval \in EvalRecs /\ Searched(eval, oam2, oamaddr, dots - 1)
  BY DEF SpriteInv
<1>2. /\ LastRow \in Nat /\ LastRow = ShownLines + 1 /\ LoadStep \in Nat /\ LoadStep = SearchSteps + 1
      /\ ShownLines \in Nat /\ SearchSteps \in Nat /\ SearchSteps > 0
  BY SpriteSizes DEF LastRow, LoadStep
<1>3. EndStep = LoadStep /\ (Visible \/ row = LastRow)
  BY <1>1, <1>2 DEF EndStep
<1>4. /\ dots' = 0 /\ row' = (IF row = LastRow THEN 0 ELSE row + 1)
      /\ shows' = shows /\ tall' = tall /\ oam' = oam
  BY <1>2, <1>3 DEF SpriteTick
<1>5. IF shows THEN Load ELSE UNCHANGED <<oamaddr, oam2, eval, ovf, drawn, calm>>
  BY <1>2 DEF SpriteTick
<1>6. (row \in 0 .. LastRow /\ dots \in 0 .. LoadStep /\ calm \in 0 .. 2)'
  <2>1. calm' \in 0 .. 2
    BY <1>1, <1>5 DEF Load
  <2>2. row' \in 0 .. LastRow /\ dots' \in 0 .. LoadStep
    BY <1>1, <1>2, <1>3, <1>4 DEF Visible
  <2> QED
    BY <2>1, <2>2 DEF LastRow, LoadStep
<1>7. calm' > 0 => shows' /\ oamaddr' = 0
  BY <1>1, <1>4, <1>5 DEF Load
<1>8. SpritesPicked'
  <2> SUFFICES ASSUME calm' = 2, row' \in 1 .. ShownLines PROVE SpritesPicked'
    BY DEF SpritesPicked
  <2>1. shows /\ calm > 0 /\ Load
    BY <1>1, <1>5 DEF Load
  <2>2. Visible /\ row \in Nat /\ row' - 1 = row
    BY <1>1, <1>2, <1>3, <1>4 DEF Visible
  <2>3. eval \in EvalRecs /\ Searched(eval, oam2, oamaddr, SearchSteps)
    <3>1. dots > 1 /\ dots - 1 = SearchSteps
      BY <1>2
    <3> QED
      BY <1>1, <2>1, <2>2, <3>1
  <2>4. /\ DOMAIN drawn' = 1 .. (IF Before(Sprites, row) < PerLine THEN Before(Sprites, row) ELSE PerLine)
        /\ \A i \in Reaching(Sprites, row) : Before(i, row) < PerLine =>
             drawn'[Before(i, row) + 1] = [bytes |-> Sprite(i), zero |-> i = 0]
    BY <2>1, <2>2, <2>3, LoadStepPicks
  <2>5. \A n : Reaching(n, row - 1)' = Reaching(n, row)
    BY <1>4, <2>2 DEF Reaching, InRange
  <2>6. \A n : Before(n, row - 1)' = Before(n, row)
    BY <2>5 DEF Before
  <2>7. \A i : Sprite(i)' = Sprite(i)
    BY <1>4 DEF Sprite
  <2> QED
    BY <2>4, <2>5, <2>6, <2>7 DEF SpritesPicked
<1> QED
  BY <1>4, <1>6, <1>7, <1>8 DEF SpriteInv

\* The search finds the first sprites that reach the next line, in their order,
\* whatever the program did before, if it left the chip alone for a line: the
\* sixty-four sprites, the eight of a line and the steps of a search may be any
\* numbers that leave time to copy those found.
THEOREM SpritesFound == SpriteSpec => []SpritesPicked
<1>1. SpriteInv /\ [SpriteNext]_spriteVars => SpriteInv'
  <2> SUFFICES ASSUME SpriteInv, [SpriteNext]_spriteVars PROVE SpriteInv'
    OBVIOUS
  <2>1. CASE SpriteTick
    <3>1. dots = LoadStep \/ dots < LoadStep
      <4>1. dots \in 0 .. LoadStep /\ LoadStep \in Nat
        BY SpriteSizes DEF SpriteInv, LoadStep
      <4> QED
        BY <4>1
    <3> QED
      BY <2>1, <3>1, SpritesSearch, SpritesLoad
  <2>2. CASE SpriteProgram
    BY <2>2, SpritesInterfere
  <2>3. CASE UNCHANGED spriteVars
    <3>1. /\ row' = row /\ dots' = dots /\ shows' = shows /\ tall' = tall /\ oam' = oam
          /\ oamaddr' = oamaddr /\ oam2' = oam2 /\ eval' = eval /\ drawn' = drawn /\ calm' = calm
      BY <2>3 DEF spriteVars
    <3>2. Searched(eval, oam2, oamaddr, dots - 1) => Searched(eval, oam2, oamaddr, dots - 1)'
      BY <3>1, SearchedThen
    <3>3. SpritesPicked'
      <4>1. SpritesPicked
        BY DEF SpriteInv
      <4> QED
        BY <3>1, <4>1 DEF SpritesPicked, Before, Reaching, InRange, Sprite
    <3> QED
      BY <3>1, <3>2, <3>3 DEF SpriteInv, Visible, LastRow, LoadStep, EvalRecs, Oam2Bytes
  <2> QED
    BY <2>1, <2>2, <2>3 DEF SpriteNext
<1>2. SpriteInv => SpritesPicked
  BY DEF SpriteInv
<1> QED
  BY <1>1, <1>2, SpritesStart, PTL DEF SpriteSpec
=============================================================================
