----------------------------- MODULE VncUpdates -----------------------------
(***************************************************************************)
(* How one VNC client gets the emulator's picture (core/src/vnc.c): the    *)
(* emulator thread publishes frames, the client's reader thread takes its  *)
(* messages and its writer thread answers update requests with the tiles   *)
(* that changed since the last answer.                                     *)
(*                                                                         *)
(* Every section that holds s->lock is one action.  The writer sends       *)
(* without the lock, so frames and messages arrive between Take and Send.  *)
(* A picture is a colour for each tile, at any size: a client of another   *)
(* size gets the same picture scaled.                                      *)
(***************************************************************************)
EXTENDS Naturals

CONSTANTS
    Tiles,       \* the VNC_TILE squares of a frame
    Colours,     \* what a tile can show
    Sizes,       \* frame sizes
    NoSize,      \* s->w = 0: nothing published
    NoPicture,   \* no frame, c->last = NULL
    MaxFrames    \* bound on the frames published

ASSUME SizesAssumption == NoSize \notin Sizes
ASSUME PictureAssumption == NoPicture \notin [Tiles -> Colours]
ASSUME MaxFramesAssumption == MaxFrames \in Nat

VARIABLES
    w, fb, frame_seq,    \* the published frame: size, picture, number
    connected,           \* c->connected
    req, req_full,       \* an update is requested; all of it
    sent_seq,            \* the frame the client has or is being sent
    cw,                  \* the size the client believes the screen has
    desktop_size,        \* the client follows size changes
    last, last_size,     \* c->last: the picture last sent, and its size
    sender,              \* the writer thread: "run", "asleep", "sending", "exit"
    out,                 \* what the writer is sending
    shown,               \* history: the tiles the client shows
    unwoken              \* history: a full update was asked for silently

frame  == <<w, fb, frame_seq>>
asked  == <<req, req_full>>
client == <<shown, last, last_size>>
updVars == <<w, fb, frame_seq, connected, req, req_full, sent_seq, cw, desktop_size,
          last, last_size, sender, out, shown, unwoken>>

Pictures == [Tiles -> Colours]

\* What the writer copies before it unlocks.
Updates == [picture : Pictures, full : BOOLEAN, resize : BOOLEAN]

UpdTypeOK ==
    /\ w \in Sizes \cup {NoSize} /\ fb \in Pictures \cup {NoPicture}
    /\ frame_seq \in Nat /\ sent_seq \in 0..frame_seq
    /\ connected \in BOOLEAN /\ req \in BOOLEAN /\ req_full \in BOOLEAN
    /\ cw \in Sizes /\ desktop_size \in BOOLEAN
    /\ last \in Pictures \cup {NoPicture}
    /\ last_size \in Sizes \cup {NoSize}
    /\ sender \in {"run", "asleep", "sending", "exit"}
    /\ out \in Updates \cup {NoPicture}
    /\ shown \in Pictures \cup {NoPicture}
    /\ unwoken \in BOOLEAN

\* The handshake has told the client the size of the frame, or of an empty
\* screen, and started the writer.
UpdInit ==
    /\ cw \in Sizes
    /\ \/ w = NoSize /\ fb = NoPicture /\ frame_seq = 0
       \/ w = cw /\ fb \in Pictures /\ frame_seq = 1
    /\ connected = TRUE /\ req = FALSE /\ req_full = FALSE
    /\ sent_seq = 0 /\ desktop_size = FALSE
    /\ last = NoPicture /\ last_size = NoSize
    /\ sender = "run" /\ out = NoPicture
    /\ shown = NoPicture /\ unwoken = FALSE

-----------------------------------------------------------------------------
\* pthread_cond_broadcast on s->cond
Broadcast ==
    /\ sender' = IF sender = "asleep" THEN "run" ELSE sender
    /\ unwoken' = FALSE

\* gemu_vnc_update_argb: a frame that changed is published.
Publish(size, picture) ==
    /\ frame_seq < MaxFrames
    /\ size # w \/ picture # fb
    /\ w' = size /\ fb' = picture /\ frame_seq' = frame_seq + 1
    /\ Broadcast
    /\ UNCHANGED <<connected, asked, sent_seq, cw, desktop_size, client, out>>

\* SetPixelFormat: old pixels are stale.  Nobody is woken.
SetPixelFormat ==
    /\ connected
    /\ req_full' = TRUE
    /\ unwoken' = (unwoken \/ sender = "asleep")
    /\ UNCHANGED <<frame, connected, req, sent_seq, cw, desktop_size, client,
                   sender, out>>

\* SetEncodings
SetEncodings(desk) ==
    /\ connected
    /\ desktop_size' = desk
    /\ Broadcast
    /\ UNCHANGED <<frame, connected, asked, sent_seq, cw, client, out>>

\* FramebufferUpdateRequest.  (A faulty variant precedes each definition that
\* the properties are tested on.)
RequestUnsignalled(incremental) ==
    /\ connected
    /\ req' = TRUE /\ req_full' = (req_full \/ ~incremental)
    /\ UNCHANGED <<frame, connected, sent_seq, cw, desktop_size, client, sender,
                   out, unwoken>>
Request(incremental) ==
    /\ connected
    /\ req' = TRUE /\ req_full' = (req_full \/ ~incremental)
    /\ Broadcast
    /\ UNCHANGED <<frame, connected, sent_seq, cw, desktop_size, client, out>>

\* An exclusive client disconnects this one: client_kill, which wakes the
\* reader and not the writer.
Disconnect ==
    /\ connected
    /\ connected' = FALSE
    /\ UNCHANGED <<frame, asked, sent_seq, cw, desktop_size, client, sender,
                   out, unwoken>>

\* The reader is done, or the server shuts down.
Kill ==
    /\ connected \/ sender = "asleep"
    /\ connected' = FALSE
    /\ Broadcast
    /\ UNCHANGED <<frame, asked, sent_seq, cw, desktop_size, client, out>>

-----------------------------------------------------------------------------
\* writer_main

SizeChanged == w # NoSize /\ w # cw /\ desktop_size

ReadyWhenAsked ==
    /\ req /\ fb # NoPicture
    /\ req_full \/ SizeChanged
Ready == /\ req /\ fb # NoPicture
         /\ req_full \/ SizeChanged \/ frame_seq # sent_seq

\* Nothing to send: pthread_cond_wait.
Sleep ==
    /\ sender = "run" /\ connected /\ ~Ready
    /\ sender' = "asleep"
    /\ UNCHANGED <<frame, connected, asked, sent_seq, cw, desktop_size, client,
                   out, unwoken>>

\* The frame that the client is counted as having.
SentSeq == frame_seq

\* The frame is copied and the request answered; then the lock is given up.
Take ==
    /\ sender = "run" /\ connected /\ Ready
    /\ out' = [picture |-> fb, full |-> req_full, resize |-> SizeChanged]
    /\ cw' = IF SizeChanged THEN w ELSE cw
    /\ req' = FALSE /\ req_full' = FALSE
    /\ sent_seq' = SentSeq
    /\ sender' = "sending"
    /\ UNCHANGED <<frame, connected, desktop_size, client, unwoken>>

\* send_update sends every tile when there is no picture to compare with.
SendAllForgetsResize == last = NoPicture \/ out.full
SendAll == last = NoPicture \/ out.full \/ out.resize

\* send_update: the tiles that differ from the last picture sent.
Dirty == {t \in Tiles : SendAll \/ out.picture[t] # last[t]}

Shown(dirty) ==
    [t \in Tiles |-> IF t \in dirty \/ shown = NoPicture THEN out.picture[t]
                     ELSE shown[t]]

\* The client is counted as having the frame that is newest after the send.
SendThenMark ==
    /\ sender = "sending"
    /\ shown' = Shown(Dirty)
    /\ last' = out.picture
    /\ last_size' = IF SendAll THEN cw ELSE last_size
    /\ sent_seq' = frame_seq
    /\ sender' = "run" /\ out' = NoPicture
    /\ UNCHANGED <<frame, connected, asked, cw, desktop_size, unwoken>>

Send ==
    /\ sender = "sending"
    /\ shown' = Shown(Dirty)
    /\ last' = out.picture
    /\ last_size' = IF SendAll THEN cw ELSE last_size
    /\ sender' = "run" /\ out' = NoPicture
    /\ UNCHANGED <<frame, connected, asked, sent_seq, cw, desktop_size, unwoken>>

\* The connection breaks, or there is no memory: client_kill.
SendFails ==
    /\ sender = "sending"
    /\ connected' = FALSE
    /\ sender' = "run" /\ out' = NoPicture
    /\ UNCHANGED <<frame, asked, sent_seq, cw, desktop_size, client, unwoken>>

\* No memory for the copy: the writer ends, the client stays connected.
OutOfMemory ==
    /\ sender = "run" /\ connected /\ Ready
    /\ sender' = "exit"
    /\ UNCHANGED <<frame, connected, asked, sent_seq, cw, desktop_size, client,
                   out, unwoken>>

Exit ==
    /\ sender = "run" /\ ~connected
    /\ sender' = "exit"
    /\ UNCHANGED <<frame, connected, asked, sent_seq, cw, desktop_size, client,
                   out, unwoken>>

Gone == sender = "exit" /\ UNCHANGED updVars

\* What the writer does by itself; a send ends when the client has read, or
\* the connection is shut down.
WriterRuns == Sleep \/ Take \/ OutOfMemory \/ Exit

Writer == WriterRuns \/ Send \/ SendFails

UpdNext ==
    \/ \E size \in Sizes, picture \in Pictures : Publish(size, picture)
    \/ SetPixelFormat \/ Disconnect \/ Kill
    \/ \E desk \in BOOLEAN : SetEncodings(desk)
    \/ \E incremental \in BOOLEAN : Request(incremental)
    \/ Writer
    \/ Gone

UpdSpec == UpdInit /\ [][UpdNext]_updVars

\* A thread that can go on is scheduled.  Nothing is assumed of a send: sendall
\* has no time limit, and a client that stays connected need not read.
UpdFairSpec == UpdSpec /\ WF_updVars(WriterRuns)

-----------------------------------------------------------------------------
(***************************************************************************)
(* Properties.                                                             *)
(***************************************************************************)

\* A client that has been sent the newest frame shows it, although only the
\* changed tiles were sent and frames were published meanwhile.
ShowsCurrentFrame ==
    connected /\ fb # NoPicture /\ sent_seq = frame_seq /\ sender # "sending" =>
        shown = fb

\* The picture that changed tiles are compared with has the size of the new
\* one: after a size change it was allocated again.
LastFits ==
    sender = "sending" /\ ~SendAll => last_size = cw

\* The writer never sleeps on an update it could send, except for a full update
\* that SetPixelFormat asks for without waking it.
NoLostWakeup == sender = "asleep" /\ ~unwoken => ~Ready

\* A request is taken up when there is a new frame, whenever it arrives: all
\* that keeps it waiting is an answer before it that the client has not read
\* yet.  Otherwise the client has gone or the writer ran out of memory.
RequestServed ==
    (connected /\ req /\ fb # NoPicture /\ frame_seq # sent_seq)
        ~> (~req \/ sender = "sending" \/ ~connected \/ sender = "exit")
=============================================================================
