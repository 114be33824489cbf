---------------------------- MODULE MonitorQueue ----------------------------
(***************************************************************************)
(* The monitor's command queue (core/src/monitor.c) with the threads that  *)
(* share it.                                                               *)
(*                                                                         *)
(*   - The reader thread owns one transport (stdio, telnet, GMP over a     *)
(*     socket, GMP over stdio).  It turns input into requests, queues them *)
(*     and waits on done_cond until the emulator thread has run them or    *)
(*     the wait times out.                                                 *)
(*   - The emulator thread runs frames, queues entries for menus and       *)
(*     guest shutdowns, drains the queue in gemu_monitor_poll, acts on the *)
(*     control command the poll returns and finally stops the monitor.     *)
(*   - Signals set quit_signal at any moment.                              *)
(*                                                                         *)
(* Every section that holds mon->lock is one action; everything the code   *)
(* does between two such sections is a place where another thread can run. *)
(* A command line is abstracted to the control command its handler returns *)
(* and its output to the sequence number of the entry that printed it.     *)
(*                                                                         *)
(* Some definitions are preceded by a faulty variant that a programming    *)
(* slip could have produced (FullNever before Full).  They are used only   *)
(* to test that the properties notice such a slip.                         *)
(***************************************************************************)
EXTENDS Integers, FiniteSets

CONSTANTS
    QueueSize,    \* MON_QUEUE_SIZE: slots of the ring (one is never used)
    MaxSeq,       \* bound on the entries ever queued
    Backends,     \* the transports to start from
    ReaderCmds,   \* the commands that clients send
    OwnCmds,      \* the commands that menus and the guest queue
    Slow,         \* TRUE: the time limits of the code can run out
    Posix,        \* the platforms: TRUE is POSIX, FALSE is Windows
    NoShutdown    \* the values of the -no-shutdown option

\* GemuMonCmd
Cmds == {"NONE", "RESET", "QUIT", "STOP", "CONT", "STEP"}

\* MonBackend
AllBackends == {"stdio", "telnet", "gmp", "gmp-stdio", "none"}

ASSUME QueueSizeAssumption == QueueSize \in Nat /\ QueueSize >= 2
ASSUME MaxSeqAssumption == MaxSeq \in Nat
ASSUME BackendsAssumption == Backends \subseteq AllBackends
ASSUME CmdsAssumption == ReaderCmds \subseteq Cmds /\ OwnCmds \subseteq Cmds
ASSUME SlowAssumption == Slow \in BOOLEAN
ASSUME ConfigAssumption == Posix \subseteq BOOLEAN /\ NoShutdown \subseteq BOOLEAN

VARIABLES
    backend, posix, no_shutdown,             \* fixed when the program starts
    queue, head, tail, next_seq, done_seq,   \* the ring and its counters
    running, paused, replying,               \* flags of GemuMonitor
    capturing, capture_buf,                  \* output capture; 0 is NULL
    listen_fd, client_fd,                    \* TRUE while the socket is open
    rpc, req,                                \* reader thread: where, for what
    epc, cur, ret, quitting,                 \* emulator thread
    quit_signal, quit_reported,              \* termination signals
    printed,      \* history: entries whose output was captured
    acted,        \* history: entries whose command has taken effect
    gave_up       \* history: gemu_monitor_stop stopped waiting for a reply

config   == <<backend, posix, no_shutdown>>
ring     == <<queue, head, tail, next_seq, done_seq>>
capture  == <<capturing, capture_buf>>
sockets  == <<listen_fd, client_fd>>
reader   == <<rpc, req>>
emulator == <<epc, cur, ret, quitting>>
signals  == <<quit_signal, quit_reported>>
history  == <<printed, acted, gave_up>>
vars == <<backend, posix, no_shutdown, queue, head, tail, next_seq, done_seq,
          running, paused, replying, capturing, capture_buf, listen_fd,
          client_fd, rpc, req, epc, cur, ret, quitting, quit_signal,
          quit_reported, printed, acted, gave_up>>

-----------------------------------------------------------------------------
\* MonEntry: what is run, the command it returns, and its number.
Entries == [kind : {"CMD", "TEXT", "FN"}, cmd : Cmds, capture : BOOLEAN,
            seq : Nat]

NoEntry == [kind |-> "CMD", cmd |-> "NONE", capture |-> FALSE, seq |-> 0]

\* What the reader is handling: a console line or a GMP request, the number
\* of its queue entry (0 before it is queued), MonRunResult and the output.
Requests == [kind : {"TEXT", "FN", "QUERY"}, cmd : Cmds, seq : Nat,
             res : {"-", "OK", "QUEUE_FULL", "TIMEOUT"}, out : Nat]

NewRequest(kind, cmd) ==
    [kind |-> kind, cmd |-> cmd, seq |-> 0, res |-> "-", out |-> 0]

Gmp    == backend \in {"gmp", "gmp-stdio"}
Socket == backend \in {"telnet", "gmp"}

ReaderPlaces == {"accept", "select", "loop", "read", "password", "feed",
                 "submit", "queued", "wait", "woken", "timedout", "reply",
                 "close", "exit", "off", "killed"}

EmulatorPlaces == {"frame", "poll", "drain", "dispatch", "finish", "handle",
                   "stop", "settle", "join", "stopped", "freed",
                   "leaked", "killed"}

FlagsOK ==
    /\ posix \in BOOLEAN /\ no_shutdown \in BOOLEAN
    /\ running \in BOOLEAN /\ paused \in BOOLEAN /\ replying \in BOOLEAN
    /\ capturing \in BOOLEAN
    /\ listen_fd \in BOOLEAN /\ client_fd \in BOOLEAN
    /\ quitting \in BOOLEAN
    /\ quit_signal \in BOOLEAN /\ quit_reported \in BOOLEAN
    /\ gave_up \in BOOLEAN

DataOK ==
    /\ backend \in AllBackends
    /\ queue \in [0..QueueSize - 1 -> Entries]
    /\ head \in 0..QueueSize - 1 /\ tail \in 0..QueueSize - 1
    /\ next_seq \in Nat /\ done_seq \in Nat
    /\ capture_buf \in Nat
    /\ rpc \in ReaderPlaces /\ req \in Requests
    /\ epc \in EmulatorPlaces /\ cur \in Entries
    /\ ret \in [cmd : Cmds, seq : Nat]
    /\ printed \in SUBSET Nat /\ acted \in SUBSET Nat

TypeOK == FlagsOK /\ DataOK

-----------------------------------------------------------------------------
\* The state after gemu_monitor_create and gemu_monitor_start.
Init ==
    /\ backend \in Backends /\ posix \in Posix /\ no_shutdown \in NoShutdown
    /\ queue = [i \in 0..QueueSize - 1 |-> NoEntry]
    /\ head = 0 /\ tail = 0 /\ next_seq = 0 /\ done_seq = 0
    /\ running = (backend # "none") /\ paused = FALSE /\ replying = FALSE
    /\ capturing = FALSE /\ capture_buf = 0
    /\ listen_fd = Socket /\ client_fd = FALSE
    /\ rpc = IF backend = "none" THEN "off"
             ELSE IF Socket THEN "accept" ELSE "loop"
    /\ req = NewRequest("TEXT", "NONE")
    /\ epc = "frame" /\ cur = NoEntry /\ quitting = FALSE
    /\ ret = [cmd |-> "NONE", seq |-> 0]
    /\ quit_signal = FALSE /\ quit_reported = FALSE
    /\ printed = {} /\ acted = {} /\ gave_up = FALSE

-----------------------------------------------------------------------------
\* The ring.

SuccNoWrap(i) == i + 1
Succ(i) == (i + 1) % QueueSize

FullNever == FALSE
Full  == Succ(tail) = head
Empty == head = tail

\* ++mon->next_seq
NextSeqFromDone == done_seq + 1
NextSeq == next_seq + 1

\* enqueue_entry when there is room; the caller has checked ~Full.
Put(kind, cmd, cap) ==
    /\ queue' = [queue EXCEPT ![tail] = [kind |-> kind, cmd |-> cmd,
                                         capture |-> cap, seq |-> NextSeq]]
    /\ next_seq' = NextSeq
    /\ tail' = Succ(tail)
    /\ UNCHANGED <<head, done_seq>>

\* pthread_cond_broadcast(&mon->done_cond)
WokenNone == rpc
Woken == IF rpc = "wait" THEN "woken" ELSE rpc

-----------------------------------------------------------------------------
(***************************************************************************)
(* The reader thread.                                                      *)
(***************************************************************************)

\* Where the inner loop of a transport goes when it ends.
AfterLoop == IF Socket THEN "close" ELSE "exit"

\* The outer loop of the socket transports: while (mon->running).
AcceptLoop ==
    /\ rpc = "accept"
    /\ rpc' = IF running THEN "select" ELSE "exit"
    /\ UNCHANGED <<config, ring, running, paused, replying, capture, sockets,
                   req, emulator, signals, history>>

\* mon_accept_client: a client within the second that select waits, or not.
Accept ==
    /\ rpc = "select"
    /\ \/ /\ listen_fd
          /\ client_fd' = TRUE
          /\ rpc' = "loop"
       \/ /\ rpc' = "accept"
          /\ UNCHANGED client_fd
    /\ UNCHANGED <<config, ring, running, paused, replying, capture,
                   listen_fd, req, emulator, signals, history>>

\* The head of the loop that reads from one client.
ReaderLoop ==
    /\ rpc = "loop"
    /\ rpc' = IF running THEN "read" ELSE AfterLoop
    /\ UNCHANGED <<config, ring, running, paused, replying, capture, sockets,
                   req, emulator, signals, history>>

\* mon->replying once a request is complete (frame_complete)
ReplyUnannounced == replying
ReplyAnnounced == replying \/ Gmp

\* A console line that is not empty, or a complete GMP request: the first of
\* a chunk (read) or a later one of the same chunk (feed).  frame_complete
\* announces that a reply is due.
ReceiveRequest(kind, cmd) ==
    /\ rpc \in {"read", "feed"}
    /\ rpc = "read" /\ Socket => client_fd
    /\ Gmp \/ kind = "TEXT"
    /\ kind = "QUERY" => cmd = "NONE"
    /\ kind = "FN" => cmd \in {"NONE", "RESET"}
    /\ kind # "QUERY" => next_seq < MaxSeq
    /\ req' = NewRequest(kind, cmd)
    /\ rpc' = "submit"
    /\ replying' = ReplyAnnounced
    /\ UNCHANGED <<config, ring, running, paused, capture, sockets, emulator,
                   signals, history>>

\* The input holds no (further) request: an empty line, or the rest of a chunk.
EndOfChunk ==
    /\ rpc \in {"read", "feed"}
    /\ rpc = "read" /\ Socket => client_fd
    /\ rpc' = "loop"
    /\ UNCHANGED <<config, ring, running, paused, replying, capture, sockets,
                   req, emulator, signals, history>>

\* "change vnc password": the reader reads the password itself.
ReadPassword ==
    /\ ~Gmp
    /\ \/ /\ rpc = "read"
          /\ Socket => client_fd
          /\ rpc' = "password"
       \/ /\ rpc = "password"
          /\ rpc' \in {"loop", AfterLoop}
    /\ UNCHANGED <<config, ring, running, paused, replying, capture, sockets,
                   req, emulator, signals, history>>

\* End of file, or the client has gone, or gemu_monitor_stop closed it.
EndOfInput ==
    /\ rpc = "read"
    /\ rpc' = AfterLoop
    /\ UNCHANGED <<config, ring, running, paused, replying, capture, sockets,
                   req, emulator, signals, history>>

\* mon_run_line and mon_run_fn up to the first unlock.  A text entry is queued
\* under one lock hold and waited for under another; a function is queued and
\* waited for under one.
Submit ==
    /\ rpc = "submit"
    /\ req.kind # "QUERY"
    /\ \/ /\ Full
          /\ req' = [req EXCEPT !.res = "QUEUE_FULL"]
          /\ rpc' = "reply"
          /\ UNCHANGED ring
       \/ /\ ~Full
          /\ Put(req.kind, req.cmd, Gmp /\ req.kind = "TEXT")
          /\ IF req.kind = "FN" /\ ~running
             THEN /\ req' = [req EXCEPT !.seq = NextSeq, !.res = "TIMEOUT"]
                  /\ rpc' = "reply"
             ELSE /\ req' = [req EXCEPT !.seq = NextSeq]
                  /\ rpc' = IF req.kind = "FN" THEN "wait" ELSE "queued"
    /\ UNCHANGED <<config, running, paused, replying, capture, sockets,
                   emulator, signals, history>>

\* GMP commands that the reader answers on its own (query-status, ...).
AnswerQuery ==
    /\ rpc = "submit"
    /\ req.kind = "QUERY"
    /\ req' = [req EXCEPT !.res = "OK"]
    /\ rpc' = "reply"
    /\ UNCHANGED <<config, ring, running, paused, replying, capture, sockets,
                   emulator, signals, history>>

\* The loop test and the result of wait_done_locked.
MustWait == done_seq < req.seq /\ running

IsDoneAlways == TRUE
IsDone == done_seq >= req.seq

\* The end of mon_run_line/mon_run_fn: a captured line takes its output.
Collect ==
    /\ rpc' = "reply"
    /\ IF IsDone
       THEN IF Gmp /\ req.kind = "TEXT"
            THEN /\ req' = [req EXCEPT !.res = "OK", !.out = capture_buf]
                 /\ capture_buf' = 0
            ELSE /\ req' = [req EXCEPT !.res = "OK"]
                 /\ UNCHANGED capture_buf
       ELSE /\ req' = [req EXCEPT !.res = "TIMEOUT"]
            /\ UNCHANGED capture_buf

\* wait_done_locked: the loop test, with the lock held.
WaitDone ==
    /\ rpc \in {"queued", "woken"}
    /\ IF MustWait
       THEN rpc' = "wait" /\ UNCHANGED <<req, capture_buf>>
       ELSE Collect
    /\ UNCHANGED <<config, ring, running, paused, replying, capturing,
                   sockets, emulator, signals, history>>

\* pthread_cond_timedwait gives up; the lock is taken again only later.
WaitTimeout ==
    /\ Slow
    /\ rpc = "wait"
    /\ rpc' = "timedout"
    /\ UNCHANGED <<config, ring, running, paused, replying, capture, sockets,
                   req, emulator, signals, history>>

AfterTimeout ==
    /\ rpc = "timedout"
    /\ Collect
    /\ UNCHANGED <<config, ring, running, paused, replying, capturing,
                   sockets, emulator, signals, history>>

\* The answer is written: a GMP reply ends frame_complete, a console line
\* goes back to the prompt unless it was a quit.
Reply ==
    /\ rpc = "reply"
    /\ replying' = FALSE
    /\ req' = NewRequest("TEXT", "NONE")
    /\ IF Gmp
       THEN rpc' = "feed" /\ UNCHANGED running
       ELSE IF req.cmd = "QUIT"
            THEN /\ rpc' = AfterLoop
                 /\ running' = (running /\ backend # "telnet")
            ELSE rpc' = "loop" /\ UNCHANGED running
    /\ UNCHANGED <<config, ring, paused, capture, sockets, emulator, signals,
                   printed, acted, gave_up>>

\* mon_close_client
CloseClient ==
    /\ rpc = "close"
    /\ client_fd' = FALSE
    /\ rpc' = "accept"
    /\ UNCHANGED <<config, ring, running, paused, replying, capture,
                   listen_fd, req, emulator, signals, history>>

\* The cancellation requested by gemu_monitor_stop takes effect at a
\* cancellation point; wait_done_locked runs with cancellation disabled.
Cancelled ==
    /\ posix /\ epc = "join"
    /\ rpc \in {"select", "read", "password", "reply", "close"}
    /\ rpc' = "exit"
    /\ UNCHANGED <<config, ring, running, paused, replying, capture, sockets,
                   req, emulator, signals, history>>

-----------------------------------------------------------------------------
(***************************************************************************)
(* The emulator thread.                                                    *)
(***************************************************************************)

\* gemu_monitor_enqueue_command/reset/quit from a window's menu or from
\* gemu_monitor_shutdown_or_pause: a full queue drops the entry.
EnqueueOwn(kind, cmd) ==
    /\ epc = "frame"
    /\ kind = "CMD" => cmd \in {"RESET", "QUIT"}
    /\ next_seq + 1 < MaxSeq     \* leaves one number for the reader
    /\ ~Full
    /\ Put(kind, cmd, FALSE)
    /\ UNCHANGED <<config, running, paused, replying, capture, sockets,
                   reader, emulator, signals, history>>

\* gemu_monitor_pause: a breakpoint, or a guest shutdown with -no-shutdown.
Pause ==
    /\ epc = "frame"
    /\ paused' = TRUE
    /\ UNCHANGED <<config, ring, running, replying, capture, sockets, reader,
                   emulator, signals, history>>

\* The end of a frame: poll, or leave the run loop (the window was closed).
EndFrame ==
    /\ epc = "frame"
    /\ epc' \in {"poll", "stop"}
    /\ UNCHANGED <<config, ring, running, paused, replying, capture, sockets,
                   reader, cur, ret, quitting, signals, history>>

SignalDueInverted == quit_signal /\ quit_reported
SignalDue == quit_signal /\ ~quit_reported

\* gemu_monitor_poll: a termination signal is reported once, before the queue.
PollEnter ==
    /\ epc = "poll"
    /\ IF SignalDue
       THEN /\ quit_reported' = TRUE
            /\ ret' = [cmd |-> "QUIT", seq |-> 0]
            /\ epc' = "handle"
       ELSE /\ epc' = "drain"
            /\ UNCHANGED <<quit_reported, ret>>
    /\ UNCHANGED <<config, ring, running, paused, replying, capture, sockets,
                   reader, cur, quitting, quit_signal, history>>

AfterPoll == IF quitting THEN "stop" ELSE "frame"

\* An empty queue ends the poll, and the loop around it.
PollEmpty ==
    /\ epc = "drain" /\ Empty
    /\ epc' = AfterPoll
    /\ UNCHANGED <<config, ring, running, paused, replying, capture, sockets,
                   reader, cur, ret, quitting, signals, history>>

\* The capture buffer when an entry is taken.
StaleBuffer(entry) == capture_buf
FreshBuffer(entry) == IF entry.capture THEN 0 ELSE capture_buf

\* The head entry is taken; one that captures starts with an empty buffer.
PollPop ==
    /\ epc = "drain" /\ ~Empty
    /\ cur' = queue[head]
    /\ head' = Succ(head)
    /\ capturing' = (capturing \/ queue[head].capture)
    /\ capture_buf' = FreshBuffer(queue[head])
    /\ epc' = "dispatch"
    /\ UNCHANGED <<config, queue, tail, next_seq, done_seq, running, paused,
                   replying, sockets, reader, ret, quitting, signals, history>>

\* The handler runs without the lock and may print.
Dispatch ==
    /\ epc = "dispatch"
    /\ ret' = [cmd |-> cur.cmd, seq |-> cur.seq]
    /\ \/ UNCHANGED <<capture_buf, printed>>
       \/ /\ capturing
          /\ capture_buf' = cur.seq
          /\ printed' = printed \cup {cur.seq}
    /\ epc' = "finish"
    /\ UNCHANGED <<config, ring, running, paused, replying, capturing,
                   sockets, reader, cur, quitting, signals, acted, gave_up>>

\* The paused flag after a command.
PausedIgnoresStop(cmd) == paused /\ cmd # "CONT"
PausedAfter(cmd) == cmd \in {"STOP", "STEP"} \/ (paused /\ cmd # "CONT")

\* Whether finishing a command completes it: stop and cont show in paused,
\* the other commands are left to the run loop.
Completes(cmd, is_paused) ==
    \/ cmd = "NONE"
    \/ cmd = "STOP" /\ is_paused
    \/ cmd = "CONT" /\ ~is_paused

\* mon->capturing after an entry has run
CapturingEnds == FALSE

\* Back under the lock: paused follows the command, the waiters are told.
Finish ==
    /\ epc = "finish"
    /\ capturing' = CapturingEnds
    /\ paused' = PausedAfter(ret.cmd)
    /\ done_seq' = IF cur.seq > done_seq THEN cur.seq ELSE done_seq
    /\ rpc' = Woken
    /\ cur' = NoEntry
    /\ epc' = IF ret.cmd = "NONE" THEN "drain" ELSE "handle"
    /\ acted' = IF Completes(ret.cmd, PausedAfter(ret.cmd))
                THEN acted \cup {cur.seq} ELSE acted
    /\ UNCHANGED <<config, queue, head, tail, next_seq, running, replying,
                   capture_buf, sockets, req, ret, quitting, signals,
                   printed, gave_up>>

\* The machine's run loop acts on what the poll returned and polls again.
\* QUIT leaves the loop at once on most machines, after the queue is empty on
\* the others, and only pauses under -no-shutdown.
HandleCommand ==
    /\ epc = "handle"
    /\ acted' = IF ret.seq = 0 THEN acted ELSE acted \cup {ret.seq}
    /\ ret' = [cmd |-> "NONE", seq |-> 0]
    /\ IF ret.cmd = "QUIT" /\ ~no_shutdown
       THEN /\ quitting' = TRUE
            /\ epc' \in {"stop", "poll"}
            /\ UNCHANGED paused
       ELSE /\ paused' = (paused \/ ret.cmd = "QUIT")
            /\ epc' = "poll"
            /\ UNCHANGED quitting
    /\ UNCHANGED <<config, ring, running, replying, capture, sockets, reader,
                   cur, signals, printed, gave_up>>

-----------------------------------------------------------------------------
\* gemu_monitor_stop.

\* Without a reader thread there is nothing to stop.
StopBegin ==
    /\ epc = "stop"
    /\ IF rpc = "off"
       THEN epc' = "stopped" /\ UNCHANGED <<running, rpc>>
       ELSE /\ running' = FALSE
            /\ rpc' = Woken
            /\ epc' = "settle"
    /\ UNCHANGED <<config, ring, paused, replying, capture, sockets, req,
                   cur, ret, quitting, signals, history>>

\* Up to half a second for a reply that is being written; then the sockets go.
StopClose ==
    /\ epc = "settle"
    /\ ~replying \/ Slow
    /\ gave_up' = (gave_up \/ replying)
    /\ listen_fd' = FALSE
    /\ client_fd' = FALSE
    /\ epc' = "join"
    /\ UNCHANGED <<config, ring, running, paused, replying, capture, reader,
                   cur, ret, quitting, signals, printed, acted>>

JoinedAtOnce == TRUE
Joined == rpc = "exit"

\* pthread_join once the thread has ended.  On Windows the reader cannot be
\* cancelled: after half a second it is abandoned.
StopJoin ==
    /\ epc = "join"
    /\ \/ Joined /\ epc' = "stopped"
       \/ ~posix /\ ~Joined /\ epc' = "leaked"
    /\ UNCHANGED <<config, ring, running, paused, replying, capture, sockets,
                   reader, cur, ret, quitting, signals, history>>

\* gemu_monitor_destroy after a stop that joined the reader.
Destroy ==
    /\ epc = "stopped"
    /\ epc' = "freed"
    /\ UNCHANGED <<config, ring, running, paused, replying, capture, sockets,
                   reader, cur, ret, quitting, signals, history>>

-----------------------------------------------------------------------------
\* on_terminate: the second signal ends the process at once.
OnTerminate ==
    /\ quit_signal' = TRUE
    /\ IF quit_signal
       THEN epc' = "killed" /\ rpc' = "killed"
       ELSE UNCHANGED <<epc, rpc>>
    /\ UNCHANGED <<config, ring, running, paused, replying, capture, sockets,
                   req, cur, ret, quitting, quit_reported, history>>

Over == epc \in {"freed", "leaked", "killed"}

\* The process is about to end, or has ended.
Terminated == Over /\ UNCHANGED vars

ReaderStep ==
    \/ AcceptLoop \/ Accept \/ ReaderLoop \/ EndOfChunk \/ ReadPassword
    \/ EndOfInput \/ Submit \/ AnswerQuery \/ WaitDone \/ WaitTimeout
    \/ AfterTimeout \/ Reply \/ CloseClient \/ Cancelled
    \/ \E kind \in {"TEXT", "FN", "QUERY"}, cmd \in ReaderCmds \cup {"NONE"} :
          ReceiveRequest(kind, cmd)

EmulatorStep ==
    \/ Pause \/ EndFrame \/ PollEnter \/ PollEmpty \/ PollPop \/ Dispatch
    \/ Finish \/ HandleCommand \/ StopBegin \/ StopClose \/ StopJoin \/ Destroy
    \/ \E kind \in {"CMD", "TEXT"}, cmd \in OwnCmds : EnqueueOwn(kind, cmd)

Next == ReaderStep \/ EmulatorStep \/ OnTerminate \/ Terminated

Spec == Init /\ [][Next]_vars

(***************************************************************************)
(* The scheduler runs both threads.  Nothing makes a client send or hang   *)
(* up, a user close the window, or a time limit run out: those actions     *)
(* carry no fairness.  A chunk of input is finite, so the loop over the    *)
(* requests in it ends.                                                    *)
(***************************************************************************)
ReaderRuns ==
    \/ AcceptLoop \/ ReaderLoop \/ Submit \/ AnswerQuery \/ WaitDone
    \/ AfterTimeout \/ Reply \/ CloseClient \/ Cancelled

ChunkEnds == rpc = "feed" /\ EndOfChunk

EmulatorRuns ==
    \/ EndFrame \/ PollEnter \/ PollEmpty \/ PollPop \/ Dispatch \/ Finish
    \/ HandleCommand \/ StopBegin \/ StopClose \/ StopJoin \/ Destroy

FairSpec ==
    /\ Spec
    /\ WF_vars(ReaderRuns)
    /\ SF_vars(ChunkEnds)
    /\ WF_vars(EmulatorRuns)

-----------------------------------------------------------------------------
(***************************************************************************)
(* Properties.                                                             *)
(***************************************************************************)

\* The number of steps from slot h to slot i around the ring.
Dist(h, i) == IF i >= h THEN i - h ELSE i - h + QueueSize

Count == Dist(head, tail)

\* An entry has been taken and is not finished yet.
Busy == cur.seq # 0

\* The ring never loses, repeats or overwrites an entry: the numbers handed
\* out are those finished, the one being run and those in the ring, and the
\* ring holds them in order (enqueue_entry, mon_run_fn, gemu_monitor_poll).
QueueConsistent ==
    /\ next_seq = done_seq + Count + (IF Busy THEN 1 ELSE 0)
    /\ Busy => cur.seq = done_seq + 1
    /\ \A i \in 0..QueueSize - 1 :
          Dist(head, i) < Count
             => queue[i].seq = next_seq - Count + 1 + Dist(head, i)

\* gemu_monitor_poll holds an entry exactly from taking it to finishing it.
EntryInHand ==
    /\ epc \in {"dispatch", "finish"} => Busy
    /\ Busy => epc \in {"dispatch", "finish", "killed"}

\* Every entry is run exactly once and in the order it was queued: the entry
\* gemu_monitor_poll takes is the one after the last that finished.
RunInOrder == [][cur' # cur /\ cur'.seq # 0 => cur'.seq = done_seq + 1]_vars

\* A request that mon_run_line or mon_run_fn reports as run has been run.
\* This must survive a timeout that races the emulator thread.
OkMeansRun ==
    rpc = "reply" /\ req.seq # 0 =>
        (req.res = "OK" => req.seq <= done_seq)

\* The output that a GMP human-monitor-command returns is all of its own
\* output and nothing of another command's, in particular not that of an
\* earlier request that timed out and was run late (mon_run_line).
OwnOutput ==
    rpc = "reply" /\ Gmp /\ req.kind = "TEXT" /\ req.res = "OK" =>
        req.out = IF req.seq \in printed THEN req.seq ELSE 0

\* The commands whose effect is complete when gemu_monitor_poll finishes the
\* entry: an OK reply to them is sent only after the effect.
StopContEffective ==
    rpc = "reply" /\ req.res = "OK" /\ req.seq # 0
        /\ req.cmd \in {"NONE", "STOP", "CONT"} => req.seq \in acted

\* "e.g. QMP 'quit' still gets its reply" (monitor_priv.h, replying): the
\* client's socket is not closed under a reply to a request that was run,
\* unless gemu_monitor_stop has already waited half a second for it.
ReplyBeforeClose ==
    rpc = "reply" /\ backend = "gmp" /\ req.seq # 0 /\ req.res = "OK"
        => client_fd \/ gave_up

\* The monitor is freed only after the reader thread has ended.
NoReaderAfterFree == epc = "freed" => rpc \in {"exit", "off"}

\* What a client is told of its command holds: it was run, and one that starts
\* or stops the machine has taken effect; and the output it is given is all its own.
CommandsObeyed == OkMeansRun /\ StopContEffective /\ OwnOutput

\* Termination takes nothing from a reader that still needs it.
ReaderOutlived == ReplyBeforeClose /\ NoReaderAfterFree

\* A reader that waits for its request is always released, by the entry being
\* run or by gemu_monitor_stop, without help from the timeout.
WaitEnds == rpc = "wait" ~> rpc # "wait" \/ Over

\* gemu_monitor_stop always returns: the reader cannot hold it up.
StopEnds == epc = "stop" ~> Over

\* A first SIGINT or SIGTERM ends the emulator unless -no-shutdown is given,
\* in which case the machine is paused.
SignalQuits == quit_signal ~> Over \/ (no_shutdown /\ quit_reported)

\* An accepted quit ends the emulator even if its client times out or goes.
QuitQuits ==
    epc = "dispatch" /\ cur.cmd = "QUIT" /\ ~no_shutdown ~> Over

\* Nobody waits for ever: readers are released, and stop and quit end the
\* emulator.
ThreadsEnd == WaitEnds /\ StopEnds /\ QuitQuits
=============================================================================
