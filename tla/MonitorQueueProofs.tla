------------------------- MODULE MonitorQueueProofs -------------------------
(***************************************************************************)
(* Proofs about the monitor queue for every ring size, transport, command  *)
(* set and bound: type correctness, that the ring neither loses nor        *)
(* repeats nor reorders an entry, that an answer is true and goes to the   *)
(* client that asked, and that no reader outlives what it reads from; and  *)
(* about the serial terminal, for every size of its screen and every set   *)
(* of strings a guest writes; and about the machines' run loops, that they *)
(* run what the user allowed.                                              *)
(***************************************************************************)
EXTENDS MonitorQueue, Vt100, RunLoops, TLAPS

Slots == 0..QueueSize - 1

-----------------------------------------------------------------------------
\* Arithmetic of the ring.

\* The successor of a slot is a slot.
LEMMA SuccIsSlot == \A i \in Slots : Succ(i) \in Slots
  BY QueueSizeAssumption DEF Slots, Succ

\* The successor of a slot without the remainder.
LEMMA SuccValue == \A i \in Slots : Succ(i) = IF i = QueueSize - 1 THEN 0 ELSE i + 1
  BY QueueSizeAssumption DEF Slots, Succ

\* Distances are natural numbers below the size of the ring.
LEMMA DistRange == \A h, i \in Slots : Dist(h, i) \in 0..QueueSize - 1
  BY QueueSizeAssumption DEF Slots, Dist

\* Adding at the tail of a ring that is not full: one entry more, in slot t.
LEMMA DistPut ==
  ASSUME NEW h \in Slots, NEW t \in Slots, Succ(t) # h
  PROVE  /\ Dist(h, Succ(t)) = Dist(h, t) + 1
         /\ \A i \in Slots : Dist(h, i) < Dist(h, t) + 1
                               => i = t \/ (i # t /\ Dist(h, i) < Dist(h, t))
  BY QueueSizeAssumption, SuccValue, SuccIsSlot DEF Slots, Dist

\* Taking from the head of a ring that is not empty: one entry less, and the
\* remaining ones move one step closer.
LEMMA DistPop ==
  ASSUME NEW h \in Slots, NEW t \in Slots, h # t
  PROVE  /\ Dist(Succ(h), t) = Dist(h, t) - 1
         /\ Dist(h, h) = 0
         /\ 0 < Dist(h, t)
         /\ \A i \in Slots : Dist(Succ(h), i) < Dist(h, t) - 1
                               => Dist(h, i) = Dist(Succ(h), i) + 1
  BY QueueSizeAssumption, SuccValue, SuccIsSlot DEF Slots, Dist

-----------------------------------------------------------------------------
\* Type correctness.

\* Setting the number, the result or the output keeps a request a request.
LEMMA RequestUpdate ==
  ASSUME NEW r \in Requests, NEW n \in Nat, NEW x \in {"OK", "QUEUE_FULL", "TIMEOUT"}
  PROVE  /\ [r EXCEPT !.res = x] \in Requests
         /\ [r EXCEPT !.res = x, !.out = n] \in Requests
         /\ [r EXCEPT !.seq = n, !.res = x] \in Requests
         /\ [r EXCEPT !.seq = n] \in Requests
  BY DEF Requests

\* What mon_run_line and mon_run_fn leave when they return.
LEMMA CollectType ==
  ASSUME DataOK, Collect
  PROVE  rpc' = "reply" /\ req' \in Requests /\ capture_buf' \in Nat
<1>1. req \in Requests /\ capture_buf \in Nat
  BY DEF DataOK
<1>2. /\ [req EXCEPT !.res = "OK"] \in Requests
      /\ [req EXCEPT !.res = "TIMEOUT"] \in Requests
      /\ [req EXCEPT !.res = "OK", !.out = capture_buf] \in Requests
  BY <1>1, RequestUpdate, Zenon
<1> QED
  BY <1>1, <1>2 DEF Collect

\* A step of any thread preserves the type invariant.
LEMMA TypeStep == TypeOK /\ [Next]_vars => TypeOK'
<1> SUFFICES ASSUME TypeOK, [Next]_vars PROVE TypeOK'
  OBVIOUS
<1> USE DEF TypeOK, config, ring, capture, sockets, reader, emulator, signals,
            history
<1>1. CASE AcceptLoop
  <2>1. FlagsOK'
    BY <1>1, Zenon DEF AcceptLoop, FlagsOK
  <2>2. DataOK'
    BY <1>1 DEF AcceptLoop, DataOK,
       ReaderPlaces, EmulatorPlaces
  <2> QED
    BY <2>1, <2>2
<1>2. CASE Accept
  <2>1. FlagsOK'
    BY <1>2, ZenonT(60) DEF Accept, FlagsOK
  <2>2. DataOK'
    BY <1>2 DEF Accept, DataOK,
       ReaderPlaces, EmulatorPlaces
  <2> QED
    BY <2>1, <2>2
<1>3. CASE ReaderLoop
  <2>1. FlagsOK'
    BY <1>3, Zenon DEF ReaderLoop, AfterLoop, FlagsOK
  <2>2. DataOK'
    BY <1>3 DEF ReaderLoop, AfterLoop, DataOK,
       ReaderPlaces, EmulatorPlaces
  <2> QED
    BY <2>1, <2>2
<1>4. CASE EndOfChunk
  <2>1. FlagsOK'
    BY <1>4, Zenon DEF EndOfChunk, FlagsOK
  <2>2. DataOK'
    BY <1>4 DEF EndOfChunk, DataOK,
       ReaderPlaces, EmulatorPlaces
  <2> QED
    BY <2>1, <2>2
<1>5. CASE ReadPassword
  <2>1. FlagsOK'
    BY <1>5, Zenon DEF ReadPassword, AfterLoop, FlagsOK
  <2>2. DataOK'
    BY <1>5 DEF ReadPassword, AfterLoop, DataOK,
       ReaderPlaces, EmulatorPlaces
  <2> QED
    BY <2>1, <2>2
<1>6. CASE EndOfInput
  <2>1. FlagsOK'
    BY <1>6, Zenon DEF EndOfInput, AfterLoop, FlagsOK
  <2>2. DataOK'
    BY <1>6 DEF EndOfInput, AfterLoop, DataOK,
       ReaderPlaces, EmulatorPlaces
  <2> QED
    BY <2>1, <2>2
<1>7. CASE Submit
  <2>1. FlagsOK'
    BY <1>7, Zenon DEF Submit, Put, NextSeq, Full, Slots, FlagsOK
  <2>2. DataOK'
    <3>1. CASE Full /\ rpc' = "reply" /\ UNCHANGED ring
                /\ req' = [req EXCEPT !.res = "QUEUE_FULL"]
      <4>1. [req EXCEPT !.res = "QUEUE_FULL"] \in Requests
        BY RequestUpdate, 0 \in Nat, Zenon DEF DataOK
      <4> QED
        BY <1>7, <3>1, <4>1 DEF Submit, DataOK, ReaderPlaces
    <3>2. CASE Put(req.kind, req.cmd, Gmp /\ req.kind = "TEXT")
                /\ (\/ req' = [req EXCEPT !.seq = NextSeq, !.res = "TIMEOUT"]
                    \/ req' = [req EXCEPT !.seq = NextSeq])
      <4>1. req' \in Requests
        <5>1. req \in Requests /\ NextSeq \in Nat
          BY DEF DataOK, NextSeq
        <5>2. /\ [req EXCEPT !.seq = NextSeq, !.res = "TIMEOUT"] \in Requests
              /\ [req EXCEPT !.seq = NextSeq] \in Requests
          BY <5>1, RequestUpdate, Zenon
        <5> QED
          BY <3>2, <5>2, Zenon
      <4>2. rpc' \in ReaderPlaces
        BY <1>7 DEF Submit, ReaderPlaces
      <4>3. queue' \in [0..QueueSize - 1 -> Entries]
        BY <1>7, <3>2 DEF Submit, Put, NextSeq, DataOK, Entries, Requests
      <4>4. next_seq' \in Nat /\ tail' \in 0..QueueSize - 1
        BY <3>2, SuccIsSlot DEF Put, NextSeq, DataOK, Slots
      <4> QED
        BY <1>7, <3>2, <4>1, <4>2, <4>3, <4>4 DEF Submit, Put, DataOK
    <3> QED
      BY <1>7, <3>1, <3>2 DEF Submit
  <2> QED
    BY <2>1, <2>2
<1>8. CASE AnswerQuery
  <2>1. FlagsOK'
    BY <1>8, Zenon DEF AnswerQuery, FlagsOK
  <2>2. DataOK'
    BY <1>8 DEF AnswerQuery, DataOK, Cmds, Requests,
       ReaderPlaces, EmulatorPlaces
  <2> QED
    BY <2>1, <2>2
<1>9. CASE WaitDone
  <2>1. FlagsOK'
    BY <1>9, Zenon DEF WaitDone, MustWait, Collect, IsDone, FlagsOK
  <2>2. DataOK'
    BY <1>9, CollectType DEF WaitDone, DataOK, ReaderPlaces
  <2> QED
    BY <2>1, <2>2
<1>10. CASE WaitTimeout
  <2>1. FlagsOK'
    BY <1>10, Zenon DEF WaitTimeout, FlagsOK
  <2>2. DataOK'
    BY <1>10 DEF WaitTimeout, DataOK,
       ReaderPlaces, EmulatorPlaces
  <2> QED
    BY <2>1, <2>2
<1>11. CASE AfterTimeout
  <2>1. FlagsOK'
    BY <1>11, Zenon DEF AfterTimeout, Collect, IsDone, FlagsOK
  <2>2. DataOK'
    BY <1>11, CollectType DEF AfterTimeout, DataOK, ReaderPlaces
  <2> QED
    BY <2>1, <2>2
<1>12. CASE Reply
  <2>1. FlagsOK'
    BY <1>12, Zenon DEF Reply, AfterLoop, NewRequest, FlagsOK
  <2>2. DataOK'
    BY <1>12 DEF Reply, AfterLoop, NewRequest, DataOK, Cmds, Requests,
       ReaderPlaces, EmulatorPlaces
  <2> QED
    BY <2>1, <2>2
<1>13. CASE CloseClient
  <2>1. FlagsOK'
    BY <1>13, Zenon DEF CloseClient, FlagsOK
  <2>2. DataOK'
    BY <1>13 DEF CloseClient, DataOK,
       ReaderPlaces, EmulatorPlaces
  <2> QED
    BY <2>1, <2>2
<1>14. CASE Cancelled
  <2>1. FlagsOK'
    BY <1>14, Zenon DEF Cancelled, FlagsOK
  <2>2. DataOK'
    BY <1>14 DEF Cancelled, DataOK,
       ReaderPlaces, EmulatorPlaces
  <2> QED
    BY <2>1, <2>2
<1>15. CASE Pause
  <2>1. FlagsOK'
    BY <1>15, Zenon DEF Pause, FlagsOK
  <2>2. DataOK'
    BY <1>15 DEF Pause, DataOK,
       ReaderPlaces, EmulatorPlaces
  <2> QED
    BY <2>1, <2>2
<1>16. CASE EndFrame
  <2>1. FlagsOK'
    BY <1>16, Zenon DEF EndFrame, FlagsOK
  <2>2. DataOK'
    BY <1>16 DEF EndFrame, DataOK,
       ReaderPlaces, EmulatorPlaces
  <2> QED
    BY <2>1, <2>2
<1>17. CASE PollEnter
  <2>1. FlagsOK'
    BY <1>17, ZenonT(60) DEF PollEnter, SignalDue, FlagsOK
  <2>2. DataOK'
    BY <1>17 DEF PollEnter, SignalDue, DataOK, Cmds, Requests,
       ReaderPlaces, EmulatorPlaces
  <2> QED
    BY <2>1, <2>2
<1>18. CASE PollEmpty
  <2>1. FlagsOK'
    BY <1>18, Zenon DEF PollEmpty, AfterPoll, FlagsOK
  <2>2. DataOK'
    BY <1>18 DEF PollEmpty, AfterPoll, DataOK,
       ReaderPlaces, EmulatorPlaces
  <2> QED
    BY <2>1, <2>2
<1>19. CASE PollPop
  <2>1. FlagsOK'
    BY <1>19, Zenon DEF PollPop, FreshBuffer, Slots, FlagsOK
  <2>2. DataOK'
    <3>1. head \in Slots /\ queue[head] \in Entries
      BY DEF DataOK, Slots
    <3>2. head' \in Slots /\ cur' \in Entries
      BY <1>19, <3>1, SuccIsSlot DEF PollPop
    <3>3. capture_buf' \in Nat
      BY <1>19 DEF PollPop, FreshBuffer, DataOK
    <3> QED
      BY <1>19, <3>2, <3>3 DEF PollPop, DataOK, Slots, EmulatorPlaces
  <2> QED
    BY <2>1, <2>2
<1>20. CASE Dispatch
  <2>1. FlagsOK'
    BY <1>20, Zenon DEF Dispatch, FlagsOK
  <2>2. cur.seq \in Nat /\ cur.cmd \in Cmds
    BY DEF DataOK, Entries
  <2>3. ret' \in [cmd : Cmds, seq : Nat]
    BY <1>20, <2>2 DEF Dispatch
  <2>4. capture_buf' \in Nat /\ printed' \in SUBSET Nat
    BY <1>20, <2>2 DEF Dispatch, DataOK
  <2>5. DataOK'
    BY <1>20, <2>3, <2>4 DEF Dispatch, DataOK, EmulatorPlaces
  <2> QED
    BY <2>1, <2>5
<1>21. CASE Finish
  <2>1. FlagsOK'
    BY <1>21, Zenon DEF Finish, Woken, PausedAfter, Completes, CapturingEnds, NoEntry, FlagsOK
  <2>2. DataOK'
    BY <1>21 DEF Finish, Woken, PausedAfter, Completes, CapturingEnds, NoEntry, DataOK, Cmds, Entries,
       ReaderPlaces, EmulatorPlaces
  <2> QED
    BY <2>1, <2>2
<1>22. CASE HandleCommand
  <2>1. FlagsOK'
    BY <1>22, ZenonT(60) DEF HandleCommand, FlagsOK
  <2>2. acted' \in SUBSET Nat
    BY <1>22 DEF HandleCommand, DataOK
  <2>3. epc' \in EmulatorPlaces
    BY <1>22 DEF HandleCommand, EmulatorPlaces
  <2>4. ret' \in [cmd : Cmds, seq : Nat]
    BY <1>22 DEF HandleCommand, Cmds
  <2>5. DataOK'
    BY <1>22, <2>2, <2>3, <2>4 DEF HandleCommand, DataOK
  <2> QED
    BY <2>1, <2>5
<1>23. CASE StopBegin
  <2>1. FlagsOK'
    BY <1>23, ZenonT(60) DEF StopBegin, Woken, FlagsOK
  <2>2. DataOK'
    BY <1>23 DEF StopBegin, Woken, DataOK,
       ReaderPlaces, EmulatorPlaces
  <2> QED
    BY <2>1, <2>2
<1>24. CASE StopClose
  <2>1. FlagsOK'
    BY <1>24, Zenon DEF StopClose, FlagsOK
  <2>2. DataOK'
    BY <1>24 DEF StopClose, DataOK,
       ReaderPlaces, EmulatorPlaces
  <2> QED
    BY <2>1, <2>2
<1>25. CASE StopJoin
  <2>1. FlagsOK'
    BY <1>25, Zenon DEF StopJoin, Joined, FlagsOK
  <2>2. DataOK'
    BY <1>25 DEF StopJoin, Joined, DataOK,
       ReaderPlaces, EmulatorPlaces
  <2> QED
    BY <2>1, <2>2
<1>26. CASE Destroy
  <2>1. FlagsOK'
    BY <1>26, Zenon DEF Destroy, FlagsOK
  <2>2. DataOK'
    BY <1>26 DEF Destroy, DataOK,
       ReaderPlaces, EmulatorPlaces
  <2> QED
    BY <2>1, <2>2
<1>27. ASSUME NEW kind \in {"TEXT", "FN", "QUERY"}, NEW cmd \in ReaderCmds \cup {"NONE"},
               ReceiveRequest(kind, cmd)
        PROVE  TypeOK'
  <2>1. FlagsOK'
    BY <1>27, Zenon DEF ReceiveRequest, ReplyAnnounced, Gmp, FlagsOK
  <2>2. DataOK'
    BY <1>27, CmdsAssumption DEF ReceiveRequest, NewRequest, DataOK, Cmds,
       Entries, Requests, ReaderPlaces, EmulatorPlaces
  <2> QED
    BY <2>1, <2>2
<1>28. ASSUME NEW kind \in {"CMD", "TEXT"}, NEW cmd \in OwnCmds,
               EnqueueOwn(kind, cmd)
        PROVE  TypeOK'
  <2>1. FlagsOK'
    BY <1>28, Zenon DEF EnqueueOwn, FlagsOK
  <2>2. DataOK'
    BY <1>28, CmdsAssumption, SuccIsSlot, QueueSizeAssumption
       DEF EnqueueOwn, Put, NextSeq, Slots, DataOK, Cmds, Entries,
           ReaderPlaces, EmulatorPlaces
  <2> QED
    BY <2>1, <2>2
<1>29. CASE OnTerminate
  <2>1. FlagsOK'
    BY <1>29, Zenon DEF OnTerminate, FlagsOK
  <2>2. DataOK'
    BY <1>29 DEF OnTerminate, DataOK,
       ReaderPlaces, EmulatorPlaces
  <2> QED
    BY <2>1, <2>2
<1>30. CASE UNCHANGED vars
  BY <1>30 DEF vars, FlagsOK, DataOK
<1> QED
  BY <1>1, <1>2, <1>3, <1>4, <1>5, <1>6, <1>7, <1>8, <1>9, <1>10,
     <1>11, <1>12, <1>13, <1>14, <1>15, <1>16, <1>17, <1>18, <1>19, <1>20,
     <1>21, <1>22, <1>23, <1>24, <1>25, <1>26, <1>27, <1>28, <1>29, <1>30
     DEF Next, ReaderStep, EmulatorStep, Terminated

\* The initial states are well typed.
LEMMA InitType == Init => TypeOK
<1>1. Init => FlagsOK
  <2>1. (backend # "none") \in BOOLEAN /\ Socket \in BOOLEAN
    BY DEF Socket
  <2>2. Init => posix \in BOOLEAN /\ no_shutdown \in BOOLEAN
    BY ConfigAssumption DEF Init
  <2> QED
    BY <2>1, <2>2, Zenon DEF Init, FlagsOK
<1>2. Init => DataOK
  <2>1. Init => queue \in [0..QueueSize - 1 -> Entries] /\ cur \in Entries
    BY DEF Init, NoEntry, Entries, Cmds
  <2>2. Init => req \in Requests
    BY DEF Init, NewRequest, Requests, Cmds
  <2> QED
    BY <2>1, <2>2, QueueSizeAssumption, BackendsAssumption
       DEF Init, DataOK, Cmds, ReaderPlaces, EmulatorPlaces
<1> QED
  BY <1>1, <1>2 DEF TypeOK

\* The variables keep their types, for every ring size and transport.
THEOREM TypeCorrect == Spec => []TypeOK
  BY InitType, TypeStep, PTL DEF Spec

-----------------------------------------------------------------------------
\* The ring.

\* The inductive invariant: QueueConsistent needs to know when an entry is
\* held outside the ring.
QueueInv == TypeOK /\ QueueConsistent /\ EntryInHand

\* What the ring's arithmetic needs from the type invariant.
LEMMA RingTypes ==
  ASSUME TypeOK
  PROVE  /\ head \in Slots /\ tail \in Slots
         /\ next_seq \in Nat /\ done_seq \in Nat /\ cur.seq \in Nat
         /\ queue \in [Slots -> Entries]
         /\ \A i \in Slots : queue[i].seq \in Nat
         /\ Count \in Nat
  BY DistRange, QueueSizeAssumption DEF TypeOK, DataOK, Slots, Entries, Count

\* A step that leaves the ring and the held entry alone.
LEMMA QuietStep ==
  ASSUME QueueConsistent, UNCHANGED <<ring, cur>>
  PROVE  QueueConsistent'
<1>1. /\ queue' = queue /\ head' = head /\ tail' = tail
      /\ next_seq' = next_seq /\ done_seq' = done_seq /\ cur' = cur
  BY DEF ring
<1>2. Count' = Count /\ Busy' = Busy
  BY <1>1 DEF Count, Dist, Busy
<1> QED
  BY <1>1, <1>2 DEF QueueConsistent, Dist

\* Queueing an entry, by whichever thread.
LEMMA PutStep ==
  ASSUME TypeOK, QueueConsistent, ~Full, cur' = cur,
         NEW kind, NEW cmd, NEW cap, Put(kind, cmd, cap)
  PROVE  QueueConsistent'
<1>1. /\ head' = head /\ done_seq' = done_seq
      /\ next_seq' = next_seq + 1 /\ tail' = Succ(tail)
  BY DEF Put, NextSeq
<1>2. /\ Dist(head, Succ(tail)) = Dist(head, tail) + 1
      /\ \A i \in Slots : Dist(head, i) < Dist(head, tail) + 1
             => i = tail \/ (i # tail /\ Dist(head, i) < Dist(head, tail))
  BY RingTypes, DistPut DEF Full
<1>3. Count' = Count + 1 /\ Busy' = Busy
  BY <1>1, <1>2 DEF Count, Busy, Dist
<1>4. /\ queue'[tail].seq = next_seq + 1
      /\ \A i \in Slots : i # tail => queue'[i] = queue[i]
  BY RingTypes DEF Put, NextSeq
<1>5. \A i \in Slots : Dist(head, i)' = Dist(head, i)
  BY <1>1 DEF Dist
<1>6. ASSUME NEW i \in Slots, Dist(head, i) < Count + 1
      PROVE  queue'[i].seq = next_seq + 1 - (Count + 1) + 1 + Dist(head, i)
  <2>1. CASE i = tail
    BY <2>1, <1>4, RingTypes, DistRange DEF Count
  <2>2. CASE i # tail /\ Dist(head, i) < Count
    <3>1. queue[i].seq = next_seq - Count + 1 + Dist(head, i)
      BY <2>2 DEF QueueConsistent, Slots
    <3>2. Count \in Nat /\ next_seq \in Nat /\ head \in Slots
      BY RingTypes
    <3>3. Dist(head, i) \in Slots
      BY <3>2, DistRange DEF Slots
    <3>4. Dist(head, i) \in Nat
      BY <3>3, QueueSizeAssumption DEF Slots
    <3> QED
      BY <2>2, <1>4, <3>1, <3>2, <3>4
  <2> QED
    BY <1>2, <1>6, <2>1, <2>2 DEF Count
<1>7. /\ next_seq' = done_seq' + Count' + (IF Busy' THEN 1 ELSE 0)
      /\ Busy' => cur'.seq = done_seq' + 1
  BY <1>1, <1>3, RingTypes DEF QueueConsistent, Busy
<1>8. \A i \in Slots : Dist(head, i)' < Count'
                        => queue'[i].seq = next_seq' - Count' + 1 + Dist(head, i)'
  <2> SUFFICES ASSUME NEW i \in Slots, Dist(head, i)' < Count'
               PROVE  queue'[i].seq = next_seq' - Count' + 1 + Dist(head, i)'
    OBVIOUS
  <2>1. Dist(head, i)' = Dist(head, i) /\ Count' = Count + 1 /\ next_seq' = next_seq + 1
    BY <1>1, <1>3, <1>5
  <2>2. Dist(head, i) < Count + 1
    BY <2>1
  <2>3. queue'[i].seq = next_seq + 1 - (Count + 1) + 1 + Dist(head, i)
    BY <1>6, <2>2
  <2>4. Count \in Nat /\ next_seq \in Nat /\ Dist(head, i) \in Nat
    BY RingTypes, DistRange, QueueSizeAssumption DEF Slots
  <2> DEFINE d == Dist(head, i)
             n == Count
  <2> HIDE DEF d, n
  <2>5. Dist(head, i)' = d /\ Count' = n + 1 /\ n \in Nat /\ d \in Nat
        /\ queue'[i].seq = next_seq + 1 - (n + 1) + 1 + d
    BY <2>1, <2>3, <2>4 DEF d, n
  <2> QED
    BY <2>1, <2>4, <2>5
<1> QED
  BY <1>7, <1>8 DEF QueueConsistent, Slots

\* Taking the head entry: it carries the number after the last finished one.
LEMMA PopStep ==
  ASSUME QueueInv, PollPop
  PROVE  /\ cur'.seq = done_seq + 1
         /\ QueueConsistent'
<1> USE DEF QueueInv
<1>1. /\ tail' = tail /\ queue' = queue /\ head' = Succ(head) /\ cur' = queue[head]
      /\ next_seq' = next_seq /\ done_seq' = done_seq /\ head # tail /\ ~Busy
  BY DEF PollPop, EntryInHand, Empty
<1>2. /\ Dist(Succ(head), tail) = Dist(head, tail) - 1
      /\ Dist(head, head) = 0
      /\ 0 < Dist(head, tail)
      /\ \A i \in Slots : Dist(Succ(head), i) < Dist(head, tail) - 1
             => Dist(head, i) = Dist(Succ(head), i) + 1
  BY <1>1, RingTypes, DistPop
<1>3. next_seq = done_seq + Count
  BY <1>1, RingTypes DEF QueueConsistent
<1>4. cur'.seq = done_seq + 1
  BY <1>1, <1>2, <1>3, RingTypes DEF QueueConsistent, Slots, Count
<1>5. Count' = Count - 1 /\ Busy'
  BY <1>1, <1>2, <1>4, RingTypes DEF Count, Busy, Dist
<1>6. ASSUME NEW i \in Slots, Dist(Succ(head), i) < Count - 1
      PROVE  queue[i].seq = next_seq - (Count - 1) + 1 + Dist(Succ(head), i)
  <2>1. Dist(head, i) = Dist(Succ(head), i) + 1
    BY <1>2, <1>6, Zenon DEF Count
  <2>2. Dist(Succ(head), i) \in Nat
    <3>1. Succ(head) \in Slots
      BY RingTypes, SuccIsSlot
    <3>2. Dist(Succ(head), i) \in 0..QueueSize - 1
      BY <3>1, DistRange, Zenon
    <3> QED
      BY <3>2, QueueSizeAssumption
  <2>3. Dist(head, i) < Count
    BY <1>6, <2>1, <2>2, RingTypes
  <2>4. queue[i].seq = next_seq - Count + 1 + Dist(head, i)
    BY <2>3 DEF QueueConsistent, Slots
  <2> QED
    BY <2>1, <2>2, <2>4, RingTypes
<1>7. \A i \in Slots : Dist(head, i)' = Dist(Succ(head), i)
  BY <1>1 DEF Dist
<1> QED
  BY <1>1, <1>3, <1>4, <1>5, <1>6, <1>7, RingTypes DEF QueueConsistent, Busy, Slots

\* Finishing the held entry.
LEMMA FinishStep ==
  ASSUME QueueInv, Finish
  PROVE  QueueConsistent' /\ ~Busy'
<1> USE DEF QueueInv
<1>1. Busy /\ cur.seq = done_seq + 1
  BY DEF Finish, EntryInHand, QueueConsistent
<1>2. /\ queue' = queue /\ head' = head /\ tail' = tail /\ next_seq' = next_seq
      /\ done_seq' = done_seq + 1 /\ cur' = NoEntry
  BY <1>1, RingTypes DEF Finish
<1>3. ~Busy' /\ Count' = Count /\ \A i \in Slots : Dist(head, i)' = Dist(head, i)
  BY <1>2 DEF Busy, NoEntry, Count, Dist
<1> QED
  BY <1>1, <1>2, <1>3, RingTypes DEF QueueConsistent, Busy, Slots

\* Where the emulator thread may go in a step that does not touch the ring.
QuietMove ==
  \/ epc' = epc
  \/ epc' = "killed"
  \/ epc = "dispatch" /\ epc' = "finish"
  \/ /\ epc \notin {"dispatch", "finish", "killed"}
     /\ epc' \notin {"dispatch", "finish", "killed"}

\* Such a step preserves what is known of the ring.
LEMMA QuietKeeps ==
  ASSUME QueueInv, UNCHANGED <<ring, cur>>, QuietMove
  PROVE  QueueConsistent' /\ EntryInHand'
  BY QuietStep DEF QueueInv, QuietMove, EntryInHand, Busy

\* A step takes an entry only in order, and keeps the ring consistent.
LEMMA QueueStep ==
  ASSUME QueueInv, [Next]_vars
  PROVE  /\ QueueInv'
         /\ cur' # cur /\ cur'.seq # 0 => cur'.seq = done_seq + 1
<1> DEFINE Goal == /\ QueueConsistent' /\ EntryInHand'
                   /\ (cur' # cur /\ cur'.seq # 0 => cur'.seq = done_seq + 1)
<1>1. TypeOK'
  BY TypeStep DEF QueueInv
<1> SUFFICES Goal
  BY <1>1 DEF QueueInv
<1>2. CASE AcceptLoop
  BY <1>2, QuietKeeps DEF AcceptLoop, emulator, QuietMove
<1>3. CASE Accept
  BY <1>3, QuietKeeps DEF Accept, emulator, QuietMove
<1>4. CASE ReaderLoop
  BY <1>4, QuietKeeps DEF ReaderLoop, emulator, QuietMove
<1>5. CASE EndOfChunk
  BY <1>5, QuietKeeps DEF EndOfChunk, emulator, QuietMove
<1>6. CASE ReadPassword
  BY <1>6, QuietKeeps DEF ReadPassword, emulator, QuietMove
<1>7. CASE EndOfInput
  BY <1>7, QuietKeeps DEF EndOfInput, emulator, QuietMove
<1>8. CASE AnswerQuery
  BY <1>8, QuietKeeps DEF AnswerQuery, emulator, QuietMove
<1>9. CASE WaitDone
  BY <1>9, QuietKeeps DEF WaitDone, emulator, QuietMove
<1>10. CASE WaitTimeout
  BY <1>10, QuietKeeps DEF WaitTimeout, emulator, QuietMove
<1>11. CASE AfterTimeout
  BY <1>11, QuietKeeps DEF AfterTimeout, emulator, QuietMove
<1>12. CASE Reply
  BY <1>12, QuietKeeps DEF Reply, emulator, QuietMove
<1>13. CASE CloseClient
  BY <1>13, QuietKeeps DEF CloseClient, emulator, QuietMove
<1>14. CASE Cancelled
  BY <1>14, QuietKeeps DEF Cancelled, emulator, QuietMove
<1>15. CASE Pause
  BY <1>15, QuietKeeps DEF Pause, emulator, QuietMove
<1>16. CASE EndFrame
  BY <1>16, QuietKeeps DEF EndFrame, QuietMove
<1>17. CASE PollEnter
  BY <1>17, QuietKeeps DEF PollEnter, QuietMove
<1>18. CASE PollEmpty
  BY <1>18, QuietKeeps DEF PollEmpty, AfterPoll, QuietMove
<1>19. CASE Dispatch
  BY <1>19, QuietKeeps DEF Dispatch, QuietMove
<1>20. CASE HandleCommand
  BY <1>20, QuietKeeps DEF HandleCommand, QuietMove
<1>21. CASE StopBegin
  BY <1>21, QuietKeeps DEF StopBegin, QuietMove
<1>22. CASE StopClose
  BY <1>22, QuietKeeps DEF StopClose, QuietMove
<1>23. CASE StopJoin
  BY <1>23, QuietKeeps DEF StopJoin, QuietMove
<1>24. CASE Destroy
  BY <1>24, QuietKeeps DEF Destroy, QuietMove
<1>25. ASSUME NEW kind, NEW cmd, ReceiveRequest(kind, cmd) PROVE Goal
  BY <1>25, QuietKeeps DEF ReceiveRequest, emulator, QuietMove
<1>26. ASSUME NEW kind, NEW cmd, EnqueueOwn(kind, cmd) PROVE Goal
  <2>1. cur' = cur /\ epc' = epc
    BY <1>26 DEF EnqueueOwn, emulator
  <2>2. QueueConsistent'
    BY <1>26, <2>1, PutStep DEF EnqueueOwn, QueueInv
  <2> QED
    BY <2>1, <2>2 DEF QueueInv, EntryInHand, Busy
<1>27. CASE Submit
  <2>1. cur' = cur /\ epc' = epc
    BY <1>27 DEF Submit, emulator
  <2>2. CASE UNCHANGED ring
    BY <2>1, <2>2, QuietKeeps DEF QuietMove
  <2>3. CASE ~Full /\ Put(req.kind, req.cmd, Gmp /\ req.kind = "TEXT")
    <3>1. QueueConsistent'
      BY <2>1, <2>3, PutStep DEF QueueInv
    <3> QED
      BY <2>1, <3>1 DEF QueueInv, EntryInHand, Busy
  <2> QED
    BY <1>27, <2>2, <2>3 DEF Submit
<1>28. CASE PollPop
  <2>1. QueueConsistent' /\ cur'.seq = done_seq + 1 /\ epc' = "dispatch"
    BY <1>28, PopStep DEF PollPop
  <2>2. Busy'
    BY <2>1, RingTypes DEF Busy, QueueInv
  <2> QED
    BY <2>1, <2>2 DEF EntryInHand
<1>29. CASE Finish
  <2>1. QueueConsistent' /\ ~Busy'
    BY <1>29, FinishStep
  <2>2. epc' \notin {"dispatch", "finish"} /\ cur'.seq = 0
    BY <1>29 DEF Finish, NoEntry
  <2> QED
    BY <2>1, <2>2 DEF EntryInHand
<1>30. CASE OnTerminate
  BY <1>30, QuietKeeps DEF OnTerminate, QuietMove
<1>31. CASE UNCHANGED vars
  BY <1>31, QuietKeeps DEF vars, ring, QuietMove
<1> QED
  BY <1>2, <1>3, <1>4, <1>5, <1>6, <1>7, <1>8, <1>9, <1>10, <1>11,
     <1>12, <1>13, <1>14, <1>15, <1>16, <1>17, <1>18, <1>19, <1>20, <1>21,
     <1>22, <1>23, <1>24, <1>25, <1>26, <1>27, <1>28, <1>29, <1>30, <1>31
     DEF Next, ReaderStep, EmulatorStep, Terminated

\* The inductive invariant holds in every reachable state.
THEOREM QueueInvariant == Spec => []QueueInv
<1>1. Init => QueueInv
  <2>1. Init => TypeOK
    BY InitType
  <2>2. Init => /\ head = 0 /\ tail = 0 /\ next_seq = 0 /\ done_seq = 0
                /\ cur.seq = 0 /\ epc = "frame"
    BY DEF Init, NoEntry
  <2>3. Init => Count = 0 /\ ~Busy
    BY <2>2 DEF Count, Dist, Busy
  <2>4. Init => \A i \in Slots : Dist(head, i) \in Nat
    BY <2>2 DEF Dist, Slots
  <2> QED
    BY <2>1, <2>2, <2>3, <2>4 DEF QueueInv, QueueConsistent, EntryInHand, Slots
<1>2. QueueInv /\ [Next]_vars => QueueInv'
  BY QueueStep
<1> QED
  BY <1>1, <1>2, PTL DEF Spec

\* The ring never loses, repeats or overwrites an entry, for every ring size.
THEOREM QueueCorrect == Spec => []QueueConsistent
<1>1. QueueInv => QueueConsistent
  BY DEF QueueInv
<1> QED
  BY <1>1, QueueInvariant, PTL

\* gemu_monitor_poll runs every entry once, in the order it was queued.
THEOREM RunsInOrder == Spec => RunInOrder
<1>1. QueueInv /\ [Next]_vars
        => [cur' # cur /\ cur'.seq # 0 => cur'.seq = done_seq + 1]_vars
  BY QueueStep
<1> QED
  BY <1>1, QueueInvariant, PTL DEF Spec, RunInOrder

-----------------------------------------------------------------------------
\* What a client is told.

Waiting == {"queued", "wait", "woken", "timedout"}
Captured == Gmp /\ req.kind = "TEXT"

\* What an entry with the request's number says, and one that captures.
OfRequest(e, r, captured) ==
    /\ e.seq = r.seq => e.cmd = r.cmd /\ e.capture = captured
    /\ e.capture => e.seq <= r.seq

Numbered ==
    /\ rpc = "submit" => req.seq = 0
    /\ rpc \in Waiting => req.seq # 0
    /\ req.seq <= next_seq
    /\ \A i \in Slots : queue[i].seq <= next_seq

Linked ==
    req.seq # 0 =>
        OfRequest(cur, req, Captured) /\ \A i \in Slots : OfRequest(queue[i], req, Captured)

\* The output is captured for the entry in hand and printed by it at most.
CaptureInv ==
    /\ IF Busy THEN capturing = cur.capture ELSE ~capturing
    /\ epc = "finish" => ret.cmd = cur.cmd
    /\ \A s \in printed : s <= done_seq \/ (s = cur.seq /\ epc # "dispatch")

Effect ==
    req.seq # 0 /\ req.seq <= done_seq /\ req.cmd \in {"NONE", "STOP", "CONT"} => req.seq \in acted

Shown == IF req.seq \in printed THEN req.seq ELSE 0

\* Between the run of a captured request and its collection the buffer holds
\* its output.
BufferKept ==
    rpc \in Waiting /\ req.seq # 0 /\ Captured =>
        /\ req.seq <= done_seq => capture_buf = Shown
        /\ cur.seq = req.seq /\ epc = "dispatch" => capture_buf = 0
        /\ cur.seq = req.seq /\ epc = "finish" => capture_buf = Shown

AnswerInv == Numbered /\ Linked /\ CaptureInv /\ Effect /\ BufferKept /\ OkMeansRun /\ OwnOutput

\* A step that leaves the ring, the entry in hand, the output and the request
\* alone, and brings neither thread where these matter.
LEMMA AnswerQuiet ==
  ASSUME AnswerInv, UNCHANGED <<config, ring, cur, capture, printed, req>>, acted \subseteq acted',
         epc' = "dispatch" => epc = "dispatch",
         epc' = "finish" => epc = "finish" /\ ret' = ret,
         rpc' = "submit" => rpc = "submit",
         rpc' \in Waiting => rpc \in Waiting,
         rpc' = "reply" => rpc = "reply"
  PROVE  AnswerInv'
<1> USE DEF AnswerInv, config, ring, capture
<1>1. Numbered'
  BY DEF Numbered
<1>2. Linked'
  BY DEF Linked, Captured, Gmp
<1>3. CaptureInv'
  BY DEF CaptureInv, Busy
<1>4. Effect'
  BY DEF Effect
<1>5. BufferKept'
  BY DEF BufferKept, Shown, Captured, Gmp
<1>6. OkMeansRun' /\ OwnOutput'
  BY DEF OkMeansRun, OwnOutput, Gmp
<1> QED
  BY <1>1, <1>2, <1>3, <1>4, <1>5, <1>6

\* A request that begins has no number yet.
LEMMA AnswerBegins ==
  ASSUME TypeOK, AnswerInv, NEW kind, NEW cmd, req' = NewRequest(kind, cmd),
         UNCHANGED <<config, ring, cur, capture, printed, acted, epc, ret>>, rpc' \notin Waiting
  PROVE  AnswerInv'
<1> USE DEF AnswerInv, config, ring, capture
<1>1. req'.seq = 0 /\ req'.res = "-" /\ next_seq \in Nat
  BY DEF NewRequest, TypeOK, DataOK
<1>2. Numbered'
  BY <1>1 DEF Numbered
<1>3. Linked' /\ Effect' /\ BufferKept'
  BY <1>1 DEF Linked, Effect, BufferKept
<1>4. CaptureInv'
  BY DEF CaptureInv, Busy
<1>5. OkMeansRun' /\ OwnOutput'
  BY <1>1 DEF OkMeansRun, OwnOutput
<1> QED
  BY <1>2, <1>3, <1>4, <1>5

\* Queueing an entry that is not the request's: it does not capture.
LEMMA AnswerOwn ==
  ASSUME QueueInv, AnswerInv, NEW kind, NEW cmd, EnqueueOwn(kind, cmd)
  PROVE  AnswerInv'
<1> USE DEF AnswerInv
<1>1. /\ next_seq' = next_seq + 1 /\ tail \in Slots /\ next_seq \in Nat /\ req.seq \in Nat
      /\ queue' = [queue EXCEPT ![tail] = [kind |-> kind, cmd |-> cmd, capture |-> FALSE, seq |-> next_seq + 1]]
      /\ queue \in [Slots -> Entries]
  BY RingTypes DEF EnqueueOwn, Put, NextSeq, QueueInv, TypeOK, DataOK, Requests
<1>2. UNCHANGED <<config, done_seq, cur, capture, printed, req, acted, epc, ret, rpc>>
  BY DEF EnqueueOwn, Put, reader, emulator, history
<1> DEFINE new == [kind |-> kind, cmd |-> cmd, capture |-> FALSE, seq |-> next_seq + 1]
<1>3. \A i \in Slots : queue'[i] = queue[i] \/ queue'[i] = new
  <2> HIDE DEF new
  <2> QED
    BY <1>1 DEF new
<1>4. Numbered'
  BY <1>1, <1>2, <1>3, RingTypes DEF Numbered, QueueInv
<1>5. Linked'
  <2>1. OfRequest(new, req, Captured)
    <3>1. next_seq + 1 # req.seq
      BY <1>1 DEF Numbered
    <3>2. new.seq = next_seq + 1 /\ ~new.capture
      OBVIOUS
    <3> QED
      BY <3>1, <3>2, Zenon DEF OfRequest
  <2>2. Captured' = Captured
    BY <1>2 DEF Captured, Gmp, config
  <2> QED
    BY <1>2, <1>3, <2>1, <2>2 DEF Linked
<1>6. CaptureInv' /\ Effect' /\ BufferKept' /\ OkMeansRun' /\ OwnOutput'
  BY <1>2 DEF CaptureInv, Busy, Effect, BufferKept, Shown, Captured, OkMeansRun, OwnOutput, Gmp, config, capture
<1> QED
  BY <1>4, <1>5, <1>6

\* What the steps of the emulator thread need from the other invariants.
LEMMA AnswerTypes ==
  ASSUME QueueInv
  PROVE  /\ next_seq \in Nat /\ done_seq \in Nat /\ cur.seq \in Nat /\ req.seq \in Nat
         /\ printed \subseteq Nat /\ capture_buf \in Nat /\ capturing \in BOOLEAN /\ cur.capture \in BOOLEAN
         /\ head \in Slots /\ queue[head].capture \in BOOLEAN /\ queue[head].seq \in Nat
         /\ cur.seq <= next_seq /\ done_seq <= next_seq
<1>1. /\ next_seq \in Nat /\ done_seq \in Nat /\ cur.seq \in Nat /\ req.seq \in Nat
      /\ printed \subseteq Nat /\ capture_buf \in Nat /\ cur.capture \in BOOLEAN
  BY DEF QueueInv, TypeOK, DataOK, Entries, Requests
<1>2. capturing \in BOOLEAN
  BY DEF QueueInv, TypeOK, FlagsOK
<1>3. head \in Slots /\ queue[head] \in Entries /\ Count \in Nat
  BY RingTypes DEF QueueInv, TypeOK, DataOK, Slots
<1>4. queue[head].capture \in BOOLEAN /\ queue[head].seq \in Nat
  BY <1>3 DEF Entries
<1>5. cur.seq <= next_seq /\ done_seq <= next_seq
  BY <1>1, <1>3 DEF QueueInv, QueueConsistent, Busy
<1> QED
  BY <1>1, <1>2, <1>3, <1>4, <1>5

\* Submitting a request gives it a number that no entry has had.
LEMMA AnswerSubmit ==
  ASSUME QueueInv, AnswerInv, Submit
  PROVE  AnswerInv'
<1> USE DEF AnswerInv
<1>1. UNCHANGED <<config, done_seq, cur, capture, printed, acted, epc, ret>>
  <2>1. UNCHANGED done_seq
    BY DEF Submit, Put, ring
  <2> QED
    BY <2>1 DEF Submit, emulator, history
<1>2. /\ rpc = "submit" /\ req.seq = 0 /\ req \in Requests /\ tail \in Slots /\ queue \in [Slots -> Entries]
      /\ next_seq \in Nat /\ done_seq \in Nat
  BY RingTypes DEF Submit, Numbered, QueueInv, TypeOK, DataOK
<1>3. CaptureInv'
  BY <1>1 DEF CaptureInv, Busy, capture
<1>4. Captured' = Captured
  BY <1>1, <1>2 DEF Submit, Captured, Gmp, config, Requests
<1>5. CASE Full
  <2>1. req' = [req EXCEPT !.res = "QUEUE_FULL"] /\ rpc' = "reply" /\ UNCHANGED ring
    BY <1>5 DEF Submit
  <2>2. req'.seq = 0 /\ req'.res = "QUEUE_FULL"
    BY <1>2, <2>1 DEF Requests
  <2> QED
    BY <1>1, <1>2, <1>3, <2>1, <2>2
       DEF Numbered, Linked, Effect, BufferKept, OkMeansRun, OwnOutput, Waiting, ring
<1>6. CASE ~Full
  <2> DEFINE new == [kind |-> req.kind, cmd |-> req.cmd, capture |-> Captured, seq |-> next_seq + 1]
  <2>1. queue' = [queue EXCEPT ![tail] = new] /\ next_seq' = next_seq + 1
    BY <1>6 DEF Submit, Put, NextSeq, Captured
  <2>2. /\ req'.seq = next_seq + 1 /\ req'.cmd = req.cmd /\ rpc' \in {"wait", "queued", "reply"}
        /\ rpc' = "reply" => req'.res = "TIMEOUT"
    BY <1>2, <1>6 DEF Submit, NextSeq, Requests
  <2>3. \A i \in Slots : queue'[i] = queue[i] \/ queue'[i] = new
    <3> HIDE DEF new
    <3> QED
      BY <1>2, <2>1 DEF new
  <2>4. Numbered'
    BY <1>2, <2>1, <2>2, <2>3, RingTypes DEF Numbered, QueueInv
  <2>5. \A i \in Slots : OfRequest(queue[i], req', Captured)
    BY <1>2, <2>2, RingTypes DEF OfRequest, Numbered, QueueInv
  <2>6. OfRequest(cur, req', Captured)
    BY <1>2, <2>2, AnswerTypes DEF OfRequest
  <2>7. OfRequest(new, req', Captured)
    <3>1. new.seq = req'.seq /\ new.cmd = req'.cmd /\ new.capture = Captured /\ new.seq <= req'.seq
      BY <1>2, <2>2
    <3> HIDE DEF new
    <3> QED
      BY <3>1 DEF OfRequest
  <2>8. Linked'
    BY <1>1, <1>4, <2>3, <2>5, <2>6, <2>7 DEF Linked
  <2>9. Effect' /\ BufferKept'
    BY <1>1, <1>2, <2>2, AnswerTypes DEF Effect, BufferKept
  <2>10. OkMeansRun' /\ OwnOutput'
    BY <2>2 DEF OkMeansRun, OwnOutput
  <2> QED
    BY <1>3, <2>4, <2>8, <2>9, <2>10
<1> QED
  BY <1>5, <1>6

\* The end of a wait: a request is reported as run only when it has been, and
\* is given what the buffer holds.
LEMMA AnswerCollect ==
  ASSUME QueueInv, AnswerInv, Collect, rpc \in Waiting,
         UNCHANGED <<config, ring, capturing, emulator, printed, acted>>
  PROVE  AnswerInv'
<1> USE DEF AnswerInv, config, ring, emulator
<1>1. /\ rpc' = "reply" /\ req.seq # 0 /\ req \in Requests /\ done_seq \in Nat /\ req.seq \in Nat
  BY DEF Collect, Numbered, QueueInv, TypeOK, DataOK, Requests
<1>2. /\ req'.seq = req.seq /\ req'.cmd = req.cmd /\ req'.kind = req.kind
      /\ req'.res = "OK" => req.seq <= done_seq
      /\ req'.res = "OK" /\ Captured => req'.out = capture_buf
  BY <1>1 DEF Collect, IsDone, Captured, Requests
<1>3. Numbered'
  BY <1>1, <1>2 DEF Numbered, Waiting
<1>4. Linked'
  BY <1>1, <1>2 DEF Linked, OfRequest, Captured, Gmp
<1>5. CaptureInv' /\ Effect' /\ BufferKept'
  BY <1>1, <1>2 DEF CaptureInv, Busy, Effect, BufferKept, Waiting
<1>6. OkMeansRun'
  BY <1>1, <1>2 DEF OkMeansRun
<1>7. OwnOutput'
  BY <1>1, <1>2 DEF OwnOutput, BufferKept, Shown, Captured, Gmp
<1> QED
  BY <1>3, <1>4, <1>5, <1>6, <1>7

\* Taking an entry: the request's own starts with an empty buffer, and a later
\* one does not capture.
LEMMA AnswerPop ==
  ASSUME QueueInv, AnswerInv, PollPop
  PROVE  AnswerInv'
<1> USE DEF AnswerInv
<1>1. /\ cur' = queue[head] /\ epc' = "dispatch" /\ ~Busy /\ cur'.seq = done_seq + 1
      /\ capturing' = (capturing \/ queue[head].capture) /\ capture_buf' = FreshBuffer(queue[head])
  BY PopStep DEF PollPop, EntryInHand, QueueInv
<1>2. UNCHANGED <<config, queue, next_seq, done_seq, req, rpc, printed, acted>>
  BY DEF PollPop, reader, history
<1>3. Numbered' /\ Effect'
  BY <1>2 DEF Numbered, Effect
<1>4. Captured' = Captured
  BY <1>2 DEF Captured, Gmp, config
<1>5. Linked'
  BY <1>1, <1>2, <1>4, AnswerTypes DEF Linked
<1>6. Busy' /\ capturing' = cur'.capture
  BY <1>1, AnswerTypes DEF Busy, CaptureInv
<1>7. \A s \in printed : s <= done_seq
  BY <1>1, AnswerTypes DEF CaptureInv, Busy
<1>8. CaptureInv'
  BY <1>1, <1>2, <1>6, <1>7 DEF CaptureInv
<1>9. BufferKept'
  <2> SUFFICES ASSUME rpc \in Waiting, req.seq # 0, Captured
               PROVE  /\ req.seq <= done_seq => capture_buf' = Shown
                      /\ cur'.seq = req.seq => capture_buf' = 0
    BY <1>1, <1>2, <1>4 DEF BufferKept, Shown
  <2>1. OfRequest(queue[head], req, Captured)
    BY AnswerTypes DEF Linked
  <2>2. req.seq <= done_seq => ~queue[head].capture
    BY <1>1, <2>1, AnswerTypes DEF OfRequest
  <2>3. cur'.seq = req.seq => queue[head].capture
    BY <1>1, <2>1 DEF OfRequest
  <2> QED
    BY <1>1, <2>2, <2>3 DEF BufferKept, FreshBuffer
<1>10. OkMeansRun' /\ OwnOutput'
  BY <1>2 DEF OkMeansRun, OwnOutput, Gmp, config
<1> QED
  BY <1>3, <1>5, <1>8, <1>9, <1>10

\* The handler prints for its own entry only.
LEMMA AnswerDispatch ==
  ASSUME QueueInv, AnswerInv, Dispatch
  PROVE  AnswerInv'
<1> USE DEF AnswerInv
<1>1. /\ epc = "dispatch" /\ epc' = "finish" /\ ret'.cmd = cur.cmd
      /\ \/ UNCHANGED <<capture_buf, printed>>
         \/ capturing /\ capture_buf' = cur.seq /\ printed' = printed \cup {cur.seq}
  BY DEF Dispatch
<1>2. UNCHANGED <<config, ring, req, rpc, cur, capturing, acted>>
  BY DEF Dispatch, reader
<1>3. Busy /\ cur.seq = done_seq + 1
  BY <1>1 DEF QueueInv, EntryInHand, QueueConsistent
<1>4. Numbered' /\ Effect' /\ Linked' /\ OkMeansRun'
  BY <1>2 DEF Numbered, Effect, Linked, OfRequest, Captured, Gmp, OkMeansRun, config, ring
<1>5. \A s \in printed : s <= done_seq
  BY <1>1 DEF CaptureInv
<1>6. \A s \in printed' : s <= done_seq \/ s = cur.seq
  BY <1>1, <1>5
<1>7. CaptureInv'
  BY <1>1, <1>2, <1>3, <1>6 DEF CaptureInv, Busy, ring
<1>8. BufferKept'
  <2> SUFFICES ASSUME rpc \in Waiting, req.seq # 0, Captured
               PROVE  /\ req.seq <= done_seq => capture_buf' = Shown'
                      /\ cur.seq = req.seq => capture_buf' = Shown'
    BY <1>1, <1>2 DEF BufferKept, Captured, Gmp, config, ring
  <2>1. OfRequest(cur, req, Captured)
    BY DEF Linked
  <2>2. ASSUME req.seq <= done_seq
        PROVE  capture_buf' = Shown'
    <3>1. ~capturing
      BY <1>3, <2>1, <2>2, AnswerTypes DEF OfRequest, CaptureInv
    <3> QED
      BY <1>1, <1>2, <2>2, <3>1 DEF BufferKept, Shown
  <2>3. ASSUME cur.seq = req.seq
        PROVE  capture_buf' = Shown'
    <3>1. req.seq \notin printed
      BY <1>3, <1>5, <2>3, AnswerTypes
    <3>2. capture_buf = 0
      BY <1>1, <2>3 DEF BufferKept
    <3> QED
      BY <1>1, <1>2, <2>3, <3>1, <3>2 DEF Shown
  <2> QED
    BY <2>2, <2>3
<1>9. OwnOutput'
  <2>1. rpc = "reply" /\ req.res = "OK" => cur.seq # req.seq
    BY <1>3, AnswerTypes DEF OkMeansRun, Busy
  <2> QED
    BY <1>1, <1>2, <2>1 DEF OwnOutput, Gmp, config
<1> QED
  BY <1>4, <1>7, <1>8, <1>9

\* Finishing an entry: what its command completes at once is done.
LEMMA AnswerFinish ==
  ASSUME QueueInv, AnswerInv, Finish
  PROVE  AnswerInv'
<1> USE DEF AnswerInv
<1>1. /\ Busy /\ cur.seq = done_seq + 1 /\ epc = "finish" /\ ret.cmd = cur.cmd
  BY DEF Finish, CaptureInv, QueueInv, EntryInHand, QueueConsistent
<1>2. /\ done_seq' = done_seq + 1 /\ cur' = NoEntry /\ capturing' = FALSE /\ rpc' = Woken
      /\ epc' \in {"drain", "handle"} /\ acted \subseteq acted'
      /\ Completes(ret.cmd, PausedAfter(ret.cmd)) => cur.seq \in acted'
  BY <1>1, AnswerTypes DEF Finish, CapturingEnds
<1>3. UNCHANGED <<config, queue, next_seq, req, capture_buf, printed>>
  BY DEF Finish
<1>4. /\ rpc' \in Waiting => rpc \in Waiting
      /\ rpc' = "reply" => rpc = "reply"
      /\ rpc' = "submit" => rpc = "submit"
  BY <1>2 DEF Woken, Waiting
<1>5. Captured' = Captured
  BY <1>3 DEF Captured, Gmp, config
<1>6. Numbered'
  BY <1>3, <1>4 DEF Numbered
<1>7. Linked'
  BY <1>2, <1>3, <1>5, AnswerTypes DEF Linked, OfRequest, NoEntry
<1>8. CaptureInv'
  BY <1>1, <1>2, <1>3, AnswerTypes DEF CaptureInv, Busy, NoEntry
<1>9. Effect'
  <2> SUFFICES ASSUME req.seq # 0, req.seq <= done_seq + 1, req.cmd \in {"NONE", "STOP", "CONT"}
               PROVE  req.seq \in acted'
    BY <1>2, <1>3 DEF Effect
  <2>1. CASE req.seq <= done_seq
    BY <1>2, <2>1 DEF Effect
  <2>2. CASE req.seq = done_seq + 1
    <3>1. ret.cmd = req.cmd
      BY <1>1, <2>2 DEF Linked, OfRequest
    <3>2. Completes(ret.cmd, PausedAfter(ret.cmd))
      BY <3>1 DEF Completes, PausedAfter
    <3> QED
      BY <1>1, <1>2, <2>2, <3>2
  <2> QED
    BY <2>1, <2>2, AnswerTypes
<1>10. BufferKept'
  <2> SUFFICES ASSUME rpc \in Waiting, req.seq # 0, Captured, req.seq <= done_seq + 1
               PROVE  capture_buf = Shown
    BY <1>2, <1>3, <1>4, <1>5 DEF BufferKept, Shown
  <2> QED
    BY <1>1, AnswerTypes DEF BufferKept
<1>11. OkMeansRun' /\ OwnOutput'
  BY <1>2, <1>3, <1>4, AnswerTypes DEF OkMeansRun, OwnOutput, Gmp, config
<1> QED
  BY <1>6, <1>7, <1>8, <1>9, <1>10, <1>11

\* One step keeps what clients are told true.
LEMMA AnswerStep == QueueInv /\ AnswerInv /\ [Next]_vars => AnswerInv'
<1> SUFFICES ASSUME QueueInv, AnswerInv, [Next]_vars
             PROVE  AnswerInv'
  OBVIOUS
<1> USE DEF config, ring, capture, reader, emulator, history
<1>1. CASE AcceptLoop \/ Accept \/ ReaderLoop \/ EndOfChunk \/ ReadPassword \/ EndOfInput \/ CloseClient \/ Cancelled
  <2>1. /\ UNCHANGED <<config, ring, cur, capture, printed, req, acted, epc, ret>>
        /\ rpc' \notin Waiting \cup {"submit", "reply"}
    BY <1>1 DEF AcceptLoop, Accept, ReaderLoop, EndOfChunk, ReadPassword, EndOfInput, CloseClient, Cancelled,
                AfterLoop, Waiting
  <2> QED
    BY <2>1, AnswerQuiet
<1>2. CASE WaitTimeout
  BY <1>2, AnswerQuiet DEF WaitTimeout, Waiting
<1>3. CASE WaitDone \/ AfterTimeout
  <2>1. CASE Collect
    <3>1. rpc \in Waiting /\ UNCHANGED <<config, ring, capturing, emulator, printed, acted>>
      BY <1>3 DEF WaitDone, AfterTimeout, Waiting
    <3> QED
      BY <2>1, <3>1, AnswerCollect
  <2>2. CASE ~Collect
    <3>1. WaitDone /\ rpc' = "wait" /\ UNCHANGED <<req, capture_buf>> /\ rpc \in Waiting
      BY <1>3, <2>2 DEF WaitDone, AfterTimeout, Waiting
    <3>2. UNCHANGED <<config, ring, cur, capture, printed, req, acted, epc, ret>>
      BY <3>1 DEF WaitDone
    <3> QED
      BY <3>1, <3>2, AnswerQuiet DEF Waiting
  <2> QED
    BY <2>1, <2>2
<1>4. CASE Submit
  BY <1>4, AnswerSubmit
<1>5. CASE AnswerQuery
  <2>1. /\ req' = [req EXCEPT !.res = "OK"] /\ rpc' = "reply" /\ req.kind = "QUERY" /\ req.seq = 0 /\ req \in Requests
        /\ UNCHANGED <<config, ring, cur, capture, printed, acted, epc, ret>>
    BY <1>5 DEF AnswerQuery, AnswerInv, Numbered, QueueInv, TypeOK, DataOK
  <2>2. req'.seq = 0 /\ req'.kind = "QUERY"
    BY <2>1 DEF Requests
  <2> QED
    BY <2>1, <2>2 DEF AnswerInv, Numbered, Linked, CaptureInv, Busy, Effect, BufferKept, OkMeansRun, OwnOutput, Waiting
<1>6. CASE Reply
  <2>1. rpc' \notin Waiting
    BY <1>6 DEF Reply, Waiting, AfterLoop
  <2> QED
    BY <1>6, <2>1, AnswerBegins DEF Reply, QueueInv
<1>7. ASSUME NEW kind, NEW cmd, ReceiveRequest(kind, cmd)
      PROVE  AnswerInv'
  BY <1>7, AnswerBegins DEF ReceiveRequest, QueueInv, Waiting
<1>8. ASSUME NEW kind, NEW cmd, EnqueueOwn(kind, cmd)
      PROVE  AnswerInv'
  BY <1>8, AnswerOwn
<1>9. CASE PollPop
  BY <1>9, AnswerPop
<1>10. CASE Dispatch
  BY <1>10, AnswerDispatch
<1>11. CASE Finish
  BY <1>11, AnswerFinish
<1>12. CASE Pause \/ EndFrame \/ PollEnter \/ PollEmpty \/ HandleCommand \/ StopClose \/ StopJoin \/ Destroy
  <2>1. /\ UNCHANGED <<config, ring, cur, capture, printed, reader>> /\ acted \subseteq acted'
        /\ epc' \in {"dispatch", "finish"} => UNCHANGED <<epc, ret>>
    BY <1>12 DEF Pause, EndFrame, PollEnter, PollEmpty, HandleCommand, StopClose, StopJoin, Destroy, AfterPoll
  <2> QED
    BY <2>1, AnswerQuiet
<1>13. CASE StopBegin
  <2>1. /\ UNCHANGED <<config, ring, cur, capture, printed, req, acted>> /\ epc' \in {"stopped", "settle"}
        /\ rpc' = rpc \/ rpc' = Woken
    BY <1>13 DEF StopBegin
  <2> QED
    BY <2>1, AnswerQuiet DEF Woken, Waiting
<1>14. CASE OnTerminate
  <2>1. /\ UNCHANGED <<config, ring, cur, capture, printed, req, acted, ret>>
        /\ UNCHANGED <<epc, rpc>> \/ (epc' = "killed" /\ rpc' = "killed")
    BY <1>14 DEF OnTerminate
  <2> QED
    BY <2>1, AnswerQuiet DEF Waiting
<1>15. CASE UNCHANGED vars
  BY <1>15, AnswerQuiet DEF vars
<1> QED
  BY <1>1, <1>2, <1>3, <1>4, <1>5, <1>6, <1>7, <1>8, <1>9, <1>10, <1>11, <1>12, <1>13, <1>14, <1>15
     DEF Next, ReaderStep, EmulatorStep, Terminated

LEMMA AnswerInit == Init => AnswerInv
<1> SUFFICES ASSUME Init
             PROVE  AnswerInv
  OBVIOUS
<1>1. req.seq = 0 /\ req.res = "-" /\ cur = NoEntry /\ rpc \in {"off", "accept", "loop"} /\ epc = "frame"
  BY DEF Init, NewRequest
<1>2. Numbered
  BY <1>1 DEF Numbered, Init, NoEntry, Slots, Waiting
<1> QED
  BY <1>1, <1>2 DEF AnswerInv, Linked, CaptureInv, Busy, NoEntry, Effect, BufferKept, OkMeansRun, OwnOutput, Init

\* What a client is told of its command holds, for every ring size, transport
\* and mix of commands: an OK means that the entry was run, that a stop or cont
\* has taken effect, and that the output is its own and no other's; timeouts
\* that race the emulator thread do not change that.
THEOREM ClientsObeyed == Spec => []CommandsObeyed
<1>1. Init => AnswerInv
  BY AnswerInit
<1>2. AnswerInv => CommandsObeyed
  BY DEF AnswerInv, Effect, OkMeansRun, StopContEffective, CommandsObeyed
<1> QED
  BY <1>1, <1>2, AnswerStep, QueueInvariant, PTL DEF Spec

-----------------------------------------------------------------------------
\* What termination takes from the reader.

InRequest == Waiting \cup {"submit", "reply"}
Serving == InRequest \cup {"loop", "read", "feed"}
Closed == {"join", "stopped", "freed", "leaked", "killed"}

\* A GMP reply that is due is announced, and stops gemu_monitor_stop from
\* closing the socket; once that has happened nothing is run any more, so a
\* request that still comes out of the buffer is not reported as run.
OutlivedInv ==
    /\ Gmp /\ rpc \in InRequest => replying
    /\ backend = "gmp" /\ rpc \in Serving => client_fd \/ epc \in Closed
    /\ backend = "gmp" /\ rpc \in InRequest =>
         client_fd \/ gave_up \/ req.seq = 0 \/ req.seq > done_seq
    /\ epc \in {"stopped", "freed"} => rpc \in {"exit", "off"}

\* A step that does not bring the reader to a request, nor closes a socket or
\* runs an entry.
LEMMA OutlivedQuiet ==
  ASSUME OutlivedInv, UNCHANGED <<backend, replying, client_fd, gave_up, done_seq>>,
         rpc' \in InRequest => rpc \in InRequest /\ req'.seq = req.seq,
         rpc' \in Serving => rpc \in Serving,
         epc \in Closed => epc' \in Closed,
         epc' \in {"stopped", "freed"} => rpc' \in {"exit", "off"}
  PROVE  OutlivedInv'
BY DEF OutlivedInv, Gmp

LEMMA OutlivedStep == QueueInv /\ OutlivedInv /\ [Next]_vars => OutlivedInv'
<1> SUFFICES ASSUME QueueInv, OutlivedInv, [Next]_vars
             PROVE  OutlivedInv'
  OBVIOUS
<1> USE DEF config, ring, capture, sockets, reader, emulator, history, InRequest, Serving, Closed, Waiting
<1>0. epc \in {"stopped", "freed"} => rpc \in {"exit", "off"}
  BY DEF OutlivedInv
<1>1. CASE AcceptLoop \/ ReaderLoop \/ EndOfChunk \/ ReadPassword \/ EndOfInput \/ Cancelled \/ WaitTimeout
  <2>1. /\ UNCHANGED <<backend, replying, client_fd, gave_up, done_seq, epc, req>>
        /\ rpc' \in InRequest => rpc \in InRequest
        /\ rpc' \in Serving => rpc \in Serving \/ backend # "gmp"
        /\ rpc \notin {"exit", "off"}
    BY <1>1 DEF AcceptLoop, ReaderLoop, EndOfChunk, ReadPassword, EndOfInput, Cancelled, WaitTimeout, AfterLoop, Gmp, Socket
  <2> QED
    BY <1>0, <2>1 DEF OutlivedInv, Gmp, Socket
<1>2. CASE Accept
  <2>1. /\ UNCHANGED <<backend, replying, gave_up, done_seq, epc>> /\ rpc = "select"
        /\ \/ rpc' = "loop" /\ client_fd' = TRUE
           \/ rpc' = "accept"
    BY <1>2 DEF Accept
  <2> QED
    BY <1>0, <2>1 DEF OutlivedInv, Gmp
<1>3. CASE WaitDone \/ AfterTimeout
  <2>1. /\ UNCHANGED <<backend, replying, client_fd, gave_up, done_seq, epc>>
        /\ rpc \in InRequest /\ rpc' \in InRequest /\ req'.seq = req.seq
    BY <1>3 DEF WaitDone, AfterTimeout, Collect, QueueInv, TypeOK, DataOK, Requests
  <2> QED
    BY <1>0, <2>1, OutlivedQuiet
<1>4. CASE Submit
  <2>1. UNCHANGED <<backend, replying, client_fd, gave_up, done_seq, epc>>
    BY <1>4 DEF Submit, Put
  <2>2. /\ rpc = "submit" /\ rpc' \in InRequest
        /\ req'.seq = req.seq \/ req'.seq = next_seq + 1
    BY <1>4 DEF Submit, NextSeq, QueueInv, TypeOK, DataOK, Requests
  <2>3. next_seq + 1 > done_seq
    BY AnswerTypes
  <2> QED
    BY <1>0, <2>1, <2>2, <2>3 DEF OutlivedInv, Gmp
<1>5. CASE AnswerQuery
  <2>1. /\ UNCHANGED <<backend, replying, client_fd, gave_up, done_seq, epc>>
        /\ rpc \in InRequest /\ rpc' \in InRequest /\ req'.seq = req.seq
    BY <1>5 DEF AnswerQuery, QueueInv, TypeOK, DataOK, Requests
  <2> QED
    BY <1>0, <2>1, OutlivedQuiet
<1>6. CASE Reply
  <2>1. /\ UNCHANGED <<backend, client_fd, gave_up, done_seq, epc>>
        /\ rpc \in InRequest /\ rpc' \notin InRequest
    BY <1>6 DEF Reply, AfterLoop
  <2> QED
    BY <1>0, <2>1 DEF OutlivedInv
<1>7. ASSUME NEW kind, NEW cmd, ReceiveRequest(kind, cmd)
      PROVE  OutlivedInv'
  <2>1. /\ UNCHANGED <<backend, client_fd, gave_up, done_seq, epc>> /\ rpc \in Serving /\ rpc' = "submit"
        /\ replying' = ReplyAnnounced /\ req'.seq = 0
    BY <1>7 DEF ReceiveRequest, NewRequest
  <2> QED
    BY <1>0, <2>1 DEF OutlivedInv, ReplyAnnounced, Gmp
<1>8. CASE CloseClient
  <2>1. /\ UNCHANGED <<backend, replying, gave_up, done_seq, epc>> /\ rpc = "close" /\ rpc' = "accept"
    BY <1>8 DEF CloseClient
  <2> QED
    BY <1>0, <2>1 DEF OutlivedInv
<1>9. ASSUME NEW kind, NEW cmd, EnqueueOwn(kind, cmd)
      PROVE  OutlivedInv'
  BY <1>0, <1>9, OutlivedQuiet DEF EnqueueOwn, Put
<1>10. CASE Pause \/ EndFrame \/ PollEnter \/ PollEmpty \/ PollPop \/ Dispatch \/ HandleCommand
  <2>1. /\ UNCHANGED <<backend, replying, client_fd, gave_up, done_seq, rpc, req>>
        /\ epc \notin Closed /\ epc' \notin {"stopped", "freed"}
    BY <1>10 DEF Pause, EndFrame, PollEnter, PollEmpty, PollPop, Dispatch, HandleCommand, AfterPoll
  <2> QED
    BY <2>1, OutlivedQuiet
<1>11. CASE Finish
  <2>1. /\ UNCHANGED <<backend, replying, client_fd, gave_up, req>> /\ epc = "finish"
        /\ epc' \in {"drain", "handle"} /\ rpc' = Woken
    BY <1>11 DEF Finish
  <2>2. (rpc' \in InRequest => rpc \in InRequest) /\ (rpc' \in Serving => rpc \in Serving)
    BY <2>1 DEF Woken
  <2> QED
    BY <2>1, <2>2 DEF OutlivedInv, Gmp
<1>12. CASE StopBegin
  <2>1. /\ UNCHANGED <<backend, replying, client_fd, gave_up, done_seq, req>> /\ epc = "stop"
        /\ \/ epc' = "stopped" /\ rpc = "off" /\ rpc' = rpc
           \/ epc' = "settle" /\ rpc' = Woken
    BY <1>12 DEF StopBegin
  <2> QED
    BY <2>1, OutlivedQuiet DEF Woken
<1>13. CASE StopClose
  <2>1. /\ UNCHANGED <<backend, replying, done_seq, rpc, req>> /\ epc' = "join"
        /\ gave_up' = (gave_up \/ replying)
    BY <1>13 DEF StopClose
  <2> QED
    BY <2>1 DEF OutlivedInv, Gmp
<1>14. CASE StopJoin \/ Destroy
  <2>1. /\ UNCHANGED <<backend, replying, client_fd, gave_up, done_seq, rpc, req>>
        /\ epc' \in Closed
        /\ epc' \in {"stopped", "freed"} => rpc = "exit" \/ epc = "stopped"
    BY <1>14 DEF StopJoin, Destroy, Joined
  <2> QED
    BY <1>0, <2>1, OutlivedQuiet
<1>15. CASE OnTerminate
  <2>1. /\ UNCHANGED <<backend, replying, client_fd, gave_up, done_seq, req>>
        /\ UNCHANGED <<epc, rpc>> \/ (epc' = "killed" /\ rpc' = "killed")
    BY <1>15 DEF OnTerminate
  <2> QED
    BY <1>0, <2>1, OutlivedQuiet
<1>16. CASE UNCHANGED vars
  BY <1>0, <1>16, OutlivedQuiet DEF vars
<1> QED
  BY <1>1, <1>2, <1>3, <1>4, <1>5, <1>6, <1>7, <1>8, <1>9, <1>10, <1>11, <1>12, <1>13, <1>14, <1>15, <1>16
     DEF Next, ReaderStep, EmulatorStep, Terminated

\* The socket of a client is not closed under the answer to a request that was
\* run, unless gemu_monitor_stop has waited for it, and the monitor is freed
\* only after its reader has ended: on every transport and platform.
THEOREM ReadersOutlived == Spec => []ReaderOutlived
<1>1. Init => OutlivedInv
  BY DEF Init, OutlivedInv, Socket, Gmp, InRequest, Serving, Waiting, Closed
<1>2. AnswerInv /\ OutlivedInv /\ QueueInv => ReaderOutlived
  <2> SUFFICES ASSUME AnswerInv, OutlivedInv, QueueInv
               PROVE  ReplyBeforeClose /\ NoReaderAfterFree
    BY DEF ReaderOutlived
  <2>1. rpc = "reply" /\ req.seq # 0 /\ req.res = "OK" => ~(req.seq > done_seq)
    BY AnswerTypes DEF AnswerInv, OkMeansRun
  <2> QED
    BY <2>1 DEF OutlivedInv, InRequest, ReplyBeforeClose, NoReaderAfterFree
<1> QED
  BY <1>1, <1>2, OutlivedStep, AnswerInit, AnswerStep, QueueInvariant, PTL DEF Spec

----------------------------------------------------------------------------
(***************************************************************************)
(* Vt100: the cursor stays inside the screen and nothing stays undrawn.    *)
(***************************************************************************)

TermSpec == TermInit /\ [][TermNext]_termVars

Pens == {"plain", "blink"}
CharsOf(s) == {s[i] : i \in 1..Len(s)}
\* What the cells show: blanks, what the guest has filled the screen with, and
\* what its strings hold.
TermChars == {" "} \cup {Alphabet[i] : i \in 1..Len(Alphabet)}
             \cup UNION {CharsOf(s) : s \in Strings}
ReportChars == {"ESC", "[", "0", "n", "line", ";", "col", "R", "?", "1", "c"}
CellRecs == [ch : TermChars, cs : {"ascii", "graphics"}, pen : Pens]
TermStates == {"normal", "escape", "csi", "param", "designate"}
CharSets == {"ascii", "graphics", "uk"}

TermRecs ==
  [text : [Cell -> CellRecs], dirty : SUBSET Cell, full_redraw : BOOLEAN,
   line : 0..LastLine, col : 0..LastCol, top : 0..LastLine, bottom : 0..LastLine, origin : BOOLEAN,
   saved : Cell, visible : BOOLEAN, pen : Pens, state : TermStates, params : Seq(Nat),
   private : BOOLEAN, designating_g0 : BOOLEAN, g0 : CharSets, g1 : CharSets,
   invoking_g1 : BOOLEAN, use_graphics : BOOLEAN, out : Seq(ReportChars)]

ParamsOk(q) == Len(q) <= MaxParams /\ \A i \in 1..Len(q) : q[i] <= MaxValue

\* The parts of a terminal agree.
TermOk(t) ==
  /\ t \in TermRecs /\ t.top <= t.bottom /\ ParamsOk(t.params)
  /\ t.state = "param" => t.params # <<>>

\* Every cell whose text u has changed is marked in u, and no mark of t is lost.
Marks(t, u) ==
  /\ t.full_redraw => u.full_redraw
  /\ t.dirty \subseteq u.dirty
  /\ \A p \in Cell : u.full_redraw \/ p \in u.dirty \/ u.text[p] = t.text[p]

\* What every operation on a terminal does.
Works(t, u) == TermOk(u) /\ Marks(t, u)

\* What a change of the other fields leaves alone.
SameScreen(t, u) == u.full_redraw = t.full_redraw /\ u.dirty = t.dirty /\ u.text = t.text

LEMMA ScreenSize ==
  /\ LastLine \in Nat /\ LastCol \in Nat /\ 0 \in 0..LastLine /\ 0 \in 0..LastCol
  /\ LastLine \in 0..LastLine /\ LastCol \in 0..LastCol
BY TermAssumption DEF LastLine, LastCol

LEMMA CellPlace ==
  /\ \A p \in Cell : p = <<p[1], p[2]>> /\ p[1] \in 0..LastLine /\ p[2] \in 0..LastCol
  /\ \A l \in 0..LastLine, c \in 0..LastCol : <<l, c>> \in Cell
BY DEF Cell, LastLine, LastCol

LEMMA WorksTwice ==
  ASSUME NEW t, NEW u, NEW v, Works(t, u), Works(u, v)
  PROVE  Works(t, v)
BY DEF Works, Marks

LEMMA WorksNothing ==
  ASSUME NEW t, TermOk(t)
  PROVE  Works(t, t)
BY DEF Works, Marks

LEMMA SameMarks ==
  ASSUME NEW t, NEW u, SameScreen(t, u)
  PROVE  Marks(t, u)
BY DEF SameScreen, Marks

----------------------------------------------------------------------------
\* Text.

TextSet(t, x, d) == [t EXCEPT !.text = x, !.dirty = d]
TextMoved(t, x, d) == [t EXCEPT !.text = x, !.dirty = d, !.full_redraw = TRUE]

LEMMA TextTyped ==
  ASSUME NEW t \in TermRecs, NEW x \in [Cell -> CellRecs], NEW d \in SUBSET Cell
  PROVE  /\ TextSet(t, x, d) \in TermRecs
         /\ TextSet(t, x, d).text = x /\ TextSet(t, x, d).dirty = d
         /\ TextSet(t, x, d).full_redraw = t.full_redraw
         /\ TextSet(t, x, d).top = t.top /\ TextSet(t, x, d).bottom = t.bottom
         /\ TextSet(t, x, d).params = t.params /\ TextSet(t, x, d).state = t.state
BY DEF TermRecs, TextSet

LEMMA TextWorks ==
  ASSUME NEW t, TermOk(t), NEW x \in [Cell -> CellRecs], NEW d \in SUBSET Cell,
         t.dirty \subseteq d, \A p \in Cell : p \in d \/ x[p] = t.text[p]
  PROVE  Works(t, TextSet(t, x, d))
<1>1. t \in TermRecs
  BY DEF TermOk
<1> DEFINE u == TextSet(t, x, d)
<1> HIDE DEF u
<1>2. /\ u \in TermRecs /\ u.text = x /\ u.dirty = d /\ u.full_redraw = t.full_redraw
      /\ u.top = t.top /\ u.bottom = t.bottom /\ u.params = t.params /\ u.state = t.state
  BY <1>1, TextTyped DEF u
<1>3. TermOk(u)
  BY <1>2 DEF TermOk
<1>4. Marks(t, u)
  BY <1>2 DEF Marks
<1>5. Works(t, u)
  BY <1>3, <1>4 DEF Works
<1> QED
  BY <1>5 DEF u

LEMMA MovedTyped ==
  ASSUME NEW t \in TermRecs, NEW x \in [Cell -> CellRecs], NEW d \in SUBSET Cell
  PROVE  /\ TextMoved(t, x, d) \in TermRecs
         /\ TextMoved(t, x, d).text = x /\ TextMoved(t, x, d).dirty = d
         /\ TextMoved(t, x, d).full_redraw
         /\ TextMoved(t, x, d).top = t.top /\ TextMoved(t, x, d).bottom = t.bottom
         /\ TextMoved(t, x, d).params = t.params /\ TextMoved(t, x, d).state = t.state
BY DEF TermRecs, TextMoved

LEMMA BlankIsCell ==
  ASSUME NEW pen \in Pens
  PROVE  Blank(pen) \in CellRecs
BY DEF Blank, CellRecs, TermChars

LEMMA TermFields ==
  ASSUME NEW t, TermOk(t)
  PROVE  /\ t \in TermRecs /\ t.text \in [Cell -> CellRecs] /\ t.dirty \in SUBSET Cell
        /\ t.full_redraw \in BOOLEAN
         /\ t.line \in 0..LastLine /\ t.col \in 0..LastCol /\ t.top \in 0..LastLine
               /\ t.bottom \in 0..LastLine
         /\ t.saved \in Cell /\ t.pen \in Pens /\ t.params \in Seq(Nat)
         /\ t.top <= t.bottom
BY DEF TermOk, TermRecs

LEMMA clear_line_rangeWorks ==
  ASSUME NEW t, TermOk(t), NEW line, NEW c0, NEW c1
  PROVE  Works(t, clear_line_range(t, line, c0, c1))
<1> DEFINE R == {p \in Cell : p[1] = line /\ p[2] \in c0..c1}
           x == [p \in Cell |-> IF p \in R THEN Blank(t.pen) ELSE t.text[p]]
           d == t.dirty \cup R
<1>1. R \subseteq Cell
  OBVIOUS
<1>2. clear_line_range(t, line, c0, c1) = TextSet(t, x, d)
  BY DEF TextSet, clear_line_range
<1> HIDE DEF R
<1>3. x \in [Cell -> CellRecs] /\ d \in SUBSET Cell
  BY <1>1, TermFields, BlankIsCell
<1>4. t.dirty \subseteq d /\ \A p \in Cell : p \in d \/ x[p] = t.text[p]
  OBVIOUS
<1> HIDE DEF x, d
<1> QED
  BY <1>2, <1>3, <1>4, TextWorks

LEMMA clear_screen_rangeWorks ==
  ASSUME NEW t, TermOk(t), NEW l0, NEW l1
  PROVE  Works(t, clear_screen_range(t, l0, l1))
<1> DEFINE R == {p \in Cell : p[1] \in l0..l1}
           x == [p \in Cell |-> IF p \in R THEN Blank(t.pen) ELSE t.text[p]]
           d == t.dirty \cup R
<1>1. R \subseteq Cell
  OBVIOUS
<1>2. clear_screen_range(t, l0, l1) = TextSet(t, x, d)
  BY DEF TextSet, clear_screen_range
<1> HIDE DEF R
<1>3. x \in [Cell -> CellRecs] /\ d \in SUBSET Cell
  BY <1>1, TermFields, BlankIsCell
<1>4. t.dirty \subseteq d /\ \A p \in Cell : p \in d \/ x[p] = t.text[p]
  OBVIOUS
<1> HIDE DEF x, d
<1> QED
  BY <1>2, <1>3, <1>4, TextWorks

LEMMA MovedWorks ==
  ASSUME NEW t, TermOk(t), NEW R \in SUBSET (0..LastLine), NEW n \in Int, NEW cleared
  PROVE  Works(t, Moved(t, R, n, cleared))
<1> DEFINE x == [p \in Cell |-> IF p[1] \notin R THEN t.text[p]
                                ELSE IF p[1] + n \in R THEN t.text[<<p[1] + n, p[2]>>]
                                ELSE Blank(t.pen)]
           d == t.dirty \cup {p \in Cell : p[1] = cleared}
<1>1. Moved(t, R, n, cleared) = TextMoved(t, x, d)
  BY DEF Moved, TextMoved
<1>2. t.text \in [Cell -> CellRecs] /\ t.dirty \in SUBSET Cell /\ t \in TermRecs
      /\ Blank(t.pen) \in CellRecs
  BY TermFields, BlankIsCell
<1>3. d \in SUBSET Cell
  BY <1>2
<1>4. ASSUME NEW p \in Cell PROVE x[p] \in CellRecs
  <2>1. CASE p[1] \in R /\ p[1] + n \in R
    <3>1. <<p[1] + n, p[2]>> \in Cell
      BY <2>1, CellPlace
    <3> QED
      BY <1>2, <2>1, <3>1
  <2> QED
    BY <1>2, <2>1
<1>5. x \in [Cell -> CellRecs]
  BY <1>4
<1> HIDE DEF x, d
<1> DEFINE u == Moved(t, R, n, cleared)
<1> HIDE DEF u
<1>6. /\ u \in TermRecs /\ u.text = x /\ u.dirty = d /\ u.full_redraw
      /\ u.top = t.top /\ u.bottom = t.bottom /\ u.params = t.params /\ u.state = t.state
  <2>1. u = TextMoved(t, x, d)
    BY <1>1 DEF u
  <2> QED
    BY <1>2, <1>3, <1>5, <2>1, MovedTyped
<1>7. t.dirty \subseteq d
  BY DEF d
<1>8. Works(t, u)
  BY <1>6, <1>7 DEF Works, Marks, TermOk
<1> QED
  BY <1>8 DEF u

LEMMA RegionsMove ==
  ASSUME NEW t, TermOk(t), NEW n \in Nat
  PROVE  /\ Works(t, scroll_up_region(t)) /\ Works(t, scroll_down_region(t))
         /\ Works(t, insert_line(t, n)) /\ Works(t, delete_line(t, n))
<1>1. /\ t.line \in 0..LastLine /\ t.top \in 0..LastLine /\ t.bottom \in 0..LastLine
      /\ LastLine \in Nat
  BY TermFields, ScreenSize
<1>2. /\ t.top..t.bottom \in SUBSET (0..LastLine)
      /\ (IF t.line <= t.bottom THEN t.line..t.bottom ELSE {t.line}) \in SUBSET (0..LastLine)
      /\ (IF t.line <= t.bottom THEN t.line..t.bottom ELSE {t.bottom}) \in SUBSET (0..LastLine)
  BY <1>1
<1>3. n \in Int /\ -n \in Int /\ 1 \in Int /\ -1 \in Int
  OBVIOUS
<1>4. Works(t, scroll_up_region(t))
  BY <1>2, <1>3, MovedWorks, Zenon DEF scroll_up_region
<1>5. Works(t, scroll_down_region(t))
  BY <1>2, <1>3, MovedWorks, Zenon DEF scroll_down_region
<1>6. Works(t, insert_line(t, n))
  BY <1>2, <1>3, MovedWorks, Zenon DEF insert_line
<1>7. Works(t, delete_line(t, n))
  BY <1>2, <1>3, MovedWorks, Zenon DEF delete_line
<1> QED
  BY <1>4, <1>5, <1>6, <1>7

----------------------------------------------------------------------------
\* Changes of the other fields.

LEMMA FieldsWork ==
  ASSUME NEW t, NEW u \in TermRecs, SameScreen(t, u), u.top <= u.bottom, ParamsOk(u.params),
         u.state = "param" => u.params # <<>>
  PROVE  Works(t, u)
BY SameMarks DEF Works, TermOk

AtSet(t, l, c) == [t EXCEPT !.line = l, !.col = c]

LEMMA AtSetWorks ==
  ASSUME NEW t, TermOk(t), NEW l \in 0..LastLine, NEW c \in 0..LastCol
  PROVE  Works(t, AtSet(t, l, c))
<1>1. /\ AtSet(t, l, c) \in TermRecs
      /\ SameScreen(t, AtSet(t, l, c))
      /\ AtSet(t, l, c).params = t.params
      /\ AtSet(t, l, c).state = t.state
      /\ AtSet(t, l, c).top = t.top
      /\ AtSet(t, l, c).bottom = t.bottom
  BY DEF TermOk, TermRecs, AtSet, SameScreen
<1> QED
  BY <1>1, FieldsWork DEF TermOk

LineSet(t, l) == [t EXCEPT !.line = l]

LEMMA LineSetWorks ==
  ASSUME NEW t, TermOk(t), NEW l \in 0..LastLine
  PROVE  Works(t, LineSet(t, l))
<1>1. /\ LineSet(t, l) \in TermRecs
      /\ SameScreen(t, LineSet(t, l))
      /\ LineSet(t, l).params = t.params
      /\ LineSet(t, l).state = t.state
      /\ LineSet(t, l).top = t.top
      /\ LineSet(t, l).bottom = t.bottom
  BY DEF TermOk, TermRecs, LineSet, SameScreen
<1> QED
  BY <1>1, FieldsWork DEF TermOk

ColSet(t, c) == [t EXCEPT !.col = c]

LEMMA ColSetWorks ==
  ASSUME NEW t, TermOk(t), NEW c \in 0..LastCol
  PROVE  Works(t, ColSet(t, c))
<1>1. /\ ColSet(t, c) \in TermRecs
      /\ SameScreen(t, ColSet(t, c))
      /\ ColSet(t, c).params = t.params
      /\ ColSet(t, c).state = t.state
      /\ ColSet(t, c).top = t.top
      /\ ColSet(t, c).bottom = t.bottom
  BY DEF TermOk, TermRecs, ColSet, SameScreen
<1> QED
  BY <1>1, FieldsWork DEF TermOk

ColMarked(t, c, d) == [t EXCEPT !.col = c, !.dirty = d]

LEMMA ColMarkedWorks ==
  ASSUME NEW t, TermOk(t), NEW c \in 0..LastCol, NEW d \in SUBSET Cell,
         t.dirty \subseteq d
  PROVE  Works(t, ColMarked(t, c, d))
<1>1. /\ ColMarked(t, c, d) \in TermRecs
      /\ ColMarked(t, c, d).full_redraw = t.full_redraw /\ ColMarked(t, c, d).text = t.text
      /\ ColMarked(t, c, d).params = t.params
      /\ ColMarked(t, c, d).state = t.state
      /\ ColMarked(t, c, d).top = t.top
      /\ ColMarked(t, c, d).bottom = t.bottom
      /\ ColMarked(t, c, d).dirty = d
  BY DEF TermOk, TermRecs, ColMarked, SameScreen
<1>2. Marks(t, ColMarked(t, c, d))
  BY <1>1 DEF Marks
<1> QED
  BY <1>1, <1>2 DEF TermOk, Works

ParserSet(t, k, q, h, i) == [t EXCEPT !.state = k, !.params = q, !.private = h, !.designating_g0 = i]

LEMMA ParserSetWorks ==
  ASSUME NEW t, TermOk(t), NEW k \in TermStates, NEW q \in Seq(Nat), NEW h \in BOOLEAN, NEW i \in BOOLEAN,
         ParamsOk(q), k = "param" => q # <<>>
  PROVE  Works(t, ParserSet(t, k, q, h, i))
<1>1. /\ ParserSet(t, k, q, h, i) \in TermRecs
      /\ SameScreen(t, ParserSet(t, k, q, h, i))
      /\ ParserSet(t, k, q, h, i).top = t.top
      /\ ParserSet(t, k, q, h, i).bottom = t.bottom
      /\ ParserSet(t, k, q, h, i).state = k
      /\ ParserSet(t, k, q, h, i).params = q
  BY DEF TermOk, TermRecs, ParserSet, SameScreen
<1> QED
  BY <1>1, FieldsWork DEF TermOk

PenSet(t, n) == [t EXCEPT !.pen = n]

LEMMA PenSetWorks ==
  ASSUME NEW t, TermOk(t), NEW n \in Pens
  PROVE  Works(t, PenSet(t, n))
<1>1. /\ PenSet(t, n) \in TermRecs
      /\ SameScreen(t, PenSet(t, n))
      /\ PenSet(t, n).params = t.params
      /\ PenSet(t, n).state = t.state
      /\ PenSet(t, n).top = t.top
      /\ PenSet(t, n).bottom = t.bottom
  BY DEF TermOk, TermRecs, PenSet, SameScreen
<1> QED
  BY <1>1, FieldsWork DEF TermOk

RegionSet(t, a, b) == [t EXCEPT !.top = a, !.bottom = b]

LEMMA RegionSetWorks ==
  ASSUME NEW t, TermOk(t), NEW a \in 0..LastLine, NEW b \in 0..LastLine,
         a <= b
  PROVE  Works(t, RegionSet(t, a, b))
<1>1. /\ RegionSet(t, a, b) \in TermRecs
      /\ SameScreen(t, RegionSet(t, a, b))
      /\ RegionSet(t, a, b).params = t.params
      /\ RegionSet(t, a, b).state = t.state
      /\ RegionSet(t, a, b).top = a
      /\ RegionSet(t, a, b).bottom = b
  BY DEF TermOk, TermRecs, RegionSet, SameScreen
<1> QED
  BY <1>1, FieldsWork DEF TermOk

OutSet(t, r) == [t EXCEPT !.out = r]

LEMMA OutSetWorks ==
  ASSUME NEW t, TermOk(t), NEW r \in Seq(ReportChars)
  PROVE  Works(t, OutSet(t, r))
<1>1. /\ OutSet(t, r) \in TermRecs
      /\ SameScreen(t, OutSet(t, r))
      /\ OutSet(t, r).params = t.params
      /\ OutSet(t, r).state = t.state
      /\ OutSet(t, r).top = t.top
      /\ OutSet(t, r).bottom = t.bottom
  BY DEF TermOk, TermRecs, OutSet, SameScreen
<1> QED
  BY <1>1, FieldsWork DEF TermOk

SavedSet(t, s) == [t EXCEPT !.saved = s]

LEMMA SavedSetWorks ==
  ASSUME NEW t, TermOk(t), NEW s \in Cell
  PROVE  Works(t, SavedSet(t, s))
<1>1. /\ SavedSet(t, s) \in TermRecs
      /\ SameScreen(t, SavedSet(t, s))
      /\ SavedSet(t, s).params = t.params
      /\ SavedSet(t, s).state = t.state
      /\ SavedSet(t, s).top = t.top
      /\ SavedSet(t, s).bottom = t.bottom
  BY DEF TermOk, TermRecs, SavedSet, SameScreen
<1> QED
  BY <1>1, FieldsWork DEF TermOk

OriginSet(t, o) == [t EXCEPT !.origin = o]

LEMMA OriginSetWorks ==
  ASSUME NEW t, TermOk(t), NEW o \in BOOLEAN
  PROVE  Works(t, OriginSet(t, o))
<1>1. /\ OriginSet(t, o) \in TermRecs
      /\ SameScreen(t, OriginSet(t, o))
      /\ OriginSet(t, o).params = t.params
      /\ OriginSet(t, o).state = t.state
      /\ OriginSet(t, o).top = t.top
      /\ OriginSet(t, o).bottom = t.bottom
  BY DEF TermOk, TermRecs, OriginSet, SameScreen
<1> QED
  BY <1>1, FieldsWork DEF TermOk

VisibleSet(t, v) == [t EXCEPT !.visible = v]

LEMMA VisibleSetWorks ==
  ASSUME NEW t, TermOk(t), NEW v \in BOOLEAN
  PROVE  Works(t, VisibleSet(t, v))
<1>1. /\ VisibleSet(t, v) \in TermRecs
      /\ SameScreen(t, VisibleSet(t, v))
      /\ VisibleSet(t, v).params = t.params
      /\ VisibleSet(t, v).state = t.state
      /\ VisibleSet(t, v).top = t.top
      /\ VisibleSet(t, v).bottom = t.bottom
  BY DEF TermOk, TermRecs, VisibleSet, SameScreen
<1> QED
  BY <1>1, FieldsWork DEF TermOk

ParamsSet(t, q) == [t EXCEPT !.params = q]

LEMMA ParamsSetWorks ==
  ASSUME NEW t, TermOk(t), NEW q \in Seq(Nat),
         ParamsOk(q), q # <<>>
  PROVE  Works(t, ParamsSet(t, q))
<1>1. /\ ParamsSet(t, q) \in TermRecs
      /\ SameScreen(t, ParamsSet(t, q))
      /\ ParamsSet(t, q).state = t.state
      /\ ParamsSet(t, q).top = t.top
      /\ ParamsSet(t, q).bottom = t.bottom
      /\ ParamsSet(t, q).params = q
  BY DEF TermOk, TermRecs, ParamsSet, SameScreen
<1> QED
  BY <1>1, FieldsWork DEF TermOk

EscapeSet(t, k, q, h) == [t EXCEPT !.state = k, !.params = q, !.private = h]

LEMMA EscapeSetWorks ==
  ASSUME NEW t, TermOk(t), NEW k \in TermStates, NEW q \in Seq(Nat), NEW h \in BOOLEAN,
         ParamsOk(q), k = "param" => q # <<>>
  PROVE  Works(t, EscapeSet(t, k, q, h))
<1>1. /\ EscapeSet(t, k, q, h) \in TermRecs
      /\ SameScreen(t, EscapeSet(t, k, q, h))
      /\ EscapeSet(t, k, q, h).top = t.top
      /\ EscapeSet(t, k, q, h).bottom = t.bottom
      /\ EscapeSet(t, k, q, h).state = k
      /\ EscapeSet(t, k, q, h).params = q
  BY DEF TermOk, TermRecs, EscapeSet, SameScreen
<1> QED
  BY <1>1, FieldsWork DEF TermOk

StateSet(t, k) == [t EXCEPT !.state = k]

LEMMA StateSetWorks ==
  ASSUME NEW t, TermOk(t), NEW k \in TermStates,
         k # "param"
  PROVE  Works(t, StateSet(t, k))
<1>1. /\ StateSet(t, k) \in TermRecs
      /\ SameScreen(t, StateSet(t, k))
      /\ StateSet(t, k).params = t.params
      /\ StateSet(t, k).top = t.top
      /\ StateSet(t, k).bottom = t.bottom
      /\ StateSet(t, k).state = k
  BY DEF TermOk, TermRecs, StateSet, SameScreen
<1> QED
  BY <1>1, FieldsWork DEF TermOk

DesignateSet(t, i, k) == [t EXCEPT !.designating_g0 = i, !.state = k]

LEMMA DesignateSetWorks ==
  ASSUME NEW t, TermOk(t), NEW i \in BOOLEAN, NEW k \in TermStates,
         k # "param"
  PROVE  Works(t, DesignateSet(t, i, k))
<1>1. /\ DesignateSet(t, i, k) \in TermRecs
      /\ SameScreen(t, DesignateSet(t, i, k))
      /\ DesignateSet(t, i, k).params = t.params
      /\ DesignateSet(t, i, k).top = t.top
      /\ DesignateSet(t, i, k).bottom = t.bottom
      /\ DesignateSet(t, i, k).state = k
  BY DEF TermOk, TermRecs, DesignateSet, SameScreen
<1> QED
  BY <1>1, FieldsWork DEF TermOk

NumberSet(t, q, k) == [t EXCEPT !.params = q, !.state = k]

LEMMA NumberSetWorks ==
  ASSUME NEW t, TermOk(t), NEW q \in Seq(Nat), NEW k \in TermStates,
         ParamsOk(q), k = "param" => q # <<>>
  PROVE  Works(t, NumberSet(t, q, k))
<1>1. /\ NumberSet(t, q, k) \in TermRecs
      /\ SameScreen(t, NumberSet(t, q, k))
      /\ NumberSet(t, q, k).top = t.top
      /\ NumberSet(t, q, k).bottom = t.bottom
      /\ NumberSet(t, q, k).params = q
      /\ NumberSet(t, q, k).state = k
  BY DEF TermOk, TermRecs, NumberSet, SameScreen
<1> QED
  BY <1>1, FieldsWork DEF TermOk

PrivateSet(t, q, h, k) == [t EXCEPT !.params = q, !.private = h, !.state = k]

LEMMA PrivateSetWorks ==
  ASSUME NEW t, TermOk(t), NEW q \in Seq(Nat), NEW h \in BOOLEAN, NEW k \in TermStates,
         ParamsOk(q), k = "param" => q # <<>>
  PROVE  Works(t, PrivateSet(t, q, h, k))
<1>1. /\ PrivateSet(t, q, h, k) \in TermRecs
      /\ SameScreen(t, PrivateSet(t, q, h, k))
      /\ PrivateSet(t, q, h, k).top = t.top
      /\ PrivateSet(t, q, h, k).bottom = t.bottom
      /\ PrivateSet(t, q, h, k).params = q
      /\ PrivateSet(t, q, h, k).state = k
  BY DEF TermOk, TermRecs, PrivateSet, SameScreen
<1> QED
  BY <1>1, FieldsWork DEF TermOk

InvokeSet(t, j, w) == [t EXCEPT !.invoking_g1 = j, !.use_graphics = w]

LEMMA InvokeSetWorks ==
  ASSUME NEW t, TermOk(t), NEW j \in BOOLEAN, NEW w \in BOOLEAN
  PROVE  Works(t, InvokeSet(t, j, w))
<1>1. /\ InvokeSet(t, j, w) \in TermRecs
      /\ SameScreen(t, InvokeSet(t, j, w))
      /\ InvokeSet(t, j, w).params = t.params
      /\ InvokeSet(t, j, w).state = t.state
      /\ InvokeSet(t, j, w).top = t.top
      /\ InvokeSet(t, j, w).bottom = t.bottom
  BY DEF TermOk, TermRecs, InvokeSet, SameScreen
<1> QED
  BY <1>1, FieldsWork DEF TermOk

SetsSet(t, x, y, w) == [t EXCEPT !.g0 = x, !.g1 = y, !.use_graphics = w]

LEMMA SetsSetWorks ==
  ASSUME NEW t, TermOk(t), NEW x \in CharSets, NEW y \in CharSets, NEW w \in BOOLEAN
  PROVE  Works(t, SetsSet(t, x, y, w))
<1>1. /\ SetsSet(t, x, y, w) \in TermRecs
      /\ SameScreen(t, SetsSet(t, x, y, w))
      /\ SetsSet(t, x, y, w).params = t.params
      /\ SetsSet(t, x, y, w).state = t.state
      /\ SetsSet(t, x, y, w).top = t.top
      /\ SetsSet(t, x, y, w).bottom = t.bottom
  BY DEF TermOk, TermRecs, SetsSet, SameScreen
<1> QED
  BY <1>1, FieldsWork DEF TermOk

ModesSet(t, n, a, b, o, v, x, y, j, w) ==
  [t EXCEPT !.pen = n, !.top = a, !.bottom = b, !.origin = o, !.visible = v,
            !.g0 = x, !.g1 = y, !.invoking_g1 = j, !.use_graphics = w]

LEMMA ModesSetWorks ==
  ASSUME NEW t, TermOk(t), NEW n \in Pens, NEW a \in 0..LastLine, NEW b \in 0..LastLine, NEW o \in BOOLEAN,
         NEW v \in BOOLEAN, NEW x \in CharSets, NEW y \in CharSets, NEW j \in BOOLEAN, NEW w \in BOOLEAN,
         a <= b
  PROVE  Works(t, ModesSet(t, n, a, b, o, v, x, y, j, w))
<1>1. t \in TermRecs
  BY DEF TermOk
<1>2. ModesSet(t, n, a, b, o, v, x, y, j, w) \in TermRecs
  BY <1>1 DEF TermRecs, ModesSet
<1>3. SameScreen(t, ModesSet(t, n, a, b, o, v, x, y, j, w))
  BY <1>1 DEF TermRecs, ModesSet, SameScreen
<1>4. /\ ModesSet(t, n, a, b, o, v, x, y, j, w).params = t.params
      /\ ModesSet(t, n, a, b, o, v, x, y, j, w).state = t.state
      /\ ModesSet(t, n, a, b, o, v, x, y, j, w).top = a
            /\ ModesSet(t, n, a, b, o, v, x, y, j, w).bottom = b
  BY <1>1 DEF TermRecs, ModesSet
<1> QED
  BY <1>2, <1>3, <1>4, FieldsWork DEF TermOk

----------------------------------------------------------------------------
\* The operations.

LEMMA ClampedIn ==
  ASSUME NEW n \in Int, NEW high \in Nat
  PROVE  Clamped(n, 0, high) \in 0..high
BY DEF Clamped

LEMMA PlacedWorks ==
  ASSUME NEW t, TermOk(t), NEW l \in Int, NEW c \in Int
  PROVE  Works(t, Placed(t, l, c))
<1>1. Clamped(l, 0, LastLine) \in 0..LastLine /\ Clamped(c, 0, LastCol) \in 0..LastCol
  BY ClampedIn, ScreenSize
<1>2. Placed(t, l, c) = AtSet(t, Clamped(l, 0, LastLine), Clamped(c, 0, LastCol))
  BY DEF Placed, AtSet
<1> QED
  BY <1>1, <1>2, AtSetWorks

LEMMA HomeWorks ==
  ASSUME NEW t, TermOk(t)
  PROVE  Works(t, cursor_home(t))
<1>1. (IF t.origin THEN t.top ELSE 0) \in 0..LastLine /\ 0 \in 0..LastCol
  BY TermFields, ScreenSize
<1>2. cursor_home(t) = AtSet(t, IF t.origin THEN t.top ELSE 0, 0)
  BY DEF cursor_home, AtSet
<1> QED
  BY <1>1, <1>2, AtSetWorks

\* One line further down or up, where there is one.
LEMMA LineMoves ==
  ASSUME NEW t, TermOk(t)
  PROVE  /\ t.line < LastLine => Works(t, [t EXCEPT !.line = @ + 1])
         /\ t.line > 0 => Works(t, [t EXCEPT !.line = @ - 1])
<1>1. t.line \in 0..LastLine /\ LastLine \in Nat
  BY TermFields, ScreenSize
<1>2. [t EXCEPT !.line = @ + 1] = LineSet(t, t.line + 1)
      /\ [t EXCEPT !.line = @ - 1] = LineSet(t, t.line - 1)
  BY DEF LineSet
<1>3. t.line < LastLine => t.line + 1 \in 0..LastLine
  BY <1>1
<1>4. t.line > 0 => t.line - 1 \in 0..LastLine
  BY <1>1
<1> QED
  BY <1>2, <1>3, <1>4, LineSetWorks

LEMMA FeedsWork ==
  ASSUME NEW t, TermOk(t)
  PROVE  Works(t, linefeed(t)) /\ Works(t, Index(t)) /\ Works(t, ReverseIndex(t))
<1>1. Works(t, scroll_up_region(t)) /\ Works(t, scroll_down_region(t))
  <2>1. 0 \in Nat
    OBVIOUS
  <2> QED
    BY <2>1, RegionsMove
<1>2. /\ t.line < LastLine => Works(t, [t EXCEPT !.line = @ + 1])
      /\ t.line > 0 => Works(t, [t EXCEPT !.line = @ - 1])
  BY LineMoves
<1>3. Works(t, t)
  BY WorksNothing
<1>4. Works(t, linefeed(t))
  BY <1>1, <1>2, <1>3, Zenon DEF linefeed
<1>5. Works(t, Index(t))
  BY <1>1, <1>2, <1>3, Zenon DEF Index
<1>6. Works(t, ReverseIndex(t))
  BY <1>1, <1>2, <1>3, Zenon DEF ReverseIndex
<1> QED
  BY <1>4, <1>5, <1>6

LEMMA EraseWorks ==
  ASSUME NEW t, TermOk(t)
  PROVE  /\ Works(t, erase_to_eol(t)) /\ Works(t, erase_to_bol(t)) /\ Works(t, erase_line(t))
         /\ Works(t, erase_to_eos(t)) /\ Works(t, erase_to_bos(t))
<1>1. Works(t, erase_to_eol(t)) /\ Works(t, erase_to_bol(t)) /\ Works(t, erase_line(t))
  BY clear_line_rangeWorks, Zenon DEF erase_to_eol, erase_to_bol, erase_line
<1>2. TermOk(erase_to_eol(t)) /\ TermOk(erase_to_bol(t))
  BY <1>1 DEF Works
<1>3. Works(erase_to_eol(t), erase_to_eos(t))
  BY <1>2, clear_screen_rangeWorks, Zenon DEF erase_to_eos
<1>4. Works(erase_to_bol(t), erase_to_bos(t))
  BY <1>2, clear_screen_rangeWorks, Zenon DEF erase_to_bos
<1> QED
  BY <1>1, <1>3, <1>4, WorksTwice, Zenon

LEMMA ScreenClears ==
  ASSUME NEW t, TermOk(t)
  PROVE  Works(t, clear_screen(t))
<1> DEFINE u == clear_screen_range(t, 0, LastLine)
           v == [u EXCEPT !.line = 0, !.col = 0, !.full_redraw = TRUE]
<1>1. Works(t, u)
  BY clear_screen_rangeWorks
<1>2. clear_screen(t) = v
  BY DEF clear_screen
<1> HIDE DEF u
<1>3. u \in TermRecs
  BY <1>1 DEF Works, TermOk
<1>4. v \in TermRecs /\ v.full_redraw /\ v.dirty = u.dirty
      /\ v.top = u.top /\ v.bottom = u.bottom /\ v.params = u.params /\ v.state = u.state
  BY <1>3, ScreenSize DEF TermRecs
<1> HIDE DEF v
<1>5. TermOk(v)
  BY <1>1, <1>4 DEF TermOk, Works
<1>6. Marks(u, v)
  BY <1>4 DEF Marks
<1> QED
  BY <1>1, <1>2, <1>5, <1>6, WorksTwice DEF Works

LEMMA CharsMove ==
  ASSUME NEW t, TermOk(t), NEW n \in Nat \ {0}
  PROVE  Works(t, delete_char(t, n)) /\ Works(t, insert_char(t, n))
<1> DEFINE R == RestOfLine(t)
           x == [p \in Cell |-> IF p \notin RestOfLine(t) THEN t.text[p]
                                ELSE IF p[2] + n <= LastCol THEN t.text[<<p[1], p[2] + n>>]
                                ELSE Blank("plain")]
           y == [p \in Cell |-> IF p \notin RestOfLine(t) THEN t.text[p]
                                ELSE IF p[2] - n >= t.col THEN t.text[<<p[1], p[2] - n>>]
                                ELSE Blank("plain")]
           d == t.dirty \cup RestOfLine(t)
<1>1. RestOfLine(t) \subseteq Cell
  BY DEF RestOfLine
<1>2. t.text \in [Cell -> CellRecs] /\ Blank("plain") \in CellRecs /\ t.dirty \in SUBSET Cell
      /\ t.col \in 0..LastCol
  <2>1. "plain" \in Pens
    BY DEF Pens
  <2> QED
    BY <2>1, TermFields, BlankIsCell
<1>3. ASSUME NEW p \in Cell PROVE x[p] \in CellRecs /\ y[p] \in CellRecs
  <2>1. p[1] \in 0..LastLine /\ p[2] \in 0..LastCol /\ LastCol \in Nat
    BY CellPlace, ScreenSize
  <2>2. p[2] + n <= LastCol => <<p[1], p[2] + n>> \in Cell
    BY <2>1, CellPlace
  <2>3. p[2] - n >= t.col => <<p[1], p[2] - n>> \in Cell
    <3>1. p[2] - n >= t.col => p[2] - n \in 0..LastCol
      BY <1>2, <2>1
    <3> QED
      BY <2>1, <3>1, CellPlace
  <2>4. x[p] \in CellRecs
    BY <1>2, <2>2
  <2>5. y[p] \in CellRecs
    BY <1>2, <2>3
  <2> QED
    BY <2>4, <2>5
<1>4. x \in [Cell -> CellRecs] /\ y \in [Cell -> CellRecs]
  BY <1>3
<1>5. d \in SUBSET Cell /\ t.dirty \subseteq d
  BY <1>1, <1>2
<1>6. \A p \in Cell : (p \in d \/ x[p] = t.text[p]) /\ (p \in d \/ y[p] = t.text[p])
  OBVIOUS
<1>7. delete_char(t, n) = TextSet(t, x, d)
  BY DEF delete_char, TextSet
<1>8. insert_char(t, n) = TextSet(t, y, d)
  BY DEF insert_char, TextSet
<1> HIDE DEF x, y, d
<1>9. Works(t, TextSet(t, x, d))
  BY <1>4, <1>5, <1>6, TextWorks
<1>10. Works(t, TextSet(t, y, d))
  BY <1>4, <1>5, <1>6, TextWorks
<1> QED
  BY <1>7, <1>8, <1>9, <1>10

LEMMA NoParams == <<>> \in Seq(Nat) /\ ParamsOk(<<>>)
BY DEF ParamsOk, MaxParams, MaxValue

LEMMA OneParam ==
  ASSUME NEW q, NEW k \in 0..9, q = <<k>>
  PROVE  q \in Seq(Nat) /\ ParamsOk(q) /\ q # <<>>
<1>1. q \in Seq(Nat) /\ Len(q) = 1 /\ q[1] = k
  OBVIOUS
<1>2. ASSUME NEW i \in 1..Len(q) PROVE q[i] <= MaxValue
  <2>1. i = 1
    BY <1>1
  <2> QED
    BY <1>1, <2>1 DEF MaxValue
<1>3. Len(q) <= MaxParams
  BY <1>1 DEF MaxParams
<1>4. q # <<>>
  BY <1>1
<1> QED
  BY <1>1, <1>2, <1>3, <1>4 DEF ParamsOk

LEMMA BackWorks ==
  ASSUME NEW t, TermOk(t)
  PROVE  Works(t, back_to_normal(t))
<1>1. back_to_normal(t) = ParserSet(t, "normal", <<>>, FALSE, FALSE)
  BY DEF back_to_normal, ParserSet
<1>2. "normal" \in TermStates /\ FALSE \in BOOLEAN /\ "normal" # "param"
  BY DEF TermStates
<1>3. <<>> \in Seq(Nat) /\ ParamsOk(<<>>)
  BY NoParams
<1>4. Works(t, ParserSet(t, "normal", <<>>, FALSE, FALSE))
  BY <1>2, <1>3, ParserSetWorks, Zenon
<1> QED
  BY <1>1, <1>4

LEMMA ThenBack ==
  ASSUME NEW t, NEW u, Works(t, u)
  PROVE  Works(t, back_to_normal(u))
<1>1. Works(u, back_to_normal(u))
  BY BackWorks DEF Works
<1> QED
  BY <1>1, WorksTwice

LEMMA SgrWorks ==
  ASSUME NEW t, TermOk(t)
  PROVE  Works(t, apply_sgr(t))
<1>1. PICK n \in Pens : apply_sgr(t) = PenSet(t, n)
  <2>1. "blink" \in Pens /\ "plain" \in Pens /\ t.pen \in Pens
    BY TermFields DEF Pens
  <2> DEFINE S == {i \in 1..Len(t.params) : t.params[i] \in {0, 5, 25}}
             last == CHOOSE i \in S : \A j \in S : j <= i
             pen == IF S = {} THEN t.pen ELSE IF t.params[last] = 5 THEN "blink" ELSE "plain"
  <2>2. apply_sgr(t) = PenSet(t, pen)
    BY DEF apply_sgr, PenSet
  <2>3. pen \in Pens
    BY <2>1
  <2> QED
    BY <2>2, <2>3
<1> QED
  BY <1>1, PenSetWorks

LEMMA RegionWorks ==
  ASSUME NEW t, TermOk(t), NEW p1 \in Nat, NEW p2 \in Nat
  PROVE  Works(t, SetRegion(t, p1, p2))
<1> DEFINE given == Len(t.params) >= 2 /\ p1 > 0 /\ p2 > 0 /\ p1 < p2
           bottom == IF given THEN Clamped(p2 - 1, 0, LastLine) ELSE LastLine
           fits == given /\ p1 - 1 <= bottom
           a == IF fits THEN p1 - 1 ELSE 0
           b == IF fits THEN bottom ELSE LastLine
           u == RegionSet(t, a, b)
<1>1. SetRegion(t, p1, p2) = cursor_home(u)
  BY DEF SetRegion, RegionSet
<1>2. LastLine \in Nat
  BY ScreenSize
<1>3. bottom \in 0..LastLine
  BY <1>2, ClampedIn
<1>4. given => p1 - 1 >= 0
  OBVIOUS
<1> HIDE DEF given, bottom
<1>5. a \in 0..LastLine /\ b \in 0..LastLine /\ a <= b
  BY <1>2, <1>3, <1>4
<1> HIDE DEF a, b
<1>6. Works(t, u)
  BY <1>5, RegionSetWorks
<1> HIDE DEF u
<1>7. Works(u, cursor_home(u))
  BY <1>6, HomeWorks DEF Works
<1> QED
  BY <1>1, <1>6, <1>7, WorksTwice

Attributes == <<"ESC", "[", "?", "1", ";", "0", "c">>

LEMMA AnswersTyped ==
  ASSUME NEW t, NEW p1
  PROVE  Report(t, p1) \in Seq(ReportChars) /\ Attributes \in Seq(ReportChars)
<1>1. <<>> \in Seq(ReportChars) /\ <<"ESC", "[", "0", "n">> \in Seq(ReportChars)
  BY DEF ReportChars
<1>2. <<"ESC", "[", "line", ";", "col", "R">> \in Seq(ReportChars)
  BY DEF ReportChars
<1>3. Attributes \in Seq(ReportChars)
  BY DEF ReportChars, Attributes
<1>4. Report(t, p1) \in Seq(ReportChars)
  BY <1>1, <1>2, Zenon DEF Report
<1> QED
  BY <1>3, <1>4

\* Answers, and the position saved and restored.
LEMMA AnswerWorks ==
  ASSUME NEW t, TermOk(t), NEW answer \in Seq(ReportChars)
  PROVE  Works(t, [t EXCEPT !.out = @ \o answer])
<1>1. t.out \in Seq(ReportChars)
  BY DEF TermOk, TermRecs
<1>2. t.out \o answer \in Seq(ReportChars)
  BY <1>1
<1>3. [t EXCEPT !.out = @ \o answer] = OutSet(t, t.out \o answer)
  BY DEF OutSet
<1> QED
  BY <1>2, <1>3, OutSetWorks

LEMMA PlaceKept ==
  ASSUME NEW t, TermOk(t)
  PROVE  /\ Works(t, [t EXCEPT !.saved = <<t.line, t.col>>])
         /\ Works(t, Placed(t, t.saved[1], t.saved[2]))
<1>1. t.line \in 0..LastLine /\ t.col \in 0..LastCol /\ t.saved \in Cell
  BY TermFields
<1>2. <<t.line, t.col>> \in Cell /\ t.saved[1] \in Int /\ t.saved[2] \in Int
  BY <1>1, CellPlace
<1>3. [t EXCEPT !.saved = <<t.line, t.col>>] = SavedSet(t, <<t.line, t.col>>)
  BY DEF SavedSet
<1>4. Works(t, SavedSet(t, <<t.line, t.col>>))
  BY <1>2, SavedSetWorks
<1>5. Works(t, Placed(t, t.saved[1], t.saved[2]))
  BY <1>2, PlacedWorks
<1> QED
  BY <1>3, <1>4, <1>5

LEMMA ModeWorks ==
  ASSUME NEW t, TermOk(t), NEW m \in BOOLEAN
  PROVE  Works(t, [t EXCEPT !.origin = m]) /\ Works(t, [t EXCEPT !.visible = m])
<1>1. [t EXCEPT !.origin = m] = OriginSet(t, m) /\ [t EXCEPT !.visible = m] = VisibleSet(t, m)
  BY DEF OriginSet, VisibleSet
<1> QED
  BY <1>1, OriginSetWorks, VisibleSetWorks

\* What do_csi_final does before it goes back to plain text.
CsiDone(t, ch, p1, p2, n) ==
  CASE ch \in {"H", "f"} ->
         Placed(t, n - 1 + (IF t.origin THEN t.top ELSE 0), IF p2 < 1 THEN 0 ELSE p2 - 1)
    [] ch = "A" -> Placed(t, t.line - n, t.col)
    [] ch = "B" -> Placed(t, t.line + n, t.col)
    [] ch = "C" -> Placed(t, t.line, t.col + n)
    [] ch = "D" -> Placed(t, t.line, t.col - n)
    [] ch = "J" -> (CASE p1 = 0 -> erase_to_eos(t) [] p1 = 1 -> erase_to_bos(t)
                      [] p1 = 2 -> cursor_home(clear_screen(t)) [] OTHER -> t)
    [] ch = "K" -> (CASE p1 = 0 -> erase_to_eol(t) [] p1 = 1 -> erase_to_bol(t)
                      [] p1 = 2 -> erase_line(t) [] OTHER -> t)
    [] ch = "m" -> apply_sgr(t)
    [] ch = "r" -> SetRegion(t, p1, p2)
    [] ch = "L" -> insert_line(t, n)
    [] ch = "M" -> delete_line(t, n)
    [] ch = "P" -> delete_char(t, n)
    [] ch = "@" -> insert_char(t, n)
    [] ch = "n" -> [t EXCEPT !.out = @ \o Report(t, p1)]
    [] ch = "c" -> [t EXCEPT !.out = @ \o Attributes]
    [] ch = "s" -> [t EXCEPT !.saved = <<t.line, t.col>>]
    [] ch = "u" -> Placed(t, t.saved[1], t.saved[2])
    [] ch = "h" /\ t.private /\ p1 = 6 -> [t EXCEPT !.origin = TRUE]
    [] ch = "l" /\ t.private /\ p1 = 6 -> [t EXCEPT !.origin = FALSE]
    [] ch = "h" /\ t.private /\ p1 = 25 -> [t EXCEPT !.visible = TRUE]
    [] ch = "l" /\ t.private /\ p1 = 25 -> [t EXCEPT !.visible = FALSE]
    [] OTHER -> t

LEMMA CsiDoneWorks ==
  ASSUME NEW t, TermOk(t), NEW ch, NEW p1 \in Nat, NEW p2 \in Nat, NEW n \in Nat \ {0}
  PROVE  Works(t, CsiDone(t, ch, p1, p2, n))
<1>1. t.line \in Nat /\ t.col \in Nat /\ t.top \in Nat
  BY TermFields, ScreenSize
<1>2. /\ n - 1 + (IF t.origin THEN t.top ELSE 0) \in Int /\ (IF p2 < 1 THEN 0 ELSE p2 - 1) \in Int
      /\ t.line - n \in Int /\ t.line + n \in Int /\ t.col + n \in Int /\ t.col - n \in Int
      /\ t.line \in Int /\ t.col \in Int /\ n \in Nat
  BY <1>1
<1>3. /\ Works(t, Placed(t, n - 1 + (IF t.origin THEN t.top ELSE 0), IF p2 < 1 THEN 0 ELSE p2 - 1))
      /\ Works(t, Placed(t, t.line - n, t.col)) /\ Works(t, Placed(t, t.line + n, t.col))
      /\ Works(t, Placed(t, t.line, t.col + n)) /\ Works(t, Placed(t, t.line, t.col - n))
  BY <1>2, PlacedWorks, Zenon
<1>4. /\ Works(t, erase_to_eol(t)) /\ Works(t, erase_to_bol(t)) /\ Works(t, erase_line(t))
      /\ Works(t, erase_to_eos(t)) /\ Works(t, erase_to_bos(t)) /\ Works(t, t)
  BY EraseWorks, WorksNothing
<1>5. Works(t, cursor_home(clear_screen(t)))
  <2>1. Works(t, clear_screen(t))
    BY ScreenClears
  <2>2. Works(clear_screen(t), cursor_home(clear_screen(t)))
    BY <2>1, HomeWorks DEF Works
  <2> QED
    BY <2>1, <2>2, WorksTwice
<1>6. Works(t, apply_sgr(t)) /\ Works(t, SetRegion(t, p1, p2))
  BY SgrWorks, RegionWorks
<1>7. Works(t, insert_line(t, n)) /\ Works(t, delete_line(t, n))
  BY <1>2, RegionsMove
<1>8. Works(t, delete_char(t, n)) /\ Works(t, insert_char(t, n))
  BY CharsMove
<1>9. Works(t, [t EXCEPT !.out = @ \o Report(t, p1)]) /\ Works(t, [t EXCEPT !.out = @ \o Attributes])
  BY AnswersTyped, AnswerWorks, Zenon
<1>10. Works(t, [t EXCEPT !.saved = <<t.line, t.col>>]) /\ Works(t, Placed(t, t.saved[1], t.saved[2]))
  BY PlaceKept, Zenon
<1>11. /\ Works(t, [t EXCEPT !.origin = TRUE]) /\ Works(t, [t EXCEPT !.origin = FALSE])
       /\ Works(t, [t EXCEPT !.visible = TRUE]) /\ Works(t, [t EXCEPT !.visible = FALSE])
  <2>1. TRUE \in BOOLEAN /\ FALSE \in BOOLEAN
    OBVIOUS
  <2> QED
    BY <2>1, ModeWorks, Zenon
<1> DEFINE j == CASE p1 = 0 -> erase_to_eos(t) [] p1 = 1 -> erase_to_bos(t)
                  [] p1 = 2 -> cursor_home(clear_screen(t)) [] OTHER -> t
           k == CASE p1 = 0 -> erase_to_eol(t) [] p1 = 1 -> erase_to_bol(t)
                  [] p1 = 2 -> erase_line(t) [] OTHER -> t
<1>12. Works(t, j) /\ Works(t, k)
  BY <1>4, <1>5
<1> QED
  BY <1>3, <1>4, <1>6, <1>7, <1>8, <1>9, <1>10, <1>11, <1>12, SMTT(60) DEF CsiDone

LEMMA CsiFinalWorks ==
  ASSUME NEW t0, TermOk(t0), NEW ch
  PROVE  Works(t0, do_csi_final(t0, ch))
<1> DEFINE t == IF t0.params = <<>> THEN [t0 EXCEPT !.params = <<0>>] ELSE t0
           p1 == t.params[1]
           p2 == IF Len(t.params) >= 2 THEN t.params[2] ELSE 0
           n == IF p1 < 1 THEN 1 ELSE p1
<1>1. do_csi_final(t0, ch) = back_to_normal(CsiDone(t, ch, p1, p2, n))
  BY Zenon DEF do_csi_final, CsiDone, Attributes
<1>2. Works(t0, t) /\ t.params # <<>>
  <2>1. CASE t0.params = <<>>
    <3> DEFINE q == <<0>>
    <3>1. q \in Seq(Nat) /\ ParamsOk(q) /\ q # <<>>
      <4>1. 0 \in 0..9
        OBVIOUS
      <4> QED
        BY <4>1, OneParam
    <3>2. t = ParamsSet(t0, q)
      BY <2>1 DEF ParamsSet
    <3> HIDE DEF t, q
    <3>3. Works(t0, ParamsSet(t0, q))
      BY <3>1, ParamsSetWorks
    <3>4. ParamsSet(t0, q).params = q
      BY DEF ParamsSet, TermOk, TermRecs
    <3> QED
      BY <3>1, <3>2, <3>3, <3>4
  <2>2. CASE t0.params # <<>>
    BY <2>2, WorksNothing
  <2> QED
    BY <2>1, <2>2
<1> HIDE DEF t
<1>3. t.params \in Seq(Nat)
  BY <1>2, TermFields DEF Works
<1>4. p1 \in Nat /\ p2 \in Nat
  BY <1>2, <1>3
<1> HIDE DEF p1, p2
<1>5. n \in Nat \ {0}
  BY <1>4
<1> HIDE DEF n
<1>6. Works(t, CsiDone(t, ch, p1, p2, n))
  BY <1>2, <1>4, <1>5, CsiDoneWorks DEF Works
<1> QED
  BY <1>1, <1>2, <1>6, WorksTwice, ThenBack, Zenon

LEMMA CsiWithoutWorks ==
  ASSUME NEW t, TermOk(t), NEW ch
  PROVE  Works(t, CsiWithout(t, ch))
<1> DEFINE r == cursor_home([t EXCEPT !.top = 0, !.bottom = LastLine])
           u == CASE ch \in {"H", "f"} -> cursor_home(t)
                  [] ch = "J" -> erase_to_eos(t)
                  [] ch = "K" -> erase_to_eol(t)
                  [] ch = "M" -> delete_line(t, 1)
                  [] ch = "m" -> [t EXCEPT !.pen = "plain"]
                  [] ch = "r" -> r
                  [] ch = "s" -> [t EXCEPT !.saved = <<t.line, t.col>>]
                  [] ch = "u" -> Placed(t, t.saved[1], t.saved[2])
                  [] ch = "c" -> [t EXCEPT !.out = @ \o Attributes]
                  [] OTHER -> t
<1>1. CsiWithout(t, ch) = back_to_normal(u)
  BY Zenon DEF CsiWithout, Attributes
<1>2. Works(t, cursor_home(t)) /\ Works(t, erase_to_eos(t)) /\ Works(t, erase_to_eol(t)) /\ Works(t, t)
  BY HomeWorks, EraseWorks, WorksNothing
<1>3. Works(t, delete_line(t, 1))
  <2>1. 1 \in Nat
    OBVIOUS
  <2> QED
    BY <2>1, RegionsMove
<1>4. Works(t, [t EXCEPT !.pen = "plain"])
  <2>1. "plain" \in Pens
    BY DEF Pens
  <2>2. [t EXCEPT !.pen = "plain"] = PenSet(t, "plain")
    BY DEF PenSet
  <2> QED
    BY <2>1, <2>2, PenSetWorks
<1>5. Works(t, r)
  <2>1. 0 \in 0..LastLine /\ LastLine \in 0..LastLine /\ 0 <= LastLine
    BY ScreenSize
  <2>2. Works(t, RegionSet(t, 0, LastLine))
    BY <2>1, RegionSetWorks
  <2>3. Works(RegionSet(t, 0, LastLine), cursor_home(RegionSet(t, 0, LastLine)))
    BY <2>2, HomeWorks DEF Works
  <2>4. r = cursor_home(RegionSet(t, 0, LastLine))
    BY DEF RegionSet
  <2> QED
    BY <2>2, <2>3, <2>4, WorksTwice
<1>6. Works(t, [t EXCEPT !.saved = <<t.line, t.col>>]) /\ Works(t, Placed(t, t.saved[1], t.saved[2]))
  BY PlaceKept, Zenon
<1>7. Works(t, [t EXCEPT !.out = @ \o Attributes])
  BY AnswersTyped, AnswerWorks, Zenon
<1> HIDE DEF r
<1>8. Works(t, u)
  BY <1>2, <1>3, <1>4, <1>5, <1>6, <1>7
<1> HIDE DEF u
<1> QED
  BY <1>1, <1>8, ThenBack

LEMMA ResetWorks ==
  ASSUME NEW t, TermOk(t)
  PROVE  Works(t, Reset(t))
<1> DEFINE u == back_to_normal(t)
           v == ModesSet(u, "plain", 0, LastLine, FALSE, TRUE, "ascii", "ascii", FALSE, FALSE)
<1>1. Reset(t) = cursor_home(clear_screen(v))
  BY DEF Reset, ModesSet
<1>2. Works(t, u)
  BY BackWorks
<1> HIDE DEF u
<1>3. /\ "plain" \in Pens /\ 0 \in 0..LastLine /\ LastLine \in 0..LastLine /\ 0 <= LastLine
      /\ "ascii" \in CharSets /\ FALSE \in BOOLEAN /\ TRUE \in BOOLEAN
  BY ScreenSize DEF Pens, CharSets
<1>4. TermOk(u)
  BY <1>2 DEF Works
<1>5. Works(u, v)
  BY <1>3, <1>4, ModesSetWorks, Zenon
<1> HIDE DEF v
<1>6. Works(v, clear_screen(v))
  BY <1>5, ScreenClears DEF Works
<1>7. Works(clear_screen(v), cursor_home(clear_screen(v)))
  BY <1>6, HomeWorks DEF Works
<1> QED
  BY <1>1, <1>2, <1>5, <1>6, <1>7, WorksTwice, Zenon

LEMMA PrintedWorks ==
  ASSUME NEW t, TermOk(t), NEW ch \in TermChars
  PROVE  Works(t, Printed(t, ch))
<1> DEFINE p == <<t.line, t.col>>
           cell == [ch |-> ch, cs |-> IF t.use_graphics THEN "graphics" ELSE "ascii", pen |-> t.pen]
           x == [t.text EXCEPT ![p] = cell]
           d == t.dirty \cup {p}
           w == TextSet(t, x, d)
<1>1. /\ t.text \in [Cell -> CellRecs] /\ t.dirty \in SUBSET Cell /\ p \in Cell
      /\ t.col \in 0..LastCol /\ LastCol \in Nat
  BY TermFields, CellPlace, ScreenSize
<1>2. cell \in CellRecs
  BY TermFields DEF CellRecs
<1>3. Printed(t, ch) = IF t.col = LastCol THEN linefeed([w EXCEPT !.col = 0]) ELSE [w EXCEPT !.col = @ + 1]
  BY DEF Printed, TextSet
<1> HIDE DEF p, cell
<1>4. x \in [Cell -> CellRecs] /\ d \in SUBSET Cell /\ t.dirty \subseteq d
  BY <1>1, <1>2
<1>5. \A q \in Cell : q \in d \/ x[q] = t.text[q]
  BY <1>1
<1> HIDE DEF x, d
<1>6. Works(t, w) /\ w.col = t.col
  <2>1. Works(t, w)
    BY <1>4, <1>5, TextWorks
  <2>2. w.col = t.col
    BY DEF TextSet, TermOk, TermRecs
  <2> QED
    BY <2>1, <2>2
<1> HIDE DEF w
<1>7. [w EXCEPT !.col = 0] = ColSet(w, 0) /\ [w EXCEPT !.col = @ + 1] = ColSet(w, t.col + 1)
  BY <1>6 DEF ColSet
<1>8. Works(w, ColSet(w, 0))
  BY <1>6, ScreenSize, ColSetWorks DEF Works
<1>9. t.col # LastCol => Works(w, ColSet(w, t.col + 1))
  <2>1. t.col # LastCol => t.col + 1 \in 0..LastCol
    BY <1>1
  <2> QED
    BY <1>6, <2>1, ColSetWorks DEF Works
<1>10. Works(ColSet(w, 0), linefeed(ColSet(w, 0)))
  BY <1>8, FeedsWork DEF Works
<1>11. Works(t, ColSet(w, 0)) /\ Works(t, linefeed(ColSet(w, 0)))
  BY <1>6, <1>8, <1>10, WorksTwice, Zenon
<1>12. t.col # LastCol => Works(t, ColSet(w, t.col + 1))
  BY <1>6, <1>9, WorksTwice
<1> QED
  BY <1>3, <1>7, <1>11, <1>12

LEMMA BackSpacedWorks ==
  ASSUME NEW t, TermOk(t)
  PROVE  Works(t, BackSpaced(t))
<1>1. CASE t.col = 0
  BY <1>1, WorksNothing DEF BackSpaced
<1>2. CASE t.col # 0
  <2> DEFINE d == t.dirty \cup {<<t.line, t.col - 1>>}
  <2>1. t.line \in 0..LastLine /\ t.col \in 0..LastCol /\ t.dirty \in SUBSET Cell
    BY TermFields
  <2>2. t.col - 1 \in 0..LastCol
    BY <1>2, <2>1, ScreenSize
  <2>3. d \in SUBSET Cell /\ t.dirty \subseteq d
    <3>1. <<t.line, t.col - 1>> \in Cell
      BY <2>1, <2>2, CellPlace
    <3> QED
      BY <2>1, <3>1
  <2>4. BackSpaced(t) = ColMarked(t, t.col - 1, d)
    BY <1>2 DEF BackSpaced, ColMarked
  <2> HIDE DEF d
  <2> QED
    BY <2>2, <2>3, <2>4, ColMarkedWorks
<1> QED
  BY <1>1, <1>2

LEMMA ShiftWorks ==
  ASSUME NEW t, TermOk(t)
  PROVE  /\ Works(t, [t EXCEPT !.invoking_g1 = TRUE, !.use_graphics = t.g1 = "graphics"])
         /\ Works(t, [t EXCEPT !.invoking_g1 = FALSE, !.use_graphics = t.g0 = "graphics"])
         /\ Works(t, [t EXCEPT !.state = "escape", !.params = <<>>, !.private = FALSE])
         /\ Works(t, [t EXCEPT !.col = 0])
<1> DEFINE b1 == t.g1 = "graphics"
           b0 == t.g0 = "graphics"
<1>1. b1 \in BOOLEAN /\ b0 \in BOOLEAN /\ TRUE \in BOOLEAN /\ FALSE \in BOOLEAN
  OBVIOUS
<1>2. /\ [t EXCEPT !.invoking_g1 = TRUE, !.use_graphics = t.g1 = "graphics"] = InvokeSet(t, TRUE, b1)
      /\ [t EXCEPT !.invoking_g1 = FALSE, !.use_graphics = t.g0 = "graphics"] = InvokeSet(t, FALSE, b0)
  BY Zenon DEF InvokeSet
<1>3. /\ [t EXCEPT !.state = "escape", !.params = <<>>, !.private = FALSE]
           = EscapeSet(t, "escape", <<>>, FALSE)
      /\ [t EXCEPT !.col = 0] = ColSet(t, 0)
  BY Zenon DEF EscapeSet, ColSet
<1> HIDE DEF b1, b0
<1>4. Works(t, InvokeSet(t, TRUE, b1)) /\ Works(t, InvokeSet(t, FALSE, b0))
  BY <1>1, InvokeSetWorks, Zenon
<1>5. Works(t, EscapeSet(t, "escape", <<>>, FALSE))
  <2>1. "escape" \in TermStates /\ "escape" # "param"
    BY DEF TermStates
  <2> QED
    BY <1>1, <2>1, NoParams, EscapeSetWorks, Zenon
<1>6. Works(t, ColSet(t, 0))
  BY ScreenSize, ColSetWorks
<1> QED
  BY <1>2, <1>3, <1>4, <1>5, <1>6, Zenon

LEMMA NormalWorks ==
  ASSUME NEW t, TermOk(t), NEW ch \in TermChars
  PROVE  Works(t, Normal(t, ch))
<1>1. t.line \in Nat /\ t.col \in Nat /\ TabStop \in Nat \ {0}
  BY TermFields, ScreenSize, TermAssumption
<1>2. /\ t.col + 1 \in Int /\ t.line - 1 \in Int /\ t.col - 1 \in Int /\ t.line + 1 \in Int
      /\ TabStop * ((t.col \div TabStop) + 1) \in Int /\ t.line \in Int /\ t.col \in Int
  <2>1. t.col \div TabStop \in Int
    BY <1>1
  <2>2. ASSUME NEW x \in Int, NEW y \in Int PROVE x * y \in Int
    OBVIOUS
  <2>3. TabStop * ((t.col \div TabStop) + 1) \in Int
    <3>1. TabStop \in Int /\ (t.col \div TabStop) + 1 \in Int
      BY <1>1, <2>1
    <3> QED
      BY <2>2, <3>1
  <2> QED
    BY <1>1, <2>3
<1>3. /\ Works(t, Placed(t, t.line, t.col + 1)) /\ Works(t, Placed(t, t.line - 1, t.col))
      /\ Works(t, Placed(t, t.line, t.col - 1)) /\ Works(t, Placed(t, t.line + 1, t.col))
      /\ Works(t, Placed(t, t.line, TabStop * ((t.col \div TabStop) + 1)))
  BY <1>2, PlacedWorks, Zenon
<1>4. /\ Works(t, cursor_home(t)) /\ Works(t, BackSpaced(t)) /\ Works(t, linefeed(t))
      /\ Works(t, clear_screen(t)) /\ Works(t, erase_to_eol(t)) /\ Works(t, Printed(t, ch))
  BY HomeWorks, BackSpacedWorks, FeedsWork, ScreenClears, EraseWorks, PrintedWorks, Zenon
<1>5. /\ Works(t, [t EXCEPT !.invoking_g1 = TRUE, !.use_graphics = t.g1 = "graphics"])
      /\ Works(t, [t EXCEPT !.invoking_g1 = FALSE, !.use_graphics = t.g0 = "graphics"])
      /\ Works(t, [t EXCEPT !.state = "escape", !.params = <<>>, !.private = FALSE])
      /\ Works(t, [t EXCEPT !.col = 0])
  BY ShiftWorks, Zenon
<1> QED
  BY <1>3, <1>4, <1>5, SMTT(60) DEF Normal

LEMMA EscapeWorks ==
  ASSUME NEW t, TermOk(t), NEW ch
  PROVE  Works(t, Escape(t, ch))
<1>1. Works(t, [t EXCEPT !.state = "csi"])
  <2>1. [t EXCEPT !.state = "csi"] = StateSet(t, "csi") /\ "csi" \in TermStates /\ "csi" # "param"
    BY DEF StateSet, TermStates
  <2> QED
    BY <2>1, StateSetWorks, ZenonT(60)
<1> DEFINE b == ch = "("
<1>2. Works(t, [t EXCEPT !.designating_g0 = (ch = "("), !.state = "designate"])
  <2>1. [t EXCEPT !.designating_g0 = (ch = "("), !.state = "designate"] = DesignateSet(t, b, "designate")
    BY Zenon DEF DesignateSet
  <2>2. b \in BOOLEAN /\ "designate" \in TermStates /\ "designate" # "param"
    BY DEF TermStates
  <2> HIDE DEF b
  <2>3. Works(t, DesignateSet(t, b, "designate"))
    BY <2>2, DesignateSetWorks, Zenon
  <2> QED
    BY <2>1, <2>3
<1>3. /\ Works(t, back_to_normal(t)) /\ Works(t, back_to_normal(Index(t)))
      /\ Works(t, back_to_normal(ReverseIndex(t)))
  BY BackWorks, FeedsWork, ThenBack, Zenon
<1>4. Works(t, back_to_normal([Index(t) EXCEPT !.col = 0]))
  <2>1. [Index(t) EXCEPT !.col = 0] = ColSet(Index(t), 0)
    BY DEF ColSet
  <2>2. TermOk(Index(t))
    BY FeedsWork DEF Works
  <2>3. Works(Index(t), ColSet(Index(t), 0))
    BY <2>2, ScreenSize, ColSetWorks, Zenon
  <2> QED
    BY <2>1, <2>3, FeedsWork, WorksTwice, ThenBack, Zenon
<1>5. Works(t, Reset(t))
  BY ResetWorks
<1> QED
  BY <1>1, <1>2, <1>3, <1>4, <1>5, SMTT(60) DEF Escape

LEMMA DigitValue ==
  ASSUME NEW b, IsDigit(b)
  PROVE  DigitOf(b) \in 0..9
<1>1. PICK n \in 1..10 : DigitNames[n] = b
  BY DEF IsDigit
<1>2. n - 1 \in 0..9 /\ (n - 1) + 1 = n
  OBVIOUS
<1>3. \E m \in 0..9 : DigitNames[m + 1] = b
  BY <1>1, <1>2, Zenon
<1> QED
  BY <1>3, Zenon DEF DigitOf

NumbersOk(q) == q \in Seq(Nat) /\ ParamsOk(q) /\ q # <<>>
One(d) == <<d>>

LEMMA OneNumber ==
  ASSUME NEW d \in 0..9
  PROVE  NumbersOk(One(d))
<1>1. One(d) \in Seq(Nat) /\ Len(One(d)) = 1 /\ One(d)[1] = d /\ One(d) # <<>>
  BY DEF One
<1>2. ASSUME NEW i \in 1..Len(One(d)) PROVE One(d)[i] <= MaxValue
  <2>1. i = 1
    BY <1>1, <1>2
  <2>2. d <= MaxValue
    BY DEF MaxValue
  <2> QED
    BY <1>1, <2>1, <2>2
<1>3. Len(One(d)) <= MaxParams
  BY <1>1 DEF MaxParams
<1> QED
  BY <1>1, <1>2, <1>3 DEF NumbersOk, ParamsOk

LEMMA CsiWorks ==
  ASSUME NEW t, TermOk(t), NEW ch
  PROVE  Works(t, Csi(t, ch))
<1>0. "param" \in TermStates /\ TRUE \in BOOLEAN
  BY DEF TermStates
<1>1. CASE IsDigit(ch)
  <2>1. PICK k \in 0..9 : k = DigitOf(ch)
    BY <1>1, DigitValue
  <2>2. Csi(t, ch) = NumberSet(t, One(k), "param")
    BY <1>1, <2>1, Zenon DEF Csi, NumberSet, One
  <2>3. NumbersOk(One(k))
    BY OneNumber, Zenon
  <2> QED
    BY <1>0, <2>2, <2>3, NumberSetWorks, Zenon DEF NumbersOk
<1>2. CASE ~IsDigit(ch) /\ ch = "?"
  <2> DEFINE q == <<0>>
  <2>1. 0 \in 0..9
    OBVIOUS
  <2>2. Csi(t, ch) = PrivateSet(t, q, TRUE, "param")
    BY <1>2, Zenon DEF Csi, PrivateSet
  <2>3. q = <<0>>
    OBVIOUS
  <2> HIDE DEF q
  <2>4. q \in Seq(Nat) /\ ParamsOk(q) /\ q # <<>>
    BY <2>1, <2>3, OneParam
  <2> QED
    BY <1>0, <2>2, <2>4, PrivateSetWorks, Zenon
<1>3. CASE ~IsDigit(ch) /\ ch # "?"
  BY <1>3, CsiWithoutWorks, Zenon DEF Csi
<1> QED
  BY <1>1, <1>2, <1>3

\* A parameter takes a digit more, or another parameter starts.
LEMMA ParamGrows ==
  ASSUME NEW q \in Seq(Nat), ParamsOk(q), q # <<>>, NEW v \in 0..MaxValue
  PROVE  LET r == [q EXCEPT ![Len(q)] = v]
         IN  r \in Seq(Nat) /\ ParamsOk(r) /\ r # <<>>
<1> DEFINE n == Len(q)
           r == [q EXCEPT ![n] = v]
<1>1. n \in 1..n /\ n \in Nat /\ v \in Nat /\ v <= MaxValue
  BY DEF MaxValue
<1>2. r \in Seq(Nat) /\ Len(r) = n /\ \A i \in 1..n : r[i] = IF i = n THEN v ELSE q[i]
  BY <1>1
<1>3. r # <<>>
  <2>1. Len(r) # 0
    BY <1>1, <1>2
  <2> QED
    BY <2>1
<1> HIDE DEF r
<1>4. ASSUME NEW i \in 1..Len(r) PROVE r[i] <= MaxValue
  BY <1>1, <1>2, <1>4 DEF ParamsOk
<1>5. Len(r) <= MaxParams
  BY <1>2 DEF ParamsOk
<1>6. r \in Seq(Nat) /\ ParamsOk(r) /\ r # <<>>
  BY <1>2, <1>3, <1>4, <1>5 DEF ParamsOk
<1> QED
  BY <1>6 DEF r

LEMMA ParamStarts ==
  ASSUME NEW q \in Seq(Nat), ParamsOk(q), Len(q) # MaxParams
  PROVE  LET r == Append(q, 0)
         IN  r \in Seq(Nat) /\ ParamsOk(r) /\ r # <<>>
<1> DEFINE n == Len(q)
           r == Append(q, 0)
<1>1. n \in Nat /\ n <= MaxParams /\ n # MaxParams /\ \A i \in 1..n : q[i] <= MaxValue
  BY DEF ParamsOk
<1>2. r \in Seq(Nat) /\ Len(r) = n + 1 /\ \A i \in 1..n + 1 : r[i] = IF i = n + 1 THEN 0 ELSE q[i]
  OBVIOUS
<1> HIDE DEF r, n
<1>3. r # <<>>
  <2>1. Len(r) # 0
    BY <1>1, <1>2
  <2> QED
    BY <2>1
<1>4. ASSUME NEW i \in 1..Len(r) PROVE r[i] <= MaxValue
  <2>1. i \in 1..n + 1
    BY <1>2, <1>4
  <2>2. CASE i = n + 1
    BY <1>2, <2>1, <2>2 DEF MaxValue
  <2>3. CASE i # n + 1
    <3>1. i \in 1..n
      BY <1>1, <2>1, <2>3
    <3> QED
      BY <1>1, <1>2, <2>1, <2>3, <3>1
  <2> QED
    BY <2>2, <2>3
<1>5. Len(r) <= MaxParams
  <2>1. n + 1 <= MaxParams
    BY <1>1 DEF MaxParams
  <2> QED
    BY <1>2, <2>1
<1>6. r \in Seq(Nat) /\ ParamsOk(r) /\ r # <<>>
  BY <1>2, <1>3, <1>4, <1>5 DEF ParamsOk
<1> QED
  BY <1>6 DEF r

LEMMA CsiParamWorks ==
  ASSUME NEW t, TermOk(t), t.state = "param", NEW ch
  PROVE  Works(t, CsiParam(t, ch))
<1> DEFINE i == Len(t.params)
           v == t.params[i] * 10 + DigitOf(ch)
           grown == [t.params EXCEPT ![i] = v]
           more == Append(t.params, 0)
<1>1. t.params \in Seq(Nat) /\ ParamsOk(t.params) /\ t.params # <<>>
  BY TermFields DEF TermOk
<1>2. Works(t, back_to_normal(t)) /\ Works(t, do_csi_final(t, ch))
  BY BackWorks, CsiFinalWorks
<1>3. CASE IsDigit(ch)
  <2>1. CASE v > MaxValue
    BY <1>2, <1>3, <2>1 DEF CsiParam
  <2>2. CASE ~(v > MaxValue)
    <3>1. v \in 0..MaxValue
      <4>1. DigitOf(ch) \in 0..9
        BY <1>3, DigitValue
      <4>2. t.params[i] \in Nat
        BY <1>1
      <4> DEFINE a == t.params[i]
                 d == DigitOf(ch)
      <4>3. v = a * 10 + d /\ a \in Nat /\ d \in 0..9
        BY <4>1, <4>2
      <4> HIDE DEF a, d, v
      <4> QED
        BY <2>2, <4>3 DEF MaxValue
    <3>2. CsiParam(t, ch) = ParamsSet(t, grown)
      BY <1>3, <2>2, Zenon DEF CsiParam, ParamsSet
    <3> HIDE DEF v
    <3>3. grown \in Seq(Nat) /\ ParamsOk(grown) /\ grown # <<>>
      BY <1>1, <3>1, ParamGrows, Zenon
    <3> HIDE DEF grown
    <3> QED
      BY <3>2, <3>3, ParamsSetWorks, Zenon
  <2> QED
    BY <2>1, <2>2
<1>4. CASE ~IsDigit(ch) /\ ch = ";"
  <2>1. CASE i = MaxParams
    BY <1>2, <1>4, <2>1, Zenon DEF CsiParam
  <2>2. CASE i # MaxParams
    <3>1. CsiParam(t, ch) = ParamsSet(t, more)
      BY <1>4, <2>2, Zenon DEF CsiParam, ParamsSet
    <3>2. more \in Seq(Nat) /\ ParamsOk(more) /\ more # <<>>
      BY <1>1, <2>2, ParamStarts, Zenon
    <3> HIDE DEF more
    <3> QED
      BY <3>1, <3>2, ParamsSetWorks, Zenon
  <2> QED
    BY <2>1, <2>2
<1>5. CASE ~IsDigit(ch) /\ ch # ";"
  BY <1>2, <1>5, Zenon DEF CsiParam
<1> QED
  BY <1>3, <1>4, <1>5

LEMMA DesignateWorks ==
  ASSUME NEW t, TermOk(t), NEW ch
  PROVE  Works(t, Designate(t, ch))
<1> DEFINE set == CASE ch = "B" -> "ascii" [] ch = "0" -> "graphics" [] ch = "A" -> "uk"
                    [] OTHER -> IF t.designating_g0 THEN t.g0 ELSE t.g1
           g0 == IF t.designating_g0 THEN set ELSE t.g0
           g1 == IF t.designating_g0 THEN t.g1 ELSE set
           w == Graphic(t, t.invoking_g1, g0, g1)
<1>1. t.g0 \in CharSets /\ t.g1 \in CharSets
  BY DEF TermOk, TermRecs
<1>2. set \in CharSets
  BY <1>1 DEF CharSets
<1>3. Designate(t, ch) = back_to_normal(SetsSet(t, g0, g1, w))
  BY Zenon DEF Designate, SetsSet
<1>4. w \in BOOLEAN
  BY Zenon DEF Graphic
<1> HIDE DEF set, w
<1>5. g0 \in CharSets /\ g1 \in CharSets
  BY <1>1, <1>2
<1> HIDE DEF g0, g1
<1> QED
  BY <1>3, <1>4, <1>5, SetsSetWorks, ThenBack, Zenon

LEMMA WriteWorks ==
  ASSUME NEW t, TermOk(t), NEW ch \in TermChars
  PROVE  Works(t, vt100_write(t, ch))
<1>1. t.state \in TermStates
  BY DEF TermOk, TermRecs
<1>2. Works(t, Normal(t, ch)) /\ Works(t, Escape(t, ch)) /\ Works(t, Csi(t, ch))
      /\ Works(t, Designate(t, ch))
  BY NormalWorks, EscapeWorks, CsiWorks, DesignateWorks
<1>3. t.state = "param" => Works(t, CsiParam(t, ch))
  BY CsiParamWorks
<1> QED
  BY <1>1, <1>2, <1>3 DEF vt100_write, TermStates

----------------------------------------------------------------------------
\* The invariant: the terminal's parts agree, what is still to come of a string
\* are characters, and no cell that shows the wrong thing is left unmarked.
TermInv ==
  /\ TermOk(term) /\ cursor_on \in BOOLEAN /\ coming \in Seq(TermChars)
  /\ NothingStale

LEMMA StringsTyped ==
  ASSUME NEW s \in Strings
  PROVE  s \in Seq(TermChars) /\ s # <<>>
<1>1. s \in Seq(STRING) /\ s # <<>>
  BY TermAssumption
<1>2. ASSUME NEW i \in 1..Len(s) PROVE s[i] \in TermChars
  <2>1. s[i] \in CharsOf(s)
    BY Zenon DEF CharsOf
  <2>2. s[i] \in UNION {CharsOf(r) : r \in Strings}
    BY <2>1, Zenon
  <2> QED
    BY <2>2, Zenon DEF TermChars
<1> DEFINE n == Len(s)
<1>3. n \in Nat /\ s \in [1..n -> STRING]
  BY <1>1
<1>4. s = [i \in 1..n |-> s[i]]
  BY <1>3
<1>5. \A i \in 1..n : s[i] \in TermChars
  BY <1>2
<1> HIDE DEF n
<1>6. s \in [1..n -> TermChars]
  BY <1>4, <1>5
<1>7. s \in Seq(TermChars)
  BY <1>3, <1>6
<1> QED
  BY <1>1, <1>7

LEMMA FilledTyped ==
  /\ Filled \in [Cell -> CellRecs]
  /\ \A p \in Cell : Filled[p] = Look(Filled[p], TRUE)
<1> DEFINE cell(p) == [ch |-> Alphabet[((p[1] * TermCols + p[2]) % Len(Alphabet)) + 1],
                       cs |-> "ascii", pen |-> "plain"]
<1>1. Filled = [p \in Cell |-> cell(p)]
  BY DEF Filled
<1>2. ASSUME NEW p \in Cell PROVE cell(p) \in CellRecs
  <2>1. p[1] \in Int /\ p[2] \in Int /\ TermCols \in Int
    BY CellPlace, ScreenSize, TermAssumption
  <2>2. p[1] * TermCols \in Int
    BY <2>1
  <2> DEFINE m == p[1] * TermCols
             k == (m + p[2]) % Len(Alphabet)
  <2> HIDE DEF m
  <2>3. k \in 0..Len(Alphabet) - 1 /\ k + 1 \in 1..Len(Alphabet)
    <3>1. Len(Alphabet) = 12
      BY DEF Alphabet
    <3>2. m \in Int
      BY <2>2 DEF m
    <3> QED
      BY <2>1, <3>1, <3>2
  <2>4. cell(p).ch = Alphabet[k + 1]
        /\ cell(p) = [ch |-> Alphabet[k + 1], cs |-> "ascii", pen |-> "plain"]
    BY DEF m
  <2> HIDE DEF k
  <2>5. Alphabet[k + 1] \in TermChars
    BY <2>3, Zenon DEF TermChars
  <2> QED
    BY <2>4, <2>5 DEF CellRecs, Pens
<1>3. \A p \in Cell : cell(p) = Look(cell(p), TRUE)
  BY DEF Look
<1> HIDE DEF cell
<1> QED
  BY <1>1, <1>2, <1>3

LEMMA TermStarts ==
  ASSUME TermInit
  PROVE  TermInv
<1>1. Filled \in [Cell -> CellRecs] /\ {} \in SUBSET Cell /\ <<0, 0>> \in Cell
      /\ 0 \in 0..LastLine /\ 0 \in 0..LastCol /\ LastLine \in 0..LastLine /\ 0 <= LastLine
      /\ <<>> \in Seq(Nat) /\ <<>> \in Seq(ReportChars) /\ <<>> \in Seq(TermChars)
  BY FilledTyped, ScreenSize, CellPlace
<1>2. "plain" \in Pens /\ "normal" \in TermStates /\ "ascii" \in CharSets /\ "normal" # "param"
  BY DEF Pens, TermStates, CharSets
<1>3. term \in TermRecs
  BY <1>1, <1>2 DEF TermInit, TermRecs
<1>4. term.top = 0 /\ term.bottom = LastLine /\ term.params = <<>> /\ term.state = "normal"
      /\ term.text = Filled
  BY DEF TermInit
<1>5. TermOk(term)
  BY <1>1, <1>2, <1>3, <1>4, NoParams DEF TermOk
<1>6. NothingStale
  BY <1>4, FilledTyped DEF NothingStale, TermInit
<1> QED
  BY <1>1, <1>5, <1>6 DEF TermInv, TermInit

LEMMA FeedKeeps ==
  ASSUME TermInv, NEW b \in TermChars, Feed(b)
  PROVE  TermOk(term)' /\ cursor_on' \in BOOLEAN /\ NothingStale'
<1> DEFINE t == vt100_write(term, b)
<1>1. Works(term, t)
  BY WriteWorks DEF TermInv
<1>2. term' = OutSet(t, <<>>) /\ window' = window /\ cursor_on' = cursor_on
  BY DEF Feed, OutSet
<1> HIDE DEF t
<1>3. Works(t, OutSet(t, <<>>))
  <2>1. <<>> \in Seq(ReportChars)
    OBVIOUS
  <2> QED
    BY <1>1, <2>1, OutSetWorks, Zenon DEF Works
<1>4. TermOk(term') /\ Marks(term, term')
  BY <1>1, <1>2, <1>3, WorksTwice, Zenon DEF Works
<1>5. NothingStale'
  BY <1>2, <1>4 DEF Marks, NothingStale, TermInv
<1> QED
  BY <1>2, <1>4, <1>5 DEF TermInv

LEMMA WriteKeeps ==
  ASSUME TermInv, SerialWrite
  PROVE  TermInv'
<1>1. CASE /\ coming # <<>> /\ Feed(Head(coming)) /\ coming' = Tail(coming)
  <2>1. Head(coming) \in TermChars /\ coming' \in Seq(TermChars)
    BY <1>1 DEF TermInv
  <2> QED
    BY <1>1, <2>1, FeedKeeps DEF TermInv
<1>2. CASE \E s \in Strings : Feed(Head(s)) /\ coming' = Tail(s)
  <2>1. PICK s \in Strings : Feed(Head(s)) /\ coming' = Tail(s)
    BY <1>2
  <2>2. Head(s) \in TermChars /\ coming' \in Seq(TermChars)
    BY <2>1, StringsTyped
  <2> QED
    BY <2>1, <2>2, FeedKeeps DEF TermInv
<1> QED
  BY <1>1, <1>2 DEF SerialWrite

DrawnSet(t) == [t EXCEPT !.full_redraw = FALSE, !.dirty = {}]

LEMMA PollKeeps ==
  ASSUME TermInv, NEW event, NEW ticks \in BOOLEAN, Poll(event, ticks)
  PROVE  TermInv'
<1> DEFINE on == IF ticks THEN ~cursor_on ELSE cursor_on
           r == term.full_redraw \/ event = "Expose" \/ ticks
           t == [term EXCEPT !.full_redraw = r]
<1>1. /\ cursor_on' = on /\ window' = vt100_render(t, window, on) /\ term' = DrawnSet(t)
      /\ coming' = coming
  BY DEF Poll, DrawnSet
<1>2. term \in TermRecs
  BY DEF TermInv, TermOk
<1>3. r \in BOOLEAN
  OBVIOUS
<1> HIDE DEF r
<1>4. t \in TermRecs /\ t.full_redraw = r /\ t.dirty = term.dirty /\ t.text = term.text
      /\ t.top = term.top /\ t.bottom = term.bottom /\ t.params = term.params /\ t.state = term.state
  BY <1>2, <1>3 DEF TermRecs
<1> HIDE DEF t
<1>5. DrawnSet(t) \in TermRecs /\ DrawnSet(t).text = t.text
      /\ DrawnSet(t).top = t.top /\ DrawnSet(t).bottom = t.bottom
      /\ DrawnSet(t).params = t.params /\ DrawnSet(t).state = t.state
  BY <1>4 DEF TermRecs, DrawnSet
<1>6. TermOk(term')
  BY <1>1, <1>4, <1>5 DEF TermOk, TermInv
<1>7. cursor_on' \in BOOLEAN
  BY <1>1 DEF TermInv
<1>8. ASSUME NEW p \in Cell PROVE window'[p] = Look(term'.text[p], cursor_on')
  <2>1. window'[p] = IF t.full_redraw \/ p \in t.dirty THEN Look(t.text[p], on) ELSE window[p]
    BY <1>1 DEF vt100_render
  <2>2. term'.text[p] = t.text[p] /\ t.text[p] = term.text[p]
    BY <1>1, <1>4, <1>5
  <2>3. CASE t.full_redraw \/ p \in t.dirty
    BY <1>1, <2>1, <2>2, <2>3
  <2>4. CASE ~(t.full_redraw \/ p \in t.dirty)
    <3>1. ~term.full_redraw /\ ~ticks /\ p \notin term.dirty
      BY <1>4, <2>4 DEF r
    <3>2. window[p] = Look(term.text[p], cursor_on)
      BY <3>1 DEF TermInv, NothingStale
    <3> QED
      BY <1>1, <2>1, <2>2, <2>4, <3>1, <3>2
  <2> QED
    BY <2>3, <2>4
<1>9. NothingStale'
  BY <1>8 DEF NothingStale
<1> QED
  BY <1>1, <1>6, <1>7, <1>9 DEF TermInv

LEMMA OutsideKept ==
  ASSUME TermInv
  PROVE  OutsideStays
<1> SUFFICES ASSUME NEW b \in {"LF", "D", "E", "M"}, NEW p \in Cell,
                    b = "LF" <=> term.state = "normal", term.state \in {"normal", "escape"},
                    p[1] \notin term.top..term.bottom
             PROVE  vt100_write(term, b).text[p] = term.text[p]
  BY DEF OutsideStays
<1>1. term \in TermRecs
  BY DEF TermInv, TermOk
<1>2. /\ scroll_up_region(term).text[p] = term.text[p] /\ scroll_down_region(term).text[p] = term.text[p]
      /\ [term EXCEPT !.line = @ + 1].text = term.text /\ [term EXCEPT !.line = @ - 1].text = term.text
  BY <1>1 DEF scroll_up_region, scroll_down_region, Moved, TermRecs
<1>3. /\ linefeed(term).text[p] = term.text[p] /\ Index(term).text[p] = term.text[p]
      /\ ReverseIndex(term).text[p] = term.text[p]
  BY <1>2, Zenon DEF linefeed, Index, ReverseIndex
<1>4. ASSUME NEW u, u \in TermRecs
      PROVE  back_to_normal(u).text = u.text /\ back_to_normal([u EXCEPT !.col = 0]).text = u.text
  BY <1>4 DEF back_to_normal, TermRecs
<1>5. Index(term) \in TermRecs /\ ReverseIndex(term) \in TermRecs
  BY FeedsWork DEF TermInv, Works, TermOk
<1>6. CASE b = "LF"
  <2>1. vt100_write(term, b) = linefeed(term)
    BY <1>6 DEF vt100_write, Normal
  <2> QED
    BY <1>3, <2>1
<1>7. CASE b # "LF"
  <2>1. vt100_write(term, b) = Escape(term, b)
    BY <1>7 DEF vt100_write
  <2>2. \/ Escape(term, b) = back_to_normal(Index(term))
        \/ Escape(term, b) = back_to_normal([Index(term) EXCEPT !.col = 0])
        \/ Escape(term, b) = back_to_normal(ReverseIndex(term))
    BY <1>7 DEF Escape
  <2>3. back_to_normal(Index(term)).text = Index(term).text
    BY <1>4, <1>5
  <2>4. back_to_normal([Index(term) EXCEPT !.col = 0]).text = Index(term).text
    BY <1>4, <1>5
  <2>5. back_to_normal(ReverseIndex(term)).text = ReverseIndex(term).text
    BY <1>4, <1>5
  <2>6. Escape(term, b).text \in {Index(term).text, ReverseIndex(term).text}
    BY <2>2, <2>3, <2>4, <2>5, Zenon
  <2> QED
    BY <1>3, <2>1, <2>6, Zenon
<1> QED
  BY <1>6, <1>7

\* Whatever the guest writes and the window's user does, the cursor and the
\* scrolling region stay on the screen, no cell whose text has changed is left
\* as it was drawn, and scrolling leaves the text around its region alone
\* (vt100_write, do_csi_final, vt100_render).
THEOREM TerminalKept == TermSpec => []TerminalSound
<1>1. TermInit => TermInv
  BY TermStarts
<1>2. TermInv /\ [TermNext]_termVars => TermInv'
  <2> SUFFICES ASSUME TermInv, [TermNext]_termVars PROVE TermInv'
    OBVIOUS
  <2>1. CASE SerialWrite
    BY <2>1, WriteKeeps
  <2>2. CASE \E event \in Events, ticks \in BOOLEAN : Poll(event, ticks)
    BY <2>2, PollKeeps
  <2>3. CASE Read \/ PopForwarded
    BY <2>3 DEF Read, PopForwarded, TermInv, NothingStale
  <2>4. CASE UNCHANGED termVars
    BY <2>4 DEF termVars, TermInv, NothingStale
  <2> QED
    BY <2>1, <2>2, <2>3, <2>4 DEF TermNext
<1>3. TermInv => TerminalSound
  <2> SUFFICES ASSUME TermInv PROVE TerminalSound
    OBVIOUS
  <2>1. InsideScreen
    BY TermFields, ScreenSize DEF TermInv, TermOk, ParamsOk, InsideScreen
  <2> QED
    BY <2>1, OutsideKept DEF TerminalSound, TermInv
<1> QED
  BY <1>1, <1>2, <1>3, PTL DEF TermSpec

(***************************************************************************)
(* The run loops: what the user has allowed is never overrun.              *)
(***************************************************************************)

\* What a machine's loop may be made of.
LoopRecs ==
  [window : {"leaves", "marks", "asks", "nothing"}, key : BOOLEAN,
   quit : {"leaves", "drains", "exits"}, late : BOOLEAN, break : BOOLEAN, watch : BOOLEAN,
   after : BOOLEAN, step : {"counts", "stops", "one"}, halts : BOOLEAN, exits : BOOLEAN,
   defers : BOOLEAN, raster : BOOLEAN]
HostRecs ==
  [at : {"window", "commands", "ready", "step", "frame", "idle", "done"}, noShutdown : BOOLEAN,
   paused : BOOLEAN, quit : BOOLEAN, reset : BOOLEAN, left : Nat, lines : Nat, frames : Nat,
   beam : BOOLEAN]
GuestRecs ==
  [pc : LoopAddr, breaks : SUBSET LoopAddr, skip : BOOLEAN, skipAddr : LoopAddr,
   halted : BOOLEAN, exit : BOOLEAN]

\* The loops that count scanlines look for a pause after each instruction.
LoopOk(l) == l \in LoopRecs /\ (l.raster => l.after)

\* A paused machine has nothing left to run, except what a step counts out,
\* and one that is not paused may run.
Allowed(l, h, n) ==
  /\ h.at # "step" /\ h.paused /\ l.step # "one" => n = 0
  /\ ~h.paused /\ ~h.quit => n > 0
  /\ h.at = "step" => /\ h.paused /\ h.left > 0 /\ n > 0
                      /\ l.step # "one" => n = h.left
                      /\ l.step = "one" => h.left = 1
  /\ h.at = "frame" => (h.paused => l.watch /\ ~l.after) /\ (h.quit => l.late)
  /\ h.at = "window" => ~h.quit

LoopInv ==
  /\ LoopOk(loop) /\ host \in HostRecs /\ guest \in GuestRecs /\ granted \in Nat
  /\ Allowed(loop, host, granted)

\* Each of the machines has such a loop.
LEMMA LoopsOk == \A l \in Loops : LoopOk(l)
<1>1. LoopOk(Plain) /\ LoopOk(Blind)
  BY DEF LoopOk, LoopRecs, Plain, Blind
<1>2. /\ LoopOk(generic_6502) /\ LoopOk(apple1) /\ LoopOk(atari2600) /\ LoopOk(atari400)
      /\ LoopOk(kim1) /\ LoopOk(magicfly) /\ LoopOk(fiveclown) /\ LoopOk(um6578)
  BY DEF LoopOk, LoopRecs, Plain, generic_6502, apple1, atari2600, atari400, kim1, magicfly,
         fiveclown, um6578
<1>3. /\ LoopOk(nes) /\ LoopOk(lagonda) /\ LoopOk(generic_z80) /\ LoopOk(ibm5150)
      /\ LoopOk(i2000) /\ LoopOk(generic_ia64)
  BY DEF LoopOk, LoopRecs, Plain, nes, lagonda, generic_z80, ibm5150, i2000, generic_ia64
<1>4. /\ LoopOk(destroyer) /\ LoopOk(vip) /\ LoopOk(pecom32) /\ LoopOk(studio2)
      /\ LoopOk(chip8) /\ LoopOk(chip8_bench) /\ LoopOk(tvgame6) /\ LoopOk(tvgame6_none)
  BY DEF LoopOk, LoopRecs, Plain, Blind, destroyer, vip, pecom32, studio2, chip8, chip8_bench,
         tvgame6, tvgame6_none
<1> QED
  BY <1>2, <1>3, <1>4, Zenon DEF Loops

LEMMA LoopStarts == LoopInit => LoopInv
<1> SUFFICES ASSUME LoopInit PROVE LoopInv
  OBVIOUS
<1>1. LoopOk(loop)
  BY LoopsOk DEF LoopInit
<1>2. PICK ns \in BOOLEAN :
        host = [at |-> "window", noShutdown |-> ns, paused |-> FALSE, quit |-> FALSE,
                reset |-> FALSE, left |-> 0, lines |-> 0, frames |-> 0, beam |-> FALSE]
  BY DEF LoopInit
<1>3. host \in HostRecs /\ guest \in GuestRecs /\ granted \in Nat /\ granted > 0
  BY <1>2, LoopSizes DEF LoopInit, HostRecs, GuestRecs, Freely
<1> QED
  BY <1>1, <1>2, <1>3 DEF LoopInv, Allowed

\* What a reset, and an instruction, make of the processor.
LEMMA GuestKept ==
  ASSUME guest \in GuestRecs
  PROVE  /\ ResetGuest(guest) \in GuestRecs
         /\ \A b \in SUBSET LoopAddr : [guest EXCEPT !.breaks = b] \in GuestRecs
         /\ [guest EXCEPT !.halted = FALSE] \in GuestRecs
         /\ [guest EXCEPT !.exit = FALSE] \in GuestRecs
         /\ HitBreak => guest' \in GuestRecs
         /\ \A checked, fault, exit \in BOOLEAN, pc \in LoopAddr :
              Executed(checked, pc, fault, exit) => guest' \in GuestRecs
<1>1. \A fault, exit \in BOOLEAN, pc \in LoopAddr :
        [guest EXCEPT !.pc = IF fault THEN @ ELSE pc, !.halted = fault, !.exit = @ \/ exit] \in GuestRecs
  BY DEF GuestRecs
<1>2. \A g \in GuestRecs, checked \in BOOLEAN : SkipAfterCheck(g, checked) \in GuestRecs
  BY DEF GuestRecs, SkipAfterCheck
<1>3. \A checked, fault, exit \in BOOLEAN, pc \in LoopAddr :
         Executed(checked, pc, fault, exit) => guest' \in GuestRecs
  BY <1>1, <1>2 DEF Executed
<1> QED
  BY <1>3, LoopSizes DEF GuestRecs, ResetGuest, HitBreak

LEMMA EventKeeps ==
  ASSUME LoopInv, NoEvent \/ (loop.window # "nothing" /\ Close) \/ ResetKey
  PROVE  LoopInv'
<1>1. CASE NoEvent
  BY <1>1 DEF NoEvent, LoopInv, LoopOk, Allowed, HostRecs
<1>2. CASE loop.window # "nothing" /\ Close
  <2>1. host.at = "window" /\ UNCHANGED <<loop, guest>> /\ granted' = IF host'.quit THEN 0 ELSE granted
    BY <1>2 DEF Close
  <2>2. \/ host' = [host EXCEPT !.at = "done", !.quit = TRUE]
        \/ host' = [host EXCEPT !.at = "commands", !.quit = TRUE]
        \/ host' = [host EXCEPT !.at = "commands", !.quit = ~host.noShutdown]
    BY <1>2 DEF Close, LoopRecs, LoopInv, LoopOk
  <2>3. host' \in HostRecs /\ host'.at \in {"done", "commands"} /\ host'.paused = host.paused
    BY <2>2 DEF LoopInv, HostRecs
  <2> QED
    BY <2>1, <2>3 DEF LoopInv, LoopOk, Allowed, HostRecs
<1>3. CASE ResetKey
  <2>1. guest' \in GuestRecs
    BY <1>3, GuestKept DEF ResetKey, LoopInv
  <2>2. host' \in HostRecs /\ host'.at = "commands" /\ host'.paused = host.paused /\ host'.quit = host.quit
    BY <1>3 DEF ResetKey, LoopInv, LoopOk, LoopRecs, HostRecs
  <2>3. host.at = "window" /\ UNCHANGED <<loop, granted>>
    BY <1>3 DEF ResetKey
  <2> QED
    BY <2>1, <2>2, <2>3 DEF LoopInv, LoopOk, Allowed
<1> QED
  BY <1>1, <1>2, <1>3

LEMMA CommandKeeps ==
  ASSUME LoopInv,
         \/ CmdStop \/ CmdCont \/ CmdQuit \/ CmdReset
         \/ \E b \in SUBSET LoopAddr : SetBreaks(b)
         \/ \E n \in 1 .. MaxCount : CmdStep(n) \/ ContFor(n, "lines") \/ ContFor(n, "frames")
         \/ \E on \in BOOLEAN : BreakLine(on)
  PROVE  LoopInv'
<1>1. host.at = "commands" /\ loop' = loop
  BY DEF CmdStop, CmdCont, CmdQuit, CmdReset, SetBreaks, CmdStep, ContFor, BreakLine, Commanded
<1>2. ASSUME NEW n \in 1 .. MaxCount, CmdStep(n)
      PROVE  LoopInv'
  <2>1. /\ host' = [host EXCEPT !.paused = TRUE, !.at = "step", !.left = IF loop.step = "one" THEN 1 ELSE n]
        /\ guest' \in GuestRecs /\ granted' = n
    BY <1>2, GuestKept DEF CmdStep, Commanded, LoopInv
  <2>2. n \in Nat /\ n > 0
    BY LoopSizes
  <2>3. /\ host' \in HostRecs /\ host'.at = "step" /\ host'.paused
        /\ host'.left = (IF loop.step = "one" THEN 1 ELSE n)
    BY <2>1, <2>2 DEF LoopInv, HostRecs
  <2> QED
    BY <1>1, <2>1, <2>2, <2>3 DEF LoopInv, Allowed, LoopOk
<1>3. CASE CmdStop \/ CmdCont
  <2>1. /\ guest' = guest /\ host' \in HostRecs /\ host'.at = "commands" /\ host'.quit = host.quit
        /\ \/ host'.paused /\ granted' = 0
           \/ ~host'.paused /\ granted' = Freely
    BY <1>1, <1>3 DEF CmdStop, CmdCont, Commanded, Pauses, Continues, LoopInv, HostRecs
  <2> QED
    BY <1>1, <2>1, LoopSizes DEF LoopInv, Allowed, LoopOk, Freely
<1>4. CASE CmdQuit
  <2>1. /\ guest' = guest /\ host' \in HostRecs /\ host'.at \in {"commands", "ready"} /\ granted' = 0
        /\ host'.paused \/ host'.quit
    BY <1>1, <1>4 DEF CmdQuit, Commanded, Pauses, LoopInv, HostRecs
  <2> QED
    BY <1>1, <2>1 DEF LoopInv, Allowed, LoopOk
<1>5. CASE CmdReset \/ (\E b \in SUBSET LoopAddr : SetBreaks(b)) \/ (\E on \in BOOLEAN : BreakLine(on))
  <2>1. guest' \in GuestRecs /\ granted' = granted
    BY <1>5, GuestKept DEF CmdReset, SetBreaks, BreakLine, Commanded, LoopInv
  <2>2. loop.defers \in BOOLEAN
    BY DEF LoopInv, LoopOk, LoopRecs
  <2>3. host' \in HostRecs /\ host'.at = "commands" /\ host'.paused = host.paused /\ host'.quit = host.quit
    BY <1>1, <1>5, <2>2 DEF CmdReset, SetBreaks, BreakLine, Commanded, LoopInv, HostRecs
  <2> QED
    BY <1>1, <2>1, <2>3 DEF LoopInv, Allowed, LoopOk
<1>6. ASSUME NEW n \in 1 .. MaxCount, ContFor(n, "lines") \/ ContFor(n, "frames")
      PROVE  LoopInv'
  <2>1. /\ guest' = guest /\ host' \in HostRecs /\ host'.at = "commands" /\ ~host'.paused
        /\ host'.quit = host.quit /\ granted' = Freely
    <3>1. n \in Nat
      BY LoopSizes
    <3>2. /\ guest' = guest /\ granted' = Freely
          /\ \/ host' = [host EXCEPT !.paused = FALSE, !.lines = n]
             \/ host' = [host EXCEPT !.paused = FALSE, !.frames = n]
      BY <1>6, Zenon DEF ContFor, Commanded
    <3> QED
      BY <1>1, <3>1, <3>2 DEF LoopInv, HostRecs
  <2> QED
    BY <1>1, <2>1, LoopSizes DEF LoopInv, Allowed, LoopOk, Freely
<1> QED
  BY <1>2, <1>3, <1>4, <1>5, <1>6

LEMMA BodyKeeps ==
  ASSUME LoopInv, CommandsOver \/ FrameOver \/ BodyOver
  PROVE  LoopInv'
<1>1. CASE CommandsOver
  <2>1. host.at \in {"commands", "ready"} /\ UNCHANGED <<loop, granted>>
    BY <1>1 DEF CommandsOver
  <2>2. guest' \in GuestRecs
    BY <1>1, GuestKept DEF CommandsOver, LoopInv
  <2>3. /\ host' \in HostRecs /\ host'.paused = host.paused /\ host'.quit = host.quit
        /\ \/ host'.at \in {"done", "idle"}
           \/ host'.at = "window" /\ ~host.quit
           \/ host'.at = "frame" /\ ~host.paused /\ (host.quit => loop.late)
    <3>1. host.reset \in BOOLEAN /\ host.quit \in BOOLEAN /\ host.paused \in BOOLEAN
      BY DEF LoopInv, HostRecs
    <3>2. CASE host' = [host EXCEPT !.at = "done"] \/ host' = [host EXCEPT !.at = "idle"]
      BY <3>2 DEF LoopInv, HostRecs
    <3>3. CASE ~host.quit /\ host' = [host EXCEPT !.at = "window", !.reset = FALSE]
      BY <3>3 DEF LoopInv, HostRecs
    <3>4. CASE /\ ~host.paused /\ (host.quit => loop.late)
               /\ \E n \in 0 .. FrameLen : host' = [host EXCEPT !.at = "frame", !.left = n]
      <4>1. PICK n \in 0 .. FrameLen : host' = [host EXCEPT !.at = "frame", !.left = n]
        BY <3>4
      <4>2. n \in Nat
        BY LoopSizes
      <4> QED
        BY <3>4, <4>1, <4>2 DEF LoopInv, HostRecs
    <3> QED
      BY <1>1, <3>1, <3>2, <3>3, <3>4, Zenon DEF CommandsOver
  <2> QED
    BY <2>1, <2>2, <2>3 DEF LoopInv, Allowed, LoopOk
<1>2. CASE FrameOver
  <2> DEFINE last == loop.raster /\ host.frames = 1
  <2>1. host.at = "frame" /\ UNCHANGED <<loop, guest>> /\ granted' = IF last THEN 0 ELSE granted
    BY <1>2 DEF FrameOver
  <2>2. /\ host' \in HostRecs /\ host'.at = "idle" /\ (host'.paused <=> host.paused \/ last)
        /\ host'.quit = host.quit
    <3> DEFINE stopped == host.paused \/ last
               frames == IF host.frames > 0 THEN host.frames - 1 ELSE host.frames
    <3>1. host' = [host EXCEPT !.at = "idle", !.left = 0, !.paused = stopped, !.frames = frames]
      BY <1>2 DEF FrameOver
    <3>2. stopped \in BOOLEAN /\ frames \in Nat
      BY DEF LoopInv, HostRecs, LoopOk, LoopRecs
    <3> HIDE DEF frames, stopped
    <3>3. host' \in HostRecs /\ host'.at = "idle" /\ host'.quit = host.quit /\ host'.paused = stopped
      BY <3>1, <3>2 DEF LoopInv, HostRecs
    <3> QED
      BY <3>3 DEF stopped
  <2> QED
    BY <2>1, <2>2 DEF LoopInv, Allowed, LoopOk
<1>3. CASE BodyOver
  <2>1. /\ host.at = "idle" /\ loop' = loop /\ guest' \in GuestRecs
        /\ granted' = IF guest.exit THEN 0 ELSE granted
    BY <1>3, GuestKept DEF BodyOver, LoopInv
  <2>2. guest.exit \in BOOLEAN
    BY DEF LoopInv, GuestRecs
  <2>3. /\ host' \in HostRecs
        /\ host'.quit <=> host.quit \/ (guest.exit /\ ~host.noShutdown)
        /\ host'.at = IF host'.quit THEN "done" ELSE "window"
        /\ host'.paused <=> host.paused \/ (guest.exit /\ host.noShutdown)
    BY <1>3, <2>2 DEF BodyOver, LoopInv, HostRecs
  <2> QED
    BY <2>1, <2>3 DEF LoopInv, Allowed, LoopOk
<1> QED
  BY <1>1, <1>2, <1>3

LEMMA BreakKeeps ==
  ASSUME LoopInv, BreakInFrame \/ BreakInStep
  PROVE  LoopInv'
<1>1. guest' \in GuestRecs /\ granted' = 0 /\ loop' = loop
  BY GuestKept DEF BreakInFrame, BreakInStep, HitBreak, LoopInv
<1>2. host' \in HostRecs /\ host'.at \in {"idle", "commands"} /\ host'.paused
  <2>1. CASE BreakInFrame
    BY <2>1 DEF BreakInFrame, LoopInv, HostRecs
  <2>2. CASE BreakInStep
    BY <2>2 DEF BreakInStep, LoopInv, HostRecs, Allowed
  <2> QED
    BY <2>1, <2>2
<1> QED
  BY <1>1, <1>2 DEF LoopInv, Allowed, LoopOk

LEMMA RunKeeps ==
  ASSUME LoopInv, LoopRuns
  PROVE  LoopInv'
<1>1. ASSUME NEW pc \in LoopAddr, NEW fault \in BOOLEAN, NEW exit \in BOOLEAN, RunInStep(pc, fault, exit)
      PROVE  LoopInv'
  <2>1. loop' = loop /\ guest' \in GuestRecs /\ host.at = "step"
    BY <1>1, GuestKept DEF RunInStep, LoopInv
  <2>2. granted' = IF fault THEN 0 ELSE granted - 1
    BY <1>1, <2>1 DEF RunInStep, LoopInv, Allowed
  <2>3. /\ host' \in HostRecs /\ host'.paused
        /\ host'.left = (IF fault THEN 0 ELSE host.left - 1)
        /\ host'.at = (IF fault \/ host.left = 1 THEN "commands" ELSE "step")
    <3> DEFINE left == IF fault THEN 0 ELSE host.left - 1
               at == IF fault \/ host.left = 1 THEN "commands" ELSE host.at
    <3>1. host' = [host EXCEPT !.left = left, !.at = at]
      BY <1>1 DEF RunInStep
    <3>2. left \in Nat /\ at \in {"commands", "step"}
      BY <2>1 DEF LoopInv, HostRecs, Allowed
    <3>3. host.paused
      BY <2>1 DEF LoopInv, Allowed
    <3> HIDE DEF left, at
    <3>4. host' \in HostRecs /\ host'.paused = host.paused /\ host'.left = left /\ host'.at = at
      BY <3>1, <3>2 DEF LoopInv, HostRecs
    <3> QED
      BY <2>1, <3>3, <3>4 DEF left, at
  <2>4. host.left \in Nat /\ granted \in Nat
    BY DEF LoopInv, HostRecs
  <2> QED
    BY <2>1, <2>2, <2>3, <2>4 DEF LoopInv, Allowed, LoopOk
<1>2. ASSUME NEW pc \in LoopAddr, NEW fault \in BOOLEAN, NEW exit \in BOOLEAN,
             NEW seen \in BOOLEAN, NEW line \in {"same", "next", "break"},
             RunInFrame(pc, fault, exit, seen, line)
      PROVE  LoopInv'
  <2> DEFINE stops == seen \/ line = "break" \/ (line = "next" /\ host.lines = 1)
  <2>1. /\ loop' = loop /\ guest' \in GuestRecs /\ host.at = "frame" /\ host.left > 0
        /\ granted' = IF stops THEN 0 ELSE granted
    BY <1>2, GuestKept DEF RunInFrame, InFrame, LoopInv, LoopOk, LoopRecs
  <2>2. stops => loop.watch \/ loop.after
    BY <1>2 DEF RunInFrame, LoopInv, LoopOk
  <2>3. /\ host' \in HostRecs /\ (host'.paused <=> host.paused \/ stops) /\ host'.quit = host.quit
        /\ host'.at \in {"frame", "idle"}
        /\ loop.after /\ stops => host'.at = "idle"
    <3> DEFINE stopped == host.paused \/ stops
               lines == IF line # "same" /\ host.lines > 0 THEN host.lines - 1 ELSE host.lines
               left == host.left - 1
               at == IF (loop.after /\ stops) \/ fault THEN "idle" ELSE host.at
    <3>1. host' = [host EXCEPT !.paused = stopped, !.lines = lines, !.left = left, !.at = at]
      BY <1>2 DEF RunInFrame
    <3>2. host.left \in Nat /\ host.lines \in Nat /\ host.paused \in BOOLEAN
      BY DEF LoopInv, HostRecs
    <3>3. /\ stopped \in BOOLEAN /\ lines \in Nat /\ left \in Nat /\ at \in {"frame", "idle"}
          /\ loop.after /\ stops => at = "idle"
      BY <2>1, <3>2
    <3> HIDE DEF stops, lines, left, at, stopped
    <3>4. host' \in HostRecs /\ host'.paused = stopped /\ host'.quit = host.quit /\ host'.at = at
      BY <3>1, <3>3 DEF LoopInv, HostRecs
    <3> QED
      BY <3>3, <3>4 DEF stopped
  <2> HIDE DEF stops
  <2> QED
    BY <2>1, <2>2, <2>3 DEF LoopInv, Allowed, LoopOk, LoopRecs
<1> QED
  BY <1>1, <1>2 DEF LoopRuns

LoopSpec == LoopInit /\ [][LoopNext]_loopVars

\* An instruction that runs is one the user's commands allow, and a step runs
\* all of its count (the run loops of hardware/machine, gemu_monitor_poll,
\* gemu_monitor_check_exec).
THEOREM RunsAllowed == LoopSpec => RunsAsAsked
<1>1. LoopInit => LoopInv
  BY LoopStarts
<1>2. LoopInv /\ [LoopNext]_loopVars => LoopInv'
  <2>1. ASSUME LoopInv, LoopNext PROVE LoopInv'
    BY <2>1, EventKeeps, CommandKeeps, BodyKeeps, BreakKeeps, RunKeeps DEF LoopNext
  <2>2. ASSUME LoopInv, UNCHANGED loopVars PROVE LoopInv'
    BY <2>2 DEF LoopInv, Allowed, LoopOk, loopVars
  <2> QED
    BY <2>1, <2>2
<1>3. LoopInv => StepsAll
  BY DEF LoopInv, Allowed, StepsAll
<1>4. LoopInv /\ [LoopNext]_loopVars =>
        [LoopRuns => \/ granted > 0
                     \/ loop.late /\ host.quit
                     \/ loop.watch /\ ~loop.after /\ host.at = "frame"]_loopVars
  <2>1. ASSUME LoopInv, LoopRuns
        PROVE  \/ granted > 0
               \/ loop.late /\ host.quit
               \/ loop.watch /\ ~loop.after /\ host.at = "frame"
    <3>1. host.at \in {"step", "frame"}
      BY <2>1 DEF LoopRuns, RunInStep, RunInFrame, InFrame
    <3> QED
      BY <2>1, <3>1 DEF LoopInv, Allowed
  <2> QED
    BY <2>1
<1> QED
  BY <1>1, <1>2, <1>3, <1>4, PTL DEF LoopSpec, RunsAsAsked, NothingUnasked
=============================================================================
