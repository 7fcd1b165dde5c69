-------------------------- MODULE ConnectionProofs --------------------------
(***************************************************************************)
(* What holds of Connection for every value of its constants: any socket   *)
(* buffer, any message sizes, any number of stale epoll results.           *)
(***************************************************************************)
EXTENDS Connection, SequenceTheorems, WellFoundedInduction, TLAPS

\* The bytes a send() adds are a sequence of that length.
LEMMA BytesType ==
  ASSUME NEW m \in Nat, NEW n \in Nat
  PROVE  /\ Bytes(m, n) \in Seq(Nat)
         /\ Len(Bytes(m, n)) = n
<1>1. Bytes(m, n) \in [1..n -> Nat]
  BY DEF Bytes
<1>2. QED
  BY <1>1

\* A prefix and the rest of a sequence are sequences of the expected lengths.
LEMMA SplitType ==
  ASSUME NEW s \in Seq(Nat), NEW n \in 0..Len(s)
  PROVE  /\ SubSeq(s, 1, n) \in Seq(Nat)
         /\ Len(SubSeq(s, 1, n)) = n
         /\ SubSeq(s, n + 1, Len(s)) \in Seq(Nat)
         /\ Len(SubSeq(s, n + 1, Len(s))) = Len(s) - n
<1>1. Len(s) \in Nat /\ \A i \in 1..Len(s) : s[i] \in Nat
  BY LenProperties, ElementOfSeq
<1>2. /\ SubSeq(s, 1, n) \in Seq(Nat)
      /\ Len(SubSeq(s, 1, n)) = IF 1 <= n THEN n - 1 + 1 ELSE 0
  BY <1>1, SubSeqProperties
<1>3. /\ SubSeq(s, n + 1, Len(s)) \in Seq(Nat)
      /\ Len(SubSeq(s, n + 1, Len(s))) =
             IF n + 1 <= Len(s) THEN Len(s) - (n + 1) + 1 ELSE 0
  BY <1>1, SubSeqProperties
<1>4. QED
  BY <1>1, <1>2, <1>3

\* What handleWriteComplete leaves in _sendProvider is a queue of requests, as
\* much shorter as _sendCompletedIndex has grown.
LEMMA HandleWriteCompleteType ==
  ASSUME provider \in Seq(Nat), sendCompletedIndex \in Nat,
         NEW n \in Nat, HandleWriteComplete(n)
  PROVE  /\ provider' \in Seq(Nat)
         /\ sendCompletedIndex' \in Nat
         /\ Len(provider') + sendCompletedIndex' =
                Len(provider) + sendCompletedIndex
<1>0. Len(provider) \in Nat /\ \A i \in 1..Len(provider) : provider[i] \in Nat
  BY LenProperties, ElementOfSeq
<1>1. CASE /\ provider' = <<>>
           /\ sendCompletedIndex' = sendCompletedIndex + Len(provider)
  BY <1>0, <1>1, EmptySeq
<1>2. CASE \E done \in 0 .. Len(provider) - 1 :
           \E left \in 1 .. provider[done + 1] :
             /\ provider' = <<left>> \o SubSeq(provider, done + 2, Len(provider))
             /\ sendCompletedIndex' = sendCompletedIndex + done
  <2>0. PICK done \in 0 .. Len(provider) - 1 :
             \E left \in 1 .. provider[done + 1] :
             /\ provider' = <<left>> \o SubSeq(provider, done + 2, Len(provider))
             /\ sendCompletedIndex' = sendCompletedIndex + done
    BY <1>2
  <2>1. PICK left \in 1 .. provider[done + 1] :
             /\ provider' = <<left>> \o SubSeq(provider, done + 2, Len(provider))
             /\ sendCompletedIndex' = sendCompletedIndex + done
    BY <2>0
  <2>2. done + 1 \in 0..Len(provider) /\ left \in Nat
    BY <1>0
  <2>3. /\ SubSeq(provider, done + 1 + 1, Len(provider)) \in Seq(Nat)
        /\ Len(SubSeq(provider, done + 1 + 1, Len(provider))) =
               Len(provider) - (done + 1)
    BY <2>2, SplitType
  <2>4. done + 1 + 1 = done + 2
    BY <2>2
  <2>5. <<left>> \in Seq(Nat) /\ Len(<<left>>) = 1
    BY <2>2
  <2>6. /\ provider' \in Seq(Nat)
        /\ Len(provider') = 1 + (Len(provider) - (done + 1))
    BY <2>1, <2>3, <2>4, <2>5, ConcatProperties
  <2>7. done \in Nat /\ sendCompletedIndex' = sendCompletedIndex + done
    BY <1>0, <2>1
  <2>8. QED
    BY <1>0, <2>6, <2>7
<1>3. QED
  BY <1>1, <1>2 DEF HandleWriteComplete

\* ChangeEvents keeps the types of what it assigns.
LEMMA ChangeEventsType ==
  ASSUME NEW ev \in SUBSET EventBits, ChangeEvents(ev)
  PROVE  /\ events' \in SUBSET EventBits
         /\ eState' \in EventState
         /\ registered' \in BOOLEAN
         /\ interest' \in SUBSET EventBits
BY DEF ChangeEvents, UpdateEventState, Update, EventState

\* Dropping the event being handled leaves a queue of events.
LEMMA EndEventType ==
  ASSUME TypeOK, ready # <<>>, EndEvent
  PROVE  ready' \in Seq(SUBSET Revents)
BY HeadTailProperties DEF TypeOK, EndEvent

\* What an exception leaves of the loop's state.
LEMMA RaiseType ==
  ASSUME TypeOK, Raise
  PROVE  /\ pc' \in Callbacks \cup {"new", "loop", "write"}
         /\ alive' \in BOOLEAN
         /\ ready' \in Seq(SUBSET Revents)
         /\ pc' \notin {"messageCb", "closeCb", "write"}
BY EndEventType DEF Raise, TypeOK

\* The type invariant holds at every step: the queues of output bytes, requests
\* and epoll results stay queues, no index or fill level goes negative.
THEOREM TypeCorrect == Spec => []TypeOK
<1>1. Init => TypeOK
  <2> SUFFICES ASSUME Init PROVE TypeOK
    OBVIOUS
  <2>1. /\ output \in Seq(Nat) /\ provider \in Seq(Nat) /\ wire \in Seq(Nat)
        /\ ready \in Seq(SUBSET Revents)
    BY EmptySeq DEF Init
  <2>2. unacked \in 0..SocketSpace
    BY ConnectionAssumption DEF ConnectionAssumption, Init
  <2>3. completions \in SUBSET [token : Nat, from : Nat, to : Nat]
    BY DEF Init
  <2>4. /\ registered \in BOOLEAN /\ finSent \in BOOLEAN /\ soErr \in BOOLEAN
        /\ rcvData \in BOOLEAN /\ alive \in BOOLEAN
    BY DEF Init
  <2>5. /\ nState \in NetworkState /\ events \in SUBSET EventBits
        /\ eState \in EventState /\ interest \in SUBSET EventBits
    BY DEF Init, NetworkState, EventState
  <2>6. /\ sendCurrentIndex \in Nat /\ sendCompletedIndex \in Nat
        /\ sent \in Nat /\ peerMsgs \in Nat
    BY DEF Init, FAST_COMPLETE
  <2>7. /\ peer \in {"open", "fin", "reset"}
        /\ pc \in Callbacks \cup {"new", "loop", "write"}
        /\ pc \in {"messageCb", "closeCb", "write"} => ready # <<>>
        /\ asyncShutdown \in {"none", "posted", "done"}
    BY DEF Init
  <2>8. QED
    BY <2>1, <2>2, <2>3, <2>4, <2>5, <2>6, <2>7 DEF TypeOK
<1>2. TypeOK /\ [Next]_vars => TypeOK'
  <2> SUFFICES ASSUME TypeOK, [Next]_vars
               PROVE  TypeOK'
    OBVIOUS
  <2> USE DEF netVars, sendVars, sockVars, peerVars
  <2>1. CASE HandleNewContext
    <3>1. events \cup {"READ"} \in SUBSET EventBits
      BY DEF TypeOK, EventBits
    <3>2. /\ events' \in SUBSET EventBits /\ eState' \in EventState
          /\ registered' \in BOOLEAN /\ interest' \in SUBSET EventBits
      BY <2>1, <3>1, ChangeEventsType DEF HandleNewContext
    <3>3. QED
      BY <2>1, <3>2 DEF TypeOK, HandleNewContext, NetworkState, Callbacks
  <2>2. CASE HandleNewContextFails
    BY <2>2
    DEF TypeOK, HandleNewContextFails, NetworkState, EventBits, EventState,
        UpdateEventState
  <2>3. CASE SendInvalid
    BY <2>3 DEF TypeOK, SendInvalid, INVALID
  <2>4. CASE \E n \in MessageSizes : SendFast(n)
    <3> PICK n \in MessageSizes : SendFast(n)
      BY <2>4
    <3>1. n \in Nat /\ sent \in Nat /\ SocketSpace \in Nat
      BY ConnectionAssumption DEF ConnectionAssumption, TypeOK
    <3>2. wire' \in Seq(Nat)
      BY <3>1, BytesType, ConcatProperties DEF TypeOK, SendFast
    <3>3. unacked' \in 0..SocketSpace /\ sent' \in Nat
      BY <3>1 DEF TypeOK, SendFast, Space
    <3>4. completions' \in SUBSET [token : Nat, from : Nat, to : Nat]
      BY <3>1 DEF TypeOK, SendFast, Complete, FAST_COMPLETE
    <3>5. QED
      BY <3>2, <3>3, <3>4 DEF TypeOK, SendFast
  <2>5. CASE \E n \in MessageSizes : SendQueued(n) \/ SendQueuedThrows(n)
    <3> PICK n \in MessageSizes : SendQueued(n) \/ SendQueuedThrows(n)
      BY <2>5
    <3>1. n \in Nat /\ sent \in Nat /\ SocketSpace \in Nat /\ Enqueue(n)
      BY ConnectionAssumption
      DEF ConnectionAssumption, TypeOK, SendQueued, SendQueuedThrows
    <3>2. Space \in Nat /\ n - Space \in Nat
      BY <3>1 DEF TypeOK, Space, Enqueue
    <3>3. /\ wire' \in Seq(Nat) /\ output' \in Seq(Nat)
          /\ provider' \in Seq(Nat)
      <4>1. /\ wire' = wire \o Bytes(sent, Space)
            /\ output' = output \o Bytes(sent + Space, n - Space)
            /\ provider' = Append(provider, n - Space)
            /\ sent + Space \in Nat
        BY <3>1, <3>2 DEF Enqueue, Unwritten
      <4>2. /\ Bytes(sent, Space) \in Seq(Nat)
            /\ Bytes(sent + Space, n - Space) \in Seq(Nat)
        BY <3>1, <3>2, <4>1, BytesType
      <4>3. /\ wire \in Seq(Nat) /\ output \in Seq(Nat)
            /\ provider \in Seq(Nat)
        BY DEF TypeOK
      <4>4. QED
        BY <3>2, <4>1, <4>2, <4>3, ConcatProperties, AppendProperties
    <3>4. /\ unacked' \in 0..SocketSpace /\ sent' \in Nat
          /\ sendCurrentIndex' \in Nat /\ sendCompletedIndex' \in Nat
      BY <3>1 DEF TypeOK, Enqueue
    <3>5. UNCHANGED <<nState, finSent, peerVars, asyncShutdown>>
      BY <3>1 DEF Enqueue
    <3>6. CASE SendQueued(n)
      <4>1. completions' \in SUBSET [token : Nat, from : Nat, to : Nat]
        BY <3>1, <3>6 DEF TypeOK, SendQueued, Complete
      <4>2. /\ events' \in SUBSET EventBits /\ eState' \in EventState
            /\ registered' \in BOOLEAN /\ interest' \in SUBSET EventBits
        <5>1. events \cup {"WRITE"} \in SUBSET EventBits
          BY DEF TypeOK, EventBits
        <5>2. QED
          BY <3>6, <5>1, ChangeEventsType DEF TypeOK, SendQueued
      <4>3. UNCHANGED <<ready, pc, alive>>
        BY <3>6 DEF SendQueued
      <4>4. QED
        BY <3>3, <3>4, <3>5, <4>1, <4>2, <4>3 DEF TypeOK
    <3>7. CASE SendQueuedThrows(n)
      <4>1. /\ events' \in SUBSET EventBits /\ eState' \in EventState
            /\ UNCHANGED <<registered, interest, completions>>
        BY <3>7
        DEF TypeOK, SendQueuedThrows, EventBits, EventState, UpdateEventState
      <4>2. Raise
        BY <3>7 DEF SendQueuedThrows
      <4>3. QED
        BY <3>3, <3>4, <3>5, <4>1, <4>2, RaiseType DEF TypeOK
    <3>8. QED
      BY <3>6, <3>7
  <2>6. CASE \E n \in MessageSizes : SendThrows(n)
    BY <2>6, RaiseType DEF TypeOK, SendThrows
  <2>7. CASE Shutdown
    BY <2>7 DEF TypeOK, Shutdown, Disconnecting, NetworkState
  <2>8. CASE EnableRead
    BY <2>8 DEF TypeOK, EnableRead, EventBits
  <2>9. CASE DisableRead
    BY <2>9 DEF TypeOK, DisableRead
  <2>10. CASE CallbackReturns
    BY <2>10, EndEventType DEF TypeOK, CallbackReturns, Callbacks
  <2>11. CASE RunAsyncShutdown
    BY <2>11 DEF TypeOK, RunAsyncShutdown
  <2>12. CASE Poll
    BY <2>12 DEF TypeOK, Poll, Deliverable
  <2>13. CASE EventHup \/ ReadEof
    <3>1. HandleClose /\ ready # <<>>
      BY <2>13 DEF EventHup, ReadEof, EventIn, NextEvent
    <3>2. {} \in SUBSET EventBits
      OBVIOUS
    <3>3. QED
      BY <3>1, <3>2, ChangeEventsType
      DEF TypeOK, HandleClose, Closable, NetworkState, Callbacks
  <2>14. CASE EventError
    BY <2>14, EndEventType DEF TypeOK, EventError, NextEvent
  <2>15. CASE ReadData
    BY <2>15 DEF TypeOK, ReadData, Callbacks, EventIn, NextEvent
  <2>16. CASE ReadError
    BY <2>16, EndEventType DEF TypeOK, ReadError, EventIn, NextEvent
  <2>17. CASE ReadNothing
    BY <2>17 DEF TypeOK, ReadNothing, EventIn, NextEvent
  <2>18. CASE WriteSkipped
    BY <2>18, EndEventType DEF TypeOK, WriteSkipped, AtWrite, NextEvent
  <2>19. CASE HandleWrite
    <3> DEFINE n == Least(Len(output), Space)
    <3>1. /\ n \in 0..Len(output) /\ n <= Space /\ SocketSpace \in Nat
          /\ Len(output) \in Nat
      BY ConnectionAssumption, LenProperties
      DEF ConnectionAssumption, TypeOK, Least, Space
    <3>2. /\ wire' = wire \o SubSeq(output, 1, n)
          /\ unacked' = unacked + n
          /\ output' = SubSeq(output, n + 1, Len(output))
          /\ HandleWriteComplete(n)
      BY <2>19 DEF HandleWrite
    <3>3. wire' \in Seq(Nat) /\ output' \in Seq(Nat)
      BY <3>1, <3>2, SplitType, ConcatProperties DEF TypeOK
    <3>4. unacked' \in 0..SocketSpace
      <4> HIDE DEF n
      <4>1. n \in Nat /\ unacked \in Nat /\ n <= SocketSpace - unacked
        BY <3>1 DEF TypeOK, Space
      <4>2. QED
        BY <3>1, <3>2, <4>1
    <3>5. provider' \in Seq(Nat) /\ sendCompletedIndex' \in Nat
      BY <3>1, <3>2, HandleWriteCompleteType, LenProperties DEF TypeOK
    <3>6. /\ events' \in SUBSET EventBits /\ eState' \in EventState
          /\ registered' \in BOOLEAN /\ interest' \in SUBSET EventBits
      <4>1. events \ {"WRITE"} \in SUBSET EventBits
        BY DEF TypeOK
      <4>2. QED
        BY <2>19, <4>1, ChangeEventsType DEF TypeOK, HandleWrite
    <3>7. ready' \in Seq(SUBSET Revents)
      BY <2>19, EndEventType DEF TypeOK, HandleWrite, AtWrite, NextEvent
    <3>8. QED
      BY <2>19, <3>3, <3>4, <3>5, <3>6, <3>7 DEF TypeOK, HandleWrite
  <2>20. CASE HandleWriteThrows
    BY <2>20, EndEventType DEF TypeOK, HandleWriteThrows, AtWrite, NextEvent
  <2>21. CASE Peer
    <3>1. unacked' \in 0..SocketSpace
      BY <2>21, ConnectionAssumption
      DEF TypeOK, Peer, PeerReads, PeerWrites, PeerFin, PeerReset,
          ConnectionAssumption
    <3>2. peer' \in {"open", "fin", "reset"} /\ peerMsgs' \in Nat
      BY <2>21
      DEF TypeOK, Peer, PeerReads, PeerWrites, PeerFin, PeerReset
    <3>5. soErr' \in BOOLEAN /\ rcvData' \in BOOLEAN
      BY <2>21
      DEF TypeOK, Peer, PeerReads, PeerWrites, PeerFin, PeerReset
    <3>3. UNCHANGED <<netVars, sendVars, wire, finSent, ready, pc,
                      asyncShutdown, alive>>
      BY <2>21 DEF Peer, PeerReads, PeerWrites, PeerFin, PeerReset
    <3>4. QED
      BY <3>1, <3>2, <3>3, <3>5 DEF TypeOK
  <2>22. CASE UNCHANGED vars
    BY <2>22 DEF TypeOK, vars
  <2>23. QED
    BY <2>1, <2>2, <2>3, <2>4, <2>5, <2>6, <2>7, <2>8, <2>9, <2>10, <2>11,
       <2>12, <2>13, <2>14, <2>15, <2>16, <2>17, <2>18, <2>19, <2>20, <2>21,
       <2>22
    DEF Next, User, Handler, HandleEvent
<1>3. QED
  BY <1>1, <1>2, PTL DEF Spec

-----------------------------------------------------------------------------
\* _sendProvider always holds as many requests as the two indexes are apart, so
\* a Completion can neither be skipped nor counted twice.
THEOREM ProviderCountsTheorem == Spec => []ProviderCountsRequests
<1>1. Init => ProviderCountsRequests
  BY EmptySeq DEF Init, ProviderCountsRequests
<1>2. TypeOK /\ ProviderCountsRequests /\ [Next]_vars => ProviderCountsRequests'
  <2> SUFFICES ASSUME TypeOK, ProviderCountsRequests, [Next]_vars
               PROVE  ProviderCountsRequests'
    OBVIOUS
  <2>0. /\ sendCurrentIndex \in Nat /\ sendCompletedIndex \in Nat
        /\ Len(provider) \in Nat
        /\ sendCompletedIndex + Len(provider) = sendCurrentIndex
    BY LenProperties DEF TypeOK, ProviderCountsRequests
  <2>1. CASE \E n \in MessageSizes : SendQueued(n) \/ SendQueuedThrows(n)
    <3> PICK n \in MessageSizes : Enqueue(n)
      BY <2>1 DEF SendQueued, SendQueuedThrows
    <3>1. n - Space \in Nat
      BY ConnectionAssumption
      DEF ConnectionAssumption, TypeOK, Enqueue, Space
    <3>2. /\ provider' = Append(provider, n - Space)
          /\ sendCurrentIndex' = sendCurrentIndex + 1
          /\ sendCompletedIndex' = sendCompletedIndex
      BY DEF Enqueue
    <3>3. Len(provider') = Len(provider) + 1
      BY <3>1, <3>2, AppendProperties DEF TypeOK
    <3>4. QED
      BY <2>0, <3>2, <3>3 DEF ProviderCountsRequests
  <2>2. CASE HandleWrite
    <3> DEFINE n == Least(Len(output), Space)
    <3>1. n \in Nat
      BY ConnectionAssumption, LenProperties
      DEF ConnectionAssumption, TypeOK, Least, Space
    <3>2. HandleWriteComplete(n)
      BY <2>2 DEF HandleWrite
    <3>6. sendCurrentIndex' = sendCurrentIndex
      BY <2>2 DEF HandleWrite
    <3>3. /\ provider' \in Seq(Nat) /\ sendCompletedIndex' \in Nat
          /\ Len(provider') + sendCompletedIndex' =
                 Len(provider) + sendCompletedIndex
      BY <3>1, <3>2, HandleWriteCompleteType DEF TypeOK
    <3>4. Len(provider') \in Nat
      BY <3>3, LenProperties
    <3>5. QED
      BY <2>0, <3>3, <3>4, <3>6 DEF ProviderCountsRequests
  <2>3. CASE UNCHANGED <<provider, sendCurrentIndex, sendCompletedIndex>>
    BY <2>3 DEF ProviderCountsRequests
  <2>4. QED
    BY <2>1, <2>2, <2>3
    DEF Next, User, Handler, HandleEvent, Peer, HandleNewContext,
        HandleNewContextFails, SendInvalid, SendFast, SendThrows, Shutdown,
        EnableRead, DisableRead, CallbackReturns, RunAsyncShutdown, Poll,
        EventHup, ReadEof, HandleClose, EventError, ReadData, ReadError,
        ReadNothing, WriteSkipped, HandleWriteThrows, PeerReads, PeerWrites,
        PeerFin, PeerReset, vars, netVars, sendVars, sockVars, peerVars
<1>3. QED
  BY <1>1, <1>2, TypeCorrect, PTL DEF Spec

-----------------------------------------------------------------------------
\* The coroutine of shutdown() exists only once shutdown() left CONNECTED, so
\* it cannot send a FIN of its own; with it NoWriteAfterFin is inductive.
FinInv ==
    /\ NoWriteAfterFin
    /\ asyncShutdown = "posted" => nState \in {"DISCONNECTING", "DISCONNECTED"}
    /\ pc = "new" => nState = "CONNECTING"

\* What the network state allows after FIN was sent.
LEMMA FinInvariant == Spec => []FinInv
<1>1. Init => FinInv
  BY DEF Init, FinInv, NoWriteAfterFin
<1>2. TypeOK /\ FinInv /\ [Next]_vars => FinInv'
  <2> SUFFICES ASSUME TypeOK, FinInv, [Next]_vars
               PROVE  FinInv'
    OBVIOUS
  <2> USE DEF FinInv, NoWriteAfterFin, netVars, sendVars, sockVars, peerVars
  <2>1. CASE HandleNewContext \/ HandleNewContextFails
    BY <2>1 DEF HandleNewContext, HandleNewContextFails
  <2>2. CASE \E n \in MessageSizes : SendFast(n) \/ SendThrows(n)
    BY <2>2 DEF SendFast, SendThrows, MaySend, UserTurn, Raise
  <2>3. CASE \E n \in MessageSizes : SendQueued(n) \/ SendQueuedThrows(n)
    <3> PICK n \in MessageSizes : SendQueued(n) \/ SendQueuedThrows(n)
      BY <2>3
    <3>1. /\ nState \notin {"DISCONNECTING", "DISCONNECTED"}
          /\ UNCHANGED <<nState, finSent, asyncShutdown>>
      BY DEF SendQueued, SendQueuedThrows, Enqueue, MaySend
    <3>2. pc' = "new" => pc = "new"
      BY DEF SendQueued, SendQueuedThrows, Raise
    <3>3. QED
      BY <3>1, <3>2
  <2>4. CASE Shutdown
    BY <2>4 DEF Shutdown, Disconnecting, UserTurn
  <2>5. CASE EnableRead \/ DisableRead \/ SendInvalid
    BY <2>5 DEF EnableRead, DisableRead, SendInvalid
  <2>6. CASE CallbackReturns \/ Poll
    BY <2>6 DEF CallbackReturns, Poll
  <2>14. CASE RunAsyncShutdown
    <3>1. nState \in {"DISCONNECTING", "DISCONNECTED"}
      BY <2>14 DEF RunAsyncShutdown
    <3>2. finSent' = finSent /\ asyncShutdown' = "done"
      BY <2>14, <3>1 DEF RunAsyncShutdown, TypeOK
    <3>3. UNCHANGED <<nState, events, pc>>
      BY <2>14 DEF RunAsyncShutdown
    <3>4. QED
      BY <3>2, <3>3
  <2>7. CASE EventHup \/ ReadEof
    BY <2>7 DEF EventHup, ReadEof, HandleClose, Closable, ChangeEvents
  <2>8. CASE EventError \/ ReadData \/ ReadError \/ ReadNothing
    BY <2>8 DEF EventError, ReadData, ReadError, ReadNothing
  <2>9. CASE WriteSkipped \/ HandleWriteThrows
    BY <2>9 DEF WriteSkipped, HandleWriteThrows
  <2>10. CASE HandleWrite
    BY <2>10 DEF HandleWrite
  <2>11. CASE Peer
    BY <2>11 DEF Peer, PeerReads, PeerWrites, PeerFin, PeerReset
  <2>12. CASE UNCHANGED vars
    BY <2>12 DEF vars
  <2>13. QED
    BY <2>1, <2>2, <2>3, <2>4, <2>5, <2>6, <2>7, <2>8, <2>9, <2>10, <2>11,
       <2>12, <2>14
    DEF Next, User, Handler, HandleEvent
<1>3. QED
  BY <1>1, <1>2, TypeCorrect, PTL DEF Spec

\* After SHUT_WR no write() can follow: shutdown(), send(), handleWrite and
\* handleClose agree on it in every order of calls.
THEOREM NoWriteAfterFinTheorem == Spec => []NoWriteAfterFin
<1>1. FinInv => NoWriteAfterFin
  BY DEF FinInv
<1>2. QED
  BY <1>1, FinInvariant, PTL

-----------------------------------------------------------------------------
\* EVENT_WRITE tells whether output is empty, which is what send(), shutdown()
\* and handleWrite take it for.
THEOREM WriteEventTheorem == Spec => []WriteEventMeansOutput
<1>1. Init => WriteEventMeansOutput
  BY DEF Init, WriteEventMeansOutput
<1>2. TypeOK /\ FinInv /\ WriteEventMeansOutput /\ [Next]_vars
          => WriteEventMeansOutput'
  <2> SUFFICES ASSUME TypeOK, FinInv, WriteEventMeansOutput, [Next]_vars
               PROVE  WriteEventMeansOutput'
    OBVIOUS
  <2> USE DEF WriteEventMeansOutput, netVars, sendVars, sockVars, peerVars
  <2>1. CASE HandleNewContext \/ HandleNewContextFails
    <3>1. nState = "CONNECTING"
      BY <2>1 DEF HandleNewContext, HandleNewContextFails, FinInv
    <3>2. events' = events \cup {"READ"} /\ output' = output
      BY <2>1 DEF HandleNewContext, HandleNewContextFails, ChangeEvents
    <3>3. QED
      BY <3>1, <3>2
  <2>2. CASE \E n \in MessageSizes : SendQueued(n) \/ SendQueuedThrows(n)
    <3> PICK n \in MessageSizes : SendQueued(n) \/ SendQueuedThrows(n)
      BY <2>2
    <3>1. Enqueue(n) /\ "WRITE" \in events'
      BY DEF SendQueued, SendQueuedThrows, ChangeEvents
    <3>2. /\ sent + Space \in Nat /\ n - Space \in Nat /\ n - Space > 0
          /\ output \in Seq(Nat)
      BY <3>1, ConnectionAssumption
      DEF ConnectionAssumption, TypeOK, Enqueue, Space
    <3>3. Bytes(sent + Space, n - Space) # <<>>
      BY <3>2, BytesType
    <3>4. output' # <<>>
      BY <3>1, <3>2, <3>3, BytesType, ConcatEqualIffEmpty
      DEF Enqueue, Unwritten
    <3>5. QED
      BY <3>1, <3>4
  <2>3. CASE EventHup \/ ReadEof
    BY <2>3 DEF EventHup, ReadEof, HandleClose, Closable
  <2>4. CASE HandleWrite
    <3> DEFINE n == Least(Len(output), Space)
    <3>1. n \in 0..Len(output) /\ Len(output) \in Nat
      BY ConnectionAssumption, LenProperties
      DEF ConnectionAssumption, TypeOK, Least, Space
    <3>2. /\ output' = SubSeq(output, n + 1, Len(output))
          /\ "WRITE" \in events /\ nState' = nState
          /\ IF n > 0 /\ n = Len(output) THEN events' = events \ {"WRITE"}
                                        ELSE events' = events
      BY <2>4 DEF HandleWrite, Drained, ChangeEvents
    <3> HIDE DEF n
    <3>3. output' \in Seq(Nat) /\ Len(output') = Len(output) - n
      BY <3>1, <3>2, SplitType DEF TypeOK
    <3>4. CASE nState = "DISCONNECTED"
      BY <3>2, <3>4
    <3>5. CASE nState # "DISCONNECTED"
      <4>1. output # <<>> /\ Len(output) > 0
        BY <3>2, <3>5, EmptySeq DEF TypeOK
      <4>2. output' = <<>> <=> n = Len(output)
        BY <3>1, <3>3, EmptySeq
      <4>3. QED
        BY <3>1, <3>2, <4>1, <4>2
    <3>6. QED
      BY <3>4, <3>5
  <2>5. CASE Shutdown
    BY <2>5 DEF Shutdown, Disconnecting
  <2>6. CASE EnableRead \/ DisableRead
    BY <2>6 DEF EnableRead, DisableRead
  <2>7. CASE UNCHANGED <<nState, events, output>>
    BY <2>7
  <2>8. QED
    BY <2>1, <2>2, <2>3, <2>4, <2>5, <2>6, <2>7
    DEF Next, User, Handler, HandleEvent, Peer, SendInvalid, SendFast,
        SendThrows, CallbackReturns, RunAsyncShutdown, Poll, EventError,
        ReadData, ReadError, ReadNothing, WriteSkipped, HandleWriteThrows,
        PeerReads, PeerWrites, PeerFin, PeerReset, vars
<1>3. QED
  BY <1>1, <1>2, TypeCorrect, FinInvariant, PTL DEF Spec

-----------------------------------------------------------------------------
\* EpollInSync with what it rests on: epoll and the Context agree in every
\* network state, and the Context watches for reads until it is closed.
EpollInv ==
    /\ pc = "new" <=> nState = "CONNECTING"
    /\ nState = "CONNECTING" =>
           ~registered /\ eState = "NEW" /\ events = {}
    /\ nState \in {"CONNECTED", "DISCONNECTING"} =>
           /\ registered /\ eState = "ADDED" /\ interest = events
           /\ "READ" \in events
    /\ nState = "DISCONNECTED" =>
           ~registered /\ eState = "DELETED" /\ events = {}

\* If nothing tells epoll otherwise, its entry follows the Context's bits.
LEMMA EpollInvariant ==
  ASSUME ~EpollAddMayFail, ~ReadToggle
  PROVE  Spec => []EpollInv
<1>1. Init => EpollInv
  BY DEF Init, EpollInv
<1>2. TypeOK /\ EpollInv /\ [Next]_vars => EpollInv'
  <2> SUFFICES ASSUME TypeOK, EpollInv, [Next]_vars
               PROVE  EpollInv'
    OBVIOUS
  <2> USE DEF EpollInv, netVars, sendVars, sockVars, peerVars
  <2>1. CASE HandleNewContext
    BY <2>1
    DEF HandleNewContext, ChangeEvents, EpollOperationHint, UpdateEventState,
        Update
  <2>2. CASE \E n \in MessageSizes : SendQueued(n) \/ SendQueuedThrows(n)
    <3> PICK n \in MessageSizes : SendQueued(n) \/ SendQueuedThrows(n)
      BY <2>2
    <3>1. nState = "CONNECTED" /\ nState' = nState
      BY DEF SendQueued, SendQueuedThrows, Enqueue, MaySend, UserTurn,
             Callbacks, TypeOK, NetworkState
    <3>2. EpollAccepts(EpollOperationHint(events \cup {"WRITE"}))
      BY <3>1 DEF EpollAccepts, EpollOperationHint
    <3>3. SendQueued(n) /\ pc' = pc
      BY <3>2 DEF SendQueued, SendQueuedThrows
    <3>4. QED
      BY <3>1, <3>3
      DEF SendQueued, ChangeEvents, EpollOperationHint, UpdateEventState, Update
  <2>3. CASE \E n \in MessageSizes : SendFast(n) \/ SendThrows(n)
    BY <2>3 DEF SendFast, SendThrows, MaySend, UserTurn, Callbacks, Raise
  <2>4. CASE Shutdown
    BY <2>4 DEF Shutdown, Disconnecting, UserTurn, Callbacks
  <2>5. CASE CallbackReturns \/ RunAsyncShutdown \/ Poll \/ SendInvalid
    BY <2>5
    DEF CallbackReturns, RunAsyncShutdown, LooperTurn, Poll, SendInvalid,
        Callbacks
  <2>6. CASE EventHup \/ ReadEof
    BY <2>6
    DEF EventHup, ReadEof, HandleClose, Closable, ChangeEvents,
        EpollOperationHint,
        UpdateEventState, Update
  <2>7. CASE EventError \/ ReadData \/ ReadError \/ ReadNothing
    BY <2>7
    DEF EventError, ReadData, ReadError, ReadNothing, EventIn, NextEvent
  <2>8. CASE WriteSkipped \/ HandleWriteThrows
    BY <2>8 DEF WriteSkipped, HandleWriteThrows, AtWrite, NextEvent
  <2>9. CASE HandleWrite
    <3>1. /\ "WRITE" \in events /\ nState' = nState /\ pc' = "loop"
          /\ pc # "new"
      BY <2>9 DEF HandleWrite, AtWrite, NextEvent
    <3>2. nState \in {"CONNECTED", "DISCONNECTING"}
      BY <3>1 DEF TypeOK, NetworkState
    <3>3. \/ UNCHANGED <<events, eState, registered, interest>>
          \/ ChangeEvents(events \ {"WRITE"})
      BY <2>9 DEF HandleWrite
    <3>4. QED
      BY <3>1, <3>2, <3>3
      DEF ChangeEvents, EpollOperationHint, UpdateEventState, Update
  <2>10. CASE Peer
    BY <2>10 DEF Peer, PeerReads, PeerWrites, PeerFin, PeerReset
  <2>11. CASE UNCHANGED vars
    BY <2>11 DEF vars
  <2>12. QED
    BY <2>1, <2>2, <2>3, <2>4, <2>5, <2>6, <2>7, <2>8, <2>9, <2>10, <2>11
    DEF Next, User, Handler, HandleEvent, HandleNewContextFails, EnableRead,
        DisableRead
<1>3. QED
  BY <1>1, <1>2, TypeCorrect, PTL DEF Spec

\* Unless epoll_ctl(ADD) fails or user code flips EVENT_READ, each change of
\* _events reaches epoll and a closed Context is out of it.
THEOREM EpollInSyncTheorem ==
  ASSUME ~EpollAddMayFail, ~ReadToggle
  PROVE  Spec => []EpollInSync
<1>1. EpollInv => EpollInSync
  BY DEF EpollInv, EpollInSync
<1>2. QED
  BY <1>1, EpollInvariant, PTL

-----------------------------------------------------------------------------
\* Why a stale event cannot start a callback: every result that reports a hang-up
\* also reports readable, and a Context is closed only at the end of the stream.
StaleInv ==
    /\ \A i \in 1..Len(ready) : "HUP" \in ready[i] => "IN" \in ready[i]
    /\ nState = "DISCONNECTED" => ~rcvData /\ peer # "open"

\* Who reports a hang-up reports readable, and a closed Context has read all.
LEMMA StaleInvariant ==
  ASSUME ~EpollAddMayFail, ~ReadToggle
  PROVE  Spec => []StaleInv
<1>1. Init => StaleInv
  BY DEF Init, StaleInv
<1>2. TypeOK /\ EpollInv /\ StaleInv /\ [Next]_vars => StaleInv'
  <2> SUFFICES ASSUME TypeOK, EpollInv, StaleInv, [Next]_vars
               PROVE  StaleInv'
    OBVIOUS
  <2> USE DEF netVars, sendVars, sockVars, peerVars
  <2> DEFINE HupHasIn == \A i \in 1..Len(ready) :
                            "HUP" \in ready[i] => "IN" \in ready[i]
             AtEof == nState = "DISCONNECTED" => ~rcvData /\ peer # "open"
  <2>1. HupHasIn /\ AtEof
    BY DEF StaleInv
  <2>2. ready \in Seq(SUBSET Revents)
    BY DEF TypeOK
  <2>3. ready' = ready => HupHasIn'
    BY <2>1
  <2>4. ready # <<>> /\ EndEvent => HupHasIn'
    BY <2>1, <2>2, HeadTailProperties, LenProperties DEF EndEvent
  <2>5. UNCHANGED <<nState, rcvData, peer>> => AtEof'
    BY <2>1
  <2>6. HupHasIn' /\ AtEof' => StaleInv'
    BY DEF StaleInv
  <2> HIDE DEF HupHasIn, AtEof
  <2>7. CASE Poll
    <3>1. "HUP" \in Deliverable => "IN" \in Deliverable
      <4>1. registered => "READ" \in interest
        BY DEF EpollInv, TypeOK, NetworkState
      <4>2. "HUP" \in Deliverable => registered /\ peer # "open"
        BY DEF Deliverable
      <4>3. registered /\ peer # "open" /\ "READ" \in interest
                => "IN" \in Deliverable
        BY DEF Deliverable, Revents
      <4>4. QED
        BY <4>1, <4>2, <4>3
    <3>2. Deliverable \in SUBSET Revents
      BY DEF Deliverable
    <3>3. ready' = Append(ready, Deliverable)
      BY <2>7 DEF Poll
    <3>4. HupHasIn'
      BY <2>1, <2>2, <3>1, <3>2, <3>3, AppendProperties, LenProperties
      DEF HupHasIn
    <3>5. QED
      BY <2>5, <2>6, <2>7, <3>4 DEF Poll
  <2>8. CASE EventHup
    BY <2>1, <2>2, <2>8 DEF EventHup, NextEvent, Reported, HupHasIn
  <2>9. CASE ReadEof
    <3>1. ready' = ready /\ ~rcvData' /\ peer' # "open"
      BY <2>9 DEF ReadEof, ReadsEof, HandleClose, Closable
    <3>2. QED
      BY <2>3, <2>6, <3>1 DEF AtEof
  <2>10. CASE HandleNewContext \/ HandleNewContextFails
    BY <2>3, <2>6, <2>10 DEF HandleNewContext, HandleNewContextFails, AtEof
  <2>11. CASE Shutdown
    BY <2>3, <2>6, <2>11 DEF Shutdown, Disconnecting, AtEof
  <2>12. CASE Peer
    BY <2>1, <2>3, <2>6, <2>12
    DEF Peer, PeerReads, PeerWrites, PeerFin, PeerReset, AtEof
  <2>13. CASE ReadData
    BY <2>1, <2>3, <2>6, <2>13 DEF ReadData, AtEof
  <2>14. CASE \/ \E n \in MessageSizes :
                    \/ SendFast(n) \/ SendQueued(n)
                    \/ SendQueuedThrows(n) \/ SendThrows(n)
              \/ SendInvalid \/ EnableRead \/ DisableRead
    <3>1. UNCHANGED <<nState, rcvData, peer>>
      BY <2>14
      DEF SendFast, SendQueued, SendQueuedThrows, SendThrows, Enqueue,
          SendInvalid, EnableRead, DisableRead
    <3>2. ready' = ready \/ (ready # <<>> /\ EndEvent)
      BY <2>14
      DEF SendFast, SendQueued, SendQueuedThrows, SendThrows, Raise,
          SendInvalid, EnableRead, DisableRead, TypeOK
    <3>3. QED
      BY <2>3, <2>4, <2>5, <2>6, <3>1, <3>2
  <2>15. CASE \/ CallbackReturns \/ RunAsyncShutdown
              \/ EventError \/ ReadError \/ ReadNothing
              \/ WriteSkipped \/ HandleWrite \/ HandleWriteThrows
    <3>1. UNCHANGED <<nState, rcvData, peer>>
      BY <2>15
      DEF CallbackReturns, RunAsyncShutdown, EventError, ReadError,
          ReadNothing, WriteSkipped, HandleWrite, HandleWriteThrows
    <3>2. ready' = ready \/ (ready # <<>> /\ EndEvent)
      BY <2>15
      DEF CallbackReturns, RunAsyncShutdown, EventError, ReadError,
          ReadNothing, WriteSkipped, HandleWrite, HandleWriteThrows, EventIn,
          NextEvent, AtWrite, TypeOK
    <3>3. QED
      BY <2>3, <2>4, <2>5, <2>6, <3>1, <3>2
  <2>16. CASE UNCHANGED vars
    BY <2>3, <2>5, <2>6, <2>16 DEF vars
  <2>17. QED
    BY <2>7, <2>8, <2>9, <2>10, <2>11, <2>12, <2>13, <2>14, <2>15, <2>16
    DEF Next, User, Handler, HandleEvent
<1>3. QED
  BY <1>1, <1>2, TypeCorrect, EpollInvariant, PTL DEF Spec

\* However many stale epoll results wait for the handler, none of them runs a
\* callback of a Context that has been closed.
THEOREM NoCallbackAfterCloseTheorem ==
  ASSUME ~EpollAddMayFail, ~ReadToggle
  PROVE  Spec => NoCallbackAfterClose
<1>1. EpollInv /\ StaleInv /\ [Next]_vars
          => [nState = "DISCONNECTED" => pc' \notin Callbacks \/ pc' = pc]_vars
  <2> SUFFICES ASSUME EpollInv, StaleInv, Next, nState = "DISCONNECTED",
                      pc' # pc
               PROVE  pc' \notin Callbacks
    BY DEF vars
  <2> USE DEF netVars, sendVars, sockVars, peerVars
  <2>1. ~HandleNewContext /\ ~ReadData /\ ~EventHup /\ ~ReadEof
    BY DEF EpollInv, StaleInv, HandleNewContext, ReadData, EventHup, ReadEof,
           HandleClose, Closable
  <2>2. pc' \in {"loop", "write"}
    BY <2>1
    DEF Next, User, Handler, HandleEvent, Peer, HandleNewContextFails,
        SendInvalid, SendFast, SendQueued, SendQueuedThrows, SendThrows,
        Raise, Shutdown, EnableRead, DisableRead, CallbackReturns,
        RunAsyncShutdown, Poll, EventError, ReadError, ReadNothing,
        WriteSkipped, HandleWrite, HandleWriteThrows, PeerReads, PeerWrites,
        PeerFin, PeerReset
  <2>3. QED
    BY <2>2 DEF Callbacks
<1>2. QED
  BY <1>1, EpollInvariant, StaleInvariant, PTL DEF Spec, NoCallbackAfterClose

-----------------------------------------------------------------------------
(* Sums over _sendProvider.  SumTo is a recursive function; that it is what its *)
(* equation says is shown by induction over sets of indexes.                    *)

Less == OpToRel(<, Nat)

\* Induction over the numbers up to n: the lowest one outside S has none below.
LEMMA Induction ==
  ASSUME NEW S, NEW n \in Nat, 0 \in S, \A i \in 0 .. n - 1 : i \in S => i + 1 \in S
  PROVE  \A i \in 0 .. n : i \in S
<1> DEFINE Out == (0 .. n) \ S
<1>1. SUFFICES ASSUME Out # {} PROVE FALSE
  OBVIOUS
<1>2. PICK x \in Out : \A y \in Out : ~(<<y, x>> \in Less)
  <2>1. IsWellFoundedOn(Less, Nat)
    BY NatLessThanWellFounded DEF Less
  <2>2. Out \subseteq Nat
    OBVIOUS
  <2> HIDE DEF Out
  <2>3. QED
    BY <1>1, <2>1, <2>2, WFMin
<1>3. x - 1 \in 0 .. n - 1 /\ x - 1 \notin S
  <2>1. x \in 1 .. n /\ x \notin S
    OBVIOUS
  <2>2. x - 1 \in 0 .. n - 1 /\ x - 1 + 1 = x
    BY <2>1
  <2>3. QED
    BY <2>1, <2>2
<1>4. <<x - 1, x>> \in Less
  BY <1>3 DEF Less, OpToRel
<1>5. QED
  BY <1>2, <1>3, <1>4

\* SumTo satisfies its equation, and is a sum of numbers.
LEMMA SumToDef ==
  ASSUME NEW s \in Seq(Nat)
  PROVE  /\ SumTo(s) \in [0 .. Len(s) -> Nat]
         /\ SumTo(s)[0] = 0
         /\ \A i \in 1 .. Len(s) : SumTo(s)[i] = SumTo(s)[i - 1] + s[i]
<1> DEFINE n == Len(s)
           Sums(f, c) == /\ f \in [0 .. c -> Nat] /\ f[0] = 0
                         /\ \A i \in 1 .. c : f[i] = f[i - 1] + s[i]
           S == {c \in 0 .. n : \E f : Sums(f, c)}
           Is(f) == f = [i \in 0 .. n |-> IF i = 0 THEN 0 ELSE f[i - 1] + s[i]]
<1>1. n \in Nat /\ \A i \in 1 .. n : s[i] \in Nat
  BY LenProperties, ElementOfSeq
<1>2. 0 \in S
  <2>1. Sums([i \in 0 .. 0 |-> 0], 0)
    OBVIOUS
  <2> HIDE DEF Sums
  <2>2. QED
    BY <1>1, <2>1
<1>3. ASSUME NEW c \in 0 .. n - 1, c \in S PROVE c + 1 \in S
  <2>1. PICK g : Sums(g, c)
    BY <1>3
  <2> DEFINE f == [i \in 0 .. c + 1 |-> IF i <= c THEN g[i] ELSE g[c] + s[c + 1]]
  <2>2. c \in Nat /\ c + 1 \in 1 .. n /\ s[c + 1] \in Nat
    BY <1>1
  <2>3. f \in [0 .. c + 1 -> Nat] /\ f[0] = 0
    BY <2>1, <2>2
  <2>4. ASSUME NEW i \in 1 .. c + 1 PROVE f[i] = f[i - 1] + s[i]
    <3>1. CASE i <= c
      BY <2>1, <2>2, <3>1
    <3>2. CASE i = c + 1
      BY <2>2, <3>2
    <3>3. QED
      BY <2>2, <3>1, <3>2
  <2>5. Sums(f, c + 1)
    BY <2>3, <2>4
  <2> HIDE DEF Sums, f
  <2>6. QED
    BY <2>2, <2>5
<1>4. n \in S
  <2> HIDE DEF S, n
  <2>1. \A i \in 0 .. n : i \in S
    BY <1>1, <1>2, <1>3, Induction
  <2>2. QED
    BY <1>1, <2>1
<1>5. PICK f : Sums(f, n)
  BY <1>4
<1>6. Is(f)
  BY <1>1, <1>5
<1>7. Is(SumTo(s))
  <2>1. SumTo(s) = CHOOSE g : Is(g)
    BY DEF SumTo
  <2> HIDE DEF Is
  <2>2. QED
    BY <1>6, <2>1
<1> DEFINE T == {i \in 0 .. n : SumTo(s)[i] \in Nat}
<1>8. SumTo(s)[0] = 0 /\ \A i \in 1 .. n : SumTo(s)[i] = SumTo(s)[i - 1] + s[i]
  BY <1>1, <1>7
<1>9. \A i \in 0 .. n : i \in T
  <2>1. 0 \in T
    BY <1>1, <1>8
  <2>2. ASSUME NEW i \in 0 .. n - 1, i \in T PROVE i + 1 \in T
    <3>1. i + 1 \in 1 .. n /\ i + 1 - 1 = i
      BY <1>1
    <3>2. SumTo(s)[i + 1] = SumTo(s)[i] + s[i + 1]
      BY <1>8, <3>1
    <3>3. QED
      BY <1>1, <2>2, <3>1, <3>2
  <2> HIDE DEF T
  <2>3. QED
    BY <1>1, <2>1, <2>2, Induction
<1>10. SumTo(s) \in [0 .. n -> Nat]
  BY <1>7, <1>9
<1>11. QED
  BY <1>8, <1>10

\* A longer part of the queue has no smaller sum.
LEMMA SumToGrows ==
  ASSUME NEW s \in Seq(Nat), NEW i \in 0 .. Len(s), NEW j \in i .. Len(s)
  PROVE  SumTo(s)[i] <= SumTo(s)[j]
<1> DEFINE n == Len(s)
           S == {k \in 0 .. n : i <= k => SumTo(s)[i] <= SumTo(s)[k]}
<1>1. n \in Nat /\ \A k \in 1 .. n : s[k] \in Nat
  BY LenProperties, ElementOfSeq
<1>2. /\ \A k \in 0 .. n : SumTo(s)[k] \in Nat
      /\ \A k \in 1 .. n : SumTo(s)[k] = SumTo(s)[k - 1] + s[k]
  BY SumToDef
<1>3. 0 \in S
  BY <1>1, <1>2
<1>4. ASSUME NEW k \in 0 .. n - 1, k \in S PROVE k + 1 \in S
  <2>1. k + 1 \in 1 .. n /\ k + 1 - 1 = k /\ k + 1 \in 0 .. n
    BY <1>1
  <2>2. SumTo(s)[k + 1] = SumTo(s)[k] + s[k + 1]
    BY <1>2, <2>1
  <2>3. i <= k + 1 => i <= k \/ i = k + 1
    BY <1>1
  <2>4. QED
    BY <1>1, <1>2, <1>4, <2>1, <2>2, <2>3
<1> HIDE DEF S, n
<1>5. \A k \in 0 .. n : k \in S
  BY <1>1, <1>3, <1>4, Induction
<1>6. j \in 0 .. n /\ i <= j
  BY <1>1 DEF n
<1>7. QED
  BY <1>5, <1>6 DEF S

\* Appending a request leaves the sums before it.
LEMMA SumToAppend ==
  ASSUME NEW s \in Seq(Nat), NEW x \in Nat
  PROVE  /\ \A i \in 0 .. Len(s) : SumTo(Append(s, x))[i] = SumTo(s)[i]
         /\ SumTo(Append(s, x))[Len(s) + 1] = SumTo(s)[Len(s)] + x
<1> DEFINE n == Len(s)
           t == Append(s, x)
           S == {k \in 0 .. n : SumTo(t)[k] = SumTo(s)[k]}
<1>1. n \in Nat /\ t \in Seq(Nat) /\ Len(t) = n + 1
  BY LenProperties, AppendProperties
<1>2. \A k \in 1 .. n : t[k] = s[k]
  BY AppendProperties
<1>3. t[n + 1] = x
  BY AppendProperties
<1> HIDE DEF t
<1>4. /\ SumTo(s)[0] = 0 /\ SumTo(t)[0] = 0
      /\ \A k \in 1 .. n : SumTo(s)[k] = SumTo(s)[k - 1] + s[k]
      /\ \A k \in 1 .. n + 1 : SumTo(t)[k] = SumTo(t)[k - 1] + t[k]
  BY <1>1, SumToDef
<1>5. 0 \in S
  BY <1>1, <1>4
<1>6. ASSUME NEW k \in 0 .. n - 1, k \in S PROVE k + 1 \in S
  <2>1. k + 1 \in 1 .. n /\ k + 1 - 1 = k /\ k + 1 \in 0 .. n /\ k + 1 \in 1 .. n + 1
    BY <1>1
  <2>2. QED
    BY <1>2, <1>4, <1>6, <2>1
<1> HIDE DEF S, n
<1>7. \A k \in 0 .. n : k \in S
  BY <1>1, <1>5, <1>6, Induction
<1>8. n + 1 \in 1 .. n + 1 /\ n + 1 - 1 = n /\ n \in 0 .. n
  BY <1>1
<1>9. SumTo(t)[n + 1] = SumTo(s)[n] + x
  <2>1. SumTo(t)[n + 1] = SumTo(t)[n] + x
    BY <1>3, <1>4, <1>8
  <2>2. SumTo(t)[n] = SumTo(s)[n]
    BY <1>7, <1>8 DEF S
  <2>3. QED
    BY <2>1, <2>2
<1>10. QED
  BY <1>7, <1>9 DEF S, n, t

\* What is left of _sendProvider when done requests are popped and left bytes of
\* the next remain: all sums are less by the same number.
LEMMA SumToPopped ==
  ASSUME NEW s \in Seq(Nat), NEW done \in 0 .. Len(s) - 1, NEW left \in Nat
  PROVE  LET t == <<left>> \o SubSeq(s, done + 2, Len(s)) IN
         /\ t \in Seq(Nat) /\ Len(t) = Len(s) - done
         /\ t[1] = left /\ \A j \in 2 .. Len(t) : t[j] = s[done + j]
         /\ \A j \in 1 .. Len(t) : SumTo(t)[j] + SumTo(s)[done + 1] = SumTo(s)[done + j] + left
<1> DEFINE t == <<left>> \o SubSeq(s, done + 2, Len(s))
           n == Len(s)
           r == SubSeq(s, done + 1 + 1, n)
           m == n - done
           l == <<left>>
           S == {k \in 0 .. m : k > 0 =>
                    SumTo(t)[k] + SumTo(s)[done + 1] = SumTo(s)[done + k] + left}
<1>1. /\ n \in Nat /\ done + 1 \in 0 .. n /\ done \in Nat
      /\ m \in Nat /\ m > 0 /\ m = n - done
  BY LenProperties
<1>2. r \in Seq(Nat) /\ Len(r) = n - (done + 1)
  BY <1>1, SplitType
<1>3. \A j \in 1 .. n - (done + 1) : r[j] = s[done + 1 + j]
  <2>1. \A j \in 1 .. n : s[j] \in Nat
    BY ElementOfSeq, LenProperties
  <2>2. ASSUME NEW j \in 1 .. n - (done + 1) PROVE r[j] = s[done + 1 + j]
    BY <1>1, <1>2
  <2>3. QED
    BY <2>2
<1>4. t = l \o r /\ l \in Seq(Nat) /\ Len(l) = 1 /\ l[1] = left
  BY <1>1
<1> HIDE DEF t, r, n, m, l
<1>5. t \in Seq(Nat) /\ Len(t) = m
  <2>1. l \o r \in Seq(Nat) /\ Len(l \o r) = 1 + Len(r)
    BY <1>2, <1>4, ConcatProperties
  <2>2. t \in Seq(Nat) /\ Len(t) = 1 + Len(r)
    BY <1>4, <2>1
  <2>3. QED
    BY <1>1, <1>2, <2>2
<1>6. t[1] = left /\ \A j \in 2 .. m : t[j] = s[done + j]
  <2>1. \A k \in 1 .. 1 + Len(r) : t[k] = IF k <= 1 THEN l[k] ELSE r[k - 1]
    <3>1. \A k \in 1 .. Len(l) + Len(r) :
              (l \o r)[k] = IF k <= Len(l) THEN l[k] ELSE r[k - Len(l)]
      BY <1>2, <1>4, ConcatProperties
    <3>2. QED
      BY <1>4, <3>1
  <2>2. t[1] = left
    <3>1. 1 \in 1 .. 1 + Len(r) /\ 1 <= 1
      BY <1>1, <1>2
    <3>2. t[1] = l[1]
      BY <2>1, <3>1
    <3>3. QED
      BY <1>4, <3>2
  <2>3. ASSUME NEW j \in 2 .. m PROVE t[j] = s[done + j]
    <3>1. j \in 1 .. 1 + Len(r) /\ ~(j <= 1) /\ j - 1 \in 1 .. n - (done + 1)
      BY <1>1, <1>2
    <3>2. t[j] = r[j - 1] /\ r[j - 1] = s[done + 1 + (j - 1)]
      BY <1>3, <2>1, <3>1
    <3>3. done + 1 + (j - 1) = done + j
      BY <1>1
    <3>4. QED
      BY <3>2, <3>3
  <2>4. QED
    BY <2>2, <2>3
<1>7. /\ \A k \in 0 .. n : SumTo(s)[k] \in Nat
      /\ \A k \in 1 .. n : SumTo(s)[k] = SumTo(s)[k - 1] + s[k]
      /\ \A k \in 0 .. m : SumTo(t)[k] \in Nat
      /\ SumTo(t)[0] = 0 /\ \A k \in 1 .. m : SumTo(t)[k] = SumTo(t)[k - 1] + t[k]
  BY <1>5, SumToDef DEF n
<1>8. 0 \in S
  BY <1>1
<1>9. ASSUME NEW k \in 0 .. m - 1, k \in S PROVE k + 1 \in S
  <2>1. k + 1 \in 1 .. m /\ k + 1 - 1 = k /\ k + 1 \in 0 .. m /\ k \in Nat /\ k \in 0 .. m
    BY <1>1
  <2>2. SumTo(t)[k + 1] = SumTo(t)[k] + t[k + 1]
    <3>1. \A i \in 1 .. m : SumTo(t)[i] = SumTo(t)[i - 1] + t[i]
      BY <1>7
    <3> DEFINE c == k + 1
    <3>2. c \in 1 .. m /\ c - 1 = k
      BY <2>1
    <3> HIDE DEF c
    <3>3. SumTo(t)[c] = SumTo(t)[k] + t[c]
      BY <3>1, <3>2
    <3>4. QED
      BY <3>3 DEF c
  <2>3. CASE k = 0
    <3>1. SumTo(t)[1] = left
      BY <1>6, <1>7, <2>2, <2>3
    <3>2. SumTo(s)[done + 1] \in Nat
      BY <1>1, <1>7
    <3>3. QED
      BY <1>1, <2>1, <2>3, <3>1, <3>2
  <2>4. CASE k > 0
    <3>1. k + 1 \in 2 .. m /\ done + (k + 1) \in 1 .. n /\ done + (k + 1) - 1 = done + k
      BY <1>1, <2>1, <2>4
    <3>2. t[k + 1] = s[done + (k + 1)]
      BY <1>6, <3>1
    <3>3. SumTo(s)[done + (k + 1)] = SumTo(s)[done + k] + s[done + (k + 1)]
      BY <1>7, <3>1
    <3>4. SumTo(t)[k] + SumTo(s)[done + 1] = SumTo(s)[done + k] + left
      BY <1>9, <2>4
    <3>5. /\ SumTo(t)[k] \in Nat /\ SumTo(s)[done + 1] \in Nat /\ SumTo(s)[done + k] \in Nat
          /\ s[done + (k + 1)] \in Nat
      <4>1. done + k \in 0 .. n /\ done + 1 \in 0 .. n
        BY <1>1, <2>1
      <4>2. s[done + (k + 1)] \in Nat
        BY <3>1, ElementOfSeq, LenProperties DEF n
      <4>3. QED
        BY <1>7, <2>1, <4>1, <4>2
    <3> DEFINE a == SumTo(t)[k]
               b == SumTo(s)[done + 1]
               c == SumTo(s)[done + k]
               d == s[done + (k + 1)]
    <3>6. a + d + b = c + d + left
      <4>1. a + b = c + left /\ a \in Nat /\ b \in Nat /\ c \in Nat /\ d \in Nat
        BY <3>4, <3>5
      <4> HIDE DEF a, b, c, d
      <4>2. QED
        BY <4>1
    <3>7. SumTo(t)[k + 1] + SumTo(s)[done + 1] = SumTo(s)[done + (k + 1)] + left
      BY <2>2, <3>2, <3>3, <3>6
    <3>8. QED
      BY <2>1, <3>7
  <2>5. k = 0 \/ k > 0
    BY <2>1
  <2>6. QED
    BY <2>3, <2>4, <2>5
<1> HIDE DEF S
<1>10. \A k \in 0 .. m : k \in S
  BY <1>1, <1>8, <1>9, Induction
<1>11. \A j \in 1 .. m : j \in 0 .. m /\ j > 0
  BY <1>1
<1>12. \A j \in 1 .. m : SumTo(t)[j] + SumTo(s)[done + 1] = SumTo(s)[done + j] + left
  BY <1>10, <1>11 DEF S
<1>13. QED
  BY <1>5, <1>6, <1>12 DEF m, n, t

-----------------------------------------------------------------------------
(* The bytes and the requests they belong to.                              *)

\* The numbers up to n are among the first lw of w or the first lo of o, once.
Split(w, lw, o, lo, n) ==
    /\ lw + lo = n
    /\ \A b \in 1 .. n : (\E p \in 1 .. lw : w[p] = b) \/ (\E p \in 1 .. lo : o[p] = b)
    /\ \A p \in 1 .. lw : w[p] \in 1 .. n
    /\ \A p \in 1 .. lo : o[p] \in 1 .. n
    /\ \A p \in 1 .. lw, q \in 1 .. lo : w[p] # o[q]
    /\ \A p, q \in 1 .. lo : o[p] = o[q] => p = q

\* Each byte that send() took is in the kernel or in output, and not in both.
BytesOnce == Split(wire, Len(wire), output, Len(output), sent)

\* The requests that wait divide output between them.
RequestsFill ==
    /\ \A i \in 1 .. Len(provider) : provider[i] > 0
    /\ SumTo(provider)[Len(provider)] = Len(output)
    /\ sendCompletedIndex > FAST_COMPLETE

\* Where the bytes of a request are: none in output once it counts as completed,
\* before that the last one just where its entry of _sendProvider ends.
LastOf(c) == SumTo(provider)[c.token - sendCompletedIndex + 1]

RequestPlaced(c) ==
    /\ c.token < sendCurrentIndex
    /\ c.from \in 1 .. sent /\ c.to \in c.from .. sent
    /\ c.token < sendCompletedIndex =>
           \A q \in 1 .. Len(output) : output[q] \notin c.from .. c.to
    /\ c.token >= sendCompletedIndex =>
           /\ LastOf(c) \in 1 .. Len(output) /\ output[LastOf(c)] = c.to
           /\ \A q \in 1 .. Len(output) : output[q] \in c.from .. c.to => q <= LastOf(c)

RequestsPlaced == \A c \in completions : c.token # INVALID => RequestPlaced(c)

SendInv == BytesOnce /\ RequestsFill /\ RequestsPlaced

\* Where the elements of a concatenation come from.
LEMMA Concat ==
  ASSUME NEW a \in Seq(Nat), NEW b \in Seq(Nat)
  PROVE  LET c == a \o b IN
         /\ c \in Seq(Nat) /\ Len(c) = Len(a) + Len(b)
         /\ Len(a) \in Nat /\ Len(b) \in Nat
         /\ \A p \in 1 .. Len(a) : p \in 1 .. Len(c) /\ c[p] = a[p]
         /\ \A p \in 1 .. Len(b) : Len(a) + p \in 1 .. Len(c) /\ c[Len(a) + p] = b[p]
         /\ \A p \in 1 .. Len(c) : \/ p \in 1 .. Len(a) /\ c[p] = a[p]
                                   \/ \E r \in 1 .. Len(b) : p = Len(a) + r /\ c[p] = b[r]
<1> DEFINE c == a \o b
<1>1. Len(a) \in Nat /\ Len(b) \in Nat
  BY LenProperties
<1>2. /\ c \in Seq(Nat) /\ Len(c) = Len(a) + Len(b)
      /\ \A p \in 1 .. Len(a) + Len(b) : c[p] = IF p <= Len(a) THEN a[p] ELSE b[p - Len(a)]
  BY ConcatProperties
<1> HIDE DEF c
<1>3. \A p \in 1 .. Len(a) : p \in 1 .. Len(c) /\ c[p] = a[p]
  BY <1>1, <1>2
<1>4. ASSUME NEW p \in 1 .. Len(b) PROVE Len(a) + p \in 1 .. Len(c) /\ c[Len(a) + p] = b[p]
  <2>1. /\ Len(a) + p \in 1 .. Len(a) + Len(b) /\ ~(Len(a) + p <= Len(a))
        /\ Len(a) + p - Len(a) = p
    BY <1>1
  <2>2. QED
    BY <1>2, <2>1
<1>5. ASSUME NEW p \in 1 .. Len(c)
      PROVE  \/ p \in 1 .. Len(a) /\ c[p] = a[p]
             \/ \E r \in 1 .. Len(b) : p = Len(a) + r /\ c[p] = b[r]
  <2>1. CASE p <= Len(a)
    BY <1>1, <1>2, <2>1
  <2>2. CASE p > Len(a)
    <3>1. p - Len(a) \in 1 .. Len(b) /\ p = Len(a) + (p - Len(a)) /\ ~(p <= Len(a))
      BY <1>1, <1>2, <2>2
    <3>2. c[p] = b[p - Len(a)]
      BY <1>2, <3>1
    <3>3. QED
      BY <3>1, <3>2
  <2>3. QED
    BY <1>1, <1>2, <2>1, <2>2
<1>6. QED
  BY <1>1, <1>2, <1>3, <1>4, <1>5 DEF c

\* The bytes that a send() adds, one by one.
LEMMA BytesAt ==
  ASSUME NEW m \in Nat, NEW n \in Nat
  PROVE  /\ Bytes(m, n) \in Seq(Nat) /\ Len(Bytes(m, n)) = n
         /\ \A i \in 1 .. n : Bytes(m, n)[i] = m + i
BY BytesType DEF Bytes

\* Steps that neither send nor write.
LEMMA SendStays ==
  ASSUME SendInv, UNCHANGED <<sendVars, wire>>
  PROVE  SendInv'
BY DEF SendInv, BytesOnce, Split, RequestsFill, RequestsPlaced, RequestPlaced, LastOf, sendVars

\* Nothing was sent at first.
LEMMA SendInit ==
  ASSUME Init PROVE SendInv
<1>1. /\ wire = <<>> /\ output = <<>> /\ provider = <<>> /\ sent = 0 /\ completions = {}
      /\ Len(<<>>) = 0 /\ <<>> \in Seq(Nat) /\ sendCompletedIndex = 2
  BY EmptySeq DEF Init, FAST_COMPLETE
<1>2. BytesOnce
  BY <1>1 DEF BytesOnce, Split
<1>3. SumTo(provider)[Len(provider)] = 0
  BY <1>1, SumToDef
<1>4. RequestsFill
  BY <1>1, <1>3 DEF RequestsFill, FAST_COMPLETE
<1>5. QED
  BY <1>1, <1>2, <1>4 DEF SendInv, RequestsPlaced

\* What send() adds behind a sequence.
LEMMA Extended ==
  ASSUME NEW s \in Seq(Nat), NEW m \in Nat, NEW n \in Nat
  PROVE  /\ s \o Bytes(m, n) \in Seq(Nat) /\ Len(s) \in Nat
         /\ Len(s \o Bytes(m, n)) = Len(s) + n
         /\ \A p \in 1 .. Len(s) : (s \o Bytes(m, n))[p] = s[p]
         /\ \A p \in Len(s) + 1 .. Len(s) + n : (s \o Bytes(m, n))[p] = m + (p - Len(s))
<1> DEFINE b == Bytes(m, n)
           c == s \o b
<1>1. b \in Seq(Nat) /\ Len(b) = n /\ \A i \in 1 .. n : b[i] = m + i
  BY BytesAt
<1> HIDE DEF b
<1>2. /\ c \in Seq(Nat) /\ Len(c) = Len(s) + n /\ Len(s) \in Nat
      /\ \A p \in 1 .. Len(s) : c[p] = s[p]
      /\ \A p \in 1 .. n : c[Len(s) + p] = b[p]
  <2>1. /\ c \in Seq(Nat) /\ Len(c) = Len(s) + Len(b)
        /\ Len(s) \in Nat
        /\ \A p \in 1 .. Len(s) : c[p] = s[p]
        /\ \A p \in 1 .. Len(b) : c[Len(s) + p] = b[p]
    BY <1>1, Concat
  <2> HIDE DEF c
  <2>2. QED
    BY <1>1, <2>1
<1> HIDE DEF c
<1>3. ASSUME NEW p \in Len(s) + 1 .. Len(s) + n PROVE c[p] = m + (p - Len(s))
  <2> DEFINE i == p - Len(s)
  <2>1. i \in 1 .. n /\ Len(s) + i = p
    BY <1>2
  <2> HIDE DEF i
  <2>2. c[p] = b[i] /\ b[i] = m + i
    BY <1>1, <1>2, <2>1
  <2>3. QED
    BY <2>2 DEF i
<1>4. QED
  BY <1>2, <1>3 DEF b, c

\* w continues the first lv elements of v with the f numbers after n.
Continues(w, v, lv, f, n) ==
    /\ \A p \in 1 .. lv : w[p] = v[p]
    /\ \A p \in lv + 1 .. lv + f : w[p] = n + (p - lv)

\* Behind w come the next f numbers, behind o the m after them.
LEMMA SplitGrows ==
  ASSUME NEW w, NEW lw \in Nat, NEW o, NEW lo \in Nat, NEW n \in Nat, Split(w, lw, o, lo, n),
         NEW f \in Nat, NEW m \in Nat, NEW w2, NEW o2,
         Continues(w2, w, lw, f, n), Continues(o2, o, lo, m, n + f)
  PROVE  Split(w2, lw + f, o2, lo + m, n + f + m)
<1> USE DEF Continues
<1>1. \A p \in 1 .. lw + f : \/ p \in 1 .. lw /\ w2[p] = w[p] /\ w2[p] \in 1 .. n
                             \/ p \in lw + 1 .. lw + f /\ w2[p] = n + (p - lw)
  BY DEF Split
<1>2. \A p \in 1 .. lo + m : \/ p \in 1 .. lo /\ o2[p] = o[p] /\ o2[p] \in 1 .. n
                             \/ p \in lo + 1 .. lo + m /\ o2[p] = (n + f) + (p - lo)
  BY DEF Split
<1>3. ASSUME NEW b \in 1 .. n + f + m
      PROVE  (\E p \in 1 .. lw + f : w2[p] = b) \/ (\E p \in 1 .. lo + m : o2[p] = b)
  <2>1. CASE b \in 1 .. n
    BY <2>1 DEF Split
  <2>2. CASE b \in n + 1 .. n + f
    <3> DEFINE x == lw + (b - n)
    <3>1. x \in lw + 1 .. lw + f /\ x \in 1 .. lw + f /\ n + (x - lw) = b
      BY <2>2
    <3> HIDE DEF x
    <3>2. w2[x] = b
      BY <3>1
    <3>3. QED
      BY <3>1, <3>2
  <2>3. CASE b \in n + f + 1 .. n + f + m
    <3> DEFINE x == lo + (b - (n + f))
    <3>1. x \in lo + 1 .. lo + m /\ x \in 1 .. lo + m /\ (n + f) + (x - lo) = b
      BY <2>3
    <3> HIDE DEF x
    <3>2. o2[x] = b
      BY <3>1
    <3>3. QED
      BY <3>1, <3>2
  <2>4. QED
    BY <2>1, <2>2, <2>3
<1>4. /\ \A p \in 1 .. lw + f : w2[p] \in 1 .. n + f + m
      /\ \A p \in 1 .. lo + m : o2[p] \in 1 .. n + f + m
  BY <1>1, <1>2
<1>5. ASSUME NEW p \in 1 .. lw + f, NEW q \in 1 .. lo + m PROVE w2[p] # o2[q]
  <2>1. CASE p \in 1 .. lw /\ q \in 1 .. lo
    BY <2>1 DEF Split
  <2>2. QED
    BY <1>1, <1>2, <2>1
<1>6. ASSUME NEW p \in 1 .. lo + m, NEW q \in 1 .. lo + m, o2[p] = o2[q] PROVE p = q
  <2>1. CASE p \in 1 .. lo /\ q \in 1 .. lo
    BY <1>6, <2>1 DEF Split
  <2>2. QED
    BY <1>2, <1>6, <2>1
<1>7. lw + f + (lo + m) = n + f + m
  BY DEF Split
<1>8. QED
  BY <1>3, <1>4, <1>5, <1>6, <1>7 DEF Split

\* send() gives f bytes to the kernel and queues m: the byte accounting of SendFast,
\* where m is 0, and of Enqueue.
LEMMA BytesTaken ==
  ASSUME TypeOK, BytesOnce, NEW f \in Nat, NEW m \in Nat
  PROVE  LET w == wire \o Bytes(sent, f)
             o == output \o Bytes(sent + f, m)
         IN  Split(w, Len(w), o, Len(o), sent + f + m)
<1> DEFINE w == wire \o Bytes(sent, f)
           o == output \o Bytes(sent + f, m)
           lw == Len(wire)
           lo == Len(output)
<1>1. sent \in Nat /\ sent + f \in Nat /\ wire \in Seq(Nat) /\ output \in Seq(Nat)
  BY DEF TypeOK
<1>2. Len(w) = lw + f /\ lw \in Nat /\ Continues(w, wire, lw, f, sent)
  BY <1>1, Extended DEF Continues
<1>3. Len(o) = lo + m /\ lo \in Nat /\ Continues(o, output, lo, m, sent + f)
  BY <1>1, Extended DEF Continues
<1>4. Split(wire, lw, output, lo, sent)
  BY DEF BytesOnce
<1> HIDE DEF w, o, lw, lo
<1>5. Split(w, lw + f, o, lo + m, sent + f + m)
  BY <1>1, <1>2, <1>3, <1>4, SplitGrows
<1>6. QED
  BY <1>2, <1>3, <1>5 DEF w, o

\* Context::send when write() takes everything.
LEMMA FastSend ==
  ASSUME TypeOK, ProviderCountsRequests, SendInv, NEW n \in MessageSizes, SendFast(n)
  PROVE  SendInv'
<1>1. /\ n \in Nat /\ n > 0 /\ sent \in Nat /\ wire \in Seq(Nat) /\ output \in Seq(Nat)
      /\ Len(output) \in Nat /\ Len(provider) \in Nat
      /\ sendCompletedIndex \in Nat /\ sendCurrentIndex \in Nat
  BY ConnectionAssumption, LenProperties DEF ConnectionAssumption, TypeOK
<1>2. /\ wire' = wire \o Bytes(sent, n) /\ sent' = sent + n
      /\ output' = output /\ provider' = provider
      /\ sendCurrentIndex' = sendCurrentIndex /\ sendCompletedIndex' = sendCompletedIndex
      /\ completions' = completions \cup
             {[token |-> FAST_COMPLETE, from |-> sent + 1, to |-> sent + n]}
  BY DEF SendFast, Complete
<1>3. BytesOnce /\ RequestsFill /\ RequestsPlaced
  BY DEF SendInv
<1>4. BytesOnce'
  <2> DEFINE w == wire \o Bytes(sent, n)
             lw == Len(wire)
             lo == Len(output)
  <2>1. Len(w) = lw + n /\ lw \in Nat /\ Continues(w, wire, lw, n, sent)
    <3>1. n \in Nat /\ sent \in Nat /\ wire \in Seq(Nat)
      BY <1>1
    <3>2. QED
      BY <3>1, Extended DEF Continues
  <2>2. Continues(output, output, lo, 0, sent + n)
    BY <1>1 DEF Continues
  <2>3. Split(wire, lw, output, lo, sent) /\ lo \in Nat /\ 0 \in Nat
    BY <1>1, <1>3 DEF BytesOnce
  <2> HIDE DEF w, lw, lo
  <2>4. Split(w, lw + n, output, lo + 0, sent + n + 0)
    BY <1>1, <2>1, <2>2, <2>3, SplitGrows
  <2>5. lo + 0 = lo /\ sent + n + 0 = sent + n
    BY <1>1, <2>3
  <2>6. Split(w, Len(w), output, lo, sent + n)
    BY <2>1, <2>4, <2>5
  <2>7. QED
    BY <1>2, <2>6 DEF BytesOnce, w, lo
<1>5. RequestsFill'
  BY <1>2, <1>3 DEF RequestsFill
<1>6. ASSUME NEW c \in completions', c.token # INVALID PROVE RequestPlaced(c)'
  <2>1. CASE c \in completions
    <3>1. RequestPlaced(c)
      BY <1>3, <1>6, <2>1 DEF RequestsPlaced
    <3>2. LastOf(c)' = LastOf(c)
      BY <1>2 DEF LastOf
    <3>3. c.from \in 1 .. sent' /\ c.to \in c.from .. sent'
      BY <1>1, <1>2, <3>1 DEF RequestPlaced
    <3>4. QED
      BY <1>2, <3>1, <3>2, <3>3 DEF RequestPlaced
  <2>2. CASE c = [token |-> FAST_COMPLETE, from |-> sent + 1, to |-> sent + n]
    <3>1. c.token = 1 /\ c.from = sent + 1 /\ c.to = sent + n
      BY <2>2 DEF FAST_COMPLETE
    <3>2. 1 < sendCompletedIndex /\ sendCompletedIndex <= sendCurrentIndex
      BY <1>1, <1>3 DEF RequestsFill, FAST_COMPLETE, ProviderCountsRequests
    <3>3. \A q \in 1 .. Len(output) : output[q] \in 1 .. sent
      BY <1>3 DEF BytesOnce, Split
    <3>4. \A q \in 1 .. Len(output) : output[q] \notin sent + 1 .. sent + n
      BY <1>1, <3>3
    <3>5. sent + 1 \in 1 .. sent + n /\ sent + n \in sent + 1 .. sent + n
      BY <1>1
    <3>6. /\ 1 < sendCurrentIndex /\ ~(1 >= sendCompletedIndex)
      BY <1>1, <3>2
    <3>7. QED
      BY <1>2, <3>1, <3>4, <3>5, <3>6 DEF RequestPlaced
  <2>3. QED
    BY <1>2, <2>1, <2>2
<1>7. RequestsPlaced'
  BY <1>6 DEF RequestsPlaced
<1>8. QED
  BY <1>4, <1>5, <1>7 DEF SendInv

\* Context::send when write() takes less: the requests that wait keep their places
\* and the new one ends where output now ends.
LEMMA QueuedSend ==
  ASSUME TypeOK, ProviderCountsRequests, SendInv, NEW n \in MessageSizes, Enqueue(n)
  PROVE  /\ BytesOnce' /\ RequestsFill'
         /\ \A c \in completions : c.token # INVALID => RequestPlaced(c)'
         /\ \A c : c.token = sendCurrentIndex /\ c.from = sent + 1 /\ c.to = sent + n
                       => RequestPlaced(c)'
<1> DEFINE f == Space
           m == n - Space
           lo == Len(output)
           lp == Len(provider)
<1>1. /\ n \in Nat /\ n > 0 /\ sent \in Nat /\ wire \in Seq(Nat) /\ output \in Seq(Nat)
      /\ provider \in Seq(Nat) /\ lo \in Nat /\ lp \in Nat
      /\ sendCompletedIndex \in Nat /\ sendCurrentIndex \in Nat
  BY ConnectionAssumption, LenProperties DEF ConnectionAssumption, TypeOK
<1>2. f \in Nat /\ m \in Nat /\ m > 0 /\ f + m = n
  BY <1>1, ConnectionAssumption DEF ConnectionAssumption, TypeOK, Enqueue, Space
<1>3. /\ wire' = wire \o Bytes(sent, f) /\ output' = output \o Bytes(sent + f, m)
      /\ provider' = Append(provider, m) /\ sent' = sent + n
      /\ sendCurrentIndex' = sendCurrentIndex + 1
      /\ sendCompletedIndex' = sendCompletedIndex
  BY DEF Enqueue, Unwritten
<1>4. BytesOnce /\ RequestsFill /\ RequestsPlaced
  BY DEF SendInv
<1>5. sendCompletedIndex + lp = sendCurrentIndex
  BY DEF ProviderCountsRequests
<1> HIDE DEF f, m
<1>6. BytesOnce'
  <2>1. Split(wire', Len(wire'), output', Len(output'), sent + f + m)
    BY <1>2, <1>3, <1>4, BytesTaken
  <2>2. sent + f + m = sent'
    BY <1>1, <1>2, <1>3
  <2>3. QED
    BY <2>1, <2>2 DEF BytesOnce
<1>7. /\ Len(output') = lo + m
      /\ \A q \in 1 .. lo : output'[q] = output[q]
      /\ \A q \in lo + 1 .. lo + m : output'[q] = (sent + f) + (q - lo)
  <2> DEFINE o == output \o Bytes(sent + f, m)
  <2>1. /\ Len(o) = lo + m
        /\ \A q \in 1 .. lo : o[q] = output[q]
        /\ \A q \in lo + 1 .. lo + m : o[q] = (sent + f) + (q - lo)
    <3>1. sent + f \in Nat /\ m \in Nat /\ output \in Seq(Nat)
      BY <1>1, <1>2
    <3>2. QED
      BY <3>1, Extended
  <2>2. output' = o
    BY <1>3
  <2> HIDE DEF o
  <2>3. QED
    BY <2>1, <2>2
<1>8. /\ Len(provider') = lp + 1
      /\ \A i \in 1 .. lp : provider'[i] = provider[i]
      /\ provider'[lp + 1] = m
  BY <1>1, <1>2, <1>3, AppendProperties
<1>9. /\ \A i \in 0 .. lp : SumTo(provider')[i] = SumTo(provider)[i]
      /\ SumTo(provider')[lp + 1] = SumTo(provider)[lp] + m
  BY <1>1, <1>2, <1>3, SumToAppend
<1> HIDE DEF lo, lp
<1>10. RequestsFill'
  <2>1. SumTo(provider')[lp + 1] = lo + m
    BY <1>4, <1>9 DEF RequestsFill, lo, lp
  <2>2. \A i \in 1 .. lp + 1 : provider'[i] > 0
    <3>1. \A i \in 1 .. lp + 1 : i \in 1 .. lp \/ i = lp + 1
      BY <1>1
    <3>2. \A i \in 1 .. lp : provider[i] > 0
      BY <1>4 DEF RequestsFill, lp
    <3>3. QED
      BY <1>2, <1>8, <3>1, <3>2
  <2>3. QED
    BY <1>3, <1>4, <1>7, <1>8, <2>1, <2>2 DEF RequestsFill
<1>11. ASSUME NEW c \in completions, c.token # INVALID PROVE RequestPlaced(c)'
  <2>1. RequestPlaced(c)
    BY <1>4, <1>11 DEF RequestsPlaced
  <2>2. /\ c.token < sendCurrentIndex /\ c.token \in Nat
        /\ c.from \in 1 .. sent /\ c.to \in c.from .. sent
    BY <2>1 DEF RequestPlaced, TypeOK
  <2>3. /\ c.token < sendCurrentIndex' /\ c.from \in 1 .. sent' /\ c.to \in c.from .. sent'
        /\ c.from \in 1 .. sent /\ c.to \in c.from .. sent
    BY <1>1, <1>3, <2>2
  <2>4. ASSUME NEW q \in 1 .. lo + m, output'[q] \in c.from .. c.to
        PROVE  q \in 1 .. lo /\ output[q] \in c.from .. c.to
    <3>1. CASE q \in 1 .. lo
      BY <1>7, <2>4, <3>1
    <3>2. CASE q \in lo + 1 .. lo + m
      BY <1>1, <1>2, <1>7, <2>3, <2>4, <3>2
    <3>3. QED
      BY <1>1, <1>2, <3>1, <3>2
  <2>5. CASE c.token < sendCompletedIndex
    <3>1. \A q \in 1 .. lo : output[q] \notin c.from .. c.to
      BY <2>1, <2>5 DEF RequestPlaced, lo
    <3>2. \A q \in 1 .. Len(output') : output'[q] \notin c.from .. c.to
      BY <1>7, <2>4, <3>1
    <3>3. ~(c.token >= sendCompletedIndex')
      BY <1>1, <1>3, <2>2, <2>5
    <3>4. QED
      BY <2>3, <3>2, <3>3 DEF RequestPlaced
  <2>6. CASE c.token >= sendCompletedIndex
    <3>1. /\ LastOf(c) \in 1 .. lo /\ output[LastOf(c)] = c.to
          /\ \A q \in 1 .. lo : output[q] \in c.from .. c.to => q <= LastOf(c)
      BY <2>1, <2>6 DEF RequestPlaced, lo
    <3>2. c.token - sendCompletedIndex + 1 \in 0 .. lp
      BY <1>1, <1>5, <2>2, <2>6
    <3>3. LastOf(c)' = LastOf(c)
      BY <1>3, <1>9, <3>2 DEF LastOf
    <3>4. LastOf(c)' \in 1 .. Len(output') /\ output'[LastOf(c)'] = c.to
      BY <1>1, <1>2, <1>7, <3>1, <3>3
    <3>5. \A q \in 1 .. Len(output') : output'[q] \in c.from .. c.to => q <= LastOf(c)'
      BY <1>7, <2>4, <3>1, <3>3
    <3>6. ~(c.token < sendCompletedIndex')
      BY <1>1, <1>3, <2>2, <2>6
    <3>7. QED
      BY <2>3, <3>4, <3>5, <3>6 DEF RequestPlaced
  <2>7. QED
    BY <1>1, <2>2, <2>5, <2>6
<1>12. ASSUME NEW c, c.token = sendCurrentIndex, c.from = sent + 1, c.to = sent + n
       PROVE  RequestPlaced(c)'
  <2>1. /\ c.token < sendCurrentIndex' /\ ~(c.token < sendCompletedIndex')
        /\ c.token - sendCompletedIndex' + 1 = lp + 1
    BY <1>1, <1>3, <1>5, <1>12
  <2>2. c.from \in 1 .. sent' /\ c.to \in c.from .. sent'
    BY <1>1, <1>3, <1>12
  <2>3. LastOf(c)' = lo + m
    BY <1>4, <1>9, <2>1 DEF LastOf, RequestsFill, lo, lp
  <2>4. /\ lo + m \in 1 .. Len(output') /\ lo + m \in lo + 1 .. lo + m
        /\ (sent + f) + (lo + m - lo) = sent + n
    BY <1>1, <1>2, <1>7
  <2>5. output'[lo + m] = c.to
    <3> DEFINE k == lo + m
    <3>1. k \in lo + 1 .. lo + m /\ (sent + f) + (k - lo) = c.to
      BY <1>1, <1>2, <1>12
    <3> HIDE DEF k
    <3>2. output'[k] = c.to
      BY <1>7, <3>1
    <3>3. QED
      BY <3>2 DEF k
  <2>6. \A q \in 1 .. Len(output') : q <= lo + m
    BY <1>1, <1>2, <1>7
  <2>7. QED
    BY <2>1, <2>2, <2>3, <2>4, <2>5, <2>6 DEF RequestPlaced
<1>13. QED
  BY <1>6, <1>10, <1>11, <1>12

\* r is what is left of s without its first n elements.
Drops(r, s, n) == \A p \in 1 .. Len(s) - n : r[p] = s[n + p]

\* A write takes the first k of o behind w.
LEMMA SplitMoves ==
  ASSUME NEW w, NEW lw \in Nat, NEW o, NEW lo \in Nat, NEW n \in Nat, Split(w, lw, o, lo, n),
         NEW k \in 0 .. lo, NEW w2, NEW o2,
         \A p \in 1 .. lw : w2[p] = w[p], \A p \in lw + 1 .. lw + k : w2[p] = o[p - lw],
         \A p \in 1 .. lo - k : o2[p] = o[k + p]
  PROVE  Split(w2, lw + k, o2, lo - k, n)
<1>1. ASSUME NEW p \in 1 .. lw + k
      PROVE  \/ p \in 1 .. lw /\ w2[p] = w[p]
             \/ p - lw \in 1 .. k /\ p - lw \in 1 .. lo /\ w2[p] = o[p - lw]
  OBVIOUS
<1>2. \A p \in 1 .. lo - k : k + p \in 1 .. lo /\ k + p \notin 1 .. k /\ o2[p] = o[k + p]
  OBVIOUS
<1>3. ASSUME NEW b \in 1 .. n
      PROVE  (\E p \in 1 .. lw + k : w2[p] = b) \/ (\E p \in 1 .. lo - k : o2[p] = b)
  <2>1. CASE \E p \in 1 .. lw : w[p] = b
    BY <2>1
  <2>2. ASSUME NEW p \in 1 .. lo, o[p] = b, p <= k
        PROVE  \E x \in 1 .. lw + k : w2[x] = b
    <3> DEFINE x == lw + p
    <3>1. x \in lw + 1 .. lw + k /\ x \in 1 .. lw + k /\ x - lw = p
      BY <2>2
    <3> HIDE DEF x
    <3>2. w2[x] = b
      BY <2>2, <3>1
    <3>3. QED
      BY <3>1, <3>2
  <2>3. ASSUME NEW p \in 1 .. lo, o[p] = b, ~(p <= k)
        PROVE  \E x \in 1 .. lo - k : o2[x] = b
    <3> DEFINE x == p - k
    <3>1. x \in 1 .. lo - k /\ k + x = p
      BY <2>3
    <3> HIDE DEF x
    <3>2. o2[x] = b
      BY <2>3, <3>1
    <3>3. QED
      BY <3>1, <3>2
  <2>4. (\E p \in 1 .. lw : w[p] = b) \/ (\E p \in 1 .. lo : o[p] = b)
    BY DEF Split
  <2>5. QED
    BY <2>1, <2>2, <2>3, <2>4
<1>4. /\ \A p \in 1 .. lw + k : w2[p] \in 1 .. n
      /\ \A p \in 1 .. lo - k : o2[p] \in 1 .. n
  <2>1. (\A p \in 1 .. lw : w[p] \in 1 .. n) /\ (\A p \in 1 .. lo : o[p] \in 1 .. n)
    BY DEF Split
  <2>2. QED
    BY <1>1, <1>2, <2>1
<1>5. ASSUME NEW p \in 1 .. lw + k, NEW q \in 1 .. lo - k PROVE w2[p] # o2[q]
  <2>1. k + q \in 1 .. lo /\ k + q \notin 1 .. k /\ o2[q] = o[k + q]
    BY <1>2
  <2>2. CASE p \in 1 .. lw /\ w2[p] = w[p]
    <3>1. \A x \in 1 .. lw, y \in 1 .. lo : w[x] # o[y]
      BY DEF Split
    <3>2. QED
      BY <2>1, <2>2, <3>1
  <2>3. CASE p - lw \in 1 .. k /\ p - lw \in 1 .. lo /\ w2[p] = o[p - lw]
    <3>1. \A x, y \in 1 .. lo : o[x] = o[y] => x = y
      BY DEF Split
    <3>2. o[p - lw] = o[k + q] => p - lw = k + q
      BY <2>1, <2>3, <3>1
    <3>3. p - lw # k + q
      BY <2>1, <2>3
    <3>4. QED
      BY <2>1, <2>3, <3>2, <3>3
  <2>4. QED
    BY <1>1, <2>2, <2>3
<1>6. ASSUME NEW p \in 1 .. lo - k, NEW q \in 1 .. lo - k, o2[p] = o2[q] PROVE p = q
  <2>1. \A x, y \in 1 .. lo : o[x] = o[y] => x = y
    BY DEF Split
  <2>2. k + p = k + q
    BY <1>2, <1>6, <2>1
  <2>3. QED
    BY <2>2
<1>7. lw + k + (lo - k) = n
  BY DEF Split
<1>8. QED
  BY <1>3, <1>4, <1>5, <1>6, <1>7 DEF Split

\* What handleWrite writes and what it leaves of output.
LEMMA WriteMoves ==
  ASSUME NEW w \in Seq(Nat), NEW o \in Seq(Nat), NEW k \in 0 .. Len(o)
  PROVE  LET w2 == w \o SubSeq(o, 1, k)
             o2 == SubSeq(o, k + 1, Len(o))
         IN  /\ Len(w2) = Len(w) + k /\ Len(o2) = Len(o) - k
             /\ \A p \in 1 .. Len(w) : w2[p] = w[p]
             /\ \A p \in Len(w) + 1 .. Len(w) + k : w2[p] = o[p - Len(w)]
             /\ Drops(o2, o, k)
<1> DEFINE b == SubSeq(o, 1, k)
           w2 == w \o b
           o2 == SubSeq(o, k + 1, Len(o))
<1>1. /\ Len(w) \in Nat /\ Len(o) \in Nat
      /\ b \in Seq(Nat) /\ Len(b) = k /\ Len(o2) = Len(o) - k
  BY SplitType, LenProperties
<1>2. \A p \in 1 .. k : b[p] = o[p]
  BY <1>1
<1>3. \A p \in 1 .. Len(o) - k : o2[p] = o[k + p]
  BY <1>1
<1> HIDE DEF b
<1>4. /\ Len(w2) = Len(w) + Len(b)
      /\ \A p \in 1 .. Len(w) : w2[p] = w[p]
      /\ \A p \in 1 .. Len(b) : w2[Len(w) + p] = b[p]
  BY <1>1, Concat
<1> HIDE DEF w2, o2
<1>5. ASSUME NEW p \in Len(w) + 1 .. Len(w) + k PROVE w2[p] = o[p - Len(w)]
  <2> DEFINE i == p - Len(w)
  <2>1. i \in 1 .. k /\ Len(w) + i = p
    BY <1>1
  <2> HIDE DEF i
  <2>2. w2[p] = b[i] /\ b[i] = o[i]
    BY <1>1, <1>2, <1>4, <2>1
  <2>3. QED
    BY <2>2 DEF i
<1>6. QED
  BY <1>1, <1>3, <1>4, <1>5 DEF Drops, b, w2, o2

\* The byte accounting of handleWrite.
LEMMA BytesMoved ==
  ASSUME TypeOK, BytesOnce, NEW k \in 0 .. Len(output),
         wire' = wire \o SubSeq(output, 1, k),
         output' = SubSeq(output, k + 1, Len(output)), sent' = sent
  PROVE  BytesOnce' /\ Len(output') = Len(output) - k /\ Drops(output', output, k)
<1> DEFINE w == wire
           o == output
           w2 == w \o SubSeq(o, 1, k)
           o2 == SubSeq(o, k + 1, Len(o))
<1>1. w \in Seq(Nat) /\ o \in Seq(Nat) /\ sent \in Nat
  BY DEF TypeOK
<1>2. /\ Len(w2) = Len(w) + k /\ Len(o2) = Len(o) - k
      /\ \A p \in 1 .. Len(w) : w2[p] = w[p]
      /\ \A p \in Len(w) + 1 .. Len(w) + k : w2[p] = o[p - Len(w)]
      /\ Drops(o2, o, k)
  BY <1>1, WriteMoves
<1>3. Split(w, Len(w), o, Len(o), sent)
  BY DEF BytesOnce
<1>4. wire' = w2 /\ output' = o2
  OBVIOUS
<1>5. Len(w) \in Nat /\ Len(o) \in Nat /\ k \in 0 .. Len(o)
  BY <1>1, LenProperties
<1> HIDE DEF w, o, w2, o2
<1>6. \A p \in 1 .. Len(o) - k : o2[p] = o[k + p]
  BY <1>2 DEF Drops
<1>7. Split(w2, Len(w) + k, o2, Len(o) - k, sent)
  BY <1>1, <1>2, <1>3, <1>5, <1>6, SplitMoves
<1>8. Split(wire', Len(wire'), output', Len(output'), sent')
  BY <1>2, <1>4, <1>7
<1>9. QED
  BY <1>2, <1>4, <1>8 DEF BytesOnce, o

\* handleWriteComplete on the written bytes: requests popped lost their last byte to
\* the kernel, the others end as many bytes earlier as were written.
LEMMA WriteCompletes ==
  ASSUME TypeOK, ProviderCountsRequests, BytesOnce, RequestsFill, RequestsPlaced,
         NEW n \in 0 .. Len(output), HandleWriteComplete(n),
         Len(output') = Len(output) - n, Drops(output', output, n),
         sent' = sent, sendCurrentIndex' = sendCurrentIndex
  PROVE  RequestsFill' /\ \A c \in completions : c.token # INVALID => RequestPlaced(c)'
<1> DEFINE lo == Len(output)
           lp == Len(provider)
           F == SumTo(provider)
<1>1. /\ provider \in Seq(Nat) /\ lo \in Nat /\ lp \in Nat /\ n \in 0 .. lo
      /\ sendCompletedIndex \in Nat /\ sendCurrentIndex \in Nat /\ sent \in Nat
  BY LenProperties DEF TypeOK
<1>2. /\ \A i \in 0 .. lp : F[i] \in Nat
      /\ \A i \in 1 .. lp : F[i] = F[i - 1] + provider[i]
  BY <1>1, SumToDef
<1>3. /\ \A i \in 1 .. lp : provider[i] > 0
      /\ F[lp] = lo /\ sendCompletedIndex > 1
  BY DEF RequestsFill, FAST_COMPLETE
<1>4. sendCompletedIndex + lp = sendCurrentIndex
  BY DEF ProviderCountsRequests
<1>5. Len(output') = lo - n /\ \A q \in 1 .. lo - n : output'[q] = output[n + q]
  BY DEF Drops
<1>6. ASSUME NEW c \in completions, c.token # INVALID
      PROVE  /\ RequestPlaced(c) /\ c.token \in Nat /\ c.token < sendCurrentIndex
             /\ c.token < sendCurrentIndex' /\ c.from \in 1 .. sent' /\ c.to \in c.from .. sent'
  BY <1>6 DEF RequestsPlaced, RequestPlaced, TypeOK
<1>7. ASSUME NEW c \in completions, c.token # INVALID, c.token < sendCompletedIndex
      PROVE  \A q \in 1 .. lo - n : output'[q] \notin c.from .. c.to
  <2>1. \A q \in 1 .. lo : output[q] \notin c.from .. c.to
    BY <1>6, <1>7 DEF RequestPlaced
  <2>2. \A q \in 1 .. lo - n : n + q \in 1 .. lo
    BY <1>1
  <2>3. QED
    BY <1>5, <2>1, <2>2
<1> HIDE DEF lo, lp, F
<1>8. CASE /\ SumTo(provider)[Len(provider)] <= n
           /\ provider' = <<>>
           /\ sendCompletedIndex' = sendCompletedIndex + Len(provider)
  <2>1. n = lo /\ sendCompletedIndex' = sendCompletedIndex + lp
    BY <1>1, <1>3, <1>8 DEF F, lp
  <2>2. RequestsFill'
    <3>1. Len(<<>>) = 0 /\ <<>> \in Seq(Nat)
      BY EmptySeq
    <3>2. SumTo(<<>>)[0] = 0
      BY <3>1, SumToDef
    <3>3. sendCompletedIndex' > 1
      BY <1>1, <1>3, <2>1
    <3>4. Len(output') = 0
      BY <1>1, <1>5, <2>1
    <3>5. QED
      BY <1>8, <3>1, <3>2, <3>3, <3>4 DEF RequestsFill, FAST_COMPLETE
  <2>3. ASSUME NEW c \in completions, c.token # INVALID PROVE RequestPlaced(c)'
    <3>1. ~(c.token >= sendCompletedIndex')
      BY <1>1, <1>4, <1>6, <2>1, <2>3
    <3>2. \A q \in 1 .. Len(output') : output'[q] \notin c.from .. c.to
      BY <1>1, <1>5, <2>1
    <3>3. QED
      BY <1>6, <2>3, <3>1, <3>2 DEF RequestPlaced
  <2>4. QED
    BY <2>2, <2>3
<1>9. CASE \E done \in 0 .. Len(provider) - 1 :
           \E left \in 1 .. provider[done + 1] :
             /\ SumTo(provider)[done + 1] = n + left
             /\ provider' = <<left>> \o SubSeq(provider, done + 2, Len(provider))
             /\ sendCompletedIndex' = sendCompletedIndex + done
  <2>1. PICK done \in 0 .. lp - 1 : \E left \in 1 .. provider[done + 1] :
             /\ F[done + 1] = n + left
             /\ provider' = <<left>> \o SubSeq(provider, done + 2, Len(provider))
             /\ sendCompletedIndex' = sendCompletedIndex + done
    BY <1>9 DEF F, lp
  <2>2. PICK left \in 1 .. provider[done + 1] :
             /\ F[done + 1] = n + left
             /\ provider' = <<left>> \o SubSeq(provider, done + 2, Len(provider))
             /\ sendCompletedIndex' = sendCompletedIndex + done
    BY <2>1
  <2>3. /\ done \in Nat /\ done + 1 \in 1 .. lp /\ done + 1 \in 0 .. lp
        /\ done \in 0 .. lp /\ done + 1 - 1 = done /\ provider[done + 1] \in Nat
        /\ left \in Nat /\ left > 0 /\ left <= provider[done + 1]
    <3>1. done \in Nat /\ done + 1 \in 1 .. lp
      BY <1>1
    <3>2. provider[done + 1] \in Nat
      BY <1>1, <3>1, ElementOfSeq DEF lp
    <3>3. QED
      BY <1>1, <3>1, <3>2
  <2> DEFINE t == <<left>> \o SubSeq(provider, done + 2, Len(provider))
             G == SumTo(t)
             lt == lp - done
  <2>4. /\ t \in Seq(Nat) /\ Len(t) = lt
        /\ t[1] = left /\ \A j \in 2 .. Len(t) : t[j] = provider[done + j]
        /\ \A j \in 1 .. Len(t) : G[j] + F[done + 1] = F[done + j] + left
    <3>1. done \in 0 .. Len(provider) - 1 /\ left \in Nat
      BY <2>3 DEF lp
    <3>2. QED
      BY <1>1, <3>1, SumToPopped DEF F, lp
  <2>5. provider' = t
    BY <2>2
  <2> HIDE DEF t
  <2>6. \A j \in 0 .. lt : G[j] \in Nat
    BY <2>4, SumToDef
  <2> HIDE DEF G
  <2>7. ASSUME NEW j \in 1 .. lt PROVE G[j] = F[done + j] - n /\ done + j \in 1 .. lp
    <3>1. done + j \in 0 .. lp /\ done + j \in 1 .. lp /\ j \in 0 .. lt
      BY <1>1, <2>3
    <3>2. G[j] + F[done + 1] = F[done + j] + left
      BY <2>4
    <3>3. F[done + j] \in Nat /\ G[j] \in Nat
      BY <1>2, <2>6, <3>1
    <3> DEFINE a == G[j]
               b == F[done + 1]
               d == F[done + j]
    <3>4. a = d - n
      <4>1. /\ a + b = d + left /\ b = n + left
            /\ a \in Nat /\ d \in Nat /\ left \in Nat /\ n \in Nat
        BY <1>1, <2>2, <2>3, <3>2, <3>3
      <4> HIDE DEF a, b, d
      <4>2. QED
        BY <4>1
    <3>5. QED
      BY <3>1, <3>4
  <2>8. RequestsFill'
    <3>1. lt \in 1 .. lt /\ done + lt = lp
      BY <1>1, <2>3
    <3>2. G[lt] = lo - n
      BY <1>3, <2>7, <3>1
    <3>3. ASSUME NEW j \in 1 .. lt PROVE t[j] > 0
      <4>1. j = 1 \/ (j \in 2 .. lt /\ done + j \in 1 .. lp)
        BY <1>1, <2>3
      <4>2. QED
        BY <1>3, <2>3, <2>4, <4>1
    <3>4. sendCompletedIndex' > 1
      BY <1>1, <1>3, <2>2, <2>3
    <3>5. QED
      BY <1>5, <2>4, <2>5, <3>2, <3>3, <3>4 DEF RequestsFill, FAST_COMPLETE, G
  <2>9. ASSUME NEW c \in completions, c.token # INVALID PROVE RequestPlaced(c)'
    <3> DEFINE i == c.token - sendCompletedIndex + 1
    <3>1. CASE c.token < sendCompletedIndex
      <4>1. ~(c.token >= sendCompletedIndex')
        BY <1>1, <1>6, <2>2, <2>3, <2>9, <3>1
      <4>2. QED
        BY <1>5, <1>6, <1>7, <2>9, <3>1, <4>1 DEF RequestPlaced
    <3>2. CASE c.token >= sendCompletedIndex
      <4>1. i \in 1 .. lp /\ c.token = sendCompletedIndex + i - 1
        <5> DEFINE x == c.token
        <5>1. x \in Nat /\ x < sendCurrentIndex /\ x >= sendCompletedIndex
          BY <1>6, <2>9, <3>2
        <5> HIDE DEF x
        <5>2. /\ x - sendCompletedIndex + 1 \in 1 .. lp
              /\ x = sendCompletedIndex + (x - sendCompletedIndex + 1) - 1
          BY <1>1, <1>4, <5>1
        <5>3. QED
          BY <5>2 DEF x
      <4>2. LastOf(c) = F[i]
        BY DEF LastOf, F
      <4> HIDE DEF i
      <4>3. /\ F[i] \in 1 .. lo /\ output[F[i]] = c.to
            /\ \A q \in 1 .. lo : output[q] \in c.from .. c.to => q <= F[i]
        BY <1>6, <2>9, <3>2, <4>2 DEF RequestPlaced, lo
      <4>4. CASE i <= done
        <5>1. ~(c.token >= sendCompletedIndex')
          BY <1>1, <2>2, <2>3, <4>1, <4>4
        <5>2. F[i] <= n
          <6>1. i \in 0 .. Len(provider) /\ done \in i .. Len(provider)
            BY <1>1, <2>3, <4>1, <4>4 DEF lp
          <6>2. F[i] <= F[done]
            BY <1>1, <6>1, SumToGrows DEF F
          <6>3. F[done + 1] = F[done] + provider[done + 1] /\ F[done] \in Nat
            BY <1>2, <2>3
          <6>4. QED
            BY <1>1, <2>2, <2>3, <4>3, <6>2, <6>3
        <5>3. ASSUME NEW q \in 1 .. lo - n PROVE output'[q] \notin c.from .. c.to
          <6>1. n + q \in 1 .. lo /\ ~(n + q <= F[i])
            BY <1>1, <4>3, <5>2
          <6>2. QED
            BY <1>5, <4>3, <6>1
        <5>4. QED
          BY <1>5, <1>6, <2>9, <5>1, <5>3 DEF RequestPlaced
      <4>5. CASE i > done
        <5> DEFINE j == i - done
        <5>1. /\ j \in 1 .. lt /\ done + j = i
              /\ c.token - sendCompletedIndex' + 1 = j
              /\ ~(c.token < sendCompletedIndex')
          BY <1>1, <2>2, <2>3, <4>1, <4>5
        <5>2. LastOf(c)' = G[j]
          BY <2>5, <5>1 DEF LastOf, G
        <5> HIDE DEF j
        <5>3. G[j] = F[i] - n
          BY <2>7, <5>1
        <5>4. F[i] > n
          <6>1. done + 1 \in 0 .. Len(provider) /\ i \in done + 1 .. Len(provider)
            BY <1>1, <2>3, <4>1, <4>5 DEF lp
          <6>2. F[done + 1] <= F[i]
            BY <1>1, <6>1, SumToGrows DEF F
          <6>3. QED
            BY <1>1, <2>2, <2>3, <4>3, <6>2
        <5>5. G[j] \in 1 .. lo - n /\ n + G[j] = F[i]
          BY <1>1, <4>3, <5>3, <5>4
        <5>6. output'[G[j]] = c.to
          BY <1>5, <4>3, <5>5
        <5>7. ASSUME NEW q \in 1 .. lo - n, output'[q] \in c.from .. c.to
              PROVE  q <= G[j]
          <6>1. n + q \in 1 .. lo /\ output[n + q] \in c.from .. c.to
            BY <1>1, <1>5, <5>7
          <6>2. n + q <= F[i]
            BY <4>3, <6>1
          <6>3. QED
            BY <1>1, <5>5, <6>2
        <5>8. QED
          BY <1>5, <1>6, <2>9, <5>1, <5>2, <5>5, <5>6, <5>7 DEF RequestPlaced
      <4>6. QED
        BY <2>3, <4>1, <4>4, <4>5
    <3>3. QED
      BY <1>1, <1>6, <2>9, <3>1, <3>2
  <2>10. QED
    BY <2>8, <2>9
<1>10. QED
  BY <1>8, <1>9 DEF HandleWriteComplete

\* handleWrite as a whole.
LEMMA WriteKeeps ==
  ASSUME TypeOK, ProviderCountsRequests, SendInv, HandleWrite
  PROVE  SendInv'
<1> DEFINE n == Least(Len(output), Space)
<1>1. n \in 0 .. Len(output)
  BY ConnectionAssumption, LenProperties DEF ConnectionAssumption, TypeOK, Least, Space
<1>2. /\ wire' = wire \o SubSeq(output, 1, n)
      /\ output' = SubSeq(output, n + 1, Len(output))
      /\ HandleWriteComplete(n)
      /\ sent' = sent /\ sendCurrentIndex' = sendCurrentIndex
      /\ completions' = completions
  BY DEF HandleWrite
<1>3. BytesOnce /\ RequestsFill /\ RequestsPlaced
  BY DEF SendInv
<1> HIDE DEF n
<1>4. BytesOnce' /\ Len(output') = Len(output) - n /\ Drops(output', output, n)
  BY <1>1, <1>2, <1>3, BytesMoved
<1>5. RequestsFill' /\ \A c \in completions : c.token # INVALID => RequestPlaced(c)'
  BY <1>1, <1>2, <1>3, <1>4, WriteCompletes
<1>6. RequestsPlaced'
  BY <1>2, <1>5 DEF RequestsPlaced
<1>7. QED
  BY <1>4, <1>5, <1>6 DEF SendInv

\* Every byte send() took, and every Completion it gave, is accounted for at every
\* step of the program.
LEMMA SendInvariant == Spec => []SendInv
<1>1. Init => SendInv
  BY SendInit
<1>2. TypeOK /\ ProviderCountsRequests /\ SendInv /\ [Next]_vars => SendInv'
  <2> SUFFICES ASSUME TypeOK, ProviderCountsRequests, SendInv, [Next]_vars
               PROVE  SendInv'
    OBVIOUS
  <2>1. ASSUME NEW n \in MessageSizes, SendFast(n) PROVE SendInv'
    BY <2>1, FastSend
  <2>2. ASSUME NEW n \in MessageSizes, SendQueued(n) PROVE SendInv'
    <3>1. Enqueue(n) /\ Complete(sendCurrentIndex, n)
      BY <2>2 DEF SendQueued
    <3> DEFINE d == [token |-> sendCurrentIndex, from |-> sent + 1, to |-> sent + n]
    <3>2. completions' = completions \cup {d}
      BY <3>1 DEF Complete
    <3>3. d.token = sendCurrentIndex /\ d.from = sent + 1 /\ d.to = sent + n
      OBVIOUS
    <3> HIDE DEF d
    <3>4. /\ BytesOnce' /\ RequestsFill'
          /\ \A c \in completions : c.token # INVALID => RequestPlaced(c)'
          /\ \A c : c.token = sendCurrentIndex /\ c.from = sent + 1 /\ c.to = sent + n
                        => RequestPlaced(c)'
      BY <3>1, QueuedSend
    <3>5. \A c \in completions' : c.token # INVALID => RequestPlaced(c)'
      BY <3>2, <3>3, <3>4
    <3>6. QED
      BY <3>4, <3>5 DEF SendInv, RequestsPlaced
  <2>3. ASSUME NEW n \in MessageSizes, SendQueuedThrows(n) PROVE SendInv'
    <3>1. Enqueue(n) /\ completions' = completions
      BY <2>3 DEF SendQueuedThrows
    <3>2. /\ BytesOnce' /\ RequestsFill'
          /\ \A c \in completions : c.token # INVALID => RequestPlaced(c)'
      BY <3>1, QueuedSend
    <3>3. QED
      BY <3>1, <3>2 DEF SendInv, RequestsPlaced
  <2>4. CASE SendInvalid
    <3>1. /\ \A c \in completions' : c \in completions \/ c.token = INVALID
          /\ UNCHANGED <<output, provider, sendCurrentIndex, sendCompletedIndex,
                         sent, wire>>
      BY <2>4 DEF SendInvalid, sockVars
    <3>2. BytesOnce' /\ RequestsFill'
      BY <3>1 DEF SendInv, BytesOnce, Split, RequestsFill
    <3>3. ASSUME NEW c \in completions', c.token # INVALID PROVE RequestPlaced(c)'
      <4>1. RequestPlaced(c)
        BY <3>1, <3>3 DEF SendInv, RequestsPlaced
      <4>2. QED
        BY <3>1, <4>1 DEF RequestPlaced, LastOf
    <3>4. QED
      BY <3>2, <3>3 DEF SendInv, RequestsPlaced
  <2>5. CASE HandleWrite
    BY <2>5, WriteKeeps
  <2>6. CASE UNCHANGED <<sendVars, wire>>
    BY <2>6, SendStays
  <2>7. QED
    BY <2>1, <2>2, <2>3, <2>4, <2>5, <2>6
    DEF Next, User, Handler, HandleEvent, Peer, HandleNewContext,
        HandleNewContextFails, SendThrows, Shutdown, EnableRead, DisableRead,
        CallbackReturns, RunAsyncShutdown, Poll, EventHup, ReadEof, HandleClose,
        EventError, ReadData, ReadError, ReadNothing, WriteSkipped,
        HandleWriteThrows, PeerReads, PeerWrites, PeerFin, PeerReset, vars,
        netVars, sendVars, sockVars, peerVars
<1>3. QED
  BY <1>1, <1>2, TypeCorrect, ProviderCountsTheorem, PTL DEF Spec

\* No byte handed to send() is lost or written twice, whatever partial writes, user
\* calls, closes and failures of epoll_ctl happen, and the entries of _sendProvider
\* always add up to what output still holds (Context::send, handleWrite).
THEOREM BytesConservedTheorem == Spec => []BytesConserved
<1>1. TypeOK /\ SendInv => BytesConserved
  <2> SUFFICES ASSUME TypeOK, SendInv PROVE BytesConserved
    OBVIOUS
  <2>1. /\ wire \in Seq(Nat) /\ output \in Seq(Nat) /\ Len(wire) \in Nat /\ Len(output) \in Nat
        /\ DOMAIN wire = 1 .. Len(wire) /\ DOMAIN output = 1 .. Len(output)
    BY LenProperties DEF TypeOK
  <2>2. Elements(wire) \cup Elements(output) = 1 .. sent
    <3>1. Split(wire, Len(wire), output, Len(output), sent)
      BY DEF SendInv, BytesOnce
    <3>2. ASSUME NEW b \in 1 .. sent PROVE b \in Elements(wire) \cup Elements(output)
      <4>1. (\E p \in 1 .. Len(wire) : wire[p] = b) \/ (\E p \in 1 .. Len(output) : output[p] = b)
        BY <3>1 DEF Split
      <4>2. QED
        BY <2>1, <4>1 DEF Elements
    <3>3. /\ \A p \in 1 .. Len(wire) : wire[p] \in 1 .. sent
          /\ \A p \in 1 .. Len(output) : output[p] \in 1 .. sent
      BY <3>1 DEF Split
    <3>4. Elements(wire) \cup Elements(output) \subseteq 1 .. sent
      BY <2>1, <3>3 DEF Elements
    <3>5. QED
      BY <3>2, <3>4
  <2>3. QED
    BY <2>2 DEF SendInv, BytesOnce, Split, RequestsFill, BytesConserved
<1>2. QED
  BY <1>1, TypeCorrect, SendInvariant, PTL

\* A Completion polls true exactly when the kernel has every byte of its send(): not
\* before its last byte is written, and not a write later (Completion::poll,
\* handleWriteComplete).
THEOREM CompletionExactTheorem == Spec => []CompletionExact
<1>1. TypeOK /\ SendInv => CompletionExact
  <2> SUFFICES ASSUME TypeOK, SendInv, NEW c \in completions, c.token # INVALID
               PROVE  Polls(c) <=> (c.from .. c.to) \subseteq Elements(wire)
    BY DEF CompletionExact
  <2>1. /\ DOMAIN wire = 1 .. Len(wire) /\ sendCompletedIndex \in Nat
        /\ c.token \in Nat /\ sent \in Nat
    BY LenProperties DEF TypeOK
  <2>2. RequestPlaced(c) /\ Split(wire, Len(wire), output, Len(output), sent)
    BY DEF SendInv, RequestsPlaced, BytesOnce
  <2>3. c.from \in 1 .. sent /\ c.to \in c.from .. sent
    BY <2>2 DEF RequestPlaced
  <2>4. CASE c.token < sendCompletedIndex
    <3>1. \A q \in 1 .. Len(output) : output[q] \notin c.from .. c.to
      BY <2>2, <2>4 DEF RequestPlaced
    <3>2. ASSUME NEW b \in c.from .. c.to PROVE b \in Elements(wire)
      <4>1. b \in 1 .. sent
        BY <2>1, <2>3
      <4>2. \E p \in 1 .. Len(wire) : wire[p] = b
        BY <2>2, <3>1, <4>1 DEF Split
      <4>3. QED
        BY <2>1, <4>2 DEF Elements
    <3>3. Polls(c)
      BY <2>1, <2>4 DEF Polls
    <3>4. QED
      BY <3>2, <3>3
  <2>5. CASE c.token >= sendCompletedIndex
    <3>1. LastOf(c) \in 1 .. Len(output) /\ output[LastOf(c)] = c.to
      BY <2>2, <2>5 DEF RequestPlaced
    <3>2. \A p \in 1 .. Len(wire) : wire[p] # c.to
      BY <2>2, <3>1 DEF Split
    <3>3. c.to \notin Elements(wire)
      BY <2>1, <3>2 DEF Elements
    <3>4. c.to \in c.from .. c.to
      BY <2>1, <2>3
    <3>5. ~Polls(c)
      BY <2>1, <2>5 DEF Polls
    <3>6. QED
      BY <3>3, <3>4, <3>5
  <2>6. QED
    BY <2>1, <2>4, <2>5
<1>2. QED
  BY <1>1, TypeCorrect, SendInvariant, PTL

=============================================================================
