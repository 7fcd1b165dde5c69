---------------------------- MODULE ReactorProofs ----------------------------
(***************************************************************************)
(* Theorems about Reactor, for any number of servers, clients, Contexts    *)
(* and descriptors: without a poller thread no result points to a          *)
(* destroyed Context, and in every case each open descriptor has exactly   *)
(* one owner.                                                              *)
(***************************************************************************)
EXTENDS Reactor, FiniteSetTheorems, SequenceTheorems, WellFoundedInduction, TLAPS

AppPc == {"user", "poll", "accept", "accepted", "events", "handling", "loop"}
LinkStates == {"closed", "new", "connecting", "connected", "failed"}

Errnos == {"0", "EALREADY", "EISCONN", "EINPROGRESS", "ECONNREFUSED", "ETIMEDOUT",
           "ENETUNREACH", "EACCES", "ENOTCONN"}

ReactorType ==
    /\ status \in [Contexts -> {"absent", "open", "closed"}]
    /\ owner \in [Contexts -> Apps \cup {None}]
    /\ socket \in [Contexts -> Fds \cup {None}]
    /\ pc \in [Apps -> AppPc]
    /\ evnetVectors \in [Apps -> Seq(Contexts)]
    /\ eventBuffer \in [Apps -> Seq(Contexts)]
    /\ lastBuffered \in [Servers -> Fds \cup {None}]
    /\ arguments \in [Clients -> [socket : Fds \cup {None}, err : Errnos,
                                  reconnect : BOOLEAN, nextInstance : BOOLEAN]]
    /\ link \in [Fds -> LinkStates]

\* An app handles results exactly while it has some ...
Handling == \A a \in Apps : pc[a] = "handling" <=> eventBuffer[a] # <<>>

\* ... and while it does, none is added.
Emptied == \A a \in Apps : pc[a] = "handling" => evnetVectors[a] = <<>>

\* A result that waits points to an open Context, because an app closes its
\* Contexts only while it handles results.
WaitingOpen ==
    \A a \in Apps : \A c \in ToSet(evnetVectors[a]) : status[c] = "open" /\ owner[c] = a

\* One that is about to be handled may point to a closed Context: destroying one
\* takes an emplace() of the same app, which it does not do meanwhile.
HandledLive ==
    \A a \in Apps : \A c \in ToSet(eventBuffer[a]) : status[c] # "absent" /\ owner[c] = a

ResultsInvariant == Emptied /\ WaitingOpen /\ HandledLive

\* What each kind of holder may hold.
HeldByContexts ==
    \A c \in Contexts :
        IF status[c] = "absent" THEN socket[c] = None
        ELSE socket[c] \in Fds /\ link[socket[c]] = "connected"
HeldByServers ==
    \A s \in Servers :
        IF pc[s] = "accepted" THEN lastBuffered[s] \in Fds /\ link[lastBuffered[s]] = "connected"
        ELSE lastBuffered[s] = None
HeldByClients ==
    \A k \in Clients :
        IF arguments[k].socket = None THEN arguments[k] = NoConnect
        ELSE arguments[k].err = "0" => link[arguments[k].socket] = "connected"

\* A descriptor is open exactly when it is held.
OpenIsHeld ==
    \A f \in Fds :
        link[f] # "closed" <=> \/ \E c \in Contexts : socket[c] = f
                               \/ \E s \in Servers : lastBuffered[s] = f
                               \/ \E k \in Clients : arguments[k].socket = f

\* No two hold the same.
HeldOnce ==
    /\ \A c, d \in Contexts : c # d /\ socket[c] # None => socket[c] # socket[d]
    /\ \A s, t \in Servers : s # t /\ lastBuffered[s] # None => lastBuffered[s] # lastBuffered[t]
    /\ \A k, m \in Clients : k # m /\ arguments[k].socket # None
                                => arguments[k].socket # arguments[m].socket
    /\ \A c \in Contexts : socket[c] # None =>
          /\ \A s \in Servers : socket[c] # lastBuffered[s]
          /\ \A k \in Clients : socket[c] # arguments[k].socket
    /\ \A s \in Servers : lastBuffered[s] # None =>
          \A k \in Clients : lastBuffered[s] # arguments[k].socket

SocketInvariant ==
    /\ ReactorType /\ Handling
    /\ HeldByContexts /\ HeldByServers /\ HeldByClients
    /\ OpenIsHeld /\ HeldOnce

-----------------------------------------------------------------------------
(* Sequences, sets and descriptors                                         *)

Less == OpToRel(<, Nat)

\* Membership in the relation of the theorems on well-founded relations.
LEMMA LessDef == \A x, y \in Nat : <<x, y>> \in Less <=> x < y
  BY DEF OpToRel, Less

\* A set of descriptors has a lowest one.
LEMMA NatHasMin ==
    ASSUME NEW S, S \subseteq Nat, S # {}
    PROVE Min(S) \in S
<1>1. IsWellFoundedOn(Less, Nat)
  BY NatLessThanWellFounded DEF Less
<1>2. PICK x \in S : \A y \in S : ~(<<y, x>> \in Less)
  BY <1>1, WFMin
<1>3. ASSUME NEW y \in S PROVE x <= y
  <2>1. x \in Nat /\ y \in Nat
    OBVIOUS
  <2>2. ~(y < x)
    BY <1>2, <2>1, LessDef
  <2> QED
    BY <2>1, <2>2
<1> QED
  BY <1>3 DEF Min

\* The kernel gives out a descriptor that is closed.
LEMMA FreeFdOK ==
    ASSUME Free(link) # {}
    PROVE FreeFd(link) \in Fds /\ link[FreeFd(link)] = "closed"
<1>1. Free(link) \subseteq Nat
  BY ReactorAssumption DEF Free, ReactorAssumption
<1> QED
  BY <1>1, NatHasMin DEF Free, FreeFd

\* The results of an app are a sequence of what was found for it.
LEMMA SetToSeqOK ==
    ASSUME NEW S, S \subseteq Contexts
    PROVE SetToSeq(S) \in Seq(S) /\ (S = {} => SetToSeq(S) = <<>>)
<1>1. IsFiniteSet(S)
  BY ReactorAssumption, FS_Subset DEF ReactorAssumption
<1>2. Cardinality(S) \in Nat /\ ExistsBijection(1 .. Cardinality(S), S)
  BY <1>1, FS_CardinalityType
<1>3. PICK f \in [1 .. Cardinality(S) -> S] : IsInjective(f)
  BY <1>2 DEF ExistsBijection, Bijection, Injection, Surjection, IsInjective
<1>4. SetToSeq(S) \in [1 .. Cardinality(S) -> S]
  BY <1>3 DEF SetToSeq
<1>5. SetToSeq(S) \in Seq(S)
  BY <1>2, <1>4
<1>6. S = {} => Cardinality(S) = 0
  BY FS_EmptySet
<1> QED
  BY <1>4, <1>5, <1>6

\* The elements of a sequence are of its set.
LEMMA ElementsOf ==
    ASSUME NEW S, NEW s \in Seq(S)
    PROVE ToSet(s) \subseteq S
  BY DEF ToSet

\* The elements of a concatenation.
LEMMA ElementsConcat ==
    ASSUME NEW S, NEW s \in Seq(S), NEW t \in Seq(S)
    PROVE ToSet(s \o t) \subseteq ToSet(s) \cup ToSet(t)
  BY DEF ToSet

\* The first result and those behind it.
LEMMA ElementsTail ==
    ASSUME NEW S, NEW s \in Seq(S), s # <<>>
    PROVE Head(s) \in ToSet(s) /\ ToSet(Tail(s)) \subseteq ToSet(s)
  BY DEF ToSet

\* An empty vector has no results.
LEMMA ElementsNone == ToSet(<<>>) = {}
  BY DEF ToSet

-----------------------------------------------------------------------------
(* What the composed steps do                                              *)

\* App a gets c over fd, and the Contexts in gone are destroyed.
Replaces(a, fd, c, gone) ==
    /\ status[c] = "absent"
    /\ \A d \in gone : status[d] = "closed" /\ owner[d] = a
    /\ status' = [d \in Contexts |-> IF d = c THEN "open" ELSE IF d \in gone THEN "absent" ELSE status[d]]
    /\ owner' = [d \in Contexts |-> IF d = c THEN a ELSE IF d \in gone THEN None ELSE owner[d]]
    /\ socket' = [d \in Contexts |-> IF d = c THEN fd ELSE IF d \in gone THEN None ELSE socket[d]]
    /\ link' = [f \in Fds |-> IF \E d \in gone : socket[d] = f THEN "closed" ELSE link[f]]

\* An emplace() opens one Context over fd and destroys some of its pool.
LEMMA EmplaceReplaces ==
    ASSUME ReactorType, NEW a \in Apps, NEW fd, Emplace(a, fd, link)
    PROVE \E c \in Contexts : \E gone \in SUBSET Contexts : Replaces(a, fd, c, gone)
<1> DEFINE absent == {d \in Contexts : status[d] = "absent"}
           c == CHOOSE d \in absent : TRUE
           gone == {d \in Contexts : status[d] # "absent" /\ status'[d] = "absent"}
<1>1. absent # {} /\ Store!SEmplace(c) /\ (\A d \in gone : owner[d] = a)
  BY DEF Emplace
<1>2. c \in Contexts /\ status[c] = "absent"
  <2>1. c \in absent
    BY <1>1
  <2> QED
    BY <2>1
<1>3. \/ status' = [status EXCEPT ![c] = "open"]
      \/ \E d \in Contexts :
            /\ status[d] = "closed"
            /\ status' = [status EXCEPT ![c] = "open", ![d] = "absent"]
  <2> HIDE DEF c
  <2> QED
    BY <1>1 DEF Store!SEmplace, Store!Abandoned
<1>4. /\ \A d \in gone : status[d] = "closed"
      /\ status' = [d \in Contexts |-> IF d = c THEN "open" ELSE IF d \in gone THEN "absent" ELSE status[d]]
  <2> HIDE DEF c
  <2> QED
    BY <1>2, <1>3 DEF ReactorType
<1>5. /\ owner' = [d \in Contexts |-> IF d = c THEN a ELSE IF d \in gone THEN None ELSE owner[d]]
      /\ socket' = [d \in Contexts |-> IF d = c THEN fd ELSE IF d \in gone THEN None ELSE socket[d]]
      /\ link' = [f \in Fds |-> IF \E d \in gone : socket[d] = f THEN "closed" ELSE link[f]]
  BY DEF Emplace
<1>6. Replaces(a, fd, c, gone)
  <2> HIDE DEF c, gone
  <2> QED
    BY <1>1, <1>2, <1>4, <1>5 DEF Replaces
<1> QED
  BY <1>2, <1>6

\* Every result that a poll adds belongs to the app that gets it, is open, and
\* an app that is not polled for gets none.
LEMMA PollAdds ==
    ASSUME ReactorType, NEW as, as \subseteq Apps, Poll(as)
    PROVE /\ evnetVectors' \in [Apps -> Seq(Contexts)]
          /\ \A a \in Apps \ as : evnetVectors'[a] = evnetVectors[a]
          /\ \A a \in Apps : \A c \in ToSet(evnetVectors'[a]) \ ToSet(evnetVectors[a]) :
                status[c] = "open" /\ owner[c] = a
<1> PICK found \in SUBSET Watched(as) :
        evnetVectors' = [a \in Apps |->
            evnetVectors[a] \o SetToSeq({c \in found : Index(c) = a})]
  BY DEF Poll
<1> DEFINE F(a) == {c \in found : owner[c] = a}
           R(a) == SetToSeq(F(a))
<1>1. ASSUME NEW a \in Apps
      PROVE /\ F(a) \subseteq {c \in Contexts : status[c] = "open" /\ owner[c] = a}
            /\ F(a) \subseteq Contexts
            /\ a \notin as => F(a) = {}
  BY DEF Watched
<1>2. ASSUME NEW a \in Apps PROVE evnetVectors'[a] = evnetVectors[a] \o R(a)
  BY DEF Index
<1>3. ASSUME NEW a \in Apps
      PROVE /\ R(a) \in Seq(F(a)) /\ R(a) \in Seq(Contexts) /\ (F(a) = {} => R(a) = <<>>)
  <2>1. R(a) \in Seq(F(a)) /\ (F(a) = {} => R(a) = <<>>)
    <3> HIDE DEF F
    <3> QED
      BY <1>1, SetToSeqOK
  <2> HIDE DEF F, R
  <2> QED
    BY <1>1, <2>1, SeqMonotonic
<1> HIDE DEF F, R
<1>4. evnetVectors' \in [Apps -> Seq(Contexts)]
  <2>1. \A a \in Apps : evnetVectors'[a] \in Seq(Contexts)
    <3> TAKE a \in Apps
    <3>1. evnetVectors[a] \in Seq(Contexts)
      BY DEF ReactorType
    <3> QED
      BY <3>1, <1>2, <1>3, ConcatProperties
  <2> QED
    BY <2>1
<1>5. \A a \in Apps \ as : evnetVectors'[a] = evnetVectors[a]
  <2> TAKE a \in Apps \ as
  <2>1. evnetVectors[a] \in Seq(Contexts) /\ R(a) = <<>>
    BY <1>1, <1>3 DEF ReactorType
  <2> QED
    BY <2>1, <1>2, ConcatEmptySeq
<1>6. ASSUME NEW a \in Apps, NEW c \in ToSet(evnetVectors'[a]) \ ToSet(evnetVectors[a])
      PROVE status[c] = "open" /\ owner[c] = a
  <2>1. c \in ToSet(R(a))
    BY <1>2, <1>3, ElementsConcat DEF ReactorType
  <2>2. c \in F(a)
    BY <2>1, <1>3, ElementsOf
  <2> QED
    BY <1>1, <2>2
<1> QED
  BY <1>4, <1>5, <1>6

\* What an attempt to connect tells, and makes of its descriptor.
LEMMA AttemptsOK ==
    ASSUME NEW state, NEW attempt \in Attempts(state)
    PROVE /\ attempt[1] \in Errnos
          /\ attempt[2] \in {"new", "connecting", "connected"}
          /\ attempt[1] = "0" => attempt[2] = "connected"
  BY DEF Attempts, Errnos

\* Where a thread goes next in its batch.
LEMMA PlacesOK ==
    ASSUME NEW a \in Apps
    PROVE /\ AfterPoll(a) \in AppPc \ {"accepted", "handling"}
          /\ Starts(a) \in AppPc \ {"accepted", "handling"}
          /\ Tests(a) \in AppPc \ {"accepted", "handling"}
          /\ \A results : Rest(results) \in {"handling", "loop"}
  BY DEF AppPc, AfterPoll, Starts, Tests, Rest

-----------------------------------------------------------------------------
(* Type correctness                                                        *)

\* The types hold at first.
LEMMA InitType == Init => ReactorType
<1> SUFFICES ASSUME Init PROVE ReactorType
  OBVIOUS
<1>1. NoConnect \in [socket : Fds \cup {None}, err : Errnos,
                     reconnect : BOOLEAN, nextInstance : BOOLEAN]
  BY DEF NoConnect, Errnos
<1> QED
  BY <1>1 DEF Init, ReactorType, Store!SInit, AppPc, LinkStates

\* An emplace() keeps the types.
LEMMA EmplaceType ==
    ASSUME ReactorType, NEW a \in Apps, NEW fd \in Fds, Emplace(a, fd, link)
    PROVE /\ status' \in [Contexts -> {"absent", "open", "closed"}]
          /\ owner' \in [Contexts -> Apps \cup {None}]
          /\ socket' \in [Contexts -> Fds \cup {None}]
          /\ link' \in [Fds -> LinkStates]
<1> PICK c \in Contexts, gone \in SUBSET Contexts : Replaces(a, fd, c, gone)
  BY EmplaceReplaces
<1> QED
  BY DEF Replaces, ReactorType, LinkStates

\* The steps of ConnectTurn.
LEMMA PollsType ==
    ASSUME ReactorType, NEW k \in Clients, Polls(k), arguments[k] # NoConnect,
           arguments[k].socket \in Fds
    PROVE /\ arguments' \in [Clients -> [socket : Fds \cup {None}, err : Errnos,
                                         reconnect : BOOLEAN, nextInstance : BOOLEAN]]
          /\ link' \in [Fds -> LinkStates]
<1> DEFINE args == arguments[k]
           Arguments == [socket : Fds \cup {None}, err : Errnos,
                         reconnect : BOOLEAN, nextInstance : BOOLEAN]
<1>1. args \in Arguments /\ link \in [Fds -> LinkStates] /\ arguments \in [Clients -> Arguments]
  BY DEF ReactorType
<1>2. CASE Reconnect(k)
  <2> DEFINE fd == IF args.nextInstance THEN FreeFd(link) ELSE args.socket
             old == IF args.nextInstance THEN "new" ELSE link[args.socket]
  <2>1. PICK attempt \in Attempts(old) :
            /\ link' = [f \in Fds |-> IF f = fd THEN attempt[2]
                                      ELSE IF f = args.socket THEN "closed" ELSE link[f]]
            /\ arguments' = [arguments EXCEPT ![k] =
                   [socket |-> fd, err |-> attempt[1], reconnect |-> FALSE, nextInstance |-> FALSE]]
    BY <1>2 DEF Reconnect, Sets
  <2>2. fd \in Fds
    BY <1>2, FreeFdOK DEF Reconnect
  <2>3. attempt[1] \in Errnos /\ attempt[2] \in LinkStates
    BY AttemptsOK DEF LinkStates
  <2>4. link' \in [Fds -> LinkStates]
    BY <2>1, <2>3, <1>1 DEF LinkStates
  <2>5. [socket |-> fd, err |-> attempt[1], reconnect |-> FALSE, nextInstance |-> FALSE] \in Arguments
    BY <2>2, <2>3
  <2> HIDE DEF fd, old, Arguments
  <2> QED
    BY <2>1, <2>4, <2>5, <1>1 DEF Arguments
<1>3. CASE UNCHANGED link /\ Sets(k, Again(args))
  BY <1>1, <1>3 DEF Sets, Again
<1>4. CASE UNCHANGED link /\ Sets(k, [args EXCEPT !.err = "ENOTCONN", !.reconnect = TRUE])
  BY <1>1, <1>4 DEF Sets, Errnos
<1> QED
  BY <1>2, <1>3, <1>4 DEF Polls

\* Every step keeps the types.
LEMMA NextType ==
    ASSUME ReactorType, Handling, HeldByServers, HeldByClients, [Next]_vars
    PROVE ReactorType'
<1> USE DEF ReactorType
<1> DEFINE Arguments == [socket : Fds \cup {None}, err : Errnos,
                         reconnect : BOOLEAN, nextInstance : BOOLEAN]
<1>1. CASE UNCHANGED vars
  BY <1>1 DEF vars, contexts, events, connecting, network
<1>2. ASSUME NEW a \in Apps, PollInner(a) PROVE ReactorType'
  <2>1. evnetVectors' \in [Apps -> Seq(Contexts)]
    BY <1>2, PollAdds DEF PollInner
  <2> QED
    BY <2>1, <1>2, PlacesOK DEF PollInner, GoTo, contexts, connecting, network
<1>3. CASE PollOuter
  <2>1. evnetVectors' \in [Apps -> Seq(Contexts)]
    BY <1>3, PollAdds, ReactorAssumption DEF PollOuter, ReactorAssumption
  <2> QED
    BY <2>1, <1>3 DEF PollOuter, contexts, connecting, network
<1>4. ASSUME NEW a \in Apps, HandleEvents(a) PROVE ReactorType'
  BY <1>4, PlacesOK DEF HandleEvents, GoTo, contexts, connecting, network, AppPc
<1>5. ASSUME NEW a \in Apps, HandleEvent(a) PROVE ReactorType'
  <2> DEFINE c == Head(eventBuffer[a])
  <2>1. Tail(eventBuffer[a]) \in Seq(Contexts)
    BY <1>5 DEF HandleEvent, GoTo, Handling
  <2>2. status' \in [Contexts -> {"absent", "open", "closed"}]
    BY <1>5 DEF HandleEvent, Store!Close
  <2>3. pc' \in [Apps -> AppPc] /\ eventBuffer' \in [Apps -> Seq(Contexts)]
    BY <1>5, <2>1, PlacesOK DEF HandleEvent, GoTo, AppPc
  <2> QED
    BY <2>2, <2>3, <1>5 DEF HandleEvent, connecting, network
<1>6. ASSUME NEW a \in Apps, Loop(a) PROVE ReactorType'
  BY <1>6, PlacesOK DEF Loop, GoTo, contexts, events, connecting, network
<1>7. ASSUME NEW s \in Servers, Accept(s) PROVE ReactorType'
  <2>1. CASE backlog[s] = 0 \/ Free(link) = {}
    BY <2>1, <1>7 DEF Accept, GoTo, contexts, events, connecting, network, AppPc
  <2>2. CASE ~(backlog[s] = 0 \/ Free(link) = {})
    <3>1. FreeFd(link) \in Fds
      BY <2>2, FreeFdOK
    <3> QED
      BY <3>1, <2>2, <1>7 DEF Accept, GoTo, contexts, events, connecting, AppPc, LinkStates
  <2> QED
    BY <2>1, <2>2
<1>8. ASSUME NEW s \in Servers, AceeptResult(s) PROVE ReactorType'
  <2>1. s \in Apps /\ lastBuffered[s] \in Fds
    BY <1>8 DEF AceeptResult, GoTo, HeldByServers, Apps
  <2>2. Emplace(s, lastBuffered[s], link)
    BY <1>8 DEF AceeptResult
  <2> QED
    BY <2>1, <2>2, <1>8, EmplaceType DEF AceeptResult, Moved, GoTo, events, connecting, AppPc
<1>9. ASSUME NEW k \in Clients, ConnectTurn(k) PROVE ReactorType'
  <2>1. k \in Apps /\ arguments[k] # NoConnect /\ arguments[k].socket \in Fds
    BY <1>9 DEF ConnectTurn, HeldByClients, Apps
  <2>2. UNCHANGED <<evnetVectors, eventBuffer, lastBuffered>> /\ pc' \in [Apps -> AppPc]
    BY <1>9, <2>1, PlacesOK DEF ConnectTurn, GoTo, events
  <2>3. CASE Polls(k) /\ UNCHANGED contexts
    BY <2>1, <2>2, <2>3, PollsType DEF contexts
  <2>4. CASE Connected(k)
    <3>1. Emplace(k, arguments[k].socket, link) /\ Sets(k, NoConnect)
      BY <2>4 DEF Connected
    <3>2. NoConnect \in Arguments
      BY DEF NoConnect, Errnos
    <3> QED
      BY <3>1, <3>2, <2>1, <2>2, EmplaceType DEF Sets
  <2>5. CASE Cancelled(k) /\ UNCHANGED contexts
    BY <2>1, <2>2, <2>5 DEF Cancelled, Sets, NoConnect, Errnos, LinkStates, contexts
  <2> QED
    BY <1>9, <2>3, <2>4, <2>5 DEF ConnectTurn, contexts
<1>10. ASSUME NEW a \in Apps, Run(a) \/ Stop(a) PROVE ReactorType'
  BY <1>10, PlacesOK DEF Run, Stop, GoTo, contexts, events, connecting, network
<1>11. ASSUME NEW s \in Servers, Arrives(s) PROVE ReactorType'
  BY <1>11 DEF Arrives, contexts, events, connecting
<1>12. ASSUME NEW k \in Clients, Connect(k) PROVE ReactorType'
  <2>1. FreeFd(link) \in Fds
    BY <1>12, FreeFdOK DEF Connect
  <2>2. PICK attempt \in Attempts("new") :
            /\ link' = [link EXCEPT ![FreeFd(link)] = attempt[2]]
            /\ arguments' = [arguments EXCEPT ![k] =
                                [NoConnect EXCEPT !.socket = FreeFd(link), !.err = attempt[1]]]
    BY <1>12 DEF Connect
  <2>3. [NoConnect EXCEPT !.socket = FreeFd(link), !.err = attempt[1]] \in Arguments
    BY <2>1, AttemptsOK DEF NoConnect
  <2>4. link' \in [Fds -> LinkStates] /\ arguments' \in [Clients -> Arguments]
    BY <2>1, <2>2, <2>3, AttemptsOK DEF LinkStates
  <2> QED
    BY <2>4, <1>12 DEF Connect, contexts, events
<1>13. ASSUME NEW f \in Fds, Answers(f) PROVE ReactorType'
  BY <1>13 DEF Answers, contexts, events, LinkStates
<1> QED
  BY <1>1, <1>2, <1>3, <1>4, <1>5, <1>6, <1>7, <1>8, <1>9, <1>10, <1>11, <1>12, <1>13
     DEF Next, Thread, Batches

-----------------------------------------------------------------------------
(* The results of an app                                                   *)

\* An app handles results exactly while it has some, in every step.
LEMMA NextHandling ==
    ASSUME ReactorType, Handling, [Next]_vars
    PROVE Handling'
<1> USE DEF ReactorType, Handling
<1>1. CASE UNCHANGED vars
  BY <1>1 DEF vars, events
<1>2. CASE pc' = pc /\ UNCHANGED eventBuffer
  BY <1>2
<1>3. ASSUME NEW a \in Apps, NEW there \in AppPc \ {"handling"}, pc[a] # "handling",
             GoTo(a, pc[a], there), UNCHANGED eventBuffer
      PROVE Handling'
  BY <1>3 DEF GoTo
<1>4. ASSUME NEW a \in Apps, HandleEvents(a) PROVE Handling'
  BY <1>4 DEF HandleEvents, GoTo, Rest
<1>5. ASSUME NEW a \in Apps, HandleEvent(a) PROVE Handling'
  BY <1>5 DEF HandleEvent, GoTo, Rest
<1>6. ASSUME NEW a \in Apps, PollInner(a) \/ Loop(a) \/ Run(a) PROVE Handling'
  BY <1>6, <1>3, PlacesOK DEF PollInner, Loop, Run, GoTo, events
<1>7. ASSUME NEW s \in Servers, Accept(s) \/ AceeptResult(s) PROVE Handling'
  BY <1>7, <1>3 DEF Accept, AceeptResult, GoTo, events, AppPc, Apps
<1>8. ASSUME NEW k \in Clients, ConnectTurn(k) PROVE Handling'
  BY <1>8, <1>3, PlacesOK DEF ConnectTurn, GoTo, events, Apps
<1>9. ASSUME \/ PollOuter \/ \E a \in Apps : Stop(a)
             \/ \E s \in Servers : Arrives(s)
             \/ \E k \in Clients : Connect(k)
             \/ \E f \in Fds : Answers(f)
      PROVE Handling'
  BY <1>9, <1>2 DEF PollOuter, Stop, Arrives, Connect, Answers, events
<1> QED
  BY <1>1, <1>4, <1>5, <1>6, <1>7, <1>8, <1>9 DEF Next, Thread, Batches

\* Steps that neither add results, nor handle any, nor change a Context.
LEMMA ResultsAlone ==
    ASSUME ReactorType, ResultsInvariant, UNCHANGED <<status, owner, evnetVectors, eventBuffer>>,
           \A a \in Apps : pc'[a] = "handling" => pc[a] = "handling"
    PROVE ResultsInvariant'
  BY DEF ResultsInvariant, Emptied, WaitingOpen, HandledLive

\* An emplace() of an app that handles no results destroys no Context that a
\* result points to.
LEMMA EmplaceResults ==
    ASSUME ReactorType, Handling, ResultsInvariant, NEW a \in Apps, NEW fd, NEW there,
           there # "handling", pc[a] # "handling", GoTo(a, pc[a], there),
           Emplace(a, fd, link), UNCHANGED events
    PROVE ResultsInvariant'
<1> USE DEF ReactorType
<1> PICK c \in Contexts, gone \in SUBSET Contexts : Replaces(a, fd, c, gone)
  BY EmplaceReplaces
<1>1. evnetVectors' = evnetVectors /\ eventBuffer' = eventBuffer
  BY DEF events
<1>2. Emptied'
  BY <1>1 DEF ResultsInvariant, Emptied, GoTo
<1>3. ASSUME NEW b \in Apps, NEW d \in ToSet(evnetVectors[b])
      PROVE status'[d] = "open" /\ owner'[d] = b
  <2>1. d \in Contexts /\ status[d] = "open" /\ owner[d] = b
    BY ElementsOf DEF ResultsInvariant, WaitingOpen
  <2> QED
    BY <2>1 DEF Replaces
<1>4. ASSUME NEW b \in Apps, NEW d \in ToSet(eventBuffer[b])
      PROVE status'[d] # "absent" /\ owner'[d] = b
  <2>1. d \in Contexts /\ status[d] # "absent" /\ owner[d] = b
    BY ElementsOf DEF ResultsInvariant, HandledLive
  <2>2. b # a
    BY ElementsNone DEF Handling
  <2> QED
    BY <2>1, <2>2 DEF Replaces
<1> QED
  BY <1>1, <1>2, <1>3, <1>4 DEF ResultsInvariant, WaitingOpen, HandledLive

\* A poll for apps that handle no results.
LEMMA PollResults ==
    ASSUME ReactorType, ResultsInvariant, NEW as, as \subseteq Apps, Poll(as),
           UNCHANGED <<status, owner, eventBuffer>>,
           \A a \in as : pc[a] # "handling",
           \A a \in Apps : pc'[a] = "handling" => pc[a] = "handling"
    PROVE ResultsInvariant'
<1>1. /\ \A a \in Apps \ as : evnetVectors'[a] = evnetVectors[a]
      /\ \A a \in Apps : \A c \in ToSet(evnetVectors'[a]) \ ToSet(evnetVectors[a]) :
            status[c] = "open" /\ owner[c] = a
  BY PollAdds
<1>2. Emptied'
  BY <1>1 DEF ResultsInvariant, Emptied
<1>3. WaitingOpen'
  BY <1>1 DEF ResultsInvariant, WaitingOpen
<1>4. HandledLive'
  BY DEF ResultsInvariant, HandledLive
<1> QED
  BY <1>2, <1>3, <1>4 DEF ResultsInvariant

\* Without a thread that only polls, every step keeps what results point to.
LEMMA NextResults ==
    ASSUME ~PollerThread, ReactorType, Handling, ResultsInvariant, [Next]_vars
    PROVE ResultsInvariant'
<1> USE DEF ReactorType
<1>1. CASE UNCHANGED vars
  BY <1>1, ResultsAlone DEF vars, contexts, events
<1>2. ASSUME NEW a \in Apps, PollInner(a) PROVE ResultsInvariant'
  <2>1. Poll({a}) /\ UNCHANGED <<status, owner, eventBuffer>> /\ pc[a] # "handling"
    BY <1>2 DEF PollInner, GoTo, contexts
  <2>2. \A b \in Apps : pc'[b] = "handling" => pc[b] = "handling"
    BY <1>2, PlacesOK DEF PollInner, GoTo
  <2> QED
    BY <2>1, <2>2, PollResults
<1>3. CASE PollOuter
  <2>1. Poll(Outer) /\ Outer \subseteq Apps /\ UNCHANGED <<status, owner, eventBuffer, pc>>
    BY <1>3, ReactorAssumption DEF PollOuter, ReactorAssumption, contexts
  <2>2. \A a \in Outer : pc[a] # "handling"
    BY <1>3, <2>1, PlacesOK DEF PollOuter
  <2> QED
    BY <2>1, <2>2, PollResults
<1>4. ASSUME NEW a \in Apps, HandleEvents(a) PROVE ResultsInvariant'
  <2>1. /\ eventBuffer' = [eventBuffer EXCEPT ![a] = evnetVectors[a]]
        /\ evnetVectors' = [evnetVectors EXCEPT ![a] = <<>>]
        /\ status' = status /\ owner' = owner
        /\ \A b \in Apps \ {a} : pc'[b] = pc[b]
    BY <1>4 DEF HandleEvents, GoTo, contexts
  <2>2. Emptied'
    BY <2>1 DEF ResultsInvariant, Emptied
  <2>3. WaitingOpen'
    BY <2>1, ElementsNone DEF ResultsInvariant, WaitingOpen
  <2>4. HandledLive'
    BY <2>1 DEF ResultsInvariant, WaitingOpen, HandledLive
  <2> QED
    BY <2>2, <2>3, <2>4 DEF ResultsInvariant
<1>5. ASSUME NEW a \in Apps, HandleEvent(a) PROVE ResultsInvariant'
  <2> DEFINE c == Head(eventBuffer[a])
  <2>1. /\ pc[a] = "handling" /\ eventBuffer[a] # <<>> /\ evnetVectors[a] = <<>>
        /\ owner' = owner /\ evnetVectors' = evnetVectors
        /\ eventBuffer' = [eventBuffer EXCEPT ![a] = Tail(@)]
        /\ UNCHANGED status \/ Store!Close(c)
        /\ \A b \in Apps \ {a} : pc'[b] = pc[b]
    BY <1>5 DEF HandleEvent, GoTo, Handling, ResultsInvariant, Emptied
  <2>2. c \in Contexts /\ c \in ToSet(eventBuffer[a]) /\ owner[c] = a
    <3>1. c \in ToSet(eventBuffer[a])
      BY <2>1, ElementsTail
    <3> QED
      BY <3>1, ElementsOf DEF ResultsInvariant, HandledLive
  <2>3. /\ status' \in [Contexts -> {"absent", "open", "closed"}]
        /\ \A d \in Contexts : status'[d] = status[d] \/ (d = c /\ status'[d] = "closed")
    BY <2>1, <2>2 DEF Store!Close
  <2> HIDE DEF c
  <2>4. Emptied'
    BY <2>1 DEF ResultsInvariant, Emptied
  <2>5. ASSUME NEW b \in Apps, NEW d \in ToSet(evnetVectors'[b])
        PROVE status'[d] = "open" /\ owner'[d] = b
    <3>1. d \in Contexts /\ status[d] = "open" /\ owner[d] = b /\ b # a
      BY <2>1, ElementsOf, ElementsNone DEF ResultsInvariant, WaitingOpen
    <3> QED
      BY <3>1, <2>1, <2>2, <2>3
  <2>6. ASSUME NEW b \in Apps, NEW d \in ToSet(eventBuffer'[b])
        PROVE status'[d] # "absent" /\ owner'[d] = b
    <3>1. d \in ToSet(eventBuffer[b])
      BY <2>1, ElementsTail
    <3>2. d \in Contexts /\ status[d] # "absent" /\ owner[d] = b
      BY <3>1, ElementsOf DEF ResultsInvariant, HandledLive
    <3> QED
      BY <3>2, <2>1, <2>3
  <2> QED
    BY <2>4, <2>5, <2>6 DEF ResultsInvariant, WaitingOpen, HandledLive
<1>6. ASSUME NEW s \in Servers, AceeptResult(s) PROVE ResultsInvariant'
  BY <1>6, EmplaceResults DEF AceeptResult, GoTo, Apps
<1>7. ASSUME NEW s \in Servers, Accept(s) PROVE ResultsInvariant'
  BY <1>7, ResultsAlone DEF Accept, GoTo, contexts, events
<1>8. ASSUME NEW k \in Clients, ConnectTurn(k) PROVE ResultsInvariant'
  <2>1. k \in Apps /\ GoTo(k, "loop", Tests(k)) /\ UNCHANGED events
    BY <1>8 DEF ConnectTurn, Apps
  <2>2. CASE Connected(k)
    BY <2>1, <2>2, PlacesOK, EmplaceResults DEF Connected, GoTo
  <2>3. CASE UNCHANGED contexts
    BY <2>1, <2>3, PlacesOK, ResultsAlone DEF GoTo, contexts, events
  <2> QED
    BY <1>8, <2>2, <2>3 DEF ConnectTurn
<1>9. ASSUME NEW a \in Apps, Loop(a) \/ Run(a) \/ Stop(a) PROVE ResultsInvariant'
  BY <1>9, PlacesOK, ResultsAlone DEF Loop, Run, Stop, GoTo, contexts, events
<1>10. ASSUME \/ \E s \in Servers : Arrives(s)
              \/ \E k \in Clients : Connect(k)
              \/ \E f \in Fds : Answers(f)
       PROVE ResultsInvariant'
  BY <1>10, ResultsAlone DEF Arrives, Connect, Answers, contexts, events
<1> QED
  BY <1>1, <1>2, <1>3, <1>4, <1>5, <1>6, <1>7, <1>8, <1>9, <1>10 DEF Next, Thread, Batches

-----------------------------------------------------------------------------
(* The sockets                                                             *)

Holding == HeldByContexts /\ HeldByServers /\ HeldByClients /\ OpenIsHeld /\ HeldOnce

\* An emplace() moves fd into a Context from the one that held it.
LEMMA EmplaceHolding ==
    ASSUME ReactorType, Holding, NEW a \in Apps, NEW fd \in Fds, link[fd] = "connected",
           Emplace(a, fd, link), \A d \in Contexts : socket[d] # fd,
           \A t \in Servers :
              /\ pc'[t] = "accepted" <=> pc[t] = "accepted" /\ lastBuffered[t] # fd
              /\ lastBuffered'[t] = IF lastBuffered[t] = fd THEN None ELSE lastBuffered[t],
           \A m \in Clients :
              arguments'[m] = IF arguments[m].socket = fd THEN NoConnect ELSE arguments[m]
    PROVE Holding'
<1> USE DEF ReactorType, Holding
<1>2. PICK c \in Contexts, gone \in SUBSET Contexts : Replaces(a, fd, c, gone)
  BY EmplaceReplaces
<1>3. None \notin Fds /\ NoConnect.socket = None
  BY ReactorAssumption DEF ReactorAssumption, NoConnect
<1>4. socket[c] = None /\ c \notin gone
  BY <1>2 DEF Replaces, HeldByContexts
<1> USE <1>2, <1>3, <1>4
<1>6. \A f \in Fds : (\A d \in gone : socket[d] # f) => link'[f] = link[f]
  BY DEF Replaces
<1>7. HeldByContexts'
  <2> SUFFICES ASSUME NEW d \in Contexts
               PROVE IF status'[d] = "absent" THEN socket'[d] = None
                     ELSE socket'[d] \in Fds /\ link'[socket'[d]] = "connected"
    BY DEF HeldByContexts
  <2>1. CASE d = c
    BY <2>1, <1>6 DEF Replaces
  <2>2. CASE d \in gone
    BY <2>2 DEF Replaces
  <2>3. CASE d # c /\ d \notin gone
    BY <2>3, <1>6 DEF Replaces, HeldByContexts, HeldOnce
  <2> QED
    BY <2>1, <2>2, <2>3
<1>8. HeldByServers'
  BY <1>6 DEF HeldByServers, HeldOnce
<1>9. HeldByClients'
  <2> SUFFICES ASSUME NEW m \in Clients, arguments[m].socket # fd
               PROVE IF arguments[m].socket = None THEN arguments[m] = NoConnect
                     ELSE arguments[m].err = "0" => link'[arguments[m].socket] = "connected"
    <3>1. \A m \in Clients : arguments[m].socket = fd => arguments'[m] = NoConnect
      OBVIOUS
    <3>2. \A m \in Clients : arguments[m].socket # fd => arguments'[m] = arguments[m]
      OBVIOUS
    <3> HIDE DEF NoConnect
    <3> QED
      BY <3>1, <3>2 DEF HeldByClients
  <2> QED
    BY <1>6 DEF HeldByClients, HeldOnce
<1>5. /\ \A d \in Contexts : socket'[d] = IF d = c THEN fd ELSE IF d \in gone THEN None ELSE socket[d]
      /\ \A m \in Clients :
            arguments'[m].socket = IF arguments[m].socket = fd THEN None ELSE arguments[m].socket
  BY DEF Replaces
<1>10. HeldOnce'
  BY <1>5 DEF HeldOnce
<1>11. OpenIsHeld'
  <2> DEFINE Held(f) == \/ \E d \in Contexts : socket[d] = f
                        \/ \E t \in Servers : lastBuffered[t] = f
                        \/ \E k \in Clients : arguments[k].socket = f
  <2> SUFFICES ASSUME NEW f \in Fds PROVE link'[f] # "closed" <=> Held(f)'
    BY DEF OpenIsHeld
  <2>1. CASE f = fd
    BY <2>1, <1>6, <1>5
  <2>2. CASE \E d \in gone : socket[d] = f
    <3>1. link'[f] = "closed"
      BY <2>2 DEF Replaces
    <3>2. \A d \in Contexts : socket'[d] # f
      BY <2>2, <1>5 DEF HeldOnce
    <3>3. \A t \in Servers : lastBuffered'[t] # f
      <4>1. \A t \in Servers : lastBuffered[t] # f
        BY <2>2 DEF HeldOnce
      <4> QED
        BY <4>1
    <3>4. \A m \in Clients : arguments'[m].socket # f
      BY <2>2, <1>5 DEF HeldOnce
    <3> QED
      BY <3>1, <3>2, <3>3, <3>4
  <2>3. CASE f # fd /\ \A d \in gone : socket[d] # f
    <3>1. link'[f] = link[f]
      BY <2>3, <1>6
    <3>2. (\E t \in Servers : lastBuffered'[t] = f) <=> \E t \in Servers : lastBuffered[t] = f
      BY <2>3
    <3>4. (\E k \in Clients : arguments'[k].socket = f) <=> \E k \in Clients : arguments[k].socket = f
      BY <2>3, <1>5
    <3>3. (\E d \in Contexts : socket'[d] = f) <=> \E d \in Contexts : socket[d] = f
      <4>1. ASSUME NEW d \in Contexts PROVE socket'[d] = f <=> socket[d] = f
        BY <2>3, <1>5
      <4> QED
        BY ONLY <4>1
    <3>5. link[f] # "closed" <=> Held(f)
      BY DEF OpenIsHeld
    <3> QED
      BY <3>1, <3>2, <3>3, <3>4, <3>5
  <2> QED
    BY <2>1, <2>2, <2>3
<1> QED
  BY <1>7, <1>8, <1>9, <1>10, <1>11

\* The accepted descriptor moves into a Context.
LEMMA AceeptHolding ==
    ASSUME ReactorType, Holding, NEW s \in Servers, AceeptResult(s)
    PROVE Holding'
<1> USE DEF ReactorType, Holding
<1> DEFINE fd == lastBuffered[s]
<1>1. /\ s \in Apps /\ fd \in Fds /\ link[fd] = "connected" /\ Emplace(s, fd, link)
      /\ pc' = [pc EXCEPT ![s] = "events"]
      /\ lastBuffered' = [lastBuffered EXCEPT ![s] = None]
      /\ arguments' = arguments
  BY DEF AceeptResult, GoTo, Moved, HeldByServers, connecting, Apps
<1>2. None \notin Fds
  BY ReactorAssumption DEF ReactorAssumption
<1>3. \A d \in Contexts : socket[d] # fd
  BY <1>1, <1>2 DEF HeldOnce
<1>4. \A t \in Servers :
        /\ pc'[t] = "accepted" <=> pc[t] = "accepted" /\ lastBuffered[t] # fd
        /\ lastBuffered'[t] = IF lastBuffered[t] = fd THEN None ELSE lastBuffered[t]
  BY <1>1, <1>2 DEF HeldOnce, HeldByServers, Apps
<1>5. \A m \in Clients :
        arguments'[m] = IF arguments[m].socket = fd THEN NoConnect ELSE arguments[m]
  BY <1>1, <1>2 DEF HeldOnce
<1> HIDE DEF fd
<1> QED
  BY <1>1, <1>3, <1>4, <1>5, EmplaceHolding

\* The connected descriptor moves into a Context.
LEMMA ConnectedHolding ==
    ASSUME ReactorType, Holding, NEW k \in Clients, Connected(k), arguments[k] # NoConnect,
           UNCHANGED lastBuffered, GoTo(k, "loop", Tests(k))
    PROVE Holding'
<1> USE DEF ReactorType, Holding
<1> DEFINE fd == arguments[k].socket
<1>1. /\ k \in Apps /\ fd \in Fds /\ link[fd] = "connected" /\ Emplace(k, fd, link)
      /\ pc' = [pc EXCEPT ![k] = Tests(k)]
      /\ arguments' = [arguments EXCEPT ![k] = NoConnect]
      /\ lastBuffered' = lastBuffered
  BY DEF Connected, GoTo, Sets, HeldByClients, Apps, testFailed
<1>2. None \notin Fds
  BY ReactorAssumption DEF ReactorAssumption
<1>3. \A d \in Contexts : socket[d] # fd
  BY <1>1, <1>2 DEF HeldOnce
<1>4. \A t \in Servers :
        /\ pc'[t] = "accepted" <=> pc[t] = "accepted" /\ lastBuffered[t] # fd
        /\ lastBuffered'[t] = IF lastBuffered[t] = fd THEN None ELSE lastBuffered[t]
  <2> TAKE t \in Servers
  <2>1. lastBuffered[t] # fd
    BY <1>1, <1>2 DEF HeldOnce
  <2>2. t # k
    BY ReactorAssumption DEF ReactorAssumption
  <2> QED
    BY <1>1, <2>1, <2>2 DEF Apps
<1>5. \A m \in Clients :
        arguments'[m] = IF arguments[m].socket = fd THEN NoConnect ELSE arguments[m]
  BY <1>1, <1>2 DEF HeldOnce
<1> HIDE DEF fd
<1> QED
  BY <1>1, <1>3, <1>4, <1>5, EmplaceHolding

\* Client k goes from the descriptor it held, if any, to fd, which was its own or
\* was free; none is left open and nobody else is concerned.
LEMMA ArgumentsHolding ==
    ASSUME ReactorType, Holding, NEW k \in Clients, NEW args, NEW states \in [Fds -> LinkStates],
           arguments' = [arguments EXCEPT ![k] = args],
           args.socket \in Fds => /\ args.socket = arguments[k].socket \/ link[args.socket] = "closed"
                                  /\ states[args.socket] # "closed"
                                  /\ args.err = "0" => states[args.socket] = "connected",
           args.socket \notin Fds => args = NoConnect,
           arguments[k].socket \in Fds /\ arguments[k].socket # args.socket
                => states[arguments[k].socket] = "closed",
           \A f \in Fds \ {args.socket, arguments[k].socket} : states[f] = link[f],
           link' = states,
           UNCHANGED <<status, socket, lastBuffered>>,
           \A t \in Servers : pc'[t] = "accepted" <=> pc[t] = "accepted"
    PROVE Holding'
<1> USE DEF ReactorType, Holding
<1>1. None \notin Fds /\ NoConnect.socket = None
  BY ReactorAssumption DEF ReactorAssumption, NoConnect
<1>2. /\ \A d \in Contexts : socket[d] \in Fds =>
            socket[d] # args.socket /\ socket[d] # arguments[k].socket
      /\ \A t \in Servers : lastBuffered[t] \in Fds =>
            lastBuffered[t] # args.socket /\ lastBuffered[t] # arguments[k].socket
      /\ \A m \in Clients \ {k} : arguments[m].socket \in Fds =>
            arguments[m].socket # args.socket /\ arguments[m].socket # arguments[k].socket
  BY <1>1 DEF HeldOnce, OpenIsHeld
<1>3. HeldByContexts'
  BY <1>1, <1>2 DEF HeldByContexts
<1>4. HeldByServers'
  BY <1>1, <1>2 DEF HeldByServers
<1>5. HeldByClients'
  BY <1>1, <1>2 DEF HeldByClients
<1>6. HeldOnce'
  BY <1>1, <1>2 DEF HeldOnce
<1>7. OpenIsHeld'
  <2> DEFINE Held(f) == \/ \E d \in Contexts : socket[d] = f
                        \/ \E t \in Servers : lastBuffered[t] = f
                        \/ \E m \in Clients : arguments[m].socket = f
  <2> SUFFICES ASSUME NEW f \in Fds PROVE states[f] # "closed" <=> Held(f)'
    BY DEF OpenIsHeld
  <2>1. CASE f = args.socket
    <3>1. arguments'[k].socket = f
      BY <2>1
    <3> QED
      BY <2>1, <3>1
  <2>2. CASE f # args.socket /\ f = arguments[k].socket
    <3>1. /\ \A d \in Contexts : socket'[d] # f
          /\ \A t \in Servers : lastBuffered'[t] # f
          /\ \A m \in Clients : arguments'[m].socket # f
      BY <2>2, <1>2
    <3> QED
      BY <2>2, <3>1
  <2>3. CASE f # args.socket /\ f # arguments[k].socket
    <3>1. \A m \in Clients : arguments'[m].socket = f <=> arguments[m].socket = f
      BY <2>3
    <3>2. link[f] # "closed" <=> Held(f)
      BY DEF OpenIsHeld
    <3> QED
      BY <2>3, <3>1, <3>2
  <2> QED
    BY <2>1, <2>2, <2>3
<1> QED
  BY <1>3, <1>4, <1>5, <1>6, <1>7

\* A connect that is not through goes on, with its descriptor or a new one.
LEMMA PollsHolding ==
    ASSUME ReactorType, ReactorType', Holding, NEW k \in Clients, Polls(k),
           arguments[k] # NoConnect, UNCHANGED <<status, socket, lastBuffered>>,
           \A t \in Servers : pc'[t] = "accepted" <=> pc[t] = "accepted"
    PROVE Holding'
<1> DEFINE args == arguments[k]
<1>1. args.socket \in Fds /\ link[args.socket] # "closed" /\ link' \in [Fds -> LinkStates]
  BY DEF ReactorType, Holding, HeldByClients, OpenIsHeld
<1>2. CASE Reconnect(k)
  <2> DEFINE fd == IF args.nextInstance THEN FreeFd(link) ELSE args.socket
             old == IF args.nextInstance THEN "new" ELSE link[args.socket]
             new(attempt) == [socket |-> fd, err |-> attempt[1], reconnect |-> FALSE,
                              nextInstance |-> FALSE]
  <2>1. PICK attempt \in Attempts(old) :
            /\ link' = [f \in Fds |-> IF f = fd THEN attempt[2]
                                      ELSE IF f = args.socket THEN "closed" ELSE link[f]]
            /\ arguments' = [arguments EXCEPT ![k] = new(attempt)]
    BY <1>2 DEF Reconnect, Sets
  <2>2. fd \in Fds /\ (fd = args.socket \/ link[fd] = "closed")
    BY <1>1, <1>2, FreeFdOK DEF Reconnect
  <2>3. /\ attempt[2] # "closed"
        /\ attempt[1] = "0" => attempt[2] = "connected"
        /\ new(attempt).socket = fd /\ new(attempt).err = attempt[1]
    BY AttemptsOK
  <2> HIDE DEF fd, new, old
  <2> QED
    BY <1>1, <2>1, <2>2, <2>3, ArgumentsHolding
<1>3. CASE UNCHANGED link /\ args.err \in NextInstance /\ Sets(k, Again(args))
  <2>1. /\ Again(args).socket = args.socket /\ Again(args).err # "0"
        /\ arguments' = [arguments EXCEPT ![k] = Again(args)]
    BY <1>3 DEF ReactorType, Again, NextInstance, Sets
  <2> QED
    BY <1>1, <1>3, <2>1, ArgumentsHolding
<1>4. CASE UNCHANGED link /\ Sets(k, [args EXCEPT !.err = "ENOTCONN", !.reconnect = TRUE])
  <2> DEFINE new == [args EXCEPT !.err = "ENOTCONN", !.reconnect = TRUE]
  <2>1. /\ new.socket = args.socket /\ new.err # "0"
        /\ arguments' = [arguments EXCEPT ![k] = new]
    BY <1>4 DEF ReactorType, Sets
  <2> HIDE DEF new
  <2> QED
    BY <1>1, <1>4, <2>1, ArgumentsHolding
<1> QED
  BY <1>2, <1>3, <1>4 DEF Polls

\* Steps that leave every Socket where it is.
LEMMA HoldingAlone ==
    ASSUME ReactorType, Holding, UNCHANGED <<status, socket, lastBuffered, arguments>>,
           \A f \in Fds : \/ link'[f] = link[f]
                          \/ link[f] = "connecting" /\ link'[f] # "closed",
           \A t \in Servers : pc'[t] = "accepted" <=> pc[t] = "accepted"
    PROVE Holding'
<1>1. HeldByContexts' /\ HeldByServers' /\ HeldByClients'
  BY DEF ReactorType, Holding, HeldByContexts, HeldByServers, HeldByClients
<1>2. OpenIsHeld' /\ HeldOnce'
  BY DEF Holding, OpenIsHeld, HeldOnce
<1> QED
  BY <1>1, <1>2 DEF Holding

\* accept4() gives server s a free descriptor.
LEMMA AcceptHolding ==
    ASSUME ReactorType, Holding, NEW s \in Servers, Accept(s), Free(link) # {}, backlog[s] # 0
    PROVE Holding'
<1> USE DEF ReactorType, Holding
<1> DEFINE fd == FreeFd(link)
<1>1. fd \in Fds /\ link[fd] = "closed"
  BY FreeFdOK
<1>2. /\ pc[s] = "accept" /\ pc' = [pc EXCEPT ![s] = "accepted"] /\ s \in Apps
      /\ lastBuffered' = [lastBuffered EXCEPT ![s] = fd]
      /\ link' = [link EXCEPT ![fd] = "connected"]
      /\ UNCHANGED <<status, socket, arguments>>
  BY DEF Accept, GoTo, contexts, connecting, Apps
<1>3. /\ None \notin Fds /\ lastBuffered[s] = None
  BY <1>2, ReactorAssumption DEF ReactorAssumption, HeldByServers
<1>4. /\ \A d \in Contexts : socket[d] # fd
      /\ \A t \in Servers : lastBuffered[t] # fd
      /\ \A m \in Clients : arguments[m].socket # fd
  BY <1>1 DEF OpenIsHeld
<1> HIDE DEF fd
<1>5. HeldByContexts' /\ HeldByServers' /\ HeldByClients'
  BY <1>1, <1>2, <1>3, <1>4 DEF HeldByContexts, HeldByServers, HeldByClients, Apps
<1>6. HeldOnce'
  BY <1>1, <1>2, <1>3, <1>4 DEF HeldOnce
<1>7. OpenIsHeld'
  BY <1>1, <1>2, <1>3, <1>4 DEF OpenIsHeld
<1> QED
  BY <1>5, <1>6, <1>7

\* Every step keeps who holds what.
LEMMA NextHolding ==
    ASSUME ReactorType, ReactorType', Holding, [Next]_vars
    PROVE Holding'
<1> DEFINE Keeps == \A t \in Servers : pc'[t] = "accepted" <=> pc[t] = "accepted"
<1>1. ASSUME UNCHANGED <<status, socket, lastBuffered, arguments, link>>, Keeps PROVE Holding'
  <2>1. UNCHANGED <<status, socket, lastBuffered, arguments>> /\ \A f \in Fds : link'[f] = link[f]
    BY <1>1
  <2> QED
    BY ONLY ReactorType, Holding, <1>1, <2>1, HoldingAlone
<1>2. ASSUME NEW a \in Apps, NEW there \in AppPc \ {"accepted"}, pc[a] # "accepted",
             GoTo(a, pc[a], there)
      PROVE Keeps
  BY <1>2 DEF ReactorType, GoTo, Apps
<1>3. CASE UNCHANGED vars
  BY <1>1, <1>3 DEF vars, contexts, connecting, network
<1>4. ASSUME NEW a \in Apps, PollInner(a) \/ Loop(a) \/ Run(a) \/ HandleEvents(a)
      PROVE Holding'
  <2>1. UNCHANGED <<status, socket, lastBuffered, arguments, link>>
    BY <1>4 DEF PollInner, Loop, Run, HandleEvents, contexts, connecting, network
  <2>2. \E there \in AppPc \ {"accepted"} : pc[a] # "accepted" /\ GoTo(a, pc[a], there)
    BY <1>4, PlacesOK DEF PollInner, Loop, Run, HandleEvents, GoTo, AppPc
  <2> QED
    BY <2>1, <2>2, <1>1, <1>2
<1>5. ASSUME NEW a \in Apps, HandleEvent(a) PROVE Holding'
  <2>1. UNCHANGED <<socket, lastBuffered, arguments, link>>
    BY <1>5 DEF HandleEvent, connecting, network
  <2>2. \A c \in Contexts : status'[c] = "absent" <=> status[c] = "absent"
    BY <1>5 DEF ReactorType, HandleEvent, Store!Close
  <2>3. Keeps
    BY <1>5, <1>2, PlacesOK DEF HandleEvent, GoTo, AppPc
  <2>4. HeldByContexts' /\ HeldByServers' /\ HeldByClients'
    BY <2>1, <2>2, <2>3 DEF Holding, HeldByContexts, HeldByServers, HeldByClients
  <2> QED
    BY <2>1, <2>4 DEF Holding, OpenIsHeld, HeldOnce
<1>6. ASSUME \/ PollOuter \/ \E a \in Apps : Stop(a)
             \/ \E t \in Servers : Arrives(t)
      PROVE Holding'
  BY <1>6, <1>1 DEF PollOuter, Stop, Arrives, contexts, connecting, network
<1>7. ASSUME NEW s \in Servers, Accept(s) PROVE Holding'
  <2>1. CASE backlog[s] = 0 \/ Free(link) = {}
    <3>1. GoTo(s, "accept", "events") /\ UNCHANGED <<status, socket, lastBuffered, arguments, link>>
      BY <1>7, <2>1 DEF Accept, contexts, connecting, network
    <3> QED
      BY <3>1, <1>1, <1>2 DEF GoTo, AppPc, Apps
  <2> QED
    BY <1>7, <2>1, AcceptHolding
<1>8. ASSUME NEW s \in Servers, AceeptResult(s) PROVE Holding'
  BY <1>8, AceeptHolding
<1>9. ASSUME NEW k \in Clients, ConnectTurn(k) PROVE Holding'
  <2>1. /\ k \in Apps /\ GoTo(k, "loop", Tests(k)) /\ arguments[k] # NoConnect
        /\ lastBuffered' = lastBuffered
    BY <1>9 DEF ConnectTurn, Apps
  <2>2. Keeps
    BY <2>1, <1>2, PlacesOK DEF GoTo
  <2>3. CASE Polls(k) /\ UNCHANGED contexts
    BY <2>1, <2>2, <2>3, PollsHolding DEF contexts
  <2>4. CASE Connected(k)
    BY <2>1, <2>4, ConnectedHolding
  <2>5. CASE Cancelled(k) /\ UNCHANGED contexts
    <3>1. /\ link' = [link EXCEPT ![arguments[k].socket] = "closed"]
          /\ arguments' = [arguments EXCEPT ![k] = NoConnect]
          /\ UNCHANGED <<status, socket>> /\ link' \in [Fds -> LinkStates]
      BY <2>5 DEF ReactorType, Cancelled, Sets, contexts
    <3>2. link \in [Fds -> LinkStates] /\ NoConnect.socket = None /\ None \notin Fds
      BY ReactorAssumption DEF ReactorType, ReactorAssumption, NoConnect
    <3> QED
      BY <2>1, <2>2, <3>1, <3>2, ArgumentsHolding
  <2> QED
    BY <1>9, <2>3, <2>4, <2>5 DEF ConnectTurn, contexts
<1>10. ASSUME NEW k \in Clients, Connect(k) PROVE Holding'
  <2> DEFINE new(attempt) == [NoConnect EXCEPT !.socket = FreeFd(link), !.err = attempt[1]]
  <2>1. PICK attempt \in Attempts("new") :
            /\ link' = [link EXCEPT ![FreeFd(link)] = attempt[2]]
            /\ arguments' = [arguments EXCEPT ![k] = new(attempt)]
    BY <1>10 DEF Connect
  <2>2. /\ FreeFd(link) \in Fds /\ link[FreeFd(link)] = "closed"
        /\ link \in [Fds -> LinkStates] /\ link' \in [Fds -> LinkStates]
    BY <1>10, FreeFdOK DEF Connect, ReactorType
  <2>3. /\ new(attempt).socket = FreeFd(link) /\ new(attempt).err = attempt[1]
        /\ attempt[2] # "closed" /\ (attempt[1] = "0" => attempt[2] = "connected")
    BY AttemptsOK DEF NoConnect
  <2>4. /\ UNCHANGED <<status, socket, lastBuffered, pc>>
        /\ arguments[k].socket \notin Fds
    BY <1>10, ReactorAssumption DEF Connect, contexts, NoConnect, ReactorAssumption
  <2>5. /\ \A t \in Servers : pc'[t] = "accepted" <=> pc[t] = "accepted"
        /\ new(attempt).socket \in Fds
        /\ link'[FreeFd(link)] = attempt[2]
        /\ \A f \in Fds \ {FreeFd(link)} : link'[f] = link[f]
    BY <2>1, <2>2, <2>3, <2>4
  <2> HIDE DEF new
  <2> QED
    BY <2>1, <2>2, <2>3, <2>4, <2>5, ArgumentsHolding
<1>11. ASSUME NEW f \in Fds, Answers(f) PROVE Holding'
  <2>1. UNCHANGED <<status, socket, lastBuffered, arguments>> /\ pc' = pc
    BY <1>11 DEF Answers, contexts
  <2>2. \A g \in Fds : \/ link'[g] = link[g]
                       \/ link[g] = "connecting" /\ link'[g] # "closed"
    BY <1>11 DEF Answers, ReactorType
  <2> QED
    BY ONLY ReactorType, Holding, <2>1, <2>2, HoldingAlone
<1> QED
  BY <1>3, <1>4, <1>5, <1>6, <1>7, <1>8, <1>9, <1>10, <1>11 DEF Next, Thread, Batches

-----------------------------------------------------------------------------
(* Theorems                                                                *)

\* No descriptor is open at first.
LEMMA InitSockets == Init => SocketInvariant
<1> SUFFICES ASSUME Init PROVE SocketInvariant
  OBVIOUS
<1>1. None \notin Fds /\ NoConnect.socket = None
  BY ReactorAssumption DEF ReactorAssumption, NoConnect
<1>2. Handling
  BY DEF Init, Handling
<1>3. HeldByContexts /\ HeldByServers /\ HeldByClients
  BY <1>1 DEF Init, Store!SInit, HeldByContexts, HeldByServers, HeldByClients, Apps
<1>4. OpenIsHeld /\ HeldOnce
  BY <1>1 DEF Init, OpenIsHeld, HeldOnce
<1> QED
  BY <1>2, <1>3, <1>4, InitType DEF SocketInvariant

\* Every step keeps the invariant of the sockets.
LEMMA NextSockets ==
    ASSUME SocketInvariant, [Next]_vars
    PROVE SocketInvariant'
<1>1. ReactorType'
  BY NextType DEF SocketInvariant
<1>2. Handling'
  BY NextHandling DEF SocketInvariant
<1>3. Holding'
  BY <1>1, NextHolding DEF SocketInvariant, Holding
<1> QED
  BY <1>1, <1>2, <1>3 DEF SocketInvariant, Holding

\* Every reachable state has its types and satisfies the invariant about sockets.
THEOREM SocketTheorem == Spec => []SocketInvariant
  BY InitSockets, NextSockets, PTL DEF Spec

\* Server, Client, Acceptor, Connector and Pool: every reachable state is well typed.
THEOREM TypeTheorem == Spec => []ReactorType
<1>1. SocketInvariant => ReactorType
  BY DEF SocketInvariant
<1> QED
  BY <1>1, SocketTheorem, PTL

\* Socket's moves between Acceptor, Connector and Pool: an open descriptor always
\* has exactly one owner, and a Context exists only over a connection.
THEOREM SocketsHeldTheorem == Spec => []SocketsHeld
<1>1. ASSUME SocketInvariant PROVE SocketsHeld
  <2> USE <1>1 DEF SocketInvariant
  <2> DEFINE C(c) == [c |-> c]
             S(s) == [s |-> s]
             K(k) == [k |-> k]
  <2>1. /\ \A c \in Contexts : C(c) \in Holders /\ Holds(C(c)) = socket[c]
        /\ \A s \in Servers : S(s) \in Holders /\ Holds(S(s)) = lastBuffered[s]
        /\ \A k \in Clients : K(k) \in Holders /\ Holds(K(k)) = arguments[k].socket
    BY DEF Holders, Holds
  <2>2. \A h \in Holders : \/ \E c \in Contexts : h = C(c)
                           \/ \E s \in Servers : h = S(s)
                           \/ \E k \in Clients : h = K(k)
    <3> TAKE h \in Holders
    <3>1. CASE h \in [c : Contexts]
      BY <3>1
    <3>2. CASE h \in [s : Servers]
      BY <3>2
    <3>3. CASE h \in [k : Clients]
      BY <3>3
    <3> QED
      BY <3>1, <3>2, <3>3 DEF Holders
  <2> HIDE DEF C, S, K
  <2>3. \A f \in Fds : (link[f] # "closed") <=> \E h \in Holders : Holds(h) = f
    <3> SUFFICES ASSUME NEW f \in Fds
                 PROVE (link[f] # "closed") <=> \E h \in Holders : Holds(h) = f
      OBVIOUS
    <3>1. (\E h \in Holders : Holds(h) = f) <=> \/ \E c \in Contexts : socket[c] = f
                                                \/ \E s \in Servers : lastBuffered[s] = f
                                                \/ \E k \in Clients : arguments[k].socket = f
      BY <2>1, <2>2
    <3>2. link[f] # "closed" <=> \/ \E c \in Contexts : socket[c] = f
                                 \/ \E s \in Servers : lastBuffered[s] = f
                                 \/ \E k \in Clients : arguments[k].socket = f
      BY DEF OpenIsHeld
    <3> QED
      BY <3>1, <3>2
  <2>4. ASSUME NEW g \in Holders, NEW h \in Holders, g # h, Holds(g) # None
        PROVE Holds(g) # Holds(h)
    <3>1. CASE \E c \in Contexts : g = C(c)
      BY <3>1, <2>1, <2>2, <2>4 DEF HeldOnce
    <3>2. CASE \E s \in Servers : g = S(s)
      BY <3>2, <2>1, <2>2, <2>4 DEF HeldOnce
    <3>3. CASE \E k \in Clients : g = K(k)
      BY <3>3, <2>1, <2>2, <2>4 DEF HeldOnce
    <3> QED
      BY <2>2, <3>1, <3>2, <3>3
  <2>5. \A c \in Contexts : status[c] # "absent" => socket[c] # None /\ link[socket[c]] = "connected"
    BY ReactorAssumption DEF HeldByContexts, ReactorAssumption
  <2> QED
    BY <2>3, <2>4, <2>5 DEF SocketsHeld
<1> QED
  BY <1>1, SocketTheorem, PTL

\* Without a poller thread, no result that waits in _evnetVectors or _eventBuffer
\* points to a Context that Pool has destroyed, or to one of another app.
THEOREM ResultsLiveTheorem == Spec => []ResultsLive
<1> DEFINE Inv == SocketInvariant /\ (~PollerThread => ResultsInvariant)
<1>1. Init => Inv
  <2>1. Init => ResultsInvariant
    BY ElementsNone DEF Init, ResultsInvariant, Emptied, WaitingOpen, HandledLive
  <2> QED
    BY <2>1, InitSockets
<1>2. Inv /\ [Next]_vars => Inv'
  <2> SUFFICES ASSUME Inv, [Next]_vars PROVE Inv'
    OBVIOUS
  <2>1. SocketInvariant'
    BY NextSockets
  <2>2. ~PollerThread => ResultsInvariant'
    BY NextResults DEF SocketInvariant
  <2> QED
    BY <2>1, <2>2
<1>3. Inv => ResultsLive
  BY DEF ResultsLive, Live, ResultsInvariant, WaitingOpen, HandledLive
<1> QED
  BY <1>1, <1>2, <1>3, PTL DEF Spec
=============================================================================
