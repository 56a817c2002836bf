---------------------------- MODULE TcpConnection ----------------------------
(***************************************************************************)
(* One TcpConnection of mymuduo from accept() to its removal, with its     *)
(* Channel, its entry in the poller, and the part of TcpServer that owns   *)
(* it.                                                                     *)
(*                                                                         *)
(* The main loop accepts and removes, an io loop does everything else, and *)
(* other threads call send() and shutdown(), which look at state_ and then *)
(* queue work on the io loop: loops run what is queued once and in order   *)
(* (module EventLoop).  Without loop threads the main loop is the io loop. *)
(* Threads keep their TcpConnectionPtr while work they queued is pending.  *)
(***************************************************************************)
EXTENDS Integers, Sequences, SequencesExt

CONSTANTS
    User,        \* threads other than the loops that use the connection
    SendSize,    \* size of a message, in units the socket takes one by one
    MaxCalls,    \* bound: calls of send() and shutdown() by these threads
    MaxMessages  \* bound: messages of the peer
ASSUME TcpBoundsAssumption ==
    SendSize \in Nat \ {0} /\ MaxCalls \in Nat /\ MaxMessages \in Nat

VARIABLES
    numThreads, \* numThreads_ of the pool: 0 or 1
    conn,       \* the connection, its channel and its socket: see NewConn
    inMap,      \* connections_ holds it
    io,         \* pendingFunctors_ of the io loop
    main,       \* pendingFunctors_ of the main loop, if it is another one
    user,       \* where each thread is
    calls,      \* calls of these threads so far
    ahead,      \* history: the functors in io when shutdown() was first called
                \* that have not run since, -1 before
    inbound,    \* messages of the peer that were not read yet
    messages    \* messages of the peer so far

vars == <<numThreads, conn, inMap, io, main, user, calls, ahead, inbound, messages>>

\* watched: what epoll has for the descriptor, <<>> if nothing; output: numbers
\* of the units in outputBuffer_; wire: the last unit the socket took;
\* accepted: units sendInLoop has taken over; reported: what connected() told
\* the connection callback; ended: how the process ended, if it did.
NewConn == [state |-> "none", destroying |-> FALSE,
            events |-> {}, index |-> "new", watched |-> <<>>,
            output |-> <<>>, wire |-> 0, accepted |-> 0,
            shut |-> FALSE, peer |-> "open", reported |-> <<>>, ended |-> "no"]

-----------------------------------------------------------------------------
(* Channel and EPollPoller.                                                *)

\* UpdateChannel.  epoll refuses to add what it has and to modify what it
\* lacks, and LOG_FATAL exits.
Update(c) ==
    IF c.index \in {"new", "deleted"}
    THEN [c EXCEPT !.index = "added", !.watched = <<c.events>>,
                   !.ended = IF c.watched = <<>> THEN @ ELSE "fatal"]
    ELSE IF c.events = {} THEN [c EXCEPT !.index = "deleted", !.watched = <<>>]
    ELSE [c EXCEPT !.watched = <<c.events>>,
                   !.ended = IF c.watched = <<>> THEN "fatal" ELSE @]

Enable(c, e)  == Update([c EXCEPT !.events = @ \cup {e}])
Disable(c, e) == Update([c EXCEPT !.events = @ \ {e}])
DisableAll(c) == Update([c EXCEPT !.events = {}])
IsWriting(c)  == "write" \in c.events

\* Faulty variant: epoll is not told.
RemoveForgets(c) == [c EXCEPT !.index = "new"]
RemoveChannel(c) ==
    [c EXCEPT !.index = "new", !.watched = IF c.index = "added" THEN <<>> ELSE @]

-----------------------------------------------------------------------------
(* TcpConnection in its loop.                                              *)

Report(c) ==
    [c EXCEPT !.reported = Append(@, IF c.state = "connected" THEN "UP" ELSE "DOWN")]

ConnectEstablished(c) == Report(Enable([c EXCEPT !.state = "connected"], "read"))

\* Faulty variant: the state the condition assigned stays.
DestroyedStillConnected(c) == RemoveChannel(Report(DisableAll([c EXCEPT !.destroying = FALSE])))
\* connectDestroyed after its condition, which assigns kConnected to state_.
ConnectDestroyed(c) ==
    RemoveChannel(Report(DisableAll([c EXCEPT !.state = "disconnected", !.destroying = FALSE])))

\* Faulty variant: buffered output is not waited for.
ShutdownAtOnce(c) == [c EXCEPT !.shut = TRUE]
ShutdownInLoop(c) == IF IsWriting(c) THEN c ELSE [c EXCEPT !.shut = TRUE]

\* SIGPIPE is not ignored: a write after the end of the connection is known
\* ends the process.  Before that the pending error is returned, once.
Broken(c) == c.shut \/ c.peer \in {"reset", "gone"}
WriteError(c) ==
    IF c.shut \/ c.peer = "gone" THEN [c EXCEPT !.ended = "sigpipe"]
    ELSE [c EXCEPT !.peer = "gone"]

\* The socket takes n units of a message; the others wait for handleWrite.
\* Faulty variant: EPOLLOUT is not asked for.
SentUnwatched(c, n) ==
    [c EXCEPT !.wire = @ + n, !.accepted = @ + SendSize,
              !.output = @ \o [k \in 1 .. SendSize - n |-> c.accepted + n + k]]
Sent(c, n) ==
    LET d == [c EXCEPT !.wire = @ + n, !.accepted = @ + SendSize,
                       !.output = @ \o [k \in 1 .. SendSize - n |-> c.accepted + n + k]]
    IN  IF n = SendSize \/ IsWriting(c) THEN d ELSE Enable(d, "write")

\* What sendInLoop may lead to; after a write error the message is dropped.
\* Faulty variant: it writes although earlier output is still buffered.
SendOvertakes(c) ==
    IF c.state = "disconnected" THEN {c}
    ELSE IF Broken(c) THEN {WriteError(c)}
    ELSE {Sent(c, n) : n \in 0 .. SendSize}
SendInLoop(c) ==
    IF c.state = "disconnected" THEN {c}
    ELSE IF IsWriting(c) \/ c.output # <<>> THEN {Sent(c, 0)}
    ELSE IF Broken(c) THEN {WriteError(c)}
    ELSE {Sent(c, n) : n \in 0 .. SendSize}

\* writeCompleteCallback_ is queued when the socket has taken everything.
Completes(c, d) == d.output = <<>> /\ d.wire > c.wire
Queued(c, d) == IF Completes(c, d) THEN <<"writeComplete">> ELSE <<>>

\* Faulty variant: the shutdown that waited for the output is forgotten.
DrainedOnly(c) == Disable(c, "write")
Drained(c) ==
    LET d == Disable(c, "write")
    IN  IF d.state = "disconnecting" THEN ShutdownInLoop(d) ELSE d

HandleWriteResults(c) ==
    IF Broken(c) THEN {WriteError(c)}
    ELSE {LET d == [c EXCEPT !.wire = @ + n, !.output = SubSeq(@, n + 1, Len(@))]
          IN  IF d.output = <<>> THEN Drained(d) ELSE d : n \in 1 .. Len(c.output)}

Closed(c) == Report(DisableAll([c EXCEPT !.state = "disconnected"]))

\* closeCallback_ is removeConnection: the main loop erases the connection and
\* queues connectDestroyed on the io loop.
\* Faulty variant: closeCallback_ is not called.
HandleCloseQuietly ==
    /\ conn' = Closed(conn)
    /\ UNCHANGED <<main, inMap, io>>
HandleClose ==
    /\ conn' = Closed(conn)
    /\ IF numThreads = 0
       THEN inMap' = FALSE /\ io' = Append(io, "destroyed") /\ UNCHANGED main
       ELSE main' = Append(main, "remove") /\ UNCHANGED <<inMap, io>>

\* The message callback may send and may shut down, as EchoServer does.
AppShutdown(c) == ShutdownInLoop([c EXCEPT !.state = "disconnecting"])
AppReplies(c) ==
    IF c.state # "connected" THEN {c}
    ELSE LET sent == {c} \cup SendInLoop(c) IN sent \cup {AppShutdown(d) : d \in sent}

-----------------------------------------------------------------------------
(* The loops.                                                              *)

Running == conn.ended = "no" /\ ~ conn.destroying
userVars == <<user, calls, ahead>>

\* handleRead of the Acceptor and newConnection.
Accept ==
    /\ conn.state = "none"
    /\ inMap' = TRUE
    /\ IF numThreads = 0
       THEN conn' = ConnectEstablished(conn) /\ UNCHANGED io
       ELSE conn' = [conn EXCEPT !.state = "connecting"] /\ io' = Append(io, "established")
    /\ UNCHANGED <<numThreads, main, userVars, inbound, messages>>

RemoveInLoop ==
    /\ conn.ended = "no"
    /\ main # <<>>
    /\ main' = Tail(main)
    /\ inMap' = FALSE
    /\ io' = Append(io, "destroyed")
    /\ UNCHANGED <<numThreads, conn, userVars, inbound, messages>>

RunEstablished ==
    /\ Head(io) = "established"
    /\ conn' = ConnectEstablished(conn)
    /\ io' = Tail(io)
\* if (state_ = kConnected)
RunDestroyed ==
    /\ Head(io) = "destroyed"
    /\ conn' = [conn EXCEPT !.state = "connected", !.destroying = TRUE]
    /\ io' = Tail(io)
RunSend ==
    /\ Head(io) = "sendInLoop"
    /\ \E d \in SendInLoop(conn) : conn' = d /\ io' = Tail(io) \o Queued(conn, d)
RunShutdown ==
    /\ Head(io) = "shutdownInLoop"
    /\ conn' = ShutdownInLoop(conn)
    /\ io' = Tail(io)
RunWriteComplete ==
    /\ Head(io) = "writeComplete"
    /\ io' = Tail(io)
    /\ UNCHANGED conn

RunFunctor ==
    /\ Running
    /\ io # <<>>
    /\ RunEstablished \/ RunDestroyed \/ RunSend \/ RunShutdown \/ RunWriteComplete
    /\ ahead' = IF ahead > 0 THEN ahead - 1 ELSE ahead
    /\ UNCHANGED <<numThreads, inMap, main, user, calls, inbound, messages>>

FinishDestroy ==
    /\ conn.ended = "no"
    /\ conn.destroying
    /\ conn' = ConnectDestroyed(conn)
    /\ UNCHANGED <<numThreads, inMap, io, main, userVars, inbound, messages>>

\* HandleEvent: with EPOLLIN, handleRead first.  A handleWrite that the same
\* call makes after a close finds the channel not writing.
Watches(e) == conn.watched # <<>> /\ e \in conn.watched[1]

ReadMessage ==
    /\ inbound > 0
    /\ inbound' = inbound - 1
    /\ \E d \in AppReplies(conn) : conn' = d /\ io' = io \o Queued(conn, d)
    /\ UNCHANGED <<main, inMap>>
\* handleError only writes a line; the error is gone with it.
ReadError ==
    /\ inbound = 0
    /\ conn.peer = "reset"
    /\ conn' = [conn EXCEPT !.peer = "gone"]
    /\ UNCHANGED <<main, inMap, io, inbound>>
ReadEnd ==
    /\ inbound = 0
    /\ conn.peer \in {"fin", "gone"}
    /\ HandleClose
    /\ UNCHANGED inbound
HandleRead ==
    /\ Running
    /\ Watches("read")
    /\ ReadMessage \/ ReadError \/ ReadEnd
    /\ UNCHANGED <<numThreads, userVars, messages>>

HandleWrite ==
    /\ Running
    /\ Watches("write")
    /\ IsWriting(conn)
    /\ \E d \in HandleWriteResults(conn) : conn' = d /\ io' = io \o Queued(conn, d)
    /\ UNCHANGED <<numThreads, inMap, main, userVars, inbound, messages>>

\* EPOLLHUP without EPOLLIN: only a channel that does not read gets it.
HandleHup ==
    /\ Running
    /\ conn.watched # <<>> /\ ~ Watches("read")
    /\ conn.peer \in {"reset", "gone"} \/ (conn.peer = "fin" /\ conn.shut)
    /\ HandleClose
    /\ UNCHANGED <<numThreads, userVars, inbound, messages>>

-----------------------------------------------------------------------------
(* Other threads, which got the connection from a callback.                *)

Calls(t, step) ==
    /\ conn.ended = "no"
    /\ conn.reported # <<>>
    /\ conn.state = "connected"
    /\ user[t] = "idle"
    /\ calls < MaxCalls
    /\ calls' = calls + 1
    /\ user' = [user EXCEPT ![t] = step]
    /\ UNCHANGED <<numThreads, conn, inMap, io, main, ahead, inbound, messages>>
CheckSend(t)     == Calls(t, "send")
CheckShutdown(t) == Calls(t, "shutdown")

SetDisconnecting(t) ==
    /\ conn.ended = "no"
    /\ user[t] = "shutdown"
    /\ conn' = [conn EXCEPT !.state = "disconnecting"]
    /\ user' = [user EXCEPT ![t] = "queue"]
    /\ ahead' = IF ahead < 0 THEN Len(io) ELSE ahead
    /\ UNCHANGED <<numThreads, inMap, io, main, calls, inbound, messages>>

QueueWork(t) ==
    /\ conn.ended = "no"
    /\ user[t] \in {"send", "queue"}
    /\ io' = Append(io, IF user[t] = "send" THEN "sendInLoop" ELSE "shutdownInLoop")
    /\ user' = [user EXCEPT ![t] = "idle"]
    /\ UNCHANGED <<numThreads, conn, inMap, main, calls, ahead, inbound, messages>>

-----------------------------------------------------------------------------
(* The peer.                                                               *)

PeerSends ==
    /\ conn.peer = "open"
    /\ messages < MaxMessages
    /\ messages' = messages + 1
    /\ inbound' = inbound + 1
    /\ UNCHANGED <<numThreads, conn, inMap, io, main, userVars>>

\* fin: it sends nothing more but still takes data; reset: it takes nothing.
PeerEnds ==
    /\ conn.state # "none" /\ conn.ended = "no"
    /\ \E p \in {"fin", "reset"} :
        /\ conn.peer = "open" \/ (conn.peer = "fin" /\ p = "reset")
        /\ conn' = [conn EXCEPT !.peer = p]
    /\ UNCHANGED <<numThreads, inMap, io, main, userVars, inbound, messages>>

-----------------------------------------------------------------------------

Init ==
    /\ numThreads \in {0, 1}
    /\ conn = NewConn /\ inMap = FALSE
    /\ io = <<>> /\ main = <<>>
    /\ user = [t \in User |-> "idle"] /\ calls = 0 /\ ahead = -1
    /\ inbound = 0 /\ messages = 0

IoLoop == RunFunctor \/ FinishDestroy \/ HandleRead \/ HandleWrite \/ HandleHup
Thread(t) == SetDisconnecting(t) \/ QueueWork(t)

Next ==
    \/ Accept \/ RemoveInLoop \/ IoLoop \/ PeerSends \/ PeerEnds
    \/ \E t \in User : CheckSend(t) \/ CheckShutdown(t) \/ Thread(t)

Spec == Init /\ [][Next]_vars

\* A loop handles every event and every functor of a round before it polls
\* again; threads finish the calls they have begun.  The socket is writable
\* again and again: its peer reads, or is gone.
Fairness ==
    /\ WF_vars(RemoveInLoop) /\ WF_vars(RunFunctor) /\ WF_vars(FinishDestroy)
    /\ WF_vars(HandleRead) /\ WF_vars(HandleWrite) /\ WF_vars(HandleHup)
    /\ \A t \in User : WF_vars(Thread(t))
FairSpec == Spec /\ Fairness

-----------------------------------------------------------------------------
(* Properties.                                                             *)

Event == {"read", "write"}
Connection ==
    [state : {"none", "connecting", "connected", "disconnecting", "disconnected"},
     destroying : BOOLEAN, events : SUBSET Event,
     index : {"new", "added", "deleted"}, watched : Seq(SUBSET Event),
     output : Seq(Nat), wire : Nat, accepted : Nat, shut : BOOLEAN,
     peer : {"open", "fin", "reset", "gone"},
     reported : Seq({"UP", "DOWN"}), ended : {"no", "sigpipe", "fatal"}]
Functor == {"established", "destroyed", "sendInLoop", "shutdownInLoop", "writeComplete"}
TypeOK ==
    /\ numThreads \in {0, 1} /\ inMap \in BOOLEAN
    /\ conn \in Connection
    /\ io \in Seq(Functor)
    /\ main \in Seq({"remove"})
    /\ user \in [User -> {"idle", "send", "shutdown", "queue"}]
    /\ calls \in Nat /\ ahead \in Nat \cup {-1}
    /\ inbound \in Nat /\ messages \in Nat

\* The channel's index and events agree with what epoll has, whatever order
\* enabling, closing and destroying come in: epoll_ctl is never asked for what it
\* refuses, which would end the process.
RegistrationAgrees ==
    /\ conn.watched = IF conn.index = "added" THEN <<conn.events>> ELSE <<>>
    /\ conn.ended # "fatal"

\* The socket gets the units that sendInLoop took over, in that order and each
\* once, though some go through the buffer and some do not.
OutputInOrder ==
    /\ conn.output = [k \in 1 .. Len(conn.output) |-> conn.wire + k]
    /\ conn.wire + Len(conn.output) = conn.accepted

\* Output waits in the buffer only while epoll watches for EPOLLOUT, until the
\* connection is closed.
Down == "DOWN" \in ToSet(conn.reported)
OutputIsWatched == conn.output # <<>> /\ ~ Down /\ conn.ended = "no" => Watches("write")

\* While the connection is up, its write side closes only when the socket has
\* every unit that sendInLoop took over; and when the queued shutdownInLoop closes
\* it, all that was queued when shutdown() was first called has run, so what was
\* sent before is among these units.  handleWrite and a shutdown() in the message
\* callback close it without looking at the queue: a sendInLoop that was queued
\* before shutdown() and is still there then finds the write side closed.
ShutdownAfterOutput ==
    [][~ conn.shut /\ conn'.shut /\ ~ Down =>
            /\ conn'.wire = conn'.accepted
            /\ Len(io') < Len(io) => ahead < 1]_vars

\* The connection callback hears UP first and never again, although
\* connectDestroyed sets state_ to kConnected once more; and a connection the loop
\* has closed or destroyed is never watched again, though sendInLoop and
\* shutdownInLoop of other threads may run after it.  (Only a shutdown() that
\* overlaps the close, and so leaves another state, escapes this.)
EndsForGood ==
    /\ \A k \in DOMAIN conn.reported : conn.reported[k] = "UP" <=> k = 1
    /\ conn.state = "disconnected" => conn.watched = <<>>

\* After shutdown() the buffered output is sent and the write side closes.
ShutdownCompletes ==
    conn.state = "disconnecting" ~> conn.shut \/ Down \/ conn.ended # "no"

\* A connection whose peer is gone leaves the server and the poller.
ClosedIsRemoved ==
    (conn.peer # "open" /\ conn.state # "none") ~>
        (~ inMap /\ conn.watched = <<>>) \/ conn.ended # "no"

===============================================================================
