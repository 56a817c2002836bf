-------------------------- MODULE TcpConnectionProofs --------------------------
(***************************************************************************)
(* Proofs about module TcpConnection, for any number of threads, calls and *)
(* messages and any size of message: the poller's entry agrees with the    *)
(* channel, the output stays in order and is watched while it is buffered, *)
(* the write side closes only after the output that sendInLoop took over,  *)
(* and a kDisconnected connection is not watched.                          *)
(*                                                                         *)
(* Nearly everything is a statement about one connection record and what   *)
(* the code makes of it; the lemmas on these operators come first, in the  *)
(* order in which the operators use one another.                           *)
(***************************************************************************)
EXTENDS TcpConnection, TLAPS

\* The entry agrees with the channel, and a channel without entry has no events.
Registered(c) ==
    /\ c.watched = IF c.index = "added" THEN <<c.events>> ELSE <<>>
    /\ c.index # "added" => c.events = {}
    /\ c.ended # "fatal"

\* The same before Update, when the events have changed already.
Updatable(c) ==
    /\ c.index = "added" <=> c.watched # <<>>
    /\ c.ended # "fatal"

Ordered(c) ==
    /\ \A k \in 1 .. Len(c.output) : c.output[k] = c.wire + k
    /\ c.wire + Len(c.output) = c.accepted

IsDown(c) == \E k \in 1 .. Len(c.reported) : c.reported[k] = "DOWN"

Awaited(c) == c.output # <<>> /\ ~ IsDown(c) => "write" \in c.events

Sound(c) == c \in Connection /\ Registered(c) /\ Ordered(c) /\ Awaited(c)

\* The members the poller does not touch.
SameOutput(c, d) ==
    d.output = c.output /\ d.wire = c.wire /\ d.accepted = c.accepted

SameReport(c, d) == d.reported = c.reported /\ d.state = c.state /\ d.shut = c.shut

-----------------------------------------------------------------------------
(* Channel and EPollPoller.                                                *)

LEMMA UpdateRegisters ==
  ASSUME NEW c \in Connection, Updatable(c)
  PROVE  /\ Update(c) \in Connection /\ Registered(Update(c))
         /\ Update(c).events = c.events
         /\ SameOutput(c, Update(c)) /\ SameReport(c, Update(c))
         /\ c.index = "added" /\ c.events = {} => Update(c).watched = <<>>
<1> DEFINE d == Update(c)
           one == <<c.events>>
           none == <<>>
<1>1. c.events \in SUBSET Event
  BY DEF Connection
<1>2. one \in Seq(SUBSET Event) /\ none \in Seq(SUBSET Event)
  BY <1>1
<1>3. CASE c.index \in {"new", "deleted"}
  <2>1. c.watched = none
    BY <1>3 DEF Updatable
  <2>2. d = [c EXCEPT !.index = "added", !.watched = one, !.ended = c.ended]
    BY <1>3, <2>1 DEF Update
  <2>3. /\ d.index = "added" /\ d.watched = one /\ d.ended = c.ended /\ d.events = c.events
        /\ SameOutput(c, d) /\ SameReport(c, d)
    BY <2>2 DEF Connection, SameOutput, SameReport
  <2>4. d \in Connection
    <3> HIDE DEF one
    <3>1. QED
      BY <1>2, <2>2 DEF Connection
  <2>5. QED
    BY <1>3, <2>3, <2>4 DEF Registered, Updatable
<1>4. CASE c.index = "added" /\ c.events = {}
  <2>1. d = [c EXCEPT !.index = "deleted", !.watched = none]
    BY <1>4 DEF Update
  <2>2. /\ d.index = "deleted" /\ d.watched = none /\ d.ended = c.ended /\ d.events = c.events
        /\ SameOutput(c, d) /\ SameReport(c, d)
    BY <2>1 DEF Connection, SameOutput, SameReport
  <2>3. d \in Connection
    <3> HIDE DEF none
    <3>1. QED
      BY <1>2, <2>1 DEF Connection
  <2>4. QED
    BY <1>4, <2>2, <2>3 DEF Registered, Updatable
<1>5. CASE c.index = "added" /\ c.events # {}
  <2>1. c.watched # none
    BY <1>5 DEF Updatable
  <2>2. d = [c EXCEPT !.watched = one, !.ended = c.ended]
    BY <1>5, <2>1 DEF Update
  <2>3. /\ d.index = "added" /\ d.watched = one /\ d.ended = c.ended /\ d.events = c.events
        /\ SameOutput(c, d) /\ SameReport(c, d)
    BY <1>5, <2>2 DEF Connection, SameOutput, SameReport
  <2>4. d \in Connection
    <3> HIDE DEF one
    <3>1. QED
      BY <1>2, <2>2 DEF Connection
  <2>5. QED
    BY <1>5, <2>3, <2>4 DEF Registered, Updatable
<1>6. c.index \in {"new", "added", "deleted"}
  BY DEF Connection
<1>7. QED
  BY <1>3, <1>4, <1>5, <1>6

\* A channel whose events change is one Update may be called for.
LEMMA EventsChange ==
  ASSUME NEW c \in Connection, Registered(c), NEW E \in SUBSET Event
  PROVE  LET d == [c EXCEPT !.events = E]
         IN  /\ d \in Connection /\ Updatable(d) /\ d.events = E
             /\ SameOutput(c, d) /\ SameReport(c, d)
<1> DEFINE d == [c EXCEPT !.events = E]
<1>1. /\ d \in Connection /\ d.events = E /\ d.index = c.index /\ d.watched = c.watched
      /\ d.ended = c.ended /\ SameOutput(c, d) /\ SameReport(c, d)
  BY DEF Connection, SameOutput, SameReport
<1>2. Updatable(d)
  BY <1>1 DEF Updatable, Registered
<1>3. QED
  BY <1>1, <1>2

LEMMA EnableRegisters ==
  ASSUME NEW c \in Connection, Registered(c), NEW e \in Event
  PROVE  LET d == Enable(c, e)
         IN  /\ d \in Connection /\ Registered(d) /\ d.events = c.events \cup {e}
             /\ SameOutput(c, d) /\ SameReport(c, d)
<1> DEFINE E == c.events \cup {e}
           b == [c EXCEPT !.events = E]
<1>1. E \in SUBSET Event
  BY DEF Connection
<1>2. /\ b \in Connection /\ Updatable(b) /\ b.events = E
      /\ SameOutput(c, b) /\ SameReport(c, b)
  BY <1>1, EventsChange
<1>3. Enable(c, e) = Update(b)
  BY DEF Enable
<1>4. QED
  <2> HIDE DEF b
  <2>1. QED
    BY <1>2, <1>3, UpdateRegisters DEF SameOutput, SameReport

LEMMA DisableRegisters ==
  ASSUME NEW c \in Connection, Registered(c), NEW e \in Event
  PROVE  LET d == Disable(c, e)
         IN  /\ d \in Connection /\ Registered(d) /\ d.events = c.events \ {e}
             /\ SameOutput(c, d) /\ SameReport(c, d)
<1> DEFINE E == c.events \ {e}
           b == [c EXCEPT !.events = E]
<1>1. E \in SUBSET Event
  BY DEF Connection
<1>2. /\ b \in Connection /\ Updatable(b) /\ b.events = E
      /\ SameOutput(c, b) /\ SameReport(c, b)
  BY <1>1, EventsChange
<1>3. Disable(c, e) = Update(b)
  BY DEF Disable
<1>4. QED
  <2> HIDE DEF b
  <2>1. QED
    BY <1>2, <1>3, UpdateRegisters DEF SameOutput, SameReport

LEMMA DisableAllRegisters ==
  ASSUME NEW c \in Connection, Registered(c)
  PROVE  LET d == DisableAll(c)
         IN  /\ d \in Connection /\ Registered(d) /\ d.events = {}
             /\ SameOutput(c, d) /\ SameReport(c, d)
             /\ c.index = "added" => d.watched = <<>>
<1> DEFINE b == [c EXCEPT !.events = {}]
<1>1. /\ b \in Connection /\ Updatable(b) /\ b.events = {} /\ b.index = c.index
      /\ SameOutput(c, b) /\ SameReport(c, b)
  BY EventsChange DEF Connection
<1>2. DisableAll(c) = Update(b)
  BY DEF DisableAll
<1>3. QED
  <2> HIDE DEF b
  <2>1. QED
    BY <1>1, <1>2, UpdateRegisters DEF SameOutput, SameReport

LEMMA RemoveRegisters ==
  ASSUME NEW c \in Connection, Registered(c), c.events = {}
  PROVE  LET d == RemoveChannel(c)
         IN  /\ d \in Connection /\ Registered(d) /\ d.events = {} /\ d.watched = <<>>
             /\ SameOutput(c, d) /\ SameReport(c, d)
<1> DEFINE d == RemoveChannel(c)
           none == <<>>
<1>1. d = [c EXCEPT !.index = "new", !.watched = none]
  BY DEF RemoveChannel, Registered
<1>2. /\ d.index = "new" /\ d.watched = none /\ d.ended = c.ended /\ d.events = c.events
      /\ SameOutput(c, d) /\ SameReport(c, d)
  BY <1>1 DEF Connection, SameOutput, SameReport
<1>3. none \in Seq(SUBSET Event)
  OBVIOUS
<1>4. d \in Connection
  <2> HIDE DEF none
  <2>1. QED
    BY <1>1, <1>3 DEF Connection
<1>5. QED
  BY <1>2, <1>4 DEF Registered

-----------------------------------------------------------------------------
(* TcpConnection in its loop.                                              *)

\* Everything but state, destroying, shut and peer, and an end by SIGPIPE.
Alike(c, d) ==
    /\ d \in Connection
    /\ d.events = c.events /\ d.index = c.index /\ d.watched = c.watched
    /\ d.reported = c.reported /\ SameOutput(c, d)
    /\ d.ended \in {c.ended, "sigpipe"}

LEMMA AlikeSound ==
  ASSUME NEW c, Sound(c), NEW d, Alike(c, d)
  PROVE  Sound(d)
BY DEF Sound, Alike, Registered, Ordered, Awaited, IsDown, SameOutput

LEMMA SetState ==
  ASSUME NEW c \in Connection, NEW s \in {"connecting", "connected", "disconnecting", "disconnected"},
         NEW b \in BOOLEAN
  PROVE  LET d == [c EXCEPT !.state = s]
             e == [c EXCEPT !.state = s, !.destroying = b]
         IN  /\ Alike(c, d) /\ d.state = s /\ d.shut = c.shut
             /\ Alike(c, e) /\ e.state = s /\ e.shut = c.shut
BY DEF Connection, Alike, SameOutput

LEMMA SetPeer ==
  ASSUME NEW c \in Connection, NEW p \in {"fin", "reset", "gone"}
  PROVE  Alike(c, [c EXCEPT !.peer = p]) /\ SameReport(c, [c EXCEPT !.peer = p])
BY DEF Connection, Alike, SameOutput, SameReport

LEMMA ShutdownAlike ==
  ASSUME NEW c \in Connection
  PROVE  /\ Alike(c, ShutdownInLoop(c)) /\ ShutdownInLoop(c).state = c.state
         /\ IsWriting(c) => ShutdownInLoop(c) = c
<1>1. Alike(c, c)
  BY DEF Alike, SameOutput
<1>2. Alike(c, [c EXCEPT !.shut = TRUE]) /\ [c EXCEPT !.shut = TRUE].state = c.state
  BY DEF Connection, Alike, SameOutput
<1>3. QED
  BY <1>1, <1>2 DEF ShutdownInLoop

\* The write side closes with nothing left to send, or after the connection.
LEMMA ShutsDrained ==
  ASSUME NEW c, Sound(c), ShutdownInLoop(c).shut # c.shut
  PROVE  LET d == ShutdownInLoop(c) IN d.output = <<>> \/ IsDown(d)
<1>1. Alike(c, ShutdownInLoop(c)) /\ ~ IsWriting(c)
  BY ShutdownAlike DEF Sound
<1>2. QED
  BY <1>1 DEF Sound, Awaited, IsWriting, Alike, SameOutput, IsDown

LEMMA WriteErrorAlike ==
  ASSUME NEW c \in Connection
  PROVE  Alike(c, WriteError(c)) /\ SameReport(c, WriteError(c))
<1>1. Alike(c, [c EXCEPT !.ended = "sigpipe"]) /\ SameReport(c, [c EXCEPT !.ended = "sigpipe"])
  BY DEF Connection, Alike, SameOutput, SameReport
<1>2. QED
  BY <1>1, SetPeer DEF WriteError

\* What is reported stays reported; all but a connected state is reported as down.
LEMMA ReportKeeps ==
  ASSUME NEW c \in Connection
  PROVE  LET d == Report(c)
         IN  /\ d \in Connection /\ SameOutput(c, d) /\ d.events = c.events
             /\ d.state = c.state /\ d.shut = c.shut /\ d.watched = c.watched
             /\ d.reported = Append(c.reported, IF c.state = "connected" THEN "UP" ELSE "DOWN")
             /\ Registered(c) => Registered(d)
             /\ IsDown(c) \/ c.state # "connected" => IsDown(d)
<1> DEFINE x == IF c.state = "connected" THEN "UP" ELSE "DOWN"
           r == Append(c.reported, x)
           d == Report(c)
<1>1. c.reported \in Seq({"UP", "DOWN"}) /\ x \in {"UP", "DOWN"}
  BY DEF Connection
<1>2. /\ r \in Seq({"UP", "DOWN"}) /\ Len(r) = Len(c.reported) + 1 /\ r[Len(r)] = x
      /\ \A k \in 1 .. Len(c.reported) : r[k] = c.reported[k] /\ k \in 1 .. Len(r)
  BY <1>1
<1>3. d = [c EXCEPT !.reported = r]
  BY DEF Report
<1>4. /\ d \in Connection /\ SameOutput(c, d) /\ d.reported = r
      /\ d.state = c.state /\ d.shut = c.shut
      /\ d.events = c.events /\ d.index = c.index /\ d.watched = c.watched /\ d.ended = c.ended
  <2> HIDE DEF r
  <2>1. QED
    BY <1>2, <1>3 DEF Connection, SameOutput
<1>5. Registered(c) => Registered(d)
  BY <1>4 DEF Registered
<1>6. IsDown(c) => IsDown(d)
  BY <1>2, <1>4 DEF IsDown
<1>7. c.state # "connected" => IsDown(d)
  <2> SUFFICES ASSUME c.state # "connected" PROVE IsDown(d)
    OBVIOUS
  <2>1. d.reported[Len(r)] = "DOWN" /\ Len(d.reported) = Len(r)
    BY <1>2, <1>4
  <2>2. Len(r) \in 1 .. Len(r)
    BY <1>1, <1>2
  <2>3. QED
    BY <2>1, <2>2 DEF IsDown
<1>8. QED
  BY <1>4, <1>5, <1>6, <1>7

\* Sound parts of a step that leaves the output alone.
LEMMA SameOutputSound ==
  ASSUME NEW c, Sound(c), NEW d \in Connection, Registered(d), SameOutput(c, d),
         IsDown(d) \/ ("write" \in c.events => "write" \in d.events),
         IsDown(c) => IsDown(d)
  PROVE  Sound(d)
BY DEF Sound, Ordered, Awaited, SameOutput

LEMMA EstablishedSound ==
  ASSUME NEW c, Sound(c)
  PROVE  LET e == ConnectEstablished(c)
         IN  /\ Sound(e) /\ e.state = "connected" /\ e.shut = c.shut
             /\ e.reported = Append(c.reported, "UP")
<1> DEFINE b == [c EXCEPT !.state = "connected"]
           d == Enable(b, "read")
<1>1. /\ Alike(c, b) /\ c \in Connection /\ b.state = "connected" /\ b.shut = c.shut
      /\ b.reported = c.reported
  <2>1. c \in Connection
    BY DEF Sound
  <2>2. Alike(c, b) /\ b.state = "connected" /\ b.shut = c.shut
    BY <2>1, SetState
  <2> HIDE DEF b
  <2>3. b.reported = c.reported
    BY <2>2 DEF Alike
  <2>4. QED
    BY <2>1, <2>2, <2>3
<1>2. Sound(b) /\ b \in Connection /\ Registered(b)
  BY <1>1, AlikeSound DEF Sound
<1>3. /\ d \in Connection /\ Registered(d) /\ d.events = b.events \cup {"read"}
      /\ SameOutput(b, d) /\ SameReport(b, d)
  <2> HIDE DEF b
  <2>1. QED
    BY <1>2, EnableRegisters DEF Event
<1>4. ConnectEstablished(c) = Report(d)
  BY DEF ConnectEstablished
<1>5. Report(d) \in Connection /\ SameOutput(b, Report(d)) /\ Registered(Report(d))
      /\ Report(d).events = b.events \cup {"read"} /\ (IsDown(b) => IsDown(Report(d)))
      /\ Report(d).state = "connected" /\ Report(d).shut = c.shut
      /\ Report(d).reported = Append(c.reported, "UP")
  <2> HIDE DEF b, d
  <2>1. /\ IsDown(b) => IsDown(d)
        /\ d.state = "connected" /\ d.shut = c.shut /\ d.reported = c.reported
    BY <1>1, <1>3 DEF IsDown, SameReport
  <2>2. QED
    BY <1>3, <2>1, ReportKeeps DEF SameOutput
<1>6. QED
  <2> HIDE DEF b, d
  <2>1. QED
    BY <1>2, <1>4, <1>5, SameOutputSound

\* DisableAll and the report of a connection that is not connected.
LEMMA ClosedSound ==
  ASSUME NEW c, Sound(c)
  PROVE  /\ Sound(Closed(c)) /\ Closed(c).events = {} /\ IsDown(Closed(c))
         /\ Closed(c).state = "disconnected" /\ Closed(c).shut = c.shut
         /\ Closed(c).reported = Append(c.reported, "DOWN")
         /\ c.index = "added" => Closed(c).watched = <<>>
<1> DEFINE b == [c EXCEPT !.state = "disconnected"]
           d == DisableAll(b)
<1>1. /\ Alike(c, b) /\ c \in Connection /\ b.state = "disconnected" /\ b.shut = c.shut
      /\ b.reported = c.reported /\ b.index = c.index
  <2>1. c \in Connection
    BY DEF Sound
  <2>2. Alike(c, b) /\ b.state = "disconnected" /\ b.shut = c.shut
    BY <2>1, SetState
  <2> HIDE DEF b
  <2>3. b.reported = c.reported /\ b.index = c.index
    BY <2>2 DEF Alike
  <2>4. QED
    BY <2>1, <2>2, <2>3
<1>2. Sound(b) /\ b \in Connection /\ Registered(b)
  BY <1>1, AlikeSound DEF Sound
<1>3. /\ d \in Connection /\ Registered(d) /\ d.events = {}
      /\ SameOutput(b, d) /\ d.state = "disconnected" /\ d.shut = c.shut
      /\ d.reported = c.reported /\ (c.index = "added" => d.watched = <<>>)
  <2> HIDE DEF b
  <2>1. QED
    BY <1>1, <1>2, DisableAllRegisters DEF SameReport
<1>4. Closed(c) = Report(d)
  BY DEF Closed
<1>5. /\ Report(d) \in Connection /\ SameOutput(b, Report(d)) /\ Registered(Report(d))
      /\ Report(d).events = {} /\ IsDown(Report(d))
      /\ Report(d).state = "disconnected" /\ Report(d).shut = c.shut
      /\ Report(d).reported = Append(c.reported, "DOWN")
      /\ c.index = "added" => Report(d).watched = <<>>
  <2> HIDE DEF b, d
  <2>1. QED
    BY <1>3, ReportKeeps DEF SameOutput
<1>6. QED
  <2> HIDE DEF b, d
  <2>1. QED
    BY <1>2, <1>4, <1>5, SameOutputSound

LEMMA DestroyedSound ==
  ASSUME NEW c, Sound(c)
  PROVE  LET e == ConnectDestroyed(c)
         IN  /\ Sound(e) /\ e.state = "disconnected" /\ e.shut = c.shut /\ e.watched = <<>>
             /\ e.reported = Append(c.reported, "DOWN")
<1> DEFINE b == [c EXCEPT !.state = "disconnected", !.destroying = FALSE]
           d == DisableAll(b)
           r == Report(d)
<1>1. /\ Alike(c, b) /\ c \in Connection /\ b.state = "disconnected" /\ b.shut = c.shut
      /\ b.reported = c.reported
  <2>1. c \in Connection
    BY DEF Sound
  <2>2. Alike(c, b) /\ b.state = "disconnected" /\ b.shut = c.shut
    BY <2>1, SetState
  <2> HIDE DEF b
  <2>3. b.reported = c.reported
    BY <2>2 DEF Alike
  <2>4. QED
    BY <2>1, <2>2, <2>3
<1>2. Sound(b) /\ b \in Connection /\ Registered(b)
  BY <1>1, AlikeSound DEF Sound
<1>3. /\ d \in Connection /\ Registered(d) /\ d.events = {}
      /\ SameOutput(b, d) /\ d.state = "disconnected" /\ d.shut = c.shut
      /\ d.reported = c.reported
  <2> HIDE DEF b
  <2>1. QED
    BY <1>1, <1>2, DisableAllRegisters DEF SameReport
<1>4. /\ r \in Connection /\ SameOutput(b, r) /\ Registered(r) /\ r.events = {} /\ IsDown(r)
      /\ r.state = "disconnected" /\ r.shut = c.shut /\ r.reported = Append(c.reported, "DOWN")
  <2> HIDE DEF b, d
  <2>1. QED
    BY <1>3, ReportKeeps DEF SameOutput
<1>5. ConnectDestroyed(c) = RemoveChannel(r)
  BY DEF ConnectDestroyed
<1>6. /\ RemoveChannel(r) \in Connection /\ SameOutput(b, RemoveChannel(r))
      /\ Registered(RemoveChannel(r)) /\ IsDown(RemoveChannel(r))
      /\ RemoveChannel(r).watched = <<>> /\ RemoveChannel(r).state = "disconnected"
      /\ RemoveChannel(r).shut = c.shut /\ RemoveChannel(r).reported = Append(c.reported, "DOWN")
  <2> HIDE DEF b, r
  <2>1. QED
    BY <1>4, RemoveRegisters DEF SameOutput, SameReport, IsDown
<1>7. QED
  <2> HIDE DEF b, r
  <2>1. QED
    BY <1>2, <1>5, <1>6, SameOutputSound

-----------------------------------------------------------------------------
(* Output.                                                                 *)

LEMMA Concatenated ==
  ASSUME NEW s \in Seq(Nat), NEW t \in Seq(Nat)
  PROVE  /\ s \o t \in Seq(Nat) /\ Len(s \o t) = Len(s) + Len(t)
         /\ \A k \in 1 .. Len(s) : (s \o t)[k] = s[k]
         /\ \A k \in 1 .. Len(t) : (s \o t)[Len(s) + k] = t[k]
OBVIOUS

\* The socket takes n units at once only if nothing waits before them.
LEMMA SentSound ==
  ASSUME NEW c, Sound(c), NEW n \in 0 .. SendSize, n = 0 \/ c.output = <<>>
  PROVE  Sound(Sent(c, n)) /\ SameReport(c, Sent(c, n))
<1> DEFINE rest == [k \in 1 .. SendSize - n |-> c.accepted + n + k]
           w == c.wire + n
           a == c.accepted + SendSize
           o == c.output \o rest
           d == [c EXCEPT !.wire = w, !.accepted = a, !.output = o]
<1>1. /\ c \in Connection /\ Registered(c) /\ Ordered(c) /\ Awaited(c)
      /\ c.output \in Seq(Nat) /\ c.wire \in Nat /\ c.accepted \in Nat
      /\ SendSize \in Nat \ {0} /\ n \in Nat /\ SendSize - n \in Nat
  BY TcpBoundsAssumption DEF Sound, Connection
<1>2. rest \in Seq(Nat) /\ Len(rest) = SendSize - n
  BY <1>1
<1>3. /\ o \in Seq(Nat) /\ Len(o) = Len(c.output) + (SendSize - n)
      /\ \A k \in 1 .. Len(c.output) : o[k] = c.output[k]
      /\ \A k \in 1 .. SendSize - n : o[Len(c.output) + k] = rest[k]
  <2> HIDE DEF rest
  <2>1. /\ o \in Seq(Nat) /\ Len(o) = Len(c.output) + Len(rest)
        /\ \A k \in 1 .. Len(c.output) : o[k] = c.output[k]
        /\ \A k \in 1 .. Len(rest) : o[Len(c.output) + k] = rest[k]
    BY <1>1, <1>2, Concatenated
  <2>2. QED
    <3> HIDE DEF o
    <3>1. QED
      BY <1>2, <2>1
<1>4. \A k \in 1 .. Len(o) : o[k] = w + k
  <2> TAKE k \in 1 .. Len(o)
  <2>1. CASE k \in 1 .. Len(c.output)
    <3>1. n = 0
      BY <1>1, <2>1
    <3>2. o[k] = c.wire + k
      BY <1>1, <1>3, <2>1 DEF Ordered
    <3>3. w = c.wire
      BY <1>1, <3>1
    <3> HIDE DEF o, w
    <3>4. QED
      BY <3>2, <3>3
  <2>2. CASE k \notin 1 .. Len(c.output)
    <3> DEFINE j == k - Len(c.output)
    <3>1. j \in 1 .. SendSize - n /\ k = Len(c.output) + j
      BY <1>1, <1>3, <2>2
    <3>2. o[k] = c.accepted + n + j
      <4>1. o[Len(c.output) + j] = rest[j]
        BY <1>3, <3>1
      <4>2. QED
        BY <3>1, <4>1
    <3>3. c.wire + Len(c.output) = c.accepted /\ Len(c.output) \in Nat
      BY <1>1 DEF Ordered
    <3>4. j \in Int /\ c.accepted + n + j = w + (Len(c.output) + j)
      <4>1. j \in Int /\ w = c.wire + n
        BY <1>1, <3>1
      <4> DEFINE from == c.wire
                 to == c.accepted
                 len == Len(c.output)
      <4>2. from \in Int /\ to \in Int /\ n \in Int /\ len \in Int /\ from + len = to
        BY <1>1, <3>3
      <4> HIDE DEF rest, a, o, w, d, j, from, to, len
      <4>3. to + n + j = (from + n) + (len + j)
        BY ONLY <4>1, <4>2
      <4>4. QED
        BY <4>1, <4>3 DEF from, to, len
    <3>5. QED
      <4> HIDE DEF o, w, j
      <4>1. QED
        BY <3>1, <3>2, <3>4
  <2>3. QED
    BY <2>1, <2>2
<1>5. w + Len(o) = a
  <2>1. c.wire + Len(c.output) = c.accepted /\ Len(c.output) \in Nat
    BY <1>1 DEF Ordered
  <2>2. QED
    BY <1>1, <1>3, <2>1
<1>6. w \in Nat /\ a \in Nat
  BY <1>1
<1>7. /\ d \in Connection /\ d.output = o /\ d.wire = w /\ d.accepted = a
      /\ d.events = c.events /\ d.index = c.index /\ d.watched = c.watched
      /\ d.ended = c.ended /\ d.reported = c.reported /\ SameReport(c, d)
  <2> HIDE DEF o, w, a
  <2>1. QED
    BY <1>1, <1>3, <1>6 DEF Connection, SameReport
<1>8. Registered(d) /\ Ordered(d)
  <2> HIDE DEF o, w, a, d
  <2>1. QED
    BY <1>1, <1>4, <1>5, <1>7 DEF Registered, Ordered
<1>9. CASE n = SendSize \/ IsWriting(c)
  <2>1. Sent(c, n) = d
    BY <1>9 DEF Sent
  <2>2. n = SendSize => o = <<>>
    BY <1>1, <1>3
  <2>3. Awaited(d)
    <3> HIDE DEF o, w, a, d
    <3>1. QED
      BY <1>7, <1>9, <2>2 DEF Awaited, IsWriting
  <2>4. QED
    <3> HIDE DEF d
    <3>1. QED
      BY <1>7, <1>8, <2>1, <2>3 DEF Sound
<1>10. CASE ~ (n = SendSize \/ IsWriting(c))
  <2>1. Sent(c, n) = Enable(d, "write")
    BY <1>10 DEF Sent
  <2> HIDE DEF o, w, a, d
  <2>2. /\ Enable(d, "write") \in Connection /\ Registered(Enable(d, "write"))
        /\ SameOutput(d, Enable(d, "write")) /\ "write" \in Enable(d, "write").events
        /\ SameReport(d, Enable(d, "write"))
    BY <1>7, <1>8, EnableRegisters DEF Event
  <2>3. SameReport(c, Enable(d, "write"))
    BY <1>7, <2>2 DEF SameReport
  <2>4. QED
    BY <1>8, <2>1, <2>2, <2>3 DEF Sound, Ordered, Awaited, SameOutput
<1>11. QED
  BY <1>9, <1>10

LEMMA SendInLoopSound ==
  ASSUME NEW c, Sound(c), NEW d \in SendInLoop(c)
  PROVE  Sound(d) /\ SameReport(c, d)
<1>1. c \in Connection
  BY DEF Sound
<1>2. CASE d = c
  BY <1>2 DEF SameReport
<1>3. CASE d = Sent(c, 0)
  BY <1>3, SentSound, TcpBoundsAssumption
<1>4. CASE d = WriteError(c)
  BY <1>1, <1>4, WriteErrorAlike, AlikeSound
<1>5. CASE c.output = <<>> /\ \E n \in 0 .. SendSize : d = Sent(c, n)
  BY <1>5, SentSound
<1>6. QED
  BY <1>2, <1>3, <1>4, <1>5 DEF SendInLoop

LEMMA DrainedSound ==
  ASSUME NEW c, Sound(c), c.output = <<>>
  PROVE  /\ Sound(Drained(c)) /\ Drained(c).output = <<>>
         /\ Drained(c).state = c.state /\ Drained(c).reported = c.reported
<1> DEFINE d == Disable(c, "write")
<1>1. /\ d \in Connection /\ Registered(d) /\ SameOutput(c, d) /\ SameReport(c, d)
      /\ d.output = <<>> /\ d.state = c.state /\ d.reported = c.reported
  BY DisableRegisters DEF Sound, Event, SameOutput, SameReport
<1>2. Sound(d)
  <2> HIDE DEF d
  <2>1. QED
    BY <1>1 DEF Sound, Ordered, Awaited, SameOutput
<1>3. /\ Sound(ShutdownInLoop(d)) /\ ShutdownInLoop(d).output = <<>>
      /\ ShutdownInLoop(d).state = c.state /\ ShutdownInLoop(d).reported = c.reported
  <2> HIDE DEF d
  <2>1. QED
    BY <1>1, <1>2, ShutdownAlike, AlikeSound DEF Alike, SameOutput
<1>4. QED
  BY <1>1, <1>2, <1>3 DEF Drained

\* The units that handleWrite hands on are the first of the buffer.
LEMMA HandleWriteSound ==
  ASSUME NEW c, Sound(c), IsWriting(c), NEW e \in HandleWriteResults(c)
  PROVE  /\ Sound(e) /\ e.state = c.state /\ e.reported = c.reported
         /\ e.shut # c.shut => e.output = <<>>
<1>1. /\ c \in Connection /\ Registered(c) /\ Ordered(c)
      /\ c.output \in Seq(Nat) /\ c.wire \in Nat /\ c.accepted \in Nat
  BY DEF Sound, Connection
<1>2. CASE e = WriteError(c)
  BY <1>1, <1>2, WriteErrorAlike, AlikeSound DEF SameReport
<1>3. ASSUME NEW n \in 1 .. Len(c.output),
             e = LET d == [c EXCEPT !.wire = @ + n, !.output = SubSeq(@, n + 1, Len(@))]
                 IN  IF d.output = <<>> THEN Drained(d) ELSE d
      PROVE  /\ Sound(e) /\ e.state = c.state /\ e.reported = c.reported
             /\ e.shut # c.shut => e.output = <<>>
  <2> DEFINE w == c.wire + n
             o == SubSeq(c.output, n + 1, Len(c.output))
             d == [c EXCEPT !.wire = w, !.output = o]
  <2>1. /\ o \in Seq(Nat) /\ Len(o) = Len(c.output) - n /\ w \in Nat
        /\ \A k \in 1 .. Len(o) : o[k] = c.output[n + k] /\ n + k \in 1 .. Len(c.output)
    BY <1>1
  <2>2. \A k \in 1 .. Len(o) : o[k] = w + k
    <3> TAKE k \in 1 .. Len(o)
    <3>1. o[k] = c.wire + (n + k)
      <4> HIDE DEF o
      <4>1. QED
        BY <1>1, <2>1 DEF Ordered
    <3>2. QED
      BY <1>1, <3>1
  <2>3. w + Len(o) = c.accepted
    <3> HIDE DEF o
    <3>1. c.wire + Len(c.output) = c.accepted
      BY <1>1 DEF Ordered
    <3>2. QED
      BY <1>1, <2>1, <3>1
  <2>4. /\ d \in Connection /\ d.output = o /\ d.wire = w /\ d.accepted = c.accepted
        /\ d.events = c.events /\ d.index = c.index /\ d.watched = c.watched
        /\ d.ended = c.ended /\ d.reported = c.reported /\ d.state = c.state /\ d.shut = c.shut
    <3> HIDE DEF o, w
    <3>1. QED
      BY <1>1, <2>1 DEF Connection
  <2>5. Sound(d)
    <3> HIDE DEF o, w, d
    <3>1. QED
      BY <1>1, <2>2, <2>3, <2>4 DEF Sound, Registered, Ordered, Awaited, IsWriting
  <2>6. e = IF d.output = <<>> THEN Drained(d) ELSE d
    BY <1>3
  <2>7. QED
    <3> HIDE DEF o, w, d
    <3>1. QED
      BY <2>4, <2>5, <2>6, DrainedSound
<1>4. QED
  BY <1>2, <1>3 DEF HandleWriteResults

\* Whatever the message callback does.
LEMMA AppRepliesSound ==
  ASSUME NEW c, Sound(c), NEW e \in AppReplies(c)
  PROVE  /\ Sound(e) /\ e.reported = c.reported /\ e.state \in {c.state, "disconnecting"}
         /\ e.shut # c.shut => e.output = <<>> \/ IsDown(e)
<1>1. \A d \in {c} \cup SendInLoop(c) : Sound(d) /\ SameReport(c, d)
  BY SendInLoopSound DEF SameReport
<1>2. ASSUME NEW d, Sound(d)
      PROVE  LET f == AppShutdown(d)
             IN  /\ Sound(f) /\ f.reported = d.reported /\ f.state = "disconnecting"
                 /\ f.shut # d.shut => f.output = <<>> \/ IsDown(f)
  <2> DEFINE b == [d EXCEPT !.state = "disconnecting"]
             f == ShutdownInLoop(b)
  <2>1. /\ Sound(b) /\ b \in Connection /\ b.state = "disconnecting"
        /\ b.reported = d.reported /\ b.shut = d.shut
    <3>1. d \in Connection
      BY <1>2 DEF Sound
    <3>2. Alike(d, b) /\ b.state = "disconnecting" /\ b.shut = d.shut
      BY <3>1, SetState
    <3> HIDE DEF b
    <3>3. Sound(b)
      BY <1>2, <3>2, AlikeSound
    <3>4. b \in Connection /\ b.reported = d.reported
      BY <3>2 DEF Alike
    <3>5. QED
      BY <3>2, <3>3, <3>4
  <2>2. AppShutdown(d) = f
    BY DEF AppShutdown
  <2> HIDE DEF b
  <2>3. Alike(b, f) /\ Sound(f) /\ f.state = "disconnecting" /\ (IsWriting(b) => f = b)
    BY <2>1, ShutdownAlike, AlikeSound
  <2>4. f.shut # b.shut => f.output = <<>> \/ IsDown(f)
    BY <2>1, <2>3, ShutsDrained
  <2>5. QED
    BY <2>1, <2>2, <2>3, <2>4 DEF Alike
<1>3. QED
  BY <1>1, <1>2 DEF AppReplies, SameReport

-----------------------------------------------------------------------------
(* The steps.                                                              *)

TcpInv == TypeOK /\ Sound(conn)

LEMMA TcpInvInit == Init => TcpInv
<1> SUFFICES ASSUME Init PROVE TcpInv
  OBVIOUS
<1>1. /\ conn = NewConn /\ NewConn.output = <<>> /\ NewConn.wire = 0 /\ NewConn.accepted = 0
      /\ NewConn.watched = <<>> /\ NewConn.index = "new" /\ NewConn.events = {}
      /\ NewConn.ended = "no"
  BY DEF Init, NewConn
<1>2. NewConn \in Connection
  BY DEF NewConn, Connection
<1>3. Sound(conn)
  <2>1. conn \in Connection /\ conn.output = <<>> /\ conn.wire = 0 /\ conn.accepted = 0
    BY <1>1, <1>2
  <2>2. Ordered(conn) /\ Awaited(conn)
    BY <2>1 DEF Ordered, Awaited
  <2>3. Registered(conn)
    BY <1>1 DEF Registered
  <2>4. QED
    BY <2>1, <2>2, <2>3 DEF Sound
<1>4. TypeOK
  <2>1. conn \in Connection
    BY <1>1, <1>2
  <2>2. io \in Seq(Functor) /\ main \in Seq({"remove"})
    BY DEF Init
  <2>3. QED
    BY <2>1, <2>2 DEF Init, TypeOK
<1>5. QED
  BY <1>3, <1>4 DEF TcpInv

LEMMA QueueTypes ==
  ASSUME NEW q \in Seq(Functor), NEW f \in Functor
  PROVE  /\ Append(q, f) \in Seq(Functor)
         /\ q # <<>> => Tail(q) \in Seq(Functor)
         /\ \A c, d : q \o Queued(c, d) \in Seq(Functor)
                      /\ (q # <<>> => Tail(q) \o Queued(c, d) \in Seq(Functor))
<1>1. /\ Append(q, f) \in Seq(Functor)
      /\ q # <<>> => Tail(q) \in Seq(Functor)
  OBVIOUS
<1>2. \A c, d : Queued(c, d) \in Seq(Functor)
  BY DEF Queued, Functor
<1>3. \A s, t \in Seq(Functor) : s \o t \in Seq(Functor)
  OBVIOUS
<1>4. QED
  BY <1>1, <1>2, <1>3

LEMMA HandleCloseStep ==
  ASSUME TcpInv, HandleClose
  PROVE  Sound(conn') /\ inMap' \in BOOLEAN /\ io' \in Seq(Functor) /\ main' \in Seq({"remove"})
<1>1. Sound(conn')
  BY ClosedSound DEF TcpInv, HandleClose
<1>2. inMap' \in BOOLEAN /\ io' \in Seq(Functor)
  BY QueueTypes DEF TcpInv, TypeOK, HandleClose, Functor
<1>3. main' \in Seq({"remove"})
  BY DEF TcpInv, TypeOK, HandleClose
<1>4. QED
  BY <1>1, <1>2, <1>3

LEMMA FunctorStep ==
  ASSUME TcpInv, RunFunctor
  PROVE  TcpInv'
<1>1. io \in Seq(Functor) /\ io # <<>> /\ Sound(conn) /\ conn \in Connection
  BY DEF TcpInv, TypeOK, RunFunctor
<1>2. Tail(io) \in Seq(Functor) /\ \A c, d : Tail(io) \o Queued(c, d) \in Seq(Functor)
  BY <1>1, QueueTypes DEF Functor
<1>3. Sound(conn') /\ io' \in Seq(Functor)
  <2>1. CASE RunEstablished
    BY <1>1, <1>2, <2>1, EstablishedSound DEF RunEstablished
  <2>2. CASE RunDestroyed
    BY <1>1, <1>2, <2>2, SetState, AlikeSound DEF RunDestroyed
  <2>3. CASE RunSend
    BY <1>1, <1>2, <2>3, SendInLoopSound DEF RunSend
  <2>4. CASE RunShutdown
    BY <1>1, <1>2, <2>4, ShutdownAlike, AlikeSound DEF RunShutdown
  <2>5. CASE RunWriteComplete
    BY <1>1, <1>2, <2>5 DEF RunWriteComplete
  <2>6. QED
    BY <2>1, <2>2, <2>3, <2>4, <2>5 DEF RunFunctor
<1>4. UNCHANGED <<numThreads, inMap, main, user, calls, inbound, messages>>
  BY DEF RunFunctor
<1>5. ahead' \in Nat \cup {-1}
  BY DEF RunFunctor, TcpInv, TypeOK
<1>6. QED
  BY <1>3, <1>4, <1>5 DEF TcpInv, TypeOK, Sound

LEMMA ReadStep ==
  ASSUME TcpInv, HandleRead
  PROVE  TcpInv'
<1>1. /\ io \in Seq(Functor) /\ main \in Seq({"remove"}) /\ inMap \in BOOLEAN
      /\ inbound \in Nat /\ Sound(conn) /\ conn \in Connection
  BY DEF TcpInv, TypeOK
<1>2. /\ Sound(conn') /\ io' \in Seq(Functor) /\ inMap' \in BOOLEAN
      /\ main' \in Seq({"remove"}) /\ inbound' \in Nat
  <2>1. CASE ReadMessage
    <3>1. inbound' \in Nat
      BY <1>1, <2>1 DEF ReadMessage
    <3>2. Sound(conn') /\ io' \in Seq(Functor)
      BY <1>1, <2>1, AppRepliesSound, QueueTypes DEF ReadMessage, Functor
    <3>3. QED
      BY <1>1, <2>1, <3>1, <3>2 DEF ReadMessage
  <2>2. CASE ReadError
    BY <1>1, <2>2, SetPeer, AlikeSound DEF ReadError
  <2>3. CASE ReadEnd
    BY <1>1, <2>3, HandleCloseStep DEF ReadEnd
  <2>4. QED
    BY <2>1, <2>2, <2>3 DEF HandleRead
<1>3. UNCHANGED <<numThreads, user, calls, ahead, messages>>
  BY DEF HandleRead, userVars
<1>4. QED
  BY <1>2, <1>3 DEF TcpInv, TypeOK, Sound

\* The io loop.
LEMMA IoLoopStep ==
  ASSUME TcpInv, IoLoop
  PROVE  TcpInv'
<1>1. Sound(conn) /\ io \in Seq(Functor)
  BY DEF TcpInv, TypeOK
<1>2. CASE FinishDestroy
  <2>1. Sound(conn')
    BY <1>1, <1>2, DestroyedSound DEF FinishDestroy
  <2>2. QED
    BY <1>2, <2>1 DEF FinishDestroy, TcpInv, TypeOK, Sound, userVars
<1>3. CASE HandleWrite
  <2>1. Sound(conn') /\ io' \in Seq(Functor)
    BY <1>1, <1>3, HandleWriteSound, QueueTypes DEF HandleWrite, Functor
  <2>2. QED
    BY <1>3, <2>1 DEF HandleWrite, TcpInv, TypeOK, Sound, userVars
<1>4. CASE HandleHup
  <2>1. /\ Sound(conn') /\ inMap' \in BOOLEAN /\ io' \in Seq(Functor)
        /\ main' \in Seq({"remove"})
    BY <1>4, HandleCloseStep DEF HandleHup
  <2>2. UNCHANGED <<numThreads, user, calls, ahead, inbound, messages>>
    BY <1>4 DEF HandleHup, userVars
  <2>3. QED
    BY <2>1, <2>2 DEF TcpInv, TypeOK, Sound
<1>5. QED
  BY <1>2, <1>3, <1>4, FunctorStep, ReadStep DEF IoLoop

\* The main loop and the peer.
LEMMA ServerStep ==
  ASSUME TcpInv, Accept \/ RemoveInLoop \/ PeerSends \/ PeerEnds
  PROVE  TcpInv'
<1>1. /\ Sound(conn) /\ conn \in Connection /\ io \in Seq(Functor)
      /\ Append(io, "established") \in Seq(Functor) /\ Append(io, "destroyed") \in Seq(Functor)
  BY QueueTypes DEF TcpInv, TypeOK, Functor
<1>2. CASE Accept
  <2>a. Sound(ConnectEstablished(conn)) /\ Sound([conn EXCEPT !.state = "connecting"])
    BY <1>1, EstablishedSound, SetState, AlikeSound
  <2>b. inMap' = TRUE
    BY <1>2 DEF Accept
  <2>1. Sound(conn') /\ io' \in Seq(Functor) /\ inMap' \in BOOLEAN
    BY <1>1, <1>2, <2>a, <2>b DEF Accept
  <2>2. UNCHANGED <<numThreads, main, user, calls, ahead, inbound, messages>>
    BY <1>2 DEF Accept, userVars
  <2>3. QED
    BY <2>1, <2>2 DEF TcpInv, TypeOK, Sound
<1>3. CASE RemoveInLoop
  <2>1. main' \in Seq({"remove"})
    BY <1>3 DEF RemoveInLoop, TcpInv, TypeOK
  <2>2. /\ io' \in Seq(Functor) /\ inMap' \in BOOLEAN
        /\ UNCHANGED <<numThreads, conn, user, calls, ahead, inbound, messages>>
    BY <1>1, <1>3 DEF RemoveInLoop, userVars
  <2>3. QED
    BY <2>1, <2>2 DEF TcpInv, TypeOK, Sound
<1>4. CASE PeerSends
  <2>1. messages' \in Nat /\ inbound' \in Nat
    BY <1>4 DEF PeerSends, TcpInv, TypeOK
  <2>2. QED
    BY <1>4, <2>1 DEF PeerSends, TcpInv, TypeOK, userVars
<1>5. CASE PeerEnds
  <2>1. Sound(conn')
    BY <1>1, <1>5, SetPeer, AlikeSound DEF PeerEnds
  <2>2. UNCHANGED <<numThreads, inMap, io, main, user, calls, ahead, inbound, messages>>
    BY <1>5 DEF PeerEnds, userVars
  <2>3. QED
    BY <2>1, <2>2 DEF TcpInv, TypeOK, Sound
<1>6. QED
  BY <1>2, <1>3, <1>4, <1>5

\* Other threads.
LEMMA UserStep ==
  ASSUME TcpInv, NEW t \in User, CheckSend(t) \/ CheckShutdown(t) \/ Thread(t)
  PROVE  TcpInv'
<1>1. Sound(conn) /\ conn \in Connection /\ io \in Seq(Functor)
  BY DEF TcpInv, TypeOK
<1>2. CASE CheckSend(t) \/ CheckShutdown(t)
  <2>1. PICK step \in {"send", "shutdown"} : Calls(t, step)
    BY <1>2 DEF CheckSend, CheckShutdown
  <2>2. calls' \in Nat
    BY <2>1 DEF Calls, TcpInv, TypeOK
  <2>3. QED
    BY <2>1, <2>2 DEF Calls, TcpInv, TypeOK
<1>3. CASE SetDisconnecting(t)
  <2>1. Sound(conn')
    BY <1>1, <1>3, SetState, AlikeSound DEF SetDisconnecting
  <2>2. QED
    BY <1>3, <2>1 DEF SetDisconnecting, TcpInv, TypeOK, Sound
<1>4. CASE QueueWork(t)
  <2>1. io' \in Seq(Functor)
    BY <1>1, <1>4, QueueTypes DEF QueueWork, Functor
  <2>2. QED
    BY <1>4, <2>1 DEF QueueWork, TcpInv, TypeOK
<1>5. QED
  BY <1>2, <1>3, <1>4 DEF Thread

LEMMA TcpInvStep == TcpInv /\ [Next]_vars => TcpInv'
<1> SUFFICES ASSUME TcpInv, [Next]_vars PROVE TcpInv'
  OBVIOUS
<1>1. CASE UNCHANGED vars
  BY <1>1 DEF vars, TcpInv, TypeOK
<1>2. QED
  BY <1>1, IoLoopStep, ServerStep, UserStep DEF Next

LEMMA TcpInvAlways == Spec => []TcpInv
<1>1. QED
  BY TcpInvInit, TcpInvStep, PTL DEF Spec

-----------------------------------------------------------------------------
(* The life of the connection.                                             *)

\* Before UP was reported only connectEstablished is to come; after it, never,
\* and a connection that the loop closed or destroyed is not watched.
Unopened ==
    /\ conn.watched = <<>> /\ main = <<>> /\ \A t \in User : user[t] = "idle"
    /\ \/ conn.state = "none" /\ io = <<>>
       \/ conn.state = "connecting" /\ io = <<"established">>
    /\ ~ conn.destroying

Opened ==
    /\ conn.state \in {"connected", "disconnecting", "disconnected"}
    /\ \A k \in 1 .. Len(io) : io[k] # "established"
    /\ \A k \in 1 .. Len(conn.reported) : conn.reported[k] = "UP" <=> k = 1
    /\ conn.state = "disconnected" => conn.watched = <<>>

LifeInv == IF conn.reported = <<>> THEN Unopened ELSE Opened

LEMMA OpenedAppend ==
  ASSUME NEW q \in Seq(Functor), \A k \in 1 .. Len(q) : q[k] # "established",
         NEW f \in Functor \ {"established"}
  PROVE  \A k \in 1 .. Len(Append(q, f)) : Append(q, f)[k] # "established"
  BY DEF Functor

LEMMA OpenedQueue ==
  ASSUME NEW q \in Seq(Functor), \A k \in 1 .. Len(q) : q[k] # "established", NEW c, NEW d
  PROVE  \A k \in 1 .. Len(q \o Queued(c, d)) : (q \o Queued(c, d))[k] # "established"
<1>1. ASSUME NEW t \in Seq(Functor), \A k \in 1 .. Len(t) : t[k] # "established"
      PROVE  \A k \in 1 .. Len(q \o t) : (q \o t)[k] # "established"
  BY <1>1
<1>2. CASE Completes(c, d)
  <2> DEFINE t == <<"writeComplete">>
  <2>1. t \in Seq(Functor) /\ \A k \in 1 .. Len(t) : t[k] # "established"
    BY DEF Functor
  <2>2. Queued(c, d) = t
    BY <1>2 DEF Queued
  <2> HIDE DEF t
  <2>3. QED
    BY <1>1, <2>1, <2>2
<1>3. CASE ~ Completes(c, d)
  <2>1. Queued(c, d) = <<>>
    BY <1>3 DEF Queued
  <2>2. q \o <<>> = q
    OBVIOUS
  <2>3. QED
    BY <2>1, <2>2
<1>4. QED
  BY <1>2, <1>3

LEMMA OpenedTail ==
  ASSUME NEW q \in Seq(Functor), q # <<>>, \A k \in 1 .. Len(q) : q[k] # "established"
  PROVE  Tail(q) \in Seq(Functor) /\ \A k \in 1 .. Len(Tail(q)) : Tail(q)[k] # "established"
  OBVIOUS

\* Further reports are of the end.
LEMMA MoreDowns ==
  ASSUME NEW r \in Seq({"UP", "DOWN"}), r # <<>>, \A k \in 1 .. Len(r) : r[k] = "UP" <=> k = 1
  PROVE  /\ Append(r, "DOWN") # <<>>
         /\ \A k \in 1 .. Len(Append(r, "DOWN")) : Append(r, "DOWN")[k] = "UP" <=> k = 1
  OBVIOUS

\* What is running, watched or used was opened.
LEMMA InUse ==
  ASSUME TcpInv, LifeInv,
         \/ conn.reported # <<>> \/ conn.watched # <<>> \/ main # <<>> \/ conn.destroying
         \/ \E t \in User : user[t] # "idle"
         \/ io # <<>> /\ Head(io) # "established"
  PROVE  conn.reported # <<>> /\ Opened
  BY DEF LifeInv, Unopened

\* The loop closes a watched connection: it is not watched any more.
LEMMA CloseLife ==
  ASSUME TcpInv, LifeInv, HandleClose, conn.watched # <<>>
  PROVE  LifeInv'
<1>1. conn.reported # <<>> /\ Opened /\ Sound(conn) /\ conn.reported \in Seq({"UP", "DOWN"})
      /\ io \in Seq(Functor)
  BY InUse DEF TcpInv, TypeOK, Sound, Connection
<1>2. conn.index = "added"
  BY <1>1 DEF Sound, Registered
<1>3. /\ conn' = Closed(conn) /\ conn'.state = "disconnected" /\ conn'.watched = <<>>
      /\ conn'.reported = Append(conn.reported, "DOWN")
  BY <1>1, <1>2, ClosedSound DEF HandleClose
<1>4. \A k \in 1 .. Len(io') : io'[k] # "established"
  BY <1>1, OpenedAppend DEF HandleClose, Opened, Functor
<1>5. /\ conn'.reported # <<>>
      /\ \A k \in 1 .. Len(conn'.reported) : conn'.reported[k] = "UP" <=> k = 1
  BY <1>1, <1>3, MoreDowns DEF Opened
<1>6. QED
  BY <1>3, <1>4, <1>5 DEF LifeInv, Opened

LEMMA FunctorLife ==
  ASSUME TcpInv, LifeInv, RunFunctor
  PROVE  LifeInv'
<1>1. io \in Seq(Functor) /\ io # <<>> /\ Sound(conn) /\ conn \in Connection
  BY DEF TcpInv, TypeOK, RunFunctor
<1>2. CASE RunEstablished
  <2>1. io[1] = "established" /\ 1 \in 1 .. Len(io)
    BY <1>1, <1>2 DEF RunEstablished
  <2>2. conn.reported = <<>> /\ io = <<"established">>
    BY <1>1, <2>1 DEF LifeInv, Opened, Unopened
  <2>3. io' = <<>> /\ conn' = ConnectEstablished(conn)
    BY <1>2, <2>2 DEF RunEstablished
  <2>4. conn'.state = "connected" /\ conn'.reported = Append(<<>>, "UP")
    BY <1>1, <2>2, <2>3, EstablishedSound
  <2>5. QED
    BY <2>3, <2>4 DEF LifeInv, Opened
<1>3. CASE ~ RunEstablished
  <2>1. Head(io) # "established"
    BY <1>3 DEF RunFunctor, RunEstablished, RunDestroyed, RunSend, RunShutdown, RunWriteComplete
  <2>2. conn.reported # <<>> /\ Opened
    BY <1>1, <2>1, InUse
  <2>3. /\ Tail(io) \in Seq(Functor) /\ \A k \in 1 .. Len(Tail(io)) : Tail(io)[k] # "established"
    BY <1>1, <2>2, OpenedTail DEF Opened
  <2>4. \A k \in 1 .. Len(io') : io'[k] # "established"
    <3>1. io' = Tail(io) \/ \E d : io' = Tail(io) \o Queued(conn, d)
      BY <1>3 DEF RunFunctor, RunDestroyed, RunSend, RunShutdown, RunWriteComplete
    <3>2. QED
      BY <2>3, <3>1, OpenedQueue
  <2>5. conn'.reported = conn.reported
        /\ \/ conn'.state = "connected"
           \/ conn'.state = conn.state /\ (conn.state = "disconnected" => conn'.watched = conn.watched)
    <3>1. CASE RunDestroyed
      <4>1. Alike(conn, conn') /\ conn'.state = "connected"
        BY <1>1, <3>1, SetState DEF RunDestroyed
      <4>2. QED
        BY <4>1 DEF Alike
    <3>2. CASE RunSend
      <4>1. conn' \in SendInLoop(conn)
        BY <3>2 DEF RunSend
      <4>2. SameReport(conn, conn')
        BY <1>1, <4>1, SendInLoopSound
      <4>3. conn.state = "disconnected" => conn' = conn
        BY <4>1 DEF SendInLoop
      <4>4. QED
        BY <4>2, <4>3 DEF SameReport
    <3>3. CASE RunShutdown
      BY <1>1, <3>3, ShutdownAlike DEF RunShutdown, Alike
    <3>4. CASE RunWriteComplete
      BY <3>4 DEF RunWriteComplete
    <3>5. QED
      BY <1>3, <3>1, <3>2, <3>3, <3>4 DEF RunFunctor
  <2>6. QED
    BY <2>2, <2>4, <2>5 DEF LifeInv, Opened
<1>4. QED
  BY <1>2, <1>3

LEMMA ReadLife ==
  ASSUME TcpInv, LifeInv, HandleRead
  PROVE  LifeInv'
<1>1. conn.watched # <<>> /\ Sound(conn) /\ conn \in Connection /\ io \in Seq(Functor)
  BY DEF HandleRead, Watches, TcpInv, TypeOK
<1>2. conn.reported # <<>> /\ Opened /\ conn.state # "disconnected"
  BY <1>1, InUse DEF Opened
<1>3. CASE ReadMessage
  <2>1. PICK d \in AppReplies(conn) : conn' = d /\ io' = io \o Queued(conn, d)
    BY <1>3 DEF ReadMessage
  <2>2. conn'.reported = conn.reported /\ conn'.state \in {conn.state, "disconnecting"}
    BY <1>1, <2>1, AppRepliesSound
  <2>3. \A k \in 1 .. Len(io') : io'[k] # "established"
    BY <1>1, <1>2, <2>1, OpenedQueue DEF Opened
  <2>4. QED
    BY <1>2, <2>2, <2>3 DEF LifeInv, Opened
<1>4. CASE ReadError
  <2>1. conn'.reported = conn.reported /\ conn'.state = conn.state /\ io' = io
    BY <1>1, <1>4, SetPeer DEF ReadError, SameReport
  <2>2. QED
    BY <1>2, <2>1 DEF LifeInv, Opened
<1>5. CASE ReadEnd
  BY <1>1, <1>5, CloseLife DEF ReadEnd
<1>6. QED
  BY <1>3, <1>4, <1>5 DEF HandleRead

LEMMA IoLoopLife ==
  ASSUME TcpInv, LifeInv, IoLoop
  PROVE  LifeInv'
<1>1. Sound(conn) /\ conn \in Connection /\ io \in Seq(Functor)
      /\ conn.reported \in Seq({"UP", "DOWN"})
  BY DEF TcpInv, TypeOK, Connection
<1>2. CASE FinishDestroy
  <2>1. conn.reported # <<>> /\ Opened
    BY <1>2, InUse DEF FinishDestroy
  <2>2. /\ io' = io /\ conn' = ConnectDestroyed(conn)
    BY <1>2 DEF FinishDestroy
  <2>3. /\ conn'.state = "disconnected" /\ conn'.watched = <<>>
        /\ conn'.reported = Append(conn.reported, "DOWN")
    BY <1>1, <2>2, DestroyedSound
  <2>4. /\ conn'.reported # <<>>
        /\ \A k \in 1 .. Len(conn'.reported) : conn'.reported[k] = "UP" <=> k = 1
    BY <1>1, <2>1, <2>3, MoreDowns DEF Opened
  <2>5. QED
    BY <2>1, <2>2, <2>3, <2>4 DEF LifeInv, Opened
<1>3. CASE HandleWrite
  <2>1. conn.watched # <<>>
    BY <1>3 DEF HandleWrite, Watches
  <2>2. conn.reported # <<>> /\ Opened /\ conn.state # "disconnected"
    BY <2>1, InUse DEF Opened
  <2>3. PICK d \in HandleWriteResults(conn) : conn' = d /\ io' = io \o Queued(conn, d)
    BY <1>3 DEF HandleWrite
  <2>4. conn'.reported = conn.reported /\ conn'.state = conn.state
    BY <1>1, <1>3, <2>3, HandleWriteSound DEF HandleWrite
  <2>5. \A k \in 1 .. Len(io') : io'[k] # "established"
    BY <1>1, <2>2, <2>3, OpenedQueue DEF Opened
  <2>6. QED
    BY <2>2, <2>4, <2>5 DEF LifeInv, Opened
<1>4. CASE HandleHup
  BY <1>4, CloseLife DEF HandleHup
<1>5. QED
  BY <1>2, <1>3, <1>4, FunctorLife, ReadLife DEF IoLoop

LEMMA ServerLife ==
  ASSUME TcpInv, LifeInv, Accept \/ RemoveInLoop \/ PeerSends \/ PeerEnds
  PROVE  LifeInv'
<1>1. Sound(conn) /\ conn \in Connection /\ io \in Seq(Functor)
  BY DEF TcpInv, TypeOK
<1>2. CASE Accept
  <2>1. conn.reported = <<>> /\ Unopened /\ io = <<>>
    BY <1>2 DEF Accept, LifeInv, Opened, Unopened
  <2>2. CASE numThreads = 0
    <3>1. conn' = ConnectEstablished(conn) /\ io' = <<>>
      BY <1>2, <2>1, <2>2 DEF Accept
    <3>2. conn'.state = "connected" /\ conn'.reported = Append(<<>>, "UP")
      BY <1>1, <2>1, <3>1, EstablishedSound
    <3>3. QED
      BY <3>1, <3>2 DEF LifeInv, Opened
  <2>3. CASE numThreads # 0
    <3>1. /\ conn' = [conn EXCEPT !.state = "connecting"] /\ io' = Append(io, "established")
          /\ main' = main /\ user' = user
      BY <1>2, <2>3 DEF Accept, userVars
    <3>2. /\ conn'.state = "connecting" /\ conn'.reported = <<>> /\ conn'.watched = <<>>
          /\ ~ conn'.destroying /\ io' = <<"established">>
      BY <1>1, <2>1, <3>1 DEF Connection, Unopened
    <3>3. QED
      BY <2>1, <3>1, <3>2 DEF LifeInv, Unopened
  <2>4. QED
    BY <2>2, <2>3
<1>3. CASE RemoveInLoop
  <2>1. conn.reported # <<>> /\ Opened
    BY <1>3, InUse DEF RemoveInLoop
  <2>2. conn' = conn /\ io' = Append(io, "destroyed")
    BY <1>3 DEF RemoveInLoop
  <2>3. \A k \in 1 .. Len(io') : io'[k] # "established"
    BY <1>1, <2>1, <2>2, OpenedAppend DEF Opened, Functor
  <2>4. QED
    BY <2>1, <2>2, <2>3 DEF LifeInv, Opened
<1>4. CASE PeerSends
  BY <1>4 DEF PeerSends, userVars, LifeInv, Opened, Unopened
<1>5. CASE PeerEnds
  <2>1. /\ conn'.state = conn.state /\ conn'.reported = conn.reported
        /\ conn'.watched = conn.watched /\ conn'.destroying = conn.destroying
    BY <1>1, <1>5 DEF PeerEnds, Connection
  <2>2. io' = io /\ main' = main /\ user' = user
    BY <1>5 DEF PeerEnds, userVars
  <2>3. QED
    BY <2>1, <2>2 DEF LifeInv, Opened, Unopened
<1>6. QED
  BY <1>2, <1>3, <1>4, <1>5

LEMMA UserLife ==
  ASSUME TcpInv, LifeInv, NEW t \in User, CheckSend(t) \/ CheckShutdown(t) \/ Thread(t)
  PROVE  LifeInv'
<1>1. conn \in Connection /\ io \in Seq(Functor)
  BY DEF TcpInv, TypeOK
<1>2. conn.reported # <<>> /\ Opened
  <2>1. conn.reported # <<>> \/ user[t] # "idle"
    BY DEF CheckSend, CheckShutdown, Calls, Thread, SetDisconnecting, QueueWork
  <2>2. QED
    BY <2>1, InUse
<1>3. CASE CheckSend(t) \/ CheckShutdown(t)
  BY <1>2, <1>3 DEF CheckSend, CheckShutdown, Calls, LifeInv, Opened
<1>4. CASE SetDisconnecting(t)
  <2>1. conn'.state = "disconnecting" /\ conn'.reported = conn.reported /\ io' = io
    BY <1>1, <1>4 DEF SetDisconnecting, Connection
  <2>2. QED
    BY <1>2, <2>1 DEF LifeInv, Opened
<1>5. CASE QueueWork(t)
  <2>1. conn' = conn
    BY <1>5 DEF QueueWork
  <2>2. \A k \in 1 .. Len(io') : io'[k] # "established"
    BY <1>1, <1>2, <1>5, OpenedAppend DEF QueueWork, Opened, Functor
  <2>3. QED
    BY <1>2, <2>1, <2>2 DEF LifeInv, Opened
<1>6. QED
  BY <1>3, <1>4, <1>5 DEF Thread

LEMMA LifeStep == TcpInv /\ LifeInv /\ [Next]_vars => LifeInv'
<1> SUFFICES ASSUME TcpInv, LifeInv, [Next]_vars PROVE LifeInv'
  OBVIOUS
<1>1. CASE UNCHANGED vars
  BY <1>1 DEF vars, LifeInv, Opened, Unopened
<1>2. QED
  BY <1>1, IoLoopLife, ServerLife, UserLife DEF Next

LEMMA LifeInit == Init => LifeInv
  BY DEF Init, NewConn, LifeInv, Unopened

\* The write side closes in three places, each time with nothing left to send.
LEMMA ShutStep ==
  ASSUME TcpInv, TcpInv', [Next]_vars, ~ conn.shut, conn'.shut
  PROVE  conn'.output = <<>> \/ IsDown(conn)
<1>1. Sound(conn) /\ Sound(conn') /\ conn \in Connection
  BY DEF TcpInv, TypeOK
<1>2. conn.shut # conn'.shut
  OBVIOUS
<1>3. CASE IoLoop
  <2>1. CASE RunFunctor
    <3>1. CASE RunEstablished
      BY <1>1, <1>2, <3>1, EstablishedSound DEF RunEstablished
    <3>2. CASE RunDestroyed
      BY <1>1, <1>2, <3>2, SetState DEF RunDestroyed
    <3>3. CASE RunSend
      BY <1>1, <1>2, <3>3, SendInLoopSound DEF RunSend, SameReport
    <3>4. CASE RunShutdown
      BY <1>1, <1>2, <3>4, ShutsDrained, ShutdownAlike DEF RunShutdown, Alike, IsDown
    <3>5. CASE RunWriteComplete
      BY <1>2, <3>5 DEF RunWriteComplete
    <3>6. QED
      BY <2>1, <3>1, <3>2, <3>3, <3>4, <3>5 DEF RunFunctor
  <2>2. CASE FinishDestroy
    BY <1>1, <1>2, <2>2, DestroyedSound DEF FinishDestroy
  <2>3. CASE HandleRead
    <3>1. CASE ReadMessage
      BY <1>1, <1>2, <3>1, AppRepliesSound DEF ReadMessage, IsDown
    <3>2. CASE ReadError
      BY <1>1, <1>2, <3>2, SetPeer DEF ReadError, SameReport
    <3>3. CASE ReadEnd
      BY <1>1, <1>2, <3>3, ClosedSound DEF ReadEnd, HandleClose
    <3>4. QED
      BY <2>3, <3>1, <3>2, <3>3 DEF HandleRead
  <2>4. CASE HandleWrite
    BY <1>1, <1>2, <2>4, HandleWriteSound DEF HandleWrite
  <2>5. CASE HandleHup
    BY <1>1, <1>2, <2>5, ClosedSound DEF HandleHup, HandleClose
  <2>6. QED
    BY <1>3, <2>1, <2>2, <2>3, <2>4, <2>5 DEF IoLoop
<1>4. CASE Accept
  <2>1. conn' = ConnectEstablished(conn) \/ conn' = [conn EXCEPT !.state = "connecting"]
    BY <1>4 DEF Accept
  <2>2. CASE conn' = ConnectEstablished(conn)
    BY <1>1, <1>2, <2>2, EstablishedSound
  <2>3. conn.shut = [conn EXCEPT !.state = "connecting"].shut
    BY <1>1 DEF Connection
  <2>4. QED
    BY <1>2, <2>1, <2>2, <2>3
<1>5. CASE PeerEnds
  BY <1>1, <1>2, <1>5, SetPeer DEF PeerEnds, SameReport
<1>6. ASSUME NEW t \in User, SetDisconnecting(t) PROVE FALSE
  BY <1>1, <1>2, <1>6, SetState DEF SetDisconnecting
<1>7. CASE UNCHANGED conn
  BY <1>2, <1>7
<1>8. QED
  BY <1>3, <1>4, <1>5, <1>6, <1>7
     DEF Next, RemoveInLoop, PeerSends, CheckSend, CheckShutdown, Calls, Thread, QueueWork, vars

-----------------------------------------------------------------------------
(* What was queued when shutdown() was first called is run before any      *)
(* shutdownInLoop: the queue is first in, first out.                       *)

Behind(q, a) ==
    /\ a <= Len(q)
    /\ \A k \in 1 .. Len(q) : q[k] = "shutdownInLoop" => 0 <= a /\ a < k

BehindInv ==
    /\ Behind(io, ahead)
    /\ \A t \in User : user[t] = "queue" => 0 <= ahead

LEMMA BehindAppend ==
  ASSUME NEW q \in Seq(Functor), NEW a \in Int, Behind(q, a), NEW f \in Functor,
         f = "shutdownInLoop" => 0 <= a
  PROVE  Behind(Append(q, f), a)
<1>1. /\ Len(Append(q, f)) = Len(q) + 1 /\ Append(q, f)[Len(q) + 1] = f
      /\ \A k \in 1 .. Len(q) : Append(q, f)[k] = q[k]
  OBVIOUS
<1>2. QED
  BY <1>1 DEF Behind

LEMMA BehindQueue ==
  ASSUME NEW q \in Seq(Functor), NEW a \in Int, Behind(q, a), NEW c, NEW d
  PROVE  Behind(q \o Queued(c, d), a) /\ Len(q \o Queued(c, d)) >= Len(q)
<1>1. CASE Completes(c, d)
  <2>1. q \o Queued(c, d) = Append(q, "writeComplete")
    BY <1>1 DEF Queued
  <2>2. Len(Append(q, "writeComplete")) = Len(q) + 1
    OBVIOUS
  <2>3. QED
    BY <2>1, <2>2, BehindAppend DEF Functor
<1>2. CASE ~ Completes(c, d)
  <2>1. q \o Queued(c, d) = q
    BY <1>2 DEF Queued
  <2>2. QED
    BY <2>1
<1>3. QED
  BY <1>1, <1>2

LEMMA BehindTail ==
  ASSUME NEW q \in Seq(Functor), q # <<>>, NEW a \in Int, Behind(q, a)
  PROVE  Behind(Tail(q), IF a > 0 THEN a - 1 ELSE a)
<1>1. /\ Len(Tail(q)) = Len(q) - 1 /\ Len(q) > 0
      /\ \A k \in 1 .. Len(Tail(q)) : Tail(q)[k] = q[k + 1] /\ k + 1 \in 1 .. Len(q)
  OBVIOUS
<1>2. QED
  BY <1>1 DEF Behind

LEMMA BehindStep == TcpInv /\ BehindInv /\ [Next]_vars => BehindInv'
<1> SUFFICES ASSUME TcpInv, BehindInv, [Next]_vars PROVE BehindInv'
  OBVIOUS
<1>1. io \in Seq(Functor) /\ ahead \in Int /\ Behind(io, ahead)
  BY DEF TcpInv, TypeOK, BehindInv
<1>2. ASSUME Behind(io', ahead'), user' = user, ahead' = ahead \/ 0 <= ahead' PROVE BehindInv'
  BY <1>1, <1>2 DEF BehindInv
<1>3. ASSUME HandleClose PROVE Behind(io', ahead)
  <2>1. io' = io \/ io' = Append(io, "destroyed")
    BY <1>3 DEF HandleClose
  <2>2. QED
    BY <1>1, <2>1, BehindAppend DEF Functor
<1>4. CASE RunFunctor
  <2>1. /\ io # <<>> /\ user' = user
        /\ ahead' = IF ahead > 0 THEN ahead - 1 ELSE ahead
    BY <1>4 DEF RunFunctor
  <2>2. Behind(Tail(io), ahead') /\ Tail(io) \in Seq(Functor) /\ ahead' \in Int
    BY <1>1, <2>1, BehindTail
  <2>3. io' = Tail(io) \/ \E d : io' = Tail(io) \o Queued(conn, d)
    BY <1>4 DEF RunFunctor, RunEstablished, RunDestroyed, RunSend, RunShutdown, RunWriteComplete
  <2>4. Behind(io', ahead')
    BY <2>2, <2>3, BehindQueue
  <2>5. QED
    BY <1>1, <1>2, <2>1, <2>4
<1>5. CASE FinishDestroy
  BY <1>1, <1>2, <1>5 DEF FinishDestroy, userVars
<1>6. CASE HandleRead
  <2>1. user' = user /\ ahead' = ahead
    BY <1>6 DEF HandleRead, userVars
  <2>2. io' = io \/ HandleClose \/ \E d : io' = io \o Queued(conn, d)
    BY <1>6 DEF HandleRead, ReadMessage, ReadError, ReadEnd
  <2>3. Behind(io', ahead)
    BY <1>1, <1>3, <2>2, BehindQueue
  <2>4. QED
    BY <1>2, <2>1, <2>3
<1>7. CASE HandleWrite
  <2>1. user' = user /\ ahead' = ahead /\ \E d : io' = io \o Queued(conn, d)
    BY <1>7 DEF HandleWrite, userVars
  <2>2. QED
    BY <1>1, <1>2, <2>1, BehindQueue
<1>8. CASE HandleHup
  BY <1>2, <1>3, <1>8 DEF HandleHup, userVars
<1>9. CASE Accept \/ RemoveInLoop \/ PeerSends \/ PeerEnds
  <2>1. user' = user /\ ahead' = ahead
    BY <1>9 DEF Accept, RemoveInLoop, PeerSends, PeerEnds, userVars
  <2>2. io' = io \/ io' = Append(io, "established") \/ io' = Append(io, "destroyed")
    BY <1>9 DEF Accept, RemoveInLoop, PeerSends, PeerEnds
  <2>3. Behind(io', ahead)
    BY <1>1, <2>2, BehindAppend DEF Functor
  <2>4. QED
    BY <1>2, <2>1, <2>3
<1>10. ASSUME NEW t \in User, CheckSend(t) \/ CheckShutdown(t) PROVE BehindInv'
  BY <1>1, <1>10 DEF CheckSend, CheckShutdown, Calls, BehindInv, TcpInv, TypeOK
<1>11. ASSUME NEW t \in User, SetDisconnecting(t) PROVE BehindInv'
  <2>1. io' = io /\ ahead' = IF ahead < 0 THEN Len(io) ELSE ahead
    BY <1>11 DEF SetDisconnecting
  <2>2. 0 <= ahead' /\ Behind(io', ahead')
    BY <1>1, <2>1 DEF Behind
  <2>3. QED
    BY <2>2 DEF BehindInv
<1>12. ASSUME NEW t \in User, QueueWork(t) PROVE BehindInv'
  <2>1. user[t] = "queue" => 0 <= ahead
    BY DEF BehindInv
  <2>2. Behind(io', ahead)
    BY <1>1, <1>12, <2>1, BehindAppend DEF QueueWork, Functor
  <2>3. \A u \in User : user'[u] = "queue" => user[u] = "queue"
    BY <1>12 DEF QueueWork, TcpInv, TypeOK
  <2>4. ahead' = ahead
    BY <1>12 DEF QueueWork
  <2>5. QED
    BY <2>2, <2>3, <2>4 DEF BehindInv
<1>13. CASE UNCHANGED vars
  BY <1>1, <1>2, <1>13 DEF vars
<1>14. QED
  BY <1>4, <1>5, <1>6, <1>7, <1>8, <1>9, <1>10, <1>11, <1>12, <1>13
     DEF Next, IoLoop, Thread

LEMMA BehindAlways == Spec => []BehindInv
<1>1. Init => BehindInv
  BY DEF Init, BehindInv, Behind
<1>2. QED
  BY <1>1, BehindStep, TcpInvAlways, PTL DEF Spec

\* A step that closes the write side and shortens the queue runs shutdownInLoop.
LEMMA ShutRuns ==
  ASSUME TcpInv, TcpInv', BehindInv, [Next]_vars, ~ conn.shut, conn'.shut, Len(io') < Len(io)
  PROVE  ahead < 1
<1>1. /\ io \in Seq(Functor) /\ ahead \in Int /\ Behind(io, ahead)
      /\ Sound(conn) /\ conn \in Connection
  BY DEF TcpInv, TypeOK, BehindInv
<1>2. conn.shut # conn'.shut /\ io' # io /\ ~ (Len(io') >= Len(io))
  <2>1. io' \in Seq(Functor)
    BY DEF TcpInv, TypeOK
  <2>2. Len(io) \in Nat /\ Len(io') \in Nat
    BY <1>1, <2>1
  <2>3. ~ (Len(io') >= Len(io))
    BY <2>2
  <2>4. conn.shut # conn'.shut
    OBVIOUS
  <2>5. io' # io
    <3>1. Len(io) >= Len(io)
      BY <2>2
    <3>2. QED
      BY <2>3, <3>1
  <2>6. QED
    BY <2>3, <2>4, <2>5
<1>3. \A f \in Functor : Len(Append(io, f)) >= Len(io)
  BY <1>1
<1>4. \A d : Len(io \o Queued(conn, d)) >= Len(io)
  BY <1>1, BehindQueue
<1>5. CASE RunFunctor
  <2>1. CASE RunShutdown
    <3>1. io # <<>> /\ Head(io) = "shutdownInLoop"
      BY <1>5, <2>1 DEF RunFunctor, RunShutdown
    <3>2. 1 \in 1 .. Len(io) /\ io[1] = "shutdownInLoop"
      BY <1>1, <3>1
    <3>3. QED
      BY <1>1, <3>2 DEF Behind
  <2>2. CASE RunEstablished
    BY <1>1, <1>2, <2>2, EstablishedSound DEF RunEstablished
  <2>3. CASE RunDestroyed
    BY <1>1, <1>2, <2>3, SetState DEF RunDestroyed
  <2>4. CASE RunSend
    BY <1>1, <1>2, <2>4, SendInLoopSound DEF RunSend, SameReport
  <2>5. CASE RunWriteComplete
    BY <1>2, <2>5 DEF RunWriteComplete
  <2>6. QED
    BY <1>5, <2>1, <2>2, <2>3, <2>4, <2>5 DEF RunFunctor
<1>6. ASSUME HandleRead \/ HandleWrite \/ HandleHup PROVE FALSE
  <2>1. io' = io \/ io' = Append(io, "destroyed") \/ \E d : io' = io \o Queued(conn, d)
    BY <1>6 DEF HandleRead, ReadMessage, ReadError, ReadEnd, HandleWrite, HandleHup, HandleClose
  <2>2. QED
    BY <1>2, <1>3, <1>4, <2>1 DEF Functor
<1>7. ASSUME FinishDestroy \/ Accept \/ RemoveInLoop \/ PeerSends \/ PeerEnds PROVE FALSE
  <2>1. io' = io \/ io' = Append(io, "established") \/ io' = Append(io, "destroyed")
    BY <1>7 DEF FinishDestroy, Accept, RemoveInLoop, PeerSends, PeerEnds
  <2>2. QED
    BY <1>2, <1>3, <2>1 DEF Functor
<1>8. ASSUME NEW t \in User, CheckSend(t) \/ CheckShutdown(t) \/ Thread(t) PROVE FALSE
  <2>1. io' = io \/ \E f \in Functor : io' = Append(io, f)
    BY <1>8 DEF CheckSend, CheckShutdown, Calls, Thread, SetDisconnecting, QueueWork, Functor
  <2>2. QED
    BY <1>2, <1>3, <2>1
<1>9. QED
  BY <1>2, <1>5, <1>6, <1>7, <1>8 DEF Next, IoLoop, vars

-----------------------------------------------------------------------------
(* The theorems.                                                           *)

\* The members of the connection, both queues and the threads keep their ranges.
THEOREM TypeCorrect == Spec => []TypeOK
<1>1. TcpInv => TypeOK
  BY DEF TcpInv
<1>2. QED
  BY <1>1, TcpInvAlways, PTL

\* epoll has just what index and events of the channel say, and is never asked
\* to add what it has or to modify what it lacks.
THEOREM EntryAgrees == Spec => []RegistrationAgrees
<1>1. TcpInv => RegistrationAgrees
  BY DEF TcpInv, Sound, Registered, RegistrationAgrees
<1>2. QED
  BY <1>1, TcpInvAlways, PTL

\* The socket takes the units of all messages in order and each once, through the
\* buffer or past it, however much it takes at a time.
THEOREM UnitsInOrder == Spec => []OutputInOrder
<1>1. TcpInv => OutputInOrder
  <2> SUFFICES ASSUME TcpInv PROVE OutputInOrder
    OBVIOUS
  <2>1. conn.output \in Seq(Nat) /\ Ordered(conn)
    BY DEF TcpInv, Sound, Connection
  <2>2. conn.output = [k \in 1 .. Len(conn.output) |-> conn.wire + k]
    BY <2>1 DEF Ordered
  <2>3. QED
    BY <2>1, <2>2 DEF Ordered, OutputInOrder
<1>2. QED
  BY <1>1, TcpInvAlways, PTL

\* Output never stays in the buffer of an open connection without EPOLLOUT.
THEOREM BufferIsWatched == Spec => []OutputIsWatched
<1>1. TcpInv => OutputIsWatched
  <2> SUFFICES ASSUME TcpInv, conn.output # <<>>, ~ Down PROVE Watches("write")
    BY DEF OutputIsWatched
  <2>1. Sound(conn) /\ ~ IsDown(conn)
    BY DEF TcpInv, IsDown, Down, ToSet
  <2>2. "write" \in conn.events
    BY <2>1 DEF Sound, Awaited
  <2>3. conn.watched = <<conn.events>>
    BY <2>1, <2>2 DEF Sound, Registered
  <2>4. QED
    BY <2>2, <2>3 DEF Watches
<1>2. QED
  BY <1>1, TcpInvAlways, PTL

\* connected() reports UP once and first, and a connection whose state_ is
\* kDisconnected is not in the poller.  A shutdown() that read kConnected before
\* the close leaves kDisconnecting after it; of such a connection this says nothing,
\* and a queued sendInLoop may register it again.
THEOREM StaysEnded == Spec => []EndsForGood
<1>1. TcpInv /\ LifeInv => EndsForGood
  <2> SUFFICES ASSUME TcpInv, LifeInv PROVE EndsForGood
    OBVIOUS
  <2>1. DOMAIN conn.reported = 1 .. Len(conn.reported)
    BY DEF TcpInv, TypeOK, Connection
  <2>2. QED
    BY <2>1 DEF LifeInv, Unopened, Opened, EndsForGood
<1>2. QED
  BY <1>1, LifeInit, LifeStep, TcpInvAlways, PTL DEF Spec

\* Whoever closes the write side of a connection that is up, the socket has all
\* that sendInLoop took over; and a queued shutdownInLoop comes after everything
\* that was queued when shutdown() was first called.
THEOREM OutputBeforeShutdown == Spec => ShutdownAfterOutput
<1>1. TcpInv /\ TcpInv' /\ BehindInv /\ [Next]_vars
        => [~ conn.shut /\ conn'.shut /\ ~ Down =>
                /\ conn'.wire = conn'.accepted
                /\ Len(io') < Len(io) => ahead < 1]_vars
  <2> SUFFICES ASSUME TcpInv, TcpInv', BehindInv, [Next]_vars,
                      ~ conn.shut, conn'.shut, ~ Down
               PROVE  /\ conn'.wire = conn'.accepted
                      /\ Len(io') < Len(io) => ahead < 1
    OBVIOUS
  <2>1. ~ IsDown(conn)
    <3>1. DOMAIN conn.reported = 1 .. Len(conn.reported)
      BY DEF TcpInv, TypeOK, Connection
    <3>2. QED
      BY <3>1 DEF IsDown, Down, ToSet
  <2>2. conn'.output = <<>>
    BY <2>1, ShutStep
  <2>3. Ordered(conn') /\ conn'.wire \in Nat
    BY DEF TcpInv, Sound, Connection
  <2>4. conn'.wire = conn'.accepted
    BY <2>2, <2>3 DEF Ordered
  <2>5. Len(io') < Len(io) => ahead < 1
    BY ShutRuns
  <2>6. QED
    BY <2>4, <2>5
<1>2. QED
  BY <1>1, TcpInvAlways, BehindAlways, PTL DEF Spec, ShutdownAfterOutput

================================================================================
