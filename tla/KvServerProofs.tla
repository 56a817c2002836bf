--------------------------- MODULE KvServerProofs ---------------------------
(***************************************************************************)
(* The types of the server, mut_ as a lock of get() and putAppend(), the   *)
(* channel's handshake with the receiving thread, kvDB_ as the replay of   *)
(* the channel, and the channel as a mailbox, for any number of handlers,  *)
(* keys, words and requests.                                               *)
(***************************************************************************)
EXTENDS KvServer, SequenceTheorems, WellFoundedInduction, TLAPS

\* Only a put or an append gets as far as DoLog.
LogsCommands == \A h \in Handler : handler[h] = "logging" => request[h] \in Command

ServerInv == TypeOK /\ LogsCommands /\ NoLostWakeup

\* Executing a command keeps the shape of kvDB_.
LEMMA ExecType ==
  ASSUME NEW db \in [Key -> Seq(Word)], NEW c \in Command
  PROVE  Exec(db, c) \in [Key -> Seq(Word)]
<1>1. CASE c.value = NoWord
  BY <1>1 DEF Exec
<1>2. CASE c.value # NoWord
  <2>1. c.key \in Key /\ c.value \in Word
    BY <1>2 DEF Command
  <2>2. <<c.value>> \in Seq(Word) /\ Append(db[c.key], c.value) \in Seq(Word)
    BY <2>1
  <2>3. (IF c.op = "put" THEN <<c.value>> ELSE Append(db[c.key], c.value)) \in Seq(Word)
    BY <2>2
  <2> QED  BY <1>2, <2>1, <2>3 DEF Exec
<1> QED  BY <1>1, <1>2

LEMMA InitTyped == Init => ServerInv
<1> SUFFICES ASSUME Init PROVE ServerInv
  OBVIOUS
<1>1. cmd \in Command
  BY DEF Init
<1>2. [k \in Key |-> <<>>] \in [Key -> Seq(Word)]
  OBVIOUS
<1>3. kvDB \in [Key -> Seq(Word)]
  BY <1>1, <1>2, ExecType DEF Init
<1>4. /\ handler \in [Handler -> {"idle", "locking", "logging", "reading"}]
      /\ request \in [Handler -> Request \cup {NoRequest}]
      /\ \A h \in Handler : handler[h] = "idle" /\ request[h] = NoRequest
  BY DEF Init
<1>5. TypeOK
  <2>1. leader \in BOOLEAN /\ destroy \in BOOLEAN
    BY DEF Init
  <2>2. log \in Seq(Command) /\ que \in Seq(Command) /\ pushed \in Seq(Command)
    BY DEF Init
  <2>3. applied \in Nat /\ requests \in Nat /\ receiver = "test"
    BY DEF Init
  <2> QED  BY <1>1, <1>3, <1>4, <2>1, <2>2, <2>3 DEF TypeOK
<1>6. LogsCommands /\ NoLostWakeup
  BY <1>4 DEF Init, LogsCommands, NoLostWakeup
<1> QED  BY <1>5, <1>6 DEF ServerInv

-----------------------------------------------------------------------------
(* The receiving thread, the node and the destructor leave the handlers.   *)

LEMMA ReceiverSteps ==
  ASSUME ServerInv, Receive \/ SpuriousWakeup \/ Destroy
  PROVE  ServerInv'
<1> USE DEF ServerInv, nodeVars, threadVars, handlerVars
<1>1. CASE TestDestroy
  BY <1>1 DEF TestDestroy, TypeOK, LogsCommands, NoLostWakeup
<1>2. CASE Wait
  BY <1>2 DEF Wait, TypeOK, LogsCommands, NoLostWakeup
<1>3. CASE SpuriousWakeup
  BY <1>3 DEF SpuriousWakeup, TypeOK, LogsCommands, NoLostWakeup
<1>4. CASE PopData
  <2>1. Head(que) \in Command /\ Tail(que) \in Seq(Command)
    BY <1>4, HeadTailProperties DEF PopData, TypeOK
  <2> QED  BY <1>4, <2>1 DEF PopData, TypeOK, LogsCommands, NoLostWakeup
<1>5. CASE BeginWrite
  BY <1>5 DEF BeginWrite, TypeOK, LogsCommands, NoLostWakeup
<1>6. CASE EndWrite
  <2>1. kvDB' \in [Key -> Seq(Word)]
    BY <1>6, ExecType DEF EndWrite, TypeOK
  <2> QED  BY <1>6, <2>1 DEF EndWrite, TypeOK, LogsCommands, NoLostWakeup
<1>7. CASE Destroy
  BY <1>7 DEF Destroy, TypeOK, LogsCommands, NoLostWakeup
<1> QED
  BY <1>1, <1>2, <1>3, <1>4, <1>5, <1>6, <1>7 DEF Receive

LEMMA NodeSteps == ASSUME ServerInv, Node PROVE ServerInv'
<1> USE DEF ServerInv, nodeVars, threadVars, handlerVars
<1>1. CASE ChangeLeader
  BY <1>1 DEF ChangeLeader, TypeOK, LogsCommands, NoLostWakeup
<1>2. CASE Replicate
  <2>1. PICK kept \in 0 .. Len(log), c \in Command : log' = Append(SubSeq(log, 1, kept), c)
    BY <1>2 DEF Replicate
  <2>2. \A i \in 1 .. kept : log[i] \in Command
    BY DEF TypeOK
  <2>3. SubSeq(log, 1, kept) \in Seq(Command)
    <3>1. kept \in Int /\ 1 \in Int
      OBVIOUS
    <3> QED  BY <2>2, <3>1, SubSeqProperties
  <2>4. log' \in Seq(Command)
    BY <2>1, <2>3
  <2> QED  BY <1>2, <2>4 DEF Replicate, TypeOK, LogsCommands, NoLostWakeup
<1>3. CASE PushData
  <2>1. log[applied + 1] \in Command /\ applied + 1 \in Nat
    BY <1>3 DEF PushData, TypeOK
  <2>2. que' \in Seq(Command) /\ pushed' \in Seq(Command)
    BY <1>3, <2>1 DEF PushData, TypeOK
  <2>3. NoLostWakeup'
    BY <1>3 DEF PushData, NoLostWakeup
  <2>4. receiver' \in {"test", "pop", "waiting", "apply", "writing", "done"}
    BY <1>3 DEF PushData, TypeOK
  <2> QED  BY <1>3, <2>1, <2>2, <2>3, <2>4 DEF PushData, TypeOK, LogsCommands
<1> QED  BY <1>1, <1>2, <1>3 DEF Node

-----------------------------------------------------------------------------
(* A handler changes its own state and, at most, the log.                  *)

InCritical(f) == \A g, h \in Handler : {f[g], f[h]} \subseteq {"logging", "reading"} => g = h

\* At most the handler h enters, and only when no other is inside.
LEMMA EnterAlone ==
  ASSUME NEW f \in [Handler -> {"idle", "locking", "logging", "reading"}], NEW h \in Handler,
         NEW s, InCritical(f),
         s \in {"logging", "reading"} => \A g \in Handler : f[g] \notin {"logging", "reading"}
  PROVE  InCritical([f EXCEPT ![h] = s])
BY DEF InCritical

LEMMA HandlerSteps ==
  ASSUME ServerInv, NEW h \in Handler, Arrive(h) \/ Serve(h)
  PROVE  ServerInv'
<1> USE DEF ServerInv, nodeVars, threadVars
<1>0. InCritical(handler)
  BY DEF TypeOK, InCritical
<1>1. CASE Arrive(h)
  <2>1. PICK r \in Request : request' = [request EXCEPT ![h] = r]
    BY <1>1 DEF Arrive
  <2>2. r # NoRequest
    BY <2>1 DEF Request, Command, NoRequest
  <2>3. handler' = [handler EXCEPT ![h] = "locking"] /\ requests' \in Nat
    BY <1>1 DEF Arrive, TypeOK
  <2>4. InCritical(handler')
    BY <1>0, <2>3, EnterAlone DEF TypeOK
  <2>5. \A g \in Handler : request'[g] = NoRequest <=> handler'[g] = "idle"
    BY <2>1, <2>2, <2>3 DEF TypeOK
  <2>6. LogsCommands'
    BY <2>1, <2>3 DEF LogsCommands, TypeOK
  <2> QED  BY <1>1, <2>1, <2>3, <2>4, <2>5, <2>6 DEF Arrive, TypeOK, NoLostWakeup, InCritical
<1>2. CASE CheckLeader(h)
  <2> DEFINE s == IF request[h].op = "get" THEN "reading" ELSE "logging"
  <2>1. handler' = [handler EXCEPT ![h] = s] /\ s \in {"reading", "logging"}
    BY <1>2 DEF CheckLeader
  <2>2. InCritical(handler')
    <3>1. \A g \in Handler : handler[g] \notin {"logging", "reading"}
      BY <1>2 DEF CheckLeader, Free
    <3>2. handler \in [Handler -> {"idle", "locking", "logging", "reading"}]
      BY DEF TypeOK
    <3>3. InCritical([handler EXCEPT ![h] = s])
      BY <1>0, <3>1, <3>2, EnterAlone
    <3> QED  BY <2>1, <3>3
  <2>3. request[h] \in Request /\ request' = request
    BY <1>2 DEF CheckLeader, TypeOK
  <2>4. s = "logging" => request[h] \in Command
    BY <2>3 DEF Request
  <2>5. LogsCommands'
    BY <2>1, <2>3, <2>4 DEF LogsCommands, TypeOK
  <2>6. \A g \in Handler : request'[g] = NoRequest <=> handler'[g] = "idle"
    BY <1>2, <2>1, <2>3 DEF CheckLeader, TypeOK
  <2> QED  BY <1>2, <2>1, <2>2, <2>3, <2>5, <2>6 DEF CheckLeader, TypeOK, NoLostWakeup, InCritical
<1>3. ASSUME Finish(h), log' \in Seq(Command),
             UNCHANGED <<leader, applied, threadVars, destroy, requests>>
      PROVE  ServerInv'
  <2>1. InCritical(handler')
    BY <1>0, <1>3, EnterAlone DEF Finish, TypeOK
  <2>2. LogsCommands'
    BY <1>3 DEF Finish, LogsCommands, TypeOK
  <2>3. \A g \in Handler : request'[g] = NoRequest <=> handler'[g] = "idle"
    BY <1>3 DEF Finish, TypeOK
  <2> QED  BY <1>3, <2>1, <2>2, <2>3 DEF Finish, TypeOK, NoLostWakeup, InCritical
<1>4. CASE WrongLeader(h) \/ Read(h)
  BY <1>3, <1>4 DEF WrongLeader, Read, TypeOK
<1>5. CASE Put(h)
  <2>1. request[h] \in Command
    BY <1>5 DEF Put, LogsCommands
  <2> QED  BY <1>3, <1>5, <2>1 DEF Put, TypeOK
<1> QED  BY <1>1, <1>2, <1>4, <1>5 DEF Serve

-----------------------------------------------------------------------------

LEMMA StepTyped == ServerInv /\ [Next]_vars => ServerInv'
<1> SUFFICES ASSUME ServerInv, [Next]_vars PROVE ServerInv'
  OBVIOUS
<1>1. CASE Next
  BY <1>1, ReceiverSteps, NodeSteps, HandlerSteps DEF Next
<1>2. CASE UNCHANGED vars
  BY <1>2 DEF vars, ServerInv, TypeOK, LogsCommands, NoLostWakeup
<1> QED  BY <1>1, <1>2

\* Every variable keeps its type, and no two handlers are between the test of the
\* state and the answer.
THEOREM TypeCorrect == Spec => []TypeOK
<1>1. ServerInv => TypeOK
  BY DEF ServerInv
<1> QED  BY <1>1, InitTyped, StepTyped, PTL DEF Spec

\* pushData and popData lose no wakeup: a receiver sleeps only on an empty queue.
THEOREM WakeupReachesReceiver == Spec => []NoLostWakeup
<1>1. ServerInv => NoLostWakeup
  BY DEF ServerInv
<1> QED  BY <1>1, InitTyped, StepTyped, PTL DEF Spec

-----------------------------------------------------------------------------
(* kvDB_ as a replay of the channel.                                       *)

Databases == [Key -> Seq(Word)]
NoPairs == [k \in Key |-> <<>>]
FirstPut == {c \in Command : c.op = "put" /\ c.value # NoWord}

\* The databases that lead from db through the first commands pushed.
Leads(states, db, commands, number) ==
    /\ states \in [0 .. number -> Databases]
    /\ states[0] = db
    /\ \A k \in 1 .. number : states[k] = Exec(states[k - 1], commands[k])

\* What was popped, and the command the receiver holds, are what was pushed.
Popped == Len(pushed) - Len(que)
ChannelInv ==
    /\ Popped \in Nat
    /\ \A k \in 1 .. Len(que) : que[k] = pushed[Popped + k]
    /\ receiver \in {"apply", "writing"} => Popped >= 1 /\ cmd = pushed[Popped]

ReplayInv == \E first \in FirstPut, states \in [0 .. Taken -> Databases] :
    Leads(states, Exec(NoPairs, first), pushed, Taken) /\ states[Taken] = kvDB

\* There is one such sequence of databases: the least index at which two of them
\* differed would follow one at which they agree.
LEMMA ReplayIsLast ==
  ASSUME NEW db, NEW commands, NEW n \in Nat, NEW states, Leads(states, db, commands, n)
  PROVE  Replay(db, commands, n) = states[n]
<1> DEFINE Follows(f) == f = [k \in 0 .. n |-> IF k = 0 THEN db ELSE Exec(f[k - 1], commands[k])]
           after == CHOOSE f : Follows(f)
           Differ == {k \in 0 .. n : after[k] # states[k]}
           Less == {ss \in Nat \X Nat : ss[1] < ss[2]}
<1>1. Follows(states)
  <2>1. states = [k \in 0 .. n |-> states[k]]
    BY DEF Leads
  <2>2. \A k \in 0 .. n : states[k] = IF k = 0 THEN db ELSE Exec(states[k - 1], commands[k])
    BY DEF Leads
  <2>3. QED
    BY <2>1, <2>2
<1>2. Follows(after)
  <2> HIDE DEF Follows
  <2> QED
    BY <1>1
<1>3. Replay(db, commands, n) = after[n]
  BY DEF Replay
<1> HIDE DEF after
<1>4. /\ after[0] = db
      /\ \A k \in 1 .. n : after[k] = Exec(after[k - 1], commands[k])
  BY <1>2
<1>5. ASSUME Differ # {} PROVE FALSE
  <2>1. IsWellFoundedOn(Less, Nat)
    BY NatLessThanWellFounded DEF OpToRel
  <2>2. Differ \subseteq Nat
    OBVIOUS
  <2>3. PICK b \in Differ : \A c \in Differ : ~ (<<c, b>> \in Less)
    <3> HIDE DEF Differ, Less
    <3> QED
      BY <1>5, <2>1, <2>2, WFMin
  <2>4. b \in 1 .. n
    BY <1>4 DEF Leads
  <2>5. b - 1 \in 0 .. n /\ b - 1 \notin Differ
    <3>1. b \in Nat /\ b - 1 \in Nat /\ b - 1 < b /\ b - 1 \in 0 .. n
      BY <2>4
    <3>2. <<b - 1, b>> \in Less
      BY <3>1
    <3> HIDE DEF Differ, Less
    <3>3. QED
      BY <2>3, <3>1, <3>2
  <2>6. after[b - 1] = states[b - 1]
    BY <2>5
  <2>7. after[b] = states[b]
    BY <1>4, <2>4, <2>6 DEF Leads
  <2>8. QED
    BY <2>7
<1>6. QED
  BY <1>3, <1>5

\* The history of the channel grows at its end.
LEMMA PushKeeps ==
  ASSUME NEW p \in Seq(Command), NEW c \in Command
  PROVE  /\ Append(p, c) \in Seq(Command) /\ Len(Append(p, c)) = Len(p) + 1
         /\ \A k \in 1 .. Len(p) : Append(p, c)[k] = p[k]
         /\ Append(p, c)[Len(p) + 1] = c
  OBVIOUS

\* A step that executes nothing.
LEMMA SameReplay ==
  ASSUME ReplayInv, Taken \in Nat, Taken' = Taken, kvDB' = kvDB,
         \A k \in 1 .. Taken : pushed'[k] = pushed[k]
  PROVE  ReplayInv'
<1>1. PICK first \in FirstPut, states \in [0 .. Taken -> Databases] :
        Leads(states, Exec(NoPairs, first), pushed, Taken) /\ states[Taken] = kvDB
  BY DEF ReplayInv
<1>2. Leads(states, Exec(NoPairs, first), pushed', Taken)
  BY <1>1 DEF Leads
<1>3. QED
  BY <1>1, <1>2 DEF ReplayInv

\* The commands not taken yet are those of the queue and the one popped.
LEMMA TakenNumber ==
  ASSUME TypeOK, ChannelInv
  PROVE  /\ Taken \in 0 .. Len(pushed) /\ Popped \in 0 .. Len(pushed)
         /\ Taken = IF receiver \in {"apply", "writing"} THEN Popped - 1 ELSE Popped
<1>1. Len(pushed) \in Nat /\ Len(que) \in Nat /\ Popped = Len(pushed) - Len(que) /\ Popped \in Nat
  BY DEF TypeOK, ChannelInv, Popped
<1>2. Taken = Popped - (IF receiver \in {"apply", "writing"} THEN 1 ELSE 0)
  BY DEF Taken, Popped
<1>3. receiver \in {"apply", "writing"} => Popped >= 1
  BY DEF ChannelInv
<1> HIDE DEF Popped
<1>4. QED
  BY <1>1, <1>2, <1>3

\* Steps of other threads.
LEMMA StillReplay ==
  ASSUME TypeOK, ChannelInv, ReplayInv, que' = que, pushed' = pushed, kvDB' = kvDB, cmd' = cmd,
         receiver' \in {"apply", "writing"} <=> receiver \in {"apply", "writing"}
  PROVE  ChannelInv' /\ ReplayInv'
<1>1. Popped' = Popped /\ Taken' = Taken
  BY DEF Popped, Taken
<1>2. ChannelInv'
  BY <1>1 DEF ChannelInv
<1>3. Taken \in Nat
  BY TakenNumber
<1>4. QED
  BY <1>1, <1>2, <1>3, SameReplay

\* The receiver takes the oldest command of the queue.
LEMMA PopReplay ==
  ASSUME TypeOK, ChannelInv, ReplayInv, PopData
  PROVE  ChannelInv' /\ ReplayInv'
<1>1. /\ que \in Seq(Command) /\ que # <<>> /\ receiver = "pop" /\ receiver' = "apply"
      /\ que' = Tail(que) /\ cmd' = Head(que) /\ pushed' = pushed /\ kvDB' = kvDB
      /\ Len(pushed) \in Nat /\ Popped \in Nat
  BY DEF TypeOK, PopData, ChannelInv
<1>2. /\ Len(que) \in Nat \ {0} /\ Len(que') = Len(que) - 1 /\ cmd' = que[1]
      /\ \A k \in 1 .. Len(que') : que'[k] = que[k + 1] /\ k + 1 \in 1 .. Len(que)
  BY <1>1
<1>3. Popped' = Popped + 1 /\ Taken = Popped /\ Taken' = Popped
  <2>1. Popped = Len(pushed) - Len(que) /\ Popped' = Len(pushed) - Len(que')
    BY <1>1 DEF Popped
  <2>2. Popped' = Popped + 1
    BY <1>1, <1>2, <2>1
  <2>3. Taken = Popped /\ Taken' = Popped' - 1
    BY <1>1, <1>2 DEF Taken, Popped
  <2>4. QED
    BY <1>1, <2>2, <2>3
<1>4. cmd' = pushed[Popped'] /\ Popped' >= 1
  BY <1>1, <1>2, <1>3 DEF ChannelInv
<1>5. \A k \in 1 .. Len(que') : que'[k] = pushed[Popped' + k]
  <2> TAKE k \in 1 .. Len(que')
  <2>1. que'[k] = pushed[Popped + (k + 1)]
    BY <1>2 DEF ChannelInv
  <2>2. Popped + (k + 1) = Popped' + k
    BY <1>1, <1>2, <1>3
  <2>3. QED
    BY <2>1, <2>2
<1>6. ChannelInv'
  BY <1>1, <1>3, <1>4, <1>5 DEF ChannelInv
<1>7. ReplayInv'
  BY <1>1, <1>3, SameReplay
<1>8. QED
  BY <1>6, <1>7

\* The node pushes one more command.
LEMMA PushReplay ==
  ASSUME TypeOK, ChannelInv, ReplayInv, PushData
  PROVE  ChannelInv' /\ ReplayInv'
<1> DEFINE c == log[applied + 1]
<1>1. /\ c \in Command /\ que' = Append(que, c) /\ pushed' = Append(pushed, c)
      /\ kvDB' = kvDB /\ cmd' = cmd /\ que \in Seq(Command) /\ pushed \in Seq(Command)
      /\ (receiver' \in {"apply", "writing"} <=> receiver \in {"apply", "writing"})
  BY DEF PushData, TypeOK
<1> HIDE DEF c
<1>2. /\ Len(pushed) \in Nat /\ Len(que) \in Nat
      /\ Len(pushed') = Len(pushed) + 1 /\ Len(que') = Len(que) + 1
      /\ \A k \in 1 .. Len(pushed) : pushed'[k] = pushed[k]
      /\ \A k \in 1 .. Len(que) : que'[k] = que[k]
      /\ que'[Len(que) + 1] = c /\ pushed'[Len(pushed) + 1] = c
  BY <1>1, PushKeeps
<1>3. /\ Popped = Len(pushed) - Len(que) /\ Popped' = Popped /\ Taken' = Taken
      /\ Taken \in 0 .. Len(pushed) /\ Popped \in 0 .. Len(pushed)
  <2>1. Popped = Len(pushed) - Len(que) /\ Popped' = Len(pushed') - Len(que')
    BY DEF Popped
  <2>2. Popped' = Popped
    BY <1>2, <2>1
  <2>3. Taken' = Taken
    BY <1>1, <2>1, <2>2 DEF Taken
  <2>4. QED
    BY <2>1, <2>2, <2>3, TakenNumber
<1>4. \A k \in 1 .. Len(que') : que'[k] = pushed'[Popped' + k]
  <2> TAKE k \in 1 .. Len(que')
  <2>1. CASE k \in 1 .. Len(que)
    <3>1. que'[k] = pushed[Popped + k] /\ Popped + k \in 1 .. Len(pushed)
      BY <1>2, <1>3, <2>1 DEF ChannelInv
    <3>2. QED
      BY <1>2, <1>3, <3>1
  <2>2. CASE k = Len(que) + 1
    <3>1. Popped' + k = Len(pushed) + 1
      BY <1>2, <1>3, <2>2
    <3>2. QED
      BY <1>2, <2>2, <3>1
  <2>3. QED
    BY <1>2, <2>1, <2>2
<1>5. receiver' \in {"apply", "writing"} => Popped' >= 1 /\ cmd' = pushed'[Popped']
  BY <1>1, <1>2, <1>3 DEF ChannelInv
<1>6. ChannelInv'
  BY <1>3, <1>4, <1>5 DEF ChannelInv
<1>7. ReplayInv'
  BY <1>1, <1>2, <1>3, SameReplay
<1>8. QED
  BY <1>6, <1>7

\* The receiver executes the command it holds, the next of the replay.
LEMMA ExecReplay ==
  ASSUME TypeOK, ChannelInv, ReplayInv, EndWrite
  PROVE  ChannelInv' /\ ReplayInv'
<1>1. /\ receiver \in {"apply", "writing"} /\ receiver' = "test" /\ kvDB' = Exec(kvDB, cmd)
      /\ que' = que /\ pushed' = pushed /\ cmd' = cmd
      /\ cmd \in Command /\ kvDB \in Databases
  BY DEF EndWrite, TypeOK, Databases
<1>2. /\ Taken \in Nat /\ Popped = Taken + 1 /\ Popped' = Popped /\ Taken' = Taken + 1
      /\ cmd = pushed[Taken + 1]
  <2>1. Popped' = Popped /\ Popped \in Nat /\ Popped >= 1 /\ cmd = pushed[Popped]
    BY <1>1 DEF Popped, ChannelInv
  <2>2. Taken = Popped - 1 /\ Taken \in Nat
    BY <1>1, TakenNumber
  <2>3. Taken' = Popped
    BY <1>1, <2>1 DEF Taken, Popped
  <2>4. QED
    BY <2>1, <2>2, <2>3
<1>3. ChannelInv'
  BY <1>1, <1>2 DEF ChannelInv
<1>4. PICK first \in FirstPut, states \in [0 .. Taken -> Databases] :
        Leads(states, Exec(NoPairs, first), pushed, Taken) /\ states[Taken] = kvDB
  BY DEF ReplayInv
<1> DEFINE n == Taken
           more == [k \in 0 .. n + 1 |-> IF k <= n THEN states[k] ELSE Exec(kvDB, cmd)]
<1>5. Exec(kvDB, cmd) \in Databases
  BY <1>1, ExecType DEF Databases
<1>6. more \in [0 .. n + 1 -> Databases] /\ more[n + 1] = Exec(kvDB, cmd)
      /\ \A k \in 0 .. n : more[k] = states[k]
  BY <1>2, <1>4, <1>5
<1>7. Leads(more, Exec(NoPairs, first), pushed, n + 1)
  <2>1. ASSUME NEW k \in 1 .. n + 1 PROVE more[k] = Exec(more[k - 1], pushed[k])
    <3> HIDE DEF more
    <3>1. CASE k \in 1 .. n
      <4>1. k \in 0 .. n /\ k - 1 \in 0 .. n
        BY <1>2, <3>1
      <4>2. QED
        BY <1>4, <1>6, <3>1, <4>1 DEF Leads
    <3>2. CASE k = n + 1
      <4>1. k - 1 = n /\ n \in 0 .. n
        BY <1>2, <3>2
      <4>2. QED
        BY <1>2, <1>4, <1>6, <3>2, <4>1
    <3>3. QED
      BY <1>2, <3>1, <3>2
  <2>2. more[0] = Exec(NoPairs, first)
    BY <1>2, <1>4, <1>6 DEF Leads
  <2>3. QED
    BY <1>6, <2>1, <2>2 DEF Leads
<1>8. ReplayInv'
  <2> HIDE DEF more
  <2> QED
    BY <1>1, <1>2, <1>6, <1>7 DEF ReplayInv
<1>9. QED
  BY <1>3, <1>8

LEMMA ReplayStep == ServerInv /\ ChannelInv /\ ReplayInv /\ [Next]_vars => ChannelInv' /\ ReplayInv'
<1> SUFFICES ASSUME ServerInv, ChannelInv, ReplayInv, [Next]_vars PROVE ChannelInv' /\ ReplayInv'
  OBVIOUS
<1>1. TypeOK
  BY DEF ServerInv
<1>2. CASE PopData \/ PushData \/ EndWrite
  BY <1>1, <1>2, PopReplay, PushReplay, ExecReplay
<1>3. CASE \/ TestDestroy \/ Wait \/ BeginWrite \/ SpuriousWakeup \/ Destroy \/ ChangeLeader
           \/ Replicate \/ UNCHANGED vars
           \/ \E h \in Handler : Arrive(h) \/ Serve(h)
  <2>1. /\ que' = que /\ pushed' = pushed /\ kvDB' = kvDB /\ cmd' = cmd
        /\ (receiver' \in {"apply", "writing"} <=> receiver \in {"apply", "writing"})
    BY <1>3 DEF TestDestroy, Wait, BeginWrite, SpuriousWakeup, Destroy, ChangeLeader, Replicate,
                Arrive, Serve, WrongLeader, CheckLeader, Read, Put, Finish, vars, threadVars
  <2>2. QED
    BY <1>1, <2>1, StillReplay
<1>4. QED
  BY <1>2, <1>3 DEF Next, Receive, Node

LEMMA ReplayInit == Init => ChannelInv /\ ReplayInv
<1> SUFFICES ASSUME Init PROVE ChannelInv /\ ReplayInv
  OBVIOUS
<1>1. /\ que = <<>> /\ pushed = <<>> /\ receiver = "test" /\ cmd \in FirstPut /\ cmd \in Command
      /\ kvDB = Exec(NoPairs, cmd)
  BY DEF Init, FirstPut, NoPairs
<1>2. Popped = 0 /\ Taken = 0
  <2>1. Len(que) = 0 /\ Len(pushed) = 0
    BY <1>1
  <2>2. Taken = Len(pushed) - Len(que) - 0
    BY <1>1 DEF Taken
  <2>3. Popped = 0
    BY <2>1 DEF Popped
  <2>4. QED
    BY <2>1, <2>2, <2>3
<1>3. ChannelInv
  BY <1>1, <1>2 DEF ChannelInv
<1>4. kvDB \in Databases
  <2>1. NoPairs \in [Key -> Seq(Word)]
    BY DEF NoPairs
  <2>2. QED
    BY <1>1, <2>1, ExecType DEF Databases
<1> DEFINE states == [k \in 0 .. 0 |-> kvDB]
<1>5. states \in [0 .. 0 -> Databases] /\ states[0] = kvDB
  BY <1>4
<1>6. Leads(states, Exec(NoPairs, cmd), pushed, 0)
  <2> HIDE DEF states
  <2> QED
    BY <1>1, <1>5 DEF Leads
<1>7. ReplayInv
  <2> HIDE DEF states
  <2> QED
    BY <1>1, <1>2, <1>5, <1>6 DEF ReplayInv
<1>8. QED
  BY <1>3, <1>7

\* kvDB_ is what executing the pushed commands in their order makes of the pair
\* the constructor stored, wherever recieveMsgThread and pushData are.
THEOREM KvDbReplaysChannel == Spec => []DbIsReplay
<1>1. ServerInv /\ ChannelInv /\ ReplayInv => DbIsReplay
  <2> SUFFICES ASSUME TypeOK, ChannelInv, ReplayInv PROVE DbIsReplay
    BY DEF ServerInv
  <2>1. Taken \in 0 .. Len(pushed) /\ Taken \in Nat
    BY TakenNumber DEF TypeOK
  <2>2. PICK first \in FirstPut, states \in [0 .. Taken -> Databases] :
          Leads(states, Exec(NoPairs, first), pushed, Taken) /\ states[Taken] = kvDB
    BY DEF ReplayInv
  <2>3. Replay(Exec(NoPairs, first), pushed, Taken) = kvDB
    BY <2>1, <2>2, ReplayIsLast
  <2>4. QED
    BY <2>1, <2>2, <2>3 DEF DbIsReplay, FirstPut, NoPairs
<1>2. QED
  BY <1>1, InitTyped, StepTyped, ReplayInit, ReplayStep, PTL DEF Spec

-----------------------------------------------------------------------------
(* The channel as a mailbox.                                               *)

Channel == INSTANCE Mailbox WITH put <- Len(pushed), taken <- Popped

\* A command is popped once, in the order of pushData, and what popData returns is
\* the next one that was pushed.
PoppedOnceInOrder ==
    Channel!Spec /\ [][Popped' # Popped => cmd' = pushed[Popped + 1]]_vars

\* Every step puts one command, takes one, or leaves the channel alone.
LEMMA ChannelStep ==
  ASSUME ServerInv, ChannelInv, [Next]_vars
  PROVE  /\ [Channel!Next]_<<Len(pushed), Popped>>
         /\ Popped' # Popped => cmd' = pushed[Popped + 1]
<1>1. /\ Len(pushed) \in Nat /\ Len(que) \in Nat /\ Popped = Len(pushed) - Len(que)
      /\ Popped' = Len(pushed') - Len(que')
  BY DEF ServerInv, TypeOK, Popped
<1>2. CASE PopData
  <2>1. que \in Seq(Command) /\ que # <<>> /\ que' = Tail(que) /\ cmd' = Head(que) /\ pushed' = pushed
    BY <1>2 DEF ServerInv, TypeOK, PopData
  <2>2. Len(que) >= 1 /\ Len(que') = Len(que) - 1 /\ cmd' = que[1]
    BY <2>1
  <2>3. Popped' = Popped + 1 /\ Popped < Len(pushed) /\ Len(pushed)' = Len(pushed)
    BY <1>1, <2>1, <2>2
  <2>4. cmd' = pushed[Popped + 1]
    BY <1>1, <2>2 DEF ChannelInv
  <2> QED  BY <2>3, <2>4 DEF Channel!Next, Channel!Take
<1>3. CASE PushData
  <2>1. PICK c : que' = Append(que, c) /\ pushed' = Append(pushed, c)
    BY <1>3 DEF PushData
  <2>2. que \in Seq(Command) /\ pushed \in Seq(Command)
    BY DEF ServerInv, TypeOK
  <2>3. Len(que') = Len(que) + 1 /\ Len(pushed') = Len(pushed) + 1
    BY <2>1, <2>2
  <2>4. Popped' = Popped /\ Len(pushed)' = Len(pushed) + 1
    BY <1>1, <2>3
  <2> QED  BY <2>4 DEF Channel!Next, Channel!Put
<1>4. CASE \/ EndWrite \/ TestDestroy \/ Wait \/ BeginWrite \/ SpuriousWakeup \/ Destroy
           \/ ChangeLeader \/ Replicate \/ UNCHANGED vars
           \/ \E h \in Handler : Arrive(h) \/ Serve(h)
  <2>1. que' = que /\ pushed' = pushed
    BY <1>4 DEF EndWrite, TestDestroy, Wait, BeginWrite, SpuriousWakeup, Destroy, ChangeLeader,
                Replicate, Arrive, Serve, WrongLeader, CheckLeader, Read, Put, Finish, vars, threadVars
  <2> QED  BY <2>1 DEF Popped
<1> QED  BY <1>2, <1>3, <1>4 DEF Next, Receive, Node

\* MyChannel is the mailbox that pendingFunctors_ is too.
THEOREM ChannelIsMailbox == Spec => PoppedOnceInOrder
<1>1. Init => Channel!Init
  <2> SUFFICES ASSUME Init PROVE Channel!Init
    OBVIOUS
  <2>1. Len(pushed) = 0 /\ Len(que) = 0
    BY DEF Init
  <2> QED  BY <2>1 DEF Channel!Init, Popped
<1>2. ServerInv /\ ChannelInv /\ ReplayInv /\ [Next]_vars =>
        /\ [Channel!Next]_<<Len(pushed), Popped>>
        /\ [Popped' # Popped => cmd' = pushed[Popped + 1]]_vars
  BY ChannelStep
<1> QED
  BY <1>1, <1>2, InitTyped, StepTyped, ReplayInit, ReplayStep, PTL
     DEF Spec, PoppedOnceInOrder, Channel!Spec, Channel!mailboxVars

=============================================================================
