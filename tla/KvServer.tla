------------------------------- MODULE KvServer -------------------------------
(***************************************************************************)
(* One Skvserver (SRaft/Skvserver.cc), the MyChannel it shares with its    *)
(* SRaft node, and the part of that node it can see.                       *)
(*                                                                         *)
(* gRPC handler threads run get() and putAppend() under mut_.  The node    *)
(* pushes what is committed on the channel, and recieveMsgThread pops it   *)
(* and writes kvDB_ without mut_.  A handler holds mut_ from its first to  *)
(* its last step; the steps in between are where the node or the receiving *)
(* thread may run.                                                         *)
(***************************************************************************)
EXTENDS Integers, Sequences, SequencesExt

CONSTANTS
    Handler,      \* gRPC threads that serve this server
    Key, Word,    \* keys, and values of one word
    NoWord,       \* a value ss>>value cannot read: empty or blank
    MaxRequests,  \* bound: requests served
    MaxLog        \* bound: log length up to which other leaders replicate
ASSUME NoWordAssumption == NoWord \notin Word
ASSUME KvBoundsAssumption == MaxRequests \in Nat /\ MaxLog \in Nat

VARIABLES
    leader,    \* node_->GetState() == LEADER
    log,       \* the commands in the node's log
    applied,   \* how many of them DoApply has pushed
    que,       \* MyChannel::que
    receiver,  \* where recieveMsgThread is
    cmd,       \* the command it popped last
    kvDB,      \* kvDB_; <<>> stands for an absent key
    destroy,   \* tobeDestroy_
    handler,   \* where each handler thread is
    request,   \* the request it serves, NoRequest when it is idle
    requests,  \* requests so far
    pushed     \* history: every command pushed on the channel

vars == <<leader, log, applied, que, receiver, cmd, kvDB, destroy, handler,
          request, requests, pushed>>
nodeVars == <<leader, log, applied>>
threadVars == <<que, receiver, cmd, kvDB, pushed>>
handlerVars == <<handler, request, requests>>

Command == [op : {"put", "append"}, key : Key, value : Word \cup {NoWord}]
Request == Command \cup [op : {"get"}, key : Key]
NoRequest == [op |-> "none"]

-----------------------------------------------------------------------------
(* recieveMsgThread and the channel.                                       *)

\* What the thread does with a command; one it cannot read is dropped.
Exec(db, c) ==
    IF c.value = NoWord THEN db
    ELSE [db EXCEPT ![c.key] = IF c.op = "put" THEN <<c.value>> ELSE Append(@, c.value)]

\* Faulty variant: the flag is not tested.
TestNothing ==
    /\ receiver = "test"
    /\ receiver' = "pop"
    /\ UNCHANGED <<nodeVars, que, cmd, kvDB, pushed, destroy, handlerVars>>
TestDestroy ==
    /\ receiver = "test"
    /\ receiver' = IF destroy THEN "done" ELSE "pop"
    /\ UNCHANGED <<nodeVars, que, cmd, kvDB, pushed, destroy, handlerVars>>

\* popData finds the queue empty and waits, which releases the channel's lock.
Wait ==
    /\ receiver = "pop"
    /\ que = <<>>
    /\ receiver' = "waiting"
    /\ UNCHANGED <<nodeVars, que, cmd, kvDB, pushed, destroy, handlerVars>>

SpuriousWakeup ==
    /\ receiver = "waiting"
    /\ receiver' = "pop"
    /\ UNCHANGED <<nodeVars, que, cmd, kvDB, pushed, destroy, handlerVars>>

\* Faulty variant: the newest command first.
PopNewest ==
    /\ receiver = "pop"
    /\ que # <<>>
    /\ cmd' = Last(que)
    /\ que' = Front(que)
    /\ receiver' = "apply"
    /\ UNCHANGED <<nodeVars, kvDB, pushed, destroy, handlerVars>>
PopData ==
    /\ receiver = "pop"
    /\ que # <<>>
    /\ cmd' = Head(que)
    /\ que' = Tail(que)
    /\ receiver' = "apply"
    /\ UNCHANGED <<nodeVars, kvDB, pushed, destroy, handlerVars>>

\* The write of kvDB_ begins ...
BeginWrite ==
    /\ receiver = "apply"
    /\ cmd.value # NoWord
    /\ receiver' = "writing"
    /\ UNCHANGED <<nodeVars, que, cmd, kvDB, pushed, destroy, handlerVars>>

\* ... and ends, or there was nothing to write.
EndWrite ==
    /\ receiver = "writing" \/ (receiver = "apply" /\ cmd.value = NoWord)
    /\ kvDB' = Exec(kvDB, cmd)
    /\ receiver' = "test"
    /\ UNCHANGED <<nodeVars, que, cmd, pushed, destroy, handlerVars>>

\* ~Skvserver sets the flag, then joins the thread.
Destroy ==
    /\ ~ destroy
    /\ destroy' = TRUE
    /\ UNCHANGED <<nodeVars, threadVars, handlerVars>>

-----------------------------------------------------------------------------
(* The node, as the server sees it.                                        *)

\* Elections and steps down, at any time.
ChangeLeader ==
    /\ leader' = ~ leader
    /\ UNCHANGED <<log, applied, threadVars, destroy, handlerVars>>

\* Another leader's AppendEntries erases a part of the log and extends it.
Replicate ==
    /\ ~ leader
    /\ \E kept \in 0 .. Len(log), c \in Command :
        /\ kept < MaxLog
        /\ log' = Append(SubSeq(log, 1, kept), c)
    /\ UNCHANGED <<leader, applied, threadVars, destroy, handlerVars>>

\* Faulty variant: nobody is notified.
PushSilently ==
    /\ leader
    /\ applied < Len(log)
    /\ applied' = applied + 1
    /\ que' = Append(que, log[applied + 1])
    /\ pushed' = Append(pushed, log[applied + 1])
    /\ UNCHANGED <<leader, log, receiver, cmd, kvDB, destroy, handlerVars>>
\* A leader's DoApply: pushData appends and notifies under the channel's lock.
PushData ==
    /\ leader
    /\ applied < Len(log)
    /\ applied' = applied + 1
    /\ que' = Append(que, log[applied + 1])
    /\ pushed' = Append(pushed, log[applied + 1])
    /\ receiver' = IF receiver = "waiting" THEN "pop" ELSE receiver
    /\ UNCHANGED <<leader, log, cmd, kvDB, destroy, handlerVars>>

-----------------------------------------------------------------------------
(* get() and putAppend().                                                  *)

Free == \A h \in Handler : handler[h] \notin {"logging", "reading"}

Arrive(h) ==
    /\ handler[h] = "idle"
    /\ requests < MaxRequests
    /\ requests' = requests + 1
    /\ \E r \in Request : request' = [request EXCEPT ![h] = r]
    /\ handler' = [handler EXCEPT ![h] = "locking"]
    /\ UNCHANGED <<nodeVars, threadVars, destroy>>

Finish(h) ==
    /\ handler' = [handler EXCEPT ![h] = "idle"]
    /\ request' = [request EXCEPT ![h] = NoRequest]

\* Faulty variant: the request waits until the node leads.
WrongLeaderWaits(h) ==
    /\ handler[h] = "locking"
    /\ Free
    /\ ~ leader
    /\ UNCHANGED vars
WrongLeader(h) ==
    /\ handler[h] = "locking"
    /\ Free
    /\ ~ leader
    /\ Finish(h)
    /\ UNCHANGED <<nodeVars, threadVars, destroy, requests>>

\* GetState() answers LEADER.
CheckLeader(h) ==
    /\ handler[h] = "locking"
    /\ Free
    /\ leader
    /\ handler' = [handler EXCEPT ![h] = IF request[h].op = "get" THEN "reading" ELSE "logging"]
    /\ UNCHANGED <<nodeVars, threadVars, destroy, request, requests>>

\* get() has read kvDB_ and answers.
Read(h) ==
    /\ handler[h] = "reading"
    /\ Finish(h)
    /\ UNCHANGED <<nodeVars, threadVars, destroy, requests>>

\* DoLog tests the state again, under the node's lock; its result is not looked
\* at and the answer, without an error, has been filled in.
Put(h) ==
    /\ handler[h] = "logging"
    /\ log' = IF leader THEN Append(log, request[h]) ELSE log
    /\ Finish(h)
    /\ UNCHANGED <<leader, applied, threadVars, destroy, requests>>

-----------------------------------------------------------------------------

\* The constructor stores one pair; the node runs, nobody leads.
Init ==
    /\ leader = FALSE /\ log = <<>> /\ applied = 0
    /\ que = <<>> /\ receiver = "test" /\ destroy = FALSE /\ pushed = <<>>
    /\ cmd \in {c \in Command : c.op = "put" /\ c.value # NoWord}
    /\ kvDB = Exec([k \in Key |-> <<>>], cmd)
    /\ handler = [h \in Handler |-> "idle"]
    /\ request = [h \in Handler |-> NoRequest]
    /\ requests = 0

Receive == TestDestroy \/ Wait \/ PopData \/ BeginWrite \/ EndWrite
Serve(h) == WrongLeader(h) \/ CheckLeader(h) \/ Read(h) \/ Put(h)
Node == ChangeLeader \/ Replicate \/ PushData

Next ==
    \/ Receive \/ SpuriousWakeup \/ Destroy \/ Node
    \/ \E h \in Handler : Arrive(h) \/ Serve(h)

Spec == Init /\ [][Next]_vars

\* Threads run.  Handlers that compete for mut_ are finitely many, so nothing
\* stronger than weak fairness is asked of the lock.
Fairness == WF_vars(Receive) /\ \A h \in Handler : WF_vars(Serve(h))
FairSpec == Spec /\ Fairness

-----------------------------------------------------------------------------

\* One handler at a time is between the lock and the unlock of mut_.
TypeOK ==
    /\ leader \in BOOLEAN /\ destroy \in BOOLEAN
    /\ log \in Seq(Command) /\ applied \in Nat
    /\ que \in Seq(Command) /\ cmd \in Command
    /\ receiver \in {"test", "pop", "waiting", "apply", "writing", "done"}
    /\ kvDB \in [Key -> Seq(Word)]
    /\ handler \in [Handler -> {"idle", "locking", "logging", "reading"}]
    /\ request \in [Handler -> Request \cup {NoRequest}]
    /\ \A h \in Handler : request[h] = NoRequest <=> handler[h] = "idle"
    /\ requests \in Nat /\ pushed \in Seq(Command)
    /\ \A g, h \in Handler :
         {handler[g], handler[h]} \subseteq {"logging", "reading"} => g = h

\* A command on the channel never meets a sleeping receiver: pushData notifies
\* under the lock, and the receiver tests the queue under it before it waits.
NoLostWakeup == receiver = "waiting" => que = <<>>

\* How many of the pushed commands kvDB_ has seen.
Taken == Len(pushed) - Len(que) - (IF receiver \in {"apply", "writing"} THEN 1 ELSE 0)

\* A database after the first commands of a sequence, one after the other.
Replay(db, commands, number) ==
    LET after[k \in 0 .. number] == IF k = 0 THEN db ELSE Exec(after[k - 1], commands[k])
    IN  after[number]

\* kvDB_ is the replay of the commands pushed first, each once and in order,
\* with the unreadable ones dropped.
DbIsReplay ==
    /\ Taken \in 0 .. Len(pushed)
    /\ \E first \in {c \in Command : c.op = "put" /\ c.value # NoWord} :
         kvDB = Replay(Exec([k \in Key |-> <<>>], first), pushed, Taken)

\* Every request is answered, however leadership changes meanwhile.
EveryRequestAnswered == \A h \in Handler : handler[h] = "locking" ~> handler[h] = "idle"

\* What the node applies reaches kvDB_, unless the server is destroyed.
EveryCommandExecuted ==
    \A k \in 1 .. MaxRequests + MaxLog : Len(pushed) >= k ~> (Taken >= k \/ destroy)

\* The receiving thread of a destroyed server ends if one more command comes.
CommandEndsReceiver == (destroy /\ que # <<>>) ~> receiver = "done"

===============================================================================
