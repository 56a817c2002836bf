-------------------------------- MODULE SRaft --------------------------------
(***************************************************************************)
(* The consensus node of SRaft/SRaft.cc, one SRaft object per server, and  *)
(* the unary gRPC calls between the nodes (SRaft/SRaftRpc.cc).             *)
(*                                                                         *)
(* Every handler of the class takes mut_ for its whole body, so a handler  *)
(* is one action.  A call is made by a detached thread of its own, without *)
(* a deadline: calls and answers overtake one another freely, and a call   *)
(* that fails still runs the response handler, with a default response.    *)
(* The timers (OnTimer polls three deadlines) may expire at any time.      *)
(***************************************************************************)
EXTENDS Integers, Sequences, FiniteSets

CONSTANTS
    Server,      \* the nodes, each a peer of all the others
    Cmd,         \* commands given to DoLog
    NoCmd,       \* the data of a LogEntry that lacks required members: none
    TornCmd,     \* data that a cut file holds a part of, or nothing
    UINT64_MAX,  \* what -1 becomes in a uint64 field
    MaxTerm,     \* bound: no election beyond this term
    MaxLog,      \* bound: log indexes stay below MaxLog
    MaxFaults,   \* bound: crashes plus dropped connections
    MaxCalls     \* bound: a node starts calls while at most this many are in flight

ASSUME ServerAssumption == IsFiniteSet(Server) /\ Server # {}
ASSUME CmdAssumption == NoCmd \notin Cmd /\ TornCmd \notin Cmd /\ NoCmd # TornCmd
ASSUME BoundsAssumption ==
    MaxTerm \in Nat /\ MaxLog \in Nat \ {0} /\ MaxFaults \in Nat /\ MaxCalls \in Nat
ASSUME UintAssumption == UINT64_MAX \in Nat /\ UINT64_MAX > MaxTerm

VARIABLES
    proc,   \* "down", "segv", "created" (running_ = false) or "running"
    node,   \* the fields of each SRaft object
    disk,   \* <addr>.persist; a missing file reads as term 0, no log
    rpcs,   \* the calls and answers in flight
    votes,  \* history: every vote ever given, [voter, term, candidate]
    lost,   \* history: the highest term a file has lost, and whether an entry of it was torn
    faults  \* crashes and dropped connections so far

vars == <<proc, node, disk, rpcs, votes, lost, faults>>

Term  == 0 .. MaxTerm
Index == -1 .. MaxLog - 1
Data  == Cmd \cup {NoCmd, TornCmd}
Entry == [term : Term, index : Index, cmd : Data]
NoEntry == [term |-> 0, index |-> 0, cmd |-> NoCmd]

-----------------------------------------------------------------------------
(* The log, a std::vector<LogEntry>; -1 stands for "none".                 *)

BaseLogIndex(logs) == IF logs = <<>> THEN -1 ELSE logs[1].index
LastLogIndex(logs) == IF logs = <<>> THEN -1 ELSE logs[Len(logs)].index

\* The vector is addressed by index - BaseLogIndex() in unsigned arithmetic:
\* a difference below zero is out of bound as well.
GetLogByIndex(logs, index) ==
    LET pos == index - BaseLogIndex(logs)
    IN  IF pos \in 0 .. Len(logs) - 1 THEN logs[pos + 1] ELSE NoEntry

\* How many entries are kept when prev is looked up from the back: FindLog's
\* position plus one.  Not found is position -1, so everything is erased.
FindLog(logs, prevTerm, prevIndex) ==
    LET found == {p \in 1 .. Len(logs) :
                    logs[p].term = prevTerm /\ logs[p].index = prevIndex}
    IN  IF found = {} THEN 0 ELSE CHOOSE p \in found : \A q \in found : q <= p

-----------------------------------------------------------------------------
(* The SRaft object.                                                       *)

Peers(i) == Server \ {i}

\* peers_ gains a null peer named "" when a response without a name arrives.
PeerCount(i, n) == Cardinality(Peers(i)) + (IF n.nullPeer THEN 1 ELSE 0)

NewNode == [state |-> "FOLLOWER", currentTerm |-> 0, votesRecieved |-> 0,
            logs |-> <<>>, commitIndex |-> -1, lastApplied |-> -1,
            nextIndex |-> [p \in Server |-> 0],
            matchIndex |-> [p \in Server |-> -1],
            nullPeer |-> FALSE, channel |-> <<>>]

\* Faulty variant: nothing reaches the file.
DumpLost(i, n) == disk
Record(n) == [term |-> n.currentTerm, logs |-> n.logs]
Dump(i, n) == [disk EXCEPT ![i] = Record(n)]

Load(n, d) == [n EXCEPT !.currentTerm = d.term, !.logs = d.logs]

\* Faulty variant: every apply starts at the beginning of the log.
DoApplyAll(n) ==
    IF n.lastApplied >= n.commitIndex THEN n
    ELSE [n EXCEPT !.lastApplied = n.commitIndex,
                   !.channel = @ \o [k \in 1 .. n.commitIndex + 1 |-> n.logs[k].cmd]]
\* DoApply pushes the data of indexes lastApplied_ + 1 .. commitIndex_ on the
\* channel and skips the indexes the log does not hold.
DoApply(n) ==
    LET base  == BaseLogIndex(n.logs)
        first == IF n.lastApplied + 1 < base THEN 1 ELSE n.lastApplied + 2 - base
        last  == IF n.commitIndex - base + 1 < Len(n.logs)
                 THEN n.commitIndex - base + 1 ELSE Len(n.logs)
    IN  IF n.lastApplied >= n.commitIndex THEN n
        ELSE [n EXCEPT !.lastApplied = n.commitIndex,
                       !.channel = @ \o [k \in 1 .. last - first + 1 |->
                                            n.logs[first + k - 1].cmd]]

-----------------------------------------------------------------------------
(* Calls.  waiting: the calling thread still lives; a call whose caller    *)
(* died may still be served, but nobody handles its answer.                *)

IsRequest(m) == m.type \in {"RequestVote", "AppendEntries"}
Serving(i)   == proc[i] \in {"created", "running"}

Answer(m, reply) == (rpcs \ {m}) \cup (IF m.waiting THEN {reply} ELSE {})

\* The response handler of a failed call runs with an empty response.
FailedReply(m) ==
    [type |-> "AppendEntriesReply", src |-> IF IsRequest(m) THEN m.dst ELSE m.src,
     dst |-> IF IsRequest(m) THEN m.src ELSE m.dst, ok |-> FALSE,
     isHeartbeat |-> m.isHeartbeat, term |-> 0, success |-> FALSE, lastLogIndex |-> 0]

VoteRequest(i, n, p) ==
    [type |-> "RequestVote", src |-> i, dst |-> p, waiting |-> TRUE,
     term |-> n.currentTerm,
     lastLogTerm |-> IF n.logs = <<>> THEN UINT64_MAX ELSE n.logs[Len(n.logs)].term,
     lastLogIndex |-> Len(n.logs) - 1]

\* Entries nextIndex_ .. LastLogIndex(), each through GetLogByIndex.
AppendRequest(i, n, p, isHeartbeat) ==
    LET prev == IF isHeartbeat THEN -1 ELSE n.nextIndex[p] - 1
        size == IF isHeartbeat \/ LastLogIndex(n.logs) <= prev THEN 0
                ELSE LastLogIndex(n.logs) - prev
    IN  [type |-> "AppendEntries", src |-> i, dst |-> p, waiting |-> TRUE,
         term |-> n.currentTerm, isHeartbeat |-> isHeartbeat,
         prevLogIndex |-> prev, prevLogTerm |-> GetLogByIndex(n.logs, prev).term,
         entries |-> [k \in 1 .. size |-> GetLogByIndex(n.logs, prev + k)]]

\* A default LogEntry lacks required fields: the server cannot parse the call.
Malformed(m) == m.type = "AppendEntries" /\ \E k \in DOMAIN m.entries : m.entries[k].cmd = NoCmd

\* What is left of the calls when i's process ends.
Orphaned(i, calls) ==
    {IF m.src = i /\ IsRequest(m) THEN [m EXCEPT !.waiting = FALSE] ELSE m :
        m \in {c \in calls : IsRequest(c) \/ c.dst # i}}

Die(i, how, calls) ==
    /\ proc' = [proc EXCEPT ![i] = how]
    /\ node' = [node EXCEPT ![i] = NewNode]
    /\ rpcs' = Orphaned(i, calls)

\* Loops over peers_ call through every peer; the null peer ends the process
\* somewhere in the loop.  A call the loop had not reached yet is never made,
\* which LoseOrphan covers.
CallPeers(i, n, calls) ==
    IF n.nullPeer THEN Die(i, "segv", rpcs \cup calls)
    ELSE /\ node' = [node EXCEPT ![i] = n]
         /\ rpcs' = rpcs \cup calls
         /\ UNCHANGED proc

MayCall == Cardinality(rpcs) <= MaxCalls

-----------------------------------------------------------------------------
(* Life cycle.                                                             *)

\* The process starts (again): constructor and one AddPeer per peer.
Create(i) ==
    /\ proc[i] \in {"down", "segv"}
    /\ proc' = [proc EXCEPT ![i] = "created"]
    /\ UNCHANGED <<node, disk, rpcs, votes, lost, faults>>

Run(i) ==
    /\ proc[i] = "created"
    /\ proc' = [proc EXCEPT ![i] = "running"]
    /\ node' = [node EXCEPT ![i] = Load(@, disk[i])]
    /\ UNCHANGED <<disk, rpcs, votes, lost, faults>>

Crash(i) ==
    /\ Serving(i)
    /\ faults < MaxFaults
    /\ faults' = faults + 1
    /\ Die(i, "down", rpcs)
    /\ UNCHANGED <<disk, votes, lost>>

-----------------------------------------------------------------------------
(* OnTimer, one action per deadline.                                       *)

\* Bound: a leader has one round of heartbeats in flight at a time.
TimerHeartbeat(i) ==
    LET n == node[i]
    IN  /\ proc[i] = "running"
        /\ n.state = "LEADER"
        /\ Peers(i) # {}
        /\ MayCall
        /\ \A m \in rpcs : ~ (m.type = "AppendEntries" /\ m.isHeartbeat /\ m.src = i)
        /\ CallPeers(i, n, {AppendRequest(i, n, p, TRUE) : p \in Peers(i)})
        /\ UNCHANGED <<disk, votes, lost, faults>>

\* DoElection, with the vote a candidate gives itself.
StartElection(i, n) ==
    [n EXCEPT !.state = IF PeerCount(i, n) = 0 THEN "LEADER" ELSE "CANDIDATE",
              !.currentTerm = @ + 1, !.votesRecieved = 1]

ElectionDue(i) ==
    /\ proc[i] = "running"
    /\ node[i].state = "FOLLOWER"
    /\ node[i].currentTerm < MaxTerm
    /\ MayCall

TimerElection(i) ==
    LET n == StartElection(i, node[i])
    IN  /\ ElectionDue(i)
        /\ disk' = Dump(i, n)
        /\ votes' = votes \cup {[voter |-> i, term |-> n.currentTerm, candidate |-> i]}
        /\ CallPeers(i, n, {VoteRequest(i, n, p) : p \in Peers(i)})
        /\ UNCHANGED <<lost, faults>>

TimerElectionFail(i) ==
    /\ proc[i] = "running"
    /\ node[i].state = "CANDIDATE"
    /\ node' = [node EXCEPT ![i].state = "FOLLOWER"]
    /\ UNCHANGED <<proc, disk, rpcs, votes, lost, faults>>

-----------------------------------------------------------------------------
(* RequestVote.                                                            *)

\* Faulty variant: a second vote in the term of the first.
TermNotNewSameTerm(n, m) == m.term < n.currentTerm
TermNotNew(n, m) == m.term <= n.currentTerm

\* candidateLogIndexOld or candidateLogTermOld: the candidate's last index is
\* a position in its vector, and so is ours (lastIncludeIndex_ is always -1).
LogOld(n, m) ==
    /\ n.logs # <<>>
    /\ LET lastTerm == n.logs[Len(n.logs)].term
       IN  \/ m.lastLogTerm = lastTerm /\ m.lastLogIndex < Len(n.logs) - 1
           \/ m.lastLogTerm < lastTerm

MayVote(i) == proc[i] = "running"

Grant(n, m) == [n EXCEPT !.currentTerm = m.term,
                         !.state = IF @ = "LEADER" THEN "FOLLOWER" ELSE @]

Grants(m) ==
    /\ m.type = "RequestVote"
    /\ MayVote(m.dst)
    /\ ~ TermNotNew(node[m.dst], m)
    /\ ~ LogOld(node[m.dst], m)

OnRequestVoteRequest(m) ==
    LET i == m.dst
        n == node[i]
        Reply(granted) == [type |-> "RequestVoteReply", src |-> i, dst |-> m.src,
                           term |-> n.currentTerm, granted |-> granted]
    IN  /\ m.type = "RequestVote"
        /\ Serving(i)
        /\ \/ \* not running: the empty response cannot be parsed, the call fails
              /\ ~ MayVote(i)
              /\ rpcs' = rpcs \ {m}
              /\ UNCHANGED <<node, disk, votes>>
           \/ /\ MayVote(i)
              /\ TermNotNew(n, m)
              /\ rpcs' = Answer(m, Reply(FALSE))
              /\ UNCHANGED <<node, disk, votes>>
           \/ \* refused, but the term is taken over, in memory only
              /\ MayVote(i)
              /\ ~ TermNotNew(n, m)
              /\ LogOld(n, m)
              /\ node' = [node EXCEPT ![i].currentTerm = m.term]
              /\ rpcs' = Answer(m, Reply(FALSE))
              /\ UNCHANGED <<disk, votes>>
           \/ /\ Grants(m)
              /\ node' = [node EXCEPT ![i] = Grant(n, m)]
              /\ disk' = Dump(i, Grant(n, m))
              /\ votes' = votes \cup {[voter |-> i, term |-> m.term, candidate |-> m.src]}
              /\ rpcs' = Answer(m, Reply(TRUE))
        /\ UNCHANGED <<proc, lost, faults>>

\* Faulty variant: every answer counts.
CountsAlways(m) == TRUE
Counts(m) == m.granted

\* votesRecieved_ > peers_.size() / 2
WinsVote(i, n, received) == received > PeerCount(i, n) \div 2

CountVote(i, n) ==
    LET received == n.votesRecieved + 1
    IN  [n EXCEPT !.votesRecieved = received,
                  !.state = IF WinsVote(i, n, received) THEN "LEADER" ELSE @]

\* Faulty variant: a leader that hears a heartbeat of its own term stays one.
StepDownUnlessLeader(n, m) ==
    IF n.state = "LEADER" /\ m.term = n.currentTerm THEN n
    ELSE [n EXCEPT !.state = "FOLLOWER", !.currentTerm = m.term]
StepDown(n, m) == [n EXCEPT !.state = "FOLLOWER", !.currentTerm = m.term]

\* The handler does not look at running_, but only a node that ran has calls.
OnRequestVoteResponse(m) ==
    LET i == m.dst
        n == node[i]
    IN  /\ m.type = "RequestVoteReply"
        /\ rpcs' = rpcs \ {m}
        /\ \/ \* steps down; the file still gets the old term
              /\ m.term > n.currentTerm
              /\ disk' = Dump(i, n)
              /\ node' = [node EXCEPT ![i] = StepDown(n, m)]
           \/ /\ m.term <= n.currentTerm
              /\ n.state = "CANDIDATE"
              /\ Counts(m)
              /\ node' = [node EXCEPT ![i] = CountVote(i, n)]
              /\ UNCHANGED disk
           \/ /\ m.term <= n.currentTerm
              /\ n.state # "CANDIDATE" \/ ~ Counts(m)
              /\ UNCHANGED <<node, disk>>
        /\ UNCHANGED <<proc, votes, lost, faults>>

-----------------------------------------------------------------------------
(* DoLog and AppendEntries.                                                *)

NewEntry(n, c) == [term |-> n.currentTerm, index |-> LastLogIndex(n.logs) + 1, cmd |-> c]

\* Without peers the entry is committed and applied at once.
AppendOwn(i, n, c) ==
    LET longer == [n EXCEPT !.logs = Append(@, NewEntry(n, c))]
    IN  IF PeerCount(i, n) > 0 THEN longer
        ELSE DoApply([longer EXCEPT !.commitIndex = LastLogIndex(longer.logs)])

\* Faulty variant: the caller's check of GetState() is trusted.
MayLogAnyTime(i) == proc[i] = "running"
MayLog(i) == proc[i] = "running" /\ node[i].state = "LEADER"
Logs(i) == MayLog(i) /\ LastLogIndex(node[i].logs) + 1 < MaxLog /\ MayCall

DoLog(i, c) ==
    LET n == AppendOwn(i, node[i], c)
    IN  /\ Logs(i)
        /\ disk' = Dump(i, n)
        /\ CallPeers(i, n, {AppendRequest(i, n, p, FALSE) : p \in Peers(i)})
        /\ UNCHANGED <<votes, lost, faults>>

\* Faulty variant: nothing is erased.
StoreWithoutErase(n, m) == n.logs \o m.entries
Store(n, m) == SubSeq(n.logs, 1, FindLog(n.logs, m.prevLogTerm, m.prevLogIndex)) \o m.entries
Stored(n, m) == [n EXCEPT !.logs = Store(n, m)]

Appends(m) ==
    /\ m.type = "AppendEntries" /\ ~ Malformed(m)
    /\ proc[m.dst] = "running" /\ m.term >= node[m.dst].currentTerm
    /\ m.entries # <<>>
Reaches(n, m) == m.prevLogIndex >= BaseLogIndex(n.logs)

OnAppendEntriesRequest(m) ==
    LET i == m.dst
        n == node[i]
        stored == Stored(n, m)
        Reply(success, logs) ==
            [type |-> "AppendEntriesReply", src |-> i, dst |-> m.src, ok |-> TRUE,
             isHeartbeat |-> m.isHeartbeat, term |-> n.currentTerm,
             success |-> success, lastLogIndex |-> LastLogIndex(logs)]
    IN  /\ m.type = "AppendEntries"
        /\ Serving(i)
        /\ ~ Malformed(m)
        /\ \/ /\ proc[i] = "created" \/ m.term < n.currentTerm
              /\ rpcs' = Answer(m, Reply(FALSE, n.logs))
              /\ UNCHANGED <<node, disk>>
           \/ \* without entries it is a heartbeat, whoever sent it
              /\ proc[i] = "running" /\ m.term >= n.currentTerm
              /\ m.entries = <<>>
              /\ node' = [node EXCEPT ![i] = StepDown(n, m)]
              /\ rpcs' = Answer(m, Reply(FALSE, n.logs))
              /\ UNCHANGED disk
           \/ /\ Appends(m) /\ Reaches(n, m)
              /\ node' = [node EXCEPT ![i] = stored]
              /\ disk' = Dump(i, stored)
              /\ rpcs' = Answer(m, Reply(TRUE, stored.logs))
           \/ /\ Appends(m) /\ ~ Reaches(n, m)
              /\ disk' = Dump(i, n)
              /\ rpcs' = Answer(m, Reply(FALSE, n.logs))
              /\ UNCHANGED node
        /\ UNCHANGED <<proc, votes, lost, faults>>

\* Faulty variant: an acknowledgement of what is committed is counted again.
NothingNewNever(n, m) == FALSE
NothingNew(n, m) == m.lastLogIndex <= n.commitIndex

\* Faulty variant: nextIndex_ becomes the last index itself.
RejectedOffByOne(n, m) == [n EXCEPT !.nextIndex[m.src] = m.lastLogIndex]
Rejected(n, m) == [n EXCEPT !.nextIndex[m.src] = m.lastLogIndex + 1]

\* Faulty variant: matchIndex_ is not kept.
AcknowledgedNextOnly(n, m) == [n EXCEPT !.nextIndex[m.src] = m.lastLogIndex + 1]
Acknowledged(n, m) == [n EXCEPT !.nextIndex[m.src] = m.lastLogIndex + 1,
                                !.matchIndex[m.src] = m.lastLogIndex]

Commits(i, n, newCommit) ==
    1 + Cardinality({p \in Peers(i) : n.matchIndex[p] >= newCommit}) >= PeerCount(i, n) \div 2

OnAppendEntriesReponse(m) ==
    LET i == m.dst
        n == [node[i] EXCEPT !.nullPeer = @ \/ ~ m.ok]   \* peers_[response.name()]
        stale == m.term > n.currentTerm
        n2 == IF stale THEN [n EXCEPT !.state = "FOLLOWER"] ELSE n
        n3 == Acknowledged(n2, m)
        Becomes(next) == node' = [node EXCEPT ![i] = next] /\ rpcs' = rpcs \ {m} /\ UNCHANGED proc
    IN  /\ m.type = "AppendEntriesReply"
        /\ IF n.state = "LEADER" /\ stale THEN disk' = Dump(i, n2) ELSE UNCHANGED disk
        /\ \/ /\ n.state # "LEADER"
              /\ Becomes(n)
           \/ /\ n.state = "LEADER" /\ m.isHeartbeat
              /\ Becomes(n2)
           \/ /\ n.state = "LEADER" /\ ~ m.isHeartbeat /\ ~ m.success
              /\ IF m.ok THEN Becomes(Rejected(n2, m))
                 ELSE Die(i, "segv", rpcs \ {m})
           \/ /\ n.state = "LEADER" /\ ~ m.isHeartbeat /\ m.success
              /\ NothingNew(n, m)
              /\ Becomes(n2)
           \/ /\ n.state = "LEADER" /\ ~ m.isHeartbeat /\ m.success
              /\ ~ NothingNew(n, m)
              /\ IF n.nullPeer THEN Die(i, "segv", rpcs \ {m})
                 ELSE Becomes(IF Commits(i, n3, m.lastLogIndex)
                              THEN DoApply([n3 EXCEPT !.commitIndex = m.lastLogIndex]) ELSE n3)
        /\ UNCHANGED <<votes, lost, faults>>

-----------------------------------------------------------------------------
(* Calls that fail.                                                        *)

Failed(m) == (rpcs \ {m}) \cup
             (IF m.type \in {"AppendEntries", "AppendEntriesReply"} THEN {FailedReply(m)} ELSE {})

\* Nobody serves the callee's address, the request cannot be parsed, or the
\* connection breaks, before or after the call is served.  The response
\* handler of a failed RequestVote changes nothing.
FailCall(m) ==
    /\ IF IsRequest(m) THEN m.waiting
       ELSE m.type = "AppendEntriesReply" => m.ok
    /\ \/ /\ ~ Serving(IF IsRequest(m) THEN m.dst ELSE m.src) \/ (IsRequest(m) /\ Malformed(m))
          /\ UNCHANGED faults
       \/ /\ faults < MaxFaults
          /\ faults' = faults + 1
    /\ rpcs' = Failed(m)
    /\ UNCHANGED <<proc, node, disk, votes, lost>>

\* A call whose caller died is not served after all.
LoseOrphan(m) ==
    /\ IsRequest(m)
    /\ ~ m.waiting
    /\ rpcs' = rpcs \ {m}
    /\ UNCHANGED <<proc, node, disk, votes, lost, faults>>

-----------------------------------------------------------------------------
(* A process that ends within Dump.  The file was opened with ios::out, so *)
(* it is empty before the record is written, and keeps a beginning of it:  *)
(* the members of a message in the order of their numbers.  The caller's   *)
(* mutex is held throughout; nobody is called and nothing is answered.     *)

\* A member that was cut is missing, which reads as 0, or has some other value.
\* Bound: such a value is a term or an index of the model.
CutShort(n) ==
    {[term |-> t, logs |-> <<>>] : t \in Term} \cup
    {[term |-> n.currentTerm, logs |-> SubSeq(n.logs, 1, k)] : k \in 0 .. Len(n.logs)}

\* The parts of an entry; without a command it lacks a required member.
TornEntries(e) ==
    {[term |-> 0, index |-> x, cmd |-> NoCmd] : x \in 0 .. MaxLog - 1} \cup
    {[term |-> t, index |-> e.index, cmd |-> NoCmd] : t \in Term} \cup
    {[e EXCEPT !.cmd = IF @ = NoCmd THEN NoCmd ELSE TornCmd]}
CutTorn(n) ==
    UNION {{[term |-> n.currentTerm, logs |-> Append(SubSeq(n.logs, 1, k - 1), e)] :
               e \in TornEntries(n.logs[k])} : k \in DOMAIN n.logs}

LostTerm(i, d) ==
    IF d.term < disk[i].term /\ lost[i].term < disk[i].term THEN disk[i].term ELSE lost[i].term

\* i ends while it writes the record of n.
DieInDump(i, n, calls) ==
    /\ faults < MaxFaults
    /\ faults' = faults + 1
    /\ Die(i, "down", calls)
    /\ \E torn \in BOOLEAN : \E d \in IF torn THEN CutTorn(n) ELSE CutShort(n) :
        /\ disk' = [disk EXCEPT ![i] = d]
        /\ lost' = [lost EXCEPT ![i] = [term |-> LostTerm(i, d), torn |-> @.torn \/ torn]]
    /\ UNCHANGED votes

\* The call that is being served fails; its caller may have died before.
Broken(m) == IF m.waiting THEN Failed(m) ELSE rpcs \ {m}

\* One disjunct per call of Dump; DoElection and DoLog have not called anybody yet.
DumpCut ==
    \/ \E i \in Server : ElectionDue(i) /\ DieInDump(i, StartElection(i, node[i]), rpcs)
    \/ \E i \in Server, c \in Cmd : Logs(i) /\ DieInDump(i, AppendOwn(i, node[i], c), rpcs)
    \/ \E m \in rpcs : Grants(m) /\ DieInDump(m.dst, Grant(node[m.dst], m), Broken(m))
    \/ \E m \in rpcs :
          /\ m.type = "RequestVoteReply"
          /\ m.term > node[m.dst].currentTerm
          /\ DieInDump(m.dst, node[m.dst], rpcs \ {m})
    \/ \E m \in rpcs :
          /\ Appends(m)
          /\ LET n == node[m.dst]
             IN  DieInDump(m.dst, IF Reaches(n, m) THEN Stored(n, m) ELSE n, Broken(m))
    \/ \E m \in rpcs :
          /\ m.type = "AppendEntriesReply"
          /\ node[m.dst].state = "LEADER" /\ m.term > node[m.dst].currentTerm
          /\ DieInDump(m.dst, node[m.dst], rpcs \ {m})

-----------------------------------------------------------------------------

Init ==
    /\ proc = [i \in Server |-> "created"]
    /\ node = [i \in Server |-> NewNode]
    /\ disk = [i \in Server |-> [term |-> 0, logs |-> <<>>]]
    /\ rpcs = {}
    /\ votes = {}
    /\ lost = [i \in Server |-> [term |-> 0, torn |-> FALSE]]
    /\ faults = 0

Timer(i) == TimerHeartbeat(i) \/ TimerElection(i) \/ TimerElectionFail(i)

Handle(m) ==
    \/ OnRequestVoteRequest(m)
    \/ OnRequestVoteResponse(m)
    \/ OnAppendEntriesRequest(m)
    \/ OnAppendEntriesReponse(m)

Next ==
    \/ \E i \in Server : Create(i) \/ Run(i) \/ Crash(i) \/ Timer(i)
    \/ \E i \in Server, c \in Cmd : DoLog(i, c)
    \/ \E m \in rpcs : Handle(m) \/ FailCall(m) \/ LoseOrphan(m)
    \/ DumpCut

Spec == Init /\ [][Next]_vars

\* The timer thread polls every 30 ms; every call has a thread of its own and
\* gRPC ends it one way or the other; Run() follows the constructor.
Deliver(i, j) == \E m \in rpcs :
    m.src = i /\ m.dst = j /\ (Handle(m) \/ FailCall(m) \/ LoseOrphan(m))
Fairness ==
    /\ \A i \in Server : WF_vars(Run(i)) /\ WF_vars(TimerHeartbeat(i))
                         /\ WF_vars(TimerElection(i)) /\ WF_vars(TimerElectionFail(i))
    /\ \A i, j \in Server : WF_vars(Deliver(i, j))
FairSpec == Spec /\ Fairness

-----------------------------------------------------------------------------
(* Properties.                                                             *)

TermOrNone == Term \cup {UINT64_MAX}
NodeType == [state : {"FOLLOWER", "CANDIDATE", "LEADER"}, currentTerm : Term,
             votesRecieved : Nat, logs : Seq(Entry), commitIndex : Index,
             lastApplied : Index, nextIndex : [Server -> Nat],
             matchIndex : [Server -> Index], nullPeer : BOOLEAN, channel : Seq(Data)]
VoteRequestType ==
    [type : {"RequestVote"}, src : Server, dst : Server, waiting : BOOLEAN,
     term : Term, lastLogTerm : TermOrNone, lastLogIndex : Int]
VoteReplyType ==
    [type : {"RequestVoteReply"}, src : Server, dst : Server, term : Term, granted : BOOLEAN]
AppendRequestType ==
    [type : {"AppendEntries"}, src : Server, dst : Server, waiting : BOOLEAN, term : Term,
     isHeartbeat : BOOLEAN, prevLogIndex : Int, prevLogTerm : Term,
     entries : Seq(Entry)]
AppendReplyType ==
    [type : {"AppendEntriesReply"}, src : Server, dst : Server, ok : BOOLEAN,
     isHeartbeat : BOOLEAN, term : Term, success : BOOLEAN, lastLogIndex : Index]
CallType == VoteRequestType \cup VoteReplyType \cup AppendRequestType \cup AppendReplyType

\* The variables keep to the ranges of the C++ members they stand for.
TypeOK ==
    /\ proc \in [Server -> {"down", "segv", "created", "running"}]
    /\ node \in [Server -> NodeType]
    /\ disk \in [Server -> [term : Term, logs : Seq(Entry)]]
    /\ rpcs \subseteq CallType
    /\ votes \subseteq [voter : Server, term : Term, candidate : Server]
    /\ lost \in [Server -> [term : Term, torn : BOOLEAN]]
    /\ faults \in Nat

\* A node gives at most one vote per term, its own included, across elections,
\* restarts and crashes, for every term above those its file has lost to a crash
\* within Dump: the code never looks at votedFor_, so this rests on every vote
\* raising the term and reaching the file before the answer.
VoteOncePerTerm ==
    \A v, w \in votes :
        v.voter = w.voter /\ v.term = w.term /\ v.term > lost[v.voter].term
        => v.candidate = w.candidate

\* The votes and the files together are a VoteLedger: a vote and the write of
\* its term are one step, a vote is above the durable term, and a durable term
\* falls only where the ledger forgets it.
Ledger == INSTANCE VoteLedger WITH Voter <- Server,
                                   durable <- [i \in Server |-> disk[i].term],
                                   forgotten <- [i \in Server |-> lost[i].term]
VotesAreDurable == Ledger!Spec

\* No handler writes an older term over the file, whatever answers arrive and
\* whenever a node that has not loaded the file yet is called.  Only a process
\* that ends within Dump leaves an older term, and then no log with it.
DiskNeverGoesBack ==
    [][\A i \in Server :
        \/ disk'[i].term >= disk[i].term
        \/ proc[i] = "running" /\ proc'[i] = "down" /\ disk'[i].logs = <<>>]_vars

\* Indexes of a log are consecutive, in memory and in the file, however the
\* log was truncated and wherever a file was cut, unless an entry was torn:
\* GetLogByIndex and DoApply address the vector by index.
Contiguous(logs) == \A k \in DOMAIN logs : logs[k].index = logs[1].index + k - 1
NothingTorn == \A i \in Server : ~ lost[i].torn
ContiguousLog ==
    NothingTorn => \A i \in Server : Contiguous(node[i].logs) /\ Contiguous(disk[i].logs)

\* With peers, a commit stays backed by a peer's acknowledgement, in
\* whatever order acknowledgements of several DoLog calls arrive.
CommitIsAcknowledged ==
    \A i \in Server : node[i].commitIndex >= 0 /\ Peers(i) # {} =>
        \E p \in Peers(i) : node[i].matchIndex[p] >= node[i].commitIndex

\* Answers to DoLog's calls come in any order; a late one never takes a
\* commit back, except that a node that ends forgets it.
CommitNeverGoesBack ==
    [][\A i \in Server : proc'[i] = proc[i] => node'[i].commitIndex >= node[i].commitIndex]_vars

\* As long as no file has lost a term, the first term has one leader at most;
\* with an odd number of nodes the counting of OnRequestVoteResponse is right
\* until stale votes can exist.
TermsKept == \A i \in Server : lost[i].term = 0
FirstTermLeaderUnique ==
    TermsKept => \A i, j \in Server :
        /\ node[i].state = "LEADER" /\ node[j].state = "LEADER"
        /\ node[i].currentTerm = 1 /\ node[j].currentTerm = 1
        => i = j

\* As long as no file has lost a term or a part of an entry (it may have lost
\* whole entries), two entries of the first term at one index are the same
\* entry, in every log and every file.  Up to three nodes: with more, a leader
\* whose log a newer one overwrites (OnAppendEntriesRequest leaves it the leader
\* it was) may use an index a second time that a third node still holds.
KeptEntries ==
    UNION {{node[i].logs[k] : k \in DOMAIN node[i].logs} \cup
           {disk[i].logs[k] : k \in DOMAIN disk[i].logs} : i \in Server}
FirstTermEntriesAgree ==
    TermsKept /\ NothingTorn =>
        \A e, f \in KeptEntries : e.term = 1 /\ f.term = 1 /\ e.index = f.index => e = f

\* Two leaders do not last: the heartbeat of one reaches the other, which
\* steps down or, if its term is the higher one, makes the sender step down.
Leads(i) == node[i].state = "LEADER"
LeaderContentionEnds ==
    \A i, j \in Server : i # j => (Leads(i) /\ Leads(j)) ~> ~ (Leads(i) /\ Leads(j))

\* What the leader of the first term has given to its state machine is the
\* beginning of its log, each entry once, in whatever order acknowledgements
\* raise commitIndex_, as long as no file has lost a term or a part of an entry.
\* Up to two nodes: a third may have been elected meanwhile and overwritten the
\* log of the first, which goes on leading.
AppliedIsLog ==
    TermsKept /\ NothingTorn => \A i \in Server : Leads(i) /\ node[i].currentTerm = 1 =>
        /\ node[i].lastApplied < Len(node[i].logs)
        /\ node[i].channel = [k \in 1 .. node[i].lastApplied + 1 |-> node[i].logs[k].cmd]

\* Raft's ElectionSafety: two running leaders never share a term.
ElectionSafety ==
    \A i, j \in Server :
        /\ node[i].state = "LEADER" /\ node[j].state = "LEADER"
        /\ node[i].currentTerm = node[j].currentTerm
        => i = j

==============================================================================
