----------------------------- MODULE SRaftProofs -----------------------------
(* Proofs about SRaft: its types, that its votes are a VoteLedger, that its  *)
(* logs stay consecutive and its commits backed, that the first election     *)
(* has one winner, that up to three nodes hold the same entries of the first *)
(* term, and that an unrivalled leader of that term applies its log.         *)
EXTENDS SRaft, FiniteSetTheorems, WellFoundedInduction, TLAPS

-----------------------------------------------------------------------------
(* Types of the operators.                                                 *)

\* A fresh SRaft object is well typed.
LEMMA NewNodeTyped == NewNode \in NodeType
  BY BoundsAssumption DEF NewNode, NodeType, Term, Index

\* The first and the last entry of a log that is not empty.
LEMMA EntryTyped ==
  ASSUME NEW logs \in Seq(Entry), logs # <<>>
  PROVE  /\ Len(logs) \in Nat \ {0}
         /\ logs[1] \in Entry
         /\ logs[Len(logs)] \in Entry
<1>1. Len(logs) \in Nat \ {0}
  OBVIOUS
<1>2. \A k \in 1 .. Len(logs) : logs[k] \in Entry
  OBVIOUS
<1>3. QED
  BY <1>1, <1>2

\* BaseLogIndex() and LastLogIndex() stay between -1 and the bound.
LEMMA LogIndexTyped ==
  ASSUME NEW logs \in Seq(Entry)
  PROVE  /\ BaseLogIndex(logs) \in Index
         /\ LastLogIndex(logs) \in Index
<1>1. CASE logs = <<>>
  BY <1>1, BoundsAssumption DEF BaseLogIndex, LastLogIndex, Index
<1>2. CASE logs # <<>>
  BY <1>2, EntryTyped DEF BaseLogIndex, LastLogIndex, Entry
<1>3. QED
  BY <1>1, <1>2

\* The default entry is an entry.
LEMMA NoEntryTyped == NoEntry \in Entry
  BY BoundsAssumption DEF NoEntry, Entry, Term, Index, Data

\* The entry found at an index is one of the log's or the default one.
LEMMA GetLogTyped ==
  ASSUME NEW logs \in Seq(Entry), NEW index \in Int
  PROVE  GetLogByIndex(logs, index) \in Entry
<1>1. BaseLogIndex(logs) \in Int
  BY LogIndexTyped, BoundsAssumption DEF Index
<1>2. CASE index - BaseLogIndex(logs) \in 0 .. Len(logs) - 1
  BY <1>1, <1>2 DEF GetLogByIndex
<1>3. CASE index - BaseLogIndex(logs) \notin 0 .. Len(logs) - 1
  BY <1>3, NoEntryTyped DEF GetLogByIndex
<1>4. QED
  BY <1>2, <1>3

\* A nonempty set of positions has a last one.
LEMMA LastPosition ==
  ASSUME NEW n \in Nat, NEW S \in SUBSET (1 .. n), S # {}
  PROVE  \E p \in S : \A q \in S : q <= p
<1> DEFINE Back == {n - p : p \in S}
           Less == {ss \in Nat \X Nat : ss[1] < ss[2]}
<1>1. IsWellFoundedOn(Less, Nat)
  BY NatLessThanWellFounded DEF OpToRel
<1>2. Back \subseteq Nat /\ Back # {}
  <2>1. \A p \in S : p \in Nat /\ p <= n
    OBVIOUS
  <2>2. \A p \in S : n - p \in Nat
    BY <2>1
  <2>3. Back # {}
    OBVIOUS
  <2>4. QED
    BY <2>2, <2>3
<1>3. PICK b \in Back : \A c \in Back : ~ (<<c, b>> \in Less)
  <2> HIDE DEF Back, Less
  <2> QED
    BY <1>1, <1>2, WFMin
<1>4. PICK p \in S : b = n - p
  BY <1>3
<1>5. \A q \in S : ~ (n - q < n - p)
  BY <1>2, <1>3, <1>4
<1>6. \A q \in S : q <= p
  BY <1>5
<1>7. QED
  BY <1>6

\* FindLog keeps the log up to an entry of the index looked for, or nothing.
LEMMA FindLogIndex ==
  ASSUME NEW logs \in Seq(Entry), NEW t, NEW x
  PROVE  LET kept == FindLog(logs, t, x)
         IN  /\ kept \in 0 .. Len(logs)
             /\ kept # 0 => logs[kept].index = x
<1> DEFINE found == {p \in 1 .. Len(logs) : logs[p].term = t /\ logs[p].index = x}
<1>1. CASE found = {}
  BY <1>1 DEF FindLog
<1>2. CASE found # {}
  <2>1. \E p \in found : \A q \in found : q <= p
    <3>1. Len(logs) \in Nat /\ found \in SUBSET (1 .. Len(logs))
      OBVIOUS
    <3> HIDE DEF found
    <3>2. QED
      BY <1>2, <3>1, LastPosition
  <2>2. FindLog(logs, t, x) \in found
    BY <1>2, <2>1 DEF FindLog
  <2>3. QED
    BY <2>2
<1>3. QED
  BY <1>1, <1>2

\* Dump writes a well-typed record.
LEMMA DumpTyped ==
  ASSUME TypeOK, NEW i \in Server, NEW n \in NodeType
  PROVE  Dump(i, n) \in [Server -> [term : Term, logs : Seq(Entry)]]
<1>1. n.currentTerm \in Term /\ n.logs \in Seq(Entry)
  BY DEF NodeType
<1>2. QED
  BY <1>1 DEF TypeOK, Dump, Record

\* DoApply pushes commands of the log.
LEMMA DoApplyTyped ==
  ASSUME NEW n \in NodeType
  PROVE  DoApply(n) \in NodeType
<1> DEFINE base  == BaseLogIndex(n.logs)
           first == IF n.lastApplied + 1 < base THEN 1 ELSE n.lastApplied + 2 - base
           last  == IF n.commitIndex - base + 1 < Len(n.logs)
                    THEN n.commitIndex - base + 1 ELSE Len(n.logs)
           pushed == [k \in 1 .. last - first + 1 |-> n.logs[first + k - 1].cmd]
<1>1. n.logs \in Seq(Entry) /\ n.channel \in Seq(Data)
      /\ n.lastApplied \in Int /\ n.commitIndex \in Index /\ n.commitIndex \in Int
  BY BoundsAssumption DEF NodeType, Index
<1>2. base \in Int /\ Len(n.logs) \in Nat
  BY <1>1, LogIndexTyped, BoundsAssumption DEF Index
<1>3. first \in Nat \ {0} /\ last \in Int /\ last <= Len(n.logs)
  <2> HIDE DEF base
  <2> QED
    BY <1>1, <1>2
<1>4. \A k \in 1 .. last - first + 1 : first + k - 1 \in 1 .. Len(n.logs)
  <2> HIDE DEF first, last
  <2> QED
    BY <1>2, <1>3
<1>5. \A k \in 1 .. last - first + 1 : n.logs[first + k - 1].cmd \in Data
  <2> HIDE DEF first, last
  <2>1. \A k \in 1 .. Len(n.logs) : n.logs[k] \in Entry
    BY <1>1
  <2>2. \A k \in 1 .. Len(n.logs) : n.logs[k].cmd \in Data
    BY <2>1 DEF Entry
  <2> QED
    BY <1>4, <2>2
<1>6. pushed \in Seq(Data)
  <2> HIDE DEF first, last
  <2>1. CASE last - first + 1 \in Nat
    BY <1>5, <2>1
  <2>2. CASE last - first + 1 \notin Nat
    <3>1. last - first + 1 \in Int /\ last - first + 1 < 0
      BY <1>3, <2>2
    <3>2. pushed = <<>>
      BY <3>1
    <3>3. <<>> \in Seq(Data)
      OBVIOUS
    <3> HIDE DEF pushed
    <3>4. QED
      BY <3>2, <3>3
  <2>3. QED
    BY <2>1, <2>2
<1>7. n.channel \o pushed \in Seq(Data)
  <2> HIDE DEF pushed
  <2> QED
    BY <1>1, <1>6
<1>8. [n EXCEPT !.lastApplied = n.commitIndex, !.channel = n.channel \o pushed] \in NodeType
  <2> HIDE DEF pushed
  <2> QED
    BY <1>1, <1>7 DEF NodeType
<1>9. QED
  BY <1>8 DEF DoApply

\* DoElection's calls and DoAppendEntries' calls are calls.
LEMMA VoteRequestTyped ==
  ASSUME NEW i \in Server, NEW n \in NodeType, NEW p \in Server
  PROVE  VoteRequest(i, n, p) \in VoteRequestType
<1>1. n.currentTerm \in Term /\ n.logs \in Seq(Entry)
  BY DEF NodeType
<1>2. Len(n.logs) - 1 \in Int
  BY <1>1
<1>3. n.logs # <<>> => n.logs[Len(n.logs)].term \in Term
  BY <1>1, EntryTyped DEF Entry
<1>4. QED
  BY <1>1, <1>2, <1>3 DEF VoteRequest, VoteRequestType, TermOrNone

\* DoAppendEntries builds well-formed requests, heartbeats included.
LEMMA AppendRequestTyped ==
  ASSUME NEW i \in Server, NEW n \in NodeType, NEW p \in Server, NEW h \in BOOLEAN
  PROVE  AppendRequest(i, n, p, h) \in AppendRequestType
<1> DEFINE prev == IF h THEN -1 ELSE n.nextIndex[p] - 1
           size == IF h \/ LastLogIndex(n.logs) <= prev THEN 0
                   ELSE LastLogIndex(n.logs) - prev
           sent == [k \in 1 .. size |-> GetLogByIndex(n.logs, prev + k)]
<1>1. n.currentTerm \in Term /\ n.logs \in Seq(Entry) /\ n.nextIndex[p] \in Nat
  BY DEF NodeType
<1>2. prev \in Int /\ LastLogIndex(n.logs) \in Int
  BY <1>1, LogIndexTyped, BoundsAssumption DEF Index
<1>3. size \in Nat
  <2> HIDE DEF prev
  <2> QED
    BY <1>2
<1>4. \A k \in 1 .. size : GetLogByIndex(n.logs, prev + k) \in Entry
  <2> HIDE DEF prev, size
  <2>1. \A k \in 1 .. size : prev + k \in Int
    BY <1>2, <1>3
  <2>2. QED
    BY <1>1, <2>1, GetLogTyped
<1>5. sent \in Seq(Entry)
  <2> HIDE DEF prev, size
  <2> QED
    BY <1>3, <1>4
<1>6. GetLogByIndex(n.logs, prev).term \in Term
  <2> HIDE DEF prev
  <2>1. GetLogByIndex(n.logs, prev) \in Entry
    BY <1>1, <1>2, GetLogTyped
  <2>2. QED
    BY <2>1, BoundsAssumption DEF Entry, NoEntry, Term
<1>7. QED
  <2> HIDE DEF prev, sent
  <2>1. AppendRequest(i, n, p, h) =
          [type |-> "AppendEntries", src |-> i, dst |-> p, waiting |-> TRUE,
           term |-> n.currentTerm, isHeartbeat |-> h, prevLogIndex |-> prev,
           prevLogTerm |-> GetLogByIndex(n.logs, prev).term, entries |-> sent]
    BY DEF AppendRequest, prev, sent
  <2>2. QED
    BY <1>1, <1>2, <1>5, <1>6, <2>1 DEF AppendRequestType

\* The calls a dead process leaves behind are calls.
LEMMA OrphanedTyped ==
  ASSUME NEW i \in Server, NEW calls \in SUBSET CallType
  PROVE  Orphaned(i, calls) \in SUBSET CallType
<1> SUFFICES ASSUME NEW m \in calls, IsRequest(m)
             PROVE  [m EXCEPT !.waiting = FALSE] \in CallType
  BY DEF Orphaned
<1>1. m \in VoteRequestType \cup AppendRequestType
  BY DEF IsRequest, CallType, VoteRequestType, VoteReplyType, AppendRequestType, AppendReplyType
<1>2. CASE m \in VoteRequestType
  BY <1>2 DEF CallType, VoteRequestType
<1>3. CASE m \in AppendRequestType
  BY <1>3 DEF CallType, AppendRequestType
<1>4. QED
  BY <1>1, <1>2, <1>3

\* The type field of a call tells its shape.
LEMMA CallKinds ==
  ASSUME NEW m \in CallType
  PROVE  /\ m.type = "RequestVote" => m \in VoteRequestType
         /\ m.type = "RequestVoteReply" => m \in VoteReplyType
         /\ m.type = "AppendEntries" => m \in AppendRequestType
         /\ m.type = "AppendEntriesReply" => m \in AppendReplyType
         /\ IsRequest(m) <=> m \in VoteRequestType \cup AppendRequestType
         /\ m.src \in Server /\ m.dst \in Server
  BY DEF CallType, VoteRequestType, VoteReplyType, AppendRequestType, AppendReplyType, IsRequest

-----------------------------------------------------------------------------
(* Types of the steps.                                                     *)

ProcType == [Server -> {"down", "segv", "created", "running"}]
DiskType == [Server -> [term : Term, logs : Seq(Entry)]]

\* The end of a process leaves fresh, well-typed memory behind.
LEMMA DieTyped ==
  ASSUME TypeOK, NEW i \in Server, NEW how \in {"down", "segv"},
         NEW calls \in SUBSET CallType, Die(i, how, calls)
  PROVE  proc' \in ProcType /\ node' \in [Server -> NodeType] /\ rpcs' \subseteq CallType
<1>1. proc' \in ProcType
  BY DEF TypeOK, Die, ProcType
<1>2. node' \in [Server -> NodeType]
  BY NewNodeTyped DEF TypeOK, Die
<1>3. rpcs' \subseteq CallType
  BY OrphanedTyped DEF Die
<1>4. QED
  BY <1>1, <1>2, <1>3

\* The loops over peers_ keep the types, also when the null peer ends them.
LEMMA CallPeersTyped ==
  ASSUME TypeOK, NEW i \in Server, NEW n \in NodeType,
         NEW calls \in SUBSET CallType, CallPeers(i, n, calls)
  PROVE  proc' \in ProcType /\ node' \in [Server -> NodeType] /\ rpcs' \subseteq CallType
<1>1. rpcs \cup calls \in SUBSET CallType
  BY DEF TypeOK
<1>2. CASE n.nullPeer
  <2>1. Die(i, "segv", rpcs \cup calls)
    BY <1>2 DEF CallPeers
  <2>2. QED
    BY <1>1, <2>1, DieTyped
<1>3. CASE ~ n.nullPeer
  BY <1>1, <1>3 DEF CallPeers, TypeOK, ProcType
<1>4. QED
  BY <1>2, <1>3

\* Answering a call puts at most one well-typed answer in flight.
LEMMA AnswerTyped ==
  ASSUME TypeOK, NEW m, NEW reply \in CallType
  PROVE  Answer(m, reply) \subseteq CallType
  BY DEF TypeOK, Answer

\* DoElection raises the term by one, within the bound.
LEMMA StartElectionTyped ==
  ASSUME TypeOK, NEW i \in Server, ElectionDue(i)
  PROVE  /\ StartElection(i, node[i]) \in NodeType
         /\ StartElection(i, node[i]).currentTerm = node[i].currentTerm + 1
         /\ StartElection(i, node[i]).logs = node[i].logs
<1>1. node[i] \in NodeType /\ node[i].currentTerm \in Nat
  BY BoundsAssumption DEF TypeOK, NodeType, Term
<1>2. StartElection(i, node[i]).currentTerm = node[i].currentTerm + 1
  BY <1>1 DEF StartElection, NodeType
<1>3. node[i].currentTerm + 1 \in Term
  BY <1>1, BoundsAssumption DEF ElectionDue, Term
<1>4. QED
  BY <1>1, <1>2, <1>3 DEF StartElection, NodeType

\* The three deadlines of OnTimer keep the types.
LEMMA TimersTyped ==
  ASSUME TypeOK, NEW i \in Server, Timer(i)
  PROVE  TypeOK'
<1>0. node[i] \in NodeType
  BY DEF TypeOK
<1>1. CASE TimerHeartbeat(i)
  <2>1. {AppendRequest(i, node[i], p, TRUE) : p \in Peers(i)} \in SUBSET CallType
    BY <1>0, AppendRequestTyped DEF Peers, CallType
  <2>2. CallPeers(i, node[i], {AppendRequest(i, node[i], p, TRUE) : p \in Peers(i)})
    BY <1>1 DEF TimerHeartbeat
  <2>3. proc' \in ProcType /\ node' \in [Server -> NodeType] /\ rpcs' \subseteq CallType
    BY <1>0, <2>1, <2>2, CallPeersTyped
  <2>4. QED
    BY <1>1, <2>3 DEF TypeOK, TimerHeartbeat, ProcType
<1>2. CASE TimerElection(i)
  <2> DEFINE n == StartElection(i, node[i])
  <2>2. n \in NodeType /\ n.currentTerm = node[i].currentTerm + 1
    BY <1>2, StartElectionTyped DEF TimerElection
  <2> HIDE DEF n
  <2>3. {VoteRequest(i, n, p) : p \in Peers(i)} \in SUBSET CallType
    BY <2>2, VoteRequestTyped DEF Peers, CallType
  <2>4. CallPeers(i, n, {VoteRequest(i, n, p) : p \in Peers(i)})
    BY <1>2 DEF TimerElection, n
  <2>5. proc' \in ProcType /\ node' \in [Server -> NodeType] /\ rpcs' \subseteq CallType
    BY <2>2, <2>3, <2>4, CallPeersTyped
  <2>6. disk' \in DiskType
    BY <1>2, <2>2, DumpTyped DEF TimerElection, n, DiskType
  <2>7. votes' \subseteq [voter : Server, term : Term, candidate : Server]
    <3>1. votes' = votes \cup {[voter |-> i, term |-> n.currentTerm, candidate |-> i]}
      BY <1>2 DEF TimerElection, n
    <3>2. n.currentTerm \in Term
      BY <2>2 DEF NodeType
    <3>3. QED
      BY <3>1, <3>2 DEF TypeOK
  <2>8. faults' = faults /\ lost' = lost
    BY <1>2 DEF TimerElection
  <2>9. QED
    BY <2>5, <2>6, <2>7, <2>8 DEF TypeOK, ProcType, DiskType
<1>3. CASE TimerElectionFail(i)
  <2>1. [node[i] EXCEPT !.state = "FOLLOWER"] \in NodeType
    BY <1>0 DEF NodeType
  <2>2. node' = [node EXCEPT ![i] = [node[i] EXCEPT !.state = "FOLLOWER"]]
    BY <1>3 DEF TimerElectionFail
  <2>3. node' \in [Server -> NodeType]
    BY <2>1, <2>2 DEF TypeOK
  <2>4. QED
    BY <1>3, <2>3 DEF TypeOK, TimerElectionFail
<1>4. QED
  BY <1>1, <1>2, <1>3 DEF Timer

\* Constructor, Run() and a crash keep the types.
LEMMA LifeCycleTyped ==
  ASSUME TypeOK, NEW i \in Server, Create(i) \/ Run(i) \/ Crash(i)
  PROVE  TypeOK'
<1>1. CASE Create(i)
  BY <1>1 DEF TypeOK, Create
<1>2. CASE Run(i)
  <2>1. Load(node[i], disk[i]) \in NodeType
    <3>1. node[i] \in NodeType /\ disk[i].term \in Term /\ disk[i].logs \in Seq(Entry)
      BY DEF TypeOK
    <3>2. QED
      BY <3>1 DEF Load, NodeType
  <2>2. QED
    BY <1>2, <2>1 DEF TypeOK, Run
<1>3. CASE Crash(i)
  <2>1. proc' \in ProcType /\ node' \in [Server -> NodeType] /\ rpcs' \subseteq CallType
    BY <1>3, DieTyped DEF Crash, TypeOK
  <2>2. QED
    BY <1>3, <2>1 DEF Crash, TypeOK, ProcType
<1>4. QED
  BY <1>1, <1>2, <1>3

\* DoLog appends an entry of the current term at the next index.
LEMMA AppendOwnTyped ==
  ASSUME NEW i \in Server, NEW n \in NodeType, NEW c \in Cmd, LastLogIndex(n.logs) + 1 < MaxLog
  PROVE  /\ AppendOwn(i, n, c) \in NodeType
         /\ AppendOwn(i, n, c).currentTerm = n.currentTerm
<1> DEFINE longer == [n EXCEPT !.logs = Append(n.logs, NewEntry(n, c))]
           committed == [longer EXCEPT !.commitIndex = LastLogIndex(longer.logs)]
<1>1. n.logs \in Seq(Entry) /\ n.currentTerm \in Term
  BY DEF NodeType
<1>2. NewEntry(n, c) \in Entry
  <2>1. LastLogIndex(n.logs) + 1 \in Index
    BY <1>1, LogIndexTyped, BoundsAssumption DEF Index
  <2>2. QED
    BY <1>1, <2>1 DEF NewEntry, Entry, Data
<1>3. longer.logs \in Seq(Entry) /\ longer \in NodeType /\ longer.currentTerm = n.currentTerm
  <2>1. Append(n.logs, NewEntry(n, c)) \in Seq(Entry)
    BY <1>1, <1>2
  <2>2. QED
    BY <1>1, <2>1 DEF NodeType
<1>4. committed \in NodeType /\ committed.currentTerm = n.currentTerm
  <2>1. LastLogIndex(longer.logs) \in Index
    BY <1>3, LogIndexTyped
  <2> HIDE DEF longer
  <2>2. QED
    BY <1>3, <2>1 DEF NodeType
<1>5. DoApply(committed) \in NodeType /\ DoApply(committed).currentTerm = n.currentTerm
  <2> HIDE DEF committed
  <2>1. DoApply(committed) \in NodeType
    BY <1>4, DoApplyTyped
  <2>2. DoApply(committed).currentTerm = committed.currentTerm
    BY <1>4 DEF DoApply, NodeType
  <2>3. QED
    BY <1>4, <2>1, <2>2
<1>6. AppendOwn(i, n, c) = IF PeerCount(i, n) > 0 THEN longer ELSE DoApply(committed)
  BY DEF AppendOwn
<1> HIDE DEF longer, committed
<1>7. QED
  BY <1>3, <1>5, <1>6

\* DoLog keeps the types.
LEMMA DoLogTyped ==
  ASSUME TypeOK, NEW i \in Server, NEW c \in Cmd, DoLog(i, c)
  PROVE  TypeOK'
<1> DEFINE n == AppendOwn(i, node[i], c)
           calls == {AppendRequest(i, n, p, FALSE) : p \in Peers(i)}
<1>1. n \in NodeType
  BY AppendOwnTyped DEF TypeOK, DoLog, Logs
<1> HIDE DEF n
<1>2. calls \in SUBSET CallType
  BY <1>1, AppendRequestTyped DEF Peers, CallType
<1>3. CallPeers(i, n, calls)
  BY DEF DoLog, n
<1> HIDE DEF calls
<1>4. proc' \in ProcType /\ node' \in [Server -> NodeType] /\ rpcs' \subseteq CallType
  BY <1>1, <1>2, <1>3, CallPeersTyped
<1>5. disk' \in DiskType
  BY <1>1, DumpTyped DEF DoLog, n, DiskType
<1>6. QED
  BY <1>4, <1>5 DEF DoLog, TypeOK, ProcType, DiskType

\* OnRequestVoteRequest keeps the types, whatever it answers.
LEMMA RequestVoteTyped ==
  ASSUME TypeOK, NEW m \in rpcs, OnRequestVoteRequest(m)
  PROVE  TypeOK'
<1> DEFINE i == m.dst
           n == node[i]
           reply(g) == [type |-> "RequestVoteReply", src |-> i, dst |-> m.src,
                        term |-> n.currentTerm, granted |-> g]
<1>1. m \in VoteRequestType /\ i \in Server /\ n \in NodeType
  BY CallKinds DEF TypeOK, OnRequestVoteRequest, VoteRequestType
<1>2. m.term \in Term /\ m.src \in Server /\ n.currentTerm \in Term
  BY <1>1 DEF VoteRequestType, NodeType
<1>3. reply(TRUE) \in CallType /\ reply(FALSE) \in CallType
  BY <1>1, <1>2 DEF CallType, VoteReplyType
<1>4. Answer(m, reply(TRUE)) \subseteq CallType /\ Answer(m, reply(FALSE)) \subseteq CallType
  BY <1>3, AnswerTyped
<1>5. Grant(n, m) \in NodeType
  BY <1>1, <1>2 DEF Grant, NodeType
<1>6. [n EXCEPT !.currentTerm = m.term] \in NodeType
  BY <1>1, <1>2 DEF NodeType
<1>7. rpcs' \subseteq CallType
  BY <1>4 DEF OnRequestVoteRequest, TypeOK
<1>8. node' \in [Server -> NodeType]
  <2>1. \/ node' = node
        \/ node' = [node EXCEPT ![i] = [n EXCEPT !.currentTerm = m.term]]
        \/ node' = [node EXCEPT ![i] = Grant(n, m)]
    BY DEF OnRequestVoteRequest
  <2>2. QED
    BY <1>5, <1>6, <2>1 DEF TypeOK
<1>9. disk' \in DiskType
  <2>1. Dump(i, Grant(n, m)) \in DiskType
    BY <1>1, <1>5, DumpTyped DEF DiskType
  <2>2. QED
    BY <2>1 DEF OnRequestVoteRequest, TypeOK, DiskType
<1>10. votes' \subseteq [voter : Server, term : Term, candidate : Server]
  BY <1>1, <1>2 DEF OnRequestVoteRequest, TypeOK
<1>11. QED
  BY <1>7, <1>8, <1>9, <1>10 DEF OnRequestVoteRequest, TypeOK, DiskType

\* Stepping down takes the term of the message, a counted vote keeps it.
LEMMA StepDownTyped ==
  ASSUME NEW n \in NodeType, NEW m, m.term \in Term
  PROVE  StepDown(n, m) \in NodeType /\ StepDown(n, m).currentTerm = m.term
  BY DEF StepDown, NodeType

\* Counting a vote keeps the type of the object.
LEMMA CountVoteTyped ==
  ASSUME NEW n \in NodeType, NEW i
  PROVE  CountVote(i, n) \in NodeType /\ CountVote(i, n).currentTerm = n.currentTerm
<1> DEFINE state == IF WinsVote(i, n, n.votesRecieved + 1) THEN "LEADER" ELSE n.state
<1>1. state \in {"FOLLOWER", "CANDIDATE", "LEADER"} /\ n.votesRecieved + 1 \in Nat
  BY DEF NodeType
<1>2. CountVote(i, n) = [n EXCEPT !.votesRecieved = n.votesRecieved + 1, !.state = state]
  BY DEF CountVote
<1> HIDE DEF state
<1>3. QED
  BY <1>1, <1>2 DEF NodeType

\* OnRequestVoteResponse keeps the types.
LEMMA RequestVoteReplyTyped ==
  ASSUME TypeOK, NEW m \in rpcs, OnRequestVoteResponse(m)
  PROVE  TypeOK'
<1> DEFINE i == m.dst
           n == node[i]
<1>1. m \in VoteReplyType /\ i \in Server /\ n \in NodeType /\ m.term \in Term
  BY CallKinds DEF TypeOK, OnRequestVoteResponse, VoteReplyType
<1>2. \/ node' = node
      \/ node' = [node EXCEPT ![i] = StepDown(n, m)]
      \/ node' = [node EXCEPT ![i] = CountVote(i, n)]
  BY DEF OnRequestVoteResponse
<1>3. node' \in [Server -> NodeType]
  <2>1. StepDown(n, m) \in NodeType /\ CountVote(i, n) \in NodeType
    BY <1>1, StepDownTyped, CountVoteTyped
  <2>2. QED
    BY <1>1, <1>2, <2>1 DEF TypeOK
<1>4. disk' \in DiskType
  <2>1. Dump(i, n) \in DiskType
    BY <1>1, DumpTyped DEF DiskType
  <2>2. disk' = disk \/ disk' = Dump(i, n)
    BY DEF OnRequestVoteResponse
  <2>3. QED
    BY <2>1, <2>2 DEF TypeOK, DiskType
<1>5. QED
  BY <1>3, <1>4 DEF OnRequestVoteResponse, TypeOK, DiskType

\* What a follower stores is a log.
LEMMA StoreTyped ==
  ASSUME NEW n \in NodeType, NEW m \in AppendRequestType
  PROVE  Store(n, m) \in Seq(Entry)
<1>1. n.logs \in Seq(Entry) /\ m.entries \in Seq(Entry)
  BY DEF NodeType, AppendRequestType
<1>3. FindLog(n.logs, m.prevLogTerm, m.prevLogIndex) \in 0 .. Len(n.logs)
  BY <1>1, FindLogIndex
<1>4. SubSeq(n.logs, 1, FindLog(n.logs, m.prevLogTerm, m.prevLogIndex)) \in Seq(Entry)
  BY <1>1, <1>3
<1>5. QED
  BY <1>1, <1>4 DEF Store

\* OnAppendEntriesRequest keeps the types in its four outcomes.
LEMMA AppendEntriesTyped ==
  ASSUME TypeOK, NEW m \in rpcs, OnAppendEntriesRequest(m)
  PROVE  TypeOK'
<1> DEFINE i == m.dst
           n == node[i]
           stored == [n EXCEPT !.logs = Store(n, m)]
           reply(s, logs) ==
             [type |-> "AppendEntriesReply", src |-> i, dst |-> m.src, ok |-> TRUE,
              isHeartbeat |-> m.isHeartbeat, term |-> n.currentTerm,
              success |-> s, lastLogIndex |-> LastLogIndex(logs)]
<1>1. m \in AppendRequestType /\ i \in Server /\ n \in NodeType /\ n.logs \in Seq(Entry)
  BY CallKinds DEF TypeOK, OnAppendEntriesRequest, AppendRequestType, NodeType
<1>2. m.term \in Term /\ m.src \in Server /\ m.isHeartbeat \in BOOLEAN /\ n.currentTerm \in Term
  BY <1>1 DEF AppendRequestType, NodeType
<1>4. Store(n, m) \in Seq(Entry) /\ stored \in NodeType /\ stored.logs = Store(n, m)
  BY <1>1, StoreTyped DEF OnAppendEntriesRequest, NodeType
<1>5. StepDown(n, m) \in NodeType
  BY <1>1, <1>2, StepDownTyped
<1>6. \A s \in BOOLEAN, logs \in Seq(Entry) : Answer(m, reply(s, logs)) \subseteq CallType
  <2> SUFFICES ASSUME NEW s \in BOOLEAN, NEW logs \in Seq(Entry)
               PROVE  reply(s, logs) \in CallType
    BY AnswerTyped
  <2>1. LastLogIndex(logs) \in Index
    BY LogIndexTyped
  <2>2. QED
    BY <1>1, <1>2, <2>1 DEF CallType, AppendReplyType
<1>7. rpcs' \subseteq CallType
  <2>1. \/ rpcs' = Answer(m, reply(FALSE, n.logs))
        \/ rpcs' = Answer(m, reply(TRUE, stored.logs))
    BY DEF OnAppendEntriesRequest, Appends, Reaches, Stored
  <2> HIDE DEF reply, stored
  <2>2. QED
    BY <1>1, <1>4, <1>6, <2>1
<1>8. node' \in [Server -> NodeType]
  <2>1. \/ node' = node
        \/ node' = [node EXCEPT ![i] = StepDown(n, m)]
        \/ node' = [node EXCEPT ![i] = stored]
    BY DEF OnAppendEntriesRequest, Appends, Reaches, Stored
  <2> HIDE DEF stored
  <2>2. QED
    BY <1>4, <1>5, <2>1 DEF TypeOK
<1>9. disk' \in DiskType
  <2>1. Dump(i, n) \in DiskType /\ Dump(i, stored) \in DiskType
    <3> HIDE DEF stored
    <3> QED
      BY <1>1, <1>4, DumpTyped DEF DiskType
  <2>2. disk' = disk \/ disk' = Dump(i, n) \/ disk' = Dump(i, stored)
    BY DEF OnAppendEntriesRequest, Appends, Reaches, Stored
  <2>3. QED
    BY <2>1, <2>2 DEF TypeOK, DiskType
<1>10. QED
  BY <1>7, <1>8, <1>9 DEF OnAppendEntriesRequest, TypeOK, DiskType

\* What the response handler makes of the object.
LEMMA AppendReplyNodesTyped ==
  ASSUME NEW n \in NodeType, NEW m \in AppendReplyType
  PROVE  /\ [n EXCEPT !.nullPeer = @ \/ ~ m.ok] \in NodeType
         /\ [n EXCEPT !.state = "FOLLOWER"] \in NodeType
         /\ Rejected(n, m) \in NodeType
         /\ Acknowledged(n, m) \in NodeType
         /\ m.lastLogIndex \in Index
         /\ [n EXCEPT !.commitIndex = m.lastLogIndex] \in NodeType
<1>1. m.lastLogIndex \in Index /\ m.lastLogIndex + 1 \in Nat /\ m.src \in Server /\ m.ok \in BOOLEAN
  BY BoundsAssumption DEF AppendReplyType, Index
<1>2. n.nextIndex \in [Server -> Nat] /\ n.matchIndex \in [Server -> Index]
  BY DEF NodeType
<1>3. [n.nextIndex EXCEPT ![m.src] = m.lastLogIndex + 1] \in [Server -> Nat]
  BY <1>1, <1>2
<1>4. [n.matchIndex EXCEPT ![m.src] = m.lastLogIndex] \in [Server -> Index]
  BY <1>1, <1>2
<1>5. Rejected(n, m) = [n EXCEPT !.nextIndex = [n.nextIndex EXCEPT ![m.src] = m.lastLogIndex + 1]]
  BY DEF Rejected
<1>6. Acknowledged(n, m) =
        [n EXCEPT !.nextIndex = [n.nextIndex EXCEPT ![m.src] = m.lastLogIndex + 1],
                  !.matchIndex = [n.matchIndex EXCEPT ![m.src] = m.lastLogIndex]]
  BY DEF Acknowledged
<1>7. Rejected(n, m) \in NodeType
  BY <1>3, <1>5 DEF NodeType
<1>8. Acknowledged(n, m) \in NodeType
  BY <1>3, <1>4, <1>6 DEF NodeType
<1>9. [n EXCEPT !.nullPeer = @ \/ ~ m.ok] \in NodeType
  <2>1. (n.nullPeer \/ ~ m.ok) \in BOOLEAN
    BY DEF NodeType
  <2>2. QED
    BY <2>1 DEF NodeType
<1>10. [n EXCEPT !.state = "FOLLOWER"] \in NodeType
  BY DEF NodeType
<1>11. [n EXCEPT !.commitIndex = m.lastLogIndex] \in NodeType
  BY <1>1 DEF NodeType
<1>12. QED
  BY <1>1, <1>7, <1>8, <1>9, <1>10, <1>11

\* OnAppendEntriesReponse keeps the types, the null peer included.
LEMMA AppendReplyTyped ==
  ASSUME TypeOK, NEW m \in rpcs, OnAppendEntriesReponse(m)
  PROVE  TypeOK'
<1> DEFINE i == m.dst
           n == [node[i] EXCEPT !.nullPeer = @ \/ ~ m.ok]
           n2 == IF m.term > n.currentTerm THEN [n EXCEPT !.state = "FOLLOWER"] ELSE n
           n3 == Acknowledged(n2, m)
           n4 == DoApply([n3 EXCEPT !.commitIndex = m.lastLogIndex])
           Becomes(next) == node' = [node EXCEPT ![i] = next] /\ rpcs' = rpcs \ {m} /\ UNCHANGED proc
<1>1. m \in AppendReplyType /\ i \in Server /\ node[i] \in NodeType
  BY CallKinds DEF TypeOK, OnAppendEntriesReponse, AppendReplyType
<1>2. n \in NodeType
  BY <1>1, AppendReplyNodesTyped
<1>3. n2 \in NodeType
  <2> HIDE DEF n
  <2> QED
    BY <1>1, <1>2, AppendReplyNodesTyped
<1>4. n3 \in NodeType /\ Rejected(n2, m) \in NodeType /\ n4 \in NodeType
  <2> HIDE DEF n2
  <2>1. n3 \in NodeType /\ Rejected(n2, m) \in NodeType
    BY <1>1, <1>3, AppendReplyNodesTyped
  <2> HIDE DEF n3
  <2>2. [n3 EXCEPT !.commitIndex = m.lastLogIndex] \in NodeType
    BY <1>1, <2>1, AppendReplyNodesTyped
  <2>3. QED
    BY <2>1, <2>2, DoApplyTyped
<1>5. \/ Becomes(n) \/ Becomes(n2) \/ Becomes(Rejected(n2, m)) \/ Becomes(n3) \/ Becomes(n4)
      \/ Die(i, "segv", rpcs \ {m})
  BY DEF OnAppendEntriesReponse
<1>6. disk' = disk \/ disk' = Dump(i, n2)
  BY DEF OnAppendEntriesReponse
<1> HIDE DEF n, n2, n3, n4
<1>7. proc' \in ProcType /\ node' \in [Server -> NodeType] /\ rpcs' \subseteq CallType
  <2>1. CASE Die(i, "segv", rpcs \ {m})
    BY <1>1, <2>1, DieTyped DEF TypeOK
  <2>2. CASE \E next \in NodeType : Becomes(next)
    BY <1>1, <2>2 DEF TypeOK, ProcType
  <2>3. QED
    BY <1>2, <1>3, <1>4, <1>5, <2>1, <2>2
<1>8. disk' \in DiskType
  BY <1>1, <1>3, <1>6, DumpTyped DEF TypeOK, DiskType
<1>9. QED
  BY <1>7, <1>8 DEF OnAppendEntriesReponse, TypeOK, ProcType, DiskType

\* The answer of a failed call is an answer.
LEMMA FailedReplyTyped ==
  ASSUME NEW m \in CallType, m.type \in {"AppendEntries", "AppendEntriesReply"}
  PROVE  FailedReply(m) \in AppendReplyType
<1>1. 0 \in Term /\ 0 \in Index
  BY BoundsAssumption DEF Term, Index
<1>2. CASE m.type = "AppendEntries"
  BY <1>1, <1>2, CallKinds DEF FailedReply, AppendRequestType, AppendReplyType, IsRequest
<1>3. CASE m.type = "AppendEntriesReply"
  BY <1>1, <1>3, CallKinds DEF FailedReply, AppendReplyType, IsRequest
<1>4. QED
  BY <1>2, <1>3

\* Failing and lost calls keep the types.
LEMMA FailureTyped ==
  ASSUME TypeOK, NEW m \in rpcs, FailCall(m) \/ LoseOrphan(m)
  PROVE  TypeOK'
<1>1. m \in CallType
  BY DEF TypeOK
<1>2. m.type \in {"AppendEntries", "AppendEntriesReply"} => FailedReply(m) \in AppendReplyType
  BY <1>1, FailedReplyTyped
<1>3. rpcs' \subseteq CallType
  BY <1>2 DEF FailCall, Failed, LoseOrphan, TypeOK, CallType
<1>4. faults' \in Nat
  BY DEF FailCall, LoseOrphan, TypeOK
<1>5. QED
  BY <1>3, <1>4 DEF FailCall, LoseOrphan, TypeOK

-----------------------------------------------------------------------------
(* A process that ends within Dump: what it wrote, and which calls it leaves. *)

\* Only a running node has calls whose answers it will handle.
Caller(m)  == IF IsRequest(m) THEN m.src ELSE m.dst
Awaited(m) == IsRequest(m) => m.waiting
CallersIn(calls) == \A m \in calls : Awaited(m) => proc[Caller(m)] = "running"

\* The record that is being written is the node's, with a term that is not older
\* and with the log of the node, of DoLog or of OnAppendEntriesRequest.
Logged(i, n) == node[i].state = "LEADER" /\ LastLogIndex(node[i].logs) + 1 < MaxLog
                /\ \E c \in Cmd : n = AppendOwn(i, node[i], c)
Taken(i, n) == \E m \in rpcs : Appends(m) /\ Reaches(node[i], m) /\ m.dst = i /\ n = Stored(node[i], m)
Writing(i, n) ==
  /\ CallersIn(rpcs) => proc[i] = "running"
  /\ n \in NodeType
  /\ n.currentTerm >= node[i].currentTerm
  /\ \/ n.logs = node[i].logs
     \/ n.currentTerm = node[i].currentTerm /\ proc[i] = "running" /\ (Logged(i, n) \/ Taken(i, n))

\* The calls left are those in flight, and failed answers to callers still alive.
Left(i, calls) ==
  \A c \in calls : \/ c \in rpcs
                   \/ \E m \in rpcs : /\ m.type = "AppendEntries" /\ m.dst = i /\ m.waiting
                                      /\ c = FailedReply(m)

Dying(i, n, calls, torn, d) ==
  /\ Writing(i, n)
  /\ calls \in SUBSET CallType
  /\ Left(i, calls)
  /\ Die(i, "down", calls)
  /\ d \in IF torn THEN CutTorn(n) ELSE CutShort(n)
  /\ disk' = [disk EXCEPT ![i] = d]
  /\ lost' = [lost EXCEPT ![i] = [term |-> LostTerm(i, d), torn |-> lost[i].torn \/ torn]]
  /\ votes' = votes

\* What a cut file holds: nothing but a term, or the record's term and a log, and
\* if no entry was torn, a beginning of the record's log.
LEMMA CutParts ==
  ASSUME NEW n \in NodeType, NEW torn \in BOOLEAN,
         NEW d \in IF torn THEN CutTorn(n) ELSE CutShort(n)
  PROVE  /\ d.term \in Term /\ d.logs \in Seq(Entry) /\ d \in [term : Term, logs : Seq(Entry)]
         /\ d.logs = <<>> \/ d.term = n.currentTerm
         /\ ~ torn /\ d.logs # <<>> =>
              /\ Len(d.logs) <= Len(n.logs)
              /\ \A k \in 1 .. Len(d.logs) : d.logs[k] = n.logs[k]
<1>1. n.currentTerm \in Term /\ n.logs \in Seq(Entry) /\ Len(n.logs) \in Nat
  BY DEF NodeType
<1>2. CASE torn
  <2>1. PICK k \in DOMAIN n.logs : \E e \in TornEntries(n.logs[k]) :
            d = [term |-> n.currentTerm, logs |-> Append(SubSeq(n.logs, 1, k - 1), e)]
    BY <1>2 DEF CutTorn
  <2>2. PICK e \in TornEntries(n.logs[k]) :
            d = [term |-> n.currentTerm, logs |-> Append(SubSeq(n.logs, 1, k - 1), e)]
    BY <2>1
  <2>3. k \in 1 .. Len(n.logs) /\ n.logs[k] \in Entry
    BY <1>1
  <2>4. e \in Entry
    BY <2>3, BoundsAssumption DEF TornEntries, Entry, Term, Index, Data
  <2>5. SubSeq(n.logs, 1, k - 1) \in Seq(Entry)
    BY <1>1, <2>3
  <2>6. Append(SubSeq(n.logs, 1, k - 1), e) \in Seq(Entry)
    BY <2>4, <2>5
  <2>7. QED
    BY <1>1, <1>2, <2>2, <2>6
<1>3. CASE ~ torn
  <2>1. CASE \E t \in Term : d = [term |-> t, logs |-> <<>>]
    BY <1>3, <2>1
  <2>2. CASE \E k \in 0 .. Len(n.logs) : d = [term |-> n.currentTerm, logs |-> SubSeq(n.logs, 1, k)]
    <3>1. PICK k \in 0 .. Len(n.logs) : d = [term |-> n.currentTerm, logs |-> SubSeq(n.logs, 1, k)]
      BY <2>2
    <3>2. /\ SubSeq(n.logs, 1, k) \in Seq(Entry) /\ Len(SubSeq(n.logs, 1, k)) = k
          /\ \A q \in 1 .. k : SubSeq(n.logs, 1, k)[q] = n.logs[q]
      BY <1>1
    <3>3. QED
      BY <1>1, <3>1, <3>2
  <2>3. QED
    BY <1>3, <2>1, <2>2 DEF CutShort
<1>4. QED
  BY <1>2, <1>3

\* A call that is being served leaves at most a failed answer behind.
LEMMA BrokenParts ==
  ASSUME TypeOK, NEW m \in rpcs, IsRequest(m)
  PROVE  Broken(m) \in SUBSET CallType /\ Left(m.dst, Broken(m))
<1>1. m \in CallType /\ rpcs \subseteq CallType
  BY DEF TypeOK
<1>2. m.type = "AppendEntries" => FailedReply(m) \in CallType
  BY <1>1, FailedReplyTyped DEF CallType
<1>3. m.type # "AppendEntriesReply"
  BY DEF IsRequest
<1>4. QED
  BY <1>1, <1>2, <1>3 DEF Broken, Failed, Left

\* Every caller of Dump may be the one that ends.
LEMMA DumpCutParts ==
  ASSUME TypeOK, DumpCut
  PROVE  /\ \E i \in Server : \E n, calls, d : \E torn \in BOOLEAN : Dying(i, n, calls, torn, d)
         /\ faults' \in Nat
<1>1. ASSUME NEW i \in Server, NEW n, NEW calls, Writing(i, n), Left(i, calls),
             calls \in SUBSET CallType, DieInDump(i, n, calls)
      PROVE  /\ \E d : \E torn \in BOOLEAN : Dying(i, n, calls, torn, d)
             /\ faults' \in Nat
  <2>1. PICK torn \in BOOLEAN : \E d \in IF torn THEN CutTorn(n) ELSE CutShort(n) :
            /\ disk' = [disk EXCEPT ![i] = d]
            /\ lost' = [lost EXCEPT ![i] = [term |-> LostTerm(i, d), torn |-> lost[i].torn \/ torn]]
    BY <1>1 DEF DieInDump
  <2>2. PICK d \in IF torn THEN CutTorn(n) ELSE CutShort(n) :
            /\ disk' = [disk EXCEPT ![i] = d]
            /\ lost' = [lost EXCEPT ![i] = [term |-> LostTerm(i, d), torn |-> lost[i].torn \/ torn]]
    BY <2>1
  <2>3. Die(i, "down", calls) /\ votes' = votes /\ faults' = faults + 1
    BY <1>1 DEF DieInDump
  <2>4. Dying(i, n, calls, torn, d)
    BY <1>1, <2>2, <2>3 DEF Dying
  <2>5. QED
    BY <2>3, <2>4 DEF TypeOK
<1>2. /\ rpcs \in SUBSET CallType
      /\ \A m \in rpcs : rpcs \ {m} \in SUBSET CallType
      /\ \A i : Left(i, rpcs) /\ \A m : Left(i, rpcs \ {m})
  BY DEF TypeOK, Left
<1>3. \A i \in Server : node[i] \in NodeType /\ node[i].currentTerm \in Nat
  BY BoundsAssumption DEF TypeOK, NodeType, Term
<1>4. ASSUME NEW i \in Server, ElectionDue(i), DieInDump(i, StartElection(i, node[i]), rpcs)
      PROVE  Writing(i, StartElection(i, node[i]))
  BY <1>3, <1>4, StartElectionTyped DEF Writing, ElectionDue
<1>5. ASSUME NEW i \in Server, NEW c \in Cmd, Logs(i)
      PROVE  Writing(i, AppendOwn(i, node[i], c))
  <2>1. proc[i] = "running" /\ node[i].state = "LEADER" /\ LastLogIndex(node[i].logs) + 1 < MaxLog
    BY <1>5 DEF Logs, MayLog
  <2>2. Logged(i, AppendOwn(i, node[i], c))
    BY <2>1 DEF Logged
  <2>3. AppendOwn(i, node[i], c) \in NodeType
        /\ AppendOwn(i, node[i], c).currentTerm = node[i].currentTerm
    BY <1>3, <2>1, AppendOwnTyped
  <2>4. QED
    BY <1>3, <2>1, <2>2, <2>3 DEF Writing
<1>6. ASSUME NEW m \in rpcs, Grants(m)
      PROVE  m.dst \in Server /\ IsRequest(m) /\ Writing(m.dst, Grant(node[m.dst], m))
  <2>1. /\ m \in VoteRequestType /\ m.dst \in Server /\ m.term \in Term /\ IsRequest(m)
        /\ proc[m.dst] = "running" /\ ~ (m.term <= node[m.dst].currentTerm)
    BY <1>6, CallKinds DEF Grants, MayVote, TermNotNew, TypeOK, VoteRequestType, IsRequest
  <2>2. Grant(node[m.dst], m) \in NodeType /\ Grant(node[m.dst], m).currentTerm = m.term
        /\ Grant(node[m.dst], m).logs = node[m.dst].logs
    <3>1. node[m.dst] \in NodeType /\ m.term \in Term
      BY <1>3, <2>1
    <3>2. QED
      BY <3>1 DEF Grant, NodeType
  <2>3. m.term \in Nat
    BY <2>1, BoundsAssumption DEF Term
  <2>4. QED
    BY <1>3, <2>1, <2>2, <2>3 DEF Writing
<1>7. ASSUME NEW m \in rpcs, m.type \in {"RequestVoteReply", "AppendEntriesReply"}
      PROVE  m.dst \in Server /\ Writing(m.dst, node[m.dst])
  <2>1. m.dst \in Server /\ (CallersIn(rpcs) => proc[m.dst] = "running")
    BY <1>7, CallKinds DEF TypeOK, CallersIn, Awaited, Caller, IsRequest
  <2>2. QED
    BY <1>3, <2>1 DEF Writing
<1>8. ASSUME NEW m \in rpcs, Appends(m)
      PROVE  /\ m.dst \in Server /\ IsRequest(m)
             /\ Writing(m.dst, IF Reaches(node[m.dst], m) THEN Stored(node[m.dst], m)
                               ELSE node[m.dst])
  <2>1. /\ m \in AppendRequestType /\ m.dst \in Server /\ IsRequest(m) /\ proc[m.dst] = "running"
    BY <1>8, CallKinds DEF Appends, TypeOK, AppendRequestType, IsRequest
  <2>2. Stored(node[m.dst], m) \in NodeType
        /\ Stored(node[m.dst], m).currentTerm = node[m.dst].currentTerm
    <3>1. Store(node[m.dst], m) \in Seq(Entry)
      BY <1>3, <2>1, StoreTyped
    <3>2. node[m.dst] \in NodeType
      BY <1>3, <2>1
    <3>3. QED
      BY <3>1, <3>2 DEF Stored, NodeType
  <2>3. Reaches(node[m.dst], m) => Taken(m.dst, Stored(node[m.dst], m))
    BY <1>8 DEF Taken
  <2>4. QED
    BY <1>3, <2>1, <2>2, <2>3 DEF Writing
<1>9. ASSUME NEW i \in Server, ElectionDue(i), DieInDump(i, StartElection(i, node[i]), rpcs)
      PROVE  /\ \E n, calls, d : \E torn \in BOOLEAN : Dying(i, n, calls, torn, d)
             /\ faults' \in Nat
  BY <1>1, <1>2, <1>4, <1>9
<1>10. ASSUME NEW i \in Server, NEW c \in Cmd, Logs(i), DieInDump(i, AppendOwn(i, node[i], c), rpcs)
       PROVE  /\ \E n, calls, d : \E torn \in BOOLEAN : Dying(i, n, calls, torn, d)
              /\ faults' \in Nat
  BY <1>1, <1>2, <1>5, <1>10
<1>11. ASSUME NEW m \in rpcs, Grants(m), DieInDump(m.dst, Grant(node[m.dst], m), Broken(m))
       PROVE  /\ \E n, calls, d : \E torn \in BOOLEAN : Dying(m.dst, n, calls, torn, d)
              /\ faults' \in Nat
  BY <1>1, <1>6, <1>11, BrokenParts
<1>12. ASSUME NEW m \in rpcs, m.type \in {"RequestVoteReply", "AppendEntriesReply"},
              DieInDump(m.dst, node[m.dst], rpcs \ {m})
       PROVE  /\ \E n, calls, d : \E torn \in BOOLEAN : Dying(m.dst, n, calls, torn, d)
              /\ faults' \in Nat
  BY <1>1, <1>2, <1>7, <1>12
<1>13. ASSUME NEW m \in rpcs, Appends(m), NEW n,
              n = IF Reaches(node[m.dst], m) THEN Stored(node[m.dst], m) ELSE node[m.dst],
              DieInDump(m.dst, n, Broken(m))
       PROVE  /\ \E nn, calls, d : \E torn \in BOOLEAN : Dying(m.dst, nn, calls, torn, d)
              /\ faults' \in Nat
  BY <1>1, <1>8, <1>13, BrokenParts
<1>14. QED
  BY <1>6, <1>7, <1>8, <1>9, <1>10, <1>11, <1>12, <1>13 DEF DumpCut

\* A process that ends within Dump leaves a well-typed file.
LEMMA DumpCutTyped ==
  ASSUME TypeOK, DumpCut
  PROVE  TypeOK'
<1>1. PICK i \in Server : \E n, calls, d : \E torn \in BOOLEAN : Dying(i, n, calls, torn, d)
  BY DumpCutParts
<1>2. PICK n, calls, d : \E torn \in BOOLEAN : Dying(i, n, calls, torn, d)
  BY <1>1
<1>3. PICK torn \in BOOLEAN : Dying(i, n, calls, torn, d)
  BY <1>2
<1>4. proc' \in ProcType /\ node' \in [Server -> NodeType] /\ rpcs' \subseteq CallType
  BY <1>3, DieTyped DEF Dying
<1>5. d \in [term : Term, logs : Seq(Entry)] /\ disk' \in DiskType
  BY <1>3, CutParts DEF Dying, Writing, TypeOK, DiskType
<1>6. LostTerm(i, d) \in Term
  BY DEF LostTerm, TypeOK
<1>7. lost' \in [Server -> [term : Term, torn : BOOLEAN]]
  BY <1>3, <1>6 DEF Dying, TypeOK
<1>8. votes' = votes /\ faults' \in Nat
  BY <1>3, DumpCutParts DEF Dying
<1>9. QED
  BY <1>4, <1>5, <1>7, <1>8 DEF TypeOK, ProcType, DiskType

-----------------------------------------------------------------------------
(* Type correctness.                                                       *)

\* Every step keeps the types.
LEMMA TypePreserved ==
  ASSUME TypeOK, [Next]_vars
  PROVE  TypeOK'
<1>1. ASSUME NEW i \in Server, Create(i) \/ Run(i) \/ Crash(i) PROVE TypeOK'
  BY <1>1, LifeCycleTyped
<1>2. ASSUME NEW i \in Server, Timer(i) PROVE TypeOK'
  BY <1>2, TimersTyped
<1>3. ASSUME NEW i \in Server, NEW c \in Cmd, DoLog(i, c) PROVE TypeOK'
  BY <1>3, DoLogTyped
<1>4. ASSUME NEW m \in rpcs, Handle(m) PROVE TypeOK'
  BY <1>4, RequestVoteTyped, RequestVoteReplyTyped, AppendEntriesTyped, AppendReplyTyped DEF Handle
<1>5. ASSUME NEW m \in rpcs, FailCall(m) \/ LoseOrphan(m) PROVE TypeOK'
  BY <1>5, FailureTyped
<1>6. CASE DumpCut
  BY <1>6, DumpCutTyped
<1>7. CASE UNCHANGED vars
  BY <1>7 DEF vars, TypeOK
<1>8. QED
  BY <1>1, <1>2, <1>3, <1>4, <1>5, <1>6, <1>7 DEF Next

-----------------------------------------------------------------------------
(* The votes are a VoteLedger.  The inductive invariant adds two facts that  *)
(* hold between a node and its surroundings: only a running node has calls   *)
(* whose answers it will handle, and its term is never behind its file.      *)

CallersRun == CallersIn(rpcs)
TermOnDisk == \A i \in Server : proc[i] = "running" => disk[i].term <= node[i].currentTerm
IndInv == TypeOK /\ CallersRun /\ TermOnDisk

\* Only a process that ends within Dump lowers the term of its file, and then
\* there is no log left in it.
FilesFall == \A i \in Server :
  \/ disk'[i].term >= disk[i].term
  \/ proc[i] = "running" /\ proc'[i] = "down" /\ disk'[i].logs = <<>>
LedgerStep == [Ledger!Next]_(Ledger!ledgerVars) /\ FilesFall

\* The files' terms are terms.
LEMMA DiskTermTyped ==
  ASSUME TypeOK, NEW i \in Server
  PROVE  disk[i].term \in Term /\ disk[i].term \in Nat /\ node[i].currentTerm \in Nat
  BY BoundsAssumption DEF TypeOK, NodeType, Term

\* Only the file of node i changes, and its term becomes t.
LEMMA TermsWritten ==
  ASSUME TypeOK, NEW i \in Server, NEW t, disk'[i].term = t,
         \A j \in Server \ {i} : disk'[j] = disk[j]
  PROVE  [j \in Server |-> disk'[j].term] = [[j \in Server |-> disk[j].term] EXCEPT ![i] = t]
  OBVIOUS

\* A node writes a term that is not older: a step of the ledger or none.
LEMMA DumpIsLedgerStep ==
  ASSUME TypeOK, NEW i \in Server, NEW n \in NodeType,
         disk[i].term <= n.currentTerm, disk' = Dump(i, n), votes' = votes, lost' = lost
  PROVE  LedgerStep /\ disk'[i].term = n.currentTerm
         /\ \A j \in Server \ {i} : disk'[j] = disk[j]
<1> DEFINE durable == [j \in Server |-> disk[j].term]
           durable2 == [j \in Server |-> disk'[j].term]
<1>1. disk'[i].term = n.currentTerm /\ \A j \in Server \ {i} : disk'[j] = disk[j]
  BY DEF TypeOK, Dump, Record
<1>2. n.currentTerm \in Term /\ \A j \in Server : disk[j].term \in Nat
  BY DiskTermTyped DEF NodeType
<1>3. FilesFall
  BY <1>1, <1>2, BoundsAssumption DEF FilesFall, Term
<1>4. CASE disk[i].term = n.currentTerm
  <2>1. durable2 = durable
    BY <1>1, <1>4
  <2>2. QED
    BY <1>1, <1>3, <2>1 DEF LedgerStep, Ledger!ledgerVars
<1>5. CASE disk[i].term # n.currentTerm
  <2>1. n.currentTerm > disk[i].term /\ n.currentTerm \in 0 .. MaxTerm
    BY <1>2, <1>5, BoundsAssumption DEF Term
  <2>2. durable2 = [durable EXCEPT ![i] = n.currentTerm]
    BY <1>1, TermsWritten
  <2>3. Ledger!Advance(i, n.currentTerm)
    BY <2>1, <2>2 DEF Ledger!Advance
  <2>4. QED
    BY <1>1, <1>3, <2>1, <2>3 DEF LedgerStep, Ledger!Next
<1>6. QED
  BY <1>4, <1>5

\* A vote is written with a later term: a Vote of the ledger.
LEMMA VoteIsLedgerStep ==
  ASSUME TypeOK, NEW i \in Server, NEW n \in NodeType, NEW c \in Server,
         disk[i].term < n.currentTerm, disk' = Dump(i, n), lost' = lost,
         votes' = votes \cup {[voter |-> i, term |-> n.currentTerm, candidate |-> c]}
  PROVE  LedgerStep /\ disk'[i].term = n.currentTerm
         /\ \A j \in Server \ {i} : disk'[j] = disk[j]
<1> DEFINE durable == [j \in Server |-> disk[j].term]
           durable2 == [j \in Server |-> disk'[j].term]
<1>1. disk'[i].term = n.currentTerm /\ \A j \in Server \ {i} : disk'[j] = disk[j]
  BY DEF TypeOK, Dump, Record
<1>2. n.currentTerm \in 0 .. MaxTerm /\ \A j \in Server : disk[j].term \in Nat
  BY DiskTermTyped, BoundsAssumption DEF NodeType, Term
<1>3. FilesFall
  BY <1>1, <1>2, BoundsAssumption DEF FilesFall
<1>4. durable2 = [durable EXCEPT ![i] = n.currentTerm]
  BY <1>1, TermsWritten
<1>5. Ledger!Vote(i, n.currentTerm, c)
  BY <1>4 DEF Ledger!Vote
<1>6. QED
  BY <1>1, <1>2, <1>3, <1>5 DEF LedgerStep, Ledger!Next

\* Without a write and a vote the ledger stutters.
LEMMA StutterIsLedgerStep ==
  ASSUME TypeOK, disk' = disk, votes' = votes, lost' = lost
  PROVE  LedgerStep
<1>1. \A j \in Server : disk[j].term \in Nat
  BY DiskTermTyped
<1>2. QED
  BY <1>1 DEF LedgerStep, FilesFall, Ledger!ledgerVars

\* A process that ends leaves no awaited call behind.
LEMMA DieKeepsCallers ==
  ASSUME TypeOK, NEW i \in Server, NEW how \in {"down", "segv"},
         NEW calls \in SUBSET CallType, CallersIn(calls), Die(i, how, calls)
  PROVE  CallersRun'
<1> SUFFICES ASSUME NEW m \in rpcs', Awaited(m)
             PROVE  proc'[Caller(m)] = "running"
  BY DEF CallersRun, CallersIn, Awaited, Caller, IsRequest
<1>1. PICK c \in calls : /\ IsRequest(c) \/ c.dst # i
                         /\ m = IF c.src = i /\ IsRequest(c)
                                THEN [c EXCEPT !.waiting = FALSE] ELSE c
  BY DEF Die, Orphaned
<1>2. CASE c.src = i /\ IsRequest(c)
  <2>1. c \in VoteRequestType \cup AppendRequestType
    BY <1>2, CallKinds
  <2>2. IsRequest(m) /\ ~ m.waiting
    BY <1>1, <1>2, <2>1 DEF IsRequest, VoteRequestType, AppendRequestType
  <2>3. QED
    BY <2>2 DEF Awaited
<1>3. CASE ~ (c.src = i /\ IsRequest(c))
  <2>1. m = c /\ Caller(c) # i /\ Caller(c) \in Server
    BY <1>1, <1>3, CallKinds DEF Caller
  <2>2. proc[Caller(c)] = "running"
    BY <2>1 DEF CallersIn
  <2>3. QED
    BY <2>1, <2>2 DEF Die, TypeOK
<1>4. QED
  BY <1>2, <1>3

\* Looping over the peers keeps the callers running or leaves their calls.
LEMMA CallPeersKeepsCallers ==
  ASSUME IndInv, NEW i \in Server, proc[i] = "running", NEW n,
         NEW calls \in SUBSET CallType,
         \A m \in calls : IsRequest(m) /\ m.src = i,
         CallPeers(i, n, calls)
  PROVE  CallersRun'
<1>1. rpcs \cup calls \in SUBSET CallType /\ CallersIn(rpcs \cup calls)
  BY DEF IndInv, TypeOK, CallersRun, CallersIn, Caller
<1>2. CASE n.nullPeer
  <2>1. Die(i, "segv", rpcs \cup calls)
    BY <1>2 DEF CallPeers
  <2>2. QED
    BY <1>1, <2>1, DieKeepsCallers DEF IndInv
<1>3. CASE ~ n.nullPeer
  <2>1. rpcs' = rpcs \cup calls /\ proc' = proc
    BY <1>3 DEF CallPeers
  <2>2. QED
    BY <1>1, <2>1 DEF CallersRun, CallersIn, Caller, Awaited, IsRequest
<1>4. QED
  BY <1>2, <1>3

\* An answer is awaited by a running node.
LEMMA AnswerKeepsCallers ==
  ASSUME IndInv, NEW m \in rpcs, IsRequest(m), NEW reply,
         ~ IsRequest(reply), reply.dst = m.src, proc' = proc,
         rpcs' = Answer(m, reply)
  PROVE  CallersRun'
<1>1. m.waiting => proc[m.src] = "running"
  BY DEF IndInv, CallersRun, CallersIn, Caller, Awaited
<1>2. \A c \in rpcs : Awaited(c) => proc[Caller(c)] = "running"
  BY DEF IndInv, CallersRun, CallersIn
<1>3. \A c \in rpcs' : c \in rpcs \/ (m.waiting /\ c = reply)
  BY DEF Answer
<1>4. Caller(reply) = m.src
  BY DEF Caller
<1>5. \A c \in rpcs' : Awaited(c) => proc[Caller(c)] = "running"
  BY <1>1, <1>2, <1>3, <1>4
<1>6. QED
  BY <1>5 DEF CallersRun, CallersIn, Caller, Awaited, IsRequest

\* Fewer calls, the same processes.
LEMMA FewerKeepsCallers ==
  ASSUME IndInv, proc' = proc, rpcs' \subseteq rpcs
  PROVE  CallersRun'
  BY DEF IndInv, CallersRun, CallersIn, Caller, Awaited, IsRequest

\* Only node i changes, and its term is not behind its file.
LEMMA OthersKeepTerm ==
  ASSUME IndInv, NEW i \in Server,
         \A j \in Server \ {i} :
            proc'[j] = proc[j] /\ node'[j] = node[j] /\ disk'[j] = disk[j],
         proc'[i] = "running" => disk'[i].term <= node'[i].currentTerm
  PROVE  TermOnDisk'
  BY DEF IndInv, TermOnDisk

\* A loop over the peers leaves the node as given, or dead.
LEMMA CallPeersNode ==
  ASSUME TypeOK, NEW i \in Server, NEW n, NEW calls, CallPeers(i, n, calls)
  PROVE  /\ \A j \in Server \ {i} : proc'[j] = proc[j] /\ node'[j] = node[j]
         /\ proc'[i] = "running" => node'[i] = n
  BY DEF TypeOK, CallPeers, Die

\* After the end of a process every term in memory is the old one or zero.
LEMMA DieNode ==
  ASSUME TypeOK, NEW i \in Server, NEW how \in {"down", "segv"}, NEW calls, Die(i, how, calls)
  PROVE  /\ \A j \in Server \ {i} : proc'[j] = proc[j] /\ node'[j] = node[j]
         /\ proc'[i] # "running"
  BY DEF TypeOK, Die

\* Starting, running and crashing keep the invariant and stutter in the ledger.
LEMMA LifeCycleStep ==
  ASSUME IndInv, NEW i \in Server, Create(i) \/ Run(i) \/ Crash(i)
  PROVE  CallersRun' /\ TermOnDisk' /\ LedgerStep
<1>1. TypeOK
  BY DEF IndInv
<1>2. LedgerStep
  BY <1>1, StutterIsLedgerStep DEF Create, Run, Crash
<1>3. CASE Create(i) \/ Run(i)
  <2>1. CallersRun'
    <3>1. rpcs' = rpcs /\ \A j \in Server : proc[j] = "running" => proc'[j] = "running"
      BY <1>1, <1>3 DEF Create, Run, TypeOK
    <3>2. \A m \in rpcs : Caller(m) \in Server
      BY <1>1, CallKinds DEF TypeOK, Caller
    <3>3. QED
      BY <3>1, <3>2 DEF IndInv, CallersRun, CallersIn, Caller, Awaited, IsRequest
  <2>2. \A j \in Server \ {i} :
            proc'[j] = proc[j] /\ node'[j] = node[j] /\ disk'[j] = disk[j]
    BY <1>1, <1>3 DEF Create, Run, TypeOK
  <2>3. proc'[i] = "running" => disk'[i].term <= node'[i].currentTerm
    <3>1. CASE Create(i)
      BY <1>1, <3>1 DEF Create, TypeOK
    <3>2. CASE Run(i)
      <4>1. Load(node[i], disk[i]).currentTerm = disk[i].term
        BY <1>1 DEF Load, TypeOK, NodeType
      <4>2. QED
        BY <1>1, <3>2, <4>1, DiskTermTyped DEF Run, TypeOK
    <3>3. QED
      BY <1>3, <3>1, <3>2
  <2>4. QED
    BY <1>2, <2>1, <2>2, <2>3, OthersKeepTerm
<1>4. CASE Crash(i)
  <2>1. Die(i, "down", rpcs) /\ disk' = disk
    BY <1>4 DEF Crash
  <2>2. CallersRun'
    BY <1>1, <2>1, DieKeepsCallers DEF IndInv, TypeOK, CallersRun
  <2>3. TermOnDisk'
    BY <1>1, <2>1, DieNode, OthersKeepTerm
  <2>4. QED
    BY <1>2, <2>2, <2>3
<1>5. QED
  BY <1>3, <1>4

\* The timers keep the invariant; an election is a vote of the ledger.
LEMMA TimerStep ==
  ASSUME IndInv, NEW i \in Server, Timer(i)
  PROVE  CallersRun' /\ TermOnDisk' /\ LedgerStep
<1>1. TypeOK /\ node[i] \in NodeType /\ disk[i].term <= node[i].currentTerm /\ proc[i] = "running"
  BY DEF IndInv, TypeOK, TermOnDisk, Timer, TimerHeartbeat, TimerElection, ElectionDue, TimerElectionFail
<1>2. CASE TimerHeartbeat(i)
  <2> DEFINE calls == {AppendRequest(i, node[i], p, TRUE) : p \in Peers(i)}
  <2>1. calls \in SUBSET CallType /\ \A m \in calls : IsRequest(m) /\ m.src = i
    <3>1. \A p \in Peers(i) : AppendRequest(i, node[i], p, TRUE) \in CallType
      BY <1>1, AppendRequestTyped DEF Peers, CallType
    <3>2. \A p : AppendRequest(i, node[i], p, TRUE).type = "AppendEntries"
                 /\ AppendRequest(i, node[i], p, TRUE).src = i
      BY DEF AppendRequest
    <3>3. QED
      BY <3>1, <3>2 DEF IsRequest
  <2>2. CallPeers(i, node[i], calls) /\ disk' = disk /\ votes' = votes /\ lost' = lost
    BY <1>2 DEF TimerHeartbeat
  <2> HIDE DEF calls
  <2>3. CallersRun'
    BY <1>1, <2>1, <2>2, CallPeersKeepsCallers
  <2>4. TermOnDisk'
    BY <1>1, <2>2, CallPeersNode, OthersKeepTerm
  <2>5. QED
    BY <1>1, <2>2, <2>3, <2>4, StutterIsLedgerStep
<1>3. CASE TimerElection(i)
  <2> DEFINE n == StartElection(i, node[i])
             calls == {VoteRequest(i, n, p) : p \in Peers(i)}
  <2>1. n \in NodeType /\ n.currentTerm = node[i].currentTerm + 1
    BY <1>1, <1>3, StartElectionTyped DEF TimerElection
  <2>2. CallPeers(i, n, calls) /\ disk' = Dump(i, n) /\ lost' = lost
        /\ votes' = votes \cup {[voter |-> i, term |-> n.currentTerm, candidate |-> i]}
    BY <1>3 DEF TimerElection
  <2> HIDE DEF n
  <2>3. calls \in SUBSET CallType /\ \A m \in calls : IsRequest(m) /\ m.src = i
    <3>1. \A p \in Peers(i) : VoteRequest(i, n, p) \in CallType
      BY <2>1, VoteRequestTyped DEF Peers, CallType
    <3>2. \A p : VoteRequest(i, n, p).type = "RequestVote" /\ VoteRequest(i, n, p).src = i
      BY DEF VoteRequest
    <3>3. QED
      BY <3>1, <3>2 DEF IsRequest
  <2> HIDE DEF calls
  <2>4. disk[i].term < n.currentTerm
    BY <1>1, <2>1, DiskTermTyped
  <2>5. LedgerStep /\ disk'[i].term = n.currentTerm /\ \A j \in Server \ {i} : disk'[j] = disk[j]
    BY <1>1, <2>1, <2>2, <2>4, VoteIsLedgerStep
  <2>6. CallersRun'
    BY <1>1, <2>2, <2>3, CallPeersKeepsCallers
  <2>7. n.currentTerm <= n.currentTerm
    BY <1>1, <2>1, DiskTermTyped
  <2>8. TermOnDisk'
    BY <1>1, <2>2, <2>5, <2>7, CallPeersNode, OthersKeepTerm
  <2>9. QED
    BY <2>5, <2>6, <2>8
<1>4. CASE TimerElectionFail(i)
  <2>1. disk' = disk /\ votes' = votes /\ lost' = lost /\ proc' = proc /\ rpcs' = rpcs
    BY <1>4 DEF TimerElectionFail
  <2>2. node'[i].currentTerm = node[i].currentTerm /\ \A j \in Server \ {i} : node'[j] = node[j]
    BY <1>1, <1>4 DEF TimerElectionFail, TypeOK, NodeType
  <2>3. QED
    BY <1>1, <2>1, <2>2, StutterIsLedgerStep, FewerKeepsCallers, OthersKeepTerm
<1>5. QED
  BY <1>2, <1>3, <1>4 DEF Timer

\* DoLog keeps the invariant; its write may advance the durable term.
LEMMA DoLogStep ==
  ASSUME IndInv, NEW i \in Server, NEW c \in Cmd, DoLog(i, c)
  PROVE  CallersRun' /\ TermOnDisk' /\ LedgerStep
<1> DEFINE n == AppendOwn(i, node[i], c)
           calls == {AppendRequest(i, n, p, FALSE) : p \in Peers(i)}
<1>1. TypeOK /\ node[i] \in NodeType /\ disk[i].term <= node[i].currentTerm /\ proc[i] = "running"
  BY DEF IndInv, TypeOK, TermOnDisk, DoLog, Logs, MayLog
<1>2. LastLogIndex(node[i].logs) + 1 < MaxLog
  BY DEF DoLog, Logs
<1>3. n \in NodeType /\ n.currentTerm = node[i].currentTerm
  BY <1>1, <1>2, AppendOwnTyped
<1>4. CallPeers(i, n, calls) /\ disk' = Dump(i, n) /\ votes' = votes /\ lost' = lost
  BY DEF DoLog
<1> HIDE DEF n
<1>5. calls \in SUBSET CallType /\ \A m \in calls : IsRequest(m) /\ m.src = i
  <2>1. \A p \in Peers(i) : AppendRequest(i, n, p, FALSE) \in CallType
    BY <1>3, AppendRequestTyped DEF Peers, CallType
  <2>2. \A p : AppendRequest(i, n, p, FALSE).type = "AppendEntries"
               /\ AppendRequest(i, n, p, FALSE).src = i
    BY DEF AppendRequest
  <2>3. QED
    BY <2>1, <2>2 DEF IsRequest
<1> HIDE DEF calls
<1>6. LedgerStep /\ disk'[i].term = n.currentTerm /\ \A j \in Server \ {i} : disk'[j] = disk[j]
  BY <1>1, <1>3, <1>4, DumpIsLedgerStep
<1>7. CallersRun'
  BY <1>1, <1>4, <1>5, CallPeersKeepsCallers
<1>8. n.currentTerm <= n.currentTerm
  BY <1>1, <1>3, DiskTermTyped
<1>9. TermOnDisk'
  BY <1>1, <1>4, <1>6, <1>8, CallPeersNode, OthersKeepTerm
<1>10. QED
  BY <1>6, <1>7, <1>9

\* OnRequestVoteRequest keeps the invariant; granting is a vote of the ledger.
LEMMA RequestVoteStep ==
  ASSUME IndInv, NEW m \in rpcs, OnRequestVoteRequest(m)
  PROVE  CallersRun' /\ TermOnDisk' /\ LedgerStep
<1> DEFINE i == m.dst
           n == node[i]
           reply(g) == [type |-> "RequestVoteReply", src |-> i, dst |-> m.src,
                        term |-> n.currentTerm, granted |-> g]
           raised == [n EXCEPT !.currentTerm = m.term]
           granted == Grant(n, m)
<1>1. TypeOK /\ m \in VoteRequestType /\ i \in Server /\ n \in NodeType /\ IsRequest(m)
  BY CallKinds DEF IndInv, TypeOK, OnRequestVoteRequest, VoteRequestType
<1>2. m.term \in Term /\ m.term \in Nat /\ m.src \in Server /\ n.currentTerm \in Nat
      /\ disk[i].term \in Nat
  BY <1>1, DiskTermTyped, BoundsAssumption DEF VoteRequestType, Term
<1>3. proc' = proc
  BY DEF OnRequestVoteRequest
<1>4. CallersRun'
  <2>1. \/ rpcs' = rpcs \ {m} \/ rpcs' = Answer(m, reply(TRUE)) \/ rpcs' = Answer(m, reply(FALSE))
    BY DEF OnRequestVoteRequest
  <2>2. \A g : ~ IsRequest(reply(g)) /\ reply(g).dst = m.src
    BY DEF IsRequest
  <2> HIDE DEF reply
  <2>3. QED
    BY <1>1, <1>3, <2>1, <2>2, AnswerKeepsCallers, FewerKeepsCallers
<1>5. proc[i] = "running" => disk[i].term <= n.currentTerm
  BY <1>1 DEF IndInv, TermOnDisk
<1>6. raised.currentTerm = m.term /\ granted.currentTerm = m.term /\ granted \in NodeType
  BY <1>1, <1>2 DEF Grant, NodeType
<1>7. \/ node' = node /\ disk' = disk /\ votes' = votes /\ lost' = lost
      \/ /\ proc[i] = "running" /\ ~ (m.term <= n.currentTerm)
         /\ node' = [node EXCEPT ![i] = raised] /\ disk' = disk /\ votes' = votes /\ lost' = lost
      \/ /\ proc[i] = "running" /\ ~ (m.term <= n.currentTerm)
         /\ node' = [node EXCEPT ![i] = granted] /\ disk' = Dump(i, granted) /\ lost' = lost
         /\ votes' = votes \cup {[voter |-> i, term |-> m.term, candidate |-> m.src]}
  BY DEF OnRequestVoteRequest, Grants, MayVote, TermNotNew
<1> HIDE DEF raised, granted
<1>8. CASE node' = node /\ disk' = disk /\ votes' = votes /\ lost' = lost
  BY <1>1, <1>3, <1>4, <1>8, StutterIsLedgerStep DEF IndInv, TermOnDisk
<1>9. CASE /\ proc[i] = "running" /\ ~ (m.term <= n.currentTerm)
           /\ node' = [node EXCEPT ![i] = raised] /\ disk' = disk /\ votes' = votes /\ lost' = lost
  <2>1. node'[i] = raised /\ \A j \in Server \ {i} : node'[j] = node[j]
    BY <1>1, <1>9 DEF TypeOK
  <2>2. disk'[i].term <= node'[i].currentTerm
    BY <1>2, <1>5, <1>6, <1>9, <2>1
  <2>3. TermOnDisk'
    BY <1>1, <1>3, <1>9, <2>1, <2>2, OthersKeepTerm
  <2>4. QED
    BY <1>1, <1>4, <1>9, <2>3, StutterIsLedgerStep
<1>10. CASE /\ proc[i] = "running" /\ ~ (m.term <= n.currentTerm)
            /\ node' = [node EXCEPT ![i] = granted] /\ disk' = Dump(i, granted) /\ lost' = lost
            /\ votes' = votes \cup {[voter |-> i, term |-> m.term, candidate |-> m.src]}
  <2>1. disk[i].term < granted.currentTerm
    BY <1>2, <1>5, <1>6, <1>10
  <2>2. LedgerStep /\ disk'[i].term = m.term /\ \A j \in Server \ {i} : disk'[j] = disk[j]
    BY <1>1, <1>2, <1>6, <1>10, <2>1, VoteIsLedgerStep
  <2>3. node'[i] = granted /\ \A j \in Server \ {i} : node'[j] = node[j]
    BY <1>1, <1>10 DEF TypeOK
  <2>4. disk'[i].term <= node'[i].currentTerm
    BY <1>2, <1>6, <2>2, <2>3
  <2>5. TermOnDisk'
    BY <1>1, <1>3, <2>2, <2>3, <2>4, OthersKeepTerm
  <2>6. QED
    BY <1>4, <2>2, <2>5
<1>11. QED
  BY <1>7, <1>8, <1>9, <1>10

\* A handler that may write the file and leaves a term that is not older.
LEMMA WriteStep ==
  ASSUME IndInv, NEW i \in Server, NEW n \in NodeType, NEW next,
         disk[i].term <= n.currentTerm, n.currentTerm <= next.currentTerm,
         disk' = disk \/ disk' = Dump(i, n), next.currentTerm \in Nat,
         votes' = votes, lost' = lost, proc' = proc, node' = [node EXCEPT ![i] = next]
  PROVE  TermOnDisk' /\ LedgerStep
<1>1. TypeOK /\ disk[i].term \in Nat /\ n.currentTerm \in Nat
  BY DiskTermTyped, BoundsAssumption DEF IndInv, NodeType, Term
<1>2. node'[i] = next /\ \A j \in Server \ {i} : node'[j] = node[j]
  BY <1>1 DEF TypeOK
<1>3. CASE disk' = disk
  <2>1. disk'[i].term <= node'[i].currentTerm
    BY <1>1, <1>2, <1>3
  <2>2. QED
    BY <1>1, <1>2, <1>3, <2>1, StutterIsLedgerStep, OthersKeepTerm
<1>4. CASE disk' = Dump(i, n)
  <2>1. LedgerStep /\ disk'[i].term = n.currentTerm /\ \A j \in Server \ {i} : disk'[j] = disk[j]
    BY <1>1, <1>4, DumpIsLedgerStep
  <2>2. disk'[i].term <= node'[i].currentTerm
    BY <1>2, <2>1
  <2>3. QED
    BY <1>2, <2>1, <2>2, OthersKeepTerm
<1>5. QED
  BY <1>3, <1>4

\* OnRequestVoteResponse keeps the invariant; its write is a ledger step.
LEMMA RequestVoteReplyStep ==
  ASSUME IndInv, NEW m \in rpcs, OnRequestVoteResponse(m)
  PROVE  CallersRun' /\ TermOnDisk' /\ LedgerStep
<1> DEFINE i == m.dst
           n == node[i]
<1>1. TypeOK /\ m \in VoteReplyType /\ i \in Server /\ n \in NodeType /\ ~ IsRequest(m)
  BY CallKinds DEF IndInv, TypeOK, OnRequestVoteResponse, VoteReplyType, IsRequest
<1>2. proc[i] = "running"
  BY <1>1 DEF IndInv, CallersRun, CallersIn, Caller, Awaited
<1>3. disk[i].term <= n.currentTerm /\ n.currentTerm \in Nat /\ m.term \in Term /\ m.term \in Nat
  BY <1>1, <1>2, DiskTermTyped, BoundsAssumption DEF IndInv, TermOnDisk, VoteReplyType, Term
<1>4. proc' = proc /\ votes' = votes /\ lost' = lost /\ rpcs' = rpcs \ {m} /\ (disk' = disk \/ disk' = Dump(i, n))
  BY DEF OnRequestVoteResponse
<1>5. \/ node' = [node EXCEPT ![i] = n]
      \/ m.term > n.currentTerm /\ node' = [node EXCEPT ![i] = StepDown(n, m)]
      \/ node' = [node EXCEPT ![i] = CountVote(i, n)]
  BY <1>1 DEF OnRequestVoteResponse, TypeOK
<1>6. StepDown(n, m).currentTerm = m.term /\ CountVote(i, n).currentTerm = n.currentTerm
  BY <1>1, <1>3, StepDownTyped, CountVoteTyped
<1>7. PICK next : /\ node' = [node EXCEPT ![i] = next]
                  /\ n.currentTerm <= next.currentTerm /\ next.currentTerm \in Nat
  BY <1>3, <1>5, <1>6
<1>8. TermOnDisk' /\ LedgerStep
  BY <1>1, <1>3, <1>4, <1>7, WriteStep
<1>9. QED
  BY <1>4, <1>8, FewerKeepsCallers

\* OnAppendEntriesRequest keeps the invariant; its write is a ledger step.
LEMMA AppendEntriesStep ==
  ASSUME IndInv, NEW m \in rpcs, OnAppendEntriesRequest(m)
  PROVE  CallersRun' /\ TermOnDisk' /\ LedgerStep
<1> DEFINE i == m.dst
           n == node[i]
           stored == [n EXCEPT !.logs = Store(n, m)]
           reply(s, logs) ==
             [type |-> "AppendEntriesReply", src |-> i, dst |-> m.src, ok |-> TRUE,
              isHeartbeat |-> m.isHeartbeat, term |-> n.currentTerm,
              success |-> s, lastLogIndex |-> LastLogIndex(logs)]
<1>1. TypeOK /\ m \in AppendRequestType /\ i \in Server /\ n \in NodeType /\ IsRequest(m)
  BY CallKinds DEF IndInv, TypeOK, OnAppendEntriesRequest, AppendRequestType
<1>2. m.term \in Term /\ m.term \in Nat /\ n.currentTerm \in Nat /\ votes' = votes /\ lost' = lost /\ proc' = proc
  BY <1>1, DiskTermTyped, BoundsAssumption DEF AppendRequestType, Term, OnAppendEntriesRequest
<1>3. CallersRun'
  <2>1. \/ rpcs' = Answer(m, reply(FALSE, n.logs))
        \/ rpcs' = Answer(m, reply(TRUE, stored.logs))
    BY DEF OnAppendEntriesRequest, Appends, Reaches, Stored
  <2>2. \A s, logs : ~ IsRequest(reply(s, logs)) /\ reply(s, logs).dst = m.src
    BY DEF IsRequest
  <2> HIDE DEF reply, stored
  <2>3. QED
    BY <1>1, <1>2, <2>1, <2>2, AnswerKeepsCallers
<1>4. \/ node' = node /\ disk' = disk
      \/ /\ proc[i] = "running" /\ m.term >= n.currentTerm
         /\ node' = [node EXCEPT ![i] = StepDown(n, m)] /\ disk' = disk
      \/ /\ proc[i] = "running" /\ m.term >= n.currentTerm
         /\ node' = [node EXCEPT ![i] = stored] /\ disk' = Dump(i, stored)
      \/ /\ proc[i] = "running" /\ m.term >= n.currentTerm
         /\ node' = node /\ disk' = Dump(i, n)
  BY DEF OnAppendEntriesRequest, Appends, Reaches, Stored
<1>5. stored \in NodeType /\ stored.currentTerm = n.currentTerm
  BY <1>1, StoreTyped DEF OnAppendEntriesRequest, NodeType
<1>6. StepDown(n, m).currentTerm = m.term
  BY <1>1, <1>2, StepDownTyped
<1> HIDE DEF stored
<1>7. CASE node' = node /\ disk' = disk
  BY <1>2, <1>7, StutterIsLedgerStep, <1>3 DEF IndInv, TermOnDisk
<1>8. CASE proc[i] = "running" /\ ~ (node' = node /\ disk' = disk)
  <2>1. disk[i].term <= n.currentTerm /\ node = [node EXCEPT ![i] = n]
    BY <1>1, <1>8 DEF IndInv, TermOnDisk, TypeOK
  <2>2. CASE disk' = disk
    <3>1. \/ m.term >= n.currentTerm /\ node' = [node EXCEPT ![i] = StepDown(n, m)]
          \/ node' = [node EXCEPT ![i] = stored]
      BY <1>4, <1>8, <2>2
    <3>2. PICK next : /\ node' = [node EXCEPT ![i] = next]
                      /\ n.currentTerm <= next.currentTerm /\ next.currentTerm \in Nat
      BY <1>2, <1>5, <1>6, <3>1
    <3>3. TermOnDisk' /\ LedgerStep
      BY <1>1, <1>2, <2>1, <2>2, <3>2, WriteStep
    <3>4. QED
      BY <1>3, <3>3
  <2>3. CASE disk' # disk
    <3>1. PICK k \in {n, stored} : node' = [node EXCEPT ![i] = k] /\ disk' = Dump(i, k)
      BY <1>4, <2>1, <2>3
    <3>2. k \in NodeType /\ k.currentTerm = n.currentTerm
      BY <1>1, <1>5
    <3>3. k.currentTerm <= k.currentTerm
      BY <1>2, <3>2
    <3>4. TermOnDisk' /\ LedgerStep
      BY <1>1, <1>2, <2>1, <3>1, <3>2, <3>3, WriteStep
    <3>5. QED
      BY <1>3, <3>4
  <2>4. QED
    BY <2>2, <2>3
<1>9. QED
  BY <1>4, <1>7, <1>8

\* OnAppendEntriesReponse keeps the invariant; its write is a ledger step.
LEMMA AppendReplyStep ==
  ASSUME IndInv, NEW m \in rpcs, OnAppendEntriesReponse(m)
  PROVE  CallersRun' /\ TermOnDisk' /\ LedgerStep
<1> DEFINE i == m.dst
           n == [node[i] EXCEPT !.nullPeer = @ \/ ~ m.ok]
           n2 == IF m.term > n.currentTerm THEN [n EXCEPT !.state = "FOLLOWER"] ELSE n
           n3 == Acknowledged(n2, m)
           n4 == DoApply([n3 EXCEPT !.commitIndex = m.lastLogIndex])
           Becomes(next) == node' = [node EXCEPT ![i] = next] /\ rpcs' = rpcs \ {m} /\ UNCHANGED proc
           t == node[i].currentTerm
<1>1. TypeOK /\ m \in AppendReplyType /\ i \in Server /\ node[i] \in NodeType /\ ~ IsRequest(m)
  BY CallKinds DEF IndInv, TypeOK, OnAppendEntriesReponse, AppendReplyType, IsRequest
<1>2. proc[i] = "running"
  BY <1>1 DEF IndInv, CallersRun, CallersIn, Caller, Awaited
<1>3. disk[i].term <= t /\ t \in Nat /\ votes' = votes /\ lost' = lost
  BY <1>1, <1>2, DiskTermTyped DEF IndInv, TermOnDisk, OnAppendEntriesReponse
<1>4. n \in NodeType /\ n.currentTerm = t
  BY <1>1, AppendReplyNodesTyped DEF NodeType
<1>5. n2 \in NodeType /\ n2.currentTerm = t
  <2> HIDE DEF n
  <2> QED
    BY <1>1, <1>4, AppendReplyNodesTyped DEF NodeType
<1>6. /\ Rejected(n2, m).currentTerm = t
      /\ n3.currentTerm = t
      /\ n4.currentTerm = t
  <2> HIDE DEF n2
  <2>1. Rejected(n2, m).currentTerm = t /\ n3.currentTerm = t /\ n3 \in NodeType
    BY <1>1, <1>5, AppendReplyNodesTyped DEF Rejected, Acknowledged, NodeType
  <2> DEFINE committed == [n3 EXCEPT !.commitIndex = m.lastLogIndex]
  <2> HIDE DEF n3
  <2>2. committed \in NodeType /\ committed.currentTerm = t
    BY <1>1, <2>1, AppendReplyNodesTyped DEF NodeType
  <2> HIDE DEF committed
  <2>3. DoApply(committed).currentTerm = committed.currentTerm
    BY <2>2 DEF DoApply, NodeType
  <2>4. QED
    BY <2>1, <2>2, <2>3 DEF committed
<1>7. \/ Becomes(n) \/ Becomes(n2) \/ Becomes(Rejected(n2, m)) \/ Becomes(n3) \/ Becomes(n4)
      \/ Die(i, "segv", rpcs \ {m})
  BY DEF OnAppendEntriesReponse
<1>8. disk' = disk \/ disk' = Dump(i, n2)
  BY DEF OnAppendEntriesReponse
<1> HIDE DEF n, n2, n3, n4
<1>9. CASE Die(i, "segv", rpcs \ {m})
  <2>1. CallersRun'
    <3>1. rpcs \ {m} \in SUBSET CallType /\ CallersIn(rpcs \ {m})
      BY <1>1 DEF IndInv, CallersRun, CallersIn, TypeOK
    <3>2. QED
      BY <1>1, <1>9, <3>1, DieKeepsCallers
  <2>2. LedgerStep /\ \A j \in Server \ {i} : disk'[j] = disk[j]
    BY <1>1, <1>3, <1>5, <1>8, DumpIsLedgerStep, StutterIsLedgerStep
  <2>3. TermOnDisk'
    BY <1>1, <1>9, <2>2, DieNode, OthersKeepTerm
  <2>4. QED
    BY <2>1, <2>2, <2>3
<1>10. CASE \E next : Becomes(next) /\ next.currentTerm = t
  <2>1. PICK next : Becomes(next) /\ next.currentTerm = t
    BY <1>10
  <2>2. /\ disk[i].term <= n2.currentTerm /\ n2.currentTerm <= next.currentTerm
        /\ next.currentTerm \in Nat /\ proc' = proc
        /\ node' = [node EXCEPT ![i] = next]
    BY <1>3, <1>5, <2>1
  <2>3. TermOnDisk' /\ LedgerStep
    BY <1>1, <1>3, <1>5, <1>8, <2>2, WriteStep
  <2>4. QED
    BY <2>1, <2>3, FewerKeepsCallers
<1>11. QED
  BY <1>4, <1>5, <1>6, <1>7, <1>9, <1>10

\* Failing and lost calls keep the invariant and stutter in the ledger.
LEMMA FailureStep ==
  ASSUME IndInv, NEW m \in rpcs, FailCall(m) \/ LoseOrphan(m)
  PROVE  CallersRun' /\ TermOnDisk' /\ LedgerStep
<1>1. node' = node /\ disk' = disk /\ proc' = proc /\ votes' = votes /\ lost' = lost
  BY DEF FailCall, LoseOrphan
<1>2. TermOnDisk' /\ LedgerStep
  BY <1>1, StutterIsLedgerStep DEF IndInv, TermOnDisk
<1>3. CallersRun'
  <2>1. CASE rpcs' \subseteq rpcs
    BY <1>1, <2>1, FewerKeepsCallers
  <2>2. CASE FailCall(m) /\ rpcs' = (rpcs \ {m}) \cup {FailedReply(m)}
    <3>1. Awaited(m)
      BY <2>2 DEF FailCall, Awaited
    <3>2. Caller(FailedReply(m)) = Caller(m) /\ proc[Caller(m)] = "running"
      BY <3>1 DEF FailedReply, Caller, IsRequest, IndInv, CallersRun, CallersIn
    <3>3. \A c \in rpcs' : Awaited(c) => proc[Caller(c)] = "running"
      BY <2>2, <3>2 DEF IndInv, CallersRun, CallersIn
    <3>4. QED
      BY <1>1, <3>3 DEF CallersRun, CallersIn, Caller, Awaited, IsRequest
  <2>3. QED
    BY <2>1, <2>2 DEF FailCall, Failed, LoseOrphan
<1>4. QED
  BY <1>2, <1>3

\* A process that ends within Dump: the ledger forgets, advances or stutters.
LEMMA DumpCutStep ==
  ASSUME IndInv, DumpCut
  PROVE  CallersRun' /\ TermOnDisk' /\ LedgerStep
<1>1. TypeOK
  BY DEF IndInv
<1>2. PICK i \in Server : \E n, calls, d : \E torn \in BOOLEAN : Dying(i, n, calls, torn, d)
  BY <1>1, DumpCutParts
<1>3. PICK n, calls, d : \E torn \in BOOLEAN : Dying(i, n, calls, torn, d)
  BY <1>2
<1>4. PICK torn \in BOOLEAN : Dying(i, n, calls, torn, d)
  BY <1>3
<1>5. /\ Die(i, "down", calls) /\ calls \in SUBSET CallType
      /\ disk' = [disk EXCEPT ![i] = d] /\ votes' = votes /\ n \in NodeType
      /\ proc[i] = "running" /\ n.currentTerm >= node[i].currentTerm
      /\ lost' = [lost EXCEPT ![i] = [term |-> LostTerm(i, d), torn |-> lost[i].torn \/ torn]]
  BY <1>4 DEF Dying, Writing, IndInv, CallersRun
<1>6. CallersIn(calls)
  <2>1. ASSUME NEW m \in rpcs, m.type = "AppendEntries", m.waiting
        PROVE  proc[Caller(FailedReply(m))] = "running"
    BY <2>1 DEF IndInv, CallersRun, CallersIn, FailedReply, Caller, Awaited, IsRequest
  <2>2. QED
    BY <1>4, <2>1 DEF Dying, Left, IndInv, CallersRun, CallersIn
<1>7. CallersRun'
  BY <1>1, <1>5, <1>6, DieKeepsCallers
<1>8. disk'[i] = d /\ \A j \in Server \ {i} : disk'[j] = disk[j]
  BY <1>1, <1>5 DEF TypeOK
<1>9. TermOnDisk'
  BY <1>1, <1>5, <1>8, DieNode, OthersKeepTerm
<1>10. /\ \A j \in Server : disk[j].term \in Nat
       /\ d.term \in Nat /\ d.term \in 0 .. MaxTerm
       /\ n.currentTerm \in Nat /\ node[i].currentTerm \in Nat
       /\ disk[i].term <= node[i].currentTerm
  BY <1>1, <1>4, <1>5, CutParts, DiskTermTyped, BoundsAssumption
     DEF Dying, IndInv, TermOnDisk, NodeType, Term
<1>11. d.logs = <<>> \/ d.term = n.currentTerm
  BY <1>4, <1>5, CutParts DEF Dying
<1>12. FilesFall
  <2>1. proc'[i] = "down"
    BY <1>1, <1>5 DEF Die, TypeOK
  <2>2. QED
    BY <1>5, <1>8, <1>10, <1>11, <2>1 DEF FilesFall
<1>13. [Ledger!Next]_(Ledger!ledgerVars)
  <2> DEFINE durable == [j \in Server |-> disk[j].term]
             durable2 == [j \in Server |-> disk'[j].term]
             forgotten == [j \in Server |-> lost[j].term]
             forgotten2 == [j \in Server |-> lost'[j].term]
  <2>1. durable2 = [durable EXCEPT ![i] = d.term]
    BY <1>1, <1>8, TermsWritten
  <2>2. forgotten2 = [forgotten EXCEPT ![i] = LostTerm(i, d)]
    <3>1. lost'[i].term = LostTerm(i, d) /\ \A j \in Server \ {i} : lost'[j] = lost[j]
      BY <1>1, <1>5 DEF TypeOK
    <3>2. QED
      BY <3>1
  <2>3. CASE d.term < disk[i].term
    <3>1. LostTerm(i, d) = IF forgotten[i] < durable[i] THEN durable[i] ELSE forgotten[i]
      BY <2>3 DEF LostTerm
    <3>2. Ledger!Forget(i, d.term)
      BY <1>5, <2>1, <2>2, <2>3, <3>1 DEF Ledger!Forget
    <3>3. QED
      BY <1>10, <3>2 DEF Ledger!Next
  <2>4. CASE ~ (d.term < disk[i].term)
    <3>1. LostTerm(i, d) = lost[i].term
      BY <2>4 DEF LostTerm
    <3>2. forgotten2 = forgotten
      BY <2>2, <3>1
    <3>3. CASE d.term > disk[i].term
      <4>1. Ledger!Advance(i, d.term)
        BY <1>5, <2>1, <3>2, <3>3 DEF Ledger!Advance
      <4>2. QED
        BY <1>10, <4>1 DEF Ledger!Next
    <3>4. CASE d.term = disk[i].term
      <4>1. durable2 = durable
        BY <2>1, <3>4
      <4>2. QED
        BY <1>5, <3>2, <4>1 DEF Ledger!ledgerVars
    <3>5. QED
      BY <1>10, <2>4, <3>3, <3>4
  <2>5. QED
    BY <2>3, <2>4
<1>14. QED
  BY <1>7, <1>9, <1>12, <1>13 DEF LedgerStep

\* Every step keeps the invariant and is a step or a stutter of the ledger.
LEMMA NextStep ==
  ASSUME IndInv, [Next]_vars
  PROVE  CallersRun' /\ TermOnDisk' /\ LedgerStep
<1>1. ASSUME NEW i \in Server, Create(i) \/ Run(i) \/ Crash(i)
      PROVE  CallersRun' /\ TermOnDisk' /\ LedgerStep
  BY <1>1, LifeCycleStep
<1>2. ASSUME NEW i \in Server, Timer(i)
      PROVE  CallersRun' /\ TermOnDisk' /\ LedgerStep
  BY <1>2, TimerStep
<1>3. ASSUME NEW i \in Server, NEW c \in Cmd, DoLog(i, c)
      PROVE  CallersRun' /\ TermOnDisk' /\ LedgerStep
  BY <1>3, DoLogStep
<1>4. ASSUME NEW m \in rpcs, Handle(m)
      PROVE  CallersRun' /\ TermOnDisk' /\ LedgerStep
  BY <1>4, RequestVoteStep, RequestVoteReplyStep, AppendEntriesStep, AppendReplyStep DEF Handle
<1>5. ASSUME NEW m \in rpcs, FailCall(m) \/ LoseOrphan(m)
      PROVE  CallersRun' /\ TermOnDisk' /\ LedgerStep
  BY <1>5, FailureStep
<1>6. CASE DumpCut
  BY <1>6, DumpCutStep
<1>7. CASE UNCHANGED vars
  BY <1>7, StutterIsLedgerStep
     DEF vars, IndInv, CallersRun, CallersIn, Caller, Awaited, IsRequest, TermOnDisk
<1>8. QED
  BY <1>1, <1>2, <1>3, <1>4, <1>5, <1>6, <1>7 DEF Next

\* The initial states satisfy the invariant and are initial in the ledger.
LEMMA InitInv == Init => IndInv /\ Ledger!Init
<1> SUFFICES ASSUME Init PROVE IndInv /\ Ledger!Init
  OBVIOUS
<1>1. TypeOK
  <2>1. [term |-> 0, logs |-> <<>>] \in [term : Term, logs : Seq(Entry)]
    BY BoundsAssumption DEF Term
  <2>2. QED
    BY <2>1, NewNodeTyped DEF Init, TypeOK
<1>2. CallersRun /\ TermOnDisk
  BY DEF Init, CallersRun, CallersIn, TermOnDisk
<1>3. Ledger!Init
  BY DEF Init, Ledger!Init
<1>4. QED
  BY <1>1, <1>2, <1>3 DEF IndInv

\* Type correctness and the two facts about callers and files always hold.
THEOREM Invariance == Spec => []IndInv
<1>1. TypeOK /\ [Next]_vars => TypeOK'
  BY TypePreserved
<1>2. IndInv /\ [Next]_vars => IndInv'
  BY <1>1, NextStep DEF IndInv
<1>3. QED
  BY <1>2, InitInv, PTL DEF Spec

\* Every handler, timer, crash and restart keeps every field within its type.
THEOREM TypeCorrect == Spec => []TypeOK
<1>1. IndInv => TypeOK
  BY DEF IndInv
<1>2. QED
  BY <1>1, Invariance, PTL

\* The votes given and the terms in the files behave like a VoteLedger, which
\* forgets a term only when a process ends within Dump.
THEOREM VotesDurable == Spec => VotesAreDurable
<1>1. IndInv /\ [Next]_vars => [Ledger!Next]_(Ledger!ledgerVars)
  BY NextStep DEF LedgerStep
<1>2. QED
  BY <1>1, InitInv, Invariance, PTL DEF Spec, VotesAreDurable, Ledger!Spec

-----------------------------------------------------------------------------
(* What follows from the ledger.                                           *)

\* A step of the ledger raises one node's file, with at most one vote for the
\* new term, or forgets the term of a file, or does nothing.
LEMMA LedgerStepCases ==
  ASSUME TypeOK, TypeOK', LedgerStep
  PROVE  /\ \A j \in Server : lost[j].term <= lost'[j].term
         /\ \A j \in Server : disk[j].term <= disk'[j].term \/ disk[j].term <= lost'[j].term
         /\ \/ votes' = votes
            \/ \E i \in Server, c \in Server :
                  /\ disk[i].term < disk'[i].term
                  /\ votes' = votes \cup {[voter |-> i, term |-> disk'[i].term, candidate |-> c]}
<1> DEFINE durable == [j \in Server |-> disk[j].term]
           durable2 == [j \in Server |-> disk'[j].term]
           forgotten == [j \in Server |-> lost[j].term]
           forgotten2 == [j \in Server |-> lost'[j].term]
           Kept == /\ \A j \in Server : forgotten[j] <= forgotten2[j]
                   /\ \A j \in Server : durable[j] <= durable2[j] \/ durable[j] <= forgotten2[j]
<1>0. \A j \in Server : /\ durable[j] \in Nat /\ durable2[j] \in Nat
                        /\ forgotten[j] \in Nat /\ forgotten2[j] \in Nat
                        /\ durable[j] = disk[j].term /\ durable2[j] = disk'[j].term
                        /\ forgotten[j] = lost[j].term /\ forgotten2[j] = lost'[j].term
  BY BoundsAssumption DEF TypeOK, Term
<1>1. ASSUME NEW i \in Server, NEW t \in 0 .. MaxTerm, forgotten2 = forgotten,
             t > durable[i], durable2 = [durable EXCEPT ![i] = t]
      PROVE  durable2[i] = t /\ durable[i] < durable2[i] /\ Kept
  <2>1. durable2[i] = t /\ \A j \in Server \ {i} : durable2[j] = durable[j]
    BY <1>1
  <2>2. t \in Nat
    BY BoundsAssumption
  <2> HIDE DEF durable, durable2, forgotten, forgotten2
  <2>3. QED
    BY <1>0, <1>1, <2>1, <2>2
<1>2. CASE durable2 = durable /\ forgotten2 = forgotten /\ votes' = votes
  <2> HIDE DEF durable, durable2, forgotten, forgotten2
  <2> QED
    BY <1>0, <1>2
<1>3. ASSUME NEW i \in Server, NEW t \in 0 .. MaxTerm, Ledger!Advance(i, t)
      PROVE  votes' = votes /\ Kept
  BY <1>1, <1>3 DEF Ledger!Advance
<1>4. ASSUME NEW i \in Server, NEW t \in 0 .. MaxTerm, Ledger!Forget(i, t)
      PROVE  votes' = votes /\ Kept
  <2> DEFINE gone == IF forgotten[i] < durable[i] THEN durable[i] ELSE forgotten[i]
  <2>1. votes' = votes /\ durable2 = [durable EXCEPT ![i] = t]
        /\ forgotten2 = [forgotten EXCEPT ![i] = gone]
    BY <1>4 DEF Ledger!Forget
  <2>2. forgotten2[i] = gone /\ \A j \in Server \ {i} : durable2[j] = durable[j] /\ forgotten2[j] = forgotten[j]
    BY <2>1
  <2>3. gone \in Nat /\ gone >= durable[i] /\ gone >= forgotten[i]
    <3> HIDE DEF durable, durable2, forgotten, forgotten2
    <3> QED
      BY <1>0
  <2> HIDE DEF durable, durable2, forgotten, forgotten2, gone
  <2>4. QED
    BY <1>0, <2>1, <2>2, <2>3
<1>5. ASSUME NEW i \in Server, NEW t \in 0 .. MaxTerm, NEW c \in Server, Ledger!Vote(i, t, c)
      PROVE  /\ Kept
             /\ durable[i] < durable2[i]
             /\ votes' = votes \cup {[voter |-> i, term |-> durable2[i], candidate |-> c]}
  BY <1>1, <1>5 DEF Ledger!Vote
<1>6. \/ durable2 = durable /\ forgotten2 = forgotten /\ votes' = votes
      \/ \E i \in Server, t \in 0 .. MaxTerm :
            Ledger!Advance(i, t) \/ Ledger!Forget(i, t) \/ \E c \in Server : Ledger!Vote(i, t, c)
  BY DEF LedgerStep, Ledger!Next, Ledger!ledgerVars
<1>7. Kept /\ (\/ votes' = votes
               \/ \E i \in Server, c \in Server :
                     /\ durable[i] < durable2[i]
                     /\ votes' = votes \cup {[voter |-> i, term |-> durable2[i], candidate |-> c]})
  <2> HIDE DEF durable, durable2, forgotten, forgotten2
  <2>1. CASE durable2 = durable /\ forgotten2 = forgotten /\ votes' = votes
    BY <1>0, <2>1
  <2>2. CASE \E i \in Server, t \in 0 .. MaxTerm :
            Ledger!Advance(i, t) \/ Ledger!Forget(i, t) \/ \E c \in Server : Ledger!Vote(i, t, c)
    <3> HIDE DEF Kept
    <3> QED
      BY <1>3, <1>4, <1>5, <2>2
  <2>3. QED
    BY <1>6, <2>1, <2>2
<1>8. QED
  BY <1>0, <1>7

\* Every vote is for a term that is in the file or was lost with it.
VotesRecorded ==
  \A v \in votes : v.term >= 1 /\ (v.term <= disk[v.voter].term \/ v.term <= lost[v.voter].term)

\* A step of the ledger gives a second vote only in a term that was lost.
LEMMA LedgerStepKeepsVotes ==
  ASSUME TypeOK, TypeOK', LedgerStep, VotesRecorded, VoteOncePerTerm
  PROVE  VotesRecorded' /\ VoteOncePerTerm'
<1>1. \A j \in Server : /\ disk[j].term \in Nat /\ disk'[j].term \in Nat
                        /\ lost[j].term \in Nat /\ lost'[j].term \in Nat
                        /\ lost[j].term <= lost'[j].term
                        /\ disk[j].term <= disk'[j].term \/ disk[j].term <= lost'[j].term
  <2>1. \A j \in Server : /\ disk[j].term \in Nat /\ disk'[j].term \in Nat
                          /\ lost[j].term \in Nat /\ lost'[j].term \in Nat
    BY BoundsAssumption DEF TypeOK, Term
  <2>2. QED
    BY <2>1, LedgerStepCases
<1>2. \A v \in votes :
          /\ v.voter \in Server /\ v.term \in Nat /\ v.term >= 1
          /\ v.term <= disk[v.voter].term \/ v.term <= lost[v.voter].term
          /\ v.term <= disk'[v.voter].term \/ v.term <= lost'[v.voter].term
  <2> SUFFICES ASSUME NEW v \in votes
               PROVE  /\ v.voter \in Server /\ v.term \in Nat /\ v.term >= 1
                      /\ v.term <= disk[v.voter].term \/ v.term <= lost[v.voter].term
                      /\ v.term <= disk'[v.voter].term \/ v.term <= lost'[v.voter].term
    OBVIOUS
  <2>1. v.voter \in Server /\ v.term \in Nat
    BY BoundsAssumption DEF TypeOK, Term
  <2>2. v.term >= 1 /\ (v.term <= disk[v.voter].term \/ v.term <= lost[v.voter].term)
    BY DEF VotesRecorded
  <2>3. QED
    BY <1>1, <2>1, <2>2
<1>3. CASE votes' = votes
  <2>1. VotesRecorded'
    BY <1>2, <1>3 DEF VotesRecorded
  <2>2. VoteOncePerTerm'
    BY <1>1, <1>2, <1>3 DEF VoteOncePerTerm
  <2>3. QED
    BY <2>1, <2>2
<1>4. ASSUME NEW i \in Server, NEW c \in Server,
             disk[i].term < disk'[i].term,
             votes' = votes \cup {[voter |-> i, term |-> disk'[i].term, candidate |-> c]}
      PROVE  VotesRecorded' /\ VoteOncePerTerm'
  <2>1. \A v \in votes : v.voter = i => v.term # disk'[i].term \/ v.term <= lost'[i].term
    BY <1>1, <1>2, <1>4
  <2>2. VotesRecorded'
    BY <1>1, <1>2, <1>4 DEF VotesRecorded
  <2>3. VoteOncePerTerm'
    <3>1. \A v, w \in votes : v.voter = w.voter /\ v.term = w.term /\ v.term > lost'[v.voter].term
                             => v.candidate = w.candidate
      BY <1>1, <1>2 DEF VoteOncePerTerm
    <3>2. \A v \in votes : v.voter = i /\ v.term = disk'[i].term => ~ (v.term > lost'[v.voter].term)
      BY <1>1, <1>2, <2>1
    <3>3. QED
      BY <1>4, <3>1, <3>2 DEF VoteOncePerTerm
  <2>4. QED
    BY <2>2, <2>3
<1>5. QED
  BY <1>3, <1>4, LedgerStepCases

\* The ledger's steps keep both.
LEMMA VotesKept == Spec => []VotesRecorded /\ []VoteOncePerTerm
<1>1. Init => VotesRecorded /\ VoteOncePerTerm
  BY DEF Init, VotesRecorded, VoteOncePerTerm
<1>2. IndInv /\ IndInv' /\ VotesRecorded /\ VoteOncePerTerm /\ [Next]_vars
        => VotesRecorded' /\ VoteOncePerTerm'
  BY NextStep, LedgerStepKeepsVotes DEF IndInv
<1>3. QED
  BY <1>1, <1>2, Invariance, PTL DEF Spec

\* A node gives at most one vote per term above what its file has lost, for any
\* number of nodes, terms, commands, crashes (within Dump as well) and calls.
THEOREM OneVotePerTerm == Spec => []VoteOncePerTerm
  BY VotesKept, PTL

\* No Dump lowers the term of a file, but one within which the process ends; that
\* file has no log either.
THEOREM DiskMonotone == Spec => DiskNeverGoesBack
<1>1. IndInv /\ [Next]_vars => FilesFall
  BY NextStep DEF LedgerStep
<1>2. QED
  BY <1>1, Invariance, PTL DEF Spec, DiskNeverGoesBack, FilesFall

\* As long as no file has lost its term, every vote is covered by the file of the
\* voter, and no voter votes twice in a term.
VotesCovered == \A v \in votes : v.term <= disk[v.voter].term
VotesUnique ==
  \A v, w \in votes : v.voter = w.voter /\ v.term = w.term => v.candidate = w.candidate

LEMMA TermsKeptVotes ==
  ASSUME TypeOK, TermsKept, VotesRecorded, VoteOncePerTerm
  PROVE  VotesCovered /\ VotesUnique
<1>1. ASSUME NEW v \in votes
      PROVE  v.term <= disk[v.voter].term /\ v.term > lost[v.voter].term
  <2>1. v.voter \in Server /\ v.term \in Nat
    BY BoundsAssumption DEF TypeOK, Term
  <2>2. disk[v.voter].term \in Nat /\ lost[v.voter].term = 0
    BY <2>1, BoundsAssumption DEF TypeOK, Term, TermsKept
  <2>3. QED
    BY <2>1, <2>2 DEF VotesRecorded
<1>2. VotesCovered
  BY <1>1 DEF VotesCovered
<1>3. VotesUnique
  BY <1>1 DEF VotesUnique, VoteOncePerTerm
<1>4. QED
  BY <1>2, <1>3

\* If no file has lost its term after a step, none had before, and none goes back.
FilesGrow == \A j \in Server : disk'[j].term >= disk[j].term

LEMMA TermsKeptFiles ==
  ASSUME TypeOK, TypeOK', LedgerStep, TermsKept'
  PROVE  TermsKept /\ FilesGrow
<1>1. \A j \in Server : /\ disk[j].term \in Nat /\ disk'[j].term \in Nat
                        /\ lost[j].term \in Nat /\ lost'[j].term = 0
  BY BoundsAssumption DEF TypeOK, Term, TermsKept
<1>2. \A j \in Server : /\ lost[j].term <= lost'[j].term
                        /\ disk[j].term <= disk'[j].term \/ disk[j].term <= lost'[j].term
  BY LedgerStepCases
<1>3. QED
  BY <1>1, <1>2 DEF TermsKept, FilesGrow

-----------------------------------------------------------------------------
(* The log.  Its indexes are consecutive because those of every call are the *)
(* ones behind its prev_log_index (GoodCalls), as long as no cut file holds  *)
(* a part of an entry (Straight); a commit of a node with peers is           *)
(* acknowledged because no call goes to its own sender, and one without      *)
(* peers commits no more than it has.                                        *)

Straight(logs) == NothingTorn => Contiguous(logs)

\* Only entries GetLogByIndex found count: a call with another one is malformed.
Numbered(m) ==
    \A k \in DOMAIN m.entries : m.entries[k] # NoEntry => m.entries[k].index = m.prevLogIndex + k

\* What the log and the commit of one node keep: a leader with peers commits what
\* one of them acknowledged, one without peers what it has.
GoodNode(i, n) ==
    /\ Straight(n.logs)
    /\ n.commitIndex >= 0 /\ Peers(i) # {} => \E p \in Peers(i) : n.matchIndex[p] >= n.commitIndex
    /\ Peers(i) = {} => n.commitIndex <= LastLogIndex(n.logs)

GoodCalls(calls) ==
    \A m \in calls : m.src # m.dst /\ (m.type = "AppendEntries" /\ NothingTorn => Numbered(m))

GoodFiles(d) == \A i \in Server : Straight(d[i].logs)

LogInv ==
    /\ \A i \in Server : GoodNode(i, node[i])
    /\ \A i \in Server : proc[i] # "running" => node[i].commitIndex = -1
    /\ GoodFiles(disk)
    /\ GoodCalls(rpcs)

\* What a step may do to the commits.
CommitsKept ==
    \A i \in Server : proc'[i] = proc[i] => node'[i].commitIndex >= node[i].commitIndex

LogStep == LogInv' /\ CommitsKept

\* A torn entry is not forgotten.
TornStays == NothingTorn' => NothingTorn

\* The last index of a log is its first one and the positions between.
LEMMA LastOfContiguous ==
  ASSUME NEW logs \in Seq(Entry), Contiguous(logs), logs # <<>>
  PROVE  /\ LastLogIndex(logs) = logs[1].index + Len(logs) - 1
         /\ logs[1].index \in Int /\ Len(logs) \in Nat \ {0}
<1>1. Len(logs) \in Nat \ {0} /\ logs[1] \in Entry
  BY EntryTyped
<1>2. logs[1].index \in Int
  BY <1>1, BoundsAssumption DEF Entry, Index
<1>3. Len(logs) \in DOMAIN logs
  BY <1>1
<1>4. QED
  BY <1>1, <1>2, <1>3 DEF Contiguous, LastLogIndex

\* GetLogByIndex finds the entry of the index, or none.
LEMMA GetLogIndex ==
  ASSUME NEW logs \in Seq(Entry), Contiguous(logs), NEW index \in Int,
         GetLogByIndex(logs, index) # NoEntry
  PROVE  GetLogByIndex(logs, index).index = index
<1>1. index - BaseLogIndex(logs) \in 0 .. Len(logs) - 1
  BY DEF GetLogByIndex
<1>2. logs # <<>>
  BY <1>1
<1>3. BaseLogIndex(logs) = logs[1].index /\ logs[1].index \in Int /\ Len(logs) \in Nat
  BY <1>2, LastOfContiguous DEF BaseLogIndex
<1> DEFINE pos == index - BaseLogIndex(logs)
<1>4. pos + 1 \in DOMAIN logs /\ pos \in Int /\ index = logs[1].index + pos
  BY <1>1, <1>3
<1>5. GetLogByIndex(logs, index) = logs[pos + 1]
  BY <1>1 DEF GetLogByIndex
<1>6. logs[pos + 1].index = logs[1].index + (pos + 1) - 1
  BY <1>4 DEF Contiguous
<1> HIDE DEF pos
<1>7. QED
  BY <1>3, <1>4, <1>5, <1>6

\* The entries of a call have the indexes behind prev_log_index.
LEMMA AppendRequestNumbered ==
  ASSUME NEW i \in Server, NEW n \in NodeType, Straight(n.logs),
         NEW p \in Peers(i), NEW h \in BOOLEAN
  PROVE  GoodCalls({AppendRequest(i, n, p, h)})
<1> DEFINE m == AppendRequest(i, n, p, h)
           prev == IF h THEN -1 ELSE n.nextIndex[p] - 1
<1>1. n.logs \in Seq(Entry) /\ prev \in Int
  BY DEF NodeType, Peers
<1>2. m.src # m.dst /\ m.prevLogIndex = prev
  BY DEF AppendRequest, Peers
<1>3. \A k \in DOMAIN m.entries : k \in Int /\ m.entries[k] = GetLogByIndex(n.logs, prev + k)
  <2>1. PICK size \in Int : m.entries = [k \in 1 .. size |-> GetLogByIndex(n.logs, prev + k)]
    <3>1. LastLogIndex(n.logs) \in Int
      BY <1>1, LogIndexTyped, BoundsAssumption DEF Index
    <3>2. (IF h \/ LastLogIndex(n.logs) <= prev THEN 0 ELSE LastLogIndex(n.logs) - prev) \in Int
      BY <1>1, <3>1
    <3>3. QED
      BY <3>2 DEF AppendRequest
  <2>2. QED
    BY <2>1
<1> HIDE DEF m, prev
<1>4. NothingTorn => \A k \in DOMAIN m.entries : m.entries[k] # NoEntry => m.entries[k].index = prev + k
  BY <1>1, <1>3, GetLogIndex DEF Straight
<1>5. QED
  BY <1>2, <1>4 DEF GoodCalls, Numbered, m

\* An entry of the next index at the end keeps the indexes consecutive.
LEMMA AppendKeepsIndexes ==
  ASSUME NEW logs \in Seq(Entry), Contiguous(logs), NEW e \in Entry,
         logs # <<>> => e.index = LastLogIndex(logs) + 1
  PROVE  Contiguous(Append(logs, e)) /\ LastLogIndex(Append(logs, e)) = e.index
<1> DEFINE longer == Append(logs, e)
<1>1. /\ longer \in Seq(Entry) /\ longer # <<>> /\ Len(longer) = Len(logs) + 1 /\ Len(logs) \in Nat
      /\ \A k \in 1 .. Len(logs) : longer[k] = logs[k]
      /\ longer[Len(logs) + 1] = e
      /\ DOMAIN longer = 1 .. Len(logs) + 1 /\ DOMAIN logs = 1 .. Len(logs)
  <2>1. longer \in Seq(Entry) /\ Len(longer) = Len(logs) + 1 /\ Len(logs) \in Nat
    OBVIOUS
  <2>2. longer[Len(logs) + 1] = e
    OBVIOUS
  <2>3. \A k \in 1 .. Len(logs) : longer[k] = logs[k]
    OBVIOUS
  <2>4. longer # <<>>
    <3> HIDE DEF longer
    <3> QED
      BY <2>1
  <2>5. QED
    BY <2>1, <2>2, <2>3, <2>4
<1> HIDE DEF longer
<1>2. LastLogIndex(longer) = e.index
  BY <1>1 DEF LastLogIndex
<1>3. CASE logs = <<>>
  <2>1. Len(logs) = 0 /\ e.index \in Int
    BY <1>3, BoundsAssumption DEF Entry, Index
  <2>2. \A k \in DOMAIN longer : k = 1 /\ longer[k] = e
    BY <1>1, <2>1
  <2>3. QED
    BY <1>1, <1>2, <2>1, <2>2 DEF Contiguous, longer
<1>4. CASE logs # <<>>
  <2>1. /\ e.index = logs[1].index + Len(logs) /\ logs[1].index \in Int
        /\ longer[1] = logs[1]
    BY <1>1, <1>4, LastOfContiguous
  <2>2. ASSUME NEW k \in DOMAIN longer PROVE longer[k].index = longer[1].index + k - 1
    <3>1. CASE k \in DOMAIN logs
      BY <1>1, <2>1, <3>1 DEF Contiguous
    <3>2. CASE k = Len(logs) + 1
      BY <1>1, <2>1, <3>2
    <3>3. QED
      BY <1>1, <3>1, <3>2
  <2>3. QED
    BY <1>2, <2>2 DEF Contiguous, longer
<1>5. QED
  BY <1>3, <1>4

\* A concatenation has the elements of its parts.
LEMMA Joined ==
  ASSUME NEW S, NEW a \in Seq(S), NEW b \in Seq(S)
  PROVE  /\ Len(a \o b) = Len(a) + Len(b) /\ Len(b) \in Nat
         /\ \A k \in 1 .. Len(a) : (a \o b)[k] = a[k]
         /\ \A k \in 1 .. Len(b) : (a \o b)[Len(a) + k] = b[k]
         /\ DOMAIN (a \o b) = 1 .. Len(a) + Len(b)
  OBVIOUS

\* What a follower keeps and what it is sent fit together.
LEMMA StoreContiguous ==
  ASSUME NEW n \in NodeType, NEW m \in AppendRequestType, ~ Malformed(m),
         Contiguous(n.logs), Numbered(m)
  PROVE  Contiguous(Store(n, m))
<1> DEFINE kept == FindLog(n.logs, m.prevLogTerm, m.prevLogIndex)
           front == SubSeq(n.logs, 1, kept)
           both == front \o m.entries
<1>1. /\ n.logs \in Seq(Entry) /\ m.entries \in Seq(Entry)
      /\ m.prevLogIndex \in Int
  BY DEF NodeType, AppendRequestType
<1>2. \A k \in 1 .. Len(m.entries) : m.entries[k].index = m.prevLogIndex + k
  <2>1. \A k \in DOMAIN m.entries : m.entries[k] # NoEntry
    BY DEF Malformed, AppendRequestType, NoEntry
  <2>2. QED
    BY <1>1, <2>1 DEF Numbered
<1>3. kept \in 0 .. Len(n.logs) /\ kept \in Nat /\ (kept # 0 => n.logs[kept].index = m.prevLogIndex)
  BY <1>1, FindLogIndex
<1> HIDE DEF kept
<1>4. /\ front \in Seq(Entry) /\ Len(front) = kept
      /\ \A k \in 1 .. kept : front[k] = n.logs[k]
  BY <1>1, <1>3
<1> HIDE DEF front
<1>5. /\ Len(both) = kept + Len(m.entries) /\ Len(m.entries) \in Nat
      /\ \A k \in 1 .. kept : both[k] = front[k]
      /\ \A k \in 1 .. Len(m.entries) : both[kept + k] = m.entries[k]
      /\ DOMAIN both = 1 .. kept + Len(m.entries)
  <2>1. front \in Seq(Entry)
    BY <1>4
  <2>2. /\ Len(both) = Len(front) + Len(m.entries) /\ Len(m.entries) \in Nat
        /\ \A k \in 1 .. Len(front) : both[k] = front[k]
        /\ \A k \in 1 .. Len(m.entries) : both[Len(front) + k] = m.entries[k]
        /\ DOMAIN both = 1 .. Len(front) + Len(m.entries)
    BY <1>1, <2>1, Joined
  <2>3. QED
    BY <1>4, <2>2
<1> HIDE DEF both
<1>6. \A k \in 1 .. Len(m.entries) : both[kept + k].index = m.prevLogIndex + k
  BY <1>2, <1>5
<1>7. CASE kept = 0
  <2>1. \A k \in 1 .. Len(m.entries) : both[k].index = m.prevLogIndex + k
    BY <1>5, <1>6, <1>7
  <2>2. ASSUME NEW k \in DOMAIN both PROVE both[k].index = both[1].index + k - 1
    <3>1. k \in 1 .. Len(m.entries) /\ 1 \in 1 .. Len(m.entries)
      BY <1>5, <1>7
    <3>2. both[k].index = m.prevLogIndex + k /\ both[1].index = m.prevLogIndex + 1
      BY <2>1, <3>1
    <3>3. QED
      BY <1>1, <3>1, <3>2
  <2>3. QED
    BY <2>2 DEF Contiguous, Store, both, front, kept
<1>8. CASE kept # 0
  <2>1. n.logs # <<>> /\ 1 \in 1 .. kept /\ kept \in 1 .. Len(n.logs)
    BY <1>3, <1>8
  <2>2. /\ both[1].index = n.logs[1].index /\ n.logs[1].index \in Int
        /\ m.prevLogIndex = n.logs[1].index + kept - 1
    <3>1. n.logs[1].index \in Int
      BY <1>1, <2>1, LastOfContiguous
    <3>2. n.logs[kept].index = n.logs[1].index + kept - 1
      BY <1>1, <2>1 DEF Contiguous
    <3>3. QED
      BY <1>3, <1>4, <1>5, <1>8, <2>1, <3>1, <3>2
  <2>3. ASSUME NEW k \in DOMAIN both PROVE both[k].index = both[1].index + k - 1
    <3>1. CASE k \in 1 .. kept
      <4>1. k \in DOMAIN n.logs
        BY <1>1, <1>3, <3>1
      <4>2. n.logs[k].index = n.logs[1].index + k - 1
        BY <4>1 DEF Contiguous
      <4>3. QED
        BY <1>4, <1>5, <2>2, <3>1, <4>2
    <3>2. CASE k \notin 1 .. kept
      <4>1. k - kept \in 1 .. Len(m.entries) /\ kept + (k - kept) = k /\ k \in Int
        BY <1>3, <1>5, <3>2
      <4>2. both[k].index = m.prevLogIndex + (k - kept)
        BY <1>6, <4>1
      <4>3. \A x, y, z \in Int : x + y - 1 + (z - y) = x + z - 1
        OBVIOUS
      <4>4. n.logs[1].index \in Int /\ kept \in Int /\ k \in Int
        BY <1>3, <2>2, <4>1
      <4>5. n.logs[1].index + kept - 1 + (k - kept) = n.logs[1].index + k - 1
        BY <4>3, <4>4, Zenon
      <4>6. QED
        BY <2>2, <4>2, <4>5
    <3>3. QED
      BY <3>1, <3>2
  <2>4. QED
    BY <2>3 DEF Contiguous, Store, both, front, kept
<1>9. QED
  BY <1>7, <1>8

-----------------------------------------------------------------------------
(* The steps, by what they do to nodes, files and calls.                   *)

\* What Dump writes of a good log.
LEMMA DumpGood ==
  ASSUME GoodFiles(disk), TypeOK, NEW i \in Server, NEW n, Straight(n.logs)
  PROVE  GoodFiles(Dump(i, n))
  BY DEF GoodFiles, Dump, Record, TypeOK

\* The members GoodNode looks at.
LEMMA AlikeGood ==
  ASSUME NEW i \in Server, NEW n, GoodNode(i, n), NEW d,
         d.logs = n.logs, d.commitIndex = n.commitIndex, d.matchIndex = n.matchIndex
  PROVE  GoodNode(i, d)
  BY DEF GoodNode, Straight, Contiguous

\* A fresh SRaft object has no entries and no commit.
LEMMA NewNodeGood == \A i \in Server : GoodNode(i, NewNode)
<1>1. NewNode.logs = <<>> /\ NewNode.commitIndex = -1
  BY DEF NewNode
<1>2. Contiguous(<<>>)
  BY DEF Contiguous
<1>3. LastLogIndex(<<>>) = -1
  BY DEF LastLogIndex
<1>4. QED
  BY <1>1, <1>2, <1>3 DEF GoodNode, Straight

\* A step that takes calls away, or adds good ones.
LEMMA FewerGood ==
  ASSUME NEW calls, GoodCalls(calls), NEW fewer, fewer \subseteq calls
  PROVE  GoodCalls(fewer)
  BY DEF GoodCalls

\* Two sets of good calls make one.
LEMMA MoreGood ==
  ASSUME NEW calls, GoodCalls(calls), NEW more, GoodCalls(more)
  PROVE  GoodCalls(calls \cup more)
  BY DEF GoodCalls

\* An answer goes back, to another node.
LEMMA AnswerGood ==
  ASSUME LogInv, NEW m \in rpcs, NEW reply,
         reply.src = m.dst, reply.dst = m.src, reply.type # "AppendEntries"
  PROVE  GoodCalls(Answer(m, reply))
<1>1. m.src # m.dst
  BY DEF LogInv, GoodCalls
<1>2. GoodCalls({reply})
  BY <1>1 DEF GoodCalls
<1>3. GoodCalls(rpcs \ {m})
  BY FewerGood DEF LogInv
<1>4. GoodCalls({})
  BY DEF GoodCalls
<1>5. QED
  BY <1>2, <1>3, <1>4, MoreGood DEF Answer

\* The calls left of a process that ended are what they were.
LEMMA OrphanedGood ==
  ASSUME NEW i \in Server, NEW calls \in SUBSET CallType, GoodCalls(calls)
  PROVE  GoodCalls(Orphaned(i, calls))
<1> SUFFICES ASSUME NEW m \in Orphaned(i, calls)
             PROVE  m.src # m.dst /\ (m.type = "AppendEntries" /\ NothingTorn => Numbered(m))
  BY DEF GoodCalls
<1>1. PICK c \in calls : m = IF c.src = i /\ IsRequest(c) THEN [c EXCEPT !.waiting = FALSE] ELSE c
  BY DEF Orphaned
<1>2. c.src # c.dst /\ (c.type = "AppendEntries" /\ NothingTorn => Numbered(c))
  BY DEF GoodCalls
<1>3. CASE IsRequest(c)
  <2>1. c \in VoteRequestType \/ c \in AppendRequestType
    BY <1>3, CallKinds
  <2>2. m.src = c.src /\ m.dst = c.dst /\ m.type = c.type
    BY <1>1, <2>1 DEF VoteRequestType, AppendRequestType
  <2>3. c.type = "AppendEntries" => m.entries = c.entries /\ m.prevLogIndex = c.prevLogIndex
    BY <1>1, <2>1 DEF VoteRequestType, AppendRequestType
  <2>4. QED
    BY <1>2, <2>2, <2>3 DEF Numbered
<1>4. CASE ~ IsRequest(c)
  BY <1>1, <1>2, <1>4
<1>5. QED
  BY <1>3, <1>4

\* One node becomes n, which has a greater or the same commit.
LEMMA NodeStep ==
  ASSUME IndInv, LogInv, TornStays, NEW i \in Server, NEW n, GoodNode(i, n),
         n.commitIndex >= node[i].commitIndex,
         proc[i] = "running" \/ n.commitIndex = node[i].commitIndex,
         node' = [node EXCEPT ![i] = n], proc' = proc,
         GoodFiles(disk'), GoodCalls(rpcs')
  PROVE  LogStep
<1>1. \A j \in Server : node'[j] = IF j = i THEN n ELSE node[j]
  BY DEF IndInv, TypeOK
<1>2. \A j \in Server : node[j].commitIndex \in Int
  BY BoundsAssumption DEF IndInv, TypeOK, NodeType, Index
<1>3. \A j \in Server : GoodNode(j, node[j])
  BY DEF LogInv
<1>4. \A j \in Server : GoodNode(j, node'[j])
  BY <1>1, <1>3
<1>5. \A j \in Server : proc'[j] # "running" => node'[j].commitIndex = -1
  BY <1>1 DEF LogInv
<1>6. CommitsKept
  BY <1>1, <1>2 DEF CommitsKept
<1>7. LogInv'
  BY <1>4, <1>5 DEF LogInv, TornStays, GoodNode, Straight, Peers, Contiguous, LastLogIndex, GoodFiles, GoodCalls, Numbered, NoEntry
<1>8. QED
  BY <1>6, <1>7 DEF LogStep

\* Nothing happens to the nodes.
LEMMA StillStep ==
  ASSUME IndInv, LogInv, TornStays, node' = node, GoodFiles(disk'), GoodCalls(rpcs'),
         \A j \in Server : proc'[j] = proc[j] \/ proc[j] # "running"
  PROVE  LogStep
<1>1. \A j \in Server : node[j].commitIndex \in Int
  BY BoundsAssumption DEF IndInv, TypeOK, NodeType, Index
<1>2. CommitsKept
  BY <1>1 DEF CommitsKept
<1>3. LogInv'
  BY DEF LogInv, TornStays, GoodNode, Straight, Peers, Contiguous, LastLogIndex, GoodFiles, GoodCalls, Numbered, NoEntry
<1>4. QED
  BY <1>2, <1>3 DEF LogStep

\* What is good for the logs before a step is good after it.
LEMMA FilesThen ==
  ASSUME TornStays, GoodFiles(disk')
  PROVE  (GoodFiles(disk))'
  BY DEF TornStays, GoodFiles, Straight, Contiguous

\* The end of a process forgets its commit, and leaves its calls as they are.
LEMMA DieStep ==
  ASSUME IndInv, LogInv, TornStays, NEW i \in Server, NEW how \in {"down", "segv"}, proc[i] # how,
         NEW calls \in SUBSET CallType, GoodCalls(calls), (GoodFiles(disk))', Die(i, how, calls)
  PROVE  LogStep
<1>1. \A j \in Server : /\ node'[j] = IF j = i THEN NewNode ELSE node[j]
                        /\ proc'[j] = IF j = i THEN how ELSE proc[j]
  BY DEF IndInv, TypeOK, Die
<1>2. \A j \in Server : node[j].commitIndex \in Int
  BY BoundsAssumption DEF IndInv, TypeOK, NodeType, Index
<1>3. \A j \in Server : GoodNode(j, node'[j])
  BY <1>1, NewNodeGood DEF LogInv
<1>4. \A j \in Server : proc'[j] # "running" => node'[j].commitIndex = -1
  BY <1>1 DEF LogInv, NewNode
<1>5. CommitsKept
  BY <1>1, <1>2 DEF CommitsKept
<1>6. GoodCalls(rpcs')
  BY OrphanedGood DEF Die
<1>7. LogInv'
  BY <1>3, <1>4, <1>6 DEF LogInv, TornStays, GoodNode, Straight, Peers, Contiguous, LastLogIndex, GoodFiles, GoodCalls, Numbered, NoEntry
<1>8. QED
  BY <1>5, <1>7 DEF LogStep

\* A loop over the peers makes the node n, or ends the process.
LEMMA CallPeersStep ==
  ASSUME IndInv, LogInv, TornStays, NEW i \in Server, NEW n, GoodNode(i, n), proc[i] = "running",
         n.commitIndex >= node[i].commitIndex,
         NEW calls \in SUBSET CallType, GoodCalls(calls), GoodFiles(disk'), CallPeers(i, n, calls)
  PROVE  LogStep
<1>1. rpcs \cup calls \in SUBSET CallType /\ GoodCalls(rpcs \cup calls)
  BY MoreGood DEF IndInv, TypeOK, LogInv
<1>2. CASE n.nullPeer
  <2>1. Die(i, "segv", rpcs \cup calls)
    BY <1>2 DEF CallPeers
  <2>2. QED
    BY <1>1, <2>1, DieStep, FilesThen
<1>3. CASE ~ n.nullPeer
  BY <1>1, <1>3, NodeStep DEF CallPeers
<1>4. QED
  BY <1>2, <1>3

\* Starting and ending processes, which load their files.
LEMMA LifeCycleLog ==
  ASSUME IndInv, LogInv, TornStays, NEW i \in Server, Create(i) \/ Run(i) \/ Crash(i)
  PROVE  LogStep
<1>1. GoodFiles(disk') /\ disk' = disk
  BY DEF Create, Run, Crash, LogInv, GoodFiles
<1>2. CASE Create(i)
  BY <1>1, <1>2, StillStep DEF Create, LogInv, IndInv, TypeOK
<1>3. CASE Run(i)
  <2> DEFINE n == Load(node[i], disk[i])
  <2>1. n.logs = disk[i].logs /\ n.commitIndex = node[i].commitIndex
    BY DEF Load, IndInv, TypeOK, NodeType
  <2>2. node[i].commitIndex = -1 /\ Straight(disk[i].logs)
    BY <1>3 DEF Run, LogInv, GoodFiles
  <2>3. disk[i].logs \in Seq(Entry)
    BY DEF IndInv, TypeOK
  <2>4. LastLogIndex(disk[i].logs) \in Index
    BY <2>3, LogIndexTyped
  <2>5. GoodNode(i, n)
    BY <2>1, <2>2, <2>4, BoundsAssumption DEF GoodNode, Index
  <2> HIDE DEF n
  <2>6. /\ \A j \in Server : node'[j] = IF j = i THEN n ELSE node[j]
        /\ \A j \in Server : proc'[j] = IF j = i THEN "running" ELSE proc[j]
        /\ rpcs' = rpcs
    BY <1>3 DEF Run, IndInv, TypeOK, n
  <2>7. \A j \in Server : node[j].commitIndex \in Int /\ node'[j].commitIndex = node[j].commitIndex
    <3>1. \A j \in Server : node[j].commitIndex \in Int
      BY BoundsAssumption DEF IndInv, TypeOK, NodeType, Index
    <3>2. QED
      BY <2>1, <2>6, <3>1
  <2>8. CommitsKept
    BY <2>7 DEF CommitsKept
  <2>9. \A j \in Server : GoodNode(j, node'[j])
    BY <2>5, <2>6 DEF LogInv
  <2>10. \A j \in Server : proc'[j] # "running" => node'[j].commitIndex = -1
    BY <2>6 DEF LogInv
  <2>11. LogInv'
    BY <1>1, <2>6, <2>9, <2>10
       DEF LogInv, TornStays, GoodNode, Straight, Peers, Contiguous, LastLogIndex, GoodFiles, GoodCalls, Numbered, NoEntry
  <2>12. QED
    BY <2>8, <2>11 DEF LogStep
<1>4. CASE Crash(i)
  <2>1. Die(i, "down", rpcs) /\ proc[i] # "down" /\ rpcs \in SUBSET CallType /\ GoodCalls(rpcs)
    BY <1>4 DEF Crash, Serving, IndInv, TypeOK, LogInv
  <2>2. QED
    BY <1>1, <2>1, DieStep, FilesThen
<1>5. QED
  BY <1>2, <1>3, <1>4

\* Timers: no log changes.
LEMMA TimerLog ==
  ASSUME IndInv, LogInv, TornStays, NEW i \in Server, Timer(i)
  PROVE  LogStep
<1>1. /\ node[i] \in NodeType /\ GoodNode(i, node[i]) /\ proc[i] = "running" /\ GoodFiles(disk)
      /\ node[i].commitIndex \in Int
  BY BoundsAssumption
     DEF IndInv, TypeOK, LogInv, Timer, TimerHeartbeat, TimerElection, ElectionDue, TimerElectionFail, NodeType, Index
<1>2. CASE TimerHeartbeat(i)
  <2> DEFINE calls == {AppendRequest(i, node[i], p, TRUE) : p \in Peers(i)}
  <2>1. calls \in SUBSET CallType
    BY <1>1, AppendRequestTyped DEF Peers, CallType
  <2>2. GoodCalls(calls)
    <3>1. \A p \in Peers(i) : GoodCalls({AppendRequest(i, node[i], p, TRUE)})
      BY <1>1, AppendRequestNumbered DEF GoodNode
    <3>2. QED
      BY <3>1 DEF GoodCalls
  <2>3. CallPeers(i, node[i], calls) /\ GoodFiles(disk')
    BY <1>1, <1>2 DEF TimerHeartbeat
  <2> HIDE DEF calls
  <2>4. node[i].commitIndex >= node[i].commitIndex
    BY <1>1
  <2>5. QED
    BY <1>1, <2>1, <2>2, <2>3, <2>4, CallPeersStep
<1>3. CASE TimerElection(i)
  <2> DEFINE n == StartElection(i, node[i])
             calls == {VoteRequest(i, n, p) : p \in Peers(i)}
  <2>1. /\ n.logs = node[i].logs /\ n.commitIndex = node[i].commitIndex
        /\ n.matchIndex = node[i].matchIndex
    BY <1>1 DEF StartElection, NodeType
  <2>2. n \in NodeType
    BY <1>3, StartElectionTyped DEF TimerElection, IndInv
  <2>3. CallPeers(i, n, calls) /\ disk' = Dump(i, n)
    BY <1>3 DEF TimerElection
  <2> HIDE DEF n
  <2>4. GoodNode(i, n) /\ n.commitIndex >= node[i].commitIndex
    BY <1>1, <2>1, AlikeGood
  <2>5. GoodFiles(disk')
    BY <1>1, <2>3, <2>4, DumpGood DEF IndInv, GoodNode
  <2>6. calls \in SUBSET CallType
    BY <2>2, VoteRequestTyped DEF Peers, CallType
  <2>7. GoodCalls(calls)
    BY DEF GoodCalls, VoteRequest, Peers
  <2> HIDE DEF calls
  <2>8. QED
    BY <1>1, <2>3, <2>4, <2>5, <2>6, <2>7, CallPeersStep
<1>4. CASE TimerElectionFail(i)
  <2> DEFINE n == [node[i] EXCEPT !.state = "FOLLOWER"]
  <2>1. /\ n.logs = node[i].logs /\ n.commitIndex = node[i].commitIndex
        /\ n.matchIndex = node[i].matchIndex
    BY <1>1 DEF NodeType
  <2>2. node' = [node EXCEPT ![i] = n] /\ proc' = proc /\ disk' = disk /\ rpcs' = rpcs
    BY <1>4 DEF TimerElectionFail
  <2> HIDE DEF n
  <2>3. GoodNode(i, n) /\ n.commitIndex >= node[i].commitIndex
    BY <1>1, <2>1, AlikeGood
  <2>4. GoodFiles(disk') /\ GoodCalls(rpcs')
    BY <2>2 DEF LogInv
  <2>5. QED
    BY <1>1, <2>2, <2>3, <2>4, NodeStep
<1>5. QED
  BY <1>2, <1>3, <1>4 DEF Timer

\* DoLog's entry has the next index; without peers it is committed at once, and
\* no entry before it was committed later.
LEMMA AppendOwnGood ==
  ASSUME NEW i \in Server, NEW n \in NodeType, GoodNode(i, n), NEW c \in Cmd,
         LastLogIndex(n.logs) + 1 < MaxLog
  PROVE  /\ GoodNode(i, AppendOwn(i, n, c))
         /\ AppendOwn(i, n, c).commitIndex >= n.commitIndex
<1> DEFINE e == NewEntry(n, c)
           logs == Append(n.logs, e)
           longer == [n EXCEPT !.logs = logs]
           committed == [longer EXCEPT !.commitIndex = LastLogIndex(longer.logs)]
<1>1. /\ n.logs \in Seq(Entry) /\ n.currentTerm \in Term /\ Straight(n.logs)
      /\ n.commitIndex \in Int /\ LastLogIndex(n.logs) \in Int
      /\ LastLogIndex(n.logs) + 1 \in Index
  <2>1. n.logs \in Seq(Entry) /\ n.currentTerm \in Term /\ n.commitIndex \in Index
    BY DEF NodeType
  <2>2. LastLogIndex(n.logs) \in Index
    BY <2>1, LogIndexTyped
  <2>3. QED
    BY <2>1, <2>2, BoundsAssumption DEF GoodNode, Index
<1>2. e \in Entry /\ e.index = LastLogIndex(n.logs) + 1
  BY <1>1 DEF NewEntry, Entry, Data
<1> HIDE DEF e
<1>3. Straight(logs) /\ LastLogIndex(logs) = LastLogIndex(n.logs) + 1
  <2>1. LastLogIndex(logs) = e.index
    BY <1>1 DEF LastLogIndex
  <2>2. NothingTorn => Contiguous(logs)
    BY <1>1, <1>2, AppendKeepsIndexes DEF Straight
  <2>3. QED
    BY <1>2, <2>1, <2>2 DEF Straight
<1> HIDE DEF logs
<1>4. /\ longer.logs = logs /\ longer.commitIndex = n.commitIndex
      /\ longer.matchIndex = n.matchIndex
  BY DEF NodeType
<1>5. /\ committed.logs = logs /\ committed.commitIndex = LastLogIndex(logs)
  BY DEF NodeType
<1>6. PeerCount(i, n) > 0 => GoodNode(i, longer) /\ longer.commitIndex >= n.commitIndex
  <2> HIDE DEF longer
  <2> QED
    BY <1>1, <1>3, <1>4 DEF GoodNode
<1>7. AppendOwn(i, n, c) = IF PeerCount(i, n) > 0 THEN longer ELSE DoApply(committed)
  BY DEF AppendOwn, e, logs
<1>8. /\ DoApply(committed).logs = logs
      /\ DoApply(committed).commitIndex = LastLogIndex(logs)
  <2>1. committed.logs = logs /\ committed.commitIndex = LastLogIndex(logs)
    BY <1>5
  <2>2. /\ DoApply(committed).logs = committed.logs
        /\ DoApply(committed).commitIndex = committed.commitIndex
    BY DEF DoApply, NodeType
  <2> HIDE DEF committed
  <2>3. QED
    BY <2>1, <2>2
<1> HIDE DEF longer, committed
<1>9. CASE PeerCount(i, n) > 0
  BY <1>6, <1>7, <1>9
<1>10. CASE ~ (PeerCount(i, n) > 0)
  <2>1. Peers(i) = {}
    <3>1. IsFiniteSet(Peers(i))
      BY ServerAssumption, FS_Subset DEF Peers
    <3>2. Cardinality(Peers(i)) \in Nat /\ (Cardinality(Peers(i)) = 0 => Peers(i) = {})
      BY <3>1, FS_CardinalityType, FS_EmptySet
    <3>3. QED
      BY <1>10, <3>2 DEF PeerCount
  <2>2. n.commitIndex <= LastLogIndex(n.logs)
    BY <2>1 DEF GoodNode
  <2> DEFINE d == DoApply(committed)
  <2>3. d.logs = logs /\ d.commitIndex = LastLogIndex(logs)
    BY <1>8
  <2> HIDE DEF d
  <2>4. GoodNode(i, d) /\ d.commitIndex >= n.commitIndex
    BY <1>1, <1>3, <2>1, <2>2, <2>3 DEF GoodNode
  <2>5. QED
    BY <1>7, <1>10, <2>4 DEF d
<1>11. QED
  BY <1>9, <1>10

\* DoLog appends the next index and sends what GetLogByIndex finds.
LEMMA DoLogLog ==
  ASSUME IndInv, LogInv, TornStays, NEW i \in Server, NEW c \in Cmd, DoLog(i, c)
  PROVE  LogStep
<1> DEFINE n == AppendOwn(i, node[i], c)
           calls == {AppendRequest(i, n, p, FALSE) : p \in Peers(i)}
<1>1. /\ node[i] \in NodeType /\ GoodNode(i, node[i]) /\ proc[i] = "running"
      /\ LastLogIndex(node[i].logs) + 1 < MaxLog
  BY DEF IndInv, TypeOK, LogInv, DoLog, Logs, MayLog
<1>2. n \in NodeType /\ GoodNode(i, n) /\ n.commitIndex >= node[i].commitIndex
  BY <1>1, AppendOwnTyped, AppendOwnGood
<1>3. CallPeers(i, n, calls) /\ disk' = Dump(i, n)
  BY DEF DoLog
<1> HIDE DEF n
<1>4. calls \in SUBSET CallType
  BY <1>2, AppendRequestTyped DEF Peers, CallType
<1>5. GoodCalls(calls)
  <2>1. \A p \in Peers(i) : GoodCalls({AppendRequest(i, n, p, FALSE)})
    BY <1>2, AppendRequestNumbered DEF GoodNode
  <2>2. QED
    BY <2>1 DEF GoodCalls
<1> HIDE DEF calls
<1>6. GoodFiles(disk')
  BY <1>2, <1>3, DumpGood DEF IndInv, LogInv, GoodNode
<1>7. QED
  BY <1>1, <1>2, <1>3, <1>4, <1>5, <1>6, CallPeersStep

\* What the two invariants say of one node.
LEMMA NodeFacts ==
  ASSUME IndInv, LogInv, NEW i \in Server
  PROVE  /\ node[i] \in NodeType /\ GoodNode(i, node[i]) /\ node[i].commitIndex \in Int
         /\ GoodFiles(disk)
<1>1. node[i] \in NodeType
  BY DEF IndInv, TypeOK
<1>2. node[i].commitIndex \in Int
  BY <1>1, BoundsAssumption DEF NodeType, Index
<1>3. QED
  BY <1>1, <1>2 DEF LogInv

\* Votes: neither logs nor commits change.
LEMMA RequestVoteLog ==
  ASSUME IndInv, LogInv, TornStays, NEW m \in rpcs, OnRequestVoteRequest(m)
  PROVE  LogStep
<1> DEFINE i == m.dst
           n == node[i]
           reply(g) == [type |-> "RequestVoteReply", src |-> i, dst |-> m.src,
                        term |-> n.currentTerm, granted |-> g]
           raised == [n EXCEPT !.currentTerm = m.term]
<1>1. i \in Server /\ n \in NodeType /\ GoodNode(i, n) /\ n.commitIndex \in Int /\ GoodFiles(disk)
  <2>1. i \in Server
    BY CallKinds DEF IndInv, TypeOK
  <2>2. QED
    BY <2>1, NodeFacts
<1>2. GoodCalls(rpcs')
  <2>1. \A g \in BOOLEAN : GoodCalls(Answer(m, reply(g)))
    BY AnswerGood
  <2>2. GoodCalls(rpcs \ {m})
    BY FewerGood DEF LogInv
  <2>3. rpcs' = rpcs \ {m} \/ rpcs' = Answer(m, reply(TRUE)) \/ rpcs' = Answer(m, reply(FALSE))
    BY DEF OnRequestVoteRequest
  <2>4. QED
    BY <2>1, <2>2, <2>3
<1>3. /\ raised.logs = n.logs /\ raised.commitIndex = n.commitIndex /\ raised.matchIndex = n.matchIndex
      /\ Grant(n, m).logs = n.logs /\ Grant(n, m).commitIndex = n.commitIndex
      /\ Grant(n, m).matchIndex = n.matchIndex
  BY <1>1 DEF Grant, NodeType
<1>4. proc' = proc
  BY DEF OnRequestVoteRequest
<1>5. CASE node' = node /\ disk' = disk
  BY <1>1, <1>2, <1>4, <1>5, StillStep
<1>6. CASE node' = [node EXCEPT ![i] = raised] /\ disk' = disk
  <2> HIDE DEF raised
  <2>1. GoodNode(i, raised) /\ raised.commitIndex >= node[i].commitIndex
    BY <1>1, <1>3, AlikeGood
  <2>2. QED
    BY <1>1, <1>2, <1>3, <1>4, <1>6, <2>1, NodeStep
<1>7. CASE node' = [node EXCEPT ![i] = Grant(n, m)] /\ disk' = Dump(i, Grant(n, m))
  <2>1. GoodNode(i, Grant(n, m)) /\ Grant(n, m).commitIndex >= node[i].commitIndex
    BY <1>1, <1>3, AlikeGood
  <2>2. GoodFiles(disk')
    BY <1>1, <1>7, <2>1, DumpGood DEF IndInv, GoodNode
  <2>3. QED
    BY <1>1, <1>2, <1>3, <1>4, <1>7, <2>1, <2>2, NodeStep
<1>8. QED
  BY <1>5, <1>6, <1>7 DEF OnRequestVoteRequest

\* A vote that arrives changes no log and no commit.
LEMMA RequestVoteReplyLog ==
  ASSUME IndInv, LogInv, TornStays, NEW m \in rpcs, OnRequestVoteResponse(m)
  PROVE  LogStep
<1> DEFINE i == m.dst
           n == node[i]
<1>1. i \in Server /\ n \in NodeType /\ GoodNode(i, n) /\ n.commitIndex \in Int /\ GoodFiles(disk)
  <2>1. i \in Server
    BY CallKinds DEF IndInv, TypeOK
  <2>2. QED
    BY <2>1, NodeFacts
<1>2. GoodCalls(rpcs') /\ proc' = proc
  BY FewerGood DEF LogInv, OnRequestVoteResponse
<1>3. GoodFiles(disk')
  <2>1. GoodFiles(Dump(i, n))
    BY <1>1, DumpGood DEF IndInv, GoodNode
  <2>2. disk' = disk \/ disk' = Dump(i, n)
    BY DEF OnRequestVoteResponse
  <2>3. QED
    BY <1>1, <2>1, <2>2
<1>4. ASSUME NEW d, d \in {StepDown(n, m), CountVote(i, n)}, node' = [node EXCEPT ![i] = d]
      PROVE  LogStep
  <2>1. d.logs = n.logs /\ d.commitIndex = n.commitIndex /\ d.matchIndex = n.matchIndex
    BY <1>1, <1>4 DEF StepDown, CountVote, NodeType
  <2>2. GoodNode(i, d) /\ d.commitIndex >= node[i].commitIndex
    BY <1>1, <2>1, AlikeGood
  <2>3. QED
    BY <1>1, <1>2, <1>3, <1>4, <2>1, <2>2, NodeStep
<1>5. CASE node' = node
  BY <1>2, <1>3, <1>5, StillStep
<1>6. QED
  BY <1>4, <1>5 DEF OnRequestVoteResponse

\* A follower's log is cut and extended; its commit does not change.
LEMMA AppendEntriesLog ==
  ASSUME IndInv, LogInv, TornStays, NEW m \in rpcs, OnAppendEntriesRequest(m)
  PROVE  LogStep
<1> DEFINE i == m.dst
           n == node[i]
           stored == [n EXCEPT !.logs = Store(n, m)]
           reply(s, logs) ==
             [type |-> "AppendEntriesReply", src |-> i, dst |-> m.src, ok |-> TRUE,
              isHeartbeat |-> m.isHeartbeat, term |-> n.currentTerm,
              success |-> s, lastLogIndex |-> LastLogIndex(logs)]
<1>1. /\ m \in AppendRequestType /\ i \in Server /\ n \in NodeType /\ GoodNode(i, n)
      /\ n.commitIndex \in Int /\ GoodFiles(disk) /\ proc' = proc
  <2>1. m \in AppendRequestType /\ i \in Server
    BY CallKinds DEF IndInv, TypeOK, OnAppendEntriesRequest
  <2>2. QED
    BY <2>1, NodeFacts DEF OnAppendEntriesRequest
<1>2. (NothingTorn => Numbered(m)) /\ m.src \in Peers(i) /\ ~ Malformed(m)
  BY <1>1, CallKinds DEF LogInv, GoodCalls, OnAppendEntriesRequest, IndInv, TypeOK, Peers
<1>3. GoodCalls(rpcs')
  <2>1. \A s, logs : GoodCalls(Answer(m, reply(s, logs)))
    BY AnswerGood
  <2>2. \E s, logs : rpcs' = Answer(m, reply(s, logs))
    BY DEF OnAppendEntriesRequest
  <2>3. QED
    BY <2>1, <2>2
<1>4. CASE node' = node /\ (disk' = disk \/ disk' = Dump(i, n))
  <2>1. GoodFiles(disk')
    BY <1>1, <1>4, DumpGood DEF IndInv, GoodNode
  <2>2. QED
    BY <1>1, <1>3, <1>4, <2>1, StillStep
<1>5. CASE node' = [node EXCEPT ![i] = StepDown(n, m)] /\ disk' = disk
  <2> DEFINE d == StepDown(n, m)
  <2>1. d.logs = n.logs /\ d.commitIndex = n.commitIndex /\ d.matchIndex = n.matchIndex
    BY <1>1 DEF StepDown, NodeType
  <2> HIDE DEF d
  <2>2. GoodNode(i, d) /\ d.commitIndex >= node[i].commitIndex
    BY <1>1, <2>1, AlikeGood
  <2>3. QED
    BY <1>1, <1>3, <1>5, <2>1, <2>2, NodeStep DEF d
<1>6. CASE node' = [node EXCEPT ![i] = stored] /\ disk' = Dump(i, stored)
  <2>1. Straight(Store(n, m))
    BY <1>1, <1>2, StoreContiguous DEF GoodNode, Straight
  <2>2. /\ stored.logs = Store(n, m) /\ stored.commitIndex = n.commitIndex
        /\ stored.matchIndex = n.matchIndex
    BY <1>1 DEF NodeType
  <2> HIDE DEF stored
  <2>3. GoodNode(i, stored) /\ stored.commitIndex >= node[i].commitIndex
    BY <1>1, <1>2, <2>1, <2>2 DEF GoodNode
  <2>4. GoodFiles(disk')
    BY <1>1, <1>6, <2>1, <2>2, DumpGood DEF IndInv
  <2>5. QED
    BY <1>1, <1>3, <1>6, <2>2, <2>3, <2>4, NodeStep
<1>7. QED
  BY <1>4, <1>5, <1>6 DEF OnAppendEntriesRequest, Appends, Reaches, Stored

\* An acknowledgement beyond the commit is by a peer, and backs it.
LEMMA AcknowledgedGood ==
  ASSUME NEW i \in Server, NEW n \in NodeType, GoodNode(i, n),
         NEW m \in AppendReplyType, m.src \in Peers(i), m.lastLogIndex > n.commitIndex
  PROVE  LET a == Acknowledged(n, m)
         IN  /\ GoodNode(i, a) /\ a.commitIndex = n.commitIndex
             /\ GoodNode(i, DoApply([a EXCEPT !.commitIndex = m.lastLogIndex]))
             /\ DoApply([a EXCEPT !.commitIndex = m.lastLogIndex]).commitIndex = m.lastLogIndex
<1> DEFINE a == Acknowledged(n, m)
           b == [a EXCEPT !.commitIndex = m.lastLogIndex]
           d == DoApply(b)
<1>1. m.lastLogIndex \in Int /\ n.commitIndex \in Int /\ m.src \in Server
  BY BoundsAssumption DEF AppendReplyType, NodeType, Index
<1>2. a.logs = n.logs /\ a.commitIndex = n.commitIndex /\ a \in NodeType
  BY AppendReplyNodesTyped DEF Acknowledged, NodeType
<1>3. a.matchIndex[m.src] = m.lastLogIndex
  <2>1. n.matchIndex \in [Server -> Index]
    BY DEF NodeType
  <2>2. a.matchIndex = [n.matchIndex EXCEPT ![m.src] = m.lastLogIndex]
    BY DEF Acknowledged, NodeType
  <2>3. QED
    BY <1>1, <2>1, <2>2
<1> HIDE DEF a
<1>4. GoodNode(i, a)
  BY <1>1, <1>2, <1>3 DEF GoodNode
<1>5. b.logs = n.logs /\ b.commitIndex = m.lastLogIndex /\ b.matchIndex = a.matchIndex
  BY <1>2 DEF NodeType
<1>6. d.logs = b.logs /\ d.commitIndex = b.commitIndex /\ d.matchIndex = b.matchIndex
  <2>1. b \in NodeType
    BY <1>2, AppendReplyNodesTyped
  <2> HIDE DEF b
  <2>2. QED
    BY <2>1 DEF DoApply, NodeType
<1> HIDE DEF b, d
<1>7. GoodNode(i, d) /\ d.commitIndex = m.lastLogIndex
  <2>1. m.lastLogIndex >= m.lastLogIndex
    BY <1>1
  <2>2. QED
    BY <1>3, <1>5, <1>6, <2>1 DEF GoodNode
<1>8. QED
  BY <1>2, <1>4, <1>7 DEF a, b, d

\* Acknowledgements: no log changes, and a commit only grows.
LEMMA AppendReplyLog ==
  ASSUME IndInv, LogInv, TornStays, NEW m \in rpcs, OnAppendEntriesReponse(m)
  PROVE  LogStep
<1> DEFINE i == m.dst
           n == [node[i] EXCEPT !.nullPeer = @ \/ ~ m.ok]
           n2 == IF m.term > n.currentTerm THEN [n EXCEPT !.state = "FOLLOWER"] ELSE n
           n3 == Acknowledged(n2, m)
           n4 == DoApply([n3 EXCEPT !.commitIndex = m.lastLogIndex])
           Becomes(next) == node' = [node EXCEPT ![i] = next] /\ rpcs' = rpcs \ {m} /\ UNCHANGED proc
<1>1. m \in AppendReplyType /\ i \in Server /\ m.src \in Peers(i) /\ ~ IsRequest(m)
  BY CallKinds
     DEF IndInv, TypeOK, LogInv, GoodCalls, OnAppendEntriesReponse, AppendReplyType, IsRequest, Peers
<1>2. proc[i] = "running"
  BY <1>1 DEF IndInv, CallersRun, CallersIn, Caller, Awaited
<1>3. node[i] \in NodeType /\ GoodNode(i, node[i]) /\ node[i].commitIndex \in Int /\ GoodFiles(disk)
  BY <1>1, NodeFacts
<1>4. rpcs \ {m} \in SUBSET CallType /\ GoodCalls(rpcs \ {m})
  BY FewerGood DEF IndInv, TypeOK, LogInv
<1>5. n \in NodeType /\ GoodNode(i, n) /\ n.commitIndex = node[i].commitIndex
  <2>1. /\ n.logs = node[i].logs /\ n.commitIndex = node[i].commitIndex
        /\ n.matchIndex = node[i].matchIndex
    BY <1>3 DEF NodeType
  <2>2. n \in NodeType
    BY <1>1, <1>3, AppendReplyNodesTyped
  <2> HIDE DEF n
  <2>3. QED
    BY <1>1, <1>3, <2>1, <2>2, AlikeGood
<1>6. n2 \in NodeType /\ GoodNode(i, n2) /\ n2.commitIndex = n.commitIndex
  <2> HIDE DEF n
  <2>1. n2.logs = n.logs /\ n2.commitIndex = n.commitIndex /\ n2.matchIndex = n.matchIndex
    BY <1>5 DEF NodeType
  <2>2. n2 \in NodeType
    BY <1>1, <1>5, AppendReplyNodesTyped
  <2> HIDE DEF n2
  <2>3. QED
    BY <1>1, <1>5, <2>1, <2>2, AlikeGood
<1>7. GoodNode(i, Rejected(n2, m)) /\ Rejected(n2, m).commitIndex = n.commitIndex
  <2> HIDE DEF n, n2
  <2>1. /\ Rejected(n2, m).logs = n2.logs /\ Rejected(n2, m).commitIndex = n2.commitIndex
        /\ Rejected(n2, m).matchIndex = n2.matchIndex
    BY <1>6 DEF Rejected, NodeType
  <2>2. QED
    BY <1>1, <1>6, <2>1, AlikeGood
<1>8. m.lastLogIndex > n.commitIndex =>
        /\ GoodNode(i, n3) /\ n3.commitIndex = n.commitIndex
        /\ GoodNode(i, n4) /\ n4.commitIndex = m.lastLogIndex
  <2> HIDE DEF n, n2
  <2>1. QED
    BY <1>1, <1>6, AcknowledgedGood
<1>9. \/ Becomes(n) \/ Becomes(n2) \/ Becomes(Rejected(n2, m))
      \/ m.lastLogIndex > n.commitIndex /\ (Becomes(n3) \/ Becomes(n4))
      \/ Die(i, "segv", rpcs \ {m})
  <2>1. n.commitIndex \in Int /\ m.lastLogIndex \in Int
    BY <1>1, <1>3, <1>5, BoundsAssumption DEF AppendReplyType, Index
  <2>2. ~ NothingNew(n, m) <=> m.lastLogIndex > n.commitIndex
    <3> HIDE DEF n
    <3> QED
      BY <2>1 DEF NothingNew
  <2>3. QED
    BY <2>2 DEF OnAppendEntriesReponse
<1>10. disk' = disk \/ disk' = Dump(i, n2)
  BY DEF OnAppendEntriesReponse
<1> HIDE DEF n, n2, n3, n4
<1>11. GoodFiles(disk')
  BY <1>1, <1>3, <1>6, <1>10, DumpGood DEF IndInv, GoodNode
<1>12. ASSUME NEW next, Becomes(next), GoodNode(i, next), next.commitIndex >= node[i].commitIndex
       PROVE  LogStep
  BY <1>1, <1>2, <1>4, <1>11, <1>12, NodeStep
<1>13. CASE Die(i, "segv", rpcs \ {m})
  BY <1>1, <1>2, <1>4, <1>11, <1>13, DieStep, FilesThen
<1>14. \A next : next.commitIndex = node[i].commitIndex => next.commitIndex >= node[i].commitIndex
  BY <1>3
<1>15. CASE m.lastLogIndex > n.commitIndex /\ (Becomes(n3) \/ Becomes(n4))
  <2>1. m.lastLogIndex \in Int
    BY <1>1, BoundsAssumption DEF AppendReplyType, Index
  <2>2. n3.commitIndex >= node[i].commitIndex /\ n4.commitIndex >= node[i].commitIndex
    BY <1>3, <1>5, <1>8, <1>15, <2>1
  <2>3. QED
    BY <1>8, <1>12, <1>15, <2>2
<1>16. QED
  BY <1>5, <1>6, <1>7, <1>9, <1>12, <1>13, <1>14, <1>15

\* Failing and lost calls touch neither nodes nor files.
LEMMA FailureLog ==
  ASSUME IndInv, LogInv, TornStays, NEW m \in rpcs, FailCall(m) \/ LoseOrphan(m)
  PROVE  LogStep
<1>1. node' = node /\ disk' = disk /\ proc' = proc
  BY DEF FailCall, LoseOrphan
<1>2. GoodCalls(rpcs')
  <2>1. GoodCalls(rpcs \ {m})
    BY FewerGood DEF LogInv
  <2>2. GoodCalls({FailedReply(m)})
    BY DEF LogInv, GoodCalls, FailedReply
  <2>3. rpcs' = rpcs \ {m} \/ rpcs' = (rpcs \ {m}) \cup {FailedReply(m)}
    BY DEF FailCall, Failed, LoseOrphan
  <2>4. QED
    BY <2>1, <2>2, <2>3, MoreGood
<1>3. GoodFiles(disk')
  BY <1>1 DEF LogInv
<1>4. QED
  BY <1>1, <1>2, <1>3, StillStep

\* A beginning of a log has the same indexes.
LEMMA PrefixContiguous ==
  ASSUME NEW a \in Seq(Entry), NEW b \in Seq(Entry), Contiguous(b), Len(a) <= Len(b),
         \A k \in 1 .. Len(a) : a[k] = b[k]
  PROVE  Contiguous(a)
<1>1. Len(a) \in Nat /\ Len(b) \in Nat /\ DOMAIN a = 1 .. Len(a) /\ DOMAIN b = 1 .. Len(b)
  OBVIOUS
<1>2. ASSUME NEW k \in DOMAIN a PROVE a[k].index = a[1].index + k - 1
  <2>1. k \in DOMAIN b /\ 1 \in DOMAIN b /\ a[k] = b[k] /\ a[1] = b[1]
    BY <1>1
  <2>2. QED
    BY <2>1 DEF Contiguous
<1>3. QED
  BY <1>2 DEF Contiguous

\* What Dump was writing when it was cut is a good log.
LEMMA WritingGood ==
  ASSUME IndInv, LogInv, NEW i \in Server, NEW n, Writing(i, n)
  PROVE  Straight(n.logs)
<1>1. node[i] \in NodeType /\ GoodNode(i, node[i])
  BY NodeFacts
<1>2. CASE n.logs = node[i].logs
  BY <1>1, <1>2 DEF GoodNode
<1>3. CASE Logged(i, n)
  <2>1. PICK c \in Cmd : n = AppendOwn(i, node[i], c) /\ LastLogIndex(node[i].logs) + 1 < MaxLog
    BY <1>3 DEF Logged
  <2>2. GoodNode(i, AppendOwn(i, node[i], c))
    BY <1>1, <2>1, AppendOwnGood
  <2>3. QED
    BY <2>1, <2>2 DEF GoodNode
<1>4. CASE Taken(i, n)
  <2>1. PICK m \in rpcs : Appends(m) /\ n = Stored(node[i], m)
    BY <1>4 DEF Taken
  <2>2. m \in AppendRequestType /\ ~ Malformed(m) /\ (NothingTorn => Numbered(m))
    BY <2>1, CallKinds DEF IndInv, TypeOK, LogInv, GoodCalls, Appends
  <2>3. n.logs = Store(node[i], m)
    BY <1>1, <2>1 DEF Stored, NodeType
  <2>4. QED
    BY <1>1, <2>2, <2>3, StoreContiguous DEF GoodNode, Straight
<1>5. QED
  BY <1>2, <1>3, <1>4 DEF Writing

\* A process that ends within Dump leaves a beginning of a good log, or a torn one.
LEMMA DumpCutLog ==
  ASSUME IndInv, LogInv, TornStays, DumpCut
  PROVE  LogStep
<1>1. TypeOK /\ rpcs \in SUBSET CallType
  BY DEF IndInv, TypeOK
<1>2. PICK i \in Server : \E n, calls, d : \E torn \in BOOLEAN : Dying(i, n, calls, torn, d)
  BY <1>1, DumpCutParts
<1>3. PICK n, calls, d : \E torn \in BOOLEAN : Dying(i, n, calls, torn, d)
  BY <1>2
<1>4. PICK torn \in BOOLEAN : Dying(i, n, calls, torn, d)
  BY <1>3
<1>5. /\ Writing(i, n) /\ n \in NodeType /\ proc[i] = "running" /\ calls \in SUBSET CallType
      /\ Left(i, calls) /\ Die(i, "down", calls)
      /\ disk' = [disk EXCEPT ![i] = d]
      /\ lost' = [lost EXCEPT ![i] = [term |-> LostTerm(i, d), torn |-> lost[i].torn \/ torn]]
  BY <1>4 DEF Dying, Writing, IndInv, CallersRun
<1>6. GoodCalls(calls)
  <2> SUFFICES ASSUME NEW c \in calls
               PROVE  c.src # c.dst /\ (c.type = "AppendEntries" /\ NothingTorn => Numbered(c))
    BY DEF GoodCalls
  <2>1. CASE c \in rpcs
    BY <2>1 DEF LogInv, GoodCalls
  <2>2. ASSUME NEW m \in rpcs, c = FailedReply(m)
        PROVE  c.src # c.dst /\ c.type # "AppendEntries"
    BY <2>2 DEF LogInv, GoodCalls, FailedReply
  <2>3. QED
    BY <1>5, <2>1, <2>2 DEF Left
<1>7. NothingTorn' => Contiguous(d.logs)
  <2> SUFFICES ASSUME NothingTorn' PROVE Contiguous(d.logs)
    OBVIOUS
  <2>1. ~ torn /\ NothingTorn
    <3>1. lost'[i].torn = (lost[i].torn \/ torn)
      BY <1>1, <1>5 DEF TypeOK
    <3>2. QED
      BY <3>1 DEF NothingTorn, TornStays
  <2>2. Contiguous(n.logs) /\ n.logs \in Seq(Entry)
    BY <1>5, <2>1, WritingGood DEF Straight, NodeType
  <2>3. d.logs \in Seq(Entry)
        /\ (d.logs # <<>> => Len(d.logs) <= Len(n.logs) /\ \A k \in 1 .. Len(d.logs) : d.logs[k] = n.logs[k])
    BY <1>4, <1>5, <2>1, CutParts DEF Dying
  <2>4. CASE d.logs = <<>>
    BY <2>4 DEF Contiguous
  <2>5. CASE d.logs # <<>>
    BY <2>2, <2>3, <2>5, PrefixContiguous
  <2>6. QED
    BY <2>4, <2>5
<1>8. \A j \in Server : disk'[j] = IF j = i THEN d ELSE disk[j]
  BY <1>1, <1>5 DEF TypeOK
<1>9. (GoodFiles(disk))'
  BY <1>7, <1>8 DEF TornStays, LogInv, GoodFiles, Straight, Contiguous
<1>10. QED
  BY <1>5, <1>6, <1>9, DieStep

\* No step forgets that an entry was torn; only one that ends within Dump may
\* tear one or lose a term.
LEMMA LostKept ==
  ASSUME TypeOK, [Next]_vars
  PROVE  TornStays /\ (DumpCut \/ lost' = lost)
<1>1. CASE DumpCut
  <2>1. PICK i \in Server : \E n, calls, d : \E torn \in BOOLEAN : Dying(i, n, calls, torn, d)
    BY <1>1, DumpCutParts
  <2>2. PICK n, calls, d : \E torn \in BOOLEAN : Dying(i, n, calls, torn, d)
    BY <2>1
  <2>3. PICK torn \in BOOLEAN : Dying(i, n, calls, torn, d)
    BY <2>2
  <2>4. lost' = [lost EXCEPT ![i] = [term |-> LostTerm(i, d), torn |-> lost[i].torn \/ torn]]
    BY <2>3 DEF Dying
  <2>5. \A j \in Server : lost[j].torn => lost'[j].torn
    BY <2>4 DEF TypeOK
  <2>6. QED
    BY <1>1, <2>5 DEF TornStays, NothingTorn
<1>2. ASSUME NEW i \in Server, Create(i) \/ Run(i) \/ Crash(i) \/ Timer(i) PROVE lost' = lost
  BY <1>2 DEF Create, Run, Crash, Timer, TimerHeartbeat, TimerElection, TimerElectionFail
<1>3. ASSUME NEW i \in Server, NEW c \in Cmd, DoLog(i, c) PROVE lost' = lost
  BY <1>3 DEF DoLog
<1>4. ASSUME NEW m \in rpcs, Handle(m) \/ FailCall(m) \/ LoseOrphan(m) PROVE lost' = lost
  BY <1>4 DEF Handle, OnRequestVoteRequest, OnRequestVoteResponse, OnAppendEntriesRequest,
              OnAppendEntriesReponse, FailCall, LoseOrphan
<1>5. CASE UNCHANGED vars
  BY <1>5 DEF vars, TornStays, NothingTorn
<1>6. CASE lost' = lost
  BY <1>6 DEF TornStays, NothingTorn
<1>7. QED
  BY <1>1, <1>2, <1>3, <1>4, <1>5, <1>6 DEF Next

\* Every step keeps LogInv and takes no commit back.
LEMMA LogStepAlways ==
  ASSUME IndInv, LogInv, [Next]_vars
  PROVE  LogStep
<1>0. TornStays
  BY LostKept DEF IndInv
<1>1. ASSUME NEW i \in Server, Create(i) \/ Run(i) \/ Crash(i) PROVE LogStep
  BY <1>0, <1>1, LifeCycleLog
<1>2. ASSUME NEW i \in Server, Timer(i) PROVE LogStep
  BY <1>0, <1>2, TimerLog
<1>3. ASSUME NEW i \in Server, NEW c \in Cmd, DoLog(i, c) PROVE LogStep
  BY <1>0, <1>3, DoLogLog
<1>4. ASSUME NEW m \in rpcs, Handle(m) PROVE LogStep
  BY <1>0, <1>4, RequestVoteLog, RequestVoteReplyLog, AppendEntriesLog, AppendReplyLog DEF Handle
<1>5. ASSUME NEW m \in rpcs, FailCall(m) \/ LoseOrphan(m) PROVE LogStep
  BY <1>0, <1>5, FailureLog
<1>6. CASE UNCHANGED vars
  <2>1. node' = node /\ proc' = proc /\ GoodFiles(disk') /\ GoodCalls(rpcs')
    BY <1>6 DEF vars, LogInv
  <2>2. QED
    BY <1>0, <2>1, StillStep
<1>7. CASE DumpCut
  BY <1>0, <1>7, DumpCutLog
<1>8. QED
  BY <1>1, <1>2, <1>3, <1>4, <1>5, <1>6, <1>7 DEF Next

\* Initially every log is empty, nothing is committed and nothing in flight.
LEMMA InitLog == Init => LogInv
<1> SUFFICES ASSUME Init PROVE LogInv
  OBVIOUS
<1>1. \A i \in Server : GoodNode(i, node[i]) /\ node[i].commitIndex = -1
  BY NewNodeGood DEF Init, NewNode
<1>2. GoodFiles(disk) /\ GoodCalls(rpcs)
  BY DEF Init, GoodFiles, GoodCalls, Straight, Contiguous
<1>3. QED
  BY <1>1, <1>2 DEF LogInv

\* The facts about logs, commits and calls always hold.
THEOREM LogInvariance == Spec => []LogInv
<1>1. IndInv /\ LogInv /\ [Next]_vars => LogInv'
  BY LogStepAlways DEF LogStep
<1>2. QED
  BY <1>1, InitLog, Invariance, PTL DEF Spec

\* The log stays addressable by index: DoLog, AppendEntries, Dump and Load keep
\* the indexes of every log consecutive, in memory and in the files, unless a
\* process ended within Dump and left a part of an entry.
THEOREM IndexesConsecutive == Spec => []ContiguousLog
<1>1. LogInv => ContiguousLog
  BY DEF LogInv, GoodNode, GoodFiles, Straight, ContiguousLog
<1>2. QED
  BY <1>1, LogInvariance, PTL

\* OnAppendEntriesReponse commits only what the matchIndex_ of a peer backs.
THEOREM CommitsBacked == Spec => []CommitIsAcknowledged
<1>1. LogInv => CommitIsAcknowledged
  BY DEF LogInv, GoodNode, CommitIsAcknowledged
<1>2. QED
  BY <1>1, LogInvariance, PTL

\* No late acknowledgement and no DoLog lowers commitIndex_ of a living node.
THEOREM CommitsStay == Spec => CommitNeverGoesBack
<1>1. IndInv /\ LogInv /\ [Next]_vars
        => [\A i \in Server : proc'[i] = proc[i]
                                => node'[i].commitIndex >= node[i].commitIndex]_vars
  BY LogStepAlways DEF LogStep, CommitsKept
<1>2. QED
  BY <1>1, Invariance, LogInvariance, PTL DEF Spec, CommitNeverGoesBack

-----------------------------------------------------------------------------
(* The first election.  A candidate of the first term counts every voter of  *)
(* that term once: between two of its elections a crash or a higher term     *)
(* lies, so each peer has at most one call of this election open with it.    *)

\* The nodes that voted for i in the first term, and those of them whose answer
\* i has not seen.
FirstVoters(i) == {p \in Server : [voter |-> p, term |-> 1, candidate |-> i] \in votes}
Arriving(i) == {p \in Server : \E m \in rpcs : m.type = "RequestVoteReply" /\ m.granted
                                                /\ m.src = p /\ m.dst = i}
Seen(i) == FirstVoters(i) \ Arriving(i)

\* The open calls of i's elections, and the one with p.
VoteCall(m) == m.type = "RequestVoteReply" \/ (m.type = "RequestVote" /\ m.waiting)
Voter(m) == IF m.type = "RequestVote" THEN m.dst ELSE m.src

\* Who stands for election, or won, has the term of it in the file.
Standing == \A i \in Server : node[i].state # "FOLLOWER" => proc[i] = "running" /\ disk[i].term >= 1

\* So have those with open calls; a vote on its way was given in such a term.
AskedBy(m) ==
    /\ disk[Caller(m)].term >= 1
    /\ m.type = "RequestVote" => m.term \in 1 .. disk[m.src].term
    /\ m.type = "RequestVoteReply" /\ m.granted =>
          \E t \in 1 .. disk[m.dst].term :
              [voter |-> m.src, term |-> t, candidate |-> m.dst] \in votes
Asked == \A m \in rpcs : VoteCall(m) => AskedBy(m)

\* In the first term nobody is asked twice.
AskedOnce == \A c, d \in rpcs :
    VoteCall(c) /\ VoteCall(d) /\ Caller(c) = Caller(d) /\ Voter(c) = Voter(d)
    /\ disk[Caller(c)].term <= 1 => c = d

\* A count of the first term is covered by its voters; a leader has more than
\* half of its peers.
TallyOf(i) == node[i].state # "FOLLOWER" /\ node[i].currentTerm = 1 =>
    /\ node[i].votesRecieved \in 1 .. Cardinality(Seen(i))
    /\ node[i].state = "LEADER" =>
          /\ node[i].votesRecieved > (Cardinality(Server) - 1) \div 2
          /\ node[i].votesRecieved = 1 => Cardinality(Server) = 1
Tally == \A i \in Server : TallyOf(i)

TallyInv == Standing /\ Asked /\ AskedOnce /\ Tally

\* What the steps of the node mean for the tally: nobody becomes a candidate and
\* nobody's count changes.
NodesQuiet == \A j \in Server :
    \/ node'[j].state = "FOLLOWER"
    \/ /\ node'[j].state = node[j].state /\ proc'[j] = proc[j]
       /\ node'[j].votesRecieved = node[j].votesRecieved
       /\ node'[j].currentTerm >= node[j].currentTerm


\* The terms of a node and of its file are numbers.
LEMMA TermsInt ==
  ASSUME TypeOK, NEW i \in Server
  PROVE  node[i].currentTerm \in Nat /\ disk[i].term \in Nat
  BY BoundsAssumption DEF TypeOK, NodeType, Term

\* The caller and the voter of a call are nodes.
LEMMA CallerIn ==
  ASSUME NEW m \in CallType
  PROVE  /\ Caller(m) \in Server /\ Voter(m) \in Server
         /\ m.type = "RequestVote" => m.term \in Nat
  BY CallKinds, BoundsAssumption DEF Caller, Voter, VoteRequestType, Term

\* The file of a node that stands is not behind the first term.
LEMMA StandingKept ==
  ASSUME TypeOK, TypeOK', Standing, NodesQuiet, FilesGrow
  PROVE  Standing'
<1> SUFFICES ASSUME NEW j \in Server, node'[j].state # "FOLLOWER"
             PROVE  proc'[j] = "running" /\ disk'[j].term >= 1
  BY DEF Standing
<1>1. proc'[j] = proc[j] /\ disk[j].term >= 1 /\ proc[j] = "running"
  BY DEF NodesQuiet, Standing
<1>2. disk[j].term \in Nat /\ disk'[j].term \in Nat /\ disk'[j].term >= disk[j].term
  BY BoundsAssumption DEF FilesGrow, TypeOK, Term
<1>3. QED
  BY <1>1, <1>2

\* What was asked for stays asked for.
LEMMA AskedGrows ==
  ASSUME TypeOK, TypeOK', FilesGrow, votes \subseteq votes', NEW m \in CallType, AskedBy(m)
  PROVE  AskedBy(m)'
<1>1. m.src \in Server /\ m.dst \in Server /\ Caller(m) \in Server
  BY CallKinds, CallerIn
<1>2. \A i \in Server : /\ disk[i].term \in Nat /\ disk'[i].term \in Nat
                        /\ disk'[i].term >= disk[i].term
  BY TermsInt, BoundsAssumption DEF FilesGrow, TypeOK, Term
<1>3. \A i \in Server : 1 .. disk[i].term \subseteq 1 .. disk'[i].term
  BY <1>2
<1>4. disk'[Caller(m)].term >= 1
  BY <1>1, <1>2 DEF AskedBy
<1>5. m.type = "RequestVote" => m.term \in 1 .. disk'[m.src].term
  BY <1>1, <1>3 DEF AskedBy
<1>6. m.type = "RequestVoteReply" /\ m.granted =>
         \E t \in 1 .. disk'[m.dst].term :
             [voter |-> m.src, term |-> t, candidate |-> m.dst] \in votes'
  BY <1>1, <1>3 DEF AskedBy
<1>7. QED
  BY <1>4, <1>5, <1>6 DEF AskedBy, Caller, IsRequest

\* Calls that were open before stay asked for, once.
LEMMA AskedKept ==
  ASSUME TypeOK, TypeOK', Asked, AskedOnce, FilesGrow, votes \subseteq votes',
         \A m \in rpcs' : VoteCall(m) => m \in rpcs
  PROVE  Asked' /\ AskedOnce'
<1>1. \A m \in rpcs' : VoteCall(m) => AskedBy(m)'
  BY AskedGrows DEF Asked, TypeOK
<1>2. Asked'
  BY <1>1 DEF Asked, VoteCall
<1>3. AskedOnce'
  <2> SUFFICES ASSUME NEW c \in rpcs', NEW d \in rpcs', VoteCall(c), VoteCall(d),
                      Caller(c) = Caller(d), Voter(c) = Voter(d), disk'[Caller(c)].term <= 1
               PROVE  c = d
    BY DEF AskedOnce, VoteCall, Caller, Voter, IsRequest
  <2>1. c \in CallType
    BY DEF TypeOK
  <2>2. disk[Caller(c)].term <= 1
    <3>1. Caller(c) \in Server
      BY <2>1, CallerIn
    <3>2. /\ disk[Caller(c)].term \in Nat /\ disk'[Caller(c)].term \in Nat
          /\ disk'[Caller(c)].term >= disk[Caller(c)].term
      BY <3>1, TermsInt, BoundsAssumption DEF FilesGrow, TypeOK, Term
    <3>3. QED
      BY <3>2
  <2>3. QED
    BY <2>2 DEF AskedOnce
<1>4. QED
  BY <1>2, <1>3

\* The voters counted or to be counted are finitely many.
LEMMA SeenFinite ==
  ASSUME NEW i \in Server
  PROVE  IsFiniteSet(Seen(i)) /\ Cardinality(Seen(i)) \in Nat
<1>1. Seen(i) \in SUBSET Server
  BY DEF Seen, FirstVoters
<1>2. QED
  BY <1>1, ServerAssumption, FS_Subset, FS_CardinalityType

\* So are they after a step.
LEMMA SeenFinitePrime ==
  ASSUME NEW i \in Server
  PROVE  IsFiniteSet(Seen(i)') /\ Cardinality(Seen(i)') \in Nat
<1>1. Seen(i)' \in SUBSET Server
  BY DEF Seen, FirstVoters
<1>2. QED
  BY <1>1, ServerAssumption, FS_Subset, FS_CardinalityType

\* A count stays covered while no voter is taken away.
LEMMA TallyNode ==
  ASSUME IndInv, TypeOK', Standing, Tally, NEW j \in Server,
         node'[j].state = node[j].state, node'[j].votesRecieved = node[j].votesRecieved,
         node'[j].currentTerm >= node[j].currentTerm,
         node'[j].state # "FOLLOWER" /\ node'[j].currentTerm = 1 => Seen(j) \subseteq Seen(j)'
  PROVE  TallyOf(j)'
<1> SUFFICES ASSUME node'[j].state # "FOLLOWER", node'[j].currentTerm = 1
             PROVE  /\ node'[j].votesRecieved \in 1 .. Cardinality(Seen(j)')
                    /\ node'[j].state = "LEADER" =>
                          /\ node'[j].votesRecieved > (Cardinality(Server) - 1) \div 2
                          /\ node'[j].votesRecieved = 1 => Cardinality(Server) = 1
  BY DEF TallyOf
<1>1. node[j].currentTerm = 1
  <2>1. node[j].currentTerm \in Nat /\ disk[j].term \in Nat /\ TypeOK
    BY TermsInt DEF IndInv
  <2>2. disk[j].term >= 1 /\ disk[j].term <= node[j].currentTerm
    BY DEF Standing, IndInv, TermOnDisk
  <2>3. QED
    BY <2>1, <2>2
<1>2. Cardinality(Seen(j)) <= Cardinality(Seen(j)')
  BY SeenFinitePrime, FS_Subset
<1>3. Cardinality(Seen(j)) \in Nat /\ Cardinality(Seen(j)') \in Nat
  BY SeenFinite, SeenFinitePrime
<1>4. node[j].votesRecieved \in 1 .. Cardinality(Seen(j))
  BY <1>1 DEF Tally, TallyOf
<1>5. node'[j].votesRecieved \in 1 .. Cardinality(Seen(j)')
  BY <1>2, <1>3, <1>4
<1>6. QED
  BY <1>1, <1>5 DEF Tally, TallyOf

\* So do all counts when nobody becomes a candidate.
LEMMA TallyKept ==
  ASSUME IndInv, TypeOK', Standing, Tally, NodesQuiet,
         \A j \in Server : node'[j].state # "FOLLOWER" /\ node'[j].currentTerm = 1
                             => Seen(j) \subseteq Seen(j)'
  PROVE  Tally'
<1>1. ASSUME NEW j \in Server PROVE TallyOf(j)'
  <2>1. CASE node'[j].state = "FOLLOWER"
    BY <2>1 DEF TallyOf
  <2>2. CASE node'[j].state # "FOLLOWER"
    BY <2>2, TallyNode DEF NodesQuiet
  <2>3. QED
    BY <2>1, <2>2
<1>2. QED
  BY <1>1 DEF Tally

\* A step without elections and without votes.
LEMMA QuietStep ==
  ASSUME IndInv, TypeOK', TallyInv, NodesQuiet, FilesGrow, votes \subseteq votes',
         \A m \in rpcs' : VoteCall(m) => m \in rpcs
  PROVE  TallyInv'
<1>1. \A j \in Server : Seen(j) \subseteq Seen(j)'
  BY DEF Seen, FirstVoters, Arriving, VoteCall
<1>2. QED
  BY <1>1, StandingKept, AskedKept, TallyKept DEF TallyInv, IndInv

\* What is left of open calls when a process ends was open before.
LEMMA OrphanedOpen ==
  ASSUME NEW i, NEW calls \in SUBSET CallType, NEW m \in Orphaned(i, calls), VoteCall(m)
  PROVE  m \in calls /\ Caller(m) # i
<1>1. PICK c \in calls : /\ m = IF c.src = i /\ IsRequest(c) THEN [c EXCEPT !.waiting = FALSE] ELSE c
                         /\ IsRequest(c) \/ c.dst # i
  BY DEF Orphaned
<1>2. CASE c.src = i /\ IsRequest(c)
  <2>1. c \in VoteRequestType \/ c \in AppendRequestType
    BY <1>2, CallKinds
  <2>2. m = [c EXCEPT !.waiting = FALSE]
    BY <1>1, <1>2
  <2>3. m.waiting = FALSE /\ m.type = c.type
    BY <2>1, <2>2 DEF VoteRequestType, AppendRequestType
  <2>4. m.type # "RequestVoteReply"
    BY <2>1, <2>3 DEF VoteRequestType, AppendRequestType
  <2>5. QED
    BY <2>3, <2>4 DEF VoteCall
<1>3. CASE ~ (c.src = i /\ IsRequest(c))
  BY <1>1, <1>3 DEF Caller
<1>4. QED
  BY <1>2, <1>3

\* The end of a process makes no candidate and opens no call.
LEMMA DieTally ==
  ASSUME IndInv, TypeOK', TallyInv, FilesGrow, votes \subseteq votes',
         NEW i \in Server, NEW how \in {"down", "segv"}, NEW calls \in SUBSET CallType,
         \A m \in calls : VoteCall(m) /\ Caller(m) # i => m \in rpcs, Die(i, how, calls)
  PROVE  TallyInv'
<1>1. \A j \in Server : node'[j] = IF j = i THEN NewNode ELSE node[j]
  BY DEF Die, IndInv, TypeOK
<1>2. \A j \in Server : j # i => proc'[j] = proc[j]
  BY DEF Die, IndInv, TypeOK
<1>3. \A j \in Server : node[j].currentTerm \in Nat
  BY TermsInt DEF IndInv
<1>4. NodesQuiet
  BY <1>1, <1>2, <1>3 DEF NodesQuiet, NewNode
<1>5. \A m \in rpcs' : VoteCall(m) => m \in rpcs
  BY OrphanedOpen DEF Die
<1>6. QED
  BY <1>4, <1>5, QuietStep

\* One node changes, but stands no more than before.
LEMMA OneQuiet ==
  ASSUME IndInv, TypeOK', TallyInv, FilesGrow, votes \subseteq votes', NEW i \in Server, NEW n,
         node' = [node EXCEPT ![i] = n], proc' = proc,
         n.state = "FOLLOWER" \/ /\ n.state = node[i].state
                                 /\ n.votesRecieved = node[i].votesRecieved
                                 /\ n.currentTerm >= node[i].currentTerm,
         \A m \in rpcs' : VoteCall(m) => m \in rpcs
  PROVE  TallyInv'
<1>1. \A j \in Server : node'[j] = IF j = i THEN n ELSE node[j]
  BY DEF IndInv, TypeOK
<1>2. \A j \in Server : node[j].currentTerm \in Nat
  BY TermsInt DEF IndInv
<1>3. NodesQuiet
  BY <1>1, <1>2 DEF NodesQuiet
<1>4. QED
  BY <1>3, QuietStep

\* The loops over the peers that open no vote calls.
LEMMA CallPeersTally ==
  ASSUME IndInv, TypeOK', TallyInv, FilesGrow, votes \subseteq votes', NEW i \in Server, NEW n,
         n.state = node[i].state, n.votesRecieved = node[i].votesRecieved,
         n.currentTerm = node[i].currentTerm,
         NEW calls \in SUBSET CallType, \A m \in calls : m.type = "AppendEntries",
         CallPeers(i, n, calls)
  PROVE  TallyInv'
<1>1. \A m \in rpcs \cup calls : VoteCall(m) => m \in rpcs
  BY DEF VoteCall
<1>2. CASE n.nullPeer
  <2>1. Die(i, "segv", rpcs \cup calls) /\ rpcs \cup calls \in SUBSET CallType
    BY <1>2 DEF CallPeers, IndInv, TypeOK
  <2>2. QED
    BY <1>1, <2>1, DieTally
<1>3. CASE ~ n.nullPeer
  <2>1. node[i].currentTerm \in Nat
    BY TermsInt DEF IndInv
  <2>2. node' = [node EXCEPT ![i] = n] /\ proc' = proc /\ rpcs' = rpcs \cup calls
    BY <1>3 DEF CallPeers
  <2>3. n.currentTerm >= node[i].currentTerm
    BY <2>1
  <2>4. QED
    BY <1>1, <2>2, <2>3, OneQuiet
<1>4. QED
  BY <1>2, <1>3

\* Starting and ending processes.
LEMMA LifeCycleTally ==
  ASSUME IndInv, TypeOK', TallyInv, FilesGrow, NEW i \in Server, Create(i) \/ Run(i) \/ Crash(i)
  PROVE  TallyInv'
<1>1. \A j \in Server : node[j].currentTerm \in Nat
  BY TermsInt DEF IndInv
<1>2. CASE Create(i)
  <2>1. \A j \in Server : node'[j] = node[j] /\ (j # i => proc'[j] = proc[j])
    BY <1>2 DEF Create, IndInv, TypeOK
  <2>2. node[i].state = "FOLLOWER"
    BY <1>2 DEF Create, TallyInv, Standing
  <2>3. NodesQuiet
    BY <1>1, <2>1, <2>2 DEF NodesQuiet
  <2>4. QED
    BY <1>2, <2>3, QuietStep DEF Create
<1>3. CASE Run(i)
  <2>1. node[i].state = "FOLLOWER" /\ node[i] \in NodeType
    BY <1>3 DEF Run, TallyInv, Standing, IndInv, TypeOK
  <2>2. Load(node[i], disk[i]).state = "FOLLOWER"
    BY <2>1 DEF Load, NodeType
  <2>3. /\ \A j \in Server : node'[j] = IF j = i THEN Load(node[i], disk[i]) ELSE node[j]
        /\ \A j \in Server : j # i => proc'[j] = proc[j]
    BY <1>3 DEF Run, IndInv, TypeOK
  <2>4. NodesQuiet
    BY <1>1, <2>2, <2>3 DEF NodesQuiet
  <2>5. QED
    BY <1>3, <2>4, QuietStep DEF Run
<1>4. CASE Crash(i)
  <2>1. Die(i, "down", rpcs) /\ votes' = votes /\ rpcs \in SUBSET CallType
    BY <1>4 DEF Crash, IndInv, TypeOK
  <2>2. QED
    BY <2>1, DieTally
<1>5. QED
  BY <1>2, <1>3, <1>4

\* DoLog opens no vote call.
LEMMA DoLogTally ==
  ASSUME IndInv, TypeOK', TallyInv, FilesGrow, NEW i \in Server, NEW c \in Cmd, DoLog(i, c)
  PROVE  TallyInv'
<1> DEFINE n == AppendOwn(i, node[i], c)
           calls == {AppendRequest(i, n, p, FALSE) : p \in Peers(i)}
<1>1. node[i] \in NodeType /\ LastLogIndex(node[i].logs) + 1 < MaxLog
  BY DEF IndInv, TypeOK, DoLog, Logs
<1>2. n \in NodeType
  BY <1>1, AppendOwnTyped
<1>3. /\ n.state = node[i].state /\ n.votesRecieved = node[i].votesRecieved
      /\ n.currentTerm = node[i].currentTerm
  BY <1>1 DEF AppendOwn, DoApply, NodeType
<1>4. CallPeers(i, n, calls) /\ votes' = votes
  BY DEF DoLog
<1> HIDE DEF n
<1>5. calls \in SUBSET CallType
  BY <1>2, AppendRequestTyped DEF Peers, CallType
<1>6. \A m \in calls : m.type = "AppendEntries"
  BY DEF AppendRequest
<1> HIDE DEF calls
<1>7. QED
  BY <1>3, <1>4, <1>5, <1>6, CallPeersTally

\* A heartbeat and a failed election.
LEMMA IdleTimerTally ==
  ASSUME IndInv, TypeOK', TallyInv, FilesGrow, NEW i \in Server,
         TimerHeartbeat(i) \/ TimerElectionFail(i)
  PROVE  TallyInv'
<1>1. node[i] \in NodeType
  BY DEF IndInv, TypeOK
<1>2. CASE TimerHeartbeat(i)
  <2> DEFINE calls == {AppendRequest(i, node[i], p, TRUE) : p \in Peers(i)}
  <2>1. calls \in SUBSET CallType
    BY <1>1, AppendRequestTyped DEF Peers, CallType
  <2>2. \A m \in calls : m.type = "AppendEntries"
    BY DEF AppendRequest
  <2>3. CallPeers(i, node[i], calls) /\ votes' = votes
    BY <1>2 DEF TimerHeartbeat
  <2> HIDE DEF calls
  <2>4. QED
    BY <2>1, <2>2, <2>3, CallPeersTally
<1>3. CASE TimerElectionFail(i)
  <2> DEFINE n == [node[i] EXCEPT !.state = "FOLLOWER"]
  <2>1. n.state = "FOLLOWER"
    BY <1>1 DEF NodeType
  <2>2. node' = [node EXCEPT ![i] = n] /\ proc' = proc /\ rpcs' = rpcs /\ votes' = votes
    BY <1>3 DEF TimerElectionFail
  <2> HIDE DEF n
  <2>3. QED
    BY <2>1, <2>2, OneQuiet
<1>4. QED
  BY <1>2, <1>3

\* AppendEntries and its answers make nobody a candidate.
LEMMA AppendEntriesTally ==
  ASSUME IndInv, TypeOK', TallyInv, FilesGrow, NEW m \in rpcs, OnAppendEntriesRequest(m)
  PROVE  TallyInv'
<1> DEFINE i == m.dst
           n == node[i]
           stored == [n EXCEPT !.logs = Store(n, m)]
<1>1. m \in CallType /\ i \in Server /\ n \in NodeType
  BY CallKinds DEF IndInv, TypeOK
<1>2. /\ \A c \in rpcs' : VoteCall(c) => c \in rpcs
      /\ votes' = votes /\ proc' = proc
  BY DEF OnAppendEntriesRequest, Answer, VoteCall
<1>3. /\ stored.state = n.state /\ stored.votesRecieved = n.votesRecieved
      /\ stored.currentTerm = n.currentTerm /\ n.currentTerm \in Nat
      /\ StepDown(n, m).state = "FOLLOWER"
  BY <1>1, TermsInt DEF NodeType, StepDown, IndInv
<1>4. CASE node' = node
  <2>1. NodesQuiet
    BY <1>2, <1>4, TermsInt DEF NodesQuiet, IndInv
  <2>2. QED
    BY <1>2, <2>1, QuietStep
<1>5. CASE node' = [node EXCEPT ![i] = stored]
  <2>1. stored.currentTerm >= n.currentTerm
    BY <1>3
  <2> HIDE DEF stored
  <2>2. QED
    BY <1>1, <1>2, <1>3, <1>5, <2>1, OneQuiet
<1>6. CASE node' = [node EXCEPT ![i] = StepDown(n, m)]
  BY <1>1, <1>2, <1>3, <1>6, OneQuiet
<1>7. QED
  BY <1>4, <1>5, <1>6 DEF OnAppendEntriesRequest, Appends, Reaches, Stored

\* Neither do the answers to AppendEntries.
LEMMA AppendReplyTally ==
  ASSUME IndInv, TypeOK', TallyInv, FilesGrow, NEW m \in rpcs, OnAppendEntriesReponse(m)
  PROVE  TallyInv'
<1> DEFINE i == m.dst
           n == [node[i] EXCEPT !.nullPeer = @ \/ ~ m.ok]
           n2 == IF m.term > n.currentTerm THEN [n EXCEPT !.state = "FOLLOWER"] ELSE n
           n3 == Acknowledged(n2, m)
           n4 == DoApply([n3 EXCEPT !.commitIndex = m.lastLogIndex])
           Becomes(next) == node' = [node EXCEPT ![i] = next] /\ rpcs' = rpcs \ {m} /\ UNCHANGED proc
           Same(d) == /\ d.state = "FOLLOWER" \/ d.state = node[i].state
                      /\ d.votesRecieved = node[i].votesRecieved
                      /\ d.currentTerm = node[i].currentTerm
<1>1. m \in AppendReplyType /\ i \in Server /\ node[i] \in NodeType
  BY CallKinds DEF IndInv, TypeOK, OnAppendEntriesReponse, AppendReplyType
<1>2. n \in NodeType /\ Same(n)
  BY <1>1, AppendReplyNodesTyped DEF NodeType
<1>3. n2 \in NodeType /\ Same(n2)
  <2> HIDE DEF n
  <2> QED
    BY <1>1, <1>2, AppendReplyNodesTyped DEF NodeType
<1>4. Same(Rejected(n2, m)) /\ Same(n3) /\ n3 \in NodeType
  <2> HIDE DEF n2
  <2> QED
    BY <1>1, <1>3, AppendReplyNodesTyped DEF Rejected, Acknowledged, NodeType
<1>5. Same(n4)
  <2> HIDE DEF n3
  <2> DEFINE committed == [n3 EXCEPT !.commitIndex = m.lastLogIndex]
  <2>1. committed \in NodeType /\ Same(committed)
    BY <1>1, <1>4, AppendReplyNodesTyped DEF NodeType
  <2> HIDE DEF committed
  <2>2. Same(DoApply(committed))
    BY <2>1 DEF DoApply, NodeType
  <2>3. QED
    BY <2>2 DEF committed
<1>6. \/ Becomes(n) \/ Becomes(n2) \/ Becomes(Rejected(n2, m)) \/ Becomes(n3) \/ Becomes(n4)
      \/ Die(i, "segv", rpcs \ {m})
  BY DEF OnAppendEntriesReponse
<1>7. votes' = votes /\ rpcs \ {m} \in SUBSET CallType /\ node[i].currentTerm \in Nat
  BY <1>1, TermsInt DEF OnAppendEntriesReponse, IndInv, TypeOK
<1> HIDE DEF n, n2, n3, n4
<1>8. ASSUME NEW d, Becomes(d), Same(d) PROVE TallyInv'
  <2>1. d.currentTerm >= node[i].currentTerm
    BY <1>7, <1>8
  <2>2. QED
    BY <1>1, <1>7, <1>8, <2>1, OneQuiet
<1>9. CASE Die(i, "segv", rpcs \ {m})
  BY <1>1, <1>7, <1>9, DieTally
<1>10. QED
  BY <1>2, <1>3, <1>4, <1>5, <1>6, <1>8, <1>9

\* Failing and lost calls only close calls.
LEMMA FailureTally ==
  ASSUME IndInv, TypeOK', TallyInv, FilesGrow, NEW m \in rpcs, FailCall(m) \/ LoseOrphan(m)
  PROVE  TallyInv'
<1>1. node' = node /\ proc' = proc /\ votes' = votes
  BY DEF FailCall, LoseOrphan
<1>2. \A c \in rpcs' : VoteCall(c) => c \in rpcs
  BY DEF FailCall, Failed, LoseOrphan, FailedReply, VoteCall
<1>3. NodesQuiet
  BY <1>1, TermsInt DEF NodesQuiet, IndInv
<1>4. QED
  BY <1>1, <1>2, <1>3, QuietStep

\* All nodes but one are the peers of it.
LEMMA PeersFinite ==
  ASSUME NEW i \in Server
  PROVE  /\ Cardinality(Server) \in Nat /\ Cardinality(Peers(i)) \in Nat
         /\ Cardinality(Peers(i)) = Cardinality(Server) - 1
<1>1. IsFiniteSet(Server) /\ Cardinality(Server) \in Nat
  BY ServerAssumption, FS_CardinalityType
<1>2. IsFiniteSet(Server \ {i}) /\ Cardinality(Server \ {i}) = Cardinality(Server) - 1
  BY <1>1, FS_RemoveElement
<1>3. QED
  BY <1>1, <1>2, FS_CardinalityType DEF Peers

\* An election starts with the candidate's own vote and no call open.
LEMMA ElectionTally ==
  ASSUME IndInv, TypeOK', TallyInv, FilesGrow, NEW i \in Server, TimerElection(i)
  PROVE  TallyInv'
<1> DEFINE n == StartElection(i, node[i])
           calls == {VoteRequest(i, n, p) : p \in Peers(i)}
<1>1. TypeOK /\ node[i] \in NodeType /\ proc[i] = "running"
  BY DEF IndInv, TypeOK, TimerElection, ElectionDue
<1>2. /\ node[i].currentTerm \in Nat /\ disk[i].term \in Nat
      /\ disk[i].term <= node[i].currentTerm
  BY <1>1, TermsInt DEF IndInv, TermOnDisk
<1>3. /\ n.currentTerm = node[i].currentTerm + 1 /\ n.votesRecieved = 1
      /\ n.state = (IF PeerCount(i, node[i]) = 0 THEN "LEADER" ELSE "CANDIDATE")
  BY <1>1 DEF StartElection, NodeType
<1>4. n \in NodeType
  BY <1>1, StartElectionTyped DEF TimerElection
<1>5. CallPeers(i, n, calls) /\ disk' = Dump(i, n)
      /\ votes' = votes \cup {[voter |-> i, term |-> n.currentTerm, candidate |-> i]}
  BY DEF TimerElection
<1>6. n.nullPeer = node[i].nullPeer
  BY <1>1 DEF StartElection, NodeType
<1> HIDE DEF n
<1>7. calls \in SUBSET CallType
  BY <1>4, VoteRequestTyped DEF Peers, CallType
<1>8. \A m \in calls : /\ m.type = "RequestVote" /\ m.src = i /\ m.term = n.currentTerm
                       /\ Caller(m) = i /\ Voter(m) = m.dst /\ m = VoteRequest(i, n, m.dst)
  BY DEF VoteRequest, Caller, Voter, IsRequest
<1>9. disk'[i].term = n.currentTerm /\ \A j \in Server \ {i} : disk'[j] = disk[j]
  BY <1>1, <1>5 DEF Dump, Record, TypeOK
<1> HIDE DEF calls
<1>10. CASE n.nullPeer
  <2>1. Die(i, "segv", rpcs \cup calls) /\ rpcs \cup calls \in SUBSET CallType
    BY <1>1, <1>5, <1>7, <1>10 DEF CallPeers, TypeOK
  <2>2. \A m \in rpcs \cup calls : VoteCall(m) /\ Caller(m) # i => m \in rpcs
    BY <1>8
  <2>3. votes \subseteq votes'
    BY <1>5
  <2>4. QED
    BY <2>1, <2>2, <2>3, DieTally
<1>11. CASE ~ n.nullPeer
  <2>1. node' = [node EXCEPT ![i] = n] /\ proc' = proc /\ rpcs' = rpcs \cup calls
    BY <1>5, <1>11 DEF CallPeers
  <2>2. node'[i] = n /\ \A j \in Server \ {i} : node'[j] = node[j]
    BY <1>1, <2>1 DEF TypeOK
  <2>3. Standing'
    <3> SUFFICES ASSUME NEW j \in Server, node'[j].state # "FOLLOWER"
                 PROVE  proc'[j] = "running" /\ disk'[j].term >= 1
      BY DEF Standing
    <3>1. CASE j = i
      BY <1>1, <1>2, <1>3, <1>9, <2>1, <3>1
    <3>2. CASE j # i
      BY <1>9, <2>1, <2>2, <3>2 DEF TallyInv, Standing
    <3>3. QED
      BY <3>1, <3>2
  <2>4. Asked'
    <3>1. \A m \in rpcs : VoteCall(m) => AskedBy(m)'
      BY <1>1, <1>5, AskedGrows DEF TallyInv, Asked, TypeOK
    <3>2. ASSUME NEW m \in calls PROVE AskedBy(m)'
      <4>1. disk'[i].term >= 1 /\ n.currentTerm \in 1 .. disk'[i].term
        BY <1>2, <1>3, <1>9
      <4>2. QED
        BY <1>8, <4>1 DEF AskedBy, Caller, IsRequest
    <3>3. QED
      BY <2>1, <3>1, <3>2 DEF Asked, VoteCall
  <2>5. n.currentTerm <= 1 => \A m \in rpcs : VoteCall(m) => Caller(m) # i
    BY <1>2, <1>3 DEF TallyInv, Asked, AskedBy
  <2>6. AskedOnce'
    <3> SUFFICES ASSUME NEW c \in rpcs', NEW d \in rpcs', VoteCall(c), VoteCall(d),
                        Caller(c) = Caller(d), Voter(c) = Voter(d), disk'[Caller(c)].term <= 1
                 PROVE  c = d
      BY DEF AskedOnce, VoteCall, Caller, Voter, IsRequest
    <3>1. c \in CallType /\ d \in CallType
      BY DEF TypeOK
    <3>2. CASE Caller(c) = i
      <4>1. c \in calls /\ d \in calls
        BY <1>9, <2>1, <2>5, <3>2
      <4>2. QED
        BY <1>8, <4>1
    <3>3. CASE Caller(c) # i
      <4>1. c \in rpcs /\ d \in rpcs
        BY <1>8, <2>1, <3>3
      <4>2. disk[Caller(c)].term <= 1
        BY <1>9, <3>1, <3>3, CallerIn
      <4>3. QED
        BY <4>1, <4>2 DEF TallyInv, AskedOnce
    <3>4. QED
      BY <3>2, <3>3
  <2>7. \A j \in Server : Arriving(j)' = Arriving(j)
    BY <1>8, <2>1 DEF Arriving
  <2>8. ASSUME NEW j \in Server, j # i PROVE TallyOf(j)'
    <3>1. Seen(j) \subseteq Seen(j)'
      BY <1>5, <2>7 DEF Seen, FirstVoters
    <3>2. node[j].currentTerm \in Nat
      BY <1>1, TermsInt
    <3>3. node'[j].currentTerm >= node[j].currentTerm
      BY <2>2, <2>8, <3>2
    <3>4. QED
      BY <2>2, <2>8, <3>1, <3>3, TallyNode DEF TallyInv
  <2>9. TallyOf(i)'
    <3> SUFFICES ASSUME n.currentTerm = 1
                 PROVE  /\ n.votesRecieved \in 1 .. Cardinality(Seen(i)')
                        /\ n.state = "LEADER" =>
                              /\ n.votesRecieved > (Cardinality(Server) - 1) \div 2
                              /\ n.votesRecieved = 1 => Cardinality(Server) = 1
      BY <2>2 DEF TallyOf
    <3>1. i \in FirstVoters(i)'
      BY <1>5 DEF FirstVoters
    <3>2. i \notin Arriving(i)
      <4>1. \A m \in rpcs : m.type = "RequestVoteReply" => Caller(m) = m.dst /\ VoteCall(m)
        BY DEF Caller, IsRequest, VoteCall
      <4>2. QED
        BY <2>5, <4>1 DEF Arriving
    <3>3. i \in Seen(i)'
      BY <2>7, <3>1, <3>2 DEF Seen
    <3>4. Cardinality(Seen(i)') \in Nat /\ Cardinality(Seen(i)') # 0
      BY <3>3, SeenFinitePrime, FS_EmptySet
    <3>5. ASSUME n.state = "LEADER" PROVE Cardinality(Server) = 1
      <4>1. PeerCount(i, node[i]) = 0
        BY <1>3, <3>5
      <4>2. Cardinality(Peers(i)) = 0
        BY <1>6, <1>11, <4>1, PeersFinite DEF PeerCount
      <4>3. QED
        BY <4>2, PeersFinite
    <3>6. QED
      BY <1>3, <3>4, <3>5
  <2>10. QED
    BY <2>3, <2>4, <2>6, <2>8, <2>9 DEF TallyInv, Tally
<1>12. QED
  BY <1>10, <1>11

\* The answer takes the place of its call.
LEMMA AnswerAsked ==
  ASSUME TypeOK, TypeOK', Asked, AskedOnce, FilesGrow, votes \subseteq votes',
         NEW m \in rpcs, m \in VoteRequestType, NEW r \in VoteReplyType,
         r.src = m.dst, r.dst = m.src, rpcs' = Answer(m, r),
         r.granted => [voter |-> m.dst, term |-> m.term, candidate |-> m.src] \in votes'
  PROVE  Asked' /\ AskedOnce'
<1>1. /\ m.type = "RequestVote" /\ r.type = "RequestVoteReply"
      /\ Caller(m) = m.src /\ Voter(m) = m.dst /\ Caller(r) = m.src /\ Voter(r) = m.dst
  BY DEF VoteRequestType, VoteReplyType, Caller, Voter, IsRequest
<1>2. /\ rpcs' \subseteq (rpcs \ {m}) \cup {r}
      /\ r \in rpcs' /\ r \notin rpcs => m.waiting
  BY DEF Answer
<1>3. \A c \in rpcs : VoteCall(c) => AskedBy(c)'
  BY AskedGrows DEF Asked, TypeOK
<1>4. m.waiting => VoteCall(m)
  BY <1>1 DEF VoteCall
<1>5. m.waiting => AskedBy(r)'
  <2> SUFFICES ASSUME m.waiting PROVE AskedBy(r)'
    OBVIOUS
  <2>1. disk'[m.src].term >= 1 /\ m.term \in 1 .. disk'[m.src].term
    BY <1>1, <1>3, <1>4 DEF AskedBy, Caller, IsRequest
  <2>2. QED
    BY <1>1, <2>1 DEF AskedBy, Caller, IsRequest
<1>6. Asked'
  <2>1. ASSUME NEW c \in rpcs', VoteCall(c) PROVE AskedBy(c)'
    <3>1. CASE c \in rpcs
      BY <1>3, <2>1, <3>1
    <3>2. CASE c \notin rpcs
      BY <1>2, <1>5, <3>2
    <3>3. QED
      BY <3>1, <3>2
  <2>2. QED
    BY <2>1 DEF Asked, VoteCall
<1>7. AskedOnce'
  <2> SUFFICES ASSUME NEW c \in rpcs', NEW d \in rpcs', VoteCall(c), VoteCall(d),
                      Caller(c) = Caller(d), Voter(c) = Voter(d), disk'[Caller(c)].term <= 1
               PROVE  c = d
    BY DEF AskedOnce, VoteCall, Caller, Voter, IsRequest
  <2> DEFINE Old(x) == IF x \in rpcs THEN x ELSE m
  <2>1. \A x \in rpcs' : /\ Old(x) \in rpcs /\ (VoteCall(x) => VoteCall(Old(x)))
                         /\ Caller(Old(x)) = Caller(x) /\ Voter(Old(x)) = Voter(x)
    BY <1>1, <1>2, <1>4
  <2>2. c \in CallType /\ Caller(c) \in Server
    BY CallerIn DEF TypeOK
  <2>3. disk[Caller(c)].term <= 1
    <3>1. /\ disk[Caller(c)].term \in Nat /\ disk'[Caller(c)].term \in Nat
          /\ disk'[Caller(c)].term >= disk[Caller(c)].term
      BY <2>2, TermsInt, BoundsAssumption DEF FilesGrow, TypeOK, Term
    <3>2. QED
      BY <3>1
  <2>4. Old(c) = Old(d)
    <3> HIDE DEF Old
    <3> QED
      BY <2>1, <2>3 DEF AskedOnce
  <2>5. QED
    BY <1>2, <2>4
<1>8. QED
  BY <1>6, <1>7

\* Answering a vote request: a vote of the first term is given and sent once.
LEMMA VoteTally ==
  ASSUME IndInv, TypeOK', TallyInv, VotesCovered, FilesGrow,
         NEW m \in rpcs, OnRequestVoteRequest(m)
  PROVE  TallyInv'
<1> DEFINE i == m.dst
           n == node[i]
           reply(g) == [type |-> "RequestVoteReply", src |-> i, dst |-> m.src,
                        term |-> n.currentTerm, granted |-> g]
           raised == [n EXCEPT !.currentTerm = m.term]
<1>1. TypeOK /\ m \in VoteRequestType /\ i \in Server /\ n \in NodeType /\ IsRequest(m)
  BY CallKinds DEF IndInv, TypeOK, OnRequestVoteRequest, VoteRequestType
<1>2. /\ m.type = "RequestVote" /\ m.src \in Server /\ m.term \in Nat
      /\ Caller(m) = m.src /\ (m.waiting => VoteCall(m))
  BY <1>1, BoundsAssumption DEF VoteRequestType, Term, VoteCall, Caller
<1>3. \A j \in Server : node[j].currentTerm \in Nat /\ disk[j].term \in Nat
  BY <1>1, TermsInt
<1>4. proc' = proc
  BY DEF OnRequestVoteRequest
<1>5. \/ rpcs' = rpcs \ {m} /\ node' = node /\ votes' = votes
      \/ rpcs' = Answer(m, reply(FALSE)) /\ node' = node /\ votes' = votes
      \/ /\ ~ (m.term <= n.currentTerm) /\ rpcs' = Answer(m, reply(FALSE))
         /\ node' = [node EXCEPT ![i] = raised] /\ votes' = votes
      \/ /\ proc[i] = "running" /\ ~ (m.term <= n.currentTerm) /\ rpcs' = Answer(m, reply(TRUE))
         /\ node' = [node EXCEPT ![i] = Grant(n, m)]
         /\ votes' = votes \cup {[voter |-> i, term |-> m.term, candidate |-> m.src]}
  BY DEF OnRequestVoteRequest, Grants, MayVote, TermNotNew
<1>6. \A g \in BOOLEAN : reply(g) \in VoteReplyType
  BY <1>1, <1>2 DEF VoteReplyType, NodeType
<1>7. ASSUME NodesQuiet, votes' = votes, rpcs' = Answer(m, reply(FALSE)) PROVE TallyInv'
  <2>1. Asked' /\ AskedOnce'
    <3> DEFINE r == reply(FALSE)
    <3>1. r \in VoteReplyType /\ r.src = m.dst /\ r.dst = m.src /\ ~ r.granted
      BY <1>6
    <3> HIDE DEF r
    <3>2. rpcs' = Answer(m, r)
      BY <1>7 DEF r
    <3>3. QED
      BY <1>1, <1>7, <3>1, <3>2, AnswerAsked DEF TallyInv
  <2>2. \A j \in Server : Arriving(j)' \subseteq Arriving(j)
    BY <1>7 DEF Arriving, Answer
  <2>3. \A j \in Server : Seen(j) \subseteq Seen(j)'
    BY <1>7, <2>2 DEF Seen, FirstVoters
  <2>4. QED
    BY <1>1, <1>7, <2>1, <2>3, StandingKept, TallyKept DEF TallyInv
<1>8. ASSUME node' = node PROVE NodesQuiet
  BY <1>3, <1>4, <1>8 DEF NodesQuiet
<1>9. CASE rpcs' = rpcs \ {m} /\ node' = node /\ votes' = votes
  BY <1>8, <1>9, QuietStep
<1>10. CASE rpcs' = Answer(m, reply(FALSE)) /\ node' = node /\ votes' = votes
  <2> HIDE DEF reply
  <2> QED
    BY <1>7, <1>8, <1>10
<1>11. CASE /\ ~ (m.term <= n.currentTerm) /\ rpcs' = Answer(m, reply(FALSE))
            /\ node' = [node EXCEPT ![i] = raised] /\ votes' = votes
  <2>1. /\ raised.state = n.state /\ raised.votesRecieved = n.votesRecieved
        /\ raised.currentTerm >= n.currentTerm
    BY <1>1, <1>2, <1>3, <1>11 DEF NodeType
  <2>2. \A j \in Server : node'[j] = IF j = i THEN raised ELSE node[j]
    BY <1>1, <1>11 DEF TypeOK
  <2> HIDE DEF raised, reply
  <2>3. NodesQuiet
    BY <1>3, <1>4, <2>1, <2>2 DEF NodesQuiet
  <2>4. QED
    BY <1>7, <1>11, <2>3
<1>12. CASE /\ proc[i] = "running" /\ ~ (m.term <= n.currentTerm) /\ rpcs' = Answer(m, reply(TRUE))
            /\ node' = [node EXCEPT ![i] = Grant(n, m)]
            /\ votes' = votes \cup {[voter |-> i, term |-> m.term, candidate |-> m.src]}
  <2>1. node'[i] = Grant(n, m) /\ \A j \in Server \ {i} : node'[j] = node[j]
    BY <1>1, <1>12 DEF TypeOK
  <2>2. /\ Grant(n, m).currentTerm = m.term
        /\ Grant(n, m).state \in {"FOLLOWER", n.state}
    BY <1>1 DEF Grant, NodeType
  <2>3. Asked' /\ AskedOnce'
    <3> DEFINE r == reply(TRUE)
    <3>1. r \in VoteReplyType /\ r.src = m.dst /\ r.dst = m.src
      BY <1>6
    <3> HIDE DEF r
    <3>2. rpcs' = Answer(m, r)
      BY <1>12 DEF r
    <3>3. QED
      BY <1>1, <1>12, <3>1, <3>2, AnswerAsked DEF TallyInv
  <2>4. Standing'
    <3> SUFFICES ASSUME NEW j \in Server, node'[j].state # "FOLLOWER"
                 PROVE  proc'[j] = "running" /\ disk'[j].term >= 1
      BY DEF Standing
    <3>1. node[j].state # "FOLLOWER"
      BY <2>1, <2>2
    <3>2. proc[j] = "running" /\ disk[j].term >= 1
      BY <3>1 DEF TallyInv, Standing
    <3>3. disk'[j].term \in Nat /\ disk'[j].term >= disk[j].term
      BY BoundsAssumption DEF FilesGrow, TypeOK, Term
    <3>4. QED
      BY <1>3, <1>4, <3>2, <3>3
  <2>5. TallyOf(i)'
    <3> SUFFICES ASSUME n.state # "FOLLOWER" PROVE m.term > 1
      BY <1>2, <2>1, <2>2 DEF TallyOf
    <3>1. disk[i].term >= 1 /\ disk[i].term <= n.currentTerm
      BY <1>1, <1>12 DEF TallyInv, Standing, IndInv, TermOnDisk
    <3>2. QED
      BY <1>1, <1>2, <1>3, <1>12, <3>1
  <2>6. ASSUME NEW j \in Server, j # i PROVE TallyOf(j)'
    <3>1. ASSUME node[j].state # "FOLLOWER", node[j].currentTerm = 1
          PROVE  Seen(j) \subseteq Seen(j)'
      <4>1. FirstVoters(j) \subseteq FirstVoters(j)'
        BY <1>12 DEF FirstVoters
      <4>2. Arriving(j)' \subseteq Arriving(j) \cup (IF m.waiting /\ j = m.src THEN {i} ELSE {})
        BY <1>12 DEF Arriving, Answer
      <4>3. m.waiting /\ j = m.src => i \notin FirstVoters(j)
        <5> SUFFICES ASSUME m.waiting, j = m.src, i \in FirstVoters(j) PROVE FALSE
          OBVIOUS
        <5>1. disk[i].term >= 1
          BY DEF FirstVoters, VotesCovered
        <5>2. disk[i].term <= n.currentTerm
          BY <1>1, <1>12 DEF IndInv, TermOnDisk
        <5>3. m.term \in 1 .. disk[j].term
          BY <1>2 DEF TallyInv, Asked, AskedBy
        <5>4. disk[j].term <= 1
          BY <3>1 DEF TallyInv, Standing, IndInv, TermOnDisk
        <5>5. QED
          BY <1>1, <1>2, <1>3, <1>12, <5>1, <5>2, <5>3, <5>4
      <4>4. QED
        BY <4>1, <4>2, <4>3 DEF Seen
    <3>2. node'[j] = node[j] /\ node'[j].currentTerm >= node[j].currentTerm
      BY <1>3, <2>1, <2>6
    <3>3. QED
      BY <3>1, <3>2, TallyNode DEF TallyInv
  <2>7. QED
    BY <2>3, <2>4, <2>5, <2>6 DEF TallyInv, Tally
<1>13. QED
  BY <1>5, <1>9, <1>10, <1>11, <1>12

\* A granted answer is counted for a voter not counted before.
LEMMA VoteReplyTally ==
  ASSUME IndInv, TypeOK', TallyInv, FilesGrow, NEW m \in rpcs, OnRequestVoteResponse(m)
  PROVE  TallyInv'
<1> DEFINE i == m.dst
           n == node[i]
           counted == CountVote(i, n)
<1>1. TypeOK /\ m \in VoteReplyType /\ m.type = "RequestVoteReply" /\ i \in Server /\ n \in NodeType
      /\ m.src \in Server
  BY CallKinds DEF IndInv, TypeOK, OnRequestVoteResponse, VoteReplyType
<1>2. \A j \in Server : node[j].currentTerm \in Nat /\ disk[j].term \in Nat
  BY <1>1, TermsInt
<1>3. proc' = proc /\ votes' = votes /\ rpcs' = rpcs \ {m}
  BY DEF OnRequestVoteResponse
<1>4. \/ node' = [node EXCEPT ![i] = StepDown(n, m)]
      \/ n.state = "CANDIDATE" /\ m.granted /\ node' = [node EXCEPT ![i] = counted]
      \/ node' = node
  BY DEF OnRequestVoteResponse, Counts
<1>5. CASE node' = [node EXCEPT ![i] = StepDown(n, m)]
  <2>1. StepDown(n, m).state = "FOLLOWER"
    BY <1>1 DEF StepDown, NodeType
  <2>2. QED
    BY <1>1, <1>3, <1>5, <2>1, OneQuiet
<1>6. CASE node' = node
  <2>1. NodesQuiet
    BY <1>2, <1>3, <1>6 DEF NodesQuiet
  <2>2. QED
    BY <1>3, <2>1, QuietStep
<1>7. CASE n.state = "CANDIDATE" /\ m.granted /\ node' = [node EXCEPT ![i] = counted]
  <2>1. node'[i] = counted /\ \A j \in Server \ {i} : node'[j] = node[j]
    BY <1>1, <1>7 DEF TypeOK
  <2>2. /\ counted.votesRecieved = n.votesRecieved + 1 /\ counted.currentTerm = n.currentTerm
        /\ counted.state = "LEADER" => WinsVote(i, n, n.votesRecieved + 1)
    BY <1>1, <1>7 DEF CountVote, NodeType
  <2>3. Asked' /\ AskedOnce'
    BY <1>1, <1>3, AskedKept DEF TallyInv
  <2>4. Standing'
    <3> SUFFICES ASSUME NEW j \in Server, node'[j].state # "FOLLOWER"
                 PROVE  proc'[j] = "running" /\ disk'[j].term >= 1
      BY DEF Standing
    <3>1. node[j].state # "FOLLOWER"
      BY <1>7, <2>1
    <3>2. proc[j] = "running" /\ disk[j].term >= 1
      BY <3>1 DEF TallyInv, Standing
    <3>3. disk'[j].term \in Nat /\ disk'[j].term >= disk[j].term
      BY BoundsAssumption DEF FilesGrow, TypeOK, Term
    <3>4. QED
      BY <1>2, <1>3, <3>2, <3>3
  <2>5. \A j \in Server : Seen(j) \subseteq Seen(j)'
    BY <1>3 DEF Seen, FirstVoters, Arriving
  <2>6. ASSUME NEW j \in Server, j # i PROVE TallyOf(j)'
    <3>1. node'[j] = node[j] /\ node'[j].currentTerm >= node[j].currentTerm
      BY <1>2, <2>1, <2>6
    <3>2. QED
      BY <2>5, <3>1, TallyNode DEF TallyInv
  <2>7. TallyOf(i)'
    <3> SUFFICES ASSUME n.currentTerm = 1
                 PROVE  /\ counted.votesRecieved \in 1 .. Cardinality(Seen(i)')
                        /\ counted.state = "LEADER" =>
                              /\ counted.votesRecieved > (Cardinality(Server) - 1) \div 2
                              /\ counted.votesRecieved = 1 => Cardinality(Server) = 1
      BY <2>1, <2>2 DEF TallyOf
    <3>1. n.votesRecieved \in 1 .. Cardinality(Seen(i))
      BY <1>1, <1>7 DEF TallyInv, Tally, TallyOf
    <3>2. VoteCall(m) /\ Caller(m) = i /\ Voter(m) = m.src
      BY <1>1 DEF VoteCall, Caller, Voter, IsRequest
    <3>3. disk[i].term <= 1
      BY <1>1, <1>7 DEF TallyInv, Standing, IndInv, TermOnDisk
    <3>4. m.src \in FirstVoters(i)
      <4>1. PICK t \in 1 .. disk[i].term : [voter |-> m.src, term |-> t, candidate |-> i] \in votes
        BY <1>1, <1>7, <3>2 DEF TallyInv, Asked, AskedBy
      <4>2. t = 1
        BY <1>1, <1>2, <3>3, <4>1
      <4>3. QED
        BY <1>1, <4>1, <4>2 DEF FirstVoters
    <3>5. m.src \in Arriving(i)
      BY <1>1, <1>7 DEF Arriving
    <3>6. m.src \notin Arriving(i)'
      <4> SUFFICES ASSUME NEW c \in rpcs, c # m, c.type = "RequestVoteReply", c.src = m.src, c.dst = i
                   PROVE  FALSE
        BY <1>3 DEF Arriving
      <4>1. VoteCall(c) /\ Caller(c) = i /\ Voter(c) = m.src
        BY DEF VoteCall, Caller, Voter, IsRequest
      <4>2. QED
        BY <3>2, <3>3, <4>1 DEF TallyInv, AskedOnce
    <3>7. Seen(i) \cup {m.src} \subseteq Seen(i)' /\ m.src \notin Seen(i)
      <4>1. m.src \in FirstVoters(i)'
        BY <1>3, <3>4 DEF FirstVoters
      <4>2. Seen(i)' = FirstVoters(i)' \ Arriving(i)'
        BY DEF Seen
      <4>3. QED
        BY <1>1, <2>5, <3>5, <3>6, <4>1, <4>2 DEF Seen
    <3>8. Cardinality(Seen(i)) + 1 <= Cardinality(Seen(i)')
      <4>1. Cardinality(Seen(i) \cup {m.src}) = Cardinality(Seen(i)) + 1
        BY <1>1, <3>7, SeenFinite, FS_AddElement
      <4>2. Cardinality(Seen(i) \cup {m.src}) <= Cardinality(Seen(i)')
        BY <1>1, <3>7, SeenFinitePrime, FS_Subset
      <4>3. QED
        BY <4>1, <4>2
    <3>9. Cardinality(Seen(i)) \in Nat /\ Cardinality(Seen(i)') \in Nat
      BY <1>1, SeenFinite, SeenFinitePrime
    <3>10. counted.votesRecieved \in 2 .. Cardinality(Seen(i)')
      BY <2>2, <3>1, <3>8, <3>9
    <3>11. ASSUME counted.state = "LEADER"
           PROVE  counted.votesRecieved > (Cardinality(Server) - 1) \div 2
      <4>1. n.votesRecieved + 1 > PeerCount(i, n) \div 2
        BY <2>2, <3>11 DEF WinsVote
      <4>2. PeerCount(i, n) \in {Cardinality(Server) - 1, Cardinality(Server)}
            /\ Cardinality(Server) \in Nat
        BY <1>1, PeersFinite DEF PeerCount
      <4>3. QED
        BY <2>2, <3>1, <4>1, <4>2
    <3>12. QED
      BY <3>9, <3>10, <3>11
  <2>8. QED
    BY <2>3, <2>4, <2>6, <2>7 DEF TallyInv, Tally
<1>8. QED
  BY <1>4, <1>5, <1>6, <1>7

\* Neither does a process that ends within Dump, if no term is lost with it.
LEMMA DumpCutTally ==
  ASSUME IndInv, TypeOK', TallyInv, FilesGrow, DumpCut
  PROVE  TallyInv'
<1>1. PICK i \in Server : \E n, calls, d : \E torn \in BOOLEAN : Dying(i, n, calls, torn, d)
  BY DumpCutParts DEF IndInv
<1>2. PICK n, calls, d : \E torn \in BOOLEAN : Dying(i, n, calls, torn, d)
  BY <1>1
<1>3. /\ calls \in SUBSET CallType /\ Left(i, calls) /\ Die(i, "down", calls)
      /\ votes' = votes
  BY <1>2 DEF Dying
<1>4. \A m \in calls : VoteCall(m) => m \in rpcs
  BY <1>3 DEF Left, FailedReply, VoteCall
<1>5. QED
  BY <1>3, <1>4, DieTally

\* Every step that loses no term keeps the tally.
LEMMA TallyStep ==
  ASSUME IndInv, IndInv', VotesCovered, TallyInv, FilesGrow, [Next]_vars
  PROVE  TallyInv'
<1>1. FilesGrow
  OBVIOUS
<1>2. TypeOK'
  BY DEF IndInv
<1>3. ASSUME NEW i \in Server, Create(i) \/ Run(i) \/ Crash(i)
      PROVE  TallyInv'
  BY <1>1, <1>2, <1>3, LifeCycleTally
<1>4. ASSUME NEW i \in Server, Timer(i)
      PROVE  TallyInv'
  BY <1>1, <1>2, <1>4, IdleTimerTally, ElectionTally DEF Timer
<1>5. ASSUME NEW i \in Server, NEW c \in Cmd, DoLog(i, c)
      PROVE  TallyInv'
  BY <1>1, <1>2, <1>5, DoLogTally
<1>6. ASSUME NEW m \in rpcs, Handle(m)
      PROVE  TallyInv'
  BY <1>1, <1>2, <1>6, VoteTally, VoteReplyTally, AppendEntriesTally, AppendReplyTally DEF Handle
<1>7. ASSUME NEW m \in rpcs, FailCall(m) \/ LoseOrphan(m)
      PROVE  TallyInv'
  BY <1>1, <1>2, <1>7, FailureTally
<1>8. CASE UNCHANGED vars
  <2>1. NodesQuiet
    BY <1>8, TermsInt DEF vars, NodesQuiet, IndInv
  <2>2. QED
    BY <1>1, <1>2, <1>8, <2>1, QuietStep DEF vars
<1>9. CASE DumpCut
  BY <1>1, <1>2, <1>9, DumpCutTally
<1>10. QED
  BY <1>3, <1>4, <1>5, <1>6, <1>7, <1>8, <1>9 DEF Next

\* At first nobody stands.
LEMMA InitTally == Init => TallyInv
  BY DEF Init, NewNode, TallyInv, Standing, Asked, AskedOnce, Tally, TallyOf

\* As long as no file has lost its term, the counts of the first election are
\* right, for any number of nodes, crashes and calls: a node that stands for the
\* first term has counted no vote twice.
FirstTally == TermsKept => TallyInv

THEOREM TallyInvariance == Spec => []FirstTally
<1>1. Init => FirstTally
  BY InitTally DEF FirstTally
<1>2. /\ IndInv /\ IndInv' /\ VotesRecorded /\ VoteOncePerTerm /\ FirstTally /\ [Next]_vars
      => FirstTally'
  <2> SUFFICES ASSUME IndInv, IndInv', VotesRecorded, VoteOncePerTerm, FirstTally, [Next]_vars,
                      TermsKept'
               PROVE  TallyInv'
    BY DEF FirstTally
  <2>1. TermsKept /\ FilesGrow
    BY NextStep, TermsKeptFiles DEF IndInv
  <2>2. VotesCovered
    BY <2>1, TermsKeptVotes DEF IndInv
  <2>3. QED
    BY <2>1, <2>2, TallyStep DEF FirstTally
<1>3. QED
  BY <1>1, <1>2, Invariance, VotesKept, PTL DEF Spec

\* Two majorities of an odd number of nodes, or of two nodes, share a voter.
LEMMA LeadersShareVoter ==
  ASSUME Cardinality(Server) % 2 = 1 \/ Cardinality(Server) = 2,
         NEW a \in Nat, NEW b \in Nat, NEW A \in SUBSET Server, NEW B \in SUBSET Server,
         a \in 1 .. Cardinality(A), b \in 1 .. Cardinality(B),
         a > (Cardinality(Server) - 1) \div 2, b > (Cardinality(Server) - 1) \div 2,
         a = 1 => Cardinality(Server) = 1, b = 1 => Cardinality(Server) = 1
  PROVE  A \cap B # {}
<1>1. IsFiniteSet(Server) /\ IsFiniteSet(A) /\ IsFiniteSet(B)
  BY ServerAssumption, FS_Subset
<1>2. /\ Cardinality(Server) \in Nat /\ Cardinality(A) \in Nat /\ Cardinality(B) \in Nat
  BY <1>1, FS_CardinalityType
<1>3. a + b > Cardinality(Server)
  <2>1. CASE Cardinality(Server) = 2
    <3>1. a >= 2 /\ b >= 2
      BY <2>1
    <3>2. QED
      BY <2>1, <3>1
  <2>2. CASE Cardinality(Server) % 2 = 1
    BY <1>2, <2>2
  <2>3. QED
    BY <2>1, <2>2
<1>4. Cardinality(A) + Cardinality(B) > Cardinality(Server)
  BY <1>2, <1>3
<1>5. QED
  BY <1>1, <1>4, FS_MajoritiesIntersect

\* As long as no file has lost its term to a crash within Dump, the count of
\* OnRequestVoteResponse lets one node win the first term, whatever other crashes,
\* lost answers and late votes there are, in a cluster of an odd number of nodes or
\* of two; in one of four, two of them can win.
THEOREM FirstLeaderUnique ==
  ASSUME Cardinality(Server) % 2 = 1 \/ Cardinality(Server) = 2
  PROVE  Spec => []FirstTermLeaderUnique
<1>1. TypeOK /\ VotesRecorded /\ VoteOncePerTerm /\ FirstTally => FirstTermLeaderUnique
  <2> SUFFICES ASSUME TypeOK, VotesRecorded, VoteOncePerTerm, FirstTally, TermsKept, NEW i \in Server, NEW j \in Server,
                      node[i].state = "LEADER", node[j].state = "LEADER",
                      node[i].currentTerm = 1, node[j].currentTerm = 1
               PROVE  i = j
    BY DEF FirstTermLeaderUnique
  <2>1. TallyOf(i) /\ TallyOf(j)
    BY DEF FirstTally, TallyInv, Tally
  <2>2. Seen(i) \in SUBSET Server /\ Seen(j) \in SUBSET Server
    BY DEF Seen, FirstVoters
  <2>3. /\ node[i].votesRecieved \in 1 .. Cardinality(Seen(i))
        /\ node[i].votesRecieved > (Cardinality(Server) - 1) \div 2
        /\ node[i].votesRecieved = 1 => Cardinality(Server) = 1
    BY <2>1 DEF TallyOf
  <2>4. /\ node[j].votesRecieved \in 1 .. Cardinality(Seen(j))
        /\ node[j].votesRecieved > (Cardinality(Server) - 1) \div 2
        /\ node[j].votesRecieved = 1 => Cardinality(Server) = 1
    BY <2>1 DEF TallyOf
  <2>5. node[i].votesRecieved \in Nat /\ node[j].votesRecieved \in Nat
    BY <2>3, <2>4, SeenFinite
  <2>6. PICK p \in Seen(i) : p \in Seen(j)
    BY <2>2, <2>3, <2>4, <2>5, LeadersShareVoter
  <2>7. /\ [voter |-> p, term |-> 1, candidate |-> i] \in votes
        /\ [voter |-> p, term |-> 1, candidate |-> j] \in votes
    BY <2>6 DEF Seen, FirstVoters
  <2>8. VotesUnique
    BY TermsKeptVotes
  <2>9. QED
    BY <2>7, <2>8 DEF VotesUnique
<1>2. QED
  BY <1>1, TypeCorrect, TallyInvariance, VotesKept, PTL

-----------------------------------------------------------------------------
(* The entries of the first term.  What a step may do to nodes, files, votes *)
(* and calls is summarised once (Changes, Calls, VotesFrom), and the         *)
(* invariants below follow from the summary.                                 *)

\* The entries in a log or in a call, and those of the first term.
In(e, logs) == \E k \in DOMAIN logs : e = logs[k]
FirstOf(logs) == {e \in {logs[k] : k \in DOMAIN logs} : e.term = 1}

\* The calls DoLog makes, and their answers.
Logging(m) == m.type \in {"AppendEntries", "AppendEntriesReply"} /\ ~ m.isHeartbeat

\* A call whose caller ended differs from what it was in waiting only.
Like(m, c) ==
    /\ m.type = c.type /\ m.src = c.src /\ m.dst = c.dst
    /\ IsRequest(c) => m.term = c.term
    /\ m.type = "AppendEntries" =>
          /\ m.isHeartbeat = c.isHeartbeat /\ m.prevLogIndex = c.prevLogIndex
          /\ m.entries = c.entries
    /\ ~ IsRequest(c) => m = c

\* Node j steps down, goes on, stands for election or wins one.
StateFrom(j, n) ==
    \/ n.state = "FOLLOWER"
    \/ n.state = node[j].state /\ n.currentTerm >= node[j].currentTerm
    \/ /\ proc[j] = "running" /\ n.currentTerm = node[j].currentTerm + 1
       /\ n.state = "LEADER" => Peers(j) = {}
    \/ /\ node[j].state = "CANDIDATE" /\ n.currentTerm = node[j].currentTerm
       /\ \E m \in rpcs : m.type = "RequestVoteReply" /\ m.granted /\ m.dst = j

\* Leader j logs a command, and ends if it finds the null peer.
LoggedBy(j, n, d) ==
    /\ proc[j] = "running" /\ Leads(j) /\ d.term = node[j].currentTerm
    /\ LastLogIndex(node[j].logs) + 1 < MaxLog
    /\ \E c \in Cmd : d.logs = Append(node[j].logs, NewEntry(node[j], c))
    /\ \/ n.state = "FOLLOWER" /\ n.logs = <<>>
       \/ /\ n.state = "LEADER" /\ n.currentTerm = node[j].currentTerm
          /\ n.logs = d.logs

\* Node j stores the entries of m.
Acceptable(j, m) ==
    /\ m.type = "AppendEntries" /\ m.dst = j /\ proc[j] = "running"
    /\ m.term >= node[j].currentTerm /\ m.entries # <<>> /\ ~ Malformed(m)
    /\ m.prevLogIndex >= BaseLogIndex(node[j].logs)
StoredBy(j, m, n, d) ==
    /\ Acceptable(j, m)
    /\ n.state = node[j].state /\ n.currentTerm = node[j].currentTerm
    /\ n.logs = Store(node[j], m) /\ d.logs = n.logs

\* Node j ends within Dump: its file has a beginning of the log it had or of the
\* one it was about to have.
Begins(s, logs) == \A k \in DOMAIN s : k \in DOMAIN logs /\ s[k] = logs[k]
CutBy(j, n, d) ==
    /\ n.state = "FOLLOWER" /\ n.logs = <<>>
    /\ \/ Begins(d.logs, node[j].logs)
       \/ \E m \in rpcs : Acceptable(j, m) /\ Begins(d.logs, Store(node[j], m))

LogsFrom(j, n, d) ==
    \/ /\ n.logs \in {node[j].logs, disk[j].logs, <<>>}
       /\ d.logs \in {node[j].logs, disk[j].logs}
       /\ n.state = "FOLLOWER" \/ n.logs = node[j].logs
    \/ LoggedBy(j, n, d)
    \/ \E m \in rpcs : StoredBy(j, m, n, d)
    \/ CutBy(j, n, d)

\* nextIndex_ follows what a peer says its last index is.
NextFrom(j, n) ==
    \/ n.nextIndex = node[j].nextIndex
    \/ n.nextIndex = [p \in Server |-> 0]
    \/ \E r \in rpcs : /\ r.type = "AppendEntriesReply" /\ Logging(r) /\ r.dst = j /\ r.ok
                       /\ n.nextIndex = [node[j].nextIndex EXCEPT ![r.src] = r.lastLogIndex + 1]

\* What DoApply pushes.
Pushed(logs, lastApplied, commitIndex) ==
    LET base  == BaseLogIndex(logs)
        first == IF lastApplied + 1 < base THEN 1 ELSE lastApplied + 2 - base
        last  == IF commitIndex - base + 1 < Len(logs) THEN commitIndex - base + 1 ELSE Len(logs)
    IN  [k \in 1 .. last - first + 1 |-> logs[first + k - 1].cmd]

SameApplied(n, o) ==
    n.commitIndex = o.commitIndex /\ n.lastApplied = o.lastApplied /\ n.channel = o.channel

\* Node n is node o after DoApply.
NowApplied(n, o) ==
    IF o.lastApplied >= n.commitIndex THEN n.lastApplied = o.lastApplied /\ n.channel = o.channel
    ELSE /\ n.lastApplied = n.commitIndex
         /\ n.channel = o.channel \o Pushed(n.logs, o.lastApplied, n.commitIndex)

\* A commit moves when a leader without peers logs, or with an acknowledgement.
AppliedFrom(j, n) ==
    \/ SameApplied(n, node[j])
    \/ n.commitIndex = -1 /\ n.lastApplied = -1 /\ n.channel = <<>>
    \/ /\ Leads(j) /\ Peers(j) = {} /\ n.currentTerm = node[j].currentTerm
       /\ n.commitIndex = LastLogIndex(n.logs) /\ n.commitIndex = LastLogIndex(node[j].logs) + 1
       /\ NowApplied(n, node[j])
    \/ \E r \in rpcs : /\ r.type = "AppendEntriesReply" /\ Logging(r) /\ r.dst = j /\ r.success
                       /\ n.logs = node[j].logs /\ n.commitIndex = r.lastLogIndex
                       /\ r.lastLogIndex > node[j].commitIndex /\ NowApplied(n, node[j])

Change(j, n, d) == StateFrom(j, n) /\ LogsFrom(j, n, d) /\ NextFrom(j, n) /\ AppliedFrom(j, n)
Changes == \A j \in Server : Change(j, node'[j], disk'[j])

\* Where a call in flight after the step comes from.
CallFrom(m) ==
    \/ \E c \in rpcs : Like(m, c)
    \/ /\ m.type = "RequestVote"
       /\ [voter |-> m.src, term |-> m.term, candidate |-> m.src] \in votes'
    \/ m.type = "RequestVoteReply"
    \/ /\ m.type \in {"AppendEntries", "AppendEntriesReply"} /\ m.isHeartbeat
       /\ m.type = "AppendEntries" => m.entries = <<>> /\ m.prevLogIndex = -1
       /\ m.type = "AppendEntriesReply" /\ m.success => m.ok
    \/ /\ m.type = "AppendEntries" /\ ~ m.isHeartbeat
       /\ LoggedBy(m.src, node'[m.src], disk'[m.src]) /\ m.term = disk'[m.src].term
       /\ m.prevLogIndex = node[m.src].nextIndex[m.dst] - 1
       /\ \A k \in DOMAIN m.entries :
             \/ m.entries[k] = NoEntry
             \/ \E q \in DOMAIN disk'[m.src].logs : m.entries[k] = disk'[m.src].logs[q]
    \/ /\ m.type = "AppendEntriesReply" /\ ~ m.isHeartbeat /\ (m.success => m.ok)
       /\ \E r \in rpcs : /\ Logging(r) /\ Caller(r) = m.dst
                          /\ m.ok => /\ IsRequest(r) /\ r.dst = m.src
                                     /\ m.lastLogIndex = LastLogIndex(node'[m.src].logs)
Calls == \A m \in rpcs' : CallFrom(m)

\* Every vote is for a candidate that voted for itself first.
VotesFrom == \A v \in votes' :
    \/ v \in votes
    \/ v.voter = v.candidate
    \/ \E m \in rpcs : m.type = "RequestVote" /\ m.src = v.candidate /\ m.term = v.term

Summary == Changes /\ Calls /\ VotesFrom

\* Nothing is a change.
LEMMA NoChange ==
  ASSUME TypeOK, NEW j \in Server
  PROVE  Change(j, node[j], disk[j])
<1>1. node[j].currentTerm >= node[j].currentTerm
  BY TermsInt
<1>2. QED
  BY <1>1 DEF Change, StateFrom, LogsFrom, NextFrom, AppliedFrom, SameApplied

\* Neither is the end of a process, which leaves what is in the file or writes
\* what is in memory.
LEMMA EndChange ==
  ASSUME NEW j \in Server, NEW d, d.logs \in {node[j].logs, disk[j].logs}
  PROVE  Change(j, NewNode, d)
  BY DEF Change, StateFrom, LogsFrom, NextFrom, AppliedFrom, NewNode

\* One node and its file change.
LEMMA OneChange ==
  ASSUME TypeOK, NEW i \in Server, NEW n, node' = [node EXCEPT ![i] = n],
         NEW d, disk' = disk \/ disk' = [disk EXCEPT ![i] = d],
         Change(i, n, disk'[i])
  PROVE  Changes
<1>1. ASSUME NEW j \in Server, j # i PROVE Change(j, node'[j], disk'[j])
  <2>1. node'[j] = node[j] /\ disk'[j] = disk[j]
    BY <1>1 DEF TypeOK
  <2>2. QED
    BY <2>1, NoChange
<1>2. node'[i] = n
  BY DEF TypeOK
<1>3. QED
  BY <1>1, <1>2 DEF Changes

\* What is left of the calls of a process that ended.
LEMMA OrphanedLike ==
  ASSUME NEW i, NEW calls \in SUBSET CallType, NEW m \in Orphaned(i, calls)
  PROVE  \E c \in calls : Like(m, c)
<1>1. PICK c \in calls : m = IF c.src = i /\ IsRequest(c) THEN [c EXCEPT !.waiting = FALSE] ELSE c
  BY DEF Orphaned
<1>2. CASE c.src = i /\ IsRequest(c)
  <2>1. m = [c EXCEPT !.waiting = FALSE]
    BY <1>1, <1>2
  <2>2. CASE c \in VoteRequestType
    BY <1>2, <2>1, <2>2 DEF Like, VoteRequestType
  <2>3. CASE c \in AppendRequestType
    BY <1>2, <2>1, <2>3 DEF Like, AppendRequestType
  <2>4. QED
    BY <1>2, <2>2, <2>3, CallKinds
<1>3. CASE ~ (c.src = i /\ IsRequest(c))
  BY <1>1, <1>3 DEF Like
<1>4. QED
  BY <1>2, <1>3

\* A call that was in flight before comes from itself.
LEMMA OldCall ==
  ASSUME NEW m \in rpcs
  PROVE  CallFrom(m)
  BY DEF CallFrom, Like

\* Where a call comes from does not depend on who still waits for it.
LEMMA LikeFrom ==
  ASSUME NEW m, NEW c, Like(m, c), CallFrom(c)
  PROVE  CallFrom(m)
<1>1. CASE \E b \in rpcs : Like(c, b)
  <2>1. PICK b \in rpcs : Like(c, b)
    BY <1>1
  <2>2. Like(m, b)
    BY <2>1 DEF Like, IsRequest
  <2>3. QED
    BY <2>2 DEF CallFrom
<1>2. CASE ~ IsRequest(c)
  BY <1>2 DEF Like
<1>3. CASE IsRequest(c) /\ ~ \E b \in rpcs : Like(c, b)
  BY <1>3 DEF CallFrom, Like, IsRequest
<1>4. QED
  BY <1>1, <1>2, <1>3

\* The end of a process.
LEMMA DieSummary ==
  ASSUME TypeOK, NEW i \in Server, NEW how, NEW calls \in SUBSET CallType, Die(i, how, calls),
         NEW d, disk' = disk \/ disk' = [disk EXCEPT ![i] = d],
         Change(i, NewNode, disk'[i]), \A m \in calls : CallFrom(m)
  PROVE  Changes /\ Calls
<1>1. Changes
  BY OneChange DEF Die
<1>2. ASSUME NEW m \in rpcs' PROVE CallFrom(m)
  <2>1. PICK c \in calls : Like(m, c)
    BY OrphanedLike DEF Die
  <2>2. QED
    BY <2>1, LikeFrom
<1>3. QED
  BY <1>1, <1>2 DEF Calls

\* The loops over the peers.
LEMMA CallPeersSummary ==
  ASSUME TypeOK, NEW i \in Server, NEW n, NEW calls \in SUBSET CallType, CallPeers(i, n, calls),
         NEW d, disk' = disk \/ disk' = [disk EXCEPT ![i] = d],
         ~ n.nullPeer => Change(i, n, disk'[i]), n.nullPeer => Change(i, NewNode, disk'[i]),
         \A m \in calls : CallFrom(m)
  PROVE  Changes /\ Calls
<1>1. rpcs \cup calls \in SUBSET CallType /\ \A m \in rpcs \cup calls : CallFrom(m)
  BY OldCall DEF TypeOK
<1>2. CASE n.nullPeer
  <2>1. Die(i, "segv", rpcs \cup calls)
    BY <1>2 DEF CallPeers
  <2>2. QED
    BY <1>1, <1>2, <2>1, DieSummary
<1>3. CASE ~ n.nullPeer
  <2>1. node' = [node EXCEPT ![i] = n] /\ rpcs' = rpcs \cup calls
    BY <1>3 DEF CallPeers
  <2>2. QED
    BY <1>1, <1>3, <2>1, OneChange DEF Calls
<1>4. QED
  BY <1>2, <1>3

\* Nothing happens to the nodes and files.
LEMMA StillSummary ==
  ASSUME TypeOK, node' = node, disk' = disk
  PROVE  Changes
  BY NoChange DEF Changes

\* Without a new vote.
LEMMA SameVotes ==
  ASSUME votes' = votes
  PROVE  VotesFrom
  BY DEF VotesFrom

\* Starting and ending processes.
LEMMA LifeCycleSummary ==
  ASSUME IndInv, TallyInv, NEW i \in Server, Create(i) \/ Run(i) \/ Crash(i)
  PROVE  Summary
<1>1. TypeOK /\ node[i] \in NodeType /\ VotesFrom /\ disk' = disk
  BY SameVotes DEF IndInv, TypeOK, Create, Run, Crash
<1>2. CASE Create(i)
  BY <1>1, <1>2, StillSummary, OldCall DEF Create, Summary, Calls
<1>3. CASE Run(i)
  <2> DEFINE n == Load(node[i], disk[i])
  <2>1. node[i].state = "FOLLOWER"
    BY <1>3 DEF Run, TallyInv, Standing
  <2>2. /\ n.state = "FOLLOWER" /\ n.logs = disk[i].logs /\ n.nextIndex = node[i].nextIndex
        /\ SameApplied(n, node[i])
    BY <1>1, <2>1 DEF Load, NodeType, SameApplied
  <2>3. node' = [node EXCEPT ![i] = n] /\ rpcs' = rpcs
    BY <1>3 DEF Run
  <2> HIDE DEF n
  <2>4. Change(i, n, disk'[i])
    BY <1>1, <2>2 DEF Change, StateFrom, LogsFrom, NextFrom, AppliedFrom
  <2>5. QED
    BY <1>1, <2>3, <2>4, OneChange, OldCall DEF Summary, Calls
<1>4. CASE Crash(i)
  <2>1. Die(i, "down", rpcs) /\ rpcs \in SUBSET CallType
    BY <1>1, <1>4 DEF Crash, TypeOK
  <2>2. Change(i, NewNode, disk'[i])
    BY <1>1, EndChange
  <2>3. QED
    BY <1>1, <2>1, <2>2, DieSummary, OldCall DEF Summary
<1>5. QED
  BY <1>2, <1>3, <1>4

\* The deadlines.
LEMMA HeartbeatSummary ==
  ASSUME IndInv, NEW i \in Server, TimerHeartbeat(i)
  PROVE  Summary
<1> DEFINE calls == {AppendRequest(i, node[i], p, TRUE) : p \in Peers(i)}
<1>1. TypeOK /\ node[i] \in NodeType /\ VotesFrom /\ disk' = disk
  BY SameVotes DEF IndInv, TypeOK, TimerHeartbeat
<1>2. calls \in SUBSET CallType
  BY <1>1, AppendRequestTyped DEF Peers, CallType
<1>3. ASSUME NEW p \in Peers(i) PROVE CallFrom(AppendRequest(i, node[i], p, TRUE))
  <2> DEFINE m == AppendRequest(i, node[i], p, TRUE)
  <2>1. m.entries = <<>> /\ m.prevLogIndex = -1 /\ m.type = "AppendEntries" /\ m.isHeartbeat
    BY DEF AppendRequest
  <2> HIDE DEF m
  <2>2. CallFrom(m)
    BY <2>1 DEF CallFrom
  <2>3. QED
    BY <2>2 DEF m
<1>4. CallPeers(i, node[i], calls) /\ \A m \in calls : CallFrom(m)
  BY <1>3 DEF TimerHeartbeat
<1> HIDE DEF calls
<1>5. Change(i, node[i], disk'[i]) /\ Change(i, NewNode, disk'[i])
  BY <1>1, NoChange, EndChange
<1>6. Changes /\ Calls
  BY <1>1, <1>2, <1>4, <1>5, CallPeersSummary
<1>7. QED
  BY <1>1, <1>6 DEF Summary

\* An election: the candidate's own vote, and one call for each peer.
LEMMA ElectionSummary ==
  ASSUME IndInv, NEW i \in Server, TimerElection(i)
  PROVE  Summary
<1> DEFINE n == StartElection(i, node[i])
           calls == {VoteRequest(i, n, p) : p \in Peers(i)}
<1>1. TypeOK /\ node[i] \in NodeType /\ proc[i] = "running"
  BY DEF IndInv, TypeOK, TimerElection, ElectionDue
<1>2. /\ n.state = IF PeerCount(i, node[i]) = 0 THEN "LEADER" ELSE "CANDIDATE"
      /\ n.currentTerm = node[i].currentTerm + 1
      /\ n.logs = node[i].logs /\ n.nextIndex = node[i].nextIndex /\ SameApplied(n, node[i])
  BY <1>1 DEF StartElection, NodeType, SameApplied
<1>3. PeerCount(i, node[i]) = 0 => Peers(i) = {}
  <2>1. IsFiniteSet(Peers(i)) /\ Cardinality(Peers(i)) \in Nat
    BY ServerAssumption, FS_Subset, PeersFinite DEF Peers
  <2>2. PeerCount(i, node[i]) = 0 => Cardinality(Peers(i)) = 0
    BY <2>1 DEF PeerCount
  <2>3. QED
    BY <2>1, <2>2, FS_EmptySet
<1>4. /\ votes' = votes \cup {[voter |-> i, term |-> n.currentTerm, candidate |-> i]}
      /\ disk' = [disk EXCEPT ![i] = [term |-> n.currentTerm, logs |-> n.logs]]
      /\ CallPeers(i, n, calls)
  BY DEF TimerElection, ElectionDue, Dump, Record
<1>5. n \in NodeType
  BY <1>1, StartElectionTyped DEF TimerElection
<1> HIDE DEF n
<1>6. disk'[i] = [term |-> n.currentTerm, logs |-> n.logs]
  BY <1>1, <1>4 DEF TypeOK
<1>7. Change(i, n, disk'[i]) /\ Change(i, NewNode, disk'[i])
  <2>1. Change(i, n, disk'[i])
    BY <1>1, <1>2, <1>3, <1>6 DEF Change, StateFrom, LogsFrom, NextFrom, AppliedFrom
  <2>2. QED
    BY <1>2, <1>6, <2>1, EndChange
<1>8. calls \in SUBSET CallType
  BY <1>5, VoteRequestTyped DEF Peers, CallType
<1>9. \A m \in calls : CallFrom(m)
  BY <1>4 DEF CallFrom, VoteRequest
<1> HIDE DEF calls
<1>10. Changes /\ Calls
  BY <1>1, <1>4, <1>7, <1>8, <1>9, CallPeersSummary
<1>11. VotesFrom
  BY <1>4 DEF VotesFrom
<1>12. QED
  BY <1>10, <1>11 DEF Summary

\* An election given up.
LEMMA ElectionFailSummary ==
  ASSUME IndInv, NEW i \in Server, TimerElectionFail(i)
  PROVE  Summary
<1> DEFINE n == [node[i] EXCEPT !.state = "FOLLOWER"]
<1>1. TypeOK /\ node[i] \in NodeType /\ VotesFrom /\ disk' = disk /\ rpcs' = rpcs
  BY SameVotes DEF IndInv, TypeOK, TimerElectionFail
<1>2. /\ n.state = "FOLLOWER" /\ n.logs = node[i].logs /\ n.nextIndex = node[i].nextIndex
      /\ SameApplied(n, node[i])
  BY <1>1 DEF NodeType, SameApplied
<1>3. node' = [node EXCEPT ![i] = n]
  BY DEF TimerElectionFail
<1> HIDE DEF n
<1>4. Change(i, n, disk'[i])
  BY <1>1, <1>2 DEF Change, StateFrom, LogsFrom, NextFrom, AppliedFrom
<1>5. QED
  BY <1>1, <1>3, <1>4, OneChange, OldCall DEF Summary, Calls

\* What a call carries is of the log it is made from.
LEMMA RequestEntries ==
  ASSUME NEW i \in Server, NEW n \in NodeType, NEW p \in Server, NEW h \in BOOLEAN
  PROVE  \A k \in DOMAIN AppendRequest(i, n, p, h).entries :
            \/ AppendRequest(i, n, p, h).entries[k] = NoEntry
            \/ \E q \in DOMAIN n.logs : AppendRequest(i, n, p, h).entries[k] = n.logs[q]
<1> DEFINE prev == IF h THEN -1 ELSE n.nextIndex[p] - 1
           size == IF h \/ LastLogIndex(n.logs) <= prev THEN 0 ELSE LastLogIndex(n.logs) - prev
           entries == [k \in 1 .. size |-> GetLogByIndex(n.logs, prev + k)]
<1>1. AppendRequest(i, n, p, h).entries = entries
  BY DEF AppendRequest
<1>2. ASSUME NEW index, GetLogByIndex(n.logs, index) # NoEntry
      PROVE  \E q \in DOMAIN n.logs : GetLogByIndex(n.logs, index) = n.logs[q]
  <2>1. index - BaseLogIndex(n.logs) \in 0 .. Len(n.logs) - 1
    BY <1>2 DEF GetLogByIndex
  <2> DEFINE pos == index - BaseLogIndex(n.logs)
  <2>2. GetLogByIndex(n.logs, index) = n.logs[pos + 1]
    BY <2>1 DEF GetLogByIndex
  <2>3. n.logs \in Seq(Entry) /\ pos \in 0 .. Len(n.logs) - 1
    BY <2>1 DEF NodeType
  <2> HIDE DEF pos
  <2>4. pos + 1 \in DOMAIN n.logs
    BY <2>3
  <2>5. QED
    BY <2>2, <2>4
<1>3. \A k \in DOMAIN entries : entries[k] = GetLogByIndex(n.logs, prev + k)
  OBVIOUS
<1> HIDE DEF entries, prev, size
<1>4. QED
  BY <1>1, <1>2, <1>3

\* What DoApply does.
LEMMA DoApplyParts ==
  ASSUME NEW n \in NodeType
  PROVE  /\ DoApply(n).logs = n.logs /\ DoApply(n).commitIndex = n.commitIndex
         /\ DoApply(n).currentTerm = n.currentTerm
         /\ NowApplied(DoApply(n), n)
<1> DEFINE pushed == Pushed(n.logs, n.lastApplied, n.commitIndex)
<1>1. CASE n.lastApplied >= n.commitIndex
  BY <1>1 DEF DoApply, NowApplied
<1>2. CASE ~ (n.lastApplied >= n.commitIndex)
  <2>1. DoApply(n) = [n EXCEPT !.lastApplied = n.commitIndex, !.channel = n.channel \o pushed]
    BY <1>2 DEF DoApply, Pushed
  <2> HIDE DEF pushed
  <2>2. /\ DoApply(n).logs = n.logs /\ DoApply(n).commitIndex = n.commitIndex
        /\ DoApply(n).currentTerm = n.currentTerm
        /\ DoApply(n).lastApplied = n.commitIndex /\ DoApply(n).channel = n.channel \o pushed
    BY <2>1 DEF NodeType
  <2>3. QED
    BY <1>2, <2>2 DEF NowApplied, pushed
<1>3. QED
  BY <1>1, <1>2

\* Without peers the new entry is committed.
LEMMA AppendOwnApplied ==
  ASSUME TypeOK, NEW i \in Server, NEW c \in Cmd, LastLogIndex(node[i].logs) + 1 < MaxLog
  PROVE  LET n == AppendOwn(i, node[i], c)
         IN  \/ SameApplied(n, node[i])
             \/ /\ Peers(i) = {} /\ n.commitIndex = LastLogIndex(n.logs)
                /\ n.commitIndex = LastLogIndex(node[i].logs) + 1 /\ NowApplied(n, node[i])
<1> DEFINE o == node[i]
           longer == [o EXCEPT !.logs = Append(@, NewEntry(o, c))]
           committed == [longer EXCEPT !.commitIndex = LastLogIndex(longer.logs)]
<1>1. o \in NodeType
  BY DEF TypeOK
<1>2. CASE PeerCount(i, o) > 0
  BY <1>1, <1>2 DEF AppendOwn, SameApplied, NodeType
<1>3. CASE ~ (PeerCount(i, o) > 0)
  <2>1. AppendOwn(i, o, c) = DoApply(committed)
    BY <1>3 DEF AppendOwn
  <2>2. Peers(i) = {}
    <3>1. IsFiniteSet(Peers(i)) /\ Cardinality(Peers(i)) \in Nat
      BY ServerAssumption, FS_Subset, PeersFinite DEF Peers
    <3>2. Cardinality(Peers(i)) = 0
      BY <1>3, <3>1 DEF PeerCount
    <3>3. QED
      BY <3>1, <3>2, FS_EmptySet
  <2>3. /\ longer.logs \in Seq(Entry) /\ longer \in NodeType
        /\ LastLogIndex(longer.logs) = LastLogIndex(o.logs) + 1
        /\ longer.lastApplied = o.lastApplied /\ longer.channel = o.channel
    <3>1. NewEntry(o, c) \in Entry
      <4>1. LastLogIndex(o.logs) \in Index
        BY <1>1, LogIndexTyped DEF NodeType
      <4>2. LastLogIndex(o.logs) + 1 \in Index
        BY <4>1, BoundsAssumption DEF Index
      <4>3. QED
        BY <1>1, <4>2 DEF NewEntry, Entry, Data, NodeType
    <3>2. o.logs \in Seq(Entry)
      BY <1>1 DEF NodeType
    <3>3. /\ Append(o.logs, NewEntry(o, c)) \in Seq(Entry)
          /\ LastLogIndex(Append(o.logs, NewEntry(o, c))) = NewEntry(o, c).index
      <4> DEFINE e == NewEntry(o, c)
                 s == o.logs
      <4> HIDE DEF e, s
      <4>1. Append(s, e) \in Seq(Entry) /\ Append(s, e) # <<>> /\ Append(s, e)[Len(Append(s, e))] = e
        BY <3>1, <3>2 DEF e, s
      <4>2. QED
        BY <4>1 DEF LastLogIndex, e, s
    <3>4. NewEntry(o, c).index = LastLogIndex(o.logs) + 1
      BY DEF NewEntry
    <3>5. QED
      BY <1>1, <3>3, <3>4 DEF NodeType
  <2> HIDE DEF longer
  <2>4. /\ committed \in NodeType /\ committed.logs = longer.logs
        /\ committed.commitIndex = LastLogIndex(longer.logs)
        /\ committed.lastApplied = o.lastApplied /\ committed.channel = o.channel
    BY <2>3, LogIndexTyped DEF NodeType
  <2> HIDE DEF committed
  <2>5. NowApplied(DoApply(committed), o)
    BY <2>4, DoApplyParts DEF NowApplied
  <2>6. QED
    BY <2>1, <2>2, <2>3, <2>4, <2>5, DoApplyParts
<1>4. QED
  BY <1>2, <1>3

\* DoLog.
LEMMA DoLogSummary ==
  ASSUME IndInv, TallyInv, NEW i \in Server, NEW c \in Cmd, DoLog(i, c)
  PROVE  Summary
<1> DEFINE n == AppendOwn(i, node[i], c)
           calls == {AppendRequest(i, n, p, FALSE) : p \in Peers(i)}
<1>1. /\ TypeOK /\ node[i] \in NodeType /\ VotesFrom /\ proc[i] = "running" /\ Leads(i)
      /\ LastLogIndex(node[i].logs) + 1 < MaxLog
  BY SameVotes DEF IndInv, TypeOK, DoLog, Logs, MayLog, Leads
<1>2. n \in NodeType
  BY <1>1, AppendOwnTyped
<1>3. /\ n.state = node[i].state /\ n.currentTerm = node[i].currentTerm
      /\ n.logs = Append(node[i].logs, NewEntry(node[i], c))
      /\ n.nextIndex = node[i].nextIndex
      /\ \/ SameApplied(n, node[i])
         \/ /\ Peers(i) = {} /\ n.commitIndex = LastLogIndex(n.logs)
            /\ n.commitIndex = LastLogIndex(node[i].logs) + 1 /\ NowApplied(n, node[i])
  <2>1. /\ n.state = node[i].state /\ n.currentTerm = node[i].currentTerm
        /\ n.logs = Append(node[i].logs, NewEntry(node[i], c))
        /\ n.nextIndex = node[i].nextIndex
    BY <1>1 DEF AppendOwn, DoApply, NodeType
  <2>2. QED
    BY <1>1, <2>1, AppendOwnApplied
<1>4. CallPeers(i, n, calls) /\ disk' = [disk EXCEPT ![i] = [term |-> n.currentTerm, logs |-> n.logs]]
  BY DEF DoLog, Logs, Dump, Record
<1> HIDE DEF n
<1>5. disk'[i] = [term |-> n.currentTerm, logs |-> n.logs]
  BY <1>1, <1>4 DEF TypeOK
<1>6. LoggedBy(i, n, disk'[i]) /\ LoggedBy(i, NewNode, disk'[i])
  BY <1>1, <1>3, <1>5 DEF LoggedBy, Leads, NewNode
<1>7. Change(i, n, disk'[i])
  <2>1. node[i].currentTerm >= node[i].currentTerm
    BY <1>1, TermsInt
  <2>2. AppliedFrom(i, n)
    BY <1>1, <1>3 DEF AppliedFrom
  <2>3. QED
    BY <1>3, <1>6, <2>1, <2>2 DEF Change, StateFrom, LogsFrom, NextFrom
<1>8. Change(i, NewNode, disk'[i])
  BY <1>6 DEF Change, StateFrom, LogsFrom, NextFrom, AppliedFrom, NewNode
<1>9. calls \in SUBSET CallType
  BY <1>2, AppendRequestTyped DEF Peers, CallType
<1>10. LoggedBy(i, node'[i], disk'[i])
  BY <1>1, <1>4, <1>6 DEF CallPeers, Die, TypeOK
<1>11. ASSUME NEW p \in Peers(i) PROVE CallFrom(AppendRequest(i, n, p, FALSE))
  <2> DEFINE m == AppendRequest(i, n, p, FALSE)
  <2>1. /\ m.type = "AppendEntries" /\ ~ m.isHeartbeat /\ m.src = i /\ m.dst = p
        /\ m.term = disk'[i].term /\ m.prevLogIndex = node[i].nextIndex[p] - 1
    BY <1>3, <1>5 DEF AppendRequest
  <2>2. \A k \in DOMAIN m.entries :
           \/ m.entries[k] = NoEntry
           \/ \E q \in DOMAIN disk'[i].logs : m.entries[k] = disk'[i].logs[q]
    <3>1. p \in Server /\ disk'[i].logs = n.logs
      BY <1>5 DEF Peers
    <3>2. \A k \in DOMAIN AppendRequest(i, n, p, FALSE).entries :
             \/ AppendRequest(i, n, p, FALSE).entries[k] = NoEntry
             \/ \E q \in DOMAIN n.logs : AppendRequest(i, n, p, FALSE).entries[k] = n.logs[q]
      BY <1>2, <3>1, RequestEntries
    <3> HIDE DEF m
    <3>3. \A k \in DOMAIN m.entries : m.entries[k] = NoEntry \/ \E q \in DOMAIN n.logs : m.entries[k] = n.logs[q]
      BY <3>2, Zenon DEF m
    <3>4. QED
      BY <3>1, <3>3
  <2> HIDE DEF m
  <2>3. CallFrom(m)
    BY <1>10, <2>1, <2>2 DEF CallFrom
  <2>4. QED
    BY <2>3 DEF m
<1>12. \A m \in calls : CallFrom(m)
  BY <1>11
<1> HIDE DEF calls
<1>13. Changes /\ Calls
  BY <1>1, <1>4, <1>7, <1>8, <1>9, <1>12, CallPeersSummary
<1>14. QED
  BY <1>1, <1>13 DEF Summary

\* An answer given, or the failed call dropped.
LEMMA AnswerCalls ==
  ASSUME NEW m, NEW reply, rpcs' = Answer(m, reply) \/ rpcs' = rpcs \ {m}, CallFrom(reply)
  PROVE  Calls
  BY OldCall DEF Answer, Calls

\* A vote, or none.
LEMMA VoteSummary ==
  ASSUME IndInv, NEW m \in rpcs, OnRequestVoteRequest(m)
  PROVE  Summary
<1> DEFINE i == m.dst
           n == node[i]
           raised == [n EXCEPT !.currentTerm = m.term]
           reply(granted) == [type |-> "RequestVoteReply", src |-> i, dst |-> m.src,
                              term |-> n.currentTerm, granted |-> granted]
<1>1. /\ TypeOK /\ m \in VoteRequestType /\ m.type = "RequestVote" /\ i \in Server
      /\ n \in NodeType
  BY CallKinds DEF IndInv, TypeOK, OnRequestVoteRequest, VoteRequestType
<1>2. Calls
  <2>1. \A granted : CallFrom(reply(granted))
    BY DEF CallFrom
  <2>2. \E granted : rpcs' = Answer(m, reply(granted)) \/ rpcs' = rpcs \ {m}
    BY DEF OnRequestVoteRequest
  <2> HIDE DEF reply
  <2>3. QED
    BY <2>1, <2>2, AnswerCalls
<1>3. VotesFrom
  <2>1. votes' = votes \/ votes' = votes \cup {[voter |-> i, term |-> m.term, candidate |-> m.src]}
    BY DEF OnRequestVoteRequest
  <2>2. QED
    BY <1>1, <2>1 DEF VotesFrom
<1>4. n.currentTerm \in Nat /\ m.term \in Nat
  BY <1>1, TermsInt, BoundsAssumption DEF VoteRequestType, Term
<1>5. CASE node' = node /\ disk' = disk
  BY <1>1, <1>2, <1>3, <1>5, StillSummary DEF Summary
<1>6. CASE ~ TermNotNew(n, m) /\ node' = [node EXCEPT ![i] = raised] /\ disk' = disk
  <2>1. raised.currentTerm >= n.currentTerm
    BY <1>1, <1>4, <1>6 DEF TermNotNew, NodeType
  <2>2. /\ raised.state = n.state /\ raised.logs = n.logs /\ raised.nextIndex = n.nextIndex
        /\ SameApplied(raised, n)
    BY <1>1 DEF NodeType, SameApplied
  <2> HIDE DEF raised
  <2>3. Change(i, raised, disk'[i])
    BY <1>6, <2>1, <2>2 DEF Change, StateFrom, LogsFrom, NextFrom, AppliedFrom
  <2>4. Changes
    BY <1>1, <1>6, <2>3, OneChange
  <2>5. QED
    BY <1>2, <1>3, <2>4 DEF Summary
<1>7. CASE ~ TermNotNew(n, m) /\ node' = [node EXCEPT ![i] = Grant(n, m)] /\ disk' = Dump(i, Grant(n, m))
  <2> DEFINE g == Grant(n, m)
  <2>1. /\ g.currentTerm = m.term /\ g.logs = n.logs /\ g.nextIndex = n.nextIndex /\ SameApplied(g, n)
        /\ g.state = "FOLLOWER" \/ g.state = n.state
    BY <1>1 DEF Grant, NodeType, SameApplied
  <2>2. g.currentTerm >= n.currentTerm
    BY <1>4, <1>7, <2>1 DEF TermNotNew
  <2> HIDE DEF g
  <2>3. /\ disk' = [disk EXCEPT ![i] = [term |-> g.currentTerm, logs |-> g.logs]]
        /\ disk'[i] = [term |-> g.currentTerm, logs |-> g.logs]
    BY <1>1, <1>7 DEF Dump, Record, g, TypeOK
  <2>4. Change(i, g, disk'[i])
    BY <2>1, <2>2, <2>3 DEF Change, StateFrom, LogsFrom, NextFrom, AppliedFrom
  <2>5. Changes
    BY <1>1, <1>7, <2>3, <2>4, OneChange DEF g
  <2>6. QED
    BY <1>2, <1>3, <2>5 DEF Summary
<1>8. QED
  BY <1>5, <1>6, <1>7 DEF OnRequestVoteRequest, Grants

\* A vote received: counted, ignored, or of a newer term.
LEMMA VoteReplySummary ==
  ASSUME IndInv, NEW m \in rpcs, OnRequestVoteResponse(m)
  PROVE  Summary
<1> DEFINE i == m.dst
           n == node[i]
           down == StepDown(n, m)
           counted == CountVote(i, n)
<1>1. TypeOK /\ m.type = "RequestVoteReply" /\ i \in Server /\ n \in NodeType
  BY CallKinds DEF IndInv, TypeOK, OnRequestVoteResponse
<1>2. Calls /\ VotesFrom
  BY OldCall, SameVotes DEF OnRequestVoteResponse, Calls
<1>3. n.currentTerm >= n.currentTerm
  BY <1>1, TermsInt
<1>4. CASE disk' = Dump(i, n) /\ node' = [node EXCEPT ![i] = down]
  <2>1. /\ down.state = "FOLLOWER" /\ down.logs = n.logs /\ down.nextIndex = n.nextIndex
        /\ SameApplied(down, n)
    BY <1>1 DEF StepDown, NodeType, SameApplied
  <2> HIDE DEF down
  <2>2. /\ disk' = [disk EXCEPT ![i] = [term |-> n.currentTerm, logs |-> n.logs]]
        /\ disk'[i] = [term |-> n.currentTerm, logs |-> n.logs]
    BY <1>1, <1>4 DEF Dump, Record, TypeOK
  <2>3. Change(i, down, disk'[i])
    BY <2>1, <2>2 DEF Change, StateFrom, LogsFrom, NextFrom, AppliedFrom
  <2>4. Changes
    BY <1>1, <1>4, <2>2, <2>3, OneChange
  <2>5. QED
    BY <1>2, <2>4 DEF Summary
<1>5. CASE /\ n.state = "CANDIDATE" /\ m.granted
           /\ node' = [node EXCEPT ![i] = counted] /\ disk' = disk
  <2>1. /\ counted.state \in {"CANDIDATE", "LEADER"} /\ counted.currentTerm = n.currentTerm
        /\ counted.logs = n.logs /\ counted.nextIndex = n.nextIndex /\ SameApplied(counted, n)
    BY <1>1, <1>5 DEF CountVote, NodeType, SameApplied
  <2> HIDE DEF counted
  <2>2. Change(i, counted, disk'[i])
    BY <1>1, <1>3, <1>5, <2>1 DEF Change, StateFrom, LogsFrom, NextFrom, AppliedFrom
  <2>3. Changes
    BY <1>1, <1>5, <2>2, OneChange
  <2>4. QED
    BY <1>2, <2>3 DEF Summary
<1>6. CASE node' = node /\ disk' = disk
  BY <1>1, <1>2, <1>6, StillSummary DEF Summary
<1>7. QED
  BY <1>4, <1>5, <1>6 DEF OnRequestVoteResponse, Counts

\* A request of a leader: refused, a heartbeat, or stored.
LEMMA AppendEntriesSummary ==
  ASSUME IndInv, NEW m \in rpcs, OnAppendEntriesRequest(m)
  PROVE  Summary
<1> DEFINE i == m.dst
           n == node[i]
           stored == [n EXCEPT !.logs = Store(n, m)]
           down == StepDown(n, m)
           reply(success, logs) ==
             [type |-> "AppendEntriesReply", src |-> i, dst |-> m.src, ok |-> TRUE,
              isHeartbeat |-> m.isHeartbeat, term |-> n.currentTerm,
              success |-> success, lastLogIndex |-> LastLogIndex(logs)]
<1>1. /\ TypeOK /\ m \in AppendRequestType /\ m.type = "AppendEntries" /\ i \in Server
      /\ n \in NodeType /\ IsRequest(m) /\ Caller(m) = m.src
  BY CallKinds DEF IndInv, TypeOK, OnAppendEntriesRequest, AppendRequestType, IsRequest, Caller
<1>2. VotesFrom /\ n.currentTerm >= n.currentTerm
  BY <1>1, SameVotes, TermsInt DEF OnAppendEntriesRequest
<1>3. ASSUME NEW success, NEW logs, rpcs' = Answer(m, reply(success, logs)), logs = node'[i].logs
      PROVE  Calls
  <2> DEFINE r == reply(success, logs)
  <2>1. /\ r.type = "AppendEntriesReply" /\ r.src = i /\ r.dst = m.src
        /\ r.isHeartbeat = m.isHeartbeat /\ r.lastLogIndex = LastLogIndex(node'[i].logs)
        /\ r.ok
    BY <1>3
  <2> HIDE DEF r
  <2>2. CallFrom(r)
    BY <1>1, <2>1 DEF CallFrom, Logging
  <2>3. QED
    BY <1>3, <2>2, AnswerCalls DEF r
<1>4. CASE node' = node /\ (disk' = disk \/ disk' = Dump(i, n)) /\ rpcs' = Answer(m, reply(FALSE, n.logs))
  <2>1. node' = [node EXCEPT ![i] = n]
    BY <1>1, <1>4 DEF TypeOK
  <2> DEFINE d == [term |-> n.currentTerm, logs |-> n.logs]
  <2>2. /\ disk' = disk \/ disk' = [disk EXCEPT ![i] = d]
        /\ disk'[i].logs \in {n.logs, disk[i].logs}
    BY <1>1, <1>4 DEF Dump, Record, TypeOK
  <2>3. Change(i, n, disk'[i])
    BY <1>2, <2>2 DEF Change, StateFrom, LogsFrom, NextFrom, AppliedFrom, SameApplied
  <2>4. Changes
    BY <1>1, <2>1, <2>2, <2>3, OneChange
  <2>5. QED
    BY <1>2, <1>3, <1>4, <2>4 DEF Summary
<1>5. CASE node' = [node EXCEPT ![i] = down] /\ disk' = disk /\ rpcs' = Answer(m, reply(FALSE, n.logs))
  <2>1. /\ down.state = "FOLLOWER" /\ down.logs = n.logs /\ down.nextIndex = n.nextIndex
        /\ SameApplied(down, n)
    BY <1>1 DEF StepDown, NodeType, SameApplied
  <2> HIDE DEF down
  <2>2. Change(i, down, disk'[i]) /\ node'[i] = down
    BY <1>1, <1>5, <2>1 DEF Change, StateFrom, LogsFrom, NextFrom, AppliedFrom, TypeOK
  <2>3. Changes
    BY <1>1, <1>5, <2>2, OneChange
  <2>4. QED
    BY <1>2, <1>3, <1>5, <2>1, <2>2, <2>3 DEF Summary
<1>6. CASE /\ proc[i] = "running" /\ m.term >= n.currentTerm /\ m.entries # <<>>
           /\ m.prevLogIndex >= BaseLogIndex(n.logs) /\ ~ Malformed(m)
           /\ node' = [node EXCEPT ![i] = stored] /\ disk' = Dump(i, stored)
           /\ rpcs' = Answer(m, reply(TRUE, stored.logs))
  <2>1. /\ stored.state = n.state /\ stored.currentTerm = n.currentTerm
        /\ stored.logs = Store(n, m) /\ stored.nextIndex = n.nextIndex /\ SameApplied(stored, n)
    BY <1>1 DEF NodeType, SameApplied
  <2> HIDE DEF stored
  <2>2. /\ disk' = [disk EXCEPT ![i] = [term |-> stored.currentTerm, logs |-> stored.logs]]
        /\ disk'[i] = [term |-> stored.currentTerm, logs |-> stored.logs]
        /\ node'[i] = stored
    BY <1>1, <1>6 DEF Dump, Record, TypeOK
  <2>3. StoredBy(i, m, stored, disk'[i])
    BY <1>1, <1>6, <2>1, <2>2 DEF StoredBy, Acceptable
  <2>4. Change(i, stored, disk'[i])
    BY <1>2, <2>1, <2>3 DEF Change, StateFrom, LogsFrom, NextFrom, AppliedFrom
  <2>5. Changes
    BY <1>1, <1>6, <2>2, <2>4, OneChange
  <2>6. QED
    BY <1>2, <1>3, <1>6, <2>2, <2>5 DEF Summary
<1>7. QED
  BY <1>4, <1>5, <1>6 DEF OnAppendEntriesRequest, Appends, Reaches, Stored

\* An answer to a request of a leader.
LEMMA AppendReplySummary ==
  ASSUME IndInv, NEW m \in rpcs, OnAppendEntriesReponse(m)
  PROVE  Summary
<1> DEFINE i == m.dst
           n == [node[i] EXCEPT !.nullPeer = @ \/ ~ m.ok]
           n2 == IF m.term > n.currentTerm THEN [n EXCEPT !.state = "FOLLOWER"] ELSE n
           n3 == Acknowledged(n2, m)
           n4 == DoApply([n3 EXCEPT !.commitIndex = m.lastLogIndex])
           Becomes(next) == node' = [node EXCEPT ![i] = next] /\ rpcs' = rpcs \ {m}
           Stays(d) == /\ d.state = "FOLLOWER" \/ d.state = node[i].state
                       /\ d.currentTerm = node[i].currentTerm /\ d.logs = node[i].logs
           Same(d) == Stays(d) /\ d.nextIndex = node[i].nextIndex /\ SameApplied(d, node[i])
           Moves(d) == Stays(d) /\ d.nextIndex = [node[i].nextIndex EXCEPT ![m.src] = m.lastLogIndex + 1]
           Acks(d) == /\ m.success /\ m.lastLogIndex > node[i].commitIndex
                      /\ d.commitIndex = m.lastLogIndex /\ NowApplied(d, node[i])
<1>1. /\ TypeOK /\ m \in AppendReplyType /\ m.type = "AppendEntriesReply" /\ i \in Server
      /\ node[i] \in NodeType
  BY CallKinds DEF IndInv, TypeOK, OnAppendEntriesReponse, AppendReplyType
<1>2. n \in NodeType /\ Same(n) /\ (~ n.nullPeer => m.ok)
  BY <1>1, AppendReplyNodesTyped DEF NodeType, SameApplied
<1>3. n2 \in NodeType /\ Same(n2)
  <2> HIDE DEF n
  <2> QED
    BY <1>1, <1>2, AppendReplyNodesTyped DEF NodeType, SameApplied
<1>4. /\ Moves(Rejected(n2, m)) /\ Moves(n3) /\ n3 \in NodeType
      /\ SameApplied(Rejected(n2, m), node[i]) /\ SameApplied(n3, node[i])
  <2> HIDE DEF n2
  <2> QED
    <3>1. n2 \in NodeType /\ n3 \in NodeType /\ node[i].nextIndex = n2.nextIndex
      BY <1>1, <1>3, AppendReplyNodesTyped
    <3>2. Moves(Rejected(n2, m)) /\ SameApplied(Rejected(n2, m), node[i])
      BY <1>3, <3>1 DEF Rejected, NodeType, SameApplied
    <3>3. Moves(n3) /\ SameApplied(n3, node[i])
      BY <1>3, <3>1 DEF Acknowledged, NodeType, SameApplied
    <3>4. QED
      BY <3>1, <3>2, <3>3
<1>5. /\ Moves(n4) /\ n4.commitIndex = m.lastLogIndex /\ NowApplied(n4, node[i])
  <2> HIDE DEF n3
  <2> DEFINE committed == [n3 EXCEPT !.commitIndex = m.lastLogIndex]
  <2>1. /\ committed \in NodeType /\ Moves(committed) /\ committed.commitIndex = m.lastLogIndex
        /\ committed.lastApplied = node[i].lastApplied /\ committed.channel = node[i].channel
    <3>1. committed \in NodeType
      BY <1>1, <1>4, AppendReplyNodesTyped
    <3>2. QED
      BY <1>4, <3>1 DEF NodeType, SameApplied
  <2> HIDE DEF committed
  <2>2. Moves(DoApply(committed))
    BY <2>1 DEF DoApply, NodeType
  <2>3. DoApply(committed).commitIndex = m.lastLogIndex /\ NowApplied(DoApply(committed), node[i])
    BY <2>1, DoApplyParts DEF NowApplied
  <2>4. QED
    BY <2>2, <2>3 DEF committed
<1>6. \/ Becomes(n) \/ Becomes(n2)
      \/ m.ok /\ ~ m.isHeartbeat /\ (Becomes(Rejected(n2, m)) \/ Becomes(n3))
      \/ /\ m.ok /\ ~ m.isHeartbeat /\ m.success /\ ~ NothingNew(n, m) /\ Becomes(n4)
      \/ Die(i, "segv", rpcs \ {m})
  <2> HIDE DEF n2, n3, n4
  <2>1. n.nullPeer \/ m.ok
    BY <1>2
  <2> HIDE DEF n
  <2>2. QED
    BY <2>1 DEF OnAppendEntriesReponse, n, n2, n3, n4
<1> DEFINE d == [term |-> n2.currentTerm, logs |-> n2.logs]
<1>7. disk' = disk \/ disk' = [disk EXCEPT ![i] = d]
  BY DEF OnAppendEntriesReponse, Dump, Record
<1> HIDE DEF n, n2, n3, n4
<1>8. disk'[i].logs \in {node[i].logs, disk[i].logs}
  BY <1>1, <1>3, <1>7 DEF TypeOK
<1>9. VotesFrom /\ node[i].currentTerm >= node[i].currentTerm
  BY <1>1, SameVotes, TermsInt DEF OnAppendEntriesReponse
<1> HIDE DEF d
<1>10. ASSUME NEW next, Becomes(next), Same(next) \/ (m.ok /\ ~ m.isHeartbeat /\ Moves(next)),
              SameApplied(next, node[i]) \/ (~ m.isHeartbeat /\ Acks(next))
       PROVE  Summary
  <2>1. NextFrom(i, next) /\ AppliedFrom(i, next)
    BY <1>1, <1>10 DEF NextFrom, AppliedFrom, Logging
  <2>2. Change(i, next, disk'[i])
    <3>1. Stays(next)
      BY <1>10
    <3>2. QED
      BY <1>8, <1>9, <2>1, <3>1 DEF Change, StateFrom, LogsFrom
  <2>3. Changes
    BY <1>1, <1>7, <1>10, <2>2, OneChange
  <2>4. QED
    BY <1>9, <1>10, <2>3, OldCall DEF Summary, Calls
<1>11. CASE Die(i, "segv", rpcs \ {m})
  <2>1. rpcs \ {m} \in SUBSET CallType /\ \A c \in rpcs \ {m} : CallFrom(c)
    BY <1>1, OldCall DEF TypeOK
  <2>2. Change(i, NewNode, disk'[i])
    BY <1>1, <1>8, EndChange
  <2>3. QED
    BY <1>1, <1>7, <1>9, <1>11, <2>1, <2>2, DieSummary DEF Summary
<1>12. CASE m.ok /\ ~ m.isHeartbeat /\ m.success /\ m.lastLogIndex > node[i].commitIndex /\ Becomes(n4)
  BY <1>5, <1>10, <1>12
<1>13. CASE Becomes(n) \/ Becomes(n2)
  BY <1>2, <1>3, <1>10, <1>13
<1>14. CASE m.ok /\ ~ m.isHeartbeat /\ (Becomes(Rejected(n2, m)) \/ Becomes(n3))
  BY <1>4, <1>10, <1>14
<1>15. ~ NothingNew(n, m) => m.lastLogIndex > node[i].commitIndex
  <2>1. n.commitIndex = node[i].commitIndex
    BY <1>2 DEF SameApplied
  <2>2. m.lastLogIndex \in Int /\ node[i].commitIndex \in Int
    BY <1>1, BoundsAssumption DEF AppendReplyType, NodeType, Index
  <2>3. QED
    BY <2>1, <2>2 DEF NothingNew
<1>16. QED
  BY <1>6, <1>11, <1>12, <1>13, <1>14, <1>15

\* Calls that fail or are lost.
LEMMA FailureSummary ==
  ASSUME IndInv, NEW m \in rpcs, FailCall(m) \/ LoseOrphan(m)
  PROVE  Summary
<1>1. TypeOK /\ Changes /\ VotesFrom
  BY StillSummary, SameVotes DEF FailCall, LoseOrphan, IndInv
<1>2. m.type \in {"AppendEntries", "AppendEntriesReply"} => CallFrom(FailedReply(m))
  BY DEF CallFrom, FailedReply, Caller, IsRequest, Logging
<1>3. Calls
  BY <1>2, OldCall DEF FailCall, LoseOrphan, Failed, Calls
<1>4. QED
  BY <1>1, <1>3 DEF Summary

\* What a leader writes when it logs.
LEMMA AppendOwnLog ==
  ASSUME NEW i \in Server, NEW n \in NodeType, NEW c \in Cmd
  PROVE  AppendOwn(i, n, c).logs = Append(n.logs, NewEntry(n, c))
  BY DEF AppendOwn, DoApply, NodeType

\* A file that was cut, unless an entry was torn.
LEMMA CutLogs ==
  ASSUME IndInv, NEW i \in Server, NEW n, Writing(i, n), NEW d \in CutShort(n)
  PROVE  LogsFrom(i, NewNode, d)
<1>1. node[i] \in NodeType /\ node[i].logs \in Seq(Entry)
  BY DEF IndInv, TypeOK, NodeType
<1>2. n \in NodeType /\ n.logs \in Seq(Entry)
  BY DEF Writing, NodeType
<1>3. /\ d.logs \in Seq(Entry)
      /\ d.logs # <<>> => /\ d.term = n.currentTerm /\ Len(d.logs) <= Len(n.logs)
                          /\ \A k \in 1 .. Len(d.logs) : d.logs[k] = n.logs[k]
  <2>1. d \in IF FALSE THEN CutTorn(n) ELSE CutShort(n)
    OBVIOUS
  <2>2. QED
    BY <1>2, <2>1, CutParts
<1>4. DOMAIN d.logs = 1 .. Len(d.logs) /\ DOMAIN n.logs = 1 .. Len(n.logs)
      /\ Len(d.logs) \in Nat /\ Len(n.logs) \in Nat
  BY <1>2, <1>3
<1>5. Begins(d.logs, n.logs)
  BY <1>3, <1>4 DEF Begins
<1>6. NewNode.state = "FOLLOWER" /\ NewNode.logs = <<>>
  BY DEF NewNode
<1>7. CASE d.logs = <<>>
  BY <1>6, <1>7 DEF LogsFrom, CutBy, Begins
<1>8. CASE n.logs = node[i].logs
  BY <1>5, <1>6, <1>8 DEF LogsFrom, CutBy
<1>9. CASE d.logs # <<>> /\ n.currentTerm = node[i].currentTerm /\ proc[i] = "running" /\ Logged(i, n)
  <2>1. PICK c \in Cmd : n = AppendOwn(i, node[i], c)
    BY <1>9 DEF Logged
  <2> DEFINE e == NewEntry(node[i], c)
             logs == node[i].logs
  <2>2. n.logs = Append(logs, e)
    BY <1>1, <2>1, AppendOwnLog
  <2> HIDE DEF e
  <2>3. Len(n.logs) = Len(logs) + 1 /\ Len(logs) \in Nat /\ DOMAIN logs = 1 .. Len(logs)
        /\ \A k \in 1 .. Len(logs) : n.logs[k] = logs[k]
    <3>1. logs \in Seq(Entry \cup {e})
      BY <1>1
    <3> HIDE DEF logs
    <3>2. QED
      BY <2>2, <3>1
  <2> HIDE DEF logs
  <2>4. CASE Len(d.logs) <= Len(logs)
    <3>1. Begins(d.logs, logs)
      BY <1>3, <1>4, <2>3, <2>4 DEF Begins
    <3>2. QED
      BY <1>6, <3>1 DEF LogsFrom, CutBy, logs
  <2>5. CASE ~ (Len(d.logs) <= Len(logs))
    <3>1. Len(d.logs) = Len(n.logs)
      BY <1>3, <1>4, <1>9, <2>3, <2>5
    <3>2. d.logs = n.logs
      BY <1>2, <1>3, <1>4, <1>9, <3>1
    <3>3. LoggedBy(i, NewNode, d)
      BY <1>3, <1>6, <1>9, <2>2, <3>2 DEF LoggedBy, Logged, Leads, e, logs
    <3>4. QED
      BY <3>3 DEF LogsFrom
  <2>6. QED
    BY <2>4, <2>5
<1>10. CASE proc[i] = "running" /\ Taken(i, n)
  <2>1. PICK m \in rpcs : Appends(m) /\ Reaches(node[i], m) /\ m.dst = i /\ n = Stored(node[i], m)
    BY <1>10 DEF Taken
  <2>2. Acceptable(i, m) /\ n.logs = Store(node[i], m)
    BY <1>1, <2>1 DEF Acceptable, Appends, Reaches, Stored, NodeType
  <2>3. QED
    BY <1>5, <1>6, <2>2 DEF LogsFrom, CutBy
<1>11. QED
  BY <1>7, <1>8, <1>9, <1>10 DEF Writing

\* A process that ends within Dump.
LEMMA DumpCutSummary ==
  ASSUME IndInv, NothingTorn', DumpCut
  PROVE  Summary
<1>1. TypeOK
  BY DEF IndInv
<1>2. PICK i \in Server : \E n, calls, d : \E torn \in BOOLEAN : Dying(i, n, calls, torn, d)
  BY <1>1, DumpCutParts
<1>3. PICK n, calls, d : \E torn \in BOOLEAN : Dying(i, n, calls, torn, d)
  BY <1>2
<1>4. PICK torn \in BOOLEAN : Dying(i, n, calls, torn, d)
  BY <1>3
<1>5. /\ Writing(i, n) /\ calls \in SUBSET CallType /\ Left(i, calls) /\ Die(i, "down", calls)
      /\ disk' = [disk EXCEPT ![i] = d] /\ disk'[i] = d
      /\ lost'[i].torn = (lost[i].torn \/ torn)
      /\ VotesFrom
  BY <1>1, <1>4, SameVotes DEF Dying, TypeOK
<1>6. d \in CutShort(n)
  BY <1>4, <1>5 DEF Dying, NothingTorn
<1>7. Change(i, NewNode, disk'[i])
  <2>1. LogsFrom(i, NewNode, disk'[i])
    BY <1>5, <1>6, CutLogs
  <2>2. QED
    BY <2>1 DEF Change, StateFrom, NextFrom, AppliedFrom, NewNode
<1>8. ASSUME NEW c \in calls PROVE CallFrom(c)
  <2>1. CASE c \in rpcs
    BY <2>1, OldCall
  <2>2. ASSUME NEW m \in rpcs, m.type = "AppendEntries", c = FailedReply(m) PROVE CallFrom(c)
    BY <2>2 DEF CallFrom, FailedReply, Caller, IsRequest, Logging
  <2>3. QED
    BY <1>5, <2>1, <2>2 DEF Left
<1>9. Changes /\ Calls
  BY <1>1, <1>5, <1>7, <1>8, DieSummary
<1>10. QED
  BY <1>5, <1>9 DEF Summary

\* Every step is as the summary says, as long as no entry is torn.
LEMMA SummaryAlways ==
  ASSUME IndInv, TallyInv, NothingTorn', [Next]_vars
  PROVE  Summary
<1>1. ASSUME NEW i \in Server, Create(i) \/ Run(i) \/ Crash(i) PROVE Summary
  BY <1>1, LifeCycleSummary
<1>2. ASSUME NEW i \in Server, Timer(i) PROVE Summary
  BY <1>2, HeartbeatSummary, ElectionSummary, ElectionFailSummary DEF Timer
<1>3. ASSUME NEW i \in Server, NEW c \in Cmd, DoLog(i, c) PROVE Summary
  BY <1>3, DoLogSummary
<1>4. ASSUME NEW m \in rpcs, Handle(m) PROVE Summary
  BY <1>4, VoteSummary, VoteReplySummary, AppendEntriesSummary, AppendReplySummary DEF Handle
<1>5. ASSUME NEW m \in rpcs, FailCall(m) \/ LoseOrphan(m) PROVE Summary
  BY <1>5, FailureSummary
<1>6. CASE DumpCut
  BY <1>6, DumpCutSummary
<1>7. CASE UNCHANGED vars
  BY <1>7, StillSummary, SameVotes, OldCall DEF vars, IndInv, Summary, Calls
<1>8. QED
  BY <1>1, <1>2, <1>3, <1>4, <1>5, <1>6, <1>7 DEF Next

-----------------------------------------------------------------------------
(* Who may lead and log: a candidate votes for itself, and another's vote    *)
(* makes it leader.                                                          *)

\* Whoever votes for a node, or is asked to, finds that it votes for itself;
\* nobody votes in term 0.
SelfVoted ==
    /\ \A v \in votes : v.term >= 1
    /\ \A v \in votes : [voter |-> v.candidate, term |-> v.term, candidate |-> v.candidate] \in votes
    /\ \A m \in rpcs : m.type = "RequestVote" =>
          [voter |-> m.src, term |-> m.term, candidate |-> m.src] \in votes

\* Another node once voted for c.
Backed(c) == Peers(c) = {} \/ \E v \in votes : v.candidate = c /\ v.voter # c

\* Only backed nodes lead and log, in a term they have written; a heartbeat
\* has no entries, and every entry of a log has an index and a command.
Whole(logs) == \A k \in DOMAIN logs : logs[k].index >= 0 /\ logs[k].cmd # NoCmd
BackInv ==
    /\ \A c \in Server : Leads(c) => Backed(c)
    /\ \A c, p \in Server : node[c].nextIndex[p] # 0 => Backed(c)
    /\ \A m \in rpcs : Logging(m) => Backed(Caller(m))
    /\ \A m \in rpcs : Logging(m) /\ IsRequest(m) => m.term <= disk[m.src].term
    /\ \A m \in rpcs : m.type = "AppendEntries" =>
          m.prevLogIndex >= -1 /\ (m.isHeartbeat => m.entries = <<>>)
    /\ \A j \in Server : Whole(node[j].logs) /\ Whole(disk[j].logs)

\* No step takes a vote back, and none that loses no term lowers one of a file.
LEMMA StepGrows ==
  ASSUME IndInv, IndInv', TermsKept', [Next]_vars
  PROVE  FilesGrow /\ votes \subseteq votes'
<1>1. FilesGrow
  BY NextStep, TermsKeptFiles DEF IndInv
<1>2. votes \subseteq votes'
  BY NextStep, LedgerStepCases DEF IndInv
<1>3. QED
  BY <1>1, <1>2

\* Candidates vote for themselves before they ask.
LEMMA SelfVotedStep ==
  ASSUME TypeOK, TypeOK', LedgerStep, votes \subseteq votes', Summary, SelfVoted
  PROVE  SelfVoted'
<1> DEFINE Self(c, t) == [voter |-> c, term |-> t, candidate |-> c]
<1>1. ASSUME NEW v \in votes' PROVE Self(v.candidate, v.term) \in votes'
  <2>1. v = [voter |-> v.voter, term |-> v.term, candidate |-> v.candidate]
    BY DEF TypeOK
  <2>2. CASE v \in votes
    BY <2>2 DEF SelfVoted
  <2>3. CASE v.voter = v.candidate
    BY <2>1, <2>3
  <2>4. CASE \E m \in rpcs : m.type = "RequestVote" /\ m.src = v.candidate /\ m.term = v.term
    BY <2>4 DEF SelfVoted
  <2>5. QED
    BY <2>2, <2>3, <2>4 DEF Summary, VotesFrom
<1>2. ASSUME NEW m \in rpcs', m.type = "RequestVote" PROVE Self(m.src, m.term) \in votes'
  <2>1. CASE \E c \in rpcs : Like(m, c)
    BY <1>2, <2>1 DEF SelfVoted, Like, IsRequest
  <2>2. CASE ~ \E c \in rpcs : Like(m, c)
    BY <1>2, <2>2 DEF Summary, Calls, CallFrom
  <2>3. QED
    BY <2>1, <2>2
<1>3. ASSUME NEW v \in votes' PROVE v.term >= 1
  <2>1. CASE v \in votes
    BY <2>1 DEF SelfVoted
  <2>2. CASE v \notin votes
    <3>1. PICK i \in Server, c \in Server :
            /\ disk[i].term < disk'[i].term
            /\ votes' = votes \cup {[voter |-> i, term |-> disk'[i].term, candidate |-> c]}
      BY <2>2, LedgerStepCases
    <3>2. v.term = disk'[i].term /\ disk[i].term \in Nat /\ disk'[i].term \in Nat
      BY <2>2, <3>1, BoundsAssumption DEF TypeOK, Term
    <3>3. QED
      BY <3>1, <3>2
  <2>3. QED
    BY <2>1, <2>2
<1>4. QED
  BY <1>1, <1>2, <1>3 DEF SelfVoted

\* What is stored is what was kept and what was sent, which comes last.
LEMMA StoreParts ==
  ASSUME NEW n \in NodeType, NEW m \in AppendRequestType, ~ Malformed(m), m.entries # <<>>
  PROVE  /\ Store(n, m) \in Seq(Entry) /\ Store(n, m) # <<>>
         /\ Len(m.entries) \in Nat \ {0} /\ DOMAIN m.entries = 1 .. Len(m.entries)
         /\ Store(n, m)[Len(Store(n, m))] = m.entries[Len(m.entries)]
         /\ \A k \in DOMAIN Store(n, m) :
               \/ \E q \in DOMAIN n.logs : Store(n, m)[k] = n.logs[q]
               \/ \E q \in DOMAIN m.entries : Store(n, m)[k] = m.entries[q]
<1> DEFINE kept == FindLog(n.logs, m.prevLogTerm, m.prevLogIndex)
           front == SubSeq(n.logs, 1, kept)
           both == front \o m.entries
<1>1. n.logs \in Seq(Entry) /\ m.entries \in Seq(Entry) /\ both \in Seq(Entry)
  BY StoreTyped DEF NodeType, AppendRequestType, Store
<1>2. kept \in 0 .. Len(n.logs) /\ kept \in Nat
  BY <1>1, FindLogIndex
<1> HIDE DEF kept
<1>3. /\ front \in Seq(Entry) /\ Len(front) = kept
      /\ \A k \in 1 .. kept : front[k] = n.logs[k]
  BY <1>1, <1>2
<1> HIDE DEF front
<1>4. Len(m.entries) \in Nat \ {0} /\ DOMAIN m.entries = 1 .. Len(m.entries)
  BY <1>1
<1>5. /\ Len(both) = kept + Len(m.entries)
      /\ \A k \in 1 .. kept : both[k] = front[k]
      /\ \A k \in 1 .. Len(m.entries) : both[kept + k] = m.entries[k]
      /\ DOMAIN both = 1 .. kept + Len(m.entries)
  <2>1. front \in Seq(Entry)
    BY <1>3
  <2>2. /\ Len(both) = Len(front) + Len(m.entries)
        /\ \A k \in 1 .. Len(front) : both[k] = front[k]
        /\ \A k \in 1 .. Len(m.entries) : both[Len(front) + k] = m.entries[k]
        /\ DOMAIN both = 1 .. Len(front) + Len(m.entries)
    BY <1>1, <2>1, Joined
  <2>3. QED
    BY <1>3, <2>2
<1> HIDE DEF both
<1>6. both # <<>> /\ both[Len(both)] = m.entries[Len(m.entries)]
  BY <1>2, <1>4, <1>5
<1>7. ASSUME NEW k \in DOMAIN both
      PROVE  \/ \E q \in DOMAIN n.logs : both[k] = n.logs[q]
             \/ \E q \in DOMAIN m.entries : both[k] = m.entries[q]
  <2>1. CASE k \in 1 .. kept
    <3>1. k \in DOMAIN n.logs
      BY <1>1, <1>2, <2>1
    <3>2. QED
      BY <1>3, <1>5, <2>1, <3>1
  <2>2. CASE k \notin 1 .. kept
    <3>1. k - kept \in 1 .. Len(m.entries) /\ kept + (k - kept) = k
      BY <1>2, <1>4, <1>5, <2>2
    <3>2. both[k] = m.entries[k - kept]
      BY <1>5, <3>1
    <3>3. QED
      BY <1>4, <3>1, <3>2
  <2>3. QED
    BY <2>1, <2>2
<1>8. Store(n, m) = both
  BY DEF Store, both, front, kept
<1>9. QED
  BY <1>1, <1>4, <1>6, <1>7, <1>8

\* The entries that are stored are numbered from prev_log_index on.
LEMMA SentIndex ==
  ASSUME IndInv, LogInv, NothingTorn, NEW m \in rpcs, m.type = "AppendEntries", ~ Malformed(m)
  PROVE  /\ m \in AppendRequestType /\ m.prevLogIndex \in Int
         /\ \A q \in DOMAIN m.entries : q \in Nat \ {0} /\ m.entries[q].index = m.prevLogIndex + q
<1>1. m \in AppendRequestType /\ m.prevLogIndex \in Int
  BY CallKinds DEF IndInv, TypeOK, AppendRequestType
<1>2. \A q \in DOMAIN m.entries : q \in Nat \ {0}
  BY <1>1 DEF AppendRequestType
<1>3. QED
  BY <1>1, <1>2 DEF LogInv, GoodCalls, Numbered, Malformed, NoEntry

\* A longer sequence.
LEMMA Appended ==
  ASSUME NEW S, NEW s \in Seq(S), NEW e \in S
  PROVE  /\ Append(s, e) \in Seq(S) /\ Len(Append(s, e)) = Len(s) + 1 /\ Len(s) \in Nat
         /\ DOMAIN s = 1 .. Len(s)
         /\ Append(s, e)[Len(s) + 1] = e
         /\ \A k \in DOMAIN Append(s, e) :
               Append(s, e)[k] = e \/ (k \in DOMAIN s /\ Append(s, e)[k] = s[k])
<1> DEFINE longer == Append(s, e)
<1>1. longer \in Seq(S) /\ Len(longer) = Len(s) + 1 /\ Len(s) \in Nat
  OBVIOUS
<1>2. longer[Len(s) + 1] = e
  OBVIOUS
<1>3. \A k \in 1 .. Len(s) : longer[k] = s[k]
  OBVIOUS
<1> HIDE DEF longer
<1>4. DOMAIN s = 1 .. Len(s) /\ DOMAIN longer = 1 .. Len(s) + 1
  BY <1>1
<1>5. ASSUME NEW k \in DOMAIN longer
      PROVE  longer[k] = e \/ (k \in DOMAIN s /\ longer[k] = s[k])
  <2>1. CASE k = Len(s) + 1
    BY <1>2, <2>1, Zenon
  <2>2. CASE k # Len(s) + 1
    <3>1. k \in 1 .. Len(s)
      BY <1>1, <1>4, <2>2
    <3>2. QED
      BY <1>3, <1>4, <3>1
  <2>3. QED
    BY <2>1, <2>2
<1>6. QED
  BY <1>1, <1>2, <1>4, <1>5 DEF longer

\* Indexes start at 0, and no entry of a log lacks its command.
LEMMA IndexesKept ==
  ASSUME IndInv, IndInv', LogInv, NothingTorn, BackInv, Summary, NEW j \in Server
  PROVE  Whole(node'[j].logs) /\ Whole(disk'[j].logs)
<1>1. node[j] \in NodeType /\ Whole(node[j].logs) /\ Whole(disk[j].logs) /\ Whole(<<>>)
  BY DEF IndInv, TypeOK, BackInv, Whole
<1>2. ASSUME NEW c \in Cmd PROVE Whole(Append(node[j].logs, NewEntry(node[j], c)))
  <2> DEFINE logs == node[j].logs
             e == NewEntry(node[j], c)
  <2>1. logs \in Seq(Entry)
    BY <1>1 DEF NodeType
  <2>2. e.index >= 0 /\ e.cmd # NoCmd
    <3>1. LastLogIndex(logs) \in Int /\ LastLogIndex(logs) >= -1
      BY <2>1, LogIndexTyped, BoundsAssumption DEF Index
    <3>2. e.index = LastLogIndex(logs) + 1 /\ e.cmd = c
      BY DEF NewEntry
    <3>3. QED
      BY <3>1, <3>2, CmdAssumption
  <2> HIDE DEF e
  <2>3. \A k \in DOMAIN Append(logs, e) : Append(logs, e)[k] = e \/ (k \in DOMAIN logs /\ Append(logs, e)[k] = logs[k])
    <3>1. logs \in Seq(Entry \cup {e})
      BY <2>1
    <3> HIDE DEF logs
    <3>2. QED
      BY <3>1, Appended
  <2>4. QED
    BY <1>1, <2>2, <2>3 DEF e, Whole
<1>3. ASSUME NEW m \in rpcs, Acceptable(j, m) PROVE Whole(Store(node[j], m))
  <2>1. /\ m.type = "AppendEntries" /\ ~ Malformed(m) /\ m.entries # <<>>
    BY <1>3 DEF Acceptable
  <2>2. /\ m \in AppendRequestType /\ m.prevLogIndex \in Int /\ m.prevLogIndex >= -1
        /\ \A q \in DOMAIN m.entries : q \in Nat \ {0} /\ m.entries[q].index = m.prevLogIndex + q
    BY <2>1, SentIndex DEF BackInv
  <2>3. \A q \in DOMAIN m.entries : m.entries[q].index >= 0 /\ m.entries[q].cmd # NoCmd
    BY <2>1, <2>2 DEF Malformed
  <2>4. \A k \in DOMAIN Store(node[j], m) :
            \/ \E q \in DOMAIN node[j].logs : Store(node[j], m)[k] = node[j].logs[q]
            \/ \E q \in DOMAIN m.entries : Store(node[j], m)[k] = m.entries[q]
    BY <1>1, <2>1, <2>2, StoreParts
  <2>5. QED
    BY <1>1, <2>3, <2>4 DEF Whole
<1>4. ASSUME NEW logs, NEW s, Whole(logs), Begins(s, logs) PROVE Whole(s)
  BY <1>4 DEF Whole, Begins
<1>5. LogsFrom(j, node'[j], disk'[j])
  BY DEF Summary, Changes, Change
<1>6. CASE LoggedBy(j, node'[j], disk'[j])
  BY <1>1, <1>2, <1>6 DEF LoggedBy
<1>7. CASE \E m \in rpcs : StoredBy(j, m, node'[j], disk'[j])
  BY <1>3, <1>7 DEF StoredBy
<1>8. CASE CutBy(j, node'[j], disk'[j])
  BY <1>1, <1>3, <1>4, <1>8 DEF CutBy
<1>9. QED
  BY <1>1, <1>5, <1>6, <1>7, <1>8 DEF LogsFrom

\* Only backed nodes lead and log.
LEMMA BackStep ==
  ASSUME IndInv, IndInv', LogInv, NothingTorn, TallyInv, BackInv, Summary, FilesGrow, votes \subseteq votes'
  PROVE  BackInv'
<1>1. \A c : Backed(c) => Backed(c)'
  BY DEF Backed, Peers
<1>2. ASSUME NEW c \in Server, Leads(c)' PROVE Backed(c)'
  <2>1. StateFrom(c, node'[c]) /\ node'[c].state = "LEADER"
    BY <1>2 DEF Summary, Changes, Change, Leads
  <2>2. CASE node[c].state = "LEADER"
    BY <1>1, <2>2 DEF BackInv, Leads
  <2>3. CASE Peers(c) = {}
    BY <2>3 DEF Backed, Peers
  <2>4. CASE \E m \in rpcs : m.type = "RequestVoteReply" /\ m.granted /\ m.dst = c
    <3>1. PICK m \in rpcs : m.type = "RequestVoteReply" /\ m.granted /\ m.dst = c
      BY <2>4
    <3>2. \E t : [voter |-> m.src, term |-> t, candidate |-> c] \in votes
      BY <3>1 DEF TallyInv, Asked, AskedBy, VoteCall
    <3>3. m.src # c
      BY <3>1 DEF LogInv, GoodCalls
    <3>4. Backed(c)
      BY <3>2, <3>3 DEF Backed
    <3>5. QED
      BY <1>1, <3>4
  <2>5. QED
    BY <2>1, <2>2, <2>3, <2>4 DEF StateFrom
<1>3. ASSUME NEW c \in Server, NEW p \in Server, node'[c].nextIndex[p] # 0 PROVE Backed(c)'
  <2>1. NextFrom(c, node'[c])
    BY DEF Summary, Changes, Change
  <2>2. CASE node'[c].nextIndex = node[c].nextIndex
    BY <1>1, <1>3, <2>2 DEF BackInv
  <2>3. CASE node'[c].nextIndex = [q \in Server |-> 0]
    BY <1>3, <2>3
  <2>4. CASE \E r \in rpcs : r.type = "AppendEntriesReply" /\ Logging(r) /\ r.dst = c
    BY <1>1, <2>4 DEF BackInv, Caller, IsRequest
  <2>5. QED
    BY <2>1, <2>2, <2>3, <2>4 DEF NextFrom
<1>4. ASSUME NEW m \in rpcs', Logging(m) PROVE Backed(Caller(m))'
  <2>1. Backed(Caller(m)) => Backed(Caller(m))'
    BY <1>1 DEF Caller, IsRequest, Backed, Peers
  <2>2. CASE \E c \in rpcs : Like(m, c)
    <3>1. PICK c \in rpcs : Like(m, c)
      BY <2>2
    <3>2. Logging(c) /\ Caller(c) = Caller(m)
      BY <1>4, <3>1 DEF Like, Logging, Caller, IsRequest
    <3>3. QED
      BY <2>1, <3>1, <3>2 DEF BackInv
  <2>3. CASE ~ \E c \in rpcs : Like(m, c)
    <3>1. \/ m.type = "AppendEntries" /\ LoggedBy(m.src, node'[m.src], disk'[m.src])
          \/ m.type = "AppendEntriesReply" /\ \E r \in rpcs : Logging(r) /\ Caller(r) = m.dst
      BY <1>4, <2>3 DEF Summary, Calls, CallFrom, Logging
    <3>2. m.src \in Server
      BY CallKinds DEF IndInv, TypeOK
    <3>3. Backed(Caller(m))
      BY <3>1, <3>2 DEF BackInv, LoggedBy, Caller, IsRequest
    <3>4. QED
      BY <2>1, <3>3
  <2>4. QED
    BY <2>2, <2>3
<1>5. ASSUME NEW m \in rpcs', Logging(m), IsRequest(m) PROVE m.term <= disk'[m.src].term
  <2>1. m.src \in Server /\ m.term \in Nat /\ m.type = "AppendEntries"
    BY <1>5, CallKinds, BoundsAssumption DEF IndInv, TypeOK, Logging, IsRequest, AppendRequestType, Term
  <2>2. disk[m.src].term \in Nat /\ disk'[m.src].term \in Nat /\ disk'[m.src].term >= disk[m.src].term
    BY <2>1, TermsInt, BoundsAssumption DEF FilesGrow, IndInv, TypeOK, Term
  <2>3. CASE \E c \in rpcs : Like(m, c)
    <3>1. PICK c \in rpcs : Like(m, c)
      BY <2>3
    <3>2. Logging(c) /\ IsRequest(c) /\ c.src = m.src /\ c.term = m.term
      BY <1>5, <3>1 DEF Like, Logging, IsRequest
    <3>3. m.term <= disk[m.src].term
      BY <3>1, <3>2 DEF BackInv
    <3>4. QED
      BY <2>1, <2>2, <3>3
  <2>4. CASE ~ \E c \in rpcs : Like(m, c)
    <3>1. m.term = disk'[m.src].term
      BY <1>5, <2>1, <2>4 DEF Summary, Calls, CallFrom, Logging
    <3>2. QED
      BY <2>2, <3>1
  <2>5. QED
    BY <2>3, <2>4
<1>6. ASSUME NEW m \in rpcs', m.type = "AppendEntries"
      PROVE  m.prevLogIndex >= -1 /\ (m.isHeartbeat => m.entries = <<>>)
  <2>1. CASE \E c \in rpcs : Like(m, c)
    BY <1>6, <2>1 DEF Like, BackInv
  <2>2. CASE ~ \E c \in rpcs : Like(m, c)
    <3>1. \/ m.isHeartbeat /\ m.entries = <<>> /\ m.prevLogIndex = -1
          \/ ~ m.isHeartbeat /\ m.prevLogIndex = node[m.src].nextIndex[m.dst] - 1
      BY <1>6, <2>2 DEF Summary, Calls, CallFrom
    <3>2. m.src \in Server /\ m.dst \in Server
      BY CallKinds DEF IndInv, TypeOK
    <3>3. node[m.src].nextIndex[m.dst] \in Nat
      BY <3>2 DEF IndInv, TypeOK, NodeType
    <3>4. QED
      BY <3>1, <3>3
  <2>3. QED
    BY <2>1, <2>2
<1>7. QED
  BY <1>2, <1>3, <1>4, <1>5, <1>6, IndexesKept DEF BackInv

\* What is known of every state, and of every step, as long as no file has lost
\* its term or a part of an entry.
Intact == TermsKept /\ NothingTorn
Known == Intact /\ IndInv /\ LogInv /\ TallyInv /\ VotesCovered /\ VotesUnique /\ SelfVoted /\ BackInv
KnownStep == Known /\ Known' /\ FilesGrow /\ votes \subseteq votes' /\ Summary

IntactKnown == Intact => Known
IntactStep == Intact' => KnownStep

\* What holds of every state anyway.
AlwaysKnown == IndInv /\ LogInv /\ FirstTally /\ VotesRecorded /\ VoteOncePerTerm
FromBacked == Intact => SelfVoted /\ BackInv

LEMMA KnownFrom == AlwaysKnown /\ FromBacked => IntactKnown
<1> SUFFICES ASSUME AlwaysKnown, FromBacked, Intact PROVE Known
  BY DEF IntactKnown
<1>1. VotesCovered /\ VotesUnique
  BY TermsKeptVotes DEF AlwaysKnown, IndInv, Intact
<1>2. QED
  BY <1>1 DEF AlwaysKnown, FromBacked, FirstTally, Intact, Known

\* A step that leaves the files intact found them intact.
LEMMA IntactBefore ==
  ASSUME IndInv, IndInv', [Next]_vars, Intact'
  PROVE  Intact
<1>1. TermsKept
  BY NextStep, TermsKeptFiles DEF IndInv, Intact
<1>2. NothingTorn
  BY LostKept DEF IndInv, Intact, TornStays
<1>3. QED
  BY <1>1, <1>2 DEF Intact

LEMMA BackedStep ==
  ASSUME AlwaysKnown, AlwaysKnown', FromBacked, [Next]_vars, Intact'
  PROVE  SelfVoted' /\ BackInv' /\ Known /\ FilesGrow /\ votes \subseteq votes' /\ Summary
<1>1. IndInv /\ IndInv' /\ LogInv
  BY DEF AlwaysKnown
<1>2. Intact
  BY <1>1, IntactBefore
<1>3. Known
  BY <1>2, KnownFrom DEF IntactKnown
<1>4. FilesGrow /\ votes \subseteq votes' /\ Summary /\ LedgerStep
  BY <1>1, <1>3, StepGrows, SummaryAlways, NextStep DEF Known, Intact
<1>5. SelfVoted'
  BY <1>1, <1>3, <1>4, SelfVotedStep DEF IndInv, Known
<1>6. BackInv'
  BY <1>1, <1>3, <1>4, BackStep DEF Known, Intact
<1>7. QED
  BY <1>3, <1>4, <1>5, <1>6

\* All of it holds as long as the files are intact.
LEMMA KnownInvariance == Spec => []IntactKnown /\ [][IntactStep]_vars
<1>1. Init => FromBacked
  BY DEF Init, FromBacked, SelfVoted, BackInv, Whole, NewNode, Leads
<1>2. AlwaysKnown /\ AlwaysKnown' /\ FromBacked /\ [Next]_vars => FromBacked'
  BY BackedStep DEF FromBacked
<1>3. AlwaysKnown /\ AlwaysKnown' /\ FromBacked /\ IntactKnown' /\ [Next]_vars => [IntactStep]_vars
  BY BackedStep DEF IntactKnown, IntactStep, KnownStep
<1>4. IndInv /\ LogInv /\ FirstTally /\ VotesRecorded /\ VoteOncePerTerm => AlwaysKnown
  BY DEF AlwaysKnown
<1>5. QED
  BY <1>1, <1>2, <1>3, <1>4, KnownFrom, Invariance, LogInvariance, TallyInvariance, VotesKept,
     PTL DEF Spec

\* Doing nothing is such a step too.
LEMMA StutterKnown == IntactKnown /\ IntactKnown' /\ [IntactStep]_vars => IntactStep
<1> SUFFICES ASSUME IntactKnown, IntactKnown', UNCHANGED vars, Intact' PROVE KnownStep
  BY DEF IntactStep
<1>1. [Next]_vars
  OBVIOUS
<1>2. Known /\ Known'
  BY DEF IntactKnown, Intact, TermsKept, NothingTorn, vars
<1>3. QED
  BY <1>1, <1>2, StepGrows, SummaryAlways DEF Known, Intact, KnownStep

-----------------------------------------------------------------------------
(* The entries of the first term.  Its leader may be overwritten while it    *)
(* goes on leading: a request with entries changes no state.  What is erased *)
(* then was on no other node, as long as the others all voted in a newer     *)
(* term, which three nodes ensure: no next index of the newer leader is      *)
(* below what the others hold of the first term.                             *)

FirstHeld(i) == FirstOf(node[i].logs) \cup FirstOf(disk[i].logs)

\* The requests a node might still accept, with their entries.
Live(m) == m.type = "AppendEntries" /\ m.term >= disk[m.dst].term
FirstSent == UNION {FirstOf(m.entries) : m \in {r \in rpcs : Live(r)}}

Around == FirstSent \cup UNION {FirstHeld(p) : p \in Server}
Others(a) == FirstSent \cup UNION {FirstHeld(p) : p \in Peers(a)}

Winner(a) == 2 * Cardinality(FirstVoters(a)) > Cardinality(Server)
LeadsFirst(a) == node[a].state = "LEADER" /\ node[a].currentTerm = 1

\* No two entries of the first term share an index, sent ones included.
OnceOnly == \A e, f \in Around : e.index = f.index => e = f

\* If there is one, the first term was won.
FirstWon == Around # {} =>
    \E b \in Server : Winner(b) /\ ~ (node[b].state = "CANDIDATE" /\ node[b].currentTerm = 1)

\* The leader of the first term is not behind any of them.
Ahead == \A a \in Server : LeadsFirst(a) => \A e \in Around : e.index <= LastLogIndex(node[a].logs)

\* What a newer leader knows of its last index covers what the others hold.
Covers(entries, last) == last = -1 \/ \A e \in entries : e.index <= last
Covered(a) ==
    /\ \A c \in Peers(a) : Covers(Others(a), node[c].nextIndex[a] - 1)
    /\ \A m \in rpcs : Logging(m) /\ IsRequest(m) /\ m.dst = a => Covers(Others(a), m.prevLogIndex)
    /\ \A m \in rpcs : Logging(m) /\ ~ IsRequest(m) /\ m.src = a /\ m.ok => Covers(Others(a), m.lastLogIndex)
AllCovered == \A a \in Server : LeadsFirst(a) => Covered(a)

OwnInv == OnceOnly /\ FirstWon /\ Ahead /\ AllCovered

\* At most three nodes.
Few == Cardinality(Server) <= 3

\* The entries of the first term are entries.
LEMMA AroundTyped ==
  ASSUME TypeOK, NEW e \in Around
  PROVE  e \in Entry /\ e.term = 1 /\ e.index \in Int
<1>1. ASSUME NEW S, NEW logs \in Seq(S), e \in FirstOf(logs) PROVE e \in S /\ e.term = 1
  BY <1>1 DEF FirstOf
<1>2. ASSUME NEW p \in Server, e \in FirstHeld(p) PROVE e \in Entry /\ e.term = 1
  BY <1>1, <1>2 DEF FirstHeld, TypeOK, NodeType
<1>3. ASSUME NEW m \in rpcs, Live(m), e \in FirstOf(m.entries) PROVE e \in Entry /\ e.term = 1
  <2>1. m.entries \in Seq(Entry)
    BY <1>3, CallKinds DEF TypeOK, Live, AppendRequestType
  <2>2. e \in Entry /\ e.term = 1
    BY <1>1, <1>3, <2>1
  <2>3. QED
    BY <2>2 DEF NoEntry
<1>4. e \in Entry /\ e.term = 1
  BY <1>2, <1>3 DEF Around, FirstSent
<1>5. QED
  BY <1>4, BoundsAssumption DEF Entry, Index

\* Majorities of the first term share a voter.
LEMMA OneWinner ==
  ASSUME VotesUnique, NEW a \in Server, NEW b \in Server, Winner(a), Winner(b)
  PROVE  a = b
<1>1. FirstVoters(a) \in SUBSET Server /\ FirstVoters(b) \in SUBSET Server
  BY DEF FirstVoters
<1>2. /\ IsFiniteSet(Server) /\ Cardinality(Server) \in Nat
      /\ Cardinality(FirstVoters(a)) \in Nat /\ Cardinality(FirstVoters(b)) \in Nat
  BY <1>1, ServerAssumption, FS_Subset, FS_CardinalityType
<1>3. Cardinality(FirstVoters(a)) + Cardinality(FirstVoters(b)) > Cardinality(Server)
  BY <1>2 DEF Winner
<1>4. FirstVoters(a) \cap FirstVoters(b) # {}
  BY <1>1, <1>2, <1>3, FS_MajoritiesIntersect
<1>5. QED
  BY <1>4 DEF FirstVoters, VotesUnique

\* The voters a leader of the first term has counted.
LEMMA LeaderVoters ==
  ASSUME TallyInv, NEW a \in Server, LeadsFirst(a)
  PROVE  /\ Cardinality(FirstVoters(a)) \in Nat /\ Cardinality(Server) \in Nat
         /\ Cardinality(FirstVoters(a)) > (Cardinality(Server) - 1) \div 2
         /\ Cardinality(FirstVoters(a)) >= 1
         /\ Cardinality(FirstVoters(a)) = 1 => Cardinality(Server) = 1
<1>1. FirstVoters(a) \in SUBSET Server /\ Seen(a) \in SUBSET FirstVoters(a)
  BY DEF FirstVoters, Seen
<1>2. /\ IsFiniteSet(Server) /\ Cardinality(Server) \in Nat
      /\ IsFiniteSet(FirstVoters(a)) /\ Cardinality(FirstVoters(a)) \in Nat
  BY <1>1, ServerAssumption, FS_Subset, FS_CardinalityType
<1>3. Cardinality(Seen(a)) \in Nat /\ Cardinality(Seen(a)) <= Cardinality(FirstVoters(a))
  BY <1>1, <1>2, SeenFinite, FS_Subset
<1>4. /\ node[a].votesRecieved \in 1 .. Cardinality(Seen(a))
      /\ node[a].votesRecieved > (Cardinality(Server) - 1) \div 2
      /\ node[a].votesRecieved = 1 => Cardinality(Server) = 1
  BY DEF TallyInv, Tally, TallyOf, LeadsFirst
<1>5. QED
  BY <1>2, <1>3, <1>4

\* Up to three nodes, it has a majority.
LEMMA LeaderIsWinner ==
  ASSUME Few, TallyInv, NEW a \in Server, LeadsFirst(a)
  PROVE  Winner(a)
<1> DEFINE v == Cardinality(FirstVoters(a))
           s == Cardinality(Server)
<1>1. v \in Nat /\ s \in Nat /\ v >= 1 /\ (v = 1 => s = 1) /\ s <= 3
  BY LeaderVoters DEF Few
<1> HIDE DEF v, s
<1>2. 2 * v > s
  BY <1>1
<1>3. QED
  BY <1>2 DEF Winner, v, s

\* A winner of the first term has written it.
LEMMA WinnerWrote ==
  ASSUME Known, NEW a \in Server, Winner(a)
  PROVE  disk[a].term >= 1
<1>1. FirstVoters(a) # {}
  <2>1. Cardinality({}) = 0 /\ Cardinality(Server) \in Nat
    BY FS_EmptySet, ServerAssumption, FS_CardinalityType
  <2>2. QED
    BY <2>1 DEF Winner
<1>2. [voter |-> a, term |-> 1, candidate |-> a] \in votes
  BY <1>1 DEF FirstVoters, Known, SelfVoted
<1>3. QED
  BY <1>2 DEF Known, VotesCovered

\* A leader of the first term has written no other.
LEMMA LeaderWrote ==
  ASSUME Known, NEW a \in Server, LeadsFirst(a)
  PROVE  disk[a].term = 1
<1>1. proc[a] = "running" /\ disk[a].term >= 1
  BY DEF Known, TallyInv, Standing, LeadsFirst
<1>2. disk[a].term <= 1 /\ disk[a].term \in Nat
  BY <1>1, TermsInt DEF Known, IndInv, TermOnDisk, LeadsFirst
<1>3. QED
  BY <1>1, <1>2

\* Besides the leader of the first term, another can only be backed by the third
\* node, in a newer term: nobody else listens to the first leader any more.
LEMMA Outvoted ==
  ASSUME Few, Known, NEW a \in Server, LeadsFirst(a), NEW c \in Peers(a), Backed(c)
  PROVE  \A p \in Peers(a) : disk[p].term >= 2
<1>1. c \in Server /\ c # a /\ Peers(c) # {}
  BY DEF Peers
<1>2. PICK v \in votes : v.candidate = c /\ v.voter # c
  BY <1>1 DEF Backed
<1> DEFINE p == v.voter
           t == v.term
<1>3. /\ p \in Server /\ p # c /\ t \in Nat /\ t >= 1
      /\ v = [voter |-> p, term |-> t, candidate |-> c]
  BY <1>2, BoundsAssumption DEF Known, IndInv, TypeOK, Term, SelfVoted
<1> HIDE DEF p, t
<1>4. /\ [voter |-> p, term |-> t, candidate |-> c] \in votes
      /\ [voter |-> c, term |-> t, candidate |-> c] \in votes
  BY <1>2, <1>3 DEF Known, SelfVoted, p, t
<1>5. disk[p].term >= t /\ disk[c].term >= t
  BY <1>4 DEF Known, VotesCovered
<1>6. IsFiniteSet(Server) /\ Cardinality(Server) \in Nat /\ Cardinality(Server) <= 3
  BY ServerAssumption, FS_CardinalityType DEF Few
<1>7. /\ IsFiniteSet(Server \ {c}) /\ Cardinality(Server \ {c}) = Cardinality(Server) - 1
      /\ IsFiniteSet((Server \ {c}) \ {p})
      /\ Cardinality((Server \ {c}) \ {p}) = Cardinality(Server) - 2
  <2>1. IsFiniteSet(Server \ {c}) /\ Cardinality(Server \ {c}) = Cardinality(Server) - 1
    BY <1>1, <1>6, FS_RemoveElement
  <2>2. p \in Server \ {c}
    BY <1>3
  <2>3. /\ IsFiniteSet((Server \ {c}) \ {p})
        /\ Cardinality((Server \ {c}) \ {p}) = Cardinality(Server \ {c}) - 1
    BY <2>1, <2>2, FS_RemoveElement
  <2>4. QED
    BY <1>6, <2>1, <2>3
<1>8. t # 1
  <2> SUFFICES ASSUME t = 1 PROVE FALSE
    OBVIOUS
  <2>1. p \notin FirstVoters(a) /\ c \notin FirstVoters(a)
    BY <1>1, <1>4 DEF FirstVoters, Known, VotesUnique
  <2>2. FirstVoters(a) \in SUBSET ((Server \ {c}) \ {p})
    BY <2>1 DEF FirstVoters
  <2>3. Cardinality(FirstVoters(a)) <= Cardinality((Server \ {c}) \ {p})
    BY <1>7, <2>2, FS_Subset
  <2>4. /\ Cardinality(FirstVoters(a)) \in Nat /\ Cardinality(FirstVoters(a)) >= 1
        /\ Cardinality(FirstVoters(a)) = 1 => Cardinality(Server) = 1
    BY LeaderVoters DEF Known
  <2>5. QED
    BY <1>6, <1>7, <2>3, <2>4
<1>9. t >= 2
  BY <1>3, <1>8
<1>10. \A q \in {p, c} : disk[q].term \in Nat /\ disk[q].term >= 2
  BY <1>1, <1>3, <1>5, <1>9, TermsInt DEF Known, IndInv
<1>11. p # a
  BY <1>10, LeaderWrote
<1>12. ASSUME NEW q \in Peers(a), q \notin {p, c} PROVE FALSE
  <2>1. a \in (Server \ {c}) \ {p} /\ q \in ((Server \ {c}) \ {p}) \ {a}
    BY <1>1, <1>11, <1>12 DEF Peers
  <2>2. /\ IsFiniteSet(((Server \ {c}) \ {p}) \ {a})
        /\ Cardinality(((Server \ {c}) \ {p}) \ {a}) = Cardinality((Server \ {c}) \ {p}) - 1
    BY <1>7, <2>1, FS_RemoveElement
  <2>3. Cardinality(((Server \ {c}) \ {p}) \ {a}) \in Nat
    BY <2>2, FS_CardinalityType
  <2>4. Cardinality(((Server \ {c}) \ {p}) \ {a}) = 0
    BY <1>6, <1>7, <2>2, <2>3
  <2>5. QED
    BY <2>1, <2>2, <2>4, FS_EmptySet
<1>13. QED
  BY <1>10, <1>12

-----------------------------------------------------------------------------
(* Where the entries of the first term come from.                            *)

\* The leader of the first term logs one more.
Newest(a) == disk'[a].logs[Len(disk'[a].logs)]
Adds(a) == LeadsFirst(a) /\ LoggedBy(a, node'[a], disk'[a])

\* What was logged comes last.
LEMMA LoggedLast ==
  ASSUME KnownStep, NEW j \in Server, LoggedBy(j, node'[j], disk'[j])
  PROVE  /\ Newest(j).index = LastLogIndex(node[j].logs) + 1
         /\ Newest(j).term = node[j].currentTerm
         /\ LastLogIndex(disk'[j].logs) = Newest(j).index
         /\ \A k \in DOMAIN disk'[j].logs :
               \/ disk'[j].logs[k] = Newest(j)
               \/ \E q \in DOMAIN node[j].logs : disk'[j].logs[k] = node[j].logs[q]
<1>1. PICK c \in Cmd : disk'[j].logs = Append(node[j].logs, NewEntry(node[j], c))
  BY DEF LoggedBy
<1> DEFINE e == NewEntry(node[j], c)
           logs == node[j].logs
           longer == disk'[j].logs
<1>2. e.index = LastLogIndex(logs) + 1 /\ e.term = node[j].currentTerm
  BY DEF NewEntry
<1>3. logs \in Seq(Entry \cup {e})
  BY DEF KnownStep, Known, IndInv, TypeOK, NodeType
<1>4. longer = Append(logs, e)
  BY <1>1
<1> HIDE DEF e, logs
<1>5. /\ Len(longer) = Len(logs) + 1 /\ Len(logs) \in Nat
      /\ longer[Len(logs) + 1] = e
      /\ \A k \in DOMAIN longer : longer[k] = e \/ (k \in DOMAIN logs /\ longer[k] = logs[k])
  BY <1>3, <1>4, Appended
<1>6. longer # <<>>
  BY <1>3, <1>4
<1> HIDE DEF longer
<1>7. longer[Len(longer)] = e /\ LastLogIndex(longer) = e.index
  BY <1>5, <1>6 DEF LastLogIndex
<1>8. QED
  BY <1>2, <1>5, <1>7 DEF Newest, logs, longer

\* A node holds what it held, what it was sent and what it logs.
LEMMA HeldFrom ==
  ASSUME KnownStep, NEW j \in Server, NEW e \in FirstHeld(j)'
  PROVE  e \in FirstHeld(j) \/ e \in FirstSent \/ (Adds(j) /\ e = Newest(j))
<1>1. LogsFrom(j, node'[j], disk'[j])
  BY DEF KnownStep, Summary, Changes, Change
<1>2. e.term = 1 /\ \/ \E k \in DOMAIN node'[j].logs : e = node'[j].logs[k]
                    \/ \E k \in DOMAIN disk'[j].logs : e = disk'[j].logs[k]
  BY DEF FirstHeld, FirstOf
<1>3. ASSUME LoggedBy(j, node'[j], disk'[j])
      PROVE  e \in FirstHeld(j) \/ (Adds(j) /\ e = Newest(j))
  <2>1. \E k \in DOMAIN disk'[j].logs : e = disk'[j].logs[k]
    <3>1. node'[j].logs \in {<<>>, disk'[j].logs} /\ DOMAIN <<>> = {}
      BY <1>3 DEF LoggedBy
    <3>2. QED
      BY <1>2, <3>1
  <2>2. \/ e = Newest(j)
        \/ \E q \in DOMAIN node[j].logs : e = node[j].logs[q]
    BY <1>3, <2>1, LoggedLast
  <2>3. e = Newest(j) => LeadsFirst(j)
    BY <1>2, <1>3, LoggedLast DEF LoggedBy, Leads, LeadsFirst
  <2>4. QED
    BY <1>2, <1>3, <2>2, <2>3 DEF Adds, FirstHeld, FirstOf
<1>4. ASSUME NEW m \in rpcs, Acceptable(j, m), In(e, Store(node[j], m))
      PROVE  e \in FirstHeld(j) \/ e \in FirstSent
  <2>1. /\ m.type = "AppendEntries" /\ m.dst = j /\ proc[j] = "running" /\ ~ Malformed(m)
        /\ m.term >= node[j].currentTerm /\ m.entries # <<>>
    BY <1>4 DEF Acceptable
  <2>2. m \in AppendRequestType /\ m.term \in Nat /\ node[j] \in NodeType
    BY <2>1, CallKinds, BoundsAssumption
       DEF KnownStep, Known, IndInv, TypeOK, AppendRequestType, Term
  <2>3. \E k \in DOMAIN Store(node[j], m) : e = Store(node[j], m)[k]
    BY <1>4 DEF In
  <2>4. \/ \E q \in DOMAIN node[j].logs : e = node[j].logs[q]
        \/ \E q \in DOMAIN m.entries : e = m.entries[q]
    BY <2>1, <2>2, <2>3, StoreParts
  <2>5. Live(m)
    <3>1. disk[j].term <= node[j].currentTerm /\ disk[j].term \in Nat /\ node[j].currentTerm \in Nat
      BY <2>1, TermsInt DEF KnownStep, Known, IndInv, TermOnDisk
    <3>2. m.term >= disk[m.dst].term
      BY <2>1, <2>2, <3>1
    <3>3. QED
      BY <2>1, <3>2 DEF Live
  <2>6. QED
    BY <1>2, <2>4, <2>5 DEF FirstHeld, FirstSent, FirstOf
<1>5. CASE /\ node'[j].logs \in {node[j].logs, disk[j].logs, <<>>}
           /\ disk'[j].logs \in {node[j].logs, disk[j].logs}
  BY <1>2, <1>5 DEF FirstHeld, FirstOf
<1>6. CASE CutBy(j, node'[j], disk'[j]) /\ Begins(disk'[j].logs, node[j].logs)
  BY <1>2, <1>6 DEF CutBy, Begins, FirstHeld, FirstOf
<1>7. ASSUME CutBy(j, node'[j], disk'[j]),
             NEW m \in rpcs, Acceptable(j, m), Begins(disk'[j].logs, Store(node[j], m))
      PROVE  e \in FirstHeld(j) \/ e \in FirstSent
  <2>1. \E k \in DOMAIN disk'[j].logs : e = disk'[j].logs[k]
    BY <1>2, <1>7 DEF CutBy
  <2>2. In(e, Store(node[j], m))
    BY <1>7, <2>1 DEF Begins, In
  <2>3. QED
    BY <1>4, <1>7, <2>2
<1>8. CASE \E m \in rpcs : StoredBy(j, m, node'[j], disk'[j])
  BY <1>2, <1>4, <1>8 DEF StoredBy, In
<1>9. CASE CutBy(j, node'[j], disk'[j])
  BY <1>6, <1>7, <1>9 DEF CutBy
<1>10. QED
  BY <1>1, <1>3, <1>5, <1>8, <1>9 DEF LogsFrom

\* What is sent was sent before or is in the file of a node that logs.
LEMMA SentFrom ==
  ASSUME KnownStep, NEW e \in FirstSent', e \notin FirstSent
  PROVE  \E s, p \in Server : /\ p # s /\ LoggedBy(s, node'[s], disk'[s])
                              /\ node[s].currentTerm >= disk'[p].term
                              /\ e \in FirstHeld(s)'
<1>1. PICK m \in rpcs' : Live(m)' /\ e \in FirstOf(m.entries)
  BY DEF FirstSent
<1>2. /\ m.type = "AppendEntries" /\ m.term >= disk'[m.dst].term
      /\ m.src \in Server /\ m.dst \in Server /\ m.term \in Nat
  BY <1>1, CallKinds, BoundsAssumption
     DEF Live, KnownStep, Known, IndInv, TypeOK, AppendRequestType, Term
<1>3. ~ \E c \in rpcs : Like(m, c)
  <2> SUFFICES ASSUME NEW c \in rpcs, Like(m, c) PROVE FALSE
    OBVIOUS
  <2>1. c.type = "AppendEntries" /\ c.dst = m.dst /\ c.term = m.term /\ c.entries = m.entries
    BY <1>2 DEF Like, IsRequest
  <2>2. disk'[m.dst].term >= disk[m.dst].term /\ disk[m.dst].term \in Nat /\ disk'[m.dst].term \in Nat
    BY <1>2, TermsInt, BoundsAssumption DEF KnownStep, Known, FilesGrow, IndInv, TypeOK, Term
  <2>3. Live(c)
    BY <1>2, <2>1, <2>2 DEF Live
  <2>4. QED
    BY <1>1, <2>1, <2>3 DEF FirstSent
<1>4. m.entries # <<>>
  BY <1>1 DEF FirstOf
<1>5. /\ LoggedBy(m.src, node'[m.src], disk'[m.src]) /\ m.term = disk'[m.src].term
      /\ e \in FirstOf(disk'[m.src].logs)
  <2>1. /\ LoggedBy(m.src, node'[m.src], disk'[m.src]) /\ m.term = disk'[m.src].term
        /\ \A k \in DOMAIN m.entries :
              \/ m.entries[k] = NoEntry
              \/ \E q \in DOMAIN disk'[m.src].logs : m.entries[k] = disk'[m.src].logs[q]
    BY <1>2, <1>3, <1>4 DEF KnownStep, Summary, Calls, CallFrom
  <2>2. e.term = 1 /\ e # NoEntry /\ \E k \in DOMAIN m.entries : e = m.entries[k]
    BY <1>1 DEF FirstOf, NoEntry
  <2>3. QED
    BY <2>1, <2>2 DEF FirstOf
<1>6. m.src # m.dst
  BY DEF KnownStep, Known, LogInv, GoodCalls
<1>7. m.term = node[m.src].currentTerm
  BY <1>5 DEF LoggedBy
<1>8. QED
  BY <1>1, <1>2, <1>5, <1>6, <1>7 DEF FirstHeld

\* Only the leader of the first term makes new ones.
LEMMA AroundFrom ==
  ASSUME KnownStep, NEW e \in Around', e \notin Around
  PROVE  \E a \in Server : Adds(a) /\ e = Newest(a)
<1>1. \E j \in Server : e \in FirstHeld(j)'
  BY SentFrom DEF Around
<1>2. QED
  BY <1>1, HeldFrom DEF Around

-----------------------------------------------------------------------------
(* Up to three nodes, the invariant is kept.                                 *)

LeadersWon == \A a \in Server : LeadsFirst(a) => Winner(a)
WinnerUnique == \A a, b \in Server : Winner(a) /\ Winner(b) => a = b

LEMMA WonNow == Few /\ Known => LeadersWon /\ WinnerUnique
  BY LeaderIsWinner, OneWinner DEF LeadersWon, WinnerUnique, Known

LEMMA WonThen == Few /\ Few' /\ Known' => LeadersWon' /\ WinnerUnique'
  BY WonNow, PTL

\* Whoever won stays the only winner, who leads has won, before and after a step.
LEMMA Winners ==
  ASSUME Few, KnownStep
  PROVE  /\ LeadersWon /\ WinnerUnique /\ LeadersWon' /\ WinnerUnique'
         /\ \A b \in Server : Winner(b) => Winner(b)'
<1>1. Few'
  BY DEF Few
<1>2. LeadersWon /\ WinnerUnique /\ LeadersWon' /\ WinnerUnique'
  BY <1>1, WonNow, WonThen DEF KnownStep
<1>3. ASSUME NEW b \in Server, Winner(b) PROVE Winner(b)'
  <2>1. FirstVoters(b) \in SUBSET FirstVoters(b)' /\ FirstVoters(b)' \in SUBSET Server
    BY DEF FirstVoters, KnownStep
  <2>2. IsFiniteSet(FirstVoters(b)')
    BY <2>1, ServerAssumption, FS_Subset
  <2>3. /\ Cardinality(FirstVoters(b)) <= Cardinality(FirstVoters(b)')
        /\ Cardinality(FirstVoters(b)) \in Nat /\ Cardinality(FirstVoters(b)') \in Nat
        /\ Cardinality(Server) \in Nat
    BY <2>1, <2>2, ServerAssumption, FS_Subset, FS_CardinalityType
  <2> DEFINE was == Cardinality(FirstVoters(b))
             now == Cardinality(FirstVoters(b)')
             all == Cardinality(Server)
  <2>4. 2 * was > all => 2 * now > all
    <3>1. was \in Nat /\ now \in Nat /\ all \in Nat /\ was <= now
      BY <2>3
    <3> HIDE DEF was, now, all
    <3>2. QED
      BY <3>1
  <2>5. QED
    BY <1>3, <2>4 DEF Winner
<1>4. QED
  BY <1>2, <1>3

\* Only one leader makes entries of the first term.
LEMMA OneAdds ==
  ASSUME Few, KnownStep, NEW a \in Server, NEW b \in Server, LeadsFirst(a), Adds(b)
  PROVE  a = b
  BY Winners DEF Adds, LeadersWon, WinnerUnique

\* Whoever becomes leader of the first term finds none.
LEMMA FreshLeader ==
  ASSUME Few, KnownStep, FirstWon, NEW a \in Server, LeadsFirst(a)', ~ LeadsFirst(a)
  PROVE  Around' = {}
<1>1. Winner(a)' /\ node'[a].state = "LEADER" /\ node'[a].currentTerm = 1
  BY Winners DEF LeadersWon, LeadsFirst
<1>2. Around = {}
  <2> SUFFICES ASSUME Around # {} PROVE FALSE
    OBVIOUS
  <2>1. PICK b \in Server : Winner(b) /\ ~ (node[b].state = "CANDIDATE" /\ node[b].currentTerm = 1)
    BY DEF FirstWon
  <2>2. b = a
    BY <1>1, <2>1, Winners DEF WinnerUnique
  <2>3. /\ disk[a].term >= 1 /\ disk[a].term \in Nat /\ node[a].currentTerm \in Nat
        /\ proc[a] = "running" => disk[a].term <= node[a].currentTerm
    BY <2>1, <2>2, WinnerWrote, TermsInt DEF KnownStep, Known, IndInv, TermOnDisk
  <2>4. StateFrom(a, node'[a])
    BY DEF KnownStep, Summary, Changes, Change
  <2>5. CASE node[a].state = "LEADER" /\ node'[a].currentTerm >= node[a].currentTerm
    <3>1. proc[a] = "running"
      BY <2>5 DEF KnownStep, Known, TallyInv, Standing
    <3>2. node[a].currentTerm = 1
      BY <1>1, <2>3, <2>5, <3>1
    <3>3. QED
      BY <2>5, <3>2 DEF LeadsFirst
  <2>6. CASE proc[a] = "running" /\ node'[a].currentTerm = node[a].currentTerm + 1
    BY <1>1, <2>3, <2>6
  <2>7. CASE node[a].state = "CANDIDATE" /\ node'[a].currentTerm = node[a].currentTerm
    BY <1>1, <2>1, <2>2, <2>7
  <2>8. QED
    BY <1>1, <2>4, <2>5, <2>6, <2>7 DEF StateFrom
<1>3. ASSUME NEW e \in Around' PROVE FALSE
  <2>1. PICK b \in Server : Adds(b)
    BY <1>2, <1>3, AroundFrom
  <2>2. Winner(b)'
    BY <2>1, Winners DEF Adds, LeadersWon
  <2>3. b = a
    BY <1>1, <2>2, Winners DEF WinnerUnique
  <2>4. QED
    BY <2>1, <2>3 DEF Adds
<1>4. QED
  BY <1>3

\* Next to a backed node, the leader of the first term reaches nobody.
LEMMA OthersShrink ==
  ASSUME Few, KnownStep, NEW a \in Server, LeadsFirst(a), NEW c \in Peers(a), Backed(c)
  PROVE  Others(a)' \subseteq Others(a)
<1>1. ASSUME NEW j \in Peers(a), NEW e \in FirstHeld(j)' PROVE e \in Others(a)
  <2>1. j \in Server /\ j # a
    BY DEF Peers
  <2>2. ~ Adds(j)
    BY <2>1, OneAdds
  <2>3. e \in FirstHeld(j) \/ e \in FirstSent
    BY <1>1, <2>1, <2>2, HeldFrom
  <2>4. QED
    BY <2>3 DEF Others
<1>2. ASSUME NEW e \in FirstSent', e \notin FirstSent PROVE e \in Others(a)
  <2>1. PICK s, p \in Server : /\ p # s /\ LoggedBy(s, node'[s], disk'[s])
                               /\ node[s].currentTerm >= disk'[p].term
                               /\ e \in FirstHeld(s)'
    BY <1>2, SentFrom
  <2>2. CASE s # a
    BY <1>1, <2>1, <2>2 DEF Peers
  <2>3. CASE s = a
    <3>1. disk[p].term >= 2
      BY <2>1, <2>3, Outvoted DEF KnownStep, Peers
    <3>2. /\ disk'[p].term >= disk[p].term /\ disk[p].term \in Nat /\ disk'[p].term \in Nat
          /\ node[a].currentTerm = 1
      BY <2>1, TermsInt, BoundsAssumption
         DEF KnownStep, Known, FilesGrow, IndInv, TypeOK, Term, LeadsFirst
    <3>3. QED
      BY <2>1, <2>3, <3>1, <3>2
  <2>4. QED
    BY <2>2, <2>3
<1>3. QED
  BY <1>1, <1>2 DEF Others, Peers

\* What covers them goes on to.
LEMMA StillCovers ==
  ASSUME Few, KnownStep, NEW a \in Server, LeadsFirst(a), NEW c \in Peers(a), Backed(c),
         NEW last, Covers(Others(a), last)
  PROVE  Covers(Others(a)', last)
  BY OthersShrink DEF Covers

\* A new entry has an index of its own.
LEMMA OnceStep ==
  ASSUME Few, KnownStep, OnceOnly, Ahead
  PROVE  OnceOnly'
<1>1. ASSUME NEW e \in Around', NEW f \in Around, e.index = f.index, e \notin Around PROVE FALSE
  <2>1. PICK a \in Server : Adds(a) /\ e = Newest(a)
    BY <1>1, AroundFrom
  <2>2. e.index = LastLogIndex(node[a].logs) + 1
    BY <2>1, LoggedLast DEF Adds
  <2>3. f.index <= LastLogIndex(node[a].logs)
    BY <2>1 DEF Ahead, Adds
  <2>4. f.index \in Int /\ LastLogIndex(node[a].logs) \in Int
    <3>1. f.index \in Int
      BY AroundTyped DEF KnownStep, Known, IndInv
    <3>2. LastLogIndex(node[a].logs) \in Index
      BY LogIndexTyped DEF KnownStep, Known, IndInv, TypeOK, NodeType
    <3>3. QED
      BY <3>1, <3>2, BoundsAssumption DEF Index
  <2>5. QED
    BY <1>1, <2>2, <2>3, <2>4
<1>2. ASSUME NEW e \in Around', NEW f \in Around', e.index = f.index PROVE e = f
  <2>1. CASE e \in Around /\ f \in Around
    BY <1>2, <2>1 DEF OnceOnly
  <2>2. CASE e \notin Around /\ f \notin Around
    <3>1. PICK a \in Server : Adds(a) /\ e = Newest(a)
      BY <1>2, <2>2, AroundFrom
    <3>2. PICK b \in Server : Adds(b) /\ f = Newest(b)
      BY <1>2, <2>2, AroundFrom
    <3>3. a = b
      BY <3>1, <3>2, OneAdds DEF Adds
    <3>4. QED
      BY <3>1, <3>2, <3>3
  <2>3. QED
    BY <1>1, <1>2, <2>1, <2>2
<1>3. QED
  BY <1>2 DEF OnceOnly

\* A term that was won stays won.
LEMMA WonStep ==
  ASSUME Few, KnownStep, FirstWon
  PROVE  FirstWon'
<1> SUFFICES ASSUME Around' # {}
             PROVE  \E b \in Server : /\ Winner(b)'
                                      /\ ~ (node'[b].state = "CANDIDATE" /\ node'[b].currentTerm = 1)
  BY DEF FirstWon
<1>1. CASE Around = {}
  <2>1. PICK a \in Server : Adds(a)
    BY <1>1, AroundFrom
  <2>2. Winner(a)' /\ node'[a].state # "CANDIDATE"
    BY <2>1, Winners DEF Adds, LeadersWon, LoggedBy
  <2>3. QED
    BY <2>2
<1>2. CASE Around # {}
  <2>1. PICK b \in Server : Winner(b) /\ ~ (node[b].state = "CANDIDATE" /\ node[b].currentTerm = 1)
    BY <1>2 DEF FirstWon
  <2>2. Winner(b)'
    BY <2>1, Winners
  <2>3. /\ disk[b].term >= 1 /\ disk[b].term \in Nat /\ node[b].currentTerm \in Nat
        /\ proc[b] = "running" => disk[b].term <= node[b].currentTerm
    BY <2>1, WinnerWrote, TermsInt DEF KnownStep, Known, IndInv, TermOnDisk
  <2>4. StateFrom(b, node'[b])
    BY DEF KnownStep, Summary, Changes, Change
  <2>5. ASSUME node'[b].state = "CANDIDATE", node'[b].currentTerm = 1 PROVE FALSE
    <3>1. CASE node'[b].state = node[b].state /\ node'[b].currentTerm >= node[b].currentTerm
      <4>1. proc[b] = "running"
        BY <2>5, <3>1 DEF KnownStep, Known, TallyInv, Standing
      <4>2. node[b].currentTerm = 1
        BY <2>3, <2>5, <3>1, <4>1
      <4>3. QED
        BY <2>1, <2>5, <3>1, <4>2
    <3>2. CASE proc[b] = "running" /\ node'[b].currentTerm = node[b].currentTerm + 1
      BY <2>3, <2>5, <3>2
    <3>3. CASE node[b].state = "CANDIDATE" /\ node'[b].currentTerm = node[b].currentTerm
      BY <2>1, <2>5, <3>3
    <3>4. QED
      BY <2>4, <2>5, <3>1, <3>2, <3>3 DEF StateFrom
  <2>6. QED
    BY <2>2, <2>5
<1>3. QED
  BY <1>1, <1>2

\* In a consecutive log no index is beyond the last.
LEMMA LastIsHighest ==
  ASSUME NEW logs \in Seq(Entry), Contiguous(logs), NEW k \in DOMAIN logs
  PROVE  logs[k].index <= LastLogIndex(logs)
<1>1. logs # <<>> /\ k \in 1 .. Len(logs)
  OBVIOUS
<1>2. /\ LastLogIndex(logs) = logs[1].index + Len(logs) - 1
      /\ logs[1].index \in Int /\ Len(logs) \in Nat \ {0}
  BY <1>1, LastOfContiguous
<1>3. logs[k].index = logs[1].index + k - 1
  BY DEF Contiguous
<1>4. QED
  BY <1>1, <1>2, <1>3

\* The leader of the first term that stores what a newer leader sends ends
\* up with a log that covers what is left of the first term.
LEMMA AheadStored ==
  ASSUME Few, KnownStep, Ahead, AllCovered, NEW a \in Server, LeadsFirst(a),
         NEW m \in rpcs, StoredBy(a, m, node'[a], disk'[a]), NEW e \in Around'
  PROVE  e.index <= LastLogIndex(node'[a].logs)
<1> DEFINE logs == node'[a].logs
           last == LastLogIndex(logs)
           size == Len(m.entries)
<1>1. /\ m.type = "AppendEntries" /\ m.dst = a /\ ~ Malformed(m) /\ m.entries # <<>>
      /\ m.prevLogIndex >= BaseLogIndex(node[a].logs)
      /\ logs = Store(node[a], m) /\ disk'[a].logs = logs
  BY DEF StoredBy, Acceptable
<1>2. Logging(m) /\ IsRequest(m) /\ Caller(m) = m.src
  BY <1>1 DEF KnownStep, Known, BackInv, Logging, IsRequest, Caller
<1>3. /\ m.src \in Peers(a) /\ Backed(m.src)
      /\ m \in AppendRequestType /\ m.prevLogIndex \in Int /\ m.prevLogIndex >= -1
      /\ \A q \in DOMAIN m.entries : q \in Nat \ {0} /\ m.entries[q].index = m.prevLogIndex + q
      /\ node[a] \in NodeType
  <2>1. m.src \in Server /\ m.src # m.dst
    BY CallKinds DEF KnownStep, Known, IndInv, TypeOK, LogInv, GoodCalls
  <2>2. QED
    BY <1>1, <1>2, <2>1, SentIndex DEF KnownStep, Known, Intact, BackInv, Peers, IndInv, TypeOK
<1>4. /\ logs \in Seq(Entry) /\ logs # <<>>
      /\ size \in Nat \ {0} /\ DOMAIN m.entries = 1 .. size
      /\ logs[Len(logs)] = m.entries[size]
  BY <1>1, <1>3, StoreParts
<1>5. last = m.prevLogIndex + size
  <2>1. last = logs[Len(logs)].index
    BY <1>4 DEF LastLogIndex
  <2>2. size \in DOMAIN m.entries
    BY <1>4
  <2>3. QED
    BY <1>3, <1>4, <2>1, <2>2
<1>6. ASSUME e \in FirstHeld(a)' PROVE e.index <= last
  <2>1. \E k \in DOMAIN logs : e = logs[k]
    BY <1>1, <1>6 DEF FirstHeld, FirstOf
  <2>2. Contiguous(logs)
    BY DEF KnownStep, Known, Intact, LogInv, GoodNode, Straight
  <2> HIDE DEF logs
  <2>3. QED
    BY <1>4, <2>1, <2>2, LastIsHighest
<1>7. ASSUME e \in Others(a)' PROVE e.index <= last
  <2>1. e \in Others(a)
    BY <1>3, <1>7, OthersShrink
  <2>2. e \in Around
    BY <2>1 DEF Others, Around, Peers
  <2>3. e.index \in Int /\ e.index <= LastLogIndex(node[a].logs)
    BY <2>2, AroundTyped DEF KnownStep, Known, IndInv, Ahead
  <2>4. CASE m.prevLogIndex = -1
    <3>1. node[a].logs = <<>>
      <4> SUFFICES ASSUME node[a].logs # <<>> PROVE FALSE
        OBVIOUS
      <4>1. BaseLogIndex(node[a].logs) = node[a].logs[1].index /\ 1 \in DOMAIN node[a].logs
        BY <1>3 DEF BaseLogIndex, NodeType
      <4>2. node[a].logs[1].index >= 0
        BY <4>1 DEF KnownStep, Known, BackInv, Whole
      <4>3. node[a].logs[1].index \in Int
        <5>1. node[a].logs \in Seq(Entry)
          BY <1>3 DEF NodeType
        <5>2. node[a].logs[1] \in Entry
          BY <5>1, EntryTyped
        <5>3. QED
          BY <5>2, BoundsAssumption DEF Entry, Index
      <4>4. QED
        BY <1>1, <2>4, <4>1, <4>2, <4>3
    <3>2. e.index <= -1
      BY <2>3, <3>1 DEF LastLogIndex
    <3>3. QED
      BY <1>4, <1>5, <2>3, <2>4, <3>2
  <2>5. CASE m.prevLogIndex # -1
    <3>1. Covers(Others(a), m.prevLogIndex)
      BY <1>1, <1>2 DEF AllCovered, Covered
    <3>2. e.index <= m.prevLogIndex
      BY <2>1, <2>5, <3>1 DEF Covers
    <3>3. QED
      BY <1>3, <1>4, <1>5, <2>3, <3>2
  <2>6. QED
    BY <2>4, <2>5
<1>8. e \in FirstHeld(a)' \/ e \in Others(a)'
  BY DEF Around, Others, Peers
<1>9. QED
  BY <1>6, <1>7, <1>8

\* The leader of the first term is not overtaken.
LEMMA AheadStep ==
  ASSUME Few, KnownStep, OwnInv
  PROVE  Ahead'
<1> SUFFICES ASSUME NEW a \in Server, LeadsFirst(a)', NEW e \in Around'
             PROVE  e.index <= LastLogIndex(node'[a].logs)
  BY DEF Ahead
<1>1. LeadsFirst(a)
  BY FreshLeader DEF OwnInv
<1>2. LogsFrom(a, node'[a], disk'[a]) /\ node'[a].state = "LEADER"
  BY DEF KnownStep, Summary, Changes, Change, LeadsFirst
<1>3. e \notin Around => Adds(a) /\ e = Newest(a)
  BY <1>1, AroundFrom, OneAdds
<1>4. CASE LoggedBy(a, node'[a], disk'[a])
  <2>1. LastLogIndex(node'[a].logs) = LastLogIndex(node[a].logs) + 1
        /\ LastLogIndex(node'[a].logs) = Newest(a).index
    BY <1>2, <1>4, LoggedLast DEF LoggedBy
  <2>2. CASE e \in Around
    <3>1. e.index <= LastLogIndex(node[a].logs) /\ e.index \in Int
      BY <1>1, <2>2, AroundTyped DEF OwnInv, Ahead, KnownStep, Known, IndInv
    <3>2. LastLogIndex(node[a].logs) \in Int
      BY LogIndexTyped, BoundsAssumption DEF KnownStep, Known, IndInv, TypeOK, NodeType, Index
    <3>3. QED
      BY <2>1, <3>1, <3>2
  <2>3. CASE e \notin Around
    <3>1. LastLogIndex(node[a].logs) \in Int
      BY LogIndexTyped, BoundsAssumption DEF KnownStep, Known, IndInv, TypeOK, NodeType, Index
    <3>2. QED
      BY <1>3, <2>1, <2>3, <3>1
  <2>4. QED
    BY <2>2, <2>3
<1>5. CASE node'[a].logs = node[a].logs /\ ~ LoggedBy(a, node'[a], disk'[a])
  <2>1. e \in Around
    BY <1>3, <1>5 DEF Adds
  <2>2. QED
    BY <1>1, <1>5, <2>1 DEF OwnInv, Ahead
<1>6. CASE \E m \in rpcs : StoredBy(a, m, node'[a], disk'[a])
  BY <1>1, <1>6, AheadStored DEF OwnInv
<1>7. ~ CutBy(a, node'[a], disk'[a])
  BY <1>2 DEF CutBy
<1>8. QED
  BY <1>2, <1>4, <1>5, <1>6, <1>7 DEF LogsFrom

\* Who logs is backed.
LEMMA CallerBacked ==
  ASSUME KnownStep, NEW m \in rpcs, Logging(m)
  PROVE  /\ m.src \in Server /\ m.dst \in Server /\ m.src # m.dst
         /\ Caller(m) \in Server /\ Backed(Caller(m))
<1>1. m.src \in Server /\ m.dst \in Server /\ m.src # m.dst
  BY CallKinds DEF KnownStep, Known, IndInv, TypeOK, LogInv, GoodCalls
<1>2. QED
  BY <1>1 DEF Caller, KnownStep, Known, BackInv

\* What newer leaders take for the last index keeps covering.
LEMMA CoveredStep ==
  ASSUME Few, KnownStep, OwnInv, NEW a \in Server, LeadsFirst(a), LeadsFirst(a)'
  PROVE  Covered(a)'
<1>1. Covered(a)
  BY DEF OwnInv, AllCovered
<1>2. ASSUME NEW c \in Peers(a) PROVE Covers(Others(a)', node'[c].nextIndex[a] - 1)
  <2>1. NextFrom(c, node'[c]) /\ c \in Server
    BY DEF KnownStep, Summary, Changes, Change, Peers
  <2>2. CASE node'[c].nextIndex[a] = node[c].nextIndex[a]
    <3>1. CASE Backed(c)
      BY <1>1, <2>2, <3>1, StillCovers DEF Covered
    <3>2. CASE ~ Backed(c)
      BY <2>1, <2>2, <3>2 DEF KnownStep, Known, BackInv, Covers
    <3>3. QED
      BY <3>1, <3>2
  <2>3. CASE node'[c].nextIndex = [p \in Server |-> 0]
    BY <2>3 DEF Covers
  <2>4. ASSUME NEW r \in rpcs, r.type = "AppendEntriesReply", Logging(r), r.dst = c, r.ok,
               node'[c].nextIndex = [node[c].nextIndex EXCEPT ![r.src] = r.lastLogIndex + 1]
        PROVE  Covers(Others(a)', node'[c].nextIndex[a] - 1)
    <3>1. node[c].nextIndex \in [Server -> Nat] /\ r.lastLogIndex \in Int
      <4>1. r.lastLogIndex \in Index
        BY <2>4, CallKinds DEF KnownStep, Known, IndInv, TypeOK, AppendReplyType
      <4>2. node[c].nextIndex \in [Server -> Nat]
        BY <2>1 DEF KnownStep, Known, IndInv, TypeOK, NodeType
      <4>3. QED
        BY <4>1, <4>2, BoundsAssumption DEF Index
    <3>2. CASE r.src # a
      BY <2>2, <2>4, <3>1, <3>2
    <3>3. CASE r.src = a
      <4>1. Backed(c)
        BY <2>4, CallerBacked DEF Caller, IsRequest
      <4>2. Covers(Others(a), r.lastLogIndex)
        BY <1>1, <2>4, <3>3 DEF Covered, IsRequest
      <4>3. node'[c].nextIndex[a] - 1 = r.lastLogIndex
        BY <2>4, <3>1, <3>3
      <4>4. QED
        BY <4>1, <4>2, <4>3, StillCovers
    <3>4. QED
      BY <3>2, <3>3
  <2>5. QED
    BY <2>1, <2>2, <2>3, <2>4 DEF NextFrom
<1>3. ASSUME NEW m \in rpcs', Logging(m), IsRequest(m), m.dst = a
      PROVE  Covers(Others(a)', m.prevLogIndex)
  <2>1. m.type = "AppendEntries" /\ ~ m.isHeartbeat /\ m.src \in Server /\ m.src \in Peers(a)
    <3>1. m.src \in Server /\ m.src # m.dst
      BY CallKinds DEF KnownStep, Known, IndInv, TypeOK, LogInv, GoodCalls
    <3>2. QED
      BY <1>3, <3>1 DEF Logging, IsRequest, Peers
  <2>2. CASE \E c \in rpcs : Like(m, c)
    <3>1. PICK c \in rpcs : Like(m, c)
      BY <2>2
    <3>2. /\ c.type = "AppendEntries" /\ Logging(c) /\ IsRequest(c)
          /\ c.dst = a /\ c.src = m.src /\ c.prevLogIndex = m.prevLogIndex
      BY <1>3, <2>1, <3>1 DEF Like, Logging, IsRequest
    <3>3. Backed(m.src)
      BY <3>2, CallerBacked DEF Caller
    <3>4. Covers(Others(a), m.prevLogIndex)
      BY <1>1, <3>2 DEF Covered
    <3>5. QED
      BY <2>1, <3>3, <3>4, StillCovers
  <2>3. CASE ~ \E c \in rpcs : Like(m, c)
    <3>1. /\ LoggedBy(m.src, node'[m.src], disk'[m.src])
          /\ m.prevLogIndex = node[m.src].nextIndex[a] - 1
      BY <1>3, <2>1, <2>3 DEF KnownStep, Summary, Calls, CallFrom
    <3>2. Backed(m.src)
      BY <2>1, <3>1 DEF LoggedBy, KnownStep, Known, BackInv
    <3>3. Covers(Others(a), m.prevLogIndex)
      BY <1>1, <2>1, <3>1 DEF Covered
    <3>4. QED
      BY <2>1, <3>2, <3>3, StillCovers
  <2>4. QED
    BY <2>2, <2>3
<1>4. ASSUME NEW m \in rpcs', Logging(m), ~ IsRequest(m), m.src = a, m.ok
      PROVE  Covers(Others(a)', m.lastLogIndex)
  <2>1. m.type = "AppendEntriesReply" /\ ~ m.isHeartbeat
    BY <1>4 DEF Logging, IsRequest
  <2>2. CASE \E c \in rpcs : Like(m, c)
    <3>1. m \in rpcs
      BY <2>1, <2>2 DEF Like, IsRequest
    <3>2. m.dst \in Peers(a) /\ Backed(m.dst)
      BY <1>4, <3>1, CallerBacked DEF Caller, Peers
    <3>3. Covers(Others(a), m.lastLogIndex)
      BY <1>1, <1>4, <3>1 DEF Covered
    <3>4. QED
      BY <3>2, <3>3, StillCovers
  <2>3. CASE ~ \E c \in rpcs : Like(m, c)
    <3>1. m.lastLogIndex = LastLogIndex(node'[a].logs)
      BY <1>4, <2>1, <2>3 DEF KnownStep, Summary, Calls, CallFrom
    <3>2. \A e \in Around' : e.index <= LastLogIndex(node'[a].logs)
      BY AheadStep DEF Ahead
    <3>3. Others(a)' \subseteq Around'
      BY DEF Others, Around, Peers
    <3>4. QED
      BY <3>1, <3>2, <3>3 DEF Covers
  <2>4. QED
    BY <2>2, <2>3
<1>5. QED
  BY <1>2, <1>3, <1>4 DEF Covered, Peers

\* The whole invariant is kept.
LEMMA OwnStep ==
  ASSUME Few, KnownStep, OwnInv
  PROVE  OwnInv'
<1>1. ASSUME NEW a \in Server, LeadsFirst(a)' PROVE Covered(a)'
  <2>1. CASE LeadsFirst(a)
    BY <1>1, <2>1, CoveredStep
  <2>2. CASE ~ LeadsFirst(a)
    <3>1. Around' = {}
      BY <1>1, <2>2, FreshLeader DEF OwnInv
    <3>2. Others(a)' = {}
      BY <3>1 DEF Others, Around, Peers
    <3>3. QED
      BY <3>2 DEF Covered, Covers
  <2>3. QED
    BY <2>1, <2>2
<1>2. AllCovered'
  BY <1>1 DEF AllCovered
<1>3. QED
  BY <1>2, OnceStep, WonStep, AheadStep DEF OwnInv

\* As long as no file has lost its term or a part of an entry, up to three nodes
\* keep one entry of the first term at an index, in all logs and files and in all
\* requests that a node may still accept.
IntactOwn == Intact => OwnInv

THEOREM FirstEntriesAgree ==
  ASSUME Cardinality(Server) <= 3
  PROVE  Spec => [](IntactOwn /\ FirstTermEntriesAgree)
<1>1. Few
  BY DEF Few
<1>2. Init => IntactOwn
  <2> SUFFICES ASSUME Init PROVE OwnInv
    BY DEF IntactOwn
  <2>1. Around = {}
    BY DEF Init, Around, FirstSent, FirstHeld, FirstOf, NewNode
  <2>2. \A a \in Server : ~ LeadsFirst(a)
    BY DEF Init, LeadsFirst, NewNode
  <2>3. QED
    BY <2>1, <2>2 DEF OwnInv, OnceOnly, FirstWon, Ahead, AllCovered
<1>3. IntactOwn /\ IntactKnown /\ IntactKnown' /\ [IntactStep]_vars => IntactOwn'
  <2> SUFFICES ASSUME IntactOwn, IntactKnown, IntactKnown', [IntactStep]_vars, Intact' PROVE OwnInv'
    BY DEF IntactOwn
  <2>1. KnownStep
    BY StutterKnown DEF IntactStep
  <2>2. QED
    BY <1>1, <2>1, OwnStep DEF IntactOwn, KnownStep, Known
<1>4. IntactOwn => FirstTermEntriesAgree
  <2> SUFFICES ASSUME OwnInv, NEW e \in KeptEntries, NEW f \in KeptEntries,
                      e.term = 1, f.term = 1, e.index = f.index
               PROVE  e = f
    BY DEF FirstTermEntriesAgree, IntactOwn, Intact
  <2>1. ASSUME NEW g \in KeptEntries, g.term = 1 PROVE g \in Around
    <3>1. PICK i \in Server : g \in {node[i].logs[k] : k \in DOMAIN node[i].logs} \cup
                                   {disk[i].logs[k] : k \in DOMAIN disk[i].logs}
      BY <2>1 DEF KeptEntries
    <3>2. g \in FirstHeld(i)
      BY <2>1, <3>1 DEF FirstHeld, FirstOf
    <3>3. QED
      BY <3>2 DEF Around
  <2>2. QED
    BY <2>1 DEF OwnInv, OnceOnly
<1>5. QED
  BY <1>2, <1>3, <1>4, KnownInvariance, PTL DEF Spec

-----------------------------------------------------------------------------
(* What the leader of the first term applies, as long as no other node was   *)
(* ever voted for by another: nobody else can make or send an entry then,    *)
(* so its log only grows and covers every index it is told of.               *)

\* Nothing before the first election is won: node i has written a term and
\* is past its candidacy of the first term.
Past(i) == disk[i].term >= 1 /\ ~ (node[i].state = "CANDIDATE" /\ node[i].currentTerm = 1)

\* What was logged or applied is past it.
Traced ==
    /\ \A m \in rpcs : Logging(m) => Past(Caller(m))
    /\ \A m \in rpcs : m.type = "AppendEntriesReply" /\ m.success => m.ok
    /\ \A i \in Server : node[i].lastApplied = node[i].commitIndex
    /\ \A i \in Server : node[i].commitIndex # -1 \/ node[i].channel # <<>> => Past(i)

\* The entries in logs, files and requests, but not those GetLogByIndex lacked.
Entries == {e \in Entry : /\ e.cmd # NoCmd
                          /\ \/ \E i \in Server : In(e, node[i].logs) \/ In(e, disk[i].logs)
                             \/ \E m \in rpcs : m.type = "AppendEntries" /\ In(e, m.entries)}

\* Each was made by a leader, in a term it has reached.
Owner(s, e) == Backed(s) /\ Past(s) /\ disk[s].term >= e.term
Owned == \A e \in Entries : e.term >= 1 /\ \E s \in Server : Owner(s, e)

\* The leader of the first term, while no other node was voted for by another.
Unrivalled(a) == \A c \in Peers(a) : ~ Backed(c)
SoleLeader(a) == LeadsFirst(a) /\ Unrivalled(a)

AppliedOf(a) ==
    /\ node[a].lastApplied < Len(node[a].logs)
    /\ node[a].channel = [k \in 1 .. node[a].lastApplied + 1 |-> node[a].logs[k].cmd]

Sole(a) ==
    /\ \A e \in Entries : e.index <= LastLogIndex(node[a].logs)
    /\ \A m \in rpcs : Logging(m) /\ ~ IsRequest(m) /\ m.dst = a /\ m.ok =>
          m.lastLogIndex <= LastLogIndex(node[a].logs)
    /\ BaseLogIndex(node[a].logs) <= 0
    /\ AppliedOf(a)

SoleInv == Traced /\ Owned /\ \A a \in Server : SoleLeader(a) => Sole(a)

\* A node past its first candidacy stays past it.
LEMMA PastStays ==
  ASSUME KnownStep, NEW i \in Server, Past(i)
  PROVE  Past(i)'
<1>1. /\ disk[i].term >= 1 /\ disk'[i].term >= disk[i].term
      /\ disk[i].term \in Nat /\ disk'[i].term \in Nat /\ node[i].currentTerm \in Nat
      /\ proc[i] = "running" => disk[i].term <= node[i].currentTerm
  <2>1. TypeOK /\ TypeOK' /\ TermOnDisk /\ FilesGrow
    BY DEF KnownStep, Known, IndInv
  <2>2. disk'[i].term \in Nat
    BY <2>1, BoundsAssumption DEF TypeOK, Term
  <2>3. QED
    BY <2>1, <2>2, TermsInt DEF Past, FilesGrow, TermOnDisk
<1>2. StateFrom(i, node'[i])
  BY DEF KnownStep, Summary, Changes, Change
<1>3. ASSUME node'[i].state = "CANDIDATE", node'[i].currentTerm = 1 PROVE FALSE
  <2>1. CASE node'[i].state = node[i].state /\ node'[i].currentTerm >= node[i].currentTerm
    <3>1. proc[i] = "running"
      BY <1>3, <2>1 DEF KnownStep, Known, TallyInv, Standing
    <3>2. node[i].currentTerm = 1
      BY <1>1, <1>3, <2>1, <3>1
    <3>3. QED
      BY <1>3, <2>1, <3>2 DEF Past
  <2>2. CASE proc[i] = "running" /\ node'[i].currentTerm = node[i].currentTerm + 1
    BY <1>1, <1>3, <2>2
  <2>3. CASE node[i].state = "CANDIDATE" /\ node'[i].currentTerm = node[i].currentTerm
    BY <1>3, <2>3 DEF Past
  <2>4. QED
    BY <1>2, <1>3, <2>1, <2>2, <2>3 DEF StateFrom
<1>4. QED
  BY <1>1, <1>3 DEF Past

\* A leader is past it, in any term, and so is the node after it logged.
LEMMA LeaderPast ==
  ASSUME Known, NEW i \in Server, Leads(i)
  PROVE  Past(i) /\ Backed(i) /\ node[i].currentTerm >= 1
<1>1. proc[i] = "running" /\ disk[i].term >= 1 /\ Backed(i)
  BY DEF Leads, Known, TallyInv, Standing, BackInv
<1>2. disk[i].term <= node[i].currentTerm /\ disk[i].term \in Nat /\ node[i].currentTerm \in Nat
  BY <1>1, TermsInt DEF Known, IndInv, TermOnDisk
<1>3. QED
  BY <1>1, <1>2 DEF Past, Leads

\* Whoever becomes leader of the first term was not past it before.
LEMMA FreshNotPast ==
  ASSUME KnownStep, NEW a \in Server, LeadsFirst(a)', ~ LeadsFirst(a)
  PROVE  ~ Past(a)
<1> SUFFICES ASSUME Past(a) PROVE FALSE
  OBVIOUS
<1>1. /\ disk[a].term >= 1 /\ disk[a].term \in Nat /\ node[a].currentTerm \in Nat
      /\ proc[a] = "running" => disk[a].term <= node[a].currentTerm
      /\ node'[a].state = "LEADER" /\ node'[a].currentTerm = 1
  BY TermsInt DEF Past, KnownStep, Known, IndInv, TermOnDisk, LeadsFirst
<1>2. StateFrom(a, node'[a])
  BY DEF KnownStep, Summary, Changes, Change
<1>3. CASE node'[a].state = node[a].state /\ node'[a].currentTerm >= node[a].currentTerm
  <2>1. proc[a] = "running"
    BY <1>1, <1>3 DEF KnownStep, Known, TallyInv, Standing
  <2>2. node[a].currentTerm = 1
    BY <1>1, <1>3, <2>1
  <2>3. QED
    BY <1>1, <1>3, <2>2 DEF LeadsFirst
<1>4. CASE proc[a] = "running" /\ node'[a].currentTerm = node[a].currentTerm + 1
  BY <1>1, <1>4
<1>5. CASE node[a].state = "CANDIDATE" /\ node'[a].currentTerm = node[a].currentTerm
  BY <1>1, <1>5 DEF Past
<1>6. QED
  BY <1>1, <1>2, <1>3, <1>4, <1>5 DEF StateFrom

\* Votes stay, so who is unrivalled was.
LEMMA BackedStays ==
  ASSUME KnownStep
  PROVE  /\ \A c \in Server : Backed(c) => Backed(c)'
         /\ \A a \in Server : Unrivalled(a)' => Unrivalled(a)
<1>1. \A c \in Server : Backed(c) => Backed(c)'
  BY DEF Backed, Peers, KnownStep
<1>2. QED
  BY <1>1 DEF Unrivalled, Peers

\* What was logged or applied stays past it.
LEMMA TracedStep ==
  ASSUME KnownStep, Traced
  PROVE  Traced'
<1>1. ASSUME NEW m \in rpcs', Logging(m) PROVE Past(Caller(m))'
  <2>1. m.src \in Server /\ m.dst \in Server
    BY CallKinds DEF KnownStep, Known, IndInv, TypeOK
  <2>2. Past(Caller(m))
    <3>1. CASE \E c \in rpcs : Like(m, c)
      <4>1. PICK c \in rpcs : Like(m, c)
        BY <3>1
      <4>2. Logging(c) /\ Caller(c) = Caller(m)
        BY <1>1, <4>1 DEF Like, Logging, Caller, IsRequest
      <4>3. QED
        BY <4>2 DEF Traced
    <3>2. CASE ~ \E c \in rpcs : Like(m, c)
      <4>1. \/ m.type = "AppendEntries" /\ LoggedBy(m.src, node'[m.src], disk'[m.src])
            \/ m.type = "AppendEntriesReply" /\ \E r \in rpcs : Logging(r) /\ Caller(r) = m.dst
        BY <1>1, <3>2 DEF KnownStep, Summary, Calls, CallFrom, Logging
      <4>2. CASE m.type = "AppendEntries" /\ LoggedBy(m.src, node'[m.src], disk'[m.src])
        BY <2>1, <4>2, LeaderPast DEF LoggedBy, Caller, IsRequest, KnownStep
      <4>3. CASE m.type = "AppendEntriesReply" /\ \E r \in rpcs : Logging(r) /\ Caller(r) = m.dst
        BY <4>3 DEF Traced, Caller, IsRequest
      <4>4. QED
        BY <4>1, <4>2, <4>3
    <3>3. QED
      BY <3>1, <3>2
  <2>3. \A i \in Server : Past(i) => Past(i)'
    BY PastStays
  <2>4. CASE IsRequest(m)
    BY <2>1, <2>2, <2>3, <2>4 DEF Caller
  <2>5. CASE ~ IsRequest(m)
    BY <2>1, <2>2, <2>3, <2>5 DEF Caller
  <2>6. QED
    BY <2>4, <2>5
<1>2. ASSUME NEW m \in rpcs', m.type = "AppendEntriesReply", m.success PROVE m.ok
  <2>1. CASE \E c \in rpcs : Like(m, c)
    BY <1>2, <2>1 DEF Like, IsRequest, Traced
  <2>2. CASE ~ \E c \in rpcs : Like(m, c)
    BY <1>2, <2>2 DEF KnownStep, Summary, Calls, CallFrom
  <2>3. QED
    BY <2>1, <2>2
<1>3. ASSUME NEW i \in Server
      PROVE  /\ node'[i].lastApplied = node'[i].commitIndex
             /\ node'[i].commitIndex # -1 \/ node'[i].channel # <<>> => Past(i)'
  <2>1. /\ AppliedFrom(i, node'[i]) /\ node[i].lastApplied = node[i].commitIndex
        /\ node[i].commitIndex \in Int /\ node'[i].commitIndex \in Int
    BY BoundsAssumption
       DEF KnownStep, Summary, Changes, Change, Traced, Known, IndInv, TypeOK, NodeType, Index
  <2>2. Past(i) => Past(i)'
    BY PastStays
  <2>3. CASE SameApplied(node'[i], node[i])
    BY <2>1, <2>2, <2>3 DEF SameApplied, Traced
  <2>4. CASE node'[i].commitIndex = -1 /\ node'[i].lastApplied = -1 /\ node'[i].channel = <<>>
    BY <2>4
  <2>5. CASE /\ Leads(i) /\ Peers(i) = {} /\ node'[i].commitIndex = LastLogIndex(node[i].logs) + 1
             /\ NowApplied(node'[i], node[i])
    <3>1. Past(i)
      BY <2>5, LeaderPast DEF KnownStep
    <3>2. node[i].commitIndex <= LastLogIndex(node[i].logs) /\ LastLogIndex(node[i].logs) \in Int
      <4>1. node[i].commitIndex <= LastLogIndex(node[i].logs)
        BY <2>5 DEF KnownStep, Known, LogInv, GoodNode
      <4>2. node[i].logs \in Seq(Entry)
        BY DEF KnownStep, Known, IndInv, TypeOK, NodeType
      <4>3. QED
        BY <4>1, <4>2, LogIndexTyped, BoundsAssumption DEF Index
    <3>3. ~ (node[i].lastApplied >= node'[i].commitIndex)
      BY <2>1, <2>5, <3>2
    <3>4. node'[i].lastApplied = node'[i].commitIndex
      BY <2>1, <2>5, <3>3 DEF NowApplied
    <3>5. QED
      BY <2>2, <3>1, <3>4
  <2>6. CASE \E r \in rpcs : /\ r.type = "AppendEntriesReply" /\ Logging(r) /\ r.dst = i /\ r.success
                             /\ node'[i].commitIndex = r.lastLogIndex
                             /\ r.lastLogIndex > node[i].commitIndex /\ NowApplied(node'[i], node[i])
    <3>1. Past(i)
      BY <2>6 DEF Traced, Caller, IsRequest
    <3>2. ~ (node[i].lastApplied >= node'[i].commitIndex)
      BY <2>1, <2>6
    <3>3. node'[i].lastApplied = node'[i].commitIndex
      BY <2>1, <2>6, <3>2 DEF NowApplied
    <3>4. QED
      BY <2>2, <3>1, <3>3
  <2>7. QED
    BY <2>1, <2>3, <2>4, <2>5, <2>6 DEF AppliedFrom
<1>4. QED
  BY <1>1, <1>2, <1>3 DEF Traced

\* Every entry there is was there or is being logged.
LEMMA EntriesFrom ==
  ASSUME KnownStep, NEW e \in Entries', e \notin Entries
  PROVE  \E s \in Server : LoggedBy(s, node'[s], disk'[s]) /\ e = Newest(s)
<1>1. e \in Entry /\ e # NoEntry
  BY DEF Entries, NoEntry
<1>2. ASSUME NEW i \in Server, In(e, node'[i].logs) \/ In(e, disk'[i].logs)
      PROVE  LoggedBy(i, node'[i], disk'[i]) /\ e = Newest(i)
  <2>1. ~ In(e, node[i].logs) /\ ~ In(e, disk[i].logs) /\ ~ In(e, <<>>)
    BY <1>1 DEF Entries, In
  <2>2. LogsFrom(i, node'[i], disk'[i])
    BY DEF KnownStep, Summary, Changes, Change
  <2>3. ASSUME LoggedBy(i, node'[i], disk'[i]) PROVE e = Newest(i)
    <3>1. In(e, disk'[i].logs)
      BY <1>2, <2>1, <2>3 DEF LoggedBy
    <3>2. QED
      BY <2>1, <2>3, <3>1, LoggedLast DEF In
  <2>4. ASSUME NEW m \in rpcs, Acceptable(i, m), In(e, Store(node[i], m)) PROVE FALSE
    <3>1. m.type = "AppendEntries" /\ ~ Malformed(m) /\ m.entries # <<>>
      BY <2>4 DEF Acceptable
    <3>2. m \in AppendRequestType /\ node[i] \in NodeType
      BY <3>1, CallKinds DEF KnownStep, Known, IndInv, TypeOK
    <3>3. In(e, node[i].logs) \/ In(e, m.entries)
      BY <2>4, <3>1, <3>2, StoreParts DEF In
    <3>4. QED
      BY <1>1, <2>1, <3>1, <3>3 DEF Entries
  <2>5. CASE /\ node'[i].logs \in {node[i].logs, disk[i].logs, <<>>}
             /\ disk'[i].logs \in {node[i].logs, disk[i].logs}
    BY <1>2, <2>1, <2>5
  <2>6. CASE \E m \in rpcs : StoredBy(i, m, node'[i], disk'[i])
    BY <1>2, <2>4, <2>6 DEF StoredBy
  <2>7. CASE CutBy(i, node'[i], disk'[i])
    <3>1. In(e, disk'[i].logs)
      BY <1>2, <2>1, <2>7 DEF CutBy
    <3>2. \A logs : Begins(disk'[i].logs, logs) => In(e, logs)
      BY <3>1 DEF Begins, In
    <3>3. QED
      BY <2>1, <2>4, <2>7, <3>2 DEF CutBy
  <2>8. QED
    BY <2>2, <2>3, <2>5, <2>6, <2>7 DEF LogsFrom
<1>3. ASSUME NEW m \in rpcs', m.type = "AppendEntries", In(e, m.entries)
      PROVE  \E s \in Server : In(e, disk'[s].logs)
  <2>1. ~ \E c \in rpcs : Like(m, c)
    BY <1>1, <1>3 DEF Like, Entries
  <2>2. m.entries # <<>> /\ m.src \in Server
    BY <1>3, CallKinds DEF In, KnownStep, Known, IndInv, TypeOK
  <2>3. \A k \in DOMAIN m.entries :
           \/ m.entries[k] = NoEntry
           \/ \E q \in DOMAIN disk'[m.src].logs : m.entries[k] = disk'[m.src].logs[q]
    BY <1>3, <2>1, <2>2 DEF KnownStep, Summary, Calls, CallFrom
  <2>4. QED
    BY <1>1, <1>3, <2>2, <2>3 DEF In
<1>4. QED
  BY <1>2, <1>3 DEF Entries

\* Every entry has an owner.
LEMMA OwnedStep ==
  ASSUME KnownStep, Owned
  PROVE  Owned'
<1>1. ASSUME NEW e \in Entries', e \in Entries PROVE e.term >= 1 /\ \E s \in Server : Owner(s, e)'
  <2>1. e.term >= 1 /\ e.term \in Nat
    BY <1>1, BoundsAssumption DEF Owned, Entries, Entry, Term
  <2>2. PICK s \in Server : Owner(s, e)
    BY <1>1 DEF Owned
  <2>3. /\ disk'[s].term >= disk[s].term /\ disk[s].term >= e.term
        /\ disk[s].term \in Nat /\ disk'[s].term \in Nat
    BY <2>2, TermsInt, BoundsAssumption DEF Owner, KnownStep, Known, FilesGrow, IndInv, TypeOK, Term
  <2>4. Owner(s, e)'
    BY <2>1, <2>2, <2>3, PastStays, BackedStays DEF Owner
  <2>5. QED
    BY <2>1, <2>4
<1>2. ASSUME NEW e \in Entries', e \notin Entries PROVE e.term >= 1 /\ \E s \in Server : Owner(s, e)'
  <2>1. PICK s \in Server : LoggedBy(s, node'[s], disk'[s]) /\ e = Newest(s)
    BY <1>2, EntriesFrom
  <2>2. e.term = node[s].currentTerm /\ disk'[s].term = node[s].currentTerm
    BY <2>1, LoggedLast DEF LoggedBy
  <2>3. Past(s) /\ Backed(s) /\ node[s].currentTerm >= 1 /\ node[s].currentTerm \in Nat
    BY <2>1, LeaderPast, TermsInt DEF LoggedBy, KnownStep, Known, IndInv
  <2>4. Owner(s, e)'
    BY <2>2, <2>3, PastStays, BackedStays DEF Owner
  <2>5. QED
    BY <2>2, <2>3, <2>4
<1>3. QED
  BY <1>1, <1>2 DEF Owned

\* Only an unrivalled leader itself makes entries.
LEMMA SoleLogs ==
  ASSUME KnownStep, NEW a \in Server, Unrivalled(a), NEW s \in Server,
         LoggedBy(s, node'[s], disk'[s])
  PROVE  s = a
  BY LeaderPast DEF LoggedBy, Unrivalled, Peers, KnownStep

\* A node that becomes the unrivalled leader of the first term finds nothing.
LEMMA SoleFresh ==
  ASSUME KnownStep, SoleInv, NEW a \in Server, SoleLeader(a)', ~ LeadsFirst(a)
  PROVE  Sole(a)'
<1>1. Unrivalled(a) /\ ~ Past(a) /\ node'[a].state = "LEADER" /\ node'[a].currentTerm = 1
  BY BackedStays, FreshNotPast DEF SoleLeader, LeadsFirst
<1>2. ~ (Leads(a) /\ node'[a].currentTerm = node[a].currentTerm)
  BY <1>1 DEF Leads, LeadsFirst
<1>3. Entries' = {}
  <2> SUFFICES ASSUME NEW e \in Entries' PROVE FALSE
    OBVIOUS
  <2>1. CASE e \in Entries
    <3>1. PICK s \in Server : Backed(s) /\ Past(s)
      BY <2>1 DEF SoleInv, Owned, Owner
    <3>2. s = a
      BY <1>1, <3>1 DEF Unrivalled, Peers
    <3>3. QED
      BY <1>1, <3>1, <3>2
  <2>2. CASE e \notin Entries
    <3>1. LoggedBy(a, node'[a], disk'[a])
      BY <1>1, <2>2, EntriesFrom, SoleLogs
    <3>2. QED
      BY <1>1, <1>2, <3>1 DEF LoggedBy
  <2>3. QED
    BY <2>1, <2>2
<1>4. node'[a].logs = <<>>
  <2> DEFINE logs == node'[a].logs
  <2>1. logs \in Seq(Entry)
    BY DEF KnownStep, Known, IndInv, TypeOK, NodeType
  <2>2. \A k \in DOMAIN logs : logs[k] \in Entry
    BY <2>1
  <2>3. \A k \in DOMAIN logs : logs[k] \in Entries'
    BY <2>2 DEF Entries, In, KnownStep, Known, BackInv, Whole
  <2>4. DOMAIN logs = {}
    BY <1>3, <2>3
  <2> HIDE DEF logs
  <2>5. logs = <<>>
    BY <2>1, <2>4
  <2>6. QED
    BY <2>5 DEF logs
<1>5. ASSUME NEW m \in rpcs', Logging(m), ~ IsRequest(m), m.dst = a PROVE FALSE
  <2>1. m.type = "AppendEntriesReply" /\ ~ m.isHeartbeat
    BY <1>5 DEF Logging, IsRequest
  <2>2. CASE \E c \in rpcs : Like(m, c)
    <3>1. m \in rpcs
      BY <2>1, <2>2 DEF Like, IsRequest
    <3>2. QED
      BY <1>1, <1>5, <3>1 DEF SoleInv, Traced, Caller
  <2>3. CASE ~ \E c \in rpcs : Like(m, c)
    <3>1. \E r \in rpcs : Logging(r) /\ Caller(r) = a
      BY <1>5, <2>1, <2>3 DEF KnownStep, Summary, Calls, CallFrom
    <3>2. QED
      BY <1>1, <3>1 DEF SoleInv, Traced
  <2>4. QED
    BY <2>2, <2>3
<1>6. node'[a].lastApplied = -1 /\ node'[a].channel = <<>>
  <2>1. AppliedFrom(a, node'[a])
    BY DEF KnownStep, Summary, Changes, Change
  <2>2. node[a].lastApplied = -1 /\ node[a].channel = <<>>
    BY <1>1 DEF SoleInv, Traced
  <2>3. ~ \E r \in rpcs : r.type = "AppendEntriesReply" /\ Logging(r) /\ r.dst = a
    BY <1>1 DEF SoleInv, Traced, Caller, IsRequest
  <2>4. QED
    BY <1>2, <2>1, <2>2, <2>3 DEF AppliedFrom, SameApplied
<1>7. AppliedOf(a)'
  <2>1. <<>> = [k \in 1 .. -1 + 1 |-> node'[a].logs[k].cmd]
    OBVIOUS
  <2>2. Len(node'[a].logs) = 0
    BY <1>4
  <2>3. QED
    BY <1>6, <2>1, <2>2 DEF AppliedOf
<1>8. BaseLogIndex(node'[a].logs) = -1
  BY <1>4 DEF BaseLogIndex
<1>9. QED
  BY <1>3, <1>5, <1>7, <1>8 DEF Sole

\* The log of the unrivalled leader of the first term stays or grows by one.
LEMMA SoleLog ==
  ASSUME KnownStep, NEW a \in Server, LeadsFirst(a), Unrivalled(a), LeadsFirst(a)'
  PROVE  \/ /\ ~ LoggedBy(a, node'[a], disk'[a])
            /\ node'[a].logs = node[a].logs
         \/ /\ LoggedBy(a, node'[a], disk'[a])
            /\ node'[a].logs = disk'[a].logs
            /\ \E e \in Entry : e.index = LastLogIndex(node[a].logs) + 1
                                /\ node'[a].logs = Append(node[a].logs, e)
<1>1. LogsFrom(a, node'[a], disk'[a]) /\ node'[a].state = "LEADER"
  BY DEF KnownStep, Summary, Changes, Change, LeadsFirst
<1>2. ASSUME NEW m \in rpcs, StoredBy(a, m, node'[a], disk'[a]) PROVE FALSE
  <2>1. Logging(m) /\ Caller(m) = m.src /\ m.dst = a
    BY <1>2 DEF StoredBy, Acceptable, KnownStep, Known, BackInv, Logging, Caller, IsRequest
  <2>2. m.src \in Peers(a) /\ Backed(m.src)
    BY <2>1, CallerBacked DEF Peers
  <2>3. QED
    BY <2>2 DEF Unrivalled
<1>3. CASE LoggedBy(a, node'[a], disk'[a])
  <2>1. PICK c \in Cmd : disk'[a].logs = Append(node[a].logs, NewEntry(node[a], c))
    BY <1>3 DEF LoggedBy
  <2>2. NewEntry(node[a], c).index = LastLogIndex(node[a].logs) + 1
    BY DEF NewEntry
  <2>3. NewEntry(node[a], c) \in Entry
    <3>1. node[a] \in NodeType /\ LastLogIndex(node[a].logs) + 1 < MaxLog
      BY <1>3 DEF KnownStep, Known, IndInv, TypeOK, LoggedBy
    <3>2. LastLogIndex(node[a].logs) \in Index
      BY <3>1, LogIndexTyped DEF NodeType
    <3>3. LastLogIndex(node[a].logs) + 1 \in Index
      BY <3>1, <3>2, BoundsAssumption DEF Index
    <3>4. QED
      BY <3>1, <3>3 DEF NewEntry, Entry, Data, NodeType
  <2>4. node'[a].logs = disk'[a].logs
    BY <1>1, <1>3 DEF LoggedBy
  <2>5. QED
    BY <1>3, <2>1, <2>2, <2>3, <2>4
<1>4. ~ CutBy(a, node'[a], disk'[a])
  BY <1>1 DEF CutBy
<1>5. QED
  BY <1>1, <1>2, <1>3, <1>4 DEF LogsFrom

\* A log that starts at 0 ends at its length.
LEMMA LastFromZero ==
  ASSUME NEW logs \in Seq(Entry), Contiguous(logs), BaseLogIndex(logs) <= 0,
         \A k \in DOMAIN logs : logs[k].index >= 0
  PROVE  LastLogIndex(logs) = Len(logs) - 1 /\ (logs # <<>> => BaseLogIndex(logs) = 0)
<1>1. CASE logs = <<>>
  BY <1>1 DEF LastLogIndex
<1>2. CASE logs # <<>>
  <2>1. /\ LastLogIndex(logs) = logs[1].index + Len(logs) - 1
        /\ logs[1].index \in Int /\ Len(logs) \in Nat \ {0}
    BY <1>2, LastOfContiguous
  <2>2. BaseLogIndex(logs) = logs[1].index /\ 1 \in DOMAIN logs
    BY <1>2 DEF BaseLogIndex
  <2>3. QED
    BY <2>1, <2>2
<1>3. QED
  BY <1>1, <1>2

\* What DoApply pushes then continues what was pushed before.
LEMMA PushedExtends ==
  ASSUME NEW logs \in Seq(Entry), logs # <<>> => BaseLogIndex(logs) = 0,
         NEW applied \in Int, NEW commit \in Int,
         applied >= -1, applied < commit, commit < Len(logs)
  PROVE  [k \in 1 .. applied + 1 |-> logs[k].cmd] \o Pushed(logs, applied, commit)
           = [k \in 1 .. commit + 1 |-> logs[k].cmd]
<1> DEFINE old == [k \in 1 .. applied + 1 |-> logs[k].cmd]
           new == [k \in 1 .. commit - applied |-> logs[applied + 1 + k].cmd]
           all == [k \in 1 .. commit + 1 |-> logs[k].cmd]
<1>1. Len(logs) \in Nat /\ logs # <<>> /\ BaseLogIndex(logs) = 0
  <2>1. Len(logs) \in Nat /\ Len(logs) > 0
    OBVIOUS
  <2>2. QED
    BY <2>1
<1>2. Pushed(logs, applied, commit) = new
  <2> DEFINE first == IF applied + 1 < 0 THEN 1 ELSE applied + 2 - 0
             last  == IF commit - 0 + 1 < Len(logs) THEN commit - 0 + 1 ELSE Len(logs)
  <2>1. first = applied + 2 /\ last = commit + 1
    BY <1>1
  <2>2. Pushed(logs, applied, commit) = [k \in 1 .. last - first + 1 |-> logs[first + k - 1].cmd]
    BY <1>1 DEF Pushed
  <2> HIDE DEF first, last
  <2>3. Pushed(logs, applied, commit)
          = [k \in 1 .. (commit + 1) - (applied + 2) + 1 |-> logs[(applied + 2) + k - 1].cmd]
    BY <2>1, <2>2
  <2>4. (commit + 1) - (applied + 2) + 1 = commit - applied
    OBVIOUS
  <2>5. \A k \in 1 .. commit - applied : (applied + 2) + k - 1 = applied + 1 + k
    OBVIOUS
  <2>6. [k \in 1 .. commit - applied |-> logs[(applied + 2) + k - 1].cmd] = new
    BY <2>5
  <2>7. QED
    BY <2>3, <2>4, <2>6
<1>3. \A k \in 1 .. Len(logs) : logs[k].cmd \in Data
  <2>1. \A k \in 1 .. Len(logs) : logs[k] \in Entry
    OBVIOUS
  <2>2. QED
    BY <2>1 DEF Entry
<1>4. applied + 1 \in Nat /\ commit - applied \in Nat /\ commit + 1 \in Nat
  OBVIOUS
<1>5. old \in Seq(Data) /\ new \in Seq(Data) /\ all \in Seq(Data)
      /\ Len(old) = applied + 1 /\ Len(new) = commit - applied /\ Len(all) = commit + 1
  <2>1. \A k \in 1 .. applied + 1 : logs[k].cmd \in Data
    BY <1>1, <1>3
  <2>2. \A k \in 1 .. commit - applied : logs[applied + 1 + k].cmd \in Data
    <3>1. \A k \in 1 .. commit - applied : applied + 1 + k \in 1 .. Len(logs)
      BY <1>1
    <3>2. QED
      BY <1>3, <3>1
  <2>3. \A k \in 1 .. commit + 1 : logs[k].cmd \in Data
    BY <1>1, <1>3
  <2>4. QED
    BY <1>4, <2>1, <2>2, <2>3
<1>6. \A k \in 1 .. applied + 1 : old[k] = logs[k].cmd
  OBVIOUS
<1>7. \A k \in 1 .. commit - applied : new[k] = logs[applied + 1 + k].cmd
  OBVIOUS
<1>8. \A k \in 1 .. commit + 1 : all[k] = logs[k].cmd
  OBVIOUS
<1> HIDE DEF old, new, all
<1>9. /\ old \o new \in Seq(Data) /\ Len(old \o new) = commit + 1
      /\ \A k \in 1 .. Len(old) : (old \o new)[k] = old[k]
      /\ \A k \in 1 .. Len(new) : (old \o new)[Len(old) + k] = new[k]
  <2>1. (applied + 1) + (commit - applied) = commit + 1
    OBVIOUS
  <2>2. old \o new \in Seq(Data)
    BY <1>5
  <2>3. /\ Len(old \o new) = Len(old) + Len(new)
        /\ \A k \in 1 .. Len(old) : (old \o new)[k] = old[k]
        /\ \A k \in 1 .. Len(new) : (old \o new)[Len(old) + k] = new[k]
    <3>1. old \in Seq(Data) /\ new \in Seq(Data)
      BY <1>5
    <3>2. QED
      BY <3>1, Joined
  <2>4. QED
    BY <1>5, <2>1, <2>2, <2>3
<1>10. ASSUME NEW k \in 1 .. commit + 1 PROVE (old \o new)[k] = all[k]
  <2>1. CASE k <= applied + 1
    <3>1. k \in 1 .. applied + 1
      BY <2>1
    <3>2. QED
      BY <1>5, <1>6, <1>8, <1>9, <3>1
  <2>2. CASE ~ (k <= applied + 1)
    <3>1. k - (applied + 1) \in 1 .. commit - applied /\ (applied + 1) + (k - (applied + 1)) = k
      BY <2>2
    <3>2. (old \o new)[k] = new[k - (applied + 1)]
      BY <1>5, <1>9, <3>1
    <3>3. new[k - (applied + 1)] = logs[k].cmd
      BY <1>7, <3>1
    <3>4. QED
      BY <1>8, <3>2, <3>3
  <2>3. QED
    BY <2>1, <2>2
<1>11. old \o new = all
  <2> DEFINE both == old \o new
  <2>1. both \in Seq(Data) /\ Len(both) = Len(all) /\ \A k \in 1 .. Len(both) : both[k] = all[k]
    BY <1>5, <1>9, <1>10
  <2> HIDE DEF both
  <2>2. both = all
    BY <1>5, <2>1
  <2>3. QED
    BY <2>2 DEF both
<1>12. QED
  BY <1>2, <1>11 DEF old, all

\* The unrivalled leader of the first term keeps a log of its own, from which
\* it applies.
LEMMA SoleKept ==
  ASSUME KnownStep, SoleInv, NEW a \in Server, LeadsFirst(a), SoleLeader(a)'
  PROVE  Sole(a)'
<1> DEFINE logs == node[a].logs
           longer == node'[a].logs
<1>1. /\ Unrivalled(a) /\ LeadsFirst(a)' /\ Sole(a)
      /\ logs \in Seq(Entry) /\ longer \in Seq(Entry)
      /\ Contiguous(logs) /\ Contiguous(longer)
      /\ \A k \in DOMAIN logs : logs[k].index >= 0
      /\ \A k \in DOMAIN longer : longer[k].index >= 0
  <2>1. Unrivalled(a) /\ LeadsFirst(a)' /\ Sole(a)
    BY BackedStays DEF SoleLeader, SoleInv
  <2>2. logs \in Seq(Entry) /\ longer \in Seq(Entry)
    BY DEF KnownStep, Known, IndInv, TypeOK, NodeType
  <2>3. Contiguous(logs) /\ Contiguous(longer)
    BY DEF KnownStep, Known, Intact, LogInv, GoodNode, Straight
  <2>4. /\ \A k \in DOMAIN logs : logs[k].index >= 0
        /\ \A k \in DOMAIN longer : longer[k].index >= 0
    BY DEF KnownStep, Known, BackInv, Whole
  <2>5. QED
    BY <2>1, <2>2, <2>3, <2>4
<1>2. \/ ~ LoggedBy(a, node'[a], disk'[a]) /\ longer = logs
      \/ /\ LoggedBy(a, node'[a], disk'[a]) /\ longer = disk'[a].logs
         /\ \E e \in Entry : e.index = LastLogIndex(logs) + 1 /\ longer = Append(logs, e)
  BY <1>1, SoleLog
<1>3. BaseLogIndex(logs) <= 0 /\ AppliedOf(a)
  BY <1>1 DEF Sole
<1> HIDE DEF logs, longer
<1>4. LastLogIndex(logs) = Len(logs) - 1 /\ Len(logs) \in Nat
  BY <1>1, <1>3, LastFromZero
<1>5. /\ BaseLogIndex(longer) <= 0 /\ Len(longer) \in Nat /\ Len(longer) >= Len(logs)
      /\ \A k \in 1 .. Len(logs) : longer[k] = logs[k]
  <2>1. CASE longer = logs
    BY <1>1, <1>3, <1>4, <2>1
  <2>2. ASSUME NEW e \in Entry, e.index = LastLogIndex(logs) + 1, longer = Append(logs, e)
        PROVE  /\ BaseLogIndex(longer) <= 0 /\ Len(longer) \in Nat /\ Len(longer) >= Len(logs)
               /\ \A k \in 1 .. Len(logs) : longer[k] = logs[k]
    <3>1. /\ Len(longer) = Len(logs) + 1 /\ longer # <<>>
          /\ \A k \in 1 .. Len(logs) : longer[k] = logs[k]
          /\ longer[Len(logs) + 1] = e
      BY <1>1, <2>2
    <3>2. BaseLogIndex(longer) <= 0
      <4>1. CASE logs = <<>>
        <5>1. longer[1] = e /\ e.index = 0
          BY <1>4, <2>2, <3>1, <4>1
        <5>2. QED
          BY <3>1, <5>1 DEF BaseLogIndex
      <4>2. CASE logs # <<>>
        <5>1. longer[1] = logs[1]
          BY <1>1, <3>1, <4>2
        <5>2. QED
          BY <1>3, <3>1, <4>2, <5>1 DEF BaseLogIndex
      <4>3. QED
        BY <4>1, <4>2
    <3>3. QED
      BY <1>4, <3>1, <3>2
  <2>3. QED
    BY <1>2, <2>1, <2>2
<1>6. LastLogIndex(longer) = Len(longer) - 1 /\ (longer # <<>> => BaseLogIndex(longer) = 0)
  BY <1>1, <1>5, LastFromZero
<1>7. ASSUME NEW e \in Entries' PROVE e.index <= LastLogIndex(longer)
  <2>1. e.index \in Int
    BY BoundsAssumption DEF Entries, Entry, Index
  <2>2. CASE e \in Entries
    <3>1. e.index <= LastLogIndex(logs)
      BY <1>1, <2>2 DEF Sole, logs
    <3>2. QED
      BY <1>4, <1>5, <1>6, <2>1, <3>1
  <2>3. CASE e \notin Entries
    <3>1. PICK s \in Server : LoggedBy(s, node'[s], disk'[s]) /\ e = Newest(s)
      BY <2>3, EntriesFrom
    <3>2. s = a
      BY <1>1, <3>1, SoleLogs
    <3>3. LastLogIndex(disk'[a].logs) = e.index
      BY <3>1, <3>2, LoggedLast
    <3>4. QED
      BY <1>2, <1>6, <2>1, <3>1, <3>2, <3>3
  <2>4. QED
    BY <2>2, <2>3
<1>8. ASSUME NEW m \in rpcs', Logging(m), ~ IsRequest(m), m.dst = a, m.ok
      PROVE  m.lastLogIndex <= LastLogIndex(longer)
  <2>1. m.type = "AppendEntriesReply" /\ ~ m.isHeartbeat
    BY <1>8 DEF Logging, IsRequest
  <2>2. m.src \in Server /\ m.lastLogIndex \in Int
    <3>1. m \in AppendReplyType
      BY <2>1, CallKinds DEF KnownStep, Known, IndInv, TypeOK
    <3>2. QED
      BY <3>1, BoundsAssumption DEF AppendReplyType, Index
  <2>3. CASE \E c \in rpcs : Like(m, c)
    <3>1. m \in rpcs
      BY <2>1, <2>3 DEF Like, IsRequest
    <3>2. m.lastLogIndex <= LastLogIndex(logs)
      BY <1>1, <1>8, <3>1 DEF Sole, logs
    <3>3. QED
      BY <1>4, <1>5, <1>6, <2>2, <3>2
  <2>4. CASE ~ \E c \in rpcs : Like(m, c)
    <3> DEFINE theirs == node'[m.src].logs
    <3>1. m.lastLogIndex = LastLogIndex(theirs)
      BY <1>8, <2>1, <2>4 DEF KnownStep, Summary, Calls, CallFrom
    <3>2. theirs \in Seq(Entry)
      BY <2>2 DEF KnownStep, Known, IndInv, TypeOK, NodeType
    <3>3. CASE theirs = <<>>
      BY <1>5, <1>6, <3>1, <3>3 DEF LastLogIndex
    <3>4. CASE theirs # <<>>
      <4>1. theirs[Len(theirs)] \in Entry /\ Len(theirs) \in DOMAIN theirs
        BY <3>2, <3>4, EntryTyped
      <4>2. theirs[Len(theirs)] \in Entries'
        BY <2>2, <4>1 DEF Entries, In, KnownStep, Known, BackInv, Whole
      <4>3. LastLogIndex(theirs) = theirs[Len(theirs)].index
        BY <3>4 DEF LastLogIndex
      <4>4. QED
        BY <1>7, <3>1, <4>2, <4>3
    <3>5. QED
      BY <3>3, <3>4
  <2>5. QED
    BY <2>3, <2>4
<1>9. /\ node'[a].lastApplied < Len(longer)
      /\ node'[a].channel = [k \in 1 .. node'[a].lastApplied + 1 |-> longer[k].cmd]
  <2> DEFINE o == node[a]
             n == node'[a]
  <2>1. /\ o.lastApplied < Len(logs) /\ o.lastApplied = o.commitIndex
        /\ o.channel = [k \in 1 .. o.lastApplied + 1 |-> logs[k].cmd]
    BY <1>3 DEF AppliedOf, SoleInv, Traced, logs
  <2>2. /\ o.lastApplied \in Int /\ o.lastApplied >= -1 /\ n.commitIndex \in Int
        /\ o.commitIndex \in Int
    <3>1. o \in NodeType /\ n \in NodeType
      BY DEF KnownStep, Known, IndInv, TypeOK
    <3> HIDE DEF o, n
    <3>2. o.lastApplied \in Index /\ n.commitIndex \in Index /\ o.commitIndex \in Index
      BY <3>1 DEF NodeType
    <3>3. QED
      BY <3>2, BoundsAssumption DEF Index
  <2>3. AppliedFrom(a, n)
    BY DEF KnownStep, Summary, Changes, Change
  <2>4. o.channel = [k \in 1 .. o.lastApplied + 1 |-> longer[k].cmd]
    <3>1. \A k \in 1 .. o.lastApplied + 1 : k \in 1 .. Len(logs)
      BY <1>4, <2>1, <2>2
    <3>2. \A k \in 1 .. o.lastApplied + 1 : logs[k].cmd = longer[k].cmd
      BY <1>5, <3>1
    <3>3. QED
      BY <2>1, <3>2
  <2>5. ASSUME NowApplied(n, o), o.commitIndex < n.commitIndex, n.commitIndex < Len(longer)
        PROVE  /\ n.lastApplied < Len(longer)
               /\ n.channel = [k \in 1 .. n.lastApplied + 1 |-> longer[k].cmd]
    <3>1. ~ (o.lastApplied >= n.commitIndex) /\ o.lastApplied < n.commitIndex
      BY <2>1, <2>2, <2>5
    <3>2. n.lastApplied = n.commitIndex /\ n.channel = o.channel \o Pushed(n.logs, o.lastApplied, n.commitIndex)
      BY <2>5, <3>1 DEF NowApplied
    <3>3. [k \in 1 .. o.lastApplied + 1 |-> longer[k].cmd] \o Pushed(longer, o.lastApplied, n.commitIndex)
            = [k \in 1 .. n.commitIndex + 1 |-> longer[k].cmd]
      BY <1>1, <1>6, <2>2, <2>5, <3>1, PushedExtends
    <3>4. n.logs = longer
      BY DEF longer
    <3>5. QED
      BY <2>4, <2>5, <3>2, <3>3, <3>4
  <2>6. CASE SameApplied(n, o)
    BY <1>4, <1>5, <2>1, <2>2, <2>4, <2>6 DEF SameApplied
  <2>7. CASE n.lastApplied = -1 /\ n.channel = <<>>
    <3>1. <<>> = [k \in 1 .. -1 + 1 |-> longer[k].cmd]
      OBVIOUS
    <3>2. QED
      BY <1>5, <2>7, <3>1
  <2>8. CASE /\ n.commitIndex = LastLogIndex(n.logs) /\ n.commitIndex = LastLogIndex(o.logs) + 1
             /\ NowApplied(n, o)
    <3>1. n.commitIndex = Len(longer) - 1 /\ n.commitIndex = Len(logs)
      BY <1>4, <1>6, <2>8 DEF logs, longer
    <3>2. QED
      BY <1>4, <1>5, <2>1, <2>2, <2>5, <2>8, <3>1
  <2>9. CASE \E r \in rpcs : /\ r.type = "AppendEntriesReply" /\ Logging(r) /\ r.dst = a /\ r.success
                             /\ n.logs = o.logs /\ n.commitIndex = r.lastLogIndex
                             /\ r.lastLogIndex > o.commitIndex /\ NowApplied(n, o)
    <3>1. PICK r \in rpcs : /\ r.type = "AppendEntriesReply" /\ Logging(r) /\ r.dst = a /\ r.success
                            /\ n.logs = o.logs /\ n.commitIndex = r.lastLogIndex
                            /\ r.lastLogIndex > o.commitIndex /\ NowApplied(n, o)
      BY <2>9
    <3>2. r.ok /\ ~ IsRequest(r)
      BY <3>1 DEF SoleInv, Traced, IsRequest
    <3>3. n.commitIndex <= Len(logs) - 1
      BY <1>1, <1>4, <3>1, <3>2 DEF Sole, logs
    <3>4. n.commitIndex < Len(longer) /\ o.commitIndex < n.commitIndex
      BY <1>4, <1>5, <2>2, <3>1, <3>3
    <3>5. QED
      BY <2>5, <3>1, <3>4
  <2>10. QED
    BY <2>3, <2>6, <2>7, <2>8, <2>9 DEF AppliedFrom
<1>10. QED
  BY <1>5, <1>7, <1>8, <1>9 DEF Sole, AppliedOf, longer

LEMMA SoleStep ==
  ASSUME KnownStep, SoleInv
  PROVE  SoleInv'
<1>1. Traced' /\ Owned'
  BY TracedStep, OwnedStep DEF SoleInv
<1>2. ASSUME NEW a \in Server, SoleLeader(a)' PROVE Sole(a)'
  BY <1>2, SoleFresh, SoleKept
<1>3. QED
  BY <1>1, <1>2 DEF SoleInv

\* Whatever the number of nodes, the leader of the first term applies the
\* beginning of its log, each entry once, as long as no other node was ever
\* voted for by another and no file has lost its term or a part of an entry.
IntactSole == Intact => SoleInv
SoleApplies == Intact => \A a \in Server : SoleLeader(a) => AppliedOf(a)

THEOREM SoleLeaderApplies == Spec => []SoleApplies
<1>1. Init => IntactSole
  <2> SUFFICES ASSUME Init PROVE SoleInv
    BY DEF IntactSole
  <2>1. Entries = {}
    BY DEF Init, Entries, In, NewNode
  <2>2. Traced
    BY DEF Init, Traced, NewNode
  <2>3. \A a \in Server : ~ LeadsFirst(a)
    BY DEF Init, LeadsFirst, NewNode
  <2>4. QED
    BY <2>1, <2>2, <2>3 DEF SoleInv, Owned, SoleLeader
<1>2. IntactSole /\ IntactKnown /\ IntactKnown' /\ [IntactStep]_vars => IntactSole'
  <2> SUFFICES ASSUME IntactSole, IntactKnown, IntactKnown', [IntactStep]_vars, Intact' PROVE SoleInv'
    BY DEF IntactSole
  <2>1. KnownStep
    BY StutterKnown DEF IntactStep
  <2>2. QED
    BY <2>1, SoleStep DEF IntactSole, KnownStep, Known
<1>3. IntactSole => SoleApplies
  BY DEF IntactSole, SoleApplies, SoleInv, Sole
<1>4. QED
  BY <1>1, <1>2, <1>3, KnownInvariance, PTL DEF Spec

\* Up to two nodes, the leader of the first term is unrivalled: the other node
\* has voted for it.
LEMMA TwoUnrivalled ==
  ASSUME Cardinality(Server) <= 2, Known, NEW a \in Server, LeadsFirst(a)
  PROVE  Unrivalled(a)
<1> SUFFICES ASSUME NEW c \in Peers(a), Backed(c) PROVE FALSE
  BY DEF Unrivalled
<1>1. c \in Server /\ c # a /\ Peers(c) # {}
  BY DEF Peers
<1>2. PICK v \in votes : v.candidate = c /\ v.voter # c
  BY <1>1 DEF Backed
<1> DEFINE t == v.term
<1>3. v.voter \in Server /\ t \in Nat /\ t >= 1 /\ v = [voter |-> v.voter, term |-> t, candidate |-> c]
  BY <1>2, BoundsAssumption DEF Known, IndInv, TypeOK, Term, SelfVoted
<1>4. v.voter = a
  <2> SUFFICES ASSUME v.voter # a PROVE FALSE
    OBVIOUS
  <2> DEFINE p == v.voter
  <2>1. /\ IsFiniteSet(Server) /\ Cardinality(Server) \in Nat /\ Cardinality(Server) <= 2
        /\ IsFiniteSet(Server \ {a}) /\ Cardinality(Server \ {a}) = Cardinality(Server) - 1
    BY ServerAssumption, FS_CardinalityType, FS_RemoveElement
  <2>2. c \in Server \ {a}
    BY <1>1
  <2>3. /\ IsFiniteSet((Server \ {a}) \ {c})
        /\ Cardinality((Server \ {a}) \ {c}) = Cardinality(Server \ {a}) - 1
    BY <2>1, <2>2, FS_RemoveElement
  <2>4. p \in (Server \ {a}) \ {c}
    BY <1>2, <1>3
  <2>5. Cardinality((Server \ {a}) \ {c}) \in Nat
    BY <2>3, FS_CardinalityType
  <2>6. Cardinality((Server \ {a}) \ {c}) = 0
    BY <2>1, <2>3, <2>5
  <2>7. QED
    BY <2>3, <2>4, <2>6, FS_EmptySet
<1>5. disk[a].term >= t /\ disk[a].term = 1
  BY <1>2, <1>4, LeaderWrote DEF Known, VotesCovered
<1>6. t = 1
  BY <1>3, <1>5
<1>7. FirstVoters(a) # {}
  <2>1. Cardinality(FirstVoters(a)) >= 1
    BY LeaderVoters DEF Known
  <2>2. QED
    BY <2>1, FS_EmptySet
<1>8. [voter |-> a, term |-> 1, candidate |-> a] \in votes
  BY <1>7 DEF FirstVoters, Known, SelfVoted
<1>9. QED
  BY <1>1, <1>2, <1>3, <1>4, <1>6, <1>8 DEF Known, VotesUnique

\* As long as no file has lost its term or a part of an entry, what the leader of
\* the first term of up to two nodes has given to its state machine is the
\* beginning of its log, each entry once.
THEOREM FirstLeaderApplies ==
  ASSUME Cardinality(Server) <= 2
  PROVE  Spec => []AppliedIsLog
<1>1. IntactKnown /\ SoleApplies => AppliedIsLog
  BY TwoUnrivalled DEF IntactKnown, SoleApplies, Intact, AppliedIsLog, AppliedOf, SoleLeader, LeadsFirst, Leads
<1>2. QED
  BY <1>1, KnownInvariance, SoleLeaderApplies, PTL

==============================================================================
