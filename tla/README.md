# A TLA+ model of SRaft and mymuduo

The repository holds two C++ programs. `src/SRaft` is a replicated key-value
store over Raft and gRPC. `src/mymuduo` is a reactor network library in the
manner of Muduo. Neither uses the other. This directory holds TLA+ modules of
their core, the TLC configurations that check them, and TLAPS proofs.

Where to begin: `SRaft.tla` for the consensus, `TcpConnection.tla` for the
network library; section 3 says what is checked, section 4 what is proved, and
section 6 what is left out.

`PROJECT.json` lists the components, the runs, the source lines behind every
definition (`map`), the mutants that show each property can fail, the hazards
and the theorems. Source references below are relative to `src/`.

## 1. The system

### SRaft: consensus, storage, calls

| component | state | operations |
|---|---|---|
| consensus node, `SRaft/SRaft.{h,cc}` | `state_`, `currentTerm_`, `votesRecieved_`, `logs`, `commitIndex_`, `lastApplied_`, `nextIndex`/`matchIndex` of every peer, all under `mut_` | constructor, `AddPeer`, `Run`, `OnTimer` (three deadlines), `DoElection`, `DoLog`, `DoAppendEntries`, `DoApply`, handlers of both requests and both answers |
| persistence, `SRaft.cc:45-85` | one file per node with term, vote and log | `Dump`, `Load` |
| messages, `SRaft/raft_messages.pb.*`, `raft_messages.grpc.pb.*` (generated) | thirteen message types: members, a has-bit for each; two services in use | setters, `Clear`, `MergeFrom`, copying, swapping, parsing, writing, `IsInitialized`; stubs and registered handlers |
| calls, `SRaft/SRaftRpc.{h,cc}` | a channel per peer; a detached thread per call | `RequestVote`, `AppendEntries`; `Get`, `PutAppend` for clients |
| `SRaft/Skvserver.{h,cc}` | `kvDB_`, `mut_`, `tobeDestroy_`, thread `recieveMsgThread` | `get`, `putAppend`, the receiving loop, constructor and destructor |
| `SRaft/MyChannel.{h,cc}` | a queue, a mutex, a condition variable | `pushData`, `popData` |
| `SRaft/Skvclient.{h,cc}` | `servers_`, `leaderName` | `Get`, `Put` |

How they interact. A client calls every server through gRPC. A server under its
`mut_` asks its node whether it leads and gives it the command with `DoLog`. The
node appends, writes its file and sends `AppendEntries`; answers raise
`commitIndex_`, and `DoApply` pushes the committed commands into the
`MyChannel` shared with the server, whose `recieveMsgThread` pops them and
writes `kvDB_`. Every handler of a node holds the node's `mut_` for its whole
body; between nodes there are only calls.

What is hard here: calls have no deadline and a thread each, so answers come in
any order and arbitrarily late; a failed call runs the same answer handler, with
a default response; a process may die between any two handlers and comes back
from its file, and it serves its port before `Run` has loaded that file; it
may die within `Dump`, which has emptied the file first, and `Load` ignores the
result of the parse; a message with one required member missing is a failed
call, whatever its handler returned; the server asks for leadership and uses it
in two critical sections; the receiving thread writes without the server's
mutex.

What makes it correct: one vote per voter and term, across every crash that
leaves the file its term; a file whose term no handler lowers, and which is a
beginning of one `Dump` and never a mixture of two; messages that are read as they were written; logs whose positions match their indexes, since
`GetLogByIndex` addresses by difference; commits backed by acknowledgements; a
channel without lost wakeups; a database that is the replay of what was applied.

### mymuduo: loops, threads, connections, buffers

| component | state | operations |
|---|---|---|
| `EventLoop` | `quit_`, `pendingFunctors_`, `callingPendingFunctors_`, an eventfd | `loop`, `quit`, `RunInLoop`, `QueueInLoop`, `DoPendingFunctors` |
| `Channel`, `Poller`, `EPollPoller` | `events_`, `index_`, the epoll set | enabling, disabling, `UpdateChannel`, `RemoveChannel`, `Poll`, `HandleEvent` |
| `Thread`, `EventLoopThread`, `EventLoopThreadPool` | `tid_` and a semaphore; `loop_`, `mutex_`, `cond_`; `loops_`, `next_` | `start`, `startloop`, `ThreadFunc`, `Start`, `GetNextLoop`, the three destructors |
| `TcpConnection` | `state_`, `outputBuffer_`, `inputBuffer_`, its channel and socket | `send`, `sendInLoop`, `shutdown`, `shutdownInLoop`, `connectEstablished`, `connectDestroyed`, four handlers |
| `Acceptor`, `TcpServer` | `connections_` | `newConnection`, `removeConnection`, `start` |
| `Buffer` | a vector and two indexes | `append`, `readFd`, `writeFd`, `retrieve`, `makeSpace` |

How they interact. The main loop accepts a connection and hands it to a loop of
the pool with `RunInLoop`. That loop reads, writes and closes; on close, it asks
the main loop to erase the connection from the map, which asks the io loop to
destroy it. Other threads reach a connection only through `send` and
`shutdown`, which read `state_` and queue the rest on the loop.

What is hard here: a functor queued at the moment the loop goes to sleep; two
handshakes, one of them without a mutex, when a thread starts, and a destructor
that reads and quits a loop its thread may just be entering or leaving; state that is
tested in one thread and used later in another; closing, destroying, sending
and shutting down one connection in every order; a poller that exits the
process when index and epoll set disagree; index arithmetic in the buffer.

### Not part of the model's subject

`Socket`, `InetAddress`, `Logger`, `Timestamp`, `CurrentThread` keep no state a
property depends on.

## 2. The modules

| module | models | state and actions |
|---|---|---|
| `SRaft` | the nodes, their files and the calls between them | `node[i]` is the record of the C++ members, `disk[i]` the file, `rpcs` the calls and answers in flight; one action per handler, timer deadline, life-cycle step and way a call ends |
| `SRaftMC` | model-checking wrapper | symmetry of nodes and commands |
| `VoteLedger` | abstract: what votes promise | a durable term per voter and the highest one it has forgotten; `Vote`, `Advance` and `Forget` |
| `Mailbox` | abstract: a queue of numbered items | `Put`, `Take` |
| `Messages` | the thirteen generated message types | per type six tables, each read off another piece of the generated code: memory, has-bits, `Clear`, wire format, required mask, swapped range; the methods of stubs and services |
| `Codec` | what the generated code does with a message | operators over those tables: `Clear`, `MergeFrom`, `CopyOf`, `SwapIn`, `Serialize`, `Parse`, and `Cuts`, the ways a stream may end |
| `Calls` | the messages the program builds | the members every call site and every path of a handler sets |
| `Persistence` | `Dump` and `Load` of one node | the file as the fields that reached it; `Dump` empties, `Write` reaches any part, `Close` ends; `Crash` anywhere |
| `PersistenceMC` | composes `Persistence` and `Calls` for TLC | |
| `KvServer` | one `Skvserver`, its `MyChannel` and what it sees of its node | program counters of the receiving thread and of each gRPC handler |
| `KvClient` | one `Skvclient` and the servers it calls | the position in `Get`, the calls of `Put` in flight |
| `EventLoop` | one loop and the threads that use it | the owner's position in `loop()`, both queues, the eventfd |
| `LoopThread` | the start of a pool, the choice of a loop, the end of the loops and the destructors | positions of the starter (later the destroyer) and of every thread, semaphore, notification, `quit_` of every loop |
| `TcpConnection` | one connection with channel, poller entry, server map | a record `conn`, the queues of both loops, positions of other threads |
| `Buffer` | the buffer, byte by byte | vector, both indexes, the numbers of the bytes |
| `SRaftProofs`, `VoteLedgerProofs`, `PersistenceProofs`, `KvServerProofs`, `EventLoopProofs`, `LoopThreadProofs`, `TcpConnectionProofs`, `BufferProofs` | theorems | |

Composition. `SRaft` instantiates `VoteLedger` with the refinement mapping
`Voter <- Server`, `durable <- disk[i].term`, `forgotten <- lost[i].term`: the property `VotesAreDurable` is
the ledger's specification. `EventLoop` instantiates `Mailbox` with
`put <- queued`, `taken <- ran`, and `KvServerProofs` with `put <- Len(pushed)`,
`taken <- Popped`: both queues are the same mailbox. `KvServer` and `KvClient` each contain the part
of the layer below that they can see (`ChangeLeader`, `Replicate`, `PushData`;
`Change`), more permissive than `SRaft`. `Persistence` has the file field by
field, and says what `Load` finds in it: after a `Dump` that ended, what that was
called with, and after one that did not, the beginnings `SRaft` lets a process
leave behind (`CutShort`, `CutTorn`). `Calls` justifies which calls `SRaft` lets
fail: those whose message lacks a required member (`Malformed`, and a candidate
that asks a node which is not running) and no others. `TcpConnection` uses of `EventLoop`
that functors run once and in order, which `EventLoop` checks and proves.

Each module also holds operators marked *Faulty variant*. No specification uses
them. They are the mutations under which a property must fail.

### Grain of atomicity

* A handler of `SRaft` is one action because it holds `mut_` throughout. A
  call is a message; the thread that made it is the flag `waiting`, which a
  crash clears. The null peer that a failed answer leaves in `peers_` is the
  field `nullPeer`; the process ends in the next loop over the peers.
* In `SRaft` a `Dump` that ends is part of the action that calls it. For a process
  that ends within it, `DumpCut` has one disjunct per call of `Dump`: the file
  is left empty, without its last entries, with a torn last entry, or with
  a term that was cut (`CutShort`, `CutTorn`); the process is gone, the call
  it served fails and nobody is answered. The members stand in the file in the
  order of their numbers, so a file without its whole term has no log. The history
  `lost` keeps, per node, the highest term its file has lost and whether an
  entry was torn: after such a crash the code gives no guarantee, and the
  properties say so. `Persistence` splits the write itself: after the file was emptied, after any part of the record was written,
  after all of it. Nothing else of the node runs meanwhile, since it holds
  `mut_`. A file is a sequence of fields with tag and value, not of bytes; the
  last field of a cut file may be torn, and its member is then missing or any
  value (`Torn`).
* In `KvServer` the steps are those at which another thread can act: the
  tests of the flag and of the queue, the wait, the beginning and the end of the
  write of `kvDB_`, and for handlers the lock, the test of the leadership, and
  the rest. A command keeps its operation, key and one word; a value that
  `ss >> value` cannot read is `NoWord`.
* In `EventLoop` queueing and `Wakeup()` are two steps, since the eventfd is
  written after the unlock; so are setting `quit_` and writing.
* In `LoopThread` every step of `ThreadFunc` is one of its own, since its
  `unique_lock` holds no mutex (`EventLoopThread.cc:47`), and so are the test of
  `loop_` and the call of `quit()` in the destructor. `quit()` on a loop whose
  thread has left `ThreadFunc` touches a dead object: the process goes on or
  ends. Callbacks of connections may quit the loop they run in.
* In `TcpConnection` a callback of the loop is one action, except
  `connectDestroyed`, which other threads see between its assignment in the
  condition (`TcpConnection.cc:152`) and `setState`. The socket takes any part
  of what is written. `SendSize` units make a message. Threads hold their
  `TcpConnectionPtr` while queued work refers to the connection. The
  high-water callback is unset, and the write-complete callback is set.
* The operations of `Buffer` are atomic: a buffer belongs to one loop.

## 3. The runs

TLC explores every behaviour within the bounds. `CHECK_DEADLOCK FALSE` stands in
every configuration because every model has legitimate ends: the bounds are used
up, a loop has quit, a connection is gone, a start has thrown.

| run | bounds | what it shows |
|---|---|---|
| `SRaft_votes` | 3 nodes, 2 terms, 1 fault, no commands | a voter votes once per term above those its file has lost to a crash within `Dump` (`VoteOncePerTerm`); votes are durable with the step that gives them, and a durable term falls only by such a crash (`VotesAreDurable`, the refinement of `VoteLedger`); until a term is lost the first term has one leader (`FirstTermLeaderUnique`) |
| `SRaft_logs` | 2 nodes, 2 terms, 2 entries, 2 commands, 1 fault | `TypeOK`; consecutive indexes in memory and file until an entry is torn (`ContiguousLog`); a commit stays acknowledged (`CommitIsAcknowledged`) and never goes back although answers are reordered (`CommitNeverGoesBack`); until a file loses its term or a part of an entry, entries of the first term agree (`FirstTermEntriesAgree`) and its leader applies the log in order, each entry once (`AppliedIsLog`) |
| `SRaft_live` | 2 nodes, 2 terms, 1 entry, 1 fault | two leaders at once do not last (`LeaderContentionEnds`) |
| `SRaft_election` | 3 nodes, 2 terms, no fault | expected violation of `ElectionSafety` |
| `Persistence` | 2 terms, 2 entries, 2 commands, 2 crashes | the file is a beginning of what the last `Dump` had to write, all of it once it ended (`FileIsCut`); so `Load` gets the node back or a beginning of it, never a log without its term and vote (`LoadedIsBeginning`); the result `Load` ignores would tell it (`TornIsRefused`). In the states before the first `Dump`: all thirteen messages are read as written (`MessagesRoundTrip`), no object keeps anything of an earlier use or of a broken parse (`MessagesForget`), and what is built at one end is understood at the other (`MessagesUnderstood`) |
| `EventLoop` | 2 threads, 4 functors | no wakeup is lost (`NoLostWakeup`), functors run once and in order (`RunOnceInOrder`, the refinement of `Mailbox`), each queued functor runs (`EveryFunctorRuns`) and `quit()` ends the loop (`QuitEndsLoop`) without help of the poll timeout |
| `KvServer` | 2 handlers, 1 key, 1 word and the unreadable one, 2 requests, 1 entry of other leaders | `kvDB_` is the replay of the pushed commands (`DbIsReplay`), every request is answered (`EveryRequestAnswered`) and every command executed (`EveryCommandExecuted`), and a destroyed server ends if a command is still queued (`CommandEndsReceiver`) |
| `TcpConnection` | 2 threads, 3 calls, 2 units a message, 2 messages of the peer, 0 or 1 loop thread | epoll and channel agree and `epoll_ctl` is never refused (`RegistrationAgrees`); output in order (`OutputInOrder`), watched while buffered (`OutputIsWatched`), the write side of a connection that is up closes only when all that `sendInLoop` took over is out, and by `shutdownInLoop` only after all that was queued before `shutdown()` (`ShutdownAfterOutput`); UP once and first, and a connection in `kDisconnected` is not watched (`EndsForGood`); a closed connection leaves map and poller (`ClosedIsRemoved`); `shutdown()` completes (`ShutdownCompletes`) |
| `LoopThread` | 0 to 3 threads, 7 connections, with and without init callback | a started thread has its tid and its initialised loop (`StartedIsReady`); connections get the loops in turn, with the read past the end once in every round (`ChosenInTurn`); the destructor passes no `EventLoopThread` whose thread still runs (`ReleasedAfterThread`); nothing but the one missed notification can hang the start (`OnlyMissedNotifyHangs`) |
| `LoopThread_start` | 1 thread | expected violation of `StartReturns` |
| `KvClient` | 3 servers, 2 gets, 1 put, 3 changes | `Get` finds a leader that stays (`GetFindsLeader`), `Put` reaches it (`PutReachesLeader`) |
| `Buffer` | prepend 2, initial size 2, extra buffer 3, 9 bytes | layout (`TypeOK`), order of the bytes (`ReadableInOrder`), bounded growth (`GrowthBounded`) |

Why the bounds are enough for the question. Two terms let a vote, an answer or
an entry of the first meet the second; a third adds repetitions. One fault is one
crash, within a `Dump` or not, or one dropped connection at any point. Three nodes are the least for
which a majority is not everybody; for replication the pair leader/follower is
what the handlers see, and two entries let two acknowledgements overtake each
other. A number that was cut within reads as some other one; in `SRaft` that is any
term or index of the model (in `Persistence` the value `Torn`). Two entries in a file give a whole one before a torn one, and two crashes
a torn file that is overwritten and torn again. The codec is evaluated over
every set of has-bits of every type, with zero and nonzero members, up to two
entries, and over every cut of three samples of each. In `SRaft`, `MaxCalls` bounds when a node may start further calls, not the order of
those in flight. Four functors allow a queue, a swap, a functor queued while
functors run, and one behind it. Two units split a message into a sent and a
buffered part; two threads with three calls give every pair of `send` and
`shutdown` racing with the close, and a message behind them; two messages of the
peer let the callback answer while an answer is still buffered. Seven connections go round three loops and the element past them almost twice.
Nine bytes on a vector of four force growth, moving, and a read split between
the vector and `extrabuf`. `UINT64_MAX` is any number above the terms: only its
order is used.

### Fairness

* `SRaft_live`: the timer thread polls every 30 ms, so an expired deadline is
  served; gRPC ends each call with an answer or a failure. No fairness is asked
  of crashes, drops or clients.
* `EventLoop`: threads run and callbacks return. None for a poll that ends by its
  timeout, so no property rests on those ten seconds.
* `KvServer`: weak fairness of each thread. Handlers that compete for `mut_` are
  finitely many within the bound. None for spurious wakeups.
* `TcpConnection`: a loop handles every event and functor of a round; threads
  finish calls they began; the socket becomes writable again (its peer reads or
  is gone). The peer need not do anything, and users need not call.
* `LoopThread`: threads run; none for spurious wakeups.
* `KvClient`: each call ends.

### Expected violations

Two runs check something the repository says and the code does not do.

* `SRaft_election`. `OnRequestVoteResponse` counts a granted vote while the node
  is a candidate and never compares the term it was given in (`SRaft.cc:414`).
  A late answer elects the node in a later term that has a leader already.
  `README.md:6` calls the project an implementation of Raft.
* `LoopThread_start`. The lock in `ThreadFunc` is default-constructed
  (`EventLoopThread.cc:47`), so `notify_one` can fall between test and wait of
  `startloop`, and `TcpServer::start` never returns. `OnlyMissedNotifyHangs` in
  the passing run says this is the only way.

### Other behaviour the models reach

These follow from the modelled code. They are described here and in the hazards
instead of being runs of their own.

* An acknowledged put may be lost: `putAppend` fills in its answer and then
  ignores what `DoLog` returns (`Skvserver.cc:98-102`), and the node may have
  stopped leading since it was asked. `debug diary.md:21` knows of it: "when put
  failed, it should do something". `Put` of `KvServer` is that step.
* A torn file is read as term 0, as a log without its last entries or with a
  mutilated last one (`SRaft.cc:72`): `IsBeginning` lists what may come back.
* So a voter that dies within `Dump` may vote again in a term in which it has
  voted: of three nodes two may lead the first term after one such crash. A torn
  entry without its index breaks the consecutive indexes, and a torn entry disagrees
  with the whole one on other nodes. The properties of `SRaft` exclude just this, by
  `lost`, `TermsKept` and `NothingTorn`; without these hypotheses they are false.
* A request with entries leaves a leader the leader it was: `OnAppendEntriesRequest`
  stores them and assigns neither `state_` nor `currentTerm_` (`SRaft.cc:273`). With
  three nodes a newer leader may so overwrite what the first one has applied, and
  `AppliedIsLog` fails; with five the first one may then use an index again that
  another node still holds, and `FirstTermEntriesAgree` fails. Section 4 says how far each of them is proved.
* Majorities leave out the node itself: with an even number of nodes half of the
  votes elect (`SRaft.cc:417`); two of five nodes commit (`SRaft.cc:339`).
* The last term of an empty log is -1, the largest `uint64`: a candidate without
  entries is never refused as old (`SRaft.cc:144`).
* A failed call creates a null peer, and the next loop over the peers ends the
  process (`SRaft.cc:295`).
* `kvDB_` is written without `mut_` while `get` may read it (`Skvserver.cc:27`).
* `~Skvserver` joins a thread that may sleep in `popData` for ever
  (`Skvserver.cc:51`); `CommandEndsReceiver` states the condition under which it
  does end.
* A server that is down answers `Get` with a default response that counts as the
  leader's (`Skvclient.cc:23`).
* `connectDestroyed` assigns in its condition, so each closed connection is
  reported DOWN twice (`TcpConnection.cc:152`); `EndsForGood` says what still
  holds.
* Nothing ignores SIGPIPE, so a second write after a reset ends the process
  before `EPIPE` is looked at (`TcpConnection.cc:95`).
* A thread calls `send()` and then `shutdown()` while output is still buffered:
  `handleWrite` drains the buffer, finds `kDisconnecting` and closes the write
  side (`TcpConnection.cc:202`) before the queued `sendInLoop` (56) runs, whose
  message is lost; its write raises SIGPIPE. A `shutdown()` in the message
  callback closes before such a functor, too. `ShutdownAfterOutput` says what does leave
  first.
* A `shutdown()` overlapping the close sets `kDisconnecting` over
  `kDisconnected`; a `sendInLoop` after the removal then registers the channel
  again (`TcpConnection.cc:124`). `EndsForGood` leaves out this one overlap.
* `GetNextLoop` reads one element past the end once per round
  (`EventLoopThreadPool.cc:37`). Without loop threads an unset init callback is
  called and throws (`EventLoopThreadPool.cc:27`).
* `loop()` clears `quit_`, so a `quit()` of the destructor that comes before it is
  lost and `join` waits for ever (`Eventloop.cc:47`). When the destructor did stop
  and join the thread, `~Thread` still waits for a semaphore nobody posts
  (`Thread.cc:24`): the position `joined` of `LoopThread` has no successor, and
  `ReleasedAfterThread` holds because of such waits, not in spite of them.
* `OnRequestVoteRequest` returns without the required members of its answer when
  the node does not run (`SRaft.cc:354`), and `InstallSnapshot` always does
  (`SRaftRpc.cc:57`): the caller sees a failed call. So it does when an entry asked for by index is not in the
  log (`SRaft.cc:428`).

## 4. The proofs

TLAPS checks the theorems for every value of the constants: any finite set of
nodes, any number of threads, functors, bytes and bounds. Crashes within `Dump` are
among the behaviours of every theorem about `SRaft`; some have as a hypothesis what
such a crash has not done:

    TermsKept     no file has lost a term
    NothingTorn   no file has lost a part of an entry (it may have lost whole ones)
    Intact        both

**`SRaftProofs`.** Inductive invariant `IndInv`:

    TypeOK /\ CallersRun /\ TermOnDisk

`CallersRun`: the process of every waiting caller runs, and so does that of the
addressee of every answer. `TermOnDisk`: the term in the file of a running node
does not exceed the one in memory. Why it is needed: a vote is above the
*in-memory* term, while durability speaks of the *file*. The answer handlers
write the file without looking at `running_`, and would write the term 0 of a
node that has not loaded it yet, were it not that only a node that ran has calls
in flight: this is `CallersRun`. Every action is shown to preserve `IndInv` and
to be a step of the ledger or a stutter; a process that ends within `Dump` is a step of the
ledger in each case of what the file keeps, `Forget` if that is an older term and
`Advance` or a stutter if not. Theorems: `TypeCorrect`,
`VotesDurable` (`SRaft` implements `VoteLedger`), `DiskMonotone` (from the same
step), and `OneVotePerTerm`, by the further invariant `VotesRecorded`: each vote
is at most the durable or the forgotten term of its voter, so that a new one above
the forgotten terms is for a later term than any other.

The log has an inductive invariant of its own, `LogInv`, shown from `IndInv`:

    every node is GoodNode /\ a node that does not run has no commit
    /\ GoodFiles(disk) /\ GoodCalls(rpcs)

A follower joins the prefix `FindLog` found to entries another node sent, so its
log stays consecutive only if those were numbered on from `prevLogIndex`:
`GoodCalls` says so of every call in flight, for the entries `GetLogByIndex`
found (a call with another one cannot be parsed). `GoodFiles` carries
consecutiveness through a restart. Both say so as long as nothing was torn
(`Straight`). A commit is backed by `matchIndex` of a peer because no node calls itself, the rest of `GoodCalls`. A node without peers
commits in `DoLog`; that it never committed beyond its own log (`GoodNode`) is
why the commit grows there, too. Every action is shown to keep `LogInv` and to
lower no commit of a process that lives on. Theorems: `IndexesConsecutive`,
`CommitsBacked`, `CommitsStay`. These proofs use `BoundsAssumption` and, for a node
without peers, `ServerAssumption`.

*The first election.* `FirstLeaderUnique` counts votes. Its invariant is
`FirstTally`, which is `TermsKept => TallyInv`, and `TallyInv` says
for the first term, where no answer of an earlier election can exist:

    Standing /\ Asked /\ AskedOnce /\ Tally

`Standing` and `Asked`: who stands for election, leads or has open calls of an
election has a term in its file, and a granted answer is backed by a vote of its
sender in such a term. `AskedOnce`: while that term is the first, a node has at
most one open call to each voter. `Tally`: a count of the first term is at most the
number of its voters whose answer is not still to come, and a leader counted more than half
of its peers. So a leader has the votes of a majority in the ledger, whatever was lost
or came late. With an odd number of nodes, or two, two such sets of voters
meet, and `VoteOncePerTerm` makes the candidates one. With four nodes they need not:
two of four elect, and the hypothesis `Cardinality(Server) % 2 = 1 \/
Cardinality(Server) = 2` cannot be dropped. `TallyInvariance` itself has none on the number of nodes.

*The entries of the first term.* Here each action is summarised once (`Summary`: how
state, log, file, next index and applied entries of a node may change, where each
call in flight comes from, for whom votes are given), and everything else is shown
from the summary and what is `Known` of every state (all invariants above, that a
vote for a node, or a request for one, finds that it voted for itself, and
`BackInv`: who leads or logged was voted for by another). All of this, and the two
invariants that follow, hold as long as the files are `Intact`; a step cannot make
them so again (`IntactBefore`), so an intact state was reached through intact ones.
A file that was cut short without losing its term is among these: its log is a beginning
of the one in memory (`CutLogs`). `FirstEntriesAgree` has the
invariant `IntactOwn`, `Intact => OwnInv`:

    OnceOnly /\ FirstWon /\ Ahead /\ AllCovered

`OnceOnly` is the property, extended to the requests a node may still accept.
`FirstWon`: if such an entry exists the term was won by somebody. `Ahead`: its leader
is not behind any of them, so that it numbers the next one beyond all. That is the
hard part, because a newer leader may overwrite its log while it goes on leading.
`AllCovered` says why nothing of the first term that *others* hold is ever beyond
what remains: the newer leader was voted for by a third node, which is all the others
there are, and every next index, `prevLogIndex` and acknowledged last index that
can reach the old leader covers what these hold. The hypothesis
`Cardinality(Server) <= 3` is used there, and for the winner of the first term.

*What is applied.* `SoleInv` speaks of a first leader no other node rivals: none was
voted for by another node, whatever the number of nodes. The invariant is
`IntactSole`, `Intact => SoleInv`.

    Traced /\ Owned /\ every such leader is Sole

`Owned`: each entry anywhere was made by a node that was voted for and has written
the term of the entry. `Traced`: the calls of `DoLog` and all commits are of nodes
that won an election, and what is applied is what is committed. So the unrivalled
leader is the source of all entries; its log starts at 0, only grows and covers
every index it is told of (`Sole`), which is why `DoApply` never reads outside it.
Theorems: `SoleLeaderApplies`, for any number of nodes, and `FirstLeaderApplies`,
which is `AppliedIsLog` for at most two: the other node could only have been voted
for by the leader itself, which gave its vote of the first term to itself and has
written no newer term (`TwoUnrivalled`). That the default entry is not one a leader
makes is `CmdAssumption`.

**`VoteLedgerProofs`.** The ledger alone never holds two votes of a voter for a
term above those it has forgotten (`LedgerOncePerTerm`); invariant `LedgerInv`.

**`PersistenceProofs`.** The thirteen messages first. A stream is a sequence of
sequences of fields joined to one (`FlattenSeq`), and what such a sequence holds is
shown from the smallest counterexample: no induction theorem is used, only that <
is well founded on the numbers and that a sequence without its last element is
shorter. The lemmas come in the order of the codec: the fields of one member are all of
that member, and reading them gives the member back; the fields of another member do
not disturb it; a message behind another one overwrites, appends or merges. What
they need of the generated tables is said once, and shown type by type:

    WellFormed(T)   numbers, members and has-bits correspond one to one
    ClearsAll(T)    Clear resets every member, under a group of bits that holds its own
    SwapsAll(T)     InternalSwap exchanges every member, in the block or by its address

The last two are where a member added to a message and forgotten in one method would
show. `OneRead` and `TwoRead` then hold of every `Proper` message: one whose members
without has-bit have their zero value, the entries and the nested record included.
The objects and samples of `Codec`, what the call sites build, the entry `DoLog` makes and
the record of a node are shown to be proper, since otherwise the theorems would be
about nothing. Theorems: `OneRead`, `TwoRead`, `CodecIsInverse`,
`EveryMessageRoundTrips`; `UsesLeaveNothing` and `MessagesAreReused` (an object that has
parsed any stream whatever, also one that broke off, keeps nothing of it);
`EntriesArrive` and `CallsAreUnderstood` (what a call site builds, the handler reads, and
a message without a required member is the failed call). `CodecIsInverse` and
`CallsAreUnderstood` are about the messages `Codec` and `Calls` list; `OneRead`, `TwoRead`
and `EntriesArrive` about any values and any number of entries.

The file then. `FileInv` is `FileIsCut`, and between, that a `Dump` under way has the
record of the node it was called with and a file emptied for it. Theorem:
`FileNeverMixed`. What `Load` makes of such a file is read off the record field by
field: name, term and vote, the entries in their order, no nested record, `last_seq` at the end.
`CutOf` says what a cut leaves of such a stream, namely whole fields and a last one
that may be torn, inside which an entry is cut in turn. So only the whole
file has the last field, which is required: any other is refused. Invariant:

    NodeInv  ==  FileInv /\ IsNode(node) /\ IsNode(dumped)

`IsNode`: the log of the node, and of the one dumped last, consists of proper
entries, which is kept also by loading a torn file. Theorems: `TornFileIsRefused`,
`LoadIsBeginning`. No bound and no assumption on the number of terms, entries or
crashes is used.

**`KvServerProofs`.** Invariant `ServerInv`: types, that only puts reach `DoLog`,
and `NoLostWakeup`. One lemma for the receiving thread and the destructor, one for
the node, one for a handler. Theorems: `TypeCorrect`, which includes that no two
handlers are between the test of the leadership and the answer, and
`WakeupReachesReceiver`.

`KvDbReplaysChannel` is `DbIsReplay`. `ChannelInv` says that the queue is the end of
what was pushed and the command in the receiver's hand the one before it; `ReplayInv`
that there is a sequence of databases, one for each command popped so far, each
from the one before by `Exec`, whose last is `kvDB_`. `DbIsReplay` takes the sequence
that the recursive function `Replay` chooses; if that one differed from
it, there would be a least index at which it does, after one at which they agree
(`ReplayIsLast`; that < is well founded on the numbers gives the least index, no
induction theorem is needed).

`ChannelIsMailbox` follows from `ChannelInv`: the channel implements `Mailbox`, and the
command `popData` returns is the next one that was pushed, each once.

**`EventLoopProofs`.** Invariant `LoopInv`:

    TypeOK /\ WorkIsAnnounced /\ Numbered

`NoLostWakeup` speaks of the blocked owner only. `WorkIsAnnounced` extends it to
the owner's way to `Poll()`: except while it handles events, pending work means a
readable eventfd or a thread about to write it. `Numbered` says that what is
queued, taken and run is one sequence. Theorems: `TypeCorrect`, `NoWakeupLost`,
`FunctorsInOrder` (`EventLoop` implements `Mailbox`).

**`LoopThreadProofs`.** Invariant `PoolInv`:

    TypeOK /\ Progress /\ LoopSet /\ Known /\ Passed /\ NextChosen

`StartedIsReady` and `ReleasedAfterThread` compare the starter with threads that
run on their own. `Progress` says how far apart they may be: a thread behind the
starter has posted its semaphore, one before it was not created. `LoopSet` ties
`loop_` to the thread's position, which is what the pool and the destructor
read without a lock; `Known` and `Passed` say what they have concluded from it,
`NextChosen` which element `GetNextLoop` reads next. Theorems: `TypeCorrect`,
`ReadyWhenStarted`, `LoopsInTurn`, `NotDestroyedRunning`. Assumption:
`ThreadBoundsAssumption`.

**`TcpConnectionProofs`.** Invariant `TcpInv`: `TypeOK` and `Sound(conn)`, which
says of the record that epoll has the events of an added channel and nothing of
another, and that a channel that is not added has no events (`Registered`); that
the buffer holds the units after `wire` up to `accepted` (`Ordered`); and that
output waits only while `write` is among the events or the connection was
reported down (`Awaited`). The middle of `Registered` is the strengthening: the
first `Update` after a removal would otherwise put old events back. One lemma
per operator of the module carries `Sound` over, in the order in which the code's
functions call each other; the steps then only say which of them they apply.
`LifeInv` follows the life of the connection through both queues of functors. Before
the callback has heard anything, `connectEstablished` is still to run and no event
or call can have reached the connection; afterwards it is in neither queue, UP was
heard first and once, and a connection in `kDisconnected` watches nothing, though a
functor of another thread may still come. `BehindInv` says that what is left of the
functors that were queued when `shutdown()` was first called (`ahead`) stands before
every `shutdownInLoop`. Theorems: `TypeCorrect`, `EntryAgrees`,
`UnitsInOrder`, `BufferIsWatched`, `StaysEnded` (`EndsForGood`, which says nothing of a
connection that an overlapping `shutdown()` left in `kDisconnecting`) and
`OutputBeforeShutdown` (`ShutdownAfterOutput`: `Awaited` says what an output buffer
that is not empty means for the channel, `shutdownInLoop` tests the channel, and
`BehindInv` says what has run before it).
Assumption: `TcpBoundsAssumption`.

**`BufferProofs`.** Invariant `BufferInv`: `Holds(buffer, taken)`, the layout
and the content as one predicate of a buffer and a position; `peak` bounds
what is readable; and `GrowthBounded`. One lemma per operation (`WrittenExtends`,
`ResizedHolds`, `MovedDownHolds`, `EnsureHolds`, `AppendExtends`,
`ReadFdExtends`, `RetrieveHolds`) says that it carries `Holds` over, and the
steps of the specification follow from them. Theorems: `IndexesInRange`,
`ContentInOrder`, `VectorBounded`. Assumption: `BufferAssumption`.

Only model-checked: what holds under fairness only, since the prover treats neither
liveness nor `ENABLED`: `LeaderContentionEnds`, `EveryFunctorRuns`, `QuitEndsLoop`,
`EveryRequestAnswered`, `EveryCommandExecuted`, `CommandEndsReceiver`,
`ShutdownCompletes`, `ClosedIsRemoved`, `OnlyMissedNotifyHangs`, `GetFindsLeader` and
`PutReachesLeader`. So nothing is proved of `KvClient`, whose two properties are of this
kind. Every safety invariant and action property of the passing runs is a theorem,
three of them for the numbers of nodes they need: `FirstTermLeaderUnique` (odd, or
two), `FirstTermEntriesAgree` (at most three) and `AppliedIsLog` (at most two).
`TallyInv` was model-checked within the bounds of `SRaft_votes`, and `OwnInv` and
`SoleInv` for one, two and three nodes, before they were proved.

## 5. The plan

Done: the consensus core with its vote theorems; the file, the messages and the
calls; the server, client, loop, pool, connection and buffer models; destructors
of the server and of the pool; proofs of every safety property of the passing runs:
votes, log, commits, first election, entries and applied log of `SRaft`; the messages,
what is built of them and the cut file of `Persistence`; the replay and the mailbox
of `KvServer`; the life of `TcpConnection`.

Next, in this order:

1. The destructors of `TcpServer` and of a node with calls in flight.
2. `KvServer` above `SRaft` through a refinement of the part of the node it sees.
3. Safety that `KvClient` could promise: which answers a `Get` may return.

## 6. Not modelled, and why

* Snapshots: `InstallSnapshot` is a stub that answers OK (`SRaftRpc.cc:57-61`) and
  `lastIncludeIndex_` is never assigned. Its messages and its empty answer are in
  `Messages` and `Calls`; there is no logic behind them to model.
* Of the generated code: sizes in bytes and the variable-length form of
  integers, arenas, unknown fields, reflection and descriptors, the asynchronous
  and callback stubs, and the service `RaftStreamMessages`, which nothing uses.
  Strings and numbers are values that are equal or not.
* The destructors of nodes, of gRPC servers and of `TcpServer`: the tests and
  the examples end by ending the process. The destructors of `Skvserver`, the
  pool, `EventLoopThread` and `Thread` are modelled.
* A loop that quits itself before `startloop` has seen it: `QuitInLoop` belongs to
  callbacks of connections, which come later. An init callback that called
  `quit()` would be undone by `loop()`.
* The clock: a deadline may expire at any time, which includes every choice of
  the random intervals.
* The map of channels of a poller and the size of its event list: one channel is
  modelled, and level-triggered events that do not fit come again.
* The contents of messages on a connection: `send` from another thread keeps a
  pointer into a string that may be gone (`TcpConnection.cc:57`), so they are
  undefined; only their order and number are modelled.
* Widths of indexes and of `size_t`: the bounds stay far below them. The one
  conversion that matters, -1 to `uint64`, is `UINT64_MAX`.
