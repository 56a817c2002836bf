------------------------------- MODULE Calls -------------------------------
(***************************************************************************)
(* The messages the program sends through the generated stubs: the members *)
(* each call site sets, for every path through it, and whether the other   *)
(* end can read the result.  All but one of the members of these types are *)
(* required, and the parser refuses a message that lacks one: the call     *)
(* then fails although the handler returned Status::OK.                    *)
(***************************************************************************)
EXTENDS Codec

\* A message after the setters of these members were called.
Build(T, members) == Filled(T, [f \in ToSet(members) |-> Bit(T, f)])

WithEntries(m, entries) == [m EXCEPT !.mem["entries"] = entries]

\* DoLog's entry, and what GetLogByIndex returns for an index it does not have.
LoggedEntry == Build("LogEntry", <<"data", "command", "term", "index">>)
NoEntry == New("LogEntry")

RequestVoteArgs ==
    Build("RequestVoteRequest", <<"initial", "last_log_term", "last_log_index",
                                   "name", "seq", "term", "time">>)

AppendEntriesArgs(entries) ==
    WithEntries(Build("AppendEntriesRequest",
                       <<"name", "term", "leader_commit", "time", "prev_log_index",
                         "prev_log_term", "seq", "initial">>), entries)

GetArgs == Build("GetRequest", <<"key", "clerkid", "cmdindex">>)
PutArgs == Build("PutAppendRequest", <<"key", "value", "op", "clerkid", "cmdindex">>)

\* What the sites pass to each method; InstallSnapshot is never called.
Requests == [
    RequestVote     |-> {RequestVoteArgs},
    AppendEntries   |-> {AppendEntriesArgs(entries) : entries \in
                            {<<>>, <<LoggedEntry>>, <<LoggedEntry, LoggedEntry>>,
                             <<LoggedEntry, NoEntry>>}},
    InstallSnapshot |-> {},
    Get             |-> {GetArgs},
    PutAppend       |-> {PutArgs} ]

-----------------------------------------------------------------------------
(* The answers, by the path through the handler.                           *)

\* Faulty variant: a candidate with an old log is refused without saying so.
VoteAnswersUnsaid == [
    notRunning |-> <<>>,
    oldTerm    |-> <<"name", "seq", "time", "term", "vote_granted">>,
    oldLog     |-> <<"name", "seq", "time", "term">>,
    granted    |-> <<"name", "seq", "time", "term", "vote_granted">> ]
VoteAnswers == [
    notRunning |-> <<>>,
    oldTerm    |-> <<"name", "seq", "time", "term", "vote_granted">>,
    oldLog     |-> <<"name", "seq", "time", "term", "vote_granted">>,
    granted    |-> <<"name", "seq", "time", "term", "vote_granted">> ]

\* All are set before the first test; two are set again after an append.
AppendAnswers ==
    LET first == <<"name", "success", "seq", "term", "last_log_index", "last_log_term", "time">>
    IN  [refused  |-> first,
         appended |-> first \o <<"success", "last_log_index", "last_log_term">>]

SnapshotAnswers == [done |-> <<>>]

GetAnswers == [
    wrongLeader |-> <<"err", "value", "wrongleader">>,
    wrongKey    |-> <<"err", "value", "wrongleader">>,
    found       |-> <<"err", "value", "wrongleader">> ]

PutAnswers == [
    wrongLeader |-> <<"err", "wrongleader">>,
    logged      |-> <<"wrongleader", "err">> ]

Answers == [
    RequestVote     |-> VoteAnswers,
    AppendEntries   |-> AppendAnswers,
    InstallSnapshot |-> SnapshotAnswers,
    Get             |-> GetAnswers,
    PutAppend       |-> PutAnswers ]

-----------------------------------------------------------------------------
(* The way of a message: the call thread's copy of it, the bytes, and what *)
(* the other end reads as the type it expects.                             *)

Sent(from, to, m) == Parse(to, New(to), Serialize(from, CopyOf(from, m)))

Arrives(from, to, m) == Sent(from, to, m) = [msg |-> m, ok |-> TRUE]

Understood(stub, service) ==
    \A method \in DOMAIN stub :
        LET call == stub[method]
            handler == service[call[1] + 1]
        IN  /\ handler[1] = method
            /\ \A m \in Requests[method] :
                IF "entries" \in Members(call[2]) /\ NoEntry \in ToSet(m.mem.entries)
                THEN ~ Sent(call[2], handler[2], m).ok
                ELSE Arrives(call[2], handler[2], m)
            /\ \A path \in DOMAIN Answers[method] :
                LET answer == Build(handler[3], Answers[method][path])
                IN  IF Answers[method][path] = <<>>
                    THEN ~ Sent(handler[3], call[3], answer).ok
                    ELSE Arrives(handler[3], call[3], answer)

\* The stubs and the services they call.
Ends == << [stub |-> RaftMessagesStub, service |-> RaftMessagesService],
           [stub |-> kvserverStub, service |-> kvserverService] >>

\* Every call reaches the handler of its name, and every request and every answer
\* is read as it was built, but for three that lack required members: a request
\* with an entry GetLogByIndex did not find, the answer of a node that is not
\* running to a candidate, and that of InstallSnapshot.  SRaft takes the first two
\* for calls that fail, and all others for calls that do not.
CallsUnderstood == \A i \in DOMAIN Ends : Understood(Ends[i].stub, Ends[i].service)

=============================================================================
