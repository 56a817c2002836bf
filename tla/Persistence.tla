---------------------------- MODULE Persistence ----------------------------
(***************************************************************************)
(* Dump and Load of one node: the file as the stream of fields that        *)
(* reached it.  Dump opens the file with ios::out, which empties it, and   *)
(* writes the record from a buffer; the process may die at any point of    *)
(* that.  The node holds its mutex throughout, so nothing else happens in  *)
(* a Dump.  What Load finds after a Dump that ended is stated here, and    *)
(* what it finds after one that did not; SRaft restarts its nodes from     *)
(* both.                                                                   *)
(***************************************************************************)
EXTENDS Codec

CONSTANTS MaxTerm,     \* bound of the terms
          MaxLog,      \* bound of the log
          MaxCrashes,  \* bound of the crashes
          Commands     \* what DoLog is given

ASSUME PersistenceAssumption ==
    /\ MaxTerm \in Nat /\ MaxTerm < Torn
    /\ MaxLog \in Nat
    /\ MaxCrashes \in Nat
    /\ Commands \subseteq 1 .. (Torn - 1)

VARIABLES node,     \* currentTerm_, votedFor_ and logs
          at,       \* "down", "up" or "dumping"
          record,   \* what the Dump under way has to write
          exists,   \* the file is there
          file,     \* its content
          dumped,   \* history: the node as the last Dump found it
          whole,    \* history: the last Dump ended
          crashes

vars == <<node, at, record, exists, file, dumped, whole, crashes>>

Addr == 1    \* addrStr_; an empty string is 0
Fresh == [term |-> 0, votedFor |-> 0, logs |-> <<>>]

NewEntry(data, term, index) ==
    Filled("LogEntry", [data |-> data, command |-> 0, term |-> term, index |-> index])

LastLogIndex(logs) == IF logs = <<>> THEN -1 ELSE Last(logs).mem.index

-----------------------------------------------------------------------------
(* The record of a node and the node of a record.                          *)

\* What Dump sets before it adds the entries.
Header(n) ==
    Filled("PersistRecord",
           [name |-> Addr, vote_for |-> n.votedFor, term |-> n.term, last_seq |-> 0])

\* Faulty variant: the loop over the log begins at 1.
RecordOfFromOne(n) ==
    [Header(n) EXCEPT !.mem["entries"] =
        [i \in 1 .. Len(n.logs) - 1 |-> CopyFrom("LogEntry", New("LogEntry"), n.logs[i + 1])]]
RecordOf(n) ==
    [Header(n) EXCEPT !.mem["entries"] =
        [i \in DOMAIN n.logs |-> CopyFrom("LogEntry", New("LogEntry"), n.logs[i])]]

NodeOf(r) ==
    [term |-> r.mem.term, votedFor |-> r.mem.vote_for,
     logs |-> [i \in DOMAIN r.mem.entries |-> CopyOf("LogEntry", r.mem.entries[i])]]

\* What ParseFromIstream makes of the file.
Loaded == Parse("PersistRecord", New("PersistRecord"), file)

-----------------------------------------------------------------------------

Init ==
    /\ node = Fresh
    /\ at = "down"
    /\ record = <<>>
    /\ exists = FALSE
    /\ file = <<>>
    /\ dumped = Fresh
    /\ whole = FALSE
    /\ crashes = 0

\* Load does not look at the result of the parse.
Run ==
    /\ at = "down"
    /\ at' = "up"
    /\ node' = IF exists THEN NodeOf(Loaded.msg) ELSE node
    /\ UNCHANGED <<record, exists, file, dumped, whole, crashes>>

\* Faulty variant: the new content replaces the old one only when it is written.
DumpOver(n) ==
    /\ at = "up"
    /\ at' = "dumping"
    /\ record' = Serialize("PersistRecord", RecordOf(n))
    /\ exists' = TRUE
    /\ dumped' = n
    /\ whole' = FALSE
    /\ UNCHANGED <<file, crashes>>
\* Dump up to the buffer: the node was n, and is what its caller makes it.
Dump(n) ==
    /\ at = "up"
    /\ at' = "dumping"
    /\ record' = Serialize("PersistRecord", RecordOf(n))
    /\ exists' = TRUE
    /\ file' = <<>>
    /\ dumped' = n
    /\ whole' = FALSE
    /\ UNCHANGED crashes

HigherTerms == {t \in 1 .. MaxTerm : t > node.term}

DoElection ==
    \E t \in HigherTerms :
        /\ t = node.term + 1
        /\ node' = [node EXCEPT !.term = t, !.votedFor = Addr]
        /\ Dump(node')

\* A granted vote raises the term and leaves votedFor_ alone.
OnRequestVoteRequest ==
    \E t \in HigherTerms :
        /\ node' = [node EXCEPT !.term = t]
        /\ Dump(node')

\* The answer with a newer term is dumped before the term is taken over.
OnRequestVoteResponse ==
    \E t \in HigherTerms :
        /\ node' = [node EXCEPT !.term = t]
        /\ Dump(node)

\* A heartbeat, or a vote that is refused, raises the term without a Dump.
LearnTerm ==
    /\ at = "up"
    /\ \E t \in HigherTerms : node' = [node EXCEPT !.term = t]
    /\ UNCHANGED <<at, record, exists, file, dumped, whole, crashes>>

DoLog ==
    /\ Len(node.logs) < MaxLog
    /\ \E c \in Commands :
        node' = [node EXCEPT !.logs = Append(@, NewEntry(c, node.term, LastLogIndex(@) + 1))]
    /\ Dump(node')

\* The log is cut behind the entry the request refers to, all of it if there is
\* none, and gets the entry of the request; or nothing changes.
OnAppendEntriesRequest ==
    /\ \/ node' = node
       \/ \E kept \in Prefixes(node.logs), c \in Commands, t \in 1 .. MaxTerm :
            /\ Len(kept) < MaxLog
            /\ node' = [node EXCEPT !.logs = Append(kept, NewEntry(c, t, LastLogIndex(kept) + 1))]
    /\ Dump(node')

\* Some of the bytes reach the file, or all of them.
Write ==
    /\ at = "dumping"
    /\ file = <<>>
    /\ file' \in Cuts("PersistRecord", record)
    /\ UNCHANGED <<node, at, record, exists, dumped, whole, crashes>>

Close ==
    /\ at = "dumping"
    /\ at' = "up"
    /\ file' = record
    /\ whole' = TRUE
    /\ record' = <<>>
    /\ UNCHANGED <<node, exists, dumped, crashes>>

Crash ==
    /\ at # "down"
    /\ crashes < MaxCrashes
    /\ crashes' = crashes + 1
    /\ at' = "down"
    /\ node' = Fresh
    /\ record' = <<>>
    /\ UNCHANGED <<exists, file, dumped, whole>>

Next ==
    \/ Run \/ DoElection \/ OnRequestVoteRequest \/ OnRequestVoteResponse \/ LearnTerm
    \/ DoLog \/ OnAppendEntriesRequest \/ Write \/ Close \/ Crash

Spec == Init /\ [][Next]_vars

-----------------------------------------------------------------------------

\* A member of a torn entry is the dumped one, missing or anything.
Part(entry, of) ==
    /\ entry.has \subseteq of.has
    /\ \A f \in Members("LogEntry") : entry.mem[f] \in {of.mem[f], 0, Torn}

\* n was read from a file of which the record of d is a beginning: term, vote and
\* log in this order, nothing behind the first that is incomplete.
IsBeginning(n, d) ==
    /\ n.term \in {d.term, 0, Torn}
    /\ n.term # d.term => n.votedFor = 0
    /\ n.votedFor \in {d.votedFor, 0, Torn}
    /\ n.votedFor # d.votedFor => n.logs = <<>>
    /\ Len(n.logs) <= Len(d.logs)
    /\ \A i \in DOMAIN n.logs :
        n.logs[i] = d.logs[i] \/ (i = Len(n.logs) /\ Part(n.logs[i], d.logs[i]))

\* Load gets back what the last Dump was given if that Dump ended (Dump and Load
\* of SRaft), and else (DumpCut of SRaft) a beginning of it, never a log without
\* its term and vote, nor anything of an earlier Dump.
LoadedIsBeginning ==
    [][at = "down" /\ at' = "up" /\ exists =>
        IF whole THEN node' = dumped ELSE IsBeginning(node', dumped)]_vars

\* ParseFromIstream would have told Load of every incomplete file: last_seq is
\* required, and written last.
TornIsRefused == (exists /\ Loaded.ok) => NodeOf(Loaded.msg) = dumped

\* The file holds a beginning of what the last Dump had to write, all of it once
\* that Dump has ended, and never a mixture of two of them.
FileIsCut ==
    LET written == Serialize("PersistRecord", RecordOf(dumped))
    IN  exists => /\ file \in {<<>>, written} \cup Cuts("PersistRecord", written)
                  /\ whole => file = written

=============================================================================
