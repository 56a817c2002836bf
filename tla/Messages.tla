------------------------------ MODULE Messages ------------------------------
(***************************************************************************)
(* The thirteen generated message types, each given by six tables read off *)
(* six places of its generated code.  A message keeps its members in Impl_ *)
(* and one has-bit for each but the repeated ones:                         *)
(*   Impl      the members in the order of Impl_                           *)
(*   Bits      the has-bit of a member, as its accessors use it            *)
(*   Clear     what Clear() resets, and the bits of which one must be set; *)
(*             0: it is reset whatever the bits are                        *)
(*   Wire      tag byte (field number * 8 + wire type) and member, in the  *)
(*             order in which fields are written                           *)
(*   Required  the mask of the bits a complete message has                 *)
(*   Swapped   first and last member of the memory InternalSwap exchanges  *)
(* The tables repeat one another in part, as the code does: Codec states   *)
(* what they must agree on.                                                *)
(***************************************************************************)

\* An entry of the replicated log.
LogEntryImpl == << "data", "index", "term", "command" >>
LogEntryBits == [ data |-> 1, index |-> 2, term |-> 4, command |-> 8 ]
LogEntryClear == << <<1, {"data"}>>, <<14, {"index", "term", "command"}>> >>
LogEntryWire == << <<8, "index">>, <<16, "term">>, <<24, "command">>, <<34, "data">> >>
LogEntryRequired == 14
LogEntrySwapped == <<"index", "command">>

\* Heartbeats and entries.
AppendEntriesRequestImpl == << "entries", "name", "term", "prev_log_index", "prev_log_term",
    "leader_commit", "time", "seq", "initial" >>
AppendEntriesRequestBits == [ name |-> 1, term |-> 2, prev_log_index |-> 4,
    prev_log_term |-> 8, leader_commit |-> 16, time |-> 32, seq |-> 64, initial |-> 128 ]
AppendEntriesRequestClear == << <<0, {"entries"}>>, <<1, {"name"}>>,
    <<254, {"term", "prev_log_index", "prev_log_term", "leader_commit", "time", "seq", "initial"}>> >>
AppendEntriesRequestWire == << <<10, "name">>, <<16, "term">>, <<24, "prev_log_index">>,
    <<32, "prev_log_term">>, <<40, "leader_commit">>, <<50, "entries">>, <<56, "time">>,
    <<64, "seq">>, <<72, "initial">> >>
AppendEntriesRequestRequired == 255
AppendEntriesRequestSwapped == <<"term", "initial">>

AppendEntriesResponseImpl == << "name", "term", "last_log_index", "last_log_term", "time",
    "seq", "success" >>
AppendEntriesResponseBits == [ name |-> 1, term |-> 2, last_log_index |-> 4,
    last_log_term |-> 8, time |-> 16, seq |-> 32, success |-> 64 ]
AppendEntriesResponseClear == << <<1, {"name"}>>,
    <<126, {"term", "last_log_index", "last_log_term", "time", "seq", "success"}>> >>
AppendEntriesResponseWire == << <<10, "name">>, <<16, "term">>, <<24, "success">>,
    <<32, "last_log_index">>, <<40, "last_log_term">>, <<48, "time">>, <<56, "seq">> >>
AppendEntriesResponseRequired == 127
AppendEntriesResponseSwapped == <<"term", "success">>

RequestVoteRequestImpl == << "name", "term", "last_log_index", "last_log_term", "time",
    "seq", "initial" >>
RequestVoteRequestBits == [ name |-> 1, term |-> 2, last_log_index |-> 4,
    last_log_term |-> 8, time |-> 16, seq |-> 32, initial |-> 64 ]
RequestVoteRequestClear == << <<1, {"name"}>>,
    <<126, {"term", "last_log_index", "last_log_term", "time", "seq", "initial"}>> >>
RequestVoteRequestWire == << <<10, "name">>, <<16, "term">>, <<24, "last_log_index">>,
    <<32, "last_log_term">>, <<40, "time">>, <<48, "seq">>, <<56, "initial">> >>
RequestVoteRequestRequired == 127
RequestVoteRequestSwapped == <<"term", "initial">>

RequestVoteResponseImpl == << "name", "term", "time", "seq", "vote_granted" >>
RequestVoteResponseBits == [ name |-> 1, term |-> 2, time |-> 4, seq |-> 8,
    vote_granted |-> 16 ]
RequestVoteResponseClear == << <<1, {"name"}>>,
    <<30, {"term", "time", "seq", "vote_granted"}>> >>
RequestVoteResponseWire == << <<10, "name">>, <<16, "term">>, <<24, "vote_granted">>,
    <<32, "time">>, <<40, "seq">> >>
RequestVoteResponseRequired == 31
RequestVoteResponseSwapped == <<"term", "vote_granted">>

InstallSnapshotRequestImpl == << "name", "data", "term", "last_included_index",
    "last_included_term", "time", "seq", "initial" >>
InstallSnapshotRequestBits == [ name |-> 1, data |-> 2, term |-> 4,
    last_included_index |-> 8, last_included_term |-> 16, time |-> 32, seq |-> 64,
    initial |-> 128 ]
InstallSnapshotRequestClear == << <<1, {"name"}>>, <<2, {"data"}>>,
    <<252, {"term", "last_included_index", "last_included_term", "time", "seq", "initial"}>> >>
InstallSnapshotRequestWire == << <<8, "term">>, <<18, "name">>,
    <<24, "last_included_index">>, <<32, "last_included_term">>, <<50, "data">>,
    <<56, "time">>, <<64, "seq">>, <<72, "initial">> >>
InstallSnapshotRequestRequired == 255
InstallSnapshotRequestSwapped == <<"term", "initial">>

InstallSnapshotResponseImpl == << "name", "term", "last_included_index",
    "last_included_term", "time", "seq", "success" >>
InstallSnapshotResponseBits == [ name |-> 1, term |-> 2, last_included_index |-> 4,
    last_included_term |-> 8, time |-> 16, seq |-> 32, success |-> 64 ]
InstallSnapshotResponseClear == << <<1, {"name"}>>,
    <<126, {"term", "last_included_index", "last_included_term", "time", "seq", "success"}>> >>
InstallSnapshotResponseWire == << <<8, "term">>, <<18, "name">>,
    <<24, "last_included_index">>, <<32, "last_included_term">>, <<40, "success">>,
    <<48, "time">>, <<56, "seq">> >>
InstallSnapshotResponseRequired == 127
InstallSnapshotResponseSwapped == <<"term", "success">>

\* Never filled in: the code has no change of configuration.
ConfRecordImpl == << "peers", "index", "index2", "state" >>
ConfRecordBits == [ peers |-> 1, index |-> 2, index2 |-> 4, state |-> 8 ]
ConfRecordClear == << <<1, {"peers"}>>, <<14, {"index", "index2", "state"}>> >>
ConfRecordWire == << <<10, "peers">>, <<16, "index">>, <<24, "index2">>, <<32, "state">> >>
ConfRecordRequired == 15
ConfRecordSwapped == <<"index", "state">>

\* What Dump writes and Load reads.
PersistRecordImpl == << "entries", "name", "vote_for", "conf_record", "term", "last_seq" >>
PersistRecordBits == [ name |-> 1, vote_for |-> 2, conf_record |-> 4, term |-> 8,
    last_seq |-> 16 ]
PersistRecordClear == << <<0, {"entries"}>>, <<1, {"name"}>>, <<2, {"vote_for"}>>,
    <<4, {"conf_record"}>>, <<24, {"term", "last_seq"}>> >>
PersistRecordWire == << <<8, "term">>, <<18, "name">>, <<26, "vote_for">>,
    <<34, "entries">>, <<42, "conf_record">>, <<48, "last_seq">> >>
\* Faulty variant: last_seq is optional.
PersistRecordRequiredButLast == 11
PersistRecordRequired == 27
PersistRecordSwapped == <<"conf_record", "last_seq">>

PutAppendRequestImpl == << "key", "value", "op", "clerkid", "cmdindex" >>
PutAppendRequestBits == [ key |-> 1, value |-> 2, op |-> 4, clerkid |-> 8, cmdindex |-> 16 ]
PutAppendRequestClear == << <<1, {"key"}>>, <<2, {"value"}>>, <<4, {"op"}>>,
    <<24, {"clerkid", "cmdindex"}>> >>
PutAppendRequestWire == << <<10, "key">>, <<18, "value">>, <<26, "op">>, <<32, "clerkid">>,
    <<40, "cmdindex">> >>
PutAppendRequestRequired == 31
PutAppendRequestSwapped == <<"clerkid", "cmdindex">>

PutAppendResponseImpl == << "err", "wrongleader" >>
PutAppendResponseBits == [ err |-> 1, wrongleader |-> 2 ]
PutAppendResponseClear == << <<1, {"err"}>>, <<0, {"wrongleader"}>> >>
PutAppendResponseWire == << <<8, "wrongleader">>, <<18, "err">> >>
PutAppendResponseRequired == 3
PutAppendResponseSwapped == <<"wrongleader", "wrongleader">>

GetRequestImpl == << "key", "clerkid", "cmdindex" >>
GetRequestBits == [ key |-> 1, clerkid |-> 2, cmdindex |-> 4 ]
GetRequestClear == << <<1, {"key"}>>, <<6, {"clerkid", "cmdindex"}>> >>
GetRequestWire == << <<10, "key">>, <<16, "clerkid">>, <<24, "cmdindex">> >>
GetRequestRequired == 7
GetRequestSwapped == <<"clerkid", "cmdindex">>

GetResponseImpl == << "err", "value", "wrongleader" >>
GetResponseBits == [ err |-> 1, value |-> 2, wrongleader |-> 4 ]
GetResponseClear == << <<1, {"err"}>>, <<2, {"value"}>>, <<0, {"wrongleader"}>> >>
GetResponseWire == << <<8, "wrongleader">>, <<18, "err">>, <<26, "value">> >>
GetResponseRequired == 7
GetResponseSwapped == <<"wrongleader", "wrongleader">>

-----------------------------------------------------------------------------

Type(impl, bits, clear, wire, required, swapped) ==
    [impl |-> impl, bits |-> bits, clear |-> clear, wire |-> wire,
     required |-> required, swapped |-> swapped]

Schema == [
    LogEntry |-> Type(LogEntryImpl, LogEntryBits, LogEntryClear,
        LogEntryWire, LogEntryRequired, LogEntrySwapped),
    AppendEntriesRequest |-> Type(AppendEntriesRequestImpl, AppendEntriesRequestBits, AppendEntriesRequestClear,
        AppendEntriesRequestWire, AppendEntriesRequestRequired, AppendEntriesRequestSwapped),
    AppendEntriesResponse |-> Type(AppendEntriesResponseImpl, AppendEntriesResponseBits, AppendEntriesResponseClear,
        AppendEntriesResponseWire, AppendEntriesResponseRequired, AppendEntriesResponseSwapped),
    RequestVoteRequest |-> Type(RequestVoteRequestImpl, RequestVoteRequestBits, RequestVoteRequestClear,
        RequestVoteRequestWire, RequestVoteRequestRequired, RequestVoteRequestSwapped),
    RequestVoteResponse |-> Type(RequestVoteResponseImpl, RequestVoteResponseBits, RequestVoteResponseClear,
        RequestVoteResponseWire, RequestVoteResponseRequired, RequestVoteResponseSwapped),
    InstallSnapshotRequest |-> Type(InstallSnapshotRequestImpl, InstallSnapshotRequestBits, InstallSnapshotRequestClear,
        InstallSnapshotRequestWire, InstallSnapshotRequestRequired, InstallSnapshotRequestSwapped),
    InstallSnapshotResponse |-> Type(InstallSnapshotResponseImpl, InstallSnapshotResponseBits, InstallSnapshotResponseClear,
        InstallSnapshotResponseWire, InstallSnapshotResponseRequired, InstallSnapshotResponseSwapped),
    ConfRecord |-> Type(ConfRecordImpl, ConfRecordBits, ConfRecordClear,
        ConfRecordWire, ConfRecordRequired, ConfRecordSwapped),
    PersistRecord |-> Type(PersistRecordImpl, PersistRecordBits, PersistRecordClear,
        PersistRecordWire, PersistRecordRequired, PersistRecordSwapped),
    PutAppendRequest |-> Type(PutAppendRequestImpl, PutAppendRequestBits, PutAppendRequestClear,
        PutAppendRequestWire, PutAppendRequestRequired, PutAppendRequestSwapped),
    PutAppendResponse |-> Type(PutAppendResponseImpl, PutAppendResponseBits, PutAppendResponseClear,
        PutAppendResponseWire, PutAppendResponseRequired, PutAppendResponseSwapped),
    GetRequest |-> Type(GetRequestImpl, GetRequestBits, GetRequestClear,
        GetRequestWire, GetRequestRequired, GetRequestSwapped),
    GetResponse |-> Type(GetResponseImpl, GetResponseBits, GetResponseClear,
        GetResponseWire, GetResponseRequired, GetResponseSwapped) ]

-----------------------------------------------------------------------------
(* The services: the method a stub calls by its index, with the types it   *)
(* sends and reads, and what the service registered under that index.      *)

RaftMessagesStub == [
    RequestVote     |-> <<0, "RequestVoteRequest", "RequestVoteResponse">>,
    AppendEntries   |-> <<1, "AppendEntriesRequest", "AppendEntriesResponse">>,
    InstallSnapshot |-> <<2, "InstallSnapshotRequest", "InstallSnapshotResponse">> ]
RaftMessagesService == <<
    <<"RequestVote", "RequestVoteRequest", "RequestVoteResponse">>,
    <<"AppendEntries", "AppendEntriesRequest", "AppendEntriesResponse">>,
    <<"InstallSnapshot", "InstallSnapshotRequest", "InstallSnapshotResponse">> >>

kvserverStub == [
    Get       |-> <<0, "GetRequest", "GetResponse">>,
    PutAppend |-> <<1, "PutAppendRequest", "PutAppendResponse">> ]
kvserverService == <<
    <<"Get", "GetRequest", "GetResponse">>,
    <<"PutAppend", "PutAppendRequest", "PutAppendResponse">> >>

=============================================================================
