------------------------------ MODULE KvClient ------------------------------
(***************************************************************************)
(* One Skvclient (SRaft/Skvclient.cc) and the servers it calls.            *)
(*                                                                         *)
(* Get() asks the server of leaderName and then every server in the order  *)
(* of the map (any order here), one blocking call at a time, until one     *)
(* does not say "wrong leader".  A call that fails leaves the response at  *)
(* its defaults, which say no such thing.  Put() calls every server from a *)
(* thread of its own and does not look at the answers.  Which server       *)
(* leads, and which one serves, changes at any time.                       *)
(***************************************************************************)
EXTENDS Integers, FiniteSets

CONSTANTS
    Server,      \* servers_
    NoServer,    \* leaderName before the first answer: ""
    MaxGets,     \* bound: calls of Get()
    MaxPuts,     \* bound: calls of Put()
    MaxChanges   \* bound: changes of leadership, ends and starts of servers
ASSUME NoServerAssumption == NoServer \notin Server
ASSUME ClientBoundsAssumption == MaxGets \in Nat /\ MaxPuts \in Nat /\ MaxChanges \in Nat

VARIABLES
    up,          \* servers that serve their port
    leaders,     \* servers whose node says LEADER
    changes,     \* changes of the two so far
    leaderName,  \* the server that answered last
    asking,      \* the server Get() waits for, NoServer outside Get()
    todo,        \* servers Get() has not asked in its loop
    answered,    \* the server that answered this Get(), or the last one
    gets,        \* calls of Get() so far
    puts,        \* calls of Put() so far
    inFlight,    \* calls of PutAppend, [put, to]
    logged       \* history: puts each server has given to DoLog

vars == <<up, leaders, changes, leaderName, asking, todo, answered,
          gets, puts, inFlight, logged>>
serverVars == <<up, leaders, changes>>
putVars == <<puts, inFlight, logged>>

-----------------------------------------------------------------------------
(* The servers, as a client sees them.                                     *)

Change ==
    /\ changes < MaxChanges
    /\ changes' = changes + 1
    /\ \E s \in Server :
        \/ s \in up /\ up' = up \ {s} /\ leaders' = leaders \ {s}
        \/ s \notin up /\ up' = up \cup {s} /\ UNCHANGED leaders
        \/ s \in up \ leaders /\ leaders' = leaders \cup {s} /\ UNCHANGED up
        \/ s \in leaders /\ leaders' = leaders \ {s} /\ UNCHANGED up
    /\ UNCHANGED <<leaderName, asking, todo, answered, gets, putVars>>

-----------------------------------------------------------------------------
(* Get().                                                                  *)

Get ==
    /\ asking = NoServer
    /\ gets < MaxGets
    /\ gets' = gets + 1
    /\ IF leaderName \in Server
       THEN asking' = leaderName /\ todo' = Server
       ELSE \E s \in Server : asking' = s /\ todo' = Server \ {s}
    /\ answered' = NoServer
    /\ UNCHANGED <<serverVars, leaderName, putVars>>

Return ==
    /\ answered' = asking
    /\ leaderName' = asking
    /\ asking' = NoServer
    /\ todo' = {}

\* wrongleader is false: the server leads ...
LeaderAnswers ==
    /\ asking \in up \cap leaders
    /\ Return
    /\ UNCHANGED <<serverVars, gets, putVars>>

\* ... or the call failed.
CallFails ==
    /\ asking \in Server \ up
    /\ Return
    /\ UNCHANGED <<serverVars, gets, putVars>>

\* Faulty variant: a server that no longer leads ends the Get().
AskNobody == asking' = NoServer /\ todo' = {}
\* The next server of the map; after the last one Get() returns "".
AskNext ==
    IF todo = {} THEN asking' = NoServer /\ UNCHANGED todo
    ELSE \E s \in todo : asking' = s /\ todo' = todo \ {s}

WrongLeader ==
    /\ asking \in up \ leaders
    /\ AskNext
    /\ UNCHANGED <<serverVars, leaderName, answered, gets, putVars>>

-----------------------------------------------------------------------------
(* Put().                                                                  *)

\* Faulty variant: only the server that answered the last Get().
ToLeaderOnly == IF leaderName \in Server THEN {leaderName} ELSE Server
Receivers == Server

Put ==
    /\ asking = NoServer
    /\ puts < MaxPuts
    /\ puts' = puts + 1
    /\ inFlight' = inFlight \cup {[put |-> puts + 1, to |-> s] : s \in Receivers}
    /\ UNCHANGED <<serverVars, leaderName, asking, todo, answered, gets, logged>>

\* A leader gives the put to DoLog; any other server refuses it, or is down.
PutAppend(m) ==
    /\ inFlight' = inFlight \ {m}
    /\ logged' = IF m.to \in leaders THEN [logged EXCEPT ![m.to] = @ \cup {m.put}] ELSE logged
    /\ UNCHANGED <<serverVars, leaderName, asking, todo, answered, gets, puts>>

-----------------------------------------------------------------------------

Init ==
    /\ up = Server /\ leaders = {} /\ changes = 0
    /\ leaderName = NoServer /\ asking = NoServer /\ todo = {}
    /\ answered = NoServer
    /\ gets = 0 /\ puts = 0
    /\ inFlight = {} /\ logged = [s \in Server |-> {}]

Answer == LeaderAnswers \/ CallFails \/ WrongLeader

Next ==
    \/ Change \/ Get \/ Answer \/ Put
    \/ \E m \in inFlight : PutAppend(m)

Spec == Init /\ [][Next]_vars

\* gRPC ends every call.
Fairness == WF_vars(Answer) /\ WF_vars(\E m \in inFlight : PutAppend(m))
FairSpec == Spec /\ Fairness

-----------------------------------------------------------------------------

\* With every server up and one leader that stays, a Get() in progress is
\* answered by that leader, whichever server leaderName names.
Stable(s) == up = Server /\ leaders = {s}
GetFindsLeader ==
    \A s \in Server :
        (asking # NoServer /\ s \in todo \cup {asking} /\ Stable(s)) ~>
            answered = s \/ ~ Stable(s)

\* A put made while one leader stays reaches it: nobody retries it.
PutReachesLeader ==
    \A s \in Server, k \in 1 .. MaxPuts :
        [](puts < k /\ []Stable(s) => [](puts >= k => <>(k \in logged[s])))

==============================================================================
