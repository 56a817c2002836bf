------------------------------ MODULE VoteLedger ------------------------------
(* What the votes of a consensus node promise, whatever messages, timers and  *)
(* crashes do: a voter has a durable term, and every vote is for a later one. *)
(* A crash while the term is written may take it back; what was forgotten     *)
(* that way is all that a voter may vote in again.                            *)
EXTENDS Integers

CONSTANTS Voter, MaxTerm

VARIABLES durable, forgotten, votes
ledgerVars == <<durable, forgotten, votes>>

Init ==
    /\ durable = [v \in Voter |-> 0]
    /\ forgotten = [v \in Voter |-> 0]
    /\ votes = {}

\* OnRequestVoteRequest grants, or DoElection votes for itself.
Vote(v, t, c) ==
    /\ t > durable[v]
    /\ durable' = [durable EXCEPT ![v] = t]
    /\ votes' = votes \cup {[voter |-> v, term |-> t, candidate |-> c]}
    /\ UNCHANGED forgotten

\* A file written for another reason makes a term learnt in memory durable.
Advance(v, t) ==
    /\ t > durable[v]
    /\ durable' = [durable EXCEPT ![v] = t]
    /\ UNCHANGED <<forgotten, votes>>

\* The process ends within Dump and the file is left with an older term.
Forget(v, t) ==
    /\ t < durable[v]
    /\ durable' = [durable EXCEPT ![v] = t]
    /\ forgotten' = [forgotten EXCEPT ![v] = IF @ < durable[v] THEN durable[v] ELSE @]
    /\ UNCHANGED votes

Next == \E v \in Voter, t \in 0 .. MaxTerm :
            Advance(v, t) \/ Forget(v, t) \/ \E c \in Voter : Vote(v, t, c)

Spec == Init /\ [][Next]_ledgerVars

\* A voter gives at most one vote per term above the terms it has forgotten,
\* whatever else it forgets between Dump and Load.
OncePerTerm ==
    \A v, w \in votes :
        v.voter = w.voter /\ v.term = w.term /\ v.term > forgotten[v.voter]
        => v.candidate = w.candidate

===============================================================================
