--------------------------- MODULE VoteLedgerProofs ---------------------------
(* A ledger never holds two votes of one voter for one term that the voter   *)
(* has not forgotten.                                                        *)
EXTENDS VoteLedger, TLAPS

\* Votes are for terms that are durable or forgotten at most, so a vote for a
\* later term is the first one for its term, or one for a forgotten term.
Recorded == \A v \in votes : v.term <= durable[v.voter] \/ v.term <= forgotten[v.voter]
LedgerInv ==
  /\ durable \in [Voter -> Nat]
  /\ forgotten \in [Voter -> Nat]
  /\ votes \subseteq [voter : Voter, term : Nat, candidate : Voter]
  /\ Recorded
  /\ OncePerTerm

\* No votes, no durable terms: the invariant holds initially.
LEMMA LedgerInvInit == Init => LedgerInv
  BY DEF Init, LedgerInv, Recorded, OncePerTerm

\* A vote, an advance of the durable term and its loss all keep the invariant.
LEMMA LedgerInvStep ==
  ASSUME LedgerInv, [Next]_ledgerVars
  PROVE  LedgerInv'
<1>1. ASSUME NEW v \in Voter, NEW t \in 0 .. MaxTerm, Advance(v, t)
      PROVE  LedgerInv'
  <2>1. t \in Nat /\ t > durable[v] /\ durable[v] \in Nat
        /\ durable' = [durable EXCEPT ![v] = t]
        /\ forgotten' = forgotten /\ votes' = votes
    BY <1>1 DEF Advance, LedgerInv
  <2>2. Recorded'
    BY <2>1 DEF LedgerInv, Recorded
  <2>3. QED
    BY <2>1, <2>2 DEF LedgerInv, OncePerTerm
<1>2. ASSUME NEW v \in Voter, NEW t \in 0 .. MaxTerm, Forget(v, t)
      PROVE  LedgerInv'
  <2> DEFINE gone == IF forgotten[v] < durable[v] THEN durable[v] ELSE forgotten[v]
  <2>1. /\ t \in Nat /\ t < durable[v] /\ durable[v] \in Nat /\ forgotten[v] \in Nat
        /\ durable' = [durable EXCEPT ![v] = t]
        /\ forgotten' = [forgotten EXCEPT ![v] = gone]
        /\ votes' = votes
    BY <1>2 DEF Forget, LedgerInv
  <2>2. gone \in Nat /\ gone >= durable[v] /\ gone >= forgotten[v]
    BY <2>1
  <2> HIDE DEF gone
  <2>3. durable' \in [Voter -> Nat] /\ forgotten' \in [Voter -> Nat]
    BY <2>1, <2>2 DEF LedgerInv
  <2>4. \A w \in votes : w.voter \in Voter /\ w.term \in Nat
                         /\ durable[w.voter] \in Nat /\ forgotten[w.voter] \in Nat
    BY DEF LedgerInv
  <2>5. \A w \in votes : IF w.voter = v
            THEN durable'[w.voter] = t /\ forgotten'[w.voter] = gone
            ELSE durable'[w.voter] = durable[w.voter] /\ forgotten'[w.voter] = forgotten[w.voter]
    BY <2>1, <2>4 DEF LedgerInv
  <2>6. Recorded'
    BY <2>1, <2>2, <2>4, <2>5 DEF LedgerInv, Recorded
  <2>7. \A w \in votes : forgotten'[w.voter] >= forgotten[w.voter] /\ forgotten'[w.voter] \in Nat
    BY <2>1, <2>2, <2>4, <2>5
  <2>8. OncePerTerm'
    BY <2>1, <2>4, <2>7 DEF LedgerInv, OncePerTerm
  <2>9. QED
    BY <2>1, <2>3, <2>6, <2>8 DEF LedgerInv
<1>3. ASSUME NEW v \in Voter, NEW t \in 0 .. MaxTerm, NEW c \in Voter, Vote(v, t, c)
      PROVE  LedgerInv'
  <2> DEFINE vote == [voter |-> v, term |-> t, candidate |-> c]
  <2>1. /\ t \in Nat /\ t > durable[v] /\ durable[v] \in Nat
        /\ durable' = [durable EXCEPT ![v] = t]
        /\ forgotten' = forgotten
        /\ votes' = votes \cup {vote}
    BY <1>3 DEF Vote, LedgerInv
  <2>2. \A w \in votes : w.voter = v => w.term < t \/ w.term <= forgotten[v]
    BY <2>1 DEF LedgerInv, Recorded
  <2>3. OncePerTerm'
    BY <2>1, <2>2 DEF LedgerInv, OncePerTerm
  <2>4. Recorded'
    BY <2>1 DEF LedgerInv, Recorded
  <2>5. QED
    BY <2>1, <2>3, <2>4 DEF LedgerInv
<1>4. CASE UNCHANGED ledgerVars
  BY <1>4 DEF ledgerVars, LedgerInv, Recorded, OncePerTerm
<1>5. QED
  BY <1>1, <1>2, <1>3, <1>4 DEF Next

\* No voter has two candidates in one term above what it has forgotten.
THEOREM LedgerOncePerTerm == Spec => []OncePerTerm
<1>1. LedgerInv => OncePerTerm
  BY DEF LedgerInv
<1>2. LedgerInv /\ [Next]_ledgerVars => LedgerInv'
  BY LedgerInvStep
<1>3. QED
  BY <1>1, <1>2, LedgerInvInit, PTL DEF Spec

===============================================================================
