------------------------------- MODULE Mailbox -------------------------------
(* What a queue between threads promises, EventLoop's pendingFunctors_ and    *)
(* MyChannel alike: items, numbered as they are put, are taken once each, in  *)
(* that order, and none before it was put.                                    *)
EXTENDS Naturals

VARIABLES put, taken  \* the number of items put, and of items taken
mailboxVars == <<put, taken>>

Init == put = 0 /\ taken = 0

Put  == put' = put + 1 /\ UNCHANGED taken
Take == taken < put /\ taken' = taken + 1 /\ UNCHANGED put

Next == Put \/ Take

Spec == Init /\ [][Next]_mailboxVars

==============================================================================
