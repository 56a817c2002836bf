------------------------------ MODULE EventLoop ------------------------------
(***************************************************************************)
(* One EventLoop of mymuduo (Eventloop.cc) and the threads that use it.    *)
(*                                                                         *)
(* The owner thread is in loop(): it blocks in Poll(), handles the active  *)
(* channels and runs the functors that were queued.  The others call       *)
(* QueueInLoop (RunInLoop does, outside the owner) and quit(): both change *)
(* the object first and write the eventfd in a second step.  Functors are  *)
(* numbered in the order in which they entered pendingFunctors_.           *)
(***************************************************************************)
EXTENDS Integers, Sequences

CONSTANTS
    Thread,    \* threads other than the owner of the loop
    MaxQueued  \* bound: functors queued in a behaviour
ASSUME MaxQueuedAssumption == MaxQueued \in Nat

VARIABLES
    pc,       \* where the owner is: "created", "test", "poll", "handle", "run", "stopped"
    quit,     \* quit_
    pending,  \* pendingFunctors_
    vec,      \* what DoPendingFunctors took and has not run yet
    calling,  \* callingPendingFunctors_
    readable, \* the counter behind wakeupFd_ is not zero
    active,   \* wakeupChannel_ is among activeChannels_
    waking,   \* threads that are about to call Wakeup()
    queued,   \* history: functors queued so far
    ran       \* history: number of the last functor run

vars == <<pc, quit, pending, vec, calling, readable, active, waking, queued, ran>>

-----------------------------------------------------------------------------
(* Other threads.                                                          *)

\* emplace_back under mutex_; Wakeup() follows after the unlock.
\* Faulty variant: another thread wakes the loop only while it runs functors.
QueueInLoopIfCalling(t) ==
    /\ t \notin waking
    /\ queued < MaxQueued
    /\ queued' = queued + 1
    /\ pending' = Append(pending, queued + 1)
    /\ waking' = IF calling THEN waking \cup {t} ELSE waking
    /\ UNCHANGED <<pc, quit, vec, calling, readable, active, ran>>
QueueInLoop(t) ==
    /\ t \notin waking
    /\ queued < MaxQueued
    /\ queued' = queued + 1
    /\ pending' = Append(pending, queued + 1)
    /\ waking' = waking \cup {t}
    /\ UNCHANGED <<pc, quit, vec, calling, readable, active, ran>>

\* Faulty variant: quit_ alone.
QuitSilently(t) ==
    /\ t \notin waking
    /\ pc # "stopped"
    /\ quit' = TRUE
    /\ UNCHANGED <<pc, pending, vec, calling, readable, active, waking, queued, ran>>
Quit(t) ==
    /\ t \notin waking
    /\ pc # "stopped"
    /\ quit' = TRUE
    /\ waking' = waking \cup {t}
    /\ UNCHANGED <<pc, pending, vec, calling, readable, active, queued, ran>>

Wakeup(t) ==
    /\ t \in waking
    /\ waking' = waking \ {t}
    /\ readable' = TRUE
    /\ UNCHANGED <<pc, quit, pending, vec, calling, active, queued, ran>>

-----------------------------------------------------------------------------
(* The owner.                                                              *)

\* loop() clears quit_, whoever has called quit() before.
Loop ==
    /\ pc = "created"
    /\ pc' = "test"
    /\ quit' = FALSE
    /\ UNCHANGED <<pending, vec, calling, readable, active, waking, queued, ran>>

Test ==
    /\ pc = "test"
    /\ pc' = IF quit THEN "stopped" ELSE "poll"
    /\ UNCHANGED <<quit, pending, vec, calling, readable, active, waking, queued, ran>>

\* epoll_wait returns the readable eventfd ...
PollWakeup ==
    /\ pc = "poll"
    /\ readable
    /\ pc' = "handle"
    /\ active' = TRUE
    /\ UNCHANGED <<quit, pending, vec, calling, readable, waking, queued, ran>>

\* ... or, without it, an event of another channel, nothing (kPollTimeMs) or EINTR.
PollOther ==
    /\ pc = "poll"
    /\ ~ readable
    /\ pc' = "handle"
    /\ UNCHANGED <<quit, pending, vec, calling, readable, active, waking, queued, ran>>

HandleRead ==
    /\ pc = "handle"
    /\ active
    /\ active' = FALSE
    /\ readable' = FALSE
    /\ UNCHANGED <<pc, quit, pending, vec, calling, waking, queued, ran>>

\* A callback, of a channel or a functor, calls QueueInLoop or quit().
InCallback == pc = "handle" \/ (pc = "run" /\ vec # <<>>)

\* Faulty variant: the owner never wakes itself.
CallbackQueuesSilently ==
    /\ InCallback
    /\ queued < MaxQueued
    /\ queued' = queued + 1
    /\ pending' = Append(pending, queued + 1)
    /\ UNCHANGED <<pc, quit, vec, calling, readable, active, waking, ran>>
CallbackQueues ==
    /\ InCallback
    /\ queued < MaxQueued
    /\ queued' = queued + 1
    /\ pending' = Append(pending, queued + 1)
    /\ readable' = (readable \/ calling)
    /\ UNCHANGED <<pc, quit, vec, calling, active, waking, ran>>

CallbackQuits ==
    /\ InCallback
    /\ quit' = TRUE
    /\ UNCHANGED <<pc, pending, vec, calling, readable, active, waking, queued, ran>>

\* Faulty variant: the functors are copied, not swapped out.
CopyFunctors ==
    /\ pc = "handle"
    /\ ~ active
    /\ vec' = pending
    /\ calling' = TRUE
    /\ pc' = "run"
    /\ UNCHANGED <<quit, pending, readable, active, waking, queued, ran>>
\* Every active channel is handled: DoPendingFunctors.  Other threads do not
\* read callingPendingFunctors_, so it may be set together with the swap.
SwapFunctors ==
    /\ pc = "handle"
    /\ ~ active
    /\ vec' = pending
    /\ pending' = <<>>
    /\ calling' = TRUE
    /\ pc' = "run"
    /\ UNCHANGED <<quit, readable, active, waking, queued, ran>>

RunFunctor ==
    /\ pc = "run"
    /\ vec # <<>>
    /\ vec' = Tail(vec)
    /\ ran' = Head(vec)
    /\ UNCHANGED <<pc, quit, pending, calling, readable, active, waking, queued>>

FunctorsDone ==
    /\ pc = "run"
    /\ vec = <<>>
    /\ calling' = FALSE
    /\ pc' = "test"
    /\ UNCHANGED <<quit, pending, vec, readable, active, waking, queued, ran>>

-----------------------------------------------------------------------------

Init ==
    /\ pc = "created" /\ quit = FALSE
    /\ pending = <<>> /\ vec = <<>> /\ calling = FALSE
    /\ readable = FALSE /\ active = FALSE /\ waking = {}
    /\ queued = 0 /\ ran = 0

Other(t) == QueueInLoop(t) \/ Quit(t) \/ Wakeup(t)
Progress == Loop \/ Test \/ PollWakeup \/ HandleRead \/ SwapFunctors \/ RunFunctor \/ FunctorsDone
Owner == Progress \/ PollOther \/ CallbackQueues \/ CallbackQuits

Next == Owner \/ \E t \in Thread : Other(t)

Spec == Init /\ [][Next]_vars

\* Threads run; callbacks return.  Nothing is assumed of PollOther: no property
\* may rest on the ten seconds of kPollTimeMs.
Fairness == WF_vars(Progress) /\ \A t \in Thread : WF_vars(Wakeup(t))
FairSpec == Spec /\ Fairness

-----------------------------------------------------------------------------

\* callingPendingFunctors_ holds exactly while functors run, and every channel
\* and functor that was taken is handled before the owner polls again.
TypeOK ==
    /\ pc \in {"created", "test", "poll", "handle", "run", "stopped"}
    /\ quit \in BOOLEAN /\ calling \in BOOLEAN /\ active \in BOOLEAN
    /\ pending \in Seq(Nat) /\ vec \in Seq(Nat)
    /\ readable \in BOOLEAN /\ queued \in Nat /\ ran \in Nat
    /\ waking \subseteq Thread
    /\ calling => pc = "run"
    /\ pc = "run" => calling
    /\ active => pc = "handle"
    /\ vec # <<>> => pc = "run"

\* The owner never blocks in Poll() on work or a quit() it has not seen, unless
\* the eventfd is readable or the thread that brought it is about to write it.
NoLostWakeup ==
    pc = "poll" /\ (pending # <<>> \/ quit) => readable \/ waking # {}

\* Functors run once each and in the order in which they were queued, however
\* queueing threads, nested queueing and the swap interleave.
Functors == INSTANCE Mailbox WITH put <- queued, taken <- ran
RunOnceInOrder == Functors!Spec

\* A functor queued while the loop runs is run without waiting for the poll
\* timeout, unless the loop stops first.
EveryFunctorRuns ==
    \A k \in 1 .. MaxQueued : queued >= k ~> (ran >= k \/ pc = "stopped")

\* A quit() after loop() has started ends the loop.
QuitEndsLoop == (quit /\ pc # "created") ~> pc = "stopped"

===============================================================================
