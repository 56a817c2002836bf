--------------------------- MODULE EventLoopProofs ---------------------------
(* No lost wakeup and ordered functors, for every number of threads and of    *)
(* functors.  The invariant says, besides the types, where an unseen functor  *)
(* or quit() can hide (WorkIsAnnounced) and that vec followed by pending is   *)
(* the run of numbers after the last one run (Numbered).                      *)
EXTENDS EventLoop, TLAPS

\* Outside the handling of channels, which precedes the swap, what is queued
\* comes with a readable eventfd or a thread about to write it.
WorkIsAnnounced ==
  /\ pc # "handle" /\ pending # <<>> => readable \/ waking # {}
  /\ pc = "poll" /\ quit => readable \/ waking # {}

Numbered ==
  /\ queued = ran + Len(vec) + Len(pending)
  /\ \A k \in 1 .. Len(vec) : vec[k] = ran + k
  /\ \A k \in 1 .. Len(pending) : pending[k] = ran + Len(vec) + k

LoopInv == TypeOK /\ WorkIsAnnounced /\ Numbered

\* A loop that was just constructed has nothing pending.
LEMMA LoopInvInit == Init => LoopInv /\ Functors!Init
<1> SUFFICES ASSUME Init PROVE LoopInv /\ Functors!Init
  OBVIOUS
<1>0. TypeOK
  <2>1. calling = FALSE /\ active = FALSE /\ quit = FALSE /\ readable = FALSE /\ vec = <<>>
    BY DEF Init
  <2>2. /\ calling \in BOOLEAN /\ active \in BOOLEAN /\ quit \in BOOLEAN /\ readable \in BOOLEAN
        /\ calling => pc = "run"
        /\ active => pc = "handle"
    BY <2>1, Zenon
  <2>3. QED
    BY <2>1, <2>2 DEF Init, TypeOK
<1>1. WorkIsAnnounced
  BY DEF Init, WorkIsAnnounced
<1>2. Numbered /\ Functors!Init
  BY DEF Init, Numbered, Functors!Init
<1>3. QED
  BY <1>0, <1>1, <1>2 DEF LoopInv

\* The next number at the end of pending keeps the numbering.
LEMMA AppendKeepsNumbers ==
  ASSUME TypeOK, Numbered, queued' = queued + 1, pending' = Append(pending, queued + 1),
         vec' = vec, ran' = ran
  PROVE  Numbered'
<1>1. Len(pending') = Len(pending) + 1 /\ Len(pending) \in Nat /\ Len(vec) \in Nat
  BY DEF TypeOK
<1>2. \A k \in 1 .. Len(pending) : pending'[k] = pending[k]
  BY DEF TypeOK
<1>3. pending'[Len(pending) + 1] = queued + 1
  BY DEF TypeOK
<1>4. queued' = ran' + Len(vec') + Len(pending')
  BY <1>1 DEF Numbered, TypeOK
<1>5. \A k \in 1 .. Len(pending') : pending'[k] = ran' + Len(vec') + k
  <2> TAKE k \in 1 .. Len(pending')
  <2>1. CASE k = Len(pending) + 1
    BY <1>1, <1>3, <2>1 DEF Numbered, TypeOK
  <2>2. CASE k \in 1 .. Len(pending)
    BY <1>2, <2>2 DEF Numbered
  <2>3. QED
    BY <1>1, <2>1, <2>2
<1>6. QED
  BY <1>4, <1>5 DEF Numbered

\* What other threads do keeps the types and announces itself.
LEMMA OtherStep ==
  ASSUME LoopInv, NEW t \in Thread, Other(t)
  PROVE  LoopInv' /\ [Functors!Next]_<<queued, ran>>
<1>1. CASE QueueInLoop(t)
  <2>1. TypeOK'
    BY <1>1 DEF LoopInv, TypeOK, QueueInLoop
  <2>2. WorkIsAnnounced'
    BY <1>1 DEF LoopInv, TypeOK, WorkIsAnnounced, QueueInLoop
  <2>3. Numbered'
    BY <1>1, AppendKeepsNumbers DEF LoopInv, QueueInLoop
  <2>4. Functors!Put
    BY <1>1 DEF QueueInLoop, Functors!Put
  <2>5. QED
    BY <2>1, <2>2, <2>3, <2>4 DEF LoopInv, Functors!Next
<1>2. CASE Quit(t)
  BY <1>2 DEF LoopInv, TypeOK, WorkIsAnnounced, Numbered, Quit
<1>3. CASE Wakeup(t)
  BY <1>3 DEF LoopInv, TypeOK, WorkIsAnnounced, Numbered, Wakeup
<1>4. QED
  BY <1>1, <1>2, <1>3 DEF Other

\* The owner's own steps: only the swap empties pendingFunctors_, and only a
\* functor's turn advances the mailbox.
LEMMA OwnerStep ==
  ASSUME LoopInv, Owner
  PROVE  LoopInv' /\ [Functors!Next]_<<queued, ran>>
<1>1. CASE Loop \/ Test \/ PollWakeup \/ PollOther \/ HandleRead \/ CallbackQuits \/ FunctorsDone
  <2>1. TypeOK'
    <3>1. CASE Loop \/ Test \/ PollWakeup \/ PollOther \/ HandleRead \/ CallbackQuits
      <4>1. CASE Loop \/ Test
        <5>1. ~ calling /\ ~ active /\ vec = <<>> /\ pc' \in {"test", "poll", "stopped"}
          BY <4>1 DEF LoopInv, TypeOK, Loop, Test
        <5>2. /\ UNCHANGED <<pending, vec, calling, readable, active, waking, queued, ran>>
              /\ quit' \in BOOLEAN
          BY <4>1 DEF LoopInv, TypeOK, Loop, Test
        <5>3. QED
          BY <5>1, <5>2 DEF LoopInv, TypeOK
      <4>2. CASE PollWakeup
        BY <4>2 DEF LoopInv, TypeOK, PollWakeup
      <4>3. CASE PollOther
        BY <4>3 DEF LoopInv, TypeOK, PollOther
      <4>4. CASE HandleRead
        BY <4>4 DEF LoopInv, TypeOK, HandleRead
      <4>5. CASE CallbackQuits
        BY <4>5 DEF LoopInv, TypeOK, CallbackQuits
      <4>6. QED
        BY <3>1, <4>1, <4>2, <4>3, <4>4, <4>5
    <3>2. CASE FunctorsDone
      <4>1. calling' = FALSE /\ pc' = "test" /\ vec = <<>> /\ vec' = vec
        BY <3>2 DEF FunctorsDone
      <4>2. (calling' => pc' = "run") /\ (pc' = "run" => calling') /\ calling' \in BOOLEAN
        BY <4>1
      <4>3. QED
        BY <3>2, <4>1, <4>2 DEF LoopInv, TypeOK, FunctorsDone
    <3>3. QED
      BY <1>1, <3>1, <3>2
  <2>2. WorkIsAnnounced'
    <3>1. CASE Loop \/ Test
      BY <3>1 DEF LoopInv, WorkIsAnnounced, Loop, Test
    <3>2. CASE PollWakeup \/ PollOther \/ HandleRead
      BY <3>2 DEF LoopInv, WorkIsAnnounced, PollWakeup, PollOther, HandleRead
    <3>3. CASE CallbackQuits \/ FunctorsDone
      BY <3>3 DEF LoopInv, WorkIsAnnounced, CallbackQuits, FunctorsDone, InCallback
    <3>4. QED
      BY <1>1, <3>1, <3>2, <3>3
  <2>3. Numbered' /\ UNCHANGED <<queued, ran>>
    BY <1>1 DEF LoopInv, Numbered, Loop, Test, PollWakeup, PollOther, HandleRead,
                CallbackQuits, FunctorsDone
  <2>4. QED
    BY <2>1, <2>2, <2>3 DEF LoopInv
<1>2. CASE CallbackQueues
  <2>1. TypeOK'
    BY <1>2 DEF LoopInv, TypeOK, CallbackQueues, InCallback
  <2>2. WorkIsAnnounced'
    BY <1>2 DEF LoopInv, TypeOK, WorkIsAnnounced, CallbackQueues, InCallback
  <2>3. Numbered'
    BY <1>2, AppendKeepsNumbers DEF LoopInv, CallbackQueues
  <2>4. Functors!Put
    BY <1>2 DEF CallbackQueues, Functors!Put
  <2>5. QED
    BY <2>1, <2>2, <2>3, <2>4 DEF LoopInv, Functors!Next
<1>3. CASE SwapFunctors
  <2>1. vec = <<>>
    BY <1>3 DEF LoopInv, TypeOK, SwapFunctors
  <2>2. Numbered' /\ UNCHANGED <<queued, ran>>
    BY <1>3, <2>1 DEF LoopInv, TypeOK, Numbered, SwapFunctors
  <2>3. TypeOK' /\ WorkIsAnnounced'
    BY <1>3 DEF LoopInv, TypeOK, WorkIsAnnounced, SwapFunctors
  <2>4. QED
    BY <2>2, <2>3 DEF LoopInv
<1>4. CASE RunFunctor
  <2>1. /\ Head(vec) = ran + 1 /\ Len(vec) > 0
        /\ Len(Tail(vec)) = Len(vec) - 1
        /\ \A k \in 1 .. Len(Tail(vec)) : Tail(vec)[k] = vec[k + 1]
    BY <1>4 DEF LoopInv, TypeOK, Numbered, RunFunctor
  <2>2. Functors!Take
    BY <1>4, <2>1 DEF LoopInv, TypeOK, Numbered, RunFunctor, Functors!Take
  <2>3. Numbered'
    <3>1. /\ vec' = Tail(vec) /\ ran' = ran + 1 /\ pending' = pending /\ queued' = queued
          /\ ran \in Nat /\ queued \in Nat /\ Len(vec) \in Nat /\ Len(pending) \in Nat
      BY <1>4, <2>1 DEF LoopInv, TypeOK, RunFunctor
    <3>a. Len(pending') = Len(pending)
      BY <3>1
    <3>d. vec' = Tail(vec) /\ Len(Tail(vec)) = Len(vec) - 1
      BY <2>1, <3>1
    <3>e. Len(vec') = Len(vec) - 1
      BY <3>d, Zenon
    <3>b. ran' + Len(vec') = ran + Len(vec)
      <4> HIDE <3>d
      <4>1. ran \in Nat /\ Len(vec) \in Nat /\ ran' = ran + 1
        BY <3>1
      <4>2. QED
        BY <3>e, <4>1
    <3>c. /\ queued = ran + Len(vec) + Len(pending)
          /\ \A k \in 1 .. Len(pending) : pending[k] = ran + Len(vec) + k
      BY DEF LoopInv, Numbered
    <3>2. queued' = ran' + Len(vec') + Len(pending')
      BY <3>1, <3>a, <3>b, <3>c
    <3>3. \A k \in 1 .. Len(vec') : vec'[k] = ran' + k
      BY <2>1, <3>1 DEF LoopInv, Numbered
    <3>4. \A k \in 1 .. Len(pending') : pending'[k] = ran' + Len(vec') + k
      BY <3>1, <3>a, <3>b, <3>c
    <3>5. QED
      BY <3>2, <3>3, <3>4 DEF Numbered
  <2>4. TypeOK' /\ WorkIsAnnounced'
    BY <1>4, <2>1 DEF LoopInv, TypeOK, WorkIsAnnounced, RunFunctor
  <2>5. QED
    BY <2>2, <2>3, <2>4 DEF LoopInv, Functors!Next
<1>5. QED
  BY <1>1, <1>2, <1>3, <1>4 DEF Owner, Progress

\* Every step keeps the invariant and is a step or a stutter of the mailbox.
LEMMA LoopStep ==
  ASSUME LoopInv, [Next]_vars
  PROVE  LoopInv' /\ [Functors!Next]_<<queued, ran>>
<1>1. CASE UNCHANGED vars
  BY <1>1 DEF vars, LoopInv, TypeOK, WorkIsAnnounced, Numbered
<1>2. QED
  BY <1>1, OtherStep, OwnerStep DEF Next

\* The members and the descriptor keep their ranges, callingPendingFunctors_ is
\* set exactly while functors are run, for any number of threads and functors.
THEOREM TypeCorrect == Spec => []TypeOK
<1>1. LoopInv => TypeOK
  BY DEF LoopInv
<1>2. LoopInv /\ [Next]_vars => LoopInv'
  BY LoopStep
<1>3. QED
  BY <1>1, <1>2, LoopInvInit, PTL DEF Spec

\* The owner never blocks in Poll() on work nobody will announce.
THEOREM NoWakeupLost == Spec => []NoLostWakeup
<1>1. LoopInv => NoLostWakeup
  BY DEF LoopInv, WorkIsAnnounced, NoLostWakeup
<1>2. LoopInv /\ [Next]_vars => LoopInv'
  BY LoopStep
<1>3. QED
  BY <1>1, <1>2, LoopInvInit, PTL DEF Spec

\* pendingFunctors_ is a mailbox: the loop runs every functor at most once, in
\* the order of the queueing.
THEOREM FunctorsInOrder == Spec => RunOnceInOrder
<1>1. LoopInv /\ [Next]_vars => LoopInv' /\ [Functors!Next]_<<queued, ran>>
  BY LoopStep
<1>2. QED
  BY <1>1, LoopInvInit, PTL DEF Spec, RunOnceInOrder, Functors!Spec, Functors!mailboxVars

==============================================================================
