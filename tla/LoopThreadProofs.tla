-------------------------- MODULE LoopThreadProofs --------------------------
(***************************************************************************)
(* Start, use and destruction of the loop threads, for any number of       *)
(* threads and connections.  The invariant says how far the starter and    *)
(* each thread may be apart (Progress), that loop_ is set just while the   *)
(* thread is between its two assignments (LoopSet), which threads the pool *)
(* knows (Known), and which element the next connection gets (NextChosen). *)
(***************************************************************************)
EXTENDS LoopThread, TLAPS

Starting == {"semaphore", "check", "sleep", "waiting"}
Early    == {"none", "tid", "post"}            \* before the tid was posted
Late     == {"notify", "enter", "looping", "ended"}  \* after loop_ was set

\* All threads the starter has passed have posted; none is ahead of it.
Progress ==
    /\ pc \in Starting => current \in 1 .. numThreads
    /\ pc = "semaphore" /\ posted => thread[current] \notin Early
    /\ pc \notin Destructing =>
        /\ current <= numThreads
        /\ \A i \in ThreadId : i > current => thread[i] = "none"
        /\ \A i \in ThreadId : i < current \/ (i = current /\ pc # "semaphore") => thread[i] \notin Early
    /\ pc \in Destructing => \A i \in 1 .. numThreads : thread[i] \notin Early
    /\ \A i \in ThreadId : tid[i] \/ thread[i] \in {"none", "tid"}

LoopSet ==
    \A i \in ThreadId :
        /\ loop[i] <=> thread[i] \in {"notify", "enter", "looping"}
        /\ hasInit => i \in inited \/ thread[i] \in Early \cup {"init"}

\* The pool has the loops of the threads started, in order.
Known ==
    /\ \A k \in 1 .. Len(loops) : loops[k] = k /\ thread[k] \in Late
    /\ Len(loops) = IF pc \in Starting THEN current - 1
                    ELSE IF pc \in Destructing THEN numThreads ELSE current
    /\ pc = "started" => current = numThreads

Passed ==
    pc \in Destructing =>
        /\ \A i \in 1 .. numThreads : i < current => thread[i] = "ended"
        /\ pc # "destroyed" => current \in 1 .. numThreads
        /\ pc = "detach" => thread[current] = "ended"

NextChosen ==
    /\ chosen # <<>> => pc \in {"started"} \cup Destructing
    /\ chosen = <<>> => next = 0
    /\ loops # <<>> =>
        LoopAt(next) = IF chosen = <<>> THEN 1 ELSE Following(chosen[Len(chosen)])
    /\ ChosenInTurn

PoolInv == TypeOK /\ Progress /\ LoopSet /\ Known /\ Passed /\ NextChosen

LEMMA InitPool == Init => PoolInv
<1> SUFFICES ASSUME Init PROVE PoolInv
  OBVIOUS
<1> USE ThreadBoundsAssumption DEF Init, ThreadId, Starting, Early, Late, Destructing
<1>1. TypeOK
  <2>1. posted \in BOOLEAN /\ notified \in BOOLEAN /\ missed \in BOOLEAN
    BY Zenon
  <2>2. tid \in [ThreadId -> BOOLEAN] /\ loop \in [ThreadId -> BOOLEAN]
    BY Zenon
  <2> QED  BY <2>1, <2>2 DEF TypeOK
<1>2. Progress /\ LoopSet
  BY DEF Progress, LoopSet
<1>3. Known /\ Passed
  BY DEF Known, Passed
<1>4. NextChosen
  BY DEF NextChosen, ChosenInTurn
<1> QED  BY <1>1, <1>2, <1>3, <1>4 DEF PoolInv

-----------------------------------------------------------------------------
(* The starter.                                                            *)

LEMMA StarterSteps ==
  ASSUME PoolInv, Starter \/ SpuriousWakeup
  PROVE  PoolInv'
<1> USE ThreadBoundsAssumption
    DEF PoolInv, config, starter, threads, pool, ThreadId, Starting, Early, Late, Destructing
<1>1. CASE StartNone
  <2>1. TypeOK'
    BY <1>1 DEF StartNone, TypeOK, BaseLoop
  <2>2. Progress' /\ LoopSet' /\ Known' /\ Passed'
    BY <1>1 DEF StartNone, TypeOK, Progress, LoopSet, Known, Passed
  <2>3. NextChosen'
    BY <1>1 DEF StartNone, NextChosen, ChosenInTurn, Following, LoopAt
  <2> QED  BY <2>1, <2>2, <2>3
<1>2. CASE StartThread
  <2>0. /\ current' = current + 1 /\ current \in 0 .. numThreads - 1 /\ current' \in ThreadId
        /\ thread' = [thread EXCEPT ![current'] = "tid"]
        /\ thread[current'] = "none" /\ pc' = "semaphore" /\ ~ posted'
        /\ Len(loops) = current
    BY <1>2 DEF StartThread, TypeOK, Progress, Known
  <2>1. TypeOK'
    <3>1. current' \in 0 .. numThreads + 1
      BY <2>0 DEF TypeOK
    <3>2. posted' \in BOOLEAN
      BY <1>2, Zenon DEF StartThread
    <3> QED  BY <1>2, <2>0, <3>1, <3>2 DEF StartThread, TypeOK
  <2>a. Progress'
    BY <1>2, <2>0 DEF StartThread, TypeOK, Progress
  <2>b. LoopSet'
    BY <1>2, <2>0 DEF StartThread, TypeOK, LoopSet
  <2>c. Known'
    BY <1>2, <2>0 DEF StartThread, TypeOK, Known
  <2>2. Progress' /\ LoopSet' /\ Known' /\ Passed'
    BY <1>2, <2>a, <2>b, <2>c DEF StartThread, Passed
  <2>3. NextChosen'
    BY <1>2 DEF StartThread, NextChosen, ChosenInTurn, Following, LoopAt
  <2> QED  BY <2>1, <2>2, <2>3
<1>3. CASE WaitSemaphore \/ Sleep \/ Wake \/ SpuriousWakeup
  <2> USE <1>3 DEF WaitSemaphore, Sleep, Wake, SpuriousWakeup
  <2>1. TypeOK'
    BY DEF TypeOK
  <2>a. Progress'
    BY DEF TypeOK, Progress
  <2>b. LoopSet' /\ Passed'
    BY DEF TypeOK, LoopSet, Passed
  <2>c. Known'
    BY DEF TypeOK, Progress, LoopSet, Known
  <2>2. Progress' /\ LoopSet' /\ Known' /\ Passed'
    BY <2>a, <2>b, <2>c
  <2>3. NextChosen'
    BY DEF NextChosen, ChosenInTurn, Following, LoopAt
  <2> QED  BY <2>1, <2>2, <2>3
<1>4. CASE Check /\ ~ loop[current]
  <2> USE <1>4 DEF Check
  <2>1. TypeOK'
    BY DEF TypeOK
  <2>a. Progress'
    BY DEF TypeOK, Progress
  <2>b. LoopSet' /\ Passed'
    BY DEF TypeOK, LoopSet, Passed
  <2>c. Known'
    BY DEF TypeOK, Progress, LoopSet, Known
  <2>2. Progress' /\ LoopSet' /\ Known' /\ Passed'
    BY <2>a, <2>b, <2>c
  <2>3. NextChosen'
    BY DEF NextChosen, ChosenInTurn, Following, LoopAt
  <2> QED  BY <2>1, <2>2, <2>3
<1>5. CASE Check /\ loop[current]
  <2> USE <1>5 DEF Check
  <2>a. /\ current \in ThreadId /\ current \in 1 .. numThreads
        /\ Len(loops) = current - 1 /\ loops' = Append(loops, current)
    BY DEF TypeOK, Progress, Known
  <2>b. loops \in Seq(ThreadId)
    BY DEF TypeOK
  <2>0. /\ current \in ThreadId /\ current \in 1 .. numThreads
        /\ Len(loops) = current - 1 /\ loops' = Append(loops, current)
        /\ Len(loops') = current
        /\ \A k \in 1 .. Len(loops) : loops'[k] = loops[k]
        /\ loops'[current] = current
    BY <2>a, <2>b
  <2>1. TypeOK'
    BY <2>0 DEF TypeOK
  <2>2. Progress' /\ LoopSet' /\ Passed'
    BY <2>0 DEF TypeOK, Progress, LoopSet, Passed
  <2>3. Known'
    BY <2>0 DEF TypeOK, Known, LoopSet
  <2>4. chosen = <<>> /\ chosen' = <<>> /\ next' = next
    BY DEF NextChosen
  <2>5. NextChosen'
    BY <2>0, <2>1, <2>4 DEF NextChosen, ChosenInTurn, LoopAt, TypeOK
  <2> QED  BY <2>1, <2>2, <2>3, <2>5
<1> QED  BY <1>1, <1>2, <1>3, <1>4, <1>5 DEF Starter

-----------------------------------------------------------------------------
(* The threads.                                                            *)

\* What NextChosen is about does not change.
LEMMA SameChosen ==
  ASSUME NextChosen, UNCHANGED <<loops, next, chosen>>, pc' = pc PROVE NextChosen'
BY DEF NextChosen, ChosenInTurn, Following, LoopAt

LEMMA ThreadSteps ==
  ASSUME PoolInv, NEW i \in ThreadId, ThreadFunc(i) \/ QuitInLoop(i)
  PROVE  PoolInv'
<1> USE ThreadBoundsAssumption
    DEF PoolInv, config, starter, threads, pool, Starting, Early, Late, Destructing
<1>0. i \in 1 .. MaxThreads
  BY DEF ThreadId
<1>1. CASE SetTid(i)
  <2> USE <1>1 DEF SetTid
  <2>0. /\ thread[i] = "tid" /\ thread'[i] = "post"
        /\ \A j \in ThreadId : j # i => thread'[j] = thread[j]
    BY DEF TypeOK
  <2>1. TypeOK'
    BY DEF TypeOK
  <2>c. /\ tid'[i] = TRUE /\ \A j \in ThreadId : j # i => tid'[j] = tid[j]
        /\ numThreads \in 0 .. MaxThreads
    BY DEF TypeOK
  <2>a. Progress'
    BY <1>0, <2>0, <2>c DEF Progress, ThreadId
  <2>b. LoopSet'
    BY <1>0, <2>0 DEF LoopSet, ThreadId, TypeOK
  <2>3. Known' /\ Passed'
    BY <1>0, <2>0 DEF TypeOK, Known, Passed, ThreadId
  <2> QED  BY <2>1, <2>a, <2>b, <2>3, SameChosen
<1>2. CASE Post(i)
  <2> USE <1>2 DEF Post
  <2>0. /\ thread[i] = "post" /\ thread'[i] = "init"
        /\ \A j \in ThreadId : j # i => thread'[j] = thread[j]
    BY DEF TypeOK
  <2>1. TypeOK'
    <3>1. posted' \in BOOLEAN
      BY Zenon
    <3> QED  BY <3>1 DEF TypeOK
  <2>c. pc = "semaphore" => i = current
    <3>1. current \in Int
      BY DEF TypeOK
    <3> QED  BY <1>0, <2>0, <3>1 DEF Progress, ThreadId
  <2>d. pc = "semaphore" /\ posted' => thread'[current] \notin Early
    BY <2>0, <2>c
  <2>a. Progress'
    BY <1>0, <2>0, <2>d DEF Progress, ThreadId
  <2>b. LoopSet'
    BY <1>0, <2>0 DEF LoopSet, ThreadId, TypeOK
  <2>3. Known' /\ Passed'
    BY <1>0, <2>0 DEF TypeOK, Known, Passed, ThreadId
  <2> QED  BY <2>1, <2>a, <2>b, <2>3, SameChosen
<1>3. CASE CallInit(i)
  <2> USE <1>3 DEF CallInit
  <2>0. /\ thread[i] = "init" /\ thread'[i] = "publish"
        /\ \A j \in ThreadId : j # i => thread'[j] = thread[j]
    BY DEF TypeOK
  <2>1. TypeOK'
    BY DEF TypeOK
  <2>a. Progress'
    BY <1>0, <2>0 DEF Progress, ThreadId
  <2>b. LoopSet'
    BY <1>0, <2>0 DEF LoopSet, ThreadId, TypeOK
  <2>3. Known' /\ Passed'
    BY <1>0, <2>0 DEF TypeOK, Known, Passed, ThreadId
  <2> QED  BY <2>1, <2>a, <2>b, <2>3, SameChosen
<1>4. CASE Publish(i)
  <2> USE <1>4 DEF Publish
  <2>0. /\ thread[i] = "publish" /\ thread'[i] = "notify"
        /\ \A j \in ThreadId : j # i => thread'[j] = thread[j]
    BY DEF TypeOK
  <2>1. TypeOK'
    BY DEF TypeOK
  <2>a. Progress'
    BY <1>0, <2>0 DEF Progress, ThreadId
  <2>b. LoopSet'
    BY <1>0, <2>0 DEF LoopSet, ThreadId, TypeOK
  <2>3. Known' /\ Passed'
    BY <1>0, <2>0 DEF TypeOK, Known, Passed, ThreadId
  <2> QED  BY <2>1, <2>a, <2>b, <2>3, SameChosen
<1>5. CASE Notify(i)
  <2> USE <1>5 DEF Notify
  <2>0. /\ thread[i] = "notify" /\ thread'[i] = "enter"
        /\ \A j \in ThreadId : j # i => thread'[j] = thread[j]
    BY DEF TypeOK
  <2>1. TypeOK'
    <3>1. notified' \in BOOLEAN /\ missed' \in BOOLEAN
      BY Zenon
    <3> QED  BY <3>1 DEF TypeOK
  <2>a. Progress'
    BY <1>0, <2>0 DEF Progress, ThreadId
  <2>b. LoopSet'
    BY <1>0, <2>0 DEF LoopSet, ThreadId, TypeOK
  <2>3. Known' /\ Passed'
    BY <1>0, <2>0 DEF TypeOK, Known, Passed, ThreadId
  <2> QED  BY <2>1, <2>a, <2>b, <2>3, SameChosen
<1>6. CASE EnterLoop(i)
  <2> USE <1>6 DEF EnterLoop
  <2>0. /\ thread[i] = "enter" /\ thread'[i] = "looping"
        /\ \A j \in ThreadId : j # i => thread'[j] = thread[j]
    BY DEF TypeOK
  <2>1. TypeOK'
    BY DEF TypeOK
  <2>a. Progress'
    BY <1>0, <2>0 DEF Progress, ThreadId
  <2>b. LoopSet'
    BY <1>0, <2>0 DEF LoopSet, ThreadId, TypeOK
  <2>3. Known' /\ Passed'
    BY <1>0, <2>0 DEF TypeOK, Known, Passed, ThreadId
  <2> QED  BY <2>1, <2>a, <2>b, <2>3, SameChosen
<1>7. CASE QuitInLoop(i)
  <2> USE <1>7 DEF QuitInLoop
  <2>1. TypeOK'
    BY DEF TypeOK
  <2>2. Progress' /\ LoopSet' /\ Known' /\ Passed'
    BY DEF Progress, LoopSet, Known, Passed
  <2> QED  BY <2>1, <2>2, SameChosen
<1>8. CASE LeaveLoop(i)
  <2> USE <1>8 DEF LeaveLoop
  <2>0. /\ thread[i] = "looping" /\ thread'[i] = "ended"
        /\ \A j \in ThreadId : j # i => thread'[j] = thread[j]
    BY DEF TypeOK
  <2>1. TypeOK'
    BY DEF TypeOK
  <2>a. Progress'
    BY <1>0, <2>0 DEF Progress, ThreadId
  <2>b. LoopSet'
    BY <1>0, <2>0 DEF LoopSet, ThreadId, TypeOK
  <2>3. Known' /\ Passed'
    BY <1>0, <2>0 DEF TypeOK, Known, Passed, ThreadId
  <2> QED  BY <2>1, <2>a, <2>b, <2>3, SameChosen
<1> QED  BY <1>1, <1>2, <1>3, <1>4, <1>5, <1>6, <1>7, <1>8 DEF ThreadFunc

-----------------------------------------------------------------------------
(* The connections.                                                        *)

LEMMA ChoiceStep == ASSUME PoolInv, GetNextLoop PROVE PoolInv'
<1> USE DEF PoolInv, config, starter, threads
<1>1. chosen \in Seq({BaseLoop, OutOfBounds} \cup ThreadId) /\ loops \in Seq(ThreadId)
  BY DEF TypeOK
<1>2. CASE loops = <<>>
  <2>1. chosen' = Append(chosen, BaseLoop) /\ next' = next /\ loops' = loops
    BY <1>2 DEF GetNextLoop
  <2>2. TypeOK'
    BY <1>1, <2>1 DEF GetNextLoop, TypeOK
  <2>3. NextChosen'
    BY <1>1, <1>2, <2>1 DEF GetNextLoop, NextChosen, ChosenInTurn, Following
  <2>4. Progress' /\ LoopSet' /\ Known' /\ Passed'
    BY <2>1 DEF GetNextLoop, Progress, LoopSet, Known, Passed
  <2> QED  BY <2>2, <2>3, <2>4
<1>3. CASE loops # <<>>
  <2>1. chosen' = Append(chosen, LoopAt(next)) /\ next' = NextAfter(next) /\ loops' = loops
    BY <1>3 DEF GetNextLoop
  <2>2. next \in 0 .. Len(loops) /\ Len(loops) \in 1 .. MaxThreads
    BY <1>3, ThreadBoundsAssumption DEF GetNextLoop, TypeOK, Known, Starting, Destructing
  <2>3. LoopAt(next) \in {OutOfBounds} \cup ThreadId /\ next' \in 0 .. Len(loops)
    BY <1>1, <2>1, <2>2 DEF LoopAt, NextAfter
  <2>4. TypeOK'
    BY <1>1, <2>1, <2>3 DEF GetNextLoop, TypeOK
  <2>5. LoopAt(next') = Following(LoopAt(next))
    <3>1. LoopAt(next) = IF next = Len(loops) THEN OutOfBounds ELSE next + 1
      BY <2>2 DEF LoopAt, Known
    <3>2. LoopAt(next') = IF next = Len(loops) THEN 1
                          ELSE IF next + 1 = Len(loops) THEN OutOfBounds ELSE next + 2
      BY <2>1, <2>2 DEF LoopAt, Known, NextAfter
    <3> QED  BY <1>3, <2>2, <3>1, <3>2, ThreadBoundsAssumption DEF Following, OutOfBounds
  <2>6. LoopAt(next) = IF chosen = <<>> THEN Following(OutOfBounds)
                       ELSE Following(chosen[Len(chosen)])
    <3>1. Following(OutOfBounds) = 1
      BY <1>3, <2>2, ThreadBoundsAssumption DEF Following, OutOfBounds
    <3> QED  BY <1>3, <3>1 DEF NextChosen
  <2>7. ChosenInTurn'
    BY <1>1, <2>1, <2>6 DEF NextChosen, ChosenInTurn, Following
  <2>8. NextChosen'
    <3>1. chosen' # <<>> /\ chosen'[Len(chosen')] = LoopAt(next) /\ pc' = "started"
      BY <1>1, <2>1 DEF GetNextLoop
    <3>2. (LoopAt(next))' = LoopAt(next')
      BY <2>1 DEF LoopAt
    <3>3. \A e : Following(e)' = Following(e)
      BY <2>1 DEF Following
    <3> QED  BY <2>5, <2>7, <3>1, <3>2, <3>3 DEF NextChosen
  <2>9. Progress' /\ LoopSet' /\ Known' /\ Passed'
    BY <2>1 DEF GetNextLoop, Progress, LoopSet, Known, Passed
  <2> QED  BY <2>4, <2>8, <2>9
<1> QED  BY <1>2, <1>3

-----------------------------------------------------------------------------
(* The destructors.                                                        *)

\* The pool does not change any more.
LEMMA StillChosen ==
  ASSUME NextChosen, UNCHANGED <<loops, next, chosen>>, pc' \in Destructing PROVE NextChosen'
BY DEF NextChosen, ChosenInTurn, Following, LoopAt

LEMMA DestructorSteps == ASSUME PoolInv, Destructor PROVE PoolInv'
<1> USE DEF PoolInv, config, threads, pool, Starting, Early, Late, Destructing
<1>0. numThreads \in 0 .. MaxThreads /\ current \in 0 .. numThreads + 1 /\ MaxThreads \in Nat
  BY ThreadBoundsAssumption DEF TypeOK
<1>1. CASE Destroy
  <2> USE <1>1 DEF Destroy, LetGo
  <2>0. pc = "started" /\ current = numThreads /\ current' = 1 /\ pc' \in {"look", "destroyed"}
        /\ (pc' = "destroyed" <=> numThreads = 0)
    BY <1>0 DEF Known
  <2>1. TypeOK'
    BY <1>0, <2>0 DEF TypeOK
  <2>2. Progress' /\ LoopSet'
    BY <1>0, <2>0 DEF Progress, LoopSet, ThreadId
  <2>3. Known' /\ Passed'
    BY <1>0, <2>0 DEF Known, Passed
  <2> QED  BY <2>0, <2>1, <2>2, <2>3, StillChosen
<1>2. CASE Look
  <2> USE <1>2 DEF Look
  <2>0. current \in 1 .. numThreads /\ current \in ThreadId /\ thread[current] \in Late
    BY <1>0 DEF Passed, Known, ThreadId
  <2>1. TypeOK'
    BY DEF TypeOK
  <2>2. Progress' /\ LoopSet' /\ Known'
    BY DEF Progress, LoopSet, Known
  <2>3. Passed'
    BY <2>0 DEF Passed, LoopSet
  <2> QED  BY <2>1, <2>2, <2>3, StillChosen
<1>3. CASE CallQuit
  <2> USE <1>3 DEF CallQuit
  <2>0. current \in ThreadId /\ pc' \in {"join", "crashed"}
    BY <1>0 DEF Passed, ThreadId
  <2>1. TypeOK'
    BY <2>0 DEF TypeOK
  <2>2. Progress' /\ LoopSet' /\ Known' /\ Passed'
    BY <2>0 DEF Progress, LoopSet, Known, Passed
  <2> QED  BY <2>0, <2>1, <2>2, StillChosen
<1>4. CASE Join
  <2> USE <1>4 DEF Join
  <2>1. TypeOK'
    BY DEF TypeOK
  <2>2. Progress' /\ LoopSet' /\ Known' /\ Passed'
    BY DEF Progress, LoopSet, Known, Passed
  <2> QED  BY <2>1, <2>2, StillChosen
<1>5. CASE Detach
  <2> USE <1>5 DEF Detach, LetGo
  <2>0. /\ current \in 1 .. numThreads /\ current' = current + 1 /\ thread[current] = "ended"
        /\ pc' = IF current = numThreads THEN "destroyed" ELSE "look"
    BY <1>0 DEF Passed
  <2>1. TypeOK'
    BY <1>0, <2>0 DEF TypeOK
  <2>2. Progress' /\ LoopSet' /\ Known'
    BY <2>0 DEF Progress, LoopSet, Known
  <2>3. Passed'
    BY <1>0, <2>0 DEF Passed
  <2> QED  BY <2>0, <2>1, <2>2, <2>3, StillChosen
<1> QED  BY <1>1, <1>2, <1>3, <1>4, <1>5 DEF Destructor

-----------------------------------------------------------------------------

LEMMA StepPool == PoolInv /\ [Next]_vars => PoolInv'
<1> SUFFICES ASSUME PoolInv, [Next]_vars PROVE PoolInv'
  OBVIOUS
<1>1. CASE Next
  BY <1>1, StarterSteps, ThreadSteps, ChoiceStep, DestructorSteps DEF Next
<1>2. CASE UNCHANGED vars
  <2> USE <1>2 DEF vars, config, starter, threads, pool, PoolInv
  <2>1. TypeOK' /\ Progress' /\ LoopSet' /\ Known' /\ Passed'
    BY DEF TypeOK, Progress, LoopSet, Known, Passed
  <2> QED  BY <2>1, SameChosen
<1> QED  BY <1>1, <1>2

LEMMA InvPool == Spec => []PoolInv
BY InitPool, StepPool, PTL DEF Spec

\* Every variable keeps its type; next_ never passes the end of loops_ by more
\* than one.
THEOREM TypeCorrect == Spec => []TypeOK
<1>1. PoolInv => TypeOK
  BY DEF PoolInv
<1> QED  BY <1>1, InvPool, PTL

\* What start() hands out is ready: its tid is known and its loop initialised.
THEOREM ReadyWhenStarted == Spec => []StartedIsReady
<1>1. PoolInv => StartedIsReady
  <2> SUFFICES ASSUME PoolInv PROVE StartedIsReady
    OBVIOUS
  <2>0. numThreads \in 0 .. MaxThreads /\ Len(loops) <= numThreads /\ Len(loops) \in Nat
    BY ThreadBoundsAssumption DEF PoolInv, TypeOK, Known, Progress, Starting, Destructing
  <2>1. \A i \in 1 .. numThreads : thread[i] \notin Early => tid[i]
    BY <2>0, ThreadBoundsAssumption DEF PoolInv, Progress, ThreadId, Early
  <2>2. \A k \in 1 .. Len(loops) : loops[k] = k /\ (hasInit => k \in inited)
    BY <2>0, ThreadBoundsAssumption DEF PoolInv, Known, LoopSet, ThreadId, Early, Late
  <2>3. \A i \in 1 .. numThreads :
          (i < current \/ (i = current /\ pc # "semaphore") \/ pc \in Destructing)
            => thread[i] \notin Early
    BY <2>0, ThreadBoundsAssumption DEF PoolInv, Progress, ThreadId
  <2> QED  BY <2>0, <2>1, <2>2, <2>3 DEF StartedIsReady, PoolInv, TypeOK
<1> QED  BY <1>1, InvPool, PTL

\* GetNextLoop goes round, and reads behind the end once in every round.
THEOREM LoopsInTurn == Spec => []ChosenInTurn
<1>1. PoolInv => ChosenInTurn
  BY DEF PoolInv, NextChosen
<1> QED  BY <1>1, InvPool, PTL

\* No EventLoopThread is destroyed under its running thread.
THEOREM NotDestroyedRunning == Spec => []ReleasedAfterThread
<1>1. PoolInv => ReleasedAfterThread
  BY ThreadBoundsAssumption DEF PoolInv, Passed, ReleasedAfterThread, TypeOK
<1> QED  BY <1>1, InvPool, PTL

=============================================================================
