----------------------------- MODULE LoopThread -----------------------------
(***************************************************************************)
(* How TcpServer::start() brings up its loop threads, newConnection()      *)
(* chooses among them and the destructors let go of them:                  *)
(* EventLoopThreadPool, EventLoopThread and Thread.                        *)
(*                                                                         *)
(* The starter starts one thread after the other.  Thread::start waits on  *)
(* a semaphore for the tid; EventLoopThread::startloop then waits on cond_ *)
(* for loop_.  ThreadFunc sets loop_ and notifies with a lock object that  *)
(* holds no mutex, so its steps fall anywhere between those of the starter.*)
(* The destructor reads loop_ without a lock as well.                      *)
(***************************************************************************)
EXTENDS Integers, Sequences

CONSTANTS
    MaxThreads,  \* bound: setThreadNum() with at most this many
    MaxChosen    \* bound: connections
ASSUME ThreadBoundsAssumption == MaxThreads \in Nat /\ MaxChosen \in Nat

VARIABLES
    numThreads,  \* numThreads_
    hasInit,     \* the ThreadInitCallback is not empty
    pc,          \* where the starter is
    current,     \* the thread it is starting; all before it are started
    posted,      \* the semaphore of Thread::start
    quit,        \* the loops whose quit_ is set
    thread,      \* where each thread is
    tid,         \* tid_ of each Thread is known
    inited,      \* loops the init callback was called for; 0 is baseloop_
    loop,        \* loop_ of each EventLoopThread is set
    notified,    \* a notify_one the waiting starter has got
    missed,      \* history: a notify_one fell between its test and its wait
    loops,       \* loops_ of the pool
    next,        \* next_
    chosen       \* the loops GetNextLoop returned

config  == <<numThreads, hasInit>>
starter == <<pc, current, posted, notified, missed>>
threads == <<thread, tid, inited, loop, quit>>
pool    == <<loops, next, chosen>>
vars == <<config, starter, threads, pool>>

ThreadId == 1 .. MaxThreads
BaseLoop == 0
OutOfBounds == MaxThreads + 1  \* loops_[loops_.size()]: whatever memory holds

-----------------------------------------------------------------------------
(* The starter: EventLoopThreadPool::Start.                                *)

\* Without loop threads the callback is called for the main loop; an empty
\* std::function throws bad_function_call.
StartNone ==
    /\ pc = "start" /\ numThreads = 0
    /\ pc' = IF hasInit THEN "started" ELSE "threw"
    /\ inited' = IF hasInit THEN inited \cup {BaseLoop} ELSE inited
    /\ UNCHANGED <<config, pool, current, posted, thread, tid, loop, quit, notified, missed>>

\* Thread::start creates the std::thread ...
StartThread ==
    /\ pc = "start" /\ current < numThreads
    /\ current' = current + 1
    /\ thread' = [thread EXCEPT ![current + 1] = "tid"]
    /\ posted' = FALSE
    /\ pc' = "semaphore"
    /\ UNCHANGED <<config, pool, tid, inited, loop, quit, notified, missed>>

\* Faulty variant: start() returns at once.
SkipSemaphore ==
    /\ pc = "semaphore"
    /\ pc' = "check"
    /\ UNCHANGED <<config, threads, pool, current, posted, notified, missed>>
\* ... and waits for its tid.
WaitSemaphore ==
    /\ pc = "semaphore" /\ posted
    /\ pc' = "check"
    /\ UNCHANGED <<config, threads, pool, current, posted, notified, missed>>

\* while(loop_==nullptr): the test, and the wait that follows it.
Check ==
    /\ pc = "check"
    /\ IF loop[current]
       THEN /\ loops' = Append(loops, current)
            /\ pc' = IF current = numThreads THEN "started" ELSE "start"
       ELSE pc' = "sleep" /\ UNCHANGED loops
    /\ UNCHANGED <<config, threads, current, posted, notified, missed, next, chosen>>

Sleep ==
    /\ pc = "sleep"
    /\ pc' = "waiting"
    /\ notified' = FALSE
    /\ UNCHANGED <<config, threads, pool, current, posted, missed>>

Wake ==
    /\ pc = "waiting" /\ notified
    /\ pc' = "check"
    /\ UNCHANGED <<config, threads, pool, current, posted, notified, missed>>

SpuriousWakeup ==
    /\ pc = "waiting" /\ ~ notified
    /\ pc' = "check"
    /\ UNCHANGED <<config, threads, pool, current, posted, notified, missed>>

-----------------------------------------------------------------------------
(* The thread: Thread::start's lambda, then ThreadFunc.                    *)

SetTid(i) ==
    /\ thread[i] = "tid"
    /\ tid' = [tid EXCEPT ![i] = TRUE]
    /\ thread' = [thread EXCEPT ![i] = "post"]
    /\ UNCHANGED <<config, starter, pool, inited, loop, quit>>

Post(i) ==
    /\ thread[i] = "post"
    /\ posted' = TRUE
    /\ thread' = [thread EXCEPT ![i] = "init"]
    /\ UNCHANGED <<config, pool, pc, current, tid, inited, loop, quit, notified, missed>>

CallInit(i) ==
    /\ thread[i] = "init"
    /\ inited' = IF hasInit THEN inited \cup {i} ELSE inited
    /\ thread' = [thread EXCEPT ![i] = "publish"]
    /\ UNCHANGED <<config, starter, pool, tid, loop, quit>>

Publish(i) ==
    /\ thread[i] = "publish"
    /\ loop' = [loop EXCEPT ![i] = TRUE]
    /\ thread' = [thread EXCEPT ![i] = "notify"]
    /\ UNCHANGED <<config, starter, pool, tid, inited, quit>>

\* Faulty variant: nobody is notified.
NotifyNobody(i) ==
    /\ thread[i] = "notify"
    /\ thread' = [thread EXCEPT ![i] = "enter"]
    /\ missed' = (missed \/ (pc = "sleep" /\ current = i))
    /\ UNCHANGED <<config, pool, pc, current, posted, tid, inited, loop, quit, notified>>
\* notify_one wakes a thread that waits on this cond_, and nobody otherwise:
\* without the mutex it may come when the starter has tested and not yet waits.
Notify(i) ==
    /\ thread[i] = "notify"
    /\ thread' = [thread EXCEPT ![i] = "enter"]
    /\ notified' = (notified \/ (pc = "waiting" /\ current = i))
    /\ missed' = (missed \/ (pc = "sleep" /\ current = i))
    /\ UNCHANGED <<config, pool, pc, current, posted, tid, inited, loop, quit>>

\* loop() begins with quit_ = false: a quit() that came first is lost.
EnterLoop(i) ==
    /\ thread[i] = "enter"
    /\ quit' = quit \ {i}
    /\ thread' = [thread EXCEPT ![i] = "looping"]
    /\ UNCHANGED <<config, starter, pool, tid, inited, loop>>

\* loop() returns and loop_ becomes null, again under a lock of nothing.
LeaveLoop(i) ==
    /\ thread[i] = "looping" /\ i \in quit
    /\ loop' = [loop EXCEPT ![i] = FALSE]
    /\ thread' = [thread EXCEPT ![i] = "ended"]
    /\ UNCHANGED <<config, starter, pool, tid, inited, quit>>

\* A callback of a connection calls quit() on its loop.
QuitInLoop(i) ==
    /\ thread[i] = "looping"
    /\ \E k \in DOMAIN chosen : chosen[k] = i
    /\ quit' = quit \cup {i}
    /\ UNCHANGED <<config, starter, pool, thread, tid, inited, loop>>

-----------------------------------------------------------------------------
(* newConnection.                                                          *)

\* Faulty variant: next_ is compared with the number of all loops.
NextAfterBase(n) == IF n + 1 > Len(loops) + 1 THEN 0 ELSE n + 1
\* next_++; if(next_>loops_.size()) next_=0;
NextAfter(n) == IF n + 1 > Len(loops) THEN 0 ELSE n + 1

LoopAt(n) == IF n < Len(loops) THEN loops[n + 1] ELSE OutOfBounds

GetNextLoop ==
    /\ pc = "started"
    /\ Len(chosen) < MaxChosen
    /\ IF loops = <<>>
       THEN chosen' = Append(chosen, BaseLoop) /\ UNCHANGED next
       ELSE chosen' = Append(chosen, LoopAt(next)) /\ next' = NextAfter(next)
    /\ UNCHANGED <<config, starter, threads, loops>>

-----------------------------------------------------------------------------
(* ~EventLoopThreadPool lets go of one EventLoopThread after the other.    *)

LetGo(i) ==
    /\ pc' = IF i > numThreads THEN "destroyed" ELSE "look"
    /\ current' = i
    /\ UNCHANGED <<config, threads, pool, posted, notified, missed>>

Destroy == pc = "started" /\ LetGo(1)

\* Faulty variant: the destructor takes the thread for ended.
LookAway ==
    /\ pc = "look"
    /\ pc' = "detach"
    /\ UNCHANGED <<config, threads, pool, current, posted, notified, missed>>
\* ~EventLoopThread: if(loop_!=nullptr) ...
Look ==
    /\ pc = "look"
    /\ pc' = IF loop[current] THEN "quit" ELSE "detach"
    /\ UNCHANGED <<config, threads, pool, current, posted, notified, missed>>

\* ... loop_->quit(), which touches a dead EventLoop if the thread has left
\* ThreadFunc meanwhile: the process goes on, or does not.
CallQuit ==
    /\ pc = "quit"
    /\ quit' = quit \cup {current}
    /\ pc' = "join" \/ (thread[current] = "ended" /\ pc' = "crashed")
    /\ UNCHANGED <<config, pool, current, posted, thread, tid, inited, loop, notified, missed>>

Join ==
    /\ pc = "join"
    /\ thread[current] = "ended"
    /\ pc' = "joined"
    /\ UNCHANGED <<config, threads, pool, current, posted, notified, missed>>

\* ~Thread detaches a thread that was started and not joined and posts its
\* semaphore.  It waits for that semaphore in any case: nothing follows "joined".
Detach == pc = "detach" /\ LetGo(current + 1)

-----------------------------------------------------------------------------

\* setThreadNum() and setThreadInitCallback() were called, or were not.
Init ==
    /\ numThreads \in 0 .. MaxThreads /\ hasInit \in BOOLEAN
    /\ pc = "start" /\ current = 0 /\ posted = FALSE
    /\ notified = FALSE /\ missed = FALSE /\ quit = {}
    /\ thread = [i \in ThreadId |-> "none"]
    /\ tid = [i \in ThreadId |-> FALSE] /\ loop = [i \in ThreadId |-> FALSE]
    /\ inited = {} /\ loops = <<>> /\ next = 0 /\ chosen = <<>>

Starter == StartNone \/ StartThread \/ WaitSemaphore \/ Check \/ Sleep \/ Wake
Destructor == Destroy \/ Look \/ CallQuit \/ Join \/ Detach
ThreadFunc(i) ==
    SetTid(i) \/ Post(i) \/ CallInit(i) \/ Publish(i) \/ Notify(i) \/ EnterLoop(i) \/ LeaveLoop(i)

Next ==
    \/ Starter \/ SpuriousWakeup \/ GetNextLoop \/ Destructor
    \/ \E i \in ThreadId : ThreadFunc(i) \/ QuitInLoop(i)

Spec == Init /\ [][Next]_vars

\* Threads run; nothing wakes a waiting thread spuriously for sure.
Fairness == WF_vars(Starter) /\ \A i \in ThreadId : WF_vars(ThreadFunc(i))
FairSpec == Spec /\ Fairness

-----------------------------------------------------------------------------

Destructing == {"look", "quit", "join", "joined", "detach", "destroyed", "crashed"}

TypeOK ==
    /\ numThreads \in 0 .. MaxThreads /\ hasInit \in BOOLEAN
    /\ pc \in {"start", "semaphore", "check", "sleep", "waiting", "started", "threw"} \cup Destructing
    /\ current \in 0 .. numThreads + 1
    /\ posted \in BOOLEAN /\ notified \in BOOLEAN /\ missed \in BOOLEAN
    /\ thread \in [ThreadId -> {"none", "tid", "post", "init", "publish", "notify",
                               "enter", "looping", "ended"}]
    /\ tid \in [ThreadId -> BOOLEAN] /\ loop \in [ThreadId -> BOOLEAN]
    /\ inited \subseteq {BaseLoop} \cup ThreadId /\ quit \subseteq ThreadId
    /\ loops \in Seq(ThreadId) /\ chosen \in Seq({BaseLoop, OutOfBounds} \cup ThreadId)
    /\ next \in 0 .. Len(loops)

\* "To get the correct tid" (Thread.cc): when start() has returned, the tid is
\* known, for this thread and for every earlier one.  No loop is handed to the
\* pool before its thread has called the init callback on it, though the pool
\* reads loop_ without the thread's knowledge.
StartedIsReady ==
    /\ \A i \in 1 .. numThreads :
        (i < current \/ (i = current /\ pc # "semaphore") \/ pc \in Destructing) => tid[i]
    /\ \A k \in DOMAIN loops : loops[k] = k /\ (hasInit => k \in inited)

\* Connections get the loops in turn; next_ passes the end by one, so that once
\* in every round the element behind the last is read, and no other.
Following(i) ==
    CASE loops = <<>>                         -> BaseLoop
      [] loops # <<>> /\ i = OutOfBounds      -> 1
      [] loops # <<>> /\ i = Len(loops)       -> OutOfBounds
      [] loops # <<>> /\ i \in 1 .. Len(loops) - 1 -> i + 1
ChosenInTurn ==
    \A k \in DOMAIN chosen :
        chosen[k] = IF k = 1 THEN Following(OutOfBounds) ELSE Following(chosen[k - 1])

\* The destructor passes an EventLoopThread only when its thread, which writes
\* loop_ last, is done with it.  (It never passes one it had to stop itself.)
ReleasedAfterThread ==
    pc \in Destructing => \A i \in 1 .. current - 1 : thread[i] = "ended"

\* start() returns unless a notification fell between the test of loop_ and the
\* wait of startloop: nothing else in the two handshakes can hold it up.
OnlyMissedNotifyHangs == <>(pc \in {"started", "threw"} \/ missed)

\* start() returns: "server.start(); // listen  loopthread" (test.cc), then
\* loop.loop().
StartReturns == <>(pc \in {"started", "threw"})

==============================================================================
