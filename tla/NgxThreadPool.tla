--------------------------- MODULE NgxThreadPool ----------------------------
(***************************************************************************)
(* An nginx thread pool (core/ngx_thread_pool.c): the main thread of a     *)
(* worker process posts tasks to a linked queue guarded by a mutex and a   *)
(* condition variable; threads run them and link them to a second list,    *)
(* guarded by a spinlock; an eventfd makes the event loop of the main      *)
(* thread take that list and call the tasks' event handlers.               *)
(*                                                                         *)
(* Both lists are singly linked through task->next, with `last' the        *)
(* address of the last `next' field, or of `first' when the list is empty. *)
(* What is done under the mutex, or under the spinlock, is one step: every *)
(* other access to the same words is under the same lock.  Everything that *)
(* the code does outside them is a step of its own.                        *)
(***************************************************************************)
EXTENDS Integers, Sequences, FiniteSets

CONSTANTS
    Thread,     \* the threads of the pool (tp->threads of them)
    Task,       \* the tasks the event loop posts
    Exit,       \* the task on the stack of ngx_thread_pool_destroy()
    Null,       \* the null pointer
    First,      \* the address &queue->first
    MaxQueue,   \* tp->max_queue
    MaxPost     \* bound on the number of posts

ASSUME NgxThreadPoolAssumption ==
    /\ IsFiniteSet(Thread)
    /\ Exit \notin Task
    /\ {Null, First} \cap (Task \cup {Exit}) = {}
    /\ Null # First
    /\ MaxQueue \in Nat
    /\ MaxPost \in Nat

AnyTask == Task \cup {Exit}

VARIABLES
    next,       \* task->next
    active,     \* task->event.active
    qfirst, qlast,  \* tp->queue
    waiting,    \* tp->waiting
    dfirst, dlast,  \* ngx_thread_pool_done
    notified,   \* an edge of the eventfd that epoll_wait() has not returned yet
    tpc,        \* where each thread is in ngx_thread_pool_cycle()
    ttask,      \* its local `task'
    mpc,        \* where the main thread is
    mtask,      \* `task' of ngx_thread_pool_handler()
    exitLock,   \* `lock' of ngx_thread_pool_destroy()
    exitN,      \* `n' of ngx_thread_pool_destroy()
    posts,      \* bound: number of posts so far
    queue,      \* history: the tasks posted and not yet taken, in order
    done,       \* history: the tasks linked to the done list, in order
    todo,       \* history: the tasks the handler has still to complete
    ran         \* history: how often task->handler ran since the last post

poolVars == <<qfirst, qlast, waiting, queue>>
doneVars == <<dfirst, dlast, done>>
mainVars == <<mpc, mtask, todo, exitLock, exitN, posts>>
vars == <<next, active, poolVars, doneVars, notified, tpc, ttask, mainVars, ran>>

-----------------------------------------------------------------------------
Goto(w, l) == tpc' = [tpc EXCEPT ![w] = l]

Waiters == {w \in Thread : tpc[w] = "wait"}     \* in pthread_cond_wait()
Woken == {w \in Thread : tpc[w] = "woken"}      \* on their way out of it
Idle == Waiters \cup Woken                      \* counted by waiting--

Init ==
    /\ next = [t \in AnyTask |-> Null]
    /\ active = [t \in AnyTask |-> FALSE]
    /\ qfirst = Null /\ qlast = First /\ waiting = 0 /\ queue = <<>>
    /\ dfirst = Null /\ dlast = First /\ done = <<>>
    /\ notified = FALSE
    /\ tpc = [w \in Thread |-> "top"]
    /\ ttask = [w \in Thread |-> Null]
    /\ mpc = "loop" /\ mtask = Null /\ todo = <<>>
    /\ exitLock = 0 /\ exitN = 0 /\ posts = 0
    /\ ran = [t \in AnyTask |-> 0]

-----------------------------------------------------------------------------
(* ngx_thread_task_post(), called by the main thread only *)

CanPost(t) == ~active[t] /\ waiting < MaxQueue

\* Mutant: only a post to the empty queue signals.
SignalWhenEmpty ==
    IF Waiters = {} \/ qfirst # Null
    THEN UNCHANGED tpc
    ELSE \E w \in Waiters : Goto(w, "woken")

\* pthread_cond_signal() wakes one of the waiting threads if there is one.
Signal ==
    IF Waiters = {} THEN UNCHANGED tpc ELSE \E w \in Waiters : Goto(w, "woken")

\* *last = t, where `last' is the address of a next field or of `first'.
Link(nx, last, t) == IF last = First THEN nx ELSE [nx EXCEPT ![last] = t]

\* Mutant: the task goes to the front.
EnqueueFront(t) ==
    /\ next' = [next EXCEPT ![t] = qfirst]
    /\ qfirst' = t
    /\ qlast' = IF qlast = First THEN t ELSE qlast
    /\ queue' = <<t>> \o queue

\* task->next = NULL; *queue.last = task; queue.last = &task->next
Enqueue(t) ==
    /\ next' = Link([next EXCEPT ![t] = Null], qlast, t)
    /\ qfirst' = IF qlast = First THEN t ELSE qfirst
    /\ qlast' = t
    /\ queue' = Append(queue, t)

PostTask(t) ==
    /\ CanPost(t)
    /\ active' = [active EXCEPT ![t] = TRUE]
    /\ Signal
    /\ Enqueue(t)
    /\ waiting' = waiting + 1
    /\ ran' = [ran EXCEPT ![t] = 0]
    /\ UNCHANGED <<doneVars, notified, ttask>>

\* A post that succeeds, from the event loop or from a completion handler.  A
\* refused one (task active, queue overflow) changes nothing.
Post(t) ==
    /\ mpc \in {"loop", "handler"}
    /\ posts < MaxPost
    /\ PostTask(t)
    /\ posts' = posts + 1
    /\ UNCHANGED <<mpc, mtask, todo, exitLock, exitN>>

-----------------------------------------------------------------------------
(* ngx_thread_pool_cycle() *)

\* task = queue.first; queue.first = task->next; ...
Dequeue(w) ==
    /\ qfirst # Null
    /\ ttask' = [ttask EXCEPT ![w] = qfirst]
    /\ qfirst' = next[qfirst]
    /\ qlast' = IF next[qfirst] = Null THEN First ELSE qlast
    /\ queue' = Tail(queue)
    /\ Goto(w, "run")

CondWait(w) ==
    /\ qfirst = Null
    /\ Goto(w, "wait")
    /\ UNCHANGED <<qfirst, qlast, queue, ttask>>

\* The top of the loop; "the number may become negative".
Top(w) ==
    /\ tpc[w] = "top"
    /\ waiting' = waiting - 1
    /\ Dequeue(w) \/ CondWait(w)
    /\ UNCHANGED <<next, active, doneVars, notified, mainVars, ran>>

\* pthread_cond_wait() may return without a signal.
SpuriousWakeup(w) ==
    /\ tpc[w] = "wait"
    /\ Goto(w, "woken")
    /\ UNCHANGED <<next, active, poolVars, doneVars, notified, ttask, mainVars, ran>>

\* `while (tp->queue.first == NULL)' after pthread_cond_wait() has returned.
Recheck(w) ==
    /\ tpc[w] = "woken"
    /\ Dequeue(w) \/ CondWait(w)
    /\ UNCHANGED <<next, active, waiting, doneVars, notified, mainVars, ran>>

\* Mutant: the exit handler ends the thread without *lock = 0.
RunExitKeepsLock(w) ==
    /\ tpc[w] = "run"
    /\ ran' = [ran EXCEPT ![ttask[w]] = @ + 1]
    /\ Goto(w, IF ttask[w] = Exit THEN "exited" ELSE "finish")
    /\ UNCHANGED <<next, active, poolVars, doneVars, notified, ttask, mainVars>>

\* task->handler(task->ctx); ngx_thread_pool_exit_handler() clears the lock
\* of the main thread and ends the thread.
Run(w) ==
    /\ tpc[w] = "run"
    /\ ran' = [ran EXCEPT ![ttask[w]] = @ + 1]
    /\ IF ttask[w] = Exit
       THEN exitLock' = 0 /\ Goto(w, "exited")
       ELSE UNCHANGED exitLock /\ Goto(w, "finish")
    /\ UNCHANGED <<next, active, poolVars, doneVars, notified, ttask,
                   mpc, mtask, todo, exitN, posts>>

\* task->next = NULL, outside the spinlock.
Finish(w) ==
    /\ tpc[w] = "finish"
    /\ next' = [next EXCEPT ![ttask[w]] = Null]
    /\ Goto(w, "append")
    /\ UNCHANGED <<active, poolVars, doneVars, notified, ttask, mainVars, ran>>

\* *done.last = task; done.last = &task->next, under the spinlock.
AppendDone(w) ==
    /\ tpc[w] = "append"
    /\ next' = Link(next, dlast, ttask[w])
    /\ dfirst' = IF dlast = First THEN ttask[w] ELSE dfirst
    /\ dlast' = ttask[w]
    /\ done' = Append(done, ttask[w])
    /\ ttask' = [ttask EXCEPT ![w] = Null]
    /\ Goto(w, "notify")
    /\ UNCHANGED <<active, poolVars, notified, mainVars, ran>>

\* ngx_notify(): a write to the eventfd.
Notify(w) ==
    /\ tpc[w] = "notify"
    /\ notified' = TRUE
    /\ Goto(w, "top")
    /\ UNCHANGED <<next, active, poolVars, doneVars, ttask, mainVars, ran>>

-----------------------------------------------------------------------------
(* ngx_thread_pool_handler(), in the event loop *)

\* epoll_wait() reports the edge-triggered eventfd once for the writes so far.
EpollWait ==
    /\ mpc = "loop"
    /\ notified
    /\ notified' = FALSE
    /\ mpc' = "take"
    /\ UNCHANGED <<next, active, poolVars, doneVars, tpc, ttask, mtask, todo,
                   exitLock, exitN, posts, ran>>

\* Mutant: done.last is left alone.
TakeDoneKeepsLast ==
    /\ mpc = "take"
    /\ mtask' = dfirst
    /\ dfirst' = Null
    /\ todo' = done
    /\ done' = <<>>
    /\ mpc' = "deliver"
    /\ UNCHANGED <<next, active, poolVars, dlast, notified, tpc, ttask, exitLock,
                   exitN, posts, ran>>

\* Mutant: the eventfd is drained after the list was taken, so that a
\* notification sent in between is lost.
DeliverAndDrain ==
    /\ mpc = "deliver"
    /\ IF mtask = Null
       THEN /\ mpc' = "loop"
            /\ UNCHANGED <<mtask, active, todo>>
       ELSE /\ mtask' = next[mtask]
            /\ active' = [active EXCEPT ![mtask] = FALSE]
            /\ todo' = Tail(todo)
            /\ mpc' = "handler"
    /\ notified' = FALSE
    /\ UNCHANGED <<next, poolVars, doneVars, tpc, ttask, exitLock, exitN, posts, ran>>

\* The whole done list becomes the handler's own, under the spinlock.
TakeDone ==
    /\ mpc = "take"
    /\ mtask' = dfirst
    /\ dfirst' = Null
    /\ dlast' = First
    /\ todo' = done
    /\ done' = <<>>
    /\ mpc' = "deliver"
    /\ UNCHANGED <<next, active, poolVars, notified, tpc, ttask, exitLock, exitN,
                   posts, ran>>

\* One turn of the while loop up to event->handler(event), or its end.
Deliver ==
    /\ mpc = "deliver"
    /\ IF mtask = Null
       THEN /\ mpc' = "loop"
            /\ UNCHANGED <<mtask, active, todo>>
       ELSE /\ mtask' = next[mtask]
            /\ active' = [active EXCEPT ![mtask] = FALSE]
            /\ todo' = Tail(todo)
            /\ mpc' = "handler"
    /\ UNCHANGED <<next, poolVars, doneVars, notified, tpc, ttask, exitLock, exitN,
                   posts, ran>>

HandlerReturn ==
    /\ mpc = "handler"
    /\ mpc' = "deliver"
    /\ UNCHANGED <<next, active, poolVars, doneVars, notified, tpc, ttask, mtask,
                   todo, exitLock, exitN, posts, ran>>

-----------------------------------------------------------------------------
(* ngx_thread_pool_destroy(), when the worker process exits *)

StartDestroy ==
    /\ mpc = "loop"
    /\ mpc' = "exit_post"
    /\ UNCHANGED <<next, active, poolVars, doneVars, notified, tpc, ttask, mtask,
                   todo, exitLock, exitN, posts, ran>>

\* lock = 1 and the post; a refused post makes destroy() return.
ExitPost ==
    /\ mpc = "exit_post"
    /\ exitN < Cardinality(Thread)
    /\ exitLock' = 1
    /\ \/ /\ PostTask(Exit)
          /\ mpc' = "exit_spin"
       \/ /\ ~CanPost(Exit)
          /\ mpc' = "left"
          /\ UNCHANGED <<next, active, poolVars, doneVars, notified, tpc, ttask, ran>>
    /\ UNCHANGED <<mtask, todo, exitN, posts>>

\* while (lock) { ngx_sched_yield(); } task.event.active = 0
ExitSpin ==
    /\ mpc = "exit_spin"
    /\ exitLock = 0
    /\ active' = [active EXCEPT ![Exit] = FALSE]
    /\ exitN' = exitN + 1
    /\ mpc' = "exit_post"
    /\ UNCHANGED <<next, poolVars, doneVars, notified, tpc, ttask, mtask, todo,
                   exitLock, posts, ran>>

\* Mutant: one exit task too few.
DestroyEarly ==
    /\ mpc = "exit_post"
    /\ exitN + 1 = Cardinality(Thread)
    /\ mpc' = "down"
    /\ UNCHANGED <<next, active, poolVars, doneVars, notified, tpc, ttask, mtask,
                   todo, exitLock, exitN, posts, ran>>

\* The condition variable and the mutex are destroyed.
Destroy ==
    /\ mpc = "exit_post"
    /\ exitN = Cardinality(Thread)
    /\ mpc' = "down"
    /\ UNCHANGED <<next, active, poolVars, doneVars, notified, tpc, ttask, mtask,
                   todo, exitLock, exitN, posts, ran>>

\* The process is about to exit.
Stopped == mpc \in {"down", "left"} /\ UNCHANGED vars

-----------------------------------------------------------------------------
ThreadStep(w) ==
    Top(w) \/ Recheck(w) \/ Run(w) \/ Finish(w) \/ AppendDone(w) \/ Notify(w)

MainStep ==
    EpollWait \/ TakeDone \/ Deliver \/ HandlerReturn \/ ExitPost \/ ExitSpin \/ Destroy

Next ==
    \/ \E w \in Thread : ThreadStep(w) \/ SpuriousWakeup(w)
    \/ \E t \in Task : Post(t)
    \/ MainStep
    \/ StartDestroy
    \/ Stopped

Spec == Init /\ [][Next]_vars

\* The threads are scheduled, the mutex and the spinlock are held for a few
\* instructions only, task and completion handlers return, and the main thread
\* returns to its event loop.  No post and no exit is obliged to happen.
FairSpec == Spec /\ WF_vars(MainStep) /\ \A w \in Thread : WF_vars(ThreadStep(w))

-----------------------------------------------------------------------------
(* Properties *)

ThreadLabels == {"top", "wait", "woken", "run", "finish", "append", "notify", "exited"}
MainLabels == {"loop", "take", "deliver", "handler", "exit_post", "exit_spin",
               "down", "left"}

\* The types of the lists, the flags and the program counters.
TypeOK ==
    /\ next \in [AnyTask -> AnyTask \cup {Null}]
    /\ active \in [AnyTask -> BOOLEAN]
    /\ qfirst \in AnyTask \cup {Null} /\ qlast \in AnyTask \cup {First}
    /\ dfirst \in AnyTask \cup {Null} /\ dlast \in AnyTask \cup {First}
    /\ waiting \in Int
    /\ notified \in BOOLEAN
    /\ tpc \in [Thread -> ThreadLabels]
    /\ ttask \in [Thread -> AnyTask \cup {Null}]
    /\ mpc \in MainLabels
    /\ mtask \in AnyTask \cup {Null}
    /\ exitLock \in {0, 1} /\ exitN \in Nat /\ posts \in Nat
    /\ queue \in Seq(AnyTask) /\ done \in Seq(AnyTask) /\ todo \in Seq(AnyTask)
    /\ ran \in [AnyTask -> Nat]

\* `first', `last' and the next fields spell the sequence s.
Spells(first, last, s) ==
    /\ first = IF s = <<>> THEN Null ELSE s[1]
    /\ last = IF s = <<>> THEN First ELSE s[Len(s)]
    /\ \A i \in 1 .. Len(s) : next[s[i]] = IF i = Len(s) THEN Null ELSE s[i + 1]

Occurrences(t, s) == Cardinality({i \in 1 .. Len(s) : s[i] = t})

Running(t) == {w \in Thread : ttask[w] = t /\ tpc[w] # "exited"}

\* A completion handler is called for a task that ran once since it was
\* posted: neither before its handler ran nor after it ran twice.
RanOnce ==
    /\ \A t \in AnyTask : ran[t] <= 1
    /\ \A i \in 1 .. Len(todo) : ran[todo[i]] = 1

\* A task whose event is active is in exactly one place: the queue, a thread,
\* the done list or the list being completed; an inactive one is in none, and
\* each completed one ran once.
OnePlace ==
    /\ RanOnce
    /\ \A t \in Task :
          Occurrences(t, queue) + Occurrences(t, done) + Occurrences(t, todo)
              + Cardinality(Running(t)) = IF active[t] THEN 1 ELSE 0

\* The three lists share the one next field of a task, are written by
\* different threads, and still are what was linked into them, in order, each
\* task in one of them.
ListShape ==
    /\ TypeOK
    /\ Spells(qfirst, qlast, queue)
    /\ Spells(dfirst, dlast, done)
    /\ Spells(mtask, IF todo = <<>> THEN First ELSE todo[Len(todo)], todo)
    /\ OnePlace

\* tp->waiting, which may be negative, counts the queued tasks minus the
\* threads that are idle.
WaitingCount == waiting = Len(queue) - Cardinality(Idle)

\* The limit of the thread_pool directive: beyond one task for each idle
\* thread at most max_queue tasks are queued.
QueueBound == WaitingCount /\ Len(queue) <= MaxQueue + Cardinality(Idle)

\* No lost wakeup with pthread_cond_signal() and no broadcast: while a thread
\* sleeps, each queued task has a woken thread coming for it; and the counter
\* that bounds the queue does not drift while threads come and go.
NoStall ==
    /\ QueueBound
    /\ Waiters # {} => Len(queue) <= Cardinality(Woken)

\* The mutex and the condition variable are destroyed only when no thread can
\* use them again.
DestroyedUnused == mpc = "down" => \A w \in Thread : tpc[w] = "exited"

\* Every accepted task is completed, unless the process starts to exit.
Exiting == mpc \in {"exit_post", "exit_spin", "down", "left"}
Completed == \A t \in Task : active[t] ~> ~active[t] \/ Exiting

\* Once started, the destruction of the pool ends.
DestroyEnds == mpc = "exit_post" ~> mpc \in {"down", "left"}

\* The pool implements the abstract task service.
Stage(t) ==
    CASE ~active[t] -> "free"
      [] active[t] /\ Occurrences(t, queue) > 0 -> "pending"
      [] active[t] /\ \E w \in Running(t) : tpc[w] = "run" -> "running"
      [] OTHER -> "finished"

\* What was asked for: the exit task is posted last, and nothing behind it.
Requested ==
    IF queue # <<>> /\ queue[Len(queue)] = Exit
    THEN SubSeq(queue, 1, Len(queue) - 1)
    ELSE queue

Service == INSTANCE TaskService WITH
    pending <- Requested,
    stage <- [t \in Task |-> Stage(t)]
ImplementsTaskService == Service!Spec
=============================================================================
