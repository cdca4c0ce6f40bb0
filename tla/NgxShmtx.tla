------------------------------ MODULE NgxShmtx ------------------------------
(***************************************************************************)
(* The nginx shared-memory mutex (core/ngx_shmtx.c): an atomic word that   *)
(* holds the owner's pid, and for the mutexes with a semaphore a count of  *)
(* waiters and a POSIX semaphore on which they sleep.  The workers may be  *)
(* killed at any point; the master then reaps them in its SIGCHLD handler  *)
(* and releases what they held (os/unix/ngx_process.c).                    *)
(*                                                                         *)
(* A step is one atomic operation on the shared words.  `*lock == 0 &&     *)
(* cmp_set(lock, 0, pid)' is one step: it fails exactly when there is an   *)
(* instant at which the word is not 0, and then changes nothing.           *)
(* Spinning, ngx_sched_yield() and a sem_wait() that returns EINTR leave   *)
(* every variable unchanged and are stuttering steps.                      *)
(***************************************************************************)
EXTENDS Integers, FiniteSets

CONSTANTS
    Worker,     \* the worker processes
    Master,     \* the master process, which only recovers mutexes
    None,       \* the value 0 of the lock word
    MaxCrash    \* bound on the number of killed workers

ASSUME NgxShmtxAssumption ==
    /\ IsFiniteSet(Worker)
    /\ Master \notin Worker
    /\ None \notin Worker
    /\ MaxCrash \in Nat

Proc == Worker \cup {Master}

VARIABLES
    lock,       \* *mtx->lock: the pid of the owner, or None
    semaphore,  \* mtx->semaphore: FALSE for the accept mutex (spin = -1)
    wait,       \* *mtx->wait, read as the signed ngx_atomic_int_t
    sem,        \* the value of mtx->sem
    pc,         \* where each process is
    seen,       \* the local `wait' of ngx_shmtx_wakeup()
    victim,     \* the pid ngx_unlock_mutexes() works on, or None
    crashes,    \* bound: number of kills so far
    leak,       \* history: waiters counted minus posts owed by the killed
    lostWakers  \* history: processes killed while they were to pass on a wakeup

vars == <<lock, wait, sem, pc, seen, victim, crashes, leak, lostWakers, semaphore>>

-----------------------------------------------------------------------------
Goto(p, l) == pc' = [pc EXCEPT ![p] = l]

\* The counted waiters: from fetch_add(wait, 1) until the matching
\* fetch_add(wait, -1) or until sem_wait() has taken a token.
Enrolled == {p \in Worker : pc[p] \in {"retry", "unenroll", "sleep"}}

\* The processes that have taken a waiter off the count and owe a sem_post().
Posting == {p \in Proc : pc[p] = "post"}

Sleeping == {p \in Worker : pc[p] = "sleep"}

\* The places from which a process gets the mutex or passes the wakeup on.
ActiveLabels == {"try", "enroll", "retry", "wread", "wcas", "post"}
Active == {p \in Proc : pc[p] \in ActiveLabels}

Init ==
    /\ lock = None
    /\ semaphore \in BOOLEAN
    /\ wait = 0
    /\ sem = 0
    /\ pc = [p \in Proc |-> "idle"]
    /\ seen = [p \in Proc |-> 0]
    /\ victim = None
    /\ crashes = 0
    /\ leak = 0
    /\ lostWakers = 0

-----------------------------------------------------------------------------
(* ngx_shmtx_trylock() and ngx_shmtx_lock() *)

Trylock(p) ==
    /\ pc[p] = "idle"
    /\ lock = None
    /\ lock' = p
    /\ Goto(p, "cs")
    /\ UNCHANGED <<wait, sem, seen, victim, crashes, leak, lostWakers, semaphore>>

LockCall(p) ==
    /\ pc[p] = "idle"
    /\ Goto(p, "try")
    /\ UNCHANGED <<lock, wait, sem, seen, victim, crashes, leak, lostWakers, semaphore>>

\* The first attempt and those of the spin loop.
TryLock(p) ==
    /\ pc[p] = "try"
    /\ \/ /\ lock = None
          /\ lock' = p
          /\ Goto(p, "cs")
       \/ /\ lock # None
          /\ semaphore
          /\ Goto(p, "enroll")
          /\ UNCHANGED lock
    /\ UNCHANGED <<wait, sem, seen, victim, crashes, leak, lostWakers, semaphore>>

\* Mutant: a waiter sleeps without trying the lock again.
EnrollAndSleep(p) ==
    /\ pc[p] = "enroll"
    /\ wait' = wait + 1
    /\ Goto(p, "sleep")
    /\ UNCHANGED <<lock, sem, seen, victim, crashes, leak, lostWakers, semaphore>>

Enroll(p) ==
    /\ pc[p] = "enroll"
    /\ wait' = wait + 1
    /\ Goto(p, "retry")
    /\ UNCHANGED <<lock, sem, seen, victim, crashes, leak, lostWakers, semaphore>>

\* Mutant: the second attempt succeeds and the waiter stays counted.
RetryStaysEnrolled(p) ==
    /\ pc[p] = "retry"
    /\ \/ /\ lock = None
          /\ lock' = p
          /\ Goto(p, "cs")
       \/ /\ lock # None
          /\ Goto(p, "sleep")
          /\ UNCHANGED lock
    /\ UNCHANGED <<wait, sem, seen, victim, crashes, leak, lostWakers, semaphore>>

\* The attempt after enrolling, without which a wakeup could be missed.
Retry(p) ==
    /\ pc[p] = "retry"
    /\ \/ /\ lock = None
          /\ lock' = p
          /\ Goto(p, "unenroll")
       \/ /\ lock # None
          /\ Goto(p, "sleep")
          /\ UNCHANGED lock
    /\ UNCHANGED <<wait, sem, seen, victim, crashes, leak, lostWakers, semaphore>>

Unenroll(p) ==
    /\ pc[p] = "unenroll"
    /\ wait' = wait - 1
    /\ Goto(p, "cs")
    /\ UNCHANGED <<lock, sem, seen, victim, crashes, leak, lostWakers, semaphore>>

\* sem_wait() returns 0; the loop starts again.
SemWait(p) ==
    /\ pc[p] = "sleep"
    /\ sem > 0
    /\ sem' = sem - 1
    /\ Goto(p, "try")
    /\ UNCHANGED <<lock, wait, seen, victim, crashes, leak, lostWakers, semaphore>>

-----------------------------------------------------------------------------
(* ngx_shmtx_unlock() and ngx_shmtx_wakeup() *)

\* Mutant: the release does not call ngx_shmtx_wakeup().
UnlockWithoutWakeup(p) ==
    /\ pc[p] = "cs"
    /\ lock' = None
    /\ Goto(p, "idle")
    /\ UNCHANGED <<wait, sem, seen, victim, crashes, leak, lostWakers, semaphore>>

Unlock(p) ==
    /\ pc[p] = "cs"
    /\ IF lock = p
       THEN /\ lock' = None
            /\ Goto(p, IF semaphore THEN "wread" ELSE "idle")
       ELSE /\ Goto(p, "idle")
            /\ UNCHANGED lock
    /\ UNCHANGED <<wait, sem, seen, victim, crashes, leak, lostWakers, semaphore>>

\* `wait = *mtx->wait' and the test of its sign.
WakeRead(p) ==
    /\ pc[p] = "wread"
    /\ IF wait <= 0
       THEN /\ Goto(p, "idle")
            /\ UNCHANGED seen
       ELSE /\ seen' = [seen EXCEPT ![p] = wait]
            /\ Goto(p, "wcas")
    /\ UNCHANGED <<lock, wait, sem, victim, crashes, leak, lostWakers, semaphore>>

\* cmp_set(mtx->wait, wait, wait - 1); the local is dead afterwards.
WakeCas(p) ==
    /\ pc[p] = "wcas"
    /\ IF wait = seen[p]
       THEN /\ wait' = wait - 1
            /\ Goto(p, "post")
       ELSE /\ Goto(p, "wread")
            /\ UNCHANGED wait
    /\ seen' = [seen EXCEPT ![p] = 0]
    /\ UNCHANGED <<lock, sem, victim, crashes, leak, lostWakers, semaphore>>

SemPost(p) ==
    /\ pc[p] = "post"
    /\ sem' = sem + 1
    /\ Goto(p, "idle")
    /\ UNCHANGED <<lock, wait, seen, victim, crashes, leak, lostWakers, semaphore>>

-----------------------------------------------------------------------------
(* A worker is killed; the master's SIGCHLD handler recovers the mutex *)

Crash(p) ==
    /\ crashes < MaxCrash
    /\ pc[p] \notin {"dead", "reaped"}
    /\ crashes' = crashes + 1
    /\ leak' = leak + (IF p \in Enrolled THEN 1 ELSE 0)
                    - (IF p \in Posting THEN 1 ELSE 0)
    /\ lostWakers' = lostWakers + (IF p \in Active THEN 1 ELSE 0)
    /\ seen' = [seen EXCEPT ![p] = 0]
    /\ Goto(p, "dead")
    /\ UNCHANGED <<lock, wait, sem, victim, semaphore>>

\* Mutant: the handler does not call ngx_unlock_mutexes().
ReapOnly(p) ==
    /\ pc[p] = "dead"
    /\ pc[Master] = "idle"
    /\ Goto(p, "reaped")
    /\ UNCHANGED <<lock, wait, sem, seen, victim, crashes, leak, lostWakers, semaphore>>

\* waitpid() in ngx_process_get_status(); the handler runs to its end before
\* the next pid is reaped.
Reap(p) ==
    /\ pc[p] = "dead"
    /\ pc[Master] = "idle"
    /\ pc' = [pc EXCEPT ![p] = "reaped", ![Master] = "force"]
    /\ victim' = p
    /\ UNCHANGED <<lock, wait, sem, seen, crashes, leak, lostWakers, semaphore>>

\* Mutant: the word is cleared whatever pid it holds.
ForceUnlockAny ==
    /\ pc[Master] = "force"
    /\ lock' = None
    /\ Goto(Master, IF semaphore THEN "wread" ELSE "idle")
    /\ victim' = None
    /\ UNCHANGED <<wait, sem, seen, crashes, leak, lostWakers, semaphore>>

\* ngx_shmtx_force_unlock(mtx, pid)
ForceUnlock ==
    /\ pc[Master] = "force"
    /\ IF lock = victim
       THEN /\ lock' = None
            /\ Goto(Master, IF semaphore THEN "wread" ELSE "idle")
       ELSE /\ Goto(Master, "idle")
            /\ UNCHANGED lock
    /\ victim' = None
    /\ UNCHANGED <<wait, sem, seen, crashes, leak, lostWakers, semaphore>>

\* Mutant: the new worker does not wait for the end of the handler.
RespawnEarly(p) ==
    /\ pc[p] = "reaped"
    /\ Goto(p, "idle")
    /\ UNCHANGED <<lock, wait, sem, seen, victim, crashes, leak, lostWakers, semaphore>>

\* ngx_reap_children() starts a new worker, outside the signal handler.  The
\* kernel may give it the reaped pid again, so it keeps the same name here.
Respawn(p) ==
    /\ pc[p] = "reaped"
    /\ pc[Master] = "idle"
    /\ Goto(p, "idle")
    /\ UNCHANGED <<lock, wait, sem, seen, victim, crashes, leak, lostWakers, semaphore>>

-----------------------------------------------------------------------------
LockStep(p) == TryLock(p) \/ Enroll(p) \/ Retry(p) \/ Unenroll(p) \/ SemWait(p)
WakeStep(p) == WakeRead(p) \/ WakeCas(p) \/ SemPost(p)

Next ==
    \/ \E p \in Worker :
          \/ Trylock(p) \/ LockCall(p) \/ LockStep(p) \/ Unlock(p)
          \/ Crash(p) \/ Reap(p) \/ Respawn(p)
    \/ \E p \in Proc : WakeStep(p)
    \/ ForceUnlock

Spec == Init /\ [][Next]_vars

\* Every process inside ngx_shmtx_lock() or ngx_shmtx_unlock() is scheduled
\* and critical sections end; the kernel delivers SIGCHLD and the handler
\* runs.  Nobody is obliged to ask for the mutex.
Fairness ==
    /\ \A p \in Worker : WF_vars(LockStep(p)) /\ WF_vars(Unlock(p))
                         /\ WF_vars(Reap(p))
    /\ \A p \in Proc : WF_vars(WakeStep(p))
    /\ WF_vars(ForceUnlock)

FairSpec == Spec /\ Fairness

-----------------------------------------------------------------------------
(* Properties *)

WorkerLabels == {"idle", "try", "enroll", "retry", "unenroll", "sleep", "cs",
                 "wread", "wcas", "post", "dead", "reaped"}
MasterLabels == {"idle", "force", "wread", "wcas", "post"}

\* The types of the shared words, the program counters and the histories.
TypeOK ==
    /\ lock \in Worker \cup {None}
    /\ semaphore \in BOOLEAN
    /\ wait \in Int
    /\ sem \in Nat
    /\ pc \in [Proc -> WorkerLabels \cup MasterLabels]
    /\ \A p \in Worker : pc[p] \in WorkerLabels
    /\ pc[Master] \in MasterLabels
    /\ seen \in [Proc -> Int]
    /\ victim \in Worker \cup {None}
    /\ crashes \in 0 .. MaxCrash
    /\ leak \in Int
    /\ lostWakers \in Nat

Owners == {p \in Worker : pc[p] \in {"cs", "unenroll"}}

\* Mutual exclusion across crashes and pid reuse: the live process past its
\* cmp_set in ngx_shmtx_lock/trylock is the one the word names, so the forced
\* unlock of a dead worker's pid never opens the mutex under a live owner.
Mutex == \A p \in Owners : lock = p

\* What ngx_shmtx_wakeup() must conserve: the count of waiters, the tokens in
\* the semaphore and the posts still owed add up to the processes that are
\* enrolled, whatever the order of fetch_add, cmp_set and sem_post; killed
\* processes shift the sum by what they left behind.
Balance ==
    wait + sem + Cardinality(Posting) = Cardinality(Enrolled) + leak

\* The semaphore and the owed posts never exceed the enrolled processes plus
\* those killed while enrolled: sem_post() cannot overflow the semaphore.
SemBounded ==
    sem + Cardinality(Posting) <= Cardinality(Worker) + crashes

\* No lost wakeup: when the mutex is free and somebody sleeps in sem_wait(),
\* a token or a running process is there to take it, unless a process was
\* killed between its release and its sem_post or after it was woken.
NoLostWakeup ==
    lock = None /\ Sleeping # {} => sem > 0 \/ Active # {} \/ lostWakers > 0

\* The mutex implements the abstract one: each change of the lock word is the
\* acquisition or release of a live worker or the recovery of a dead one, and
\* ngx_reap_children() brings a pid back only when no mutex names it.
Abstract == INSTANCE RobustLock WITH
    owner <- lock,
    alive <- [p \in Worker |-> pc[p] \notin {"dead", "reaped"}]
ImplementsRobustLock == Abstract!Spec

\* Deadlock freedom of ngx_shmtx_lock(): while workers want the mutex, one of
\* them gets it, also when its owner is killed; only a kill of the last process
\* that wanted it, or of one that carried the wakeup, excuses the code.
Waiting == {p \in Worker : pc[p] \in {"try", "enroll", "retry", "sleep"}}
Progress == Waiting # {} ~> Owners # {} \/ Waiting = {} \/ lostWakers > 0

\* A mutex held by a killed worker is released by the master.
Held(p) == lock = p /\ pc[p] \in {"dead", "reaped"}
Recovered == \A p \in Worker : Held(p) ~> lock # p
=============================================================================
