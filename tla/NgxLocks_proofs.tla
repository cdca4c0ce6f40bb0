-------------------------- MODULE NgxLocks_proofs ---------------------------
(***************************************************************************)
(* Proofs about nginx's two locks in shared memory, NgxShmtx and           *)
(* NgxRwlock.  The mutex: for every finite set of workers, with and        *)
(* without a semaphore, and any number of killed workers.  The reader-     *)
(* writer lock: for every finite set of workers, provided the word can     *)
(* count them (RwlockAssumption).  The two have nothing in common but the  *)
(* facts about finite sets.                                                *)
(***************************************************************************)
EXTENDS NgxShmtx, NgxRwlock, FiniteSetTheorems, TLAPS

(* The mutex *)

USE NgxShmtxAssumption DEF Proc

\* The master forces open the mutex of a worker it has reaped.
VictimInv ==
    pc[Master] = "force" => victim \in Worker /\ pc[victim] = "reaped"

\* A reaped worker still owns the mutex only until the master's forced unlock.
ReapedInv ==
    \A p \in Worker :
        pc[p] = "reaped" /\ lock = p => pc[Master] = "force" /\ victim = p

Safe == TypeOK /\ Mutex /\ VictimInv /\ ReapedInv

-----------------------------------------------------------------------------
LEMMA SafeInit == Init => Safe
<1> SUFFICES ASSUME Init PROVE Safe
    OBVIOUS
<1>1. TypeOK
  <2>1. crashes \in 0 .. MaxCrash
    BY DEF Init
  <2>2. pc \in [Proc -> WorkerLabels \cup MasterLabels] /\ seen \in [Proc -> Int]
    BY DEF Init, WorkerLabels, MasterLabels
  <2>3. /\ \A p \in Worker : pc[p] \in WorkerLabels
        /\ pc[Master] \in MasterLabels
    BY DEF Init, WorkerLabels, MasterLabels
  <2> QED
    BY <2>1, <2>2, <2>3 DEF Init, TypeOK
<1>2. \A p \in Worker : pc[p] = "idle"
    BY DEF Init
<1>3. Mutex /\ ReapedInv
    BY <1>2 DEF Mutex, Owners, ReapedInv
<1>4. VictimInv
    BY DEF Init, VictimInv
<1> QED
    BY <1>1, <1>3, <1>4 DEF Safe

LEMMA TypeStep == TypeOK /\ [Next]_vars => TypeOK'
<1> SUFFICES ASSUME TypeOK, [Next]_vars PROVE TypeOK'
    OBVIOUS
<1> USE DEF TypeOK, WorkerLabels, MasterLabels, Goto
<1>1. ASSUME NEW p \in Worker, Trylock(p) PROVE TypeOK'
    BY <1>1 DEF Trylock
<1>2. ASSUME NEW p \in Worker, LockCall(p) PROVE TypeOK'
    BY <1>2 DEF LockCall
<1>3. ASSUME NEW p \in Worker, TryLock(p) PROVE TypeOK'
    BY <1>3 DEF TryLock
<1>4. ASSUME NEW p \in Worker, Enroll(p) PROVE TypeOK'
    BY <1>4 DEF Enroll
<1>5. ASSUME NEW p \in Worker, Retry(p) PROVE TypeOK'
    BY <1>5 DEF Retry
<1>6. ASSUME NEW p \in Worker, Unenroll(p) PROVE TypeOK'
    BY <1>6 DEF Unenroll
<1>7. ASSUME NEW p \in Worker, SemWait(p) PROVE TypeOK'
    BY <1>7 DEF SemWait
<1>8. ASSUME NEW p \in Worker, Unlock(p) PROVE TypeOK'
    BY <1>8 DEF Unlock
<1>9. ASSUME NEW p \in Proc, WakeRead(p) PROVE TypeOK'
    BY <1>9 DEF WakeRead
<1>10. ASSUME NEW p \in Proc, WakeCas(p) PROVE TypeOK'
    BY <1>10 DEF WakeCas
<1>11. ASSUME NEW p \in Proc, SemPost(p) PROVE TypeOK'
    BY <1>11 DEF SemPost
<1>12. ASSUME NEW p \in Worker, Crash(p) PROVE TypeOK'
    BY <1>12 DEF Crash
<1>13. ASSUME NEW p \in Worker, Reap(p) PROVE TypeOK'
    BY <1>13 DEF Reap
<1>14. ASSUME NEW p \in Worker, Respawn(p) PROVE TypeOK'
    BY <1>14 DEF Respawn
<1>15. ASSUME ForceUnlock PROVE TypeOK'
    BY <1>15 DEF ForceUnlock
<1>16. CASE UNCHANGED vars
    BY <1>16 DEF vars
<1> QED
    BY <1>1, <1>2, <1>3, <1>4, <1>5, <1>6, <1>7, <1>8, <1>9, <1>10, <1>11,
       <1>12, <1>13, <1>14, <1>15, <1>16 DEF Next, LockStep, WakeStep

\* The typing of every reachable state of the mutex.
THEOREM TypeCorrect == Spec => []TypeOK
<1>1. Init => TypeOK
    BY SafeInit DEF Safe
<1> QED
    BY <1>1, TypeStep, PTL DEF Spec

-----------------------------------------------------------------------------
LEMMA SafeStep == Safe /\ [Next]_vars => Safe'
<1> SUFFICES ASSUME Safe, [Next]_vars PROVE Mutex' /\ VictimInv' /\ ReapedInv'
    BY TypeStep DEF Safe
<1>0. TypeOK'
    BY TypeStep DEF Safe
<1> DEFINE Goal == Mutex' /\ VictimInv' /\ ReapedInv'
<1> USE DEF Safe, TypeOK, Mutex, Owners, VictimInv, ReapedInv, Goto
<1>1. ASSUME NEW p \in Worker, Trylock(p) PROVE Goal
    BY <1>1 DEF Trylock
<1>2. ASSUME NEW p \in Worker, LockCall(p) PROVE Goal
    BY <1>2 DEF LockCall
<1>3. ASSUME NEW p \in Worker, TryLock(p) PROVE Goal
    BY <1>3 DEF TryLock
<1>4. ASSUME NEW p \in Worker, Enroll(p) PROVE Goal
    BY <1>4 DEF Enroll
<1>5. ASSUME NEW p \in Worker, Retry(p) PROVE Goal
    BY <1>5 DEF Retry
<1>6. ASSUME NEW p \in Worker, Unenroll(p) PROVE Goal
    BY <1>6 DEF Unenroll
<1>7. ASSUME NEW p \in Worker, SemWait(p) PROVE Goal
    BY <1>7 DEF SemWait
<1>8. ASSUME NEW p \in Worker, Unlock(p) PROVE Goal
    BY <1>8 DEF Unlock
<1>9. ASSUME NEW p \in Proc, WakeRead(p) PROVE Goal
    BY <1>9 DEF WakeRead
<1>10. ASSUME NEW p \in Proc, WakeCas(p) PROVE Goal
    BY <1>10 DEF WakeCas
<1>11. ASSUME NEW p \in Proc, SemPost(p) PROVE Goal
    BY <1>11 DEF SemPost
<1>12. ASSUME NEW p \in Worker, Crash(p) PROVE Goal
    BY <1>12 DEF Crash
<1>13. ASSUME NEW p \in Worker, Reap(p) PROVE Goal
    BY <1>13 DEF Reap
<1>14. ASSUME NEW p \in Worker, Respawn(p) PROVE Goal
    BY <1>14 DEF Respawn
<1>15. ASSUME ForceUnlock PROVE Goal
    BY <1>15 DEF ForceUnlock
<1>16. CASE UNCHANGED vars
    BY <1>16 DEF vars
<1> QED
    BY <1>1, <1>2, <1>3, <1>4, <1>5, <1>6, <1>7, <1>8, <1>9, <1>10, <1>11,
       <1>12, <1>13, <1>14, <1>15, <1>16 DEF Next, LockStep, WakeStep

LEMMA SafeCorrect == Spec => []Safe
  BY SafeInit, SafeStep, PTL DEF Spec

\* Mutual exclusion, with any number of workers killed anywhere and their
\* pids used again.
THEOREM MutexCorrect == Spec => []Mutex
<1>1. Safe => Mutex
    BY DEF Safe
<1> QED
    BY <1>1, SafeCorrect, PTL

-----------------------------------------------------------------------------
\* Each step of the shared-memory mutex is a step of the robust mutex.
LEMMA RefinementStep == Safe /\ [Next]_vars => [Abstract!Next]_(Abstract!vars)
<1> SUFFICES ASSUME Safe, [Next]_vars PROVE [Abstract!Next]_(Abstract!vars)
    OBVIOUS
<1> DEFINE Goal == [Abstract!Next]_(Abstract!vars)
           up == [p \in Worker |-> pc[p] \notin {"dead", "reaped"}]
<1> USE DEF Goto
<1>t. pc \in [Proc -> WorkerLabels \cup MasterLabels] /\ lock \in Worker \cup {None}
    BY DEF Safe, TypeOK
<1>s. ASSUME lock' = lock, \A q \in Worker : pc'[q] \notin {"dead", "reaped"}
                                       <=> pc[q] \notin {"dead", "reaped"}
      PROVE  Goal
    BY <1>s DEF Abstract!vars
<1>a. ASSUME NEW p \in Worker, lock = None, lock' = p, up[p], up' = up PROVE Goal
    BY <1>a DEF Abstract!Next, Abstract!Acquire
<1>r. ASSUME NEW p \in Worker, lock = p, lock' = None, up' = up PROVE Goal
    BY <1>r DEF Abstract!Next, Abstract!Release, Abstract!Recover
<1>1. ASSUME NEW p \in Worker, Trylock(p) \/ TryLock(p) \/ Retry(p) PROVE Goal
  <2>1. CASE lock' = lock
    BY <1>1, <1>t, <1>s, <2>1 DEF Trylock, TryLock, Retry
  <2>2. CASE lock' # lock
    <3>1. lock = None /\ lock' = p /\ up[p] /\ up' = up
      BY <1>1, <1>t, <2>2 DEF Trylock, TryLock, Retry
    <3> QED
      BY <3>1, <1>a
  <2> QED
    BY <2>1, <2>2
<1>2. ASSUME NEW p \in Worker,
             LockCall(p) \/ Enroll(p) \/ Unenroll(p) \/ SemWait(p)
      PROVE  Goal
    BY <1>2, <1>t, <1>s DEF LockCall, Enroll, Unenroll, SemWait
<1>3. ASSUME NEW p \in Worker, Unlock(p) PROVE Goal
  <2>1. lock = p /\ lock' = None /\ up' = up
    BY <1>3, <1>t DEF Unlock, Safe, Mutex, Owners
  <2> QED
    BY <2>1, <1>r
<1>4. ASSUME NEW p \in Proc, WakeStep(p) PROVE Goal
    BY <1>4, <1>t, <1>s DEF WakeStep, WakeRead, WakeCas, SemPost
<1>5. ASSUME NEW p \in Worker, Crash(p) PROVE Goal
  <2>1. up[p] /\ up' = [up EXCEPT ![p] = FALSE] /\ lock' = lock
    BY <1>5, <1>t DEF Crash
  <2> QED
    BY <2>1 DEF Abstract!Next, Abstract!Die
<1>6. ASSUME NEW p \in Worker, Reap(p) PROVE Goal
    BY <1>6, <1>t, <1>s DEF Reap
<1>7. ASSUME NEW p \in Worker, Respawn(p) PROVE Goal
  <2>1. ~up[p] /\ up' = [up EXCEPT ![p] = TRUE] /\ lock' = lock
    BY <1>7, <1>t DEF Respawn
  <2>2. lock # p
    BY <1>7 DEF Respawn, Safe, ReapedInv
  <2> QED
    BY <2>1, <2>2 DEF Abstract!Next, Abstract!Return
<1>8. ASSUME ForceUnlock PROVE Goal
  <2>1. victim \in Worker /\ up' = up
    BY <1>8, <1>t DEF ForceUnlock, Safe, VictimInv
  <2>2. CASE lock = victim
    BY <1>8, <2>1, <2>2, <1>r DEF ForceUnlock
  <2>3. CASE lock # victim
    BY <1>8, <2>1, <2>3 DEF ForceUnlock, Abstract!vars
  <2> QED
    BY <2>2, <2>3
<1>9. CASE UNCHANGED vars
    BY <1>9 DEF vars, Abstract!vars
<1> QED
    BY <1>1, <1>2, <1>3, <1>4, <1>5, <1>6, <1>7, <1>8, <1>9 DEF Next, LockStep

\* The shared-memory mutex with its recovery implements the robust mutex.
THEOREM RobustLockImplemented == Spec => ImplementsRobustLock
<1>1. Init => Abstract!Init
    BY DEF Init, Abstract!Init
<1> QED
    BY <1>1, SafeCorrect, RefinementStep, PTL
       DEF Spec, ImplementsRobustLock, Abstract!Spec

-----------------------------------------------------------------------------
\* The processes are finitely many, hence so are the sets that are counted.
LEMMA CountedFinite ==
    /\ IsFiniteSet(Enrolled) /\ IsFiniteSet(Posting)
    /\ Cardinality(Enrolled) \in Nat /\ Cardinality(Posting) \in Nat
    /\ Cardinality(Enrolled) <= Cardinality(Worker)
    /\ Cardinality(Worker) \in Nat
<1>1. IsFiniteSet(Proc)
    BY FS_AddElement
<1>2. Enrolled \subseteq Worker /\ Posting \subseteq Proc
    BY DEF Enrolled, Posting
<1> QED
    BY <1>1, <1>2, FS_Subset, FS_CardinalityType

\* How a step that moves one process moves the two counts.
LEMMA CountStep ==
    ASSUME TypeOK, NEW p \in Proc, \A q \in Proc \ {p} : pc'[q] = pc[q]
    PROVE  /\ p \in Enrolled' /\ p \notin Enrolled
                => Cardinality(Enrolled') = Cardinality(Enrolled) + 1
           /\ (p \in Enrolled' <=> p \in Enrolled)
                => Cardinality(Enrolled') = Cardinality(Enrolled)
           /\ p \notin Enrolled' /\ p \in Enrolled
                => Cardinality(Enrolled') = Cardinality(Enrolled) - 1
           /\ p \in Posting' /\ p \notin Posting
                => Cardinality(Posting') = Cardinality(Posting) + 1
           /\ (p \in Posting' <=> p \in Posting)
                => Cardinality(Posting') = Cardinality(Posting)
           /\ p \notin Posting' /\ p \in Posting
                => Cardinality(Posting') = Cardinality(Posting) - 1
<1>1. Enrolled' = IF p \in Enrolled' THEN Enrolled \cup {p} ELSE Enrolled \ {p}
    BY DEF Enrolled
<1>2. Posting' = IF p \in Posting' THEN Posting \cup {p} ELSE Posting \ {p}
    BY DEF Posting
<1>3. /\ Cardinality(Enrolled \cup {p}) =
           IF p \in Enrolled THEN Cardinality(Enrolled) ELSE Cardinality(Enrolled) + 1
      /\ Cardinality(Posting \cup {p}) =
           IF p \in Posting THEN Cardinality(Posting) ELSE Cardinality(Posting) + 1
    BY CountedFinite, FS_AddElement, Zenon
<1>4. /\ Cardinality(Enrolled \ {p}) =
           IF p \in Enrolled THEN Cardinality(Enrolled) - 1 ELSE Cardinality(Enrolled)
      /\ Cardinality(Posting \ {p}) =
           IF p \in Posting THEN Cardinality(Posting) - 1 ELSE Cardinality(Posting)
    BY CountedFinite, FS_RemoveElement, Zenon
<1>5. CASE p \in Enrolled'
    BY <1>1, <1>2, <1>3, <1>4, <1>5
<1>6. CASE p \notin Enrolled'
    BY <1>1, <1>2, <1>3, <1>4, <1>6
<1> QED
    BY <1>5, <1>6

-----------------------------------------------------------------------------
\* The waiter count a waker is about to lower was positive when it read it.
SeenInv == \A p \in Proc : pc[p] = "wcas" => seen[p] > 0

\* What the killed left behind is bounded by how many, and which, were killed.
LeakInv == leak <= crashes /\ leak + lostWakers >= 0

Counted == Balance /\ SemBounded /\ SeenInv /\ LeakInv

LEMMA CountedInit == Init => Counted
<1> SUFFICES ASSUME Init PROVE Counted
    OBVIOUS
<1>1. Enrolled = {} /\ Posting = {}
    BY DEF Init, Enrolled, Posting
<1>2. Cardinality(Enrolled) = 0 /\ Cardinality(Posting) = 0
    BY <1>1, FS_EmptySet
<1>3. Balance /\ SemBounded /\ LeakInv
    BY <1>2, CountedFinite DEF Init, Balance, SemBounded, LeakInv
<1>4. SeenInv
    BY DEF Init, SeenInv
<1> QED
    BY <1>3, <1>4 DEF Counted

\* A step that moves no waiter and no post, and leaves the counters alone.
LEMMA CountedQuiet ==
    ASSUME Counted, UNCHANGED <<wait, sem, crashes, leak, lostWakers>>,
           Cardinality(Enrolled') = Cardinality(Enrolled),
           Cardinality(Posting') = Cardinality(Posting),
           SeenInv'
    PROVE  Counted'
  BY DEF Counted, Balance, SemBounded, LeakInv

LEMMA CountedStep == TypeOK /\ Counted /\ [Next]_vars => Counted'
<1> SUFFICES ASSUME TypeOK, Counted, [Next]_vars PROVE Counted'
    OBVIOUS
<1>t. /\ wait \in Int /\ sem \in Nat /\ leak \in Int /\ lostWakers \in Nat
      /\ crashes \in Nat /\ seen \in [Proc -> Int]
      /\ pc \in [Proc -> WorkerLabels \cup MasterLabels]
      /\ Cardinality(Enrolled) \in Nat /\ Cardinality(Posting) \in Nat
      /\ Cardinality(Worker) \in Nat
      /\ Cardinality(Enrolled) <= Cardinality(Worker)
    BY CountedFinite DEF TypeOK
<1> USE DEF Goto
<1>1. ASSUME NEW p \in Worker,
             Trylock(p) \/ LockCall(p) \/ TryLock(p) \/ Unlock(p)
      PROVE  Counted'
  <2>1. p \in Proc /\ \A q \in Proc \ {p} : pc'[q] = pc[q]
    BY <1>1, <1>t DEF Trylock, LockCall, TryLock, Unlock
  <2>2. /\ p \notin Enrolled /\ p \notin Enrolled'
        /\ p \notin Posting /\ p \notin Posting'
    BY <1>1, <1>t DEF Trylock, LockCall, TryLock, Unlock, Enrolled, Posting
  <2>3. /\ Cardinality(Enrolled') = Cardinality(Enrolled)
        /\ Cardinality(Posting') = Cardinality(Posting)
    BY <2>1, <2>2, CountStep
  <2>4. SeenInv'
    BY <1>1, <1>t DEF Counted, SeenInv, Trylock, LockCall, TryLock, Unlock
  <2> QED
    BY <1>1, <2>3, <2>4, CountedQuiet DEF Trylock, LockCall, TryLock, Unlock
<1>2. ASSUME NEW p \in Worker, Enroll(p) PROVE Counted'
  <2>1. p \in Proc /\ \A q \in Proc \ {p} : pc'[q] = pc[q]
    BY <1>2, <1>t DEF Enroll
  <2>2. /\ p \notin Enrolled /\ p \in Enrolled'
        /\ p \notin Posting /\ p \notin Posting'
    BY <1>2, <1>t DEF Enroll, Enrolled, Posting
  <2>3. /\ Cardinality(Enrolled') = Cardinality(Enrolled) + 1
        /\ Cardinality(Posting') = Cardinality(Posting)
    BY <2>1, <2>2, CountStep
  <2>4. SeenInv'
    BY <1>2, <1>t DEF Counted, SeenInv, Enroll
  <2> QED
    BY <1>2, <1>t, <2>3, <2>4
       DEF Counted, Balance, SemBounded, LeakInv, Enroll
<1>3. ASSUME NEW p \in Worker, Retry(p) PROVE Counted'
  <2>1. p \in Proc /\ \A q \in Proc \ {p} : pc'[q] = pc[q]
    BY <1>3, <1>t DEF Retry
  <2>2. /\ p \in Enrolled /\ p \in Enrolled'
        /\ p \notin Posting /\ p \notin Posting'
    BY <1>3, <1>t DEF Retry, Enrolled, Posting
  <2>3. /\ Cardinality(Enrolled') = Cardinality(Enrolled)
        /\ Cardinality(Posting') = Cardinality(Posting)
    BY <2>1, <2>2, CountStep
  <2>4. SeenInv'
    BY <1>3, <1>t DEF Counted, SeenInv, Retry
  <2> QED
    BY <1>3, <2>3, <2>4, CountedQuiet DEF Retry
<1>4. ASSUME NEW p \in Worker, Unenroll(p) \/ SemWait(p) PROVE Counted'
  <2>1. p \in Proc /\ \A q \in Proc \ {p} : pc'[q] = pc[q]
    BY <1>4, <1>t DEF Unenroll, SemWait
  <2>2. /\ p \in Enrolled /\ p \notin Enrolled'
        /\ p \notin Posting /\ p \notin Posting'
    BY <1>4, <1>t DEF Unenroll, SemWait, Enrolled, Posting
  <2>3. /\ Cardinality(Enrolled') = Cardinality(Enrolled) - 1
        /\ Cardinality(Posting') = Cardinality(Posting)
    BY <2>1, <2>2, CountStep
  <2>4. SeenInv'
    BY <1>4, <1>t DEF Counted, SeenInv, Unenroll, SemWait
  <2> QED
    BY <1>4, <1>t, <2>3, <2>4
       DEF Counted, Balance, SemBounded, LeakInv, Unenroll, SemWait
<1>5. ASSUME NEW p \in Proc, WakeRead(p) PROVE Counted'
  <2>1. p \in Proc /\ \A q \in Proc \ {p} : pc'[q] = pc[q]
    BY <1>5, <1>t DEF WakeRead
  <2>2. /\ p \notin Enrolled /\ p \notin Enrolled'
        /\ p \notin Posting /\ p \notin Posting'
    BY <1>5, <1>t DEF WakeRead, Enrolled, Posting
  <2>3. /\ Cardinality(Enrolled') = Cardinality(Enrolled)
        /\ Cardinality(Posting') = Cardinality(Posting)
    BY <2>1, <2>2, CountStep
  <2>4. SeenInv'
    BY <1>5, <1>t DEF Counted, SeenInv, WakeRead
  <2> QED
    BY <1>5, <2>3, <2>4, CountedQuiet DEF WakeRead
<1>6. ASSUME NEW p \in Proc, WakeCas(p) PROVE Counted'
  <2>1. p \in Proc /\ \A q \in Proc \ {p} : pc'[q] = pc[q]
    BY <1>6, <1>t DEF WakeCas
  <2>2. p \notin Enrolled /\ p \notin Enrolled' /\ p \notin Posting /\ seen[p] > 0
    BY <1>6, <1>t DEF WakeCas, Enrolled, Posting, Counted, SeenInv
  <2>3. Cardinality(Enrolled') = Cardinality(Enrolled)
    BY <2>1, <2>2, CountStep
  <2>4. SeenInv'
    BY <1>6, <1>t DEF Counted, SeenInv, WakeCas
  <2>5. CASE wait = seen[p]
    <3>1. p \in Posting'
      BY <1>6, <1>t, <2>5 DEF WakeCas, Posting
    <3>2. Cardinality(Posting') = Cardinality(Posting) + 1
      BY <2>1, <2>2, <3>1, CountStep
    <3> QED
      BY <1>6, <1>t, <2>2, <2>3, <2>4, <2>5, <3>2
         DEF Counted, Balance, SemBounded, LeakInv, WakeCas
  <2>6. CASE wait # seen[p]
    <3>1. p \notin Posting'
      BY <1>6, <1>t, <2>6 DEF WakeCas, Posting
    <3>2. Cardinality(Posting') = Cardinality(Posting)
      BY <2>1, <2>2, <3>1, CountStep
    <3> QED
      BY <1>6, <2>3, <2>4, <2>6, <3>2, CountedQuiet DEF WakeCas
  <2> QED
    BY <2>5, <2>6
<1>7. ASSUME NEW p \in Proc, SemPost(p) PROVE Counted'
  <2>1. p \in Proc /\ \A q \in Proc \ {p} : pc'[q] = pc[q]
    BY <1>7, <1>t DEF SemPost
  <2>2. /\ p \notin Enrolled /\ p \notin Enrolled'
        /\ p \in Posting /\ p \notin Posting'
    BY <1>7, <1>t DEF SemPost, Enrolled, Posting
  <2>3. /\ Cardinality(Enrolled') = Cardinality(Enrolled)
        /\ Cardinality(Posting') = Cardinality(Posting) - 1
    BY <2>1, <2>2, CountStep
  <2>4. SeenInv'
    BY <1>7, <1>t DEF Counted, SeenInv, SemPost
  <2> QED
    <3>1. /\ sem' = sem + 1
          /\ UNCHANGED <<wait, crashes, leak, lostWakers>>
      BY <1>7 DEF SemPost
    <3>2. Balance'
      BY <1>t, <2>3, <3>1 DEF Counted, Balance
    <3>3. SemBounded' /\ LeakInv'
      BY <1>t, <2>3, <3>1 DEF Counted, SemBounded, LeakInv
    <3> QED
      BY <2>4, <3>2, <3>3 DEF Counted
<1>8. ASSUME NEW p \in Worker, Crash(p) PROVE Counted'
  <2>1. p \in Proc /\ \A q \in Proc \ {p} : pc'[q] = pc[q]
    BY <1>8, <1>t DEF Crash
  <2>2. p \notin Enrolled' /\ p \notin Posting'
    BY <1>8, <1>t DEF Crash, Enrolled, Posting
  <2>3. /\ Cardinality(Enrolled') =
             IF p \in Enrolled THEN Cardinality(Enrolled) - 1 ELSE Cardinality(Enrolled)
        /\ Cardinality(Posting') =
             IF p \in Posting THEN Cardinality(Posting) - 1 ELSE Cardinality(Posting)
    BY <2>1, <2>2, CountStep
  <2>4. p \in Posting => p \in Active /\ p \notin Enrolled
    BY DEF Posting, Active, ActiveLabels, Enrolled
  <2>5. SeenInv'
    BY <1>8, <1>t DEF Counted, SeenInv, Crash
  <2> QED
    BY <1>8, <1>t, <2>3, <2>4, <2>5
       DEF Counted, Balance, SemBounded, LeakInv, Crash
<1>9. ASSUME NEW p \in Worker, Reap(p) PROVE Counted'
  <2>1. Enrolled' = Enrolled /\ Posting' = Posting
    BY <1>9, <1>t DEF Reap, Enrolled, Posting
  <2>2. SeenInv'
    BY <1>9, <1>t DEF Counted, SeenInv, Reap
  <2> QED
    BY <1>9, <2>1, <2>2, CountedQuiet DEF Reap
<1>10. ASSUME NEW p \in Worker, Respawn(p) PROVE Counted'
  <2>1. Enrolled' = Enrolled /\ Posting' = Posting
    BY <1>10, <1>t DEF Respawn, Enrolled, Posting
  <2>2. SeenInv'
    BY <1>10, <1>t DEF Counted, SeenInv, Respawn
  <2> QED
    BY <1>10, <2>1, <2>2, CountedQuiet DEF Respawn
<1>11. ASSUME ForceUnlock PROVE Counted'
  <2>1. Enrolled' = Enrolled /\ Posting' = Posting
    BY <1>11, <1>t DEF ForceUnlock, Enrolled, Posting
  <2>2. SeenInv'
    BY <1>11, <1>t DEF Counted, SeenInv, ForceUnlock
  <2> QED
    BY <1>11, <2>1, <2>2, CountedQuiet DEF ForceUnlock
<1>12. CASE UNCHANGED vars
  <2>1. Enrolled' = Enrolled /\ Posting' = Posting /\ SeenInv'
    BY <1>12 DEF vars, Enrolled, Posting, Counted, SeenInv
  <2> QED
    BY <1>12, <2>1, CountedQuiet DEF vars
<1> QED
    BY <1>1, <1>2, <1>3, <1>4, <1>5, <1>6, <1>7, <1>8, <1>9, <1>10, <1>11,
       <1>12 DEF Next, LockStep, WakeStep

LEMMA CountedCorrect == Spec => [](TypeOK /\ Counted)
<1>1. Init => TypeOK /\ Counted
    BY SafeInit, CountedInit DEF Safe
<1>2. (TypeOK /\ Counted) /\ [Next]_vars => (TypeOK /\ Counted)'
    BY TypeStep, CountedStep
<1> QED
    BY <1>1, <1>2, PTL DEF Spec

\* Waiters, tokens and owed posts are conserved by any interleaving.
THEOREM BalanceCorrect == Spec => []Balance
<1>1. TypeOK /\ Counted => Balance
    BY DEF Counted
<1> QED
    BY <1>1, CountedCorrect, PTL

\* The semaphore is bounded by the number of workers and of kills.
THEOREM SemBoundedCorrect == Spec => []SemBounded
<1>1. TypeOK /\ Counted => SemBounded
    BY DEF Counted
<1> QED
    BY <1>1, CountedCorrect, PTL

-----------------------------------------------------------------------------
\* Without a semaphore nobody enrols or sleeps.
NoSemInv == semaphore \/ \A p \in Worker : pc[p] \notin {"enroll", "retry", "sleep"}

Woken == NoLostWakeup /\ NoSemInv

LEMMA WokenInit == Init => Woken
  BY DEF Init, Woken, NoLostWakeup, NoSemInv, Sleeping

\* A token, a live post or an enrolled waiter that is not asleep: if somebody
\* sleeps and the count of waiters is not positive, a wakeup is on its way.
LEMMA WakeupOnItsWay ==
    ASSUME TypeOK, Counted, Sleeping # {}, wait <= 0, lostWakers = 0
    PROVE  sem > 0 \/ Posting # {}
<1> SUFFICES ASSUME sem = 0, Posting = {} PROVE FALSE
    BY DEF TypeOK
<1>1. Enrolled # {}
    BY DEF Sleeping, Enrolled
<1>2. Cardinality(Enrolled) > 0 /\ Cardinality(Posting) = 0
    BY <1>1, CountedFinite, FS_EmptySet
<1> QED
    BY <1>2, CountedFinite DEF TypeOK, Counted, Balance, LeakInv

LEMMA WokenStep == Safe /\ Counted /\ Woken /\ [Next]_vars => Woken'
<1> SUFFICES ASSUME Safe, Counted, Woken, [Next]_vars PROVE Woken'
    OBVIOUS
<1>t. /\ pc \in [Proc -> WorkerLabels \cup MasterLabels]
      /\ sem \in Nat /\ lostWakers \in Nat /\ wait \in Int
      /\ semaphore \in BOOLEAN /\ lock \in Worker \cup {None}
    BY DEF Safe, TypeOK
<1> USE DEF Goto, Woken, NoLostWakeup, NoSemInv, Sleeping
<1>1. ASSUME NEW p \in Worker, Trylock(p) PROVE Woken'
    BY <1>1, <1>t DEF Trylock
<1>2. ASSUME NEW p \in Worker,
             LockCall(p) \/ TryLock(p) \/ Enroll(p) \/ Retry(p) \/ SemWait(p)
      PROVE  Woken'
  <2>1. NoSemInv'
    BY <1>2, <1>t DEF LockCall, TryLock, Enroll, Retry, SemWait
  <2>2. p \in Active' \/ (lock' # None)
    BY <1>2, <1>t DEF LockCall, TryLock, Enroll, Retry, SemWait, Active, ActiveLabels
  <2> QED
    BY <2>1, <2>2
<1>3. ASSUME NEW p \in Worker, Unenroll(p) PROVE Woken'
  <2>1. lock = p
    BY <1>3 DEF Unenroll, Safe, Mutex, Owners
  <2> QED
    BY <1>3, <1>t, <2>1 DEF Unenroll
<1>4. ASSUME NEW p \in Worker, Unlock(p) PROVE Woken'
  <2>1. lock = p
    BY <1>4 DEF Unlock, Safe, Mutex, Owners
  <2>2. NoSemInv'
    BY <1>4, <1>t DEF Unlock
  <2>3. CASE semaphore
    BY <1>4, <1>t, <2>1, <2>2, <2>3 DEF Unlock, Active, ActiveLabels
  <2>4. CASE ~semaphore
    <3>1. Sleeping' = {}
      BY <1>4, <1>t, <2>4 DEF Unlock
    <3> QED
      BY <2>2, <3>1
  <2> QED
    BY <2>3, <2>4
<1>5. ASSUME NEW p \in Proc, WakeRead(p) PROVE Woken'
  <2>1. NoSemInv' /\ Sleeping' = Sleeping
    BY <1>5, <1>t DEF WakeRead
  <2>2. CASE wait <= 0
    <3>1. Posting \subseteq Active'
      BY <1>5, <1>t, <2>2 DEF WakeRead, Posting, Active, ActiveLabels
    <3> QED
      BY <1>5, <1>t, <2>1, <2>2, <3>1, WakeupOnItsWay DEF WakeRead, Safe
  <2>3. CASE ~(wait <= 0)
    BY <1>5, <1>t, <2>1, <2>3 DEF WakeRead, Active, ActiveLabels
  <2> QED
    BY <2>2, <2>3
<1>6. ASSUME NEW p \in Proc, WakeCas(p) PROVE Woken'
  <2>1. NoSemInv'
    BY <1>6, <1>t DEF WakeCas
  <2>2. p \in Active'
    BY <1>6, <1>t DEF WakeCas, Active, ActiveLabels
  <2> QED
    BY <2>1, <2>2
<1>7. ASSUME NEW p \in Proc, SemPost(p) PROVE Woken'
    BY <1>7, <1>t DEF SemPost
<1>8. ASSUME NEW p \in Worker, Crash(p) PROVE Woken'
  <2>1. NoSemInv'
    BY <1>8, <1>t DEF Crash
  <2>2. CASE p \in Active
    BY <1>8, <1>t, <2>1, <2>2 DEF Crash
  <2>3. CASE p \notin Active
    <3>1. Sleeping' \subseteq Sleeping /\ Active' = Active
      BY <1>8, <1>t, <2>3 DEF Crash, Active, ActiveLabels
    <3> QED
      BY <1>8, <1>t, <2>1, <2>3, <3>1 DEF Crash
  <2> QED
    BY <2>2, <2>3
<1>9. ASSUME NEW p \in Worker, Reap(p) \/ Respawn(p) PROVE Woken'
  <2>1. NoSemInv' /\ Sleeping' = Sleeping /\ Active' = Active
    BY <1>9, <1>t DEF Reap, Respawn, Active, ActiveLabels
  <2> QED
    BY <1>9, <2>1 DEF Reap, Respawn
<1>10. ASSUME ForceUnlock PROVE Woken'
  <2>1. NoSemInv' /\ Sleeping' = Sleeping
    BY <1>10, <1>t DEF ForceUnlock
  <2>2. CASE ~semaphore
    <3>1. Sleeping = {}
      BY <2>2
    <3> QED
      BY <2>1, <3>1
  <2>3. CASE semaphore /\ lock = victim
    BY <1>10, <1>t, <2>1, <2>3 DEF ForceUnlock, Active, ActiveLabels
  <2>4. CASE lock # victim
    <3>1. Active' = Active
      BY <1>10, <1>t, <2>4 DEF ForceUnlock, Active, ActiveLabels
    <3> QED
      BY <1>10, <2>1, <2>4, <3>1 DEF ForceUnlock
  <2> QED
    BY <2>2, <2>3, <2>4
<1>11. CASE UNCHANGED vars
    BY <1>11 DEF vars, Active
<1> QED
    BY <1>1, <1>2, <1>3, <1>4, <1>5, <1>6, <1>7, <1>8, <1>9, <1>10, <1>11
       DEF Next, LockStep, WakeStep

\* No wakeup is lost while no process is killed on its way from a release to
\* the next acquisition.
THEOREM NoLostWakeupCorrect == Spec => []NoLostWakeup
<1>1. Woken => NoLostWakeup
    BY DEF Woken
<1> QED
    BY <1>1, SafeCorrect, CountedCorrect, WokenInit, WokenStep, PTL DEF Spec

-----------------------------------------------------------------------------
(* The reader-writer lock *)

USE RwlockAssumption

\* Who is where holds what: the history agrees with the program counters.
Placed ==
    \A p \in User :
        /\ at[p] \in Outside => mode[p] = "none"
        /\ at[p] \in Inside => mode[p] # "none"
        /\ at[p] \in {"uwrite", "dstore"} => mode[p] = "write"
        /\ at[p] \in {"ucas", "ureload"} => mode[p] = "read"

\* The inductive invariant.
RwIInv == RwTypeOK /\ Placed /\ Exclusion /\ LockCounts

-----------------------------------------------------------------------------
LEMMA ReadersFinite ==
    /\ \A S \in SUBSET User : IsFiniteSet(S) /\ Cardinality(S) \in Nat
    /\ \A S \in SUBSET User : Cardinality(S) < WLOCK
<1>1. ASSUME NEW S \in SUBSET User
      PROVE IsFiniteSet(S) /\ Cardinality(S) <= Cardinality(User)
    BY FS_Subset
<1>2. ASSUME NEW S \in SUBSET User PROVE Cardinality(S) \in Nat
    BY <1>1, FS_CardinalityType
<1>3. Cardinality(User) \in Nat
    BY FS_CardinalityType
<1> QED
    BY <1>1, <1>2, <1>3

\* What a worker that enters or leaves as a reader does to the count.
LEMMA ReaderAdded ==
    ASSUME NEW S \in SUBSET User, NEW p \in User, p \notin S
    PROVE Cardinality(S \cup {p}) = Cardinality(S) + 1
    BY ReadersFinite, FS_AddElement, Zenon

LEMMA ReaderRemoved ==
    ASSUME NEW S \in SUBSET User, NEW p \in S
    PROVE Cardinality(S \ {p}) = Cardinality(S) - 1
    BY ReadersFinite, FS_RemoveElement, Zenon

LEMMA RwIInvInit == RwInit => RwIInv
<1> SUFFICES ASSUME RwInit PROVE RwIInv
    OBVIOUS
<1>1. RwTypeOK /\ Placed /\ Exclusion
  <2>1. WLOCK > 0
    BY ReadersFinite, FS_EmptySet
  <2> QED
    BY <2>1 DEF RwInit, RwTypeOK, Placed, Exclusion, Outside, Inside
<1>2. WritersIn = {} /\ ReadersIn = {}
    BY DEF RwInit, WritersIn, ReadersIn
<1>3. LockCounts
    BY <1>2, FS_EmptySet, ReadersFinite DEF RwInit, LockCounts
<1> QED
    BY <1>1, <1>3 DEF RwIInv

\* Every step changes mode and lock together, for one worker, in one of six ways.
Quiet == UNCHANGED <<rwlock, mode>>
SetMode(p, old, new) ==
    /\ mode[p] = old
    /\ mode' = [mode EXCEPT ![p] = new]

EnterAsWriter(p) == rwlock = 0 /\ rwlock' = WLOCK /\ SetMode(p, "none", "write")
EnterAsReader(p) == rwlock # WLOCK /\ rwlock' = rwlock + 1 /\ SetMode(p, "none", "read")
WriterLeaves(p) == rwlock' = 0 /\ SetMode(p, "write", "none")
ReaderLeaves(p) == rwlock' = Dec(rwlock) /\ SetMode(p, "read", "none")
WriterDowngrades(p) == rwlock' = 1 /\ SetMode(p, "write", "read")

Effect ==
    Quiet \/ \E p \in User :
        \/ EnterAsWriter(p) \/ EnterAsReader(p) \/ WriterLeaves(p)
        \/ ReaderLeaves(p) \/ WriterDowngrades(p)

\* A writer inside is alone with WLOCK in the word.
LEMMA WriterAlone ==
    ASSUME RwIInv, NEW p \in User, mode[p] = "write"
    PROVE /\ rwlock = WLOCK /\ WritersIn = {p} /\ ReadersIn = {}
    BY DEF RwIInv, RwTypeOK, Exclusion, LockCounts, WritersIn, ReadersIn

LEMMA ReaderInside ==
    ASSUME RwIInv, NEW p \in User, mode[p] = "read"
    PROVE /\ rwlock # WLOCK /\ rwlock > 0 /\ p \in ReadersIn
          /\ rwlock = Cardinality(ReadersIn) /\ WritersIn = {}
<1>1. p \in ReadersIn
    BY DEF ReadersIn
<1>2. WritersIn = {}
    BY DEF RwIInv, Exclusion, WritersIn
<1>3. rwlock # WLOCK /\ rwlock = Cardinality(ReadersIn)
    BY <1>2 DEF RwIInv, LockCounts
<1>4. Cardinality(ReadersIn) # 0
    BY <1>1, ReadersFinite, FS_EmptySet DEF ReadersIn
<1> QED
    BY <1>1, <1>2, <1>3, <1>4 DEF RwIInv, RwTypeOK

LEMMA EffectStep == RwIInv /\ [RwNext]_rwVars => Effect
<1> SUFFICES ASSUME RwIInv, [RwNext]_rwVars PROVE Effect
    OBVIOUS
<1> USE DEF RwIInv, RwTypeOK, Placed, RwGoto, Outside, Inside
<1>1. ASSUME NEW p \in User, Wtry(p) PROVE EnterAsWriter(p)
    BY <1>1 DEF Wtry, EnterAsWriter, SetMode
<1>2. ASSUME NEW p \in User, Rcas(p) PROVE EnterAsReader(p) \/ Quiet
    BY <1>2 DEF Rcas, EnterAsReader, SetMode, Quiet, Inc
<1>3. ASSUME NEW p \in User, Uwrite(p) PROVE WriterLeaves(p)
  <2>1. mode[p] = "write"
    BY <1>3 DEF Uwrite
  <2>2. rwlock = WLOCK
    BY <2>1, WriterAlone
  <2> QED
    BY <1>3, <2>1, <2>2 DEF Uwrite, Release, WriterLeaves, SetMode
<1>4. ASSUME NEW p \in User, Ucas(p) PROVE ReaderLeaves(p) \/ Quiet
    BY <1>4 DEF Ucas, Release, ReaderLeaves, SetMode, Quiet
<1>5. ASSUME NEW p \in User, DowngradeStore(p) PROVE WriterDowngrades(p)
    BY <1>5 DEF DowngradeStore, WriterDowngrades, SetMode
<1>6. ASSUME NEW p \in User,
             Rload(p) \/ UnlockCall(p) \/ Uload(p) \/ Ureload(p) \/ Call(p) \/ Die(p)
      PROVE Quiet
    BY <1>6 DEF Rload, UnlockCall, Uload, Ureload, Call, WlockCall, RlockCall,
                DowngradeLoad, Die, Quiet
<1>7. CASE UNCHANGED rwVars
    BY <1>7 DEF rwVars, Effect, Quiet
<1> QED
    BY <1>1, <1>2, <1>3, <1>4, <1>5, <1>6, <1>7 DEF RwNext, Step, Effect

\* Type correctness and the agreement of history and program counters.
LEMMA PlacedStep == RwIInv /\ [RwNext]_rwVars => RwTypeOK' /\ Placed'
<1> SUFFICES ASSUME RwIInv, [RwNext]_rwVars PROVE RwTypeOK' /\ Placed'
    OBVIOUS
<1> USE DEF RwIInv, RwTypeOK, Placed, RwGoto, Outside, Inside
<1>1. ASSUME NEW p \in User, Wtry(p) PROVE RwTypeOK' /\ Placed'
    BY <1>1 DEF Wtry
<1>2. ASSUME NEW p \in User, Rload(p) PROVE RwTypeOK' /\ Placed'
    BY <1>2 DEF Rload
<1>3. ASSUME NEW p \in User, Rcas(p) PROVE RwTypeOK' /\ Placed'
    BY <1>3 DEF Rcas, Inc
<1>4. ASSUME NEW p \in User, UnlockCall(p) PROVE RwTypeOK' /\ Placed'
    BY <1>4 DEF UnlockCall
<1>5. ASSUME NEW p \in User, Uload(p) PROVE RwTypeOK' /\ Placed'
  <2>1. rwlock = WLOCK => mode[p] = "write"
    BY <1>5, ReaderInside DEF Uload
  <2>2. rwlock # WLOCK => mode[p] = "read"
    BY <1>5, WriterAlone DEF Uload
  <2> QED
    BY <1>5, <2>1, <2>2 DEF Uload
<1>6. ASSUME NEW p \in User, Uwrite(p) PROVE RwTypeOK' /\ Placed'
    BY <1>6 DEF Uwrite, Release
<1>7. ASSUME NEW p \in User, Ucas(p) PROVE RwTypeOK' /\ Placed'
    BY <1>7 DEF Ucas, Release, Dec
<1>8. ASSUME NEW p \in User, Ureload(p) PROVE RwTypeOK' /\ Placed'
    BY <1>8 DEF Ureload
<1>9. ASSUME NEW p \in User, DowngradeStore(p) PROVE RwTypeOK' /\ Placed'
  <2>1. 1 \in 0 .. WLOCK
    BY ReadersFinite, FS_EmptySet
  <2> QED
    BY <1>9, <2>1 DEF DowngradeStore
<1>10. ASSUME NEW p \in User, WlockCall(p) \/ RlockCall(p) PROVE RwTypeOK' /\ Placed'
    BY <1>10 DEF WlockCall, RlockCall
<1>11. ASSUME NEW p \in User, DowngradeLoad(p) PROVE RwTypeOK' /\ Placed'
  <2>1. mode[p] = "write"
    BY <1>11, ReaderInside DEF DowngradeLoad
  <2> QED
    BY <1>11, <2>1 DEF DowngradeLoad
<1>12. ASSUME NEW p \in User, Die(p) PROVE RwTypeOK' /\ Placed'
    BY <1>12 DEF Die
<1>13. CASE UNCHANGED rwVars
    BY <1>13 DEF rwVars
<1> QED
    BY <1>1, <1>2, <1>3, <1>4, <1>5, <1>6, <1>7, <1>8, <1>9, <1>10, <1>11, <1>12,
       <1>13 DEF RwNext, Step, Call

\* Exclusion and the count, from the effect of the step.
LEMMA RwCountStep == RwIInv /\ Effect => Exclusion' /\ LockCounts'
<1> SUFFICES ASSUME RwIInv, Effect PROVE Exclusion' /\ LockCounts'
    OBVIOUS
<1> USE DEF SetMode
<1>0. /\ mode \in [User -> {"none", "read", "write"}] /\ rwlock \in 0 .. WLOCK
    BY DEF RwIInv, RwTypeOK
<1>1. CASE Quiet
    BY <1>1 DEF Quiet, RwIInv, Exclusion, LockCounts, ReadersIn, WritersIn
<1>2. ASSUME NEW p \in User, EnterAsWriter(p) PROVE Exclusion' /\ LockCounts'
  <2>1. ReadersIn = {} /\ WritersIn = {}
    BY <1>2, ReaderInside, WriterAlone, ReadersFinite, FS_EmptySet
       DEF EnterAsWriter, ReadersIn, WritersIn, RwIInv, RwTypeOK
  <2>2. \A q \in User : mode[q] = "none"
    BY <1>0, <2>1 DEF ReadersIn, WritersIn
  <2>3. Exclusion' /\ p \in WritersIn'
    BY <1>0, <1>2, <2>2 DEF EnterAsWriter, Exclusion, WritersIn
  <2> QED
    BY <1>2, <2>3 DEF EnterAsWriter, LockCounts
<1>3. ASSUME NEW p \in User, EnterAsReader(p) PROVE Exclusion' /\ LockCounts'
  <2>1. WritersIn = {} /\ rwlock = Cardinality(ReadersIn)
    BY <1>3 DEF EnterAsReader, RwIInv, LockCounts
  <2>2. ReadersIn' = ReadersIn \cup {p} /\ p \notin ReadersIn /\ WritersIn' = {}
    BY <1>0, <1>3, <2>1 DEF EnterAsReader, ReadersIn, WritersIn
  <2>3. Cardinality(ReadersIn') = Cardinality(ReadersIn) + 1
    BY <2>2, ReaderAdded DEF ReadersIn
  <2>4. rwlock' = Cardinality(ReadersIn')
    BY <1>3, <2>1, <2>3 DEF EnterAsReader
  <2>5. rwlock' < WLOCK
    BY <2>4, ReadersFinite DEF ReadersIn
  <2>6. LockCounts'
    BY <2>2, <2>4, <2>5, <1>3, <1>0 DEF LockCounts, EnterAsReader
  <2>7. Exclusion'
    BY <2>2 DEF Exclusion, WritersIn
  <2> QED
    BY <2>6, <2>7
<1>4. ASSUME NEW p \in User, WriterLeaves(p) PROVE Exclusion' /\ LockCounts'
  <2>1. WritersIn = {p} /\ ReadersIn = {}
    BY <1>4, WriterAlone DEF WriterLeaves
  <2>2. WritersIn' = {} /\ ReadersIn' = {}
    BY <1>0, <1>4, <2>1 DEF WriterLeaves, WritersIn, ReadersIn
  <2>3. 0 # WLOCK
    BY ReadersFinite, FS_EmptySet
  <2> QED
    BY <1>4, <2>2, <2>3, FS_EmptySet DEF WriterLeaves, LockCounts, Exclusion, WritersIn
<1>5. ASSUME NEW p \in User, ReaderLeaves(p) PROVE Exclusion' /\ LockCounts'
  <2>1. /\ WritersIn = {} /\ rwlock = Cardinality(ReadersIn) /\ p \in ReadersIn
        /\ rwlock > 0 /\ rwlock # WLOCK
    BY <1>5, ReaderInside DEF ReaderLeaves
  <2>2. ReadersIn' = ReadersIn \ {p} /\ WritersIn' = {}
    BY <1>0, <1>5, <2>1 DEF ReaderLeaves, ReadersIn, WritersIn
  <2>3. Cardinality(ReadersIn') = Cardinality(ReadersIn) - 1
    BY <2>1, <2>2, ReaderRemoved DEF ReadersIn
  <2>4. rwlock' = Cardinality(ReadersIn')
    BY <1>0, <1>5, <2>1, <2>3 DEF ReaderLeaves, Dec
  <2>5. rwlock' < WLOCK
    BY <2>4, ReadersFinite DEF ReadersIn
  <2>6. LockCounts'
    BY <2>2, <2>4, <2>5, <1>5, <1>0, <2>1 DEF LockCounts, ReaderLeaves, Dec
  <2>7. Exclusion'
    BY <2>2 DEF Exclusion, WritersIn
  <2> QED
    BY <2>6, <2>7
<1>6. ASSUME NEW p \in User, WriterDowngrades(p) PROVE Exclusion' /\ LockCounts'
  <2>1. WritersIn = {p} /\ ReadersIn = {}
    BY <1>6, WriterAlone DEF WriterDowngrades
  <2>2. WritersIn' = {} /\ ReadersIn' = {p}
    BY <1>0, <1>6, <2>1 DEF WriterDowngrades, WritersIn, ReadersIn
  <2>3. Cardinality({p}) = 1
    BY FS_Singleton
  <2>4. 1 < WLOCK
    BY <2>3, ReadersFinite
  <2> QED
    BY <1>6, <2>2, <2>3, <2>4 DEF WriterDowngrades, LockCounts, Exclusion, WritersIn
<1> QED
    BY <1>1, <1>2, <1>3, <1>4, <1>5, <1>6 DEF Effect

LEMMA RwIInvariant == RwSpec => []RwIInv
<1>1. RwIInv /\ [RwNext]_rwVars => RwIInv'
    BY EffectStep, PlacedStep, RwCountStep DEF RwIInv
<1> QED
    BY RwIInvInit, <1>1, PTL DEF RwSpec

\* The word, the program counters and the copies keep their types; a worker
\* about to count itself in has seen no writer.
THEOREM RwTypeCorrect == RwSpec => []RwTypeOK
    BY RwIInvariant, PTL DEF RwIInv

\* A writer is alone inside, however many workers there are and whoever is
\* killed (ngx_rwlock_wlock, ngx_rwlock_rlock).
THEOREM ExclusionCorrect == RwSpec => []Exclusion
    BY RwIInvariant, PTL DEF RwIInv

\* The word is WLOCK for a writer and the number of readers otherwise
\* (ngx_rwlock_unlock, ngx_rwlock_downgrade).
THEOREM LockCountsCorrect == RwSpec => []LockCounts
    BY RwIInvariant, PTL DEF RwIInv

\* Every step of the lock is one of the monitor, or none.
LEMMA MonitorStep == RwIInv /\ Effect => [Monitor!Next]_(Monitor!vars)
<1> SUFFICES ASSUME RwIInv, Effect PROVE [Monitor!Next]_(Monitor!vars)
    OBVIOUS
<1> USE DEF SetMode
<1>0. mode \in [User -> {"none", "read", "write"}]
    BY DEF RwIInv, RwTypeOK
<1>1. CASE Quiet
    BY <1>1 DEF Quiet, Monitor!vars, ReadersIn, WritersIn
<1>2. ASSUME NEW p \in User, EnterAsWriter(p) PROVE Monitor!EnterWrite(p)
  <2>1. ReadersIn = {} /\ WritersIn = {}
    BY <1>2, ReaderInside, WriterAlone, ReadersFinite, FS_EmptySet
       DEF EnterAsWriter, ReadersIn, WritersIn, RwIInv, RwTypeOK
  <2>2. ReadersIn' = {} /\ WritersIn' = {p}
    BY <1>0, <1>2, <2>1 DEF EnterAsWriter, ReadersIn, WritersIn
  <2> QED
    BY <2>1, <2>2 DEF Monitor!EnterWrite
<1>3. ASSUME NEW p \in User, EnterAsReader(p) PROVE Monitor!EnterRead(p)
  <2>1. WritersIn = {}
    BY <1>3 DEF EnterAsReader, RwIInv, LockCounts
  <2>2. ReadersIn' = ReadersIn \cup {p} /\ WritersIn' = WritersIn
    BY <1>0, <1>3 DEF EnterAsReader, ReadersIn, WritersIn
  <2> QED
    BY <2>1, <2>2 DEF Monitor!EnterRead
<1>4. ASSUME NEW p \in User, WriterLeaves(p) \/ ReaderLeaves(p) PROVE Monitor!Leave(p)
    BY <1>0, <1>4 DEF WriterLeaves, ReaderLeaves, Monitor!Leave, ReadersIn, WritersIn
<1>5. ASSUME NEW p \in User, WriterDowngrades(p) PROVE Monitor!Downgrade(p)
    BY <1>0, <1>5 DEF WriterDowngrades, Monitor!Downgrade, ReadersIn, WritersIn
<1> QED
    BY <1>1, <1>2, <1>3, <1>4, <1>5 DEF Effect, Monitor!Next

\* The lock implements the monitor of readers and writers: the downgrade of a
\* writer lets nobody in between.
THEOREM MonitorImplemented == RwSpec => ImplementsRwMonitor
<1>1. RwInit => Monitor!Init
    BY DEF RwInit, Monitor!Init, ReadersIn, WritersIn
<1>2. RwIInv /\ [RwNext]_rwVars => [Monitor!Next]_(Monitor!vars)
    BY EffectStep, MonitorStep
<1> QED
    BY <1>1, <1>2, RwIInvariant, PTL DEF RwSpec, ImplementsRwMonitor, Monitor!Spec
=============================================================================
