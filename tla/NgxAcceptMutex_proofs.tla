----------------------- MODULE NgxAcceptMutex_proofs ------------------------
(***************************************************************************)
(* Proofs about NgxAcceptMutex, for any number of workers, sockets,        *)
(* connections, clients and faults.                                        *)
(***************************************************************************)
EXTENDS NgxAcceptMutex, FiniteSetTheorems, TLAPS

\* The word and the flags of its owner: the mutex is owned only from trylock to
\* the end of the accept events, by a worker that knows it and listens.
OwnerInv ==
    \A p \in Worker :
        /\ word = p => pc[p] \in {"undo", "wait", "accept", "dead"}
        /\ word = p /\ pc[p] \in {"wait", "accept"} => posts[p] /\ held[p]
        /\ pc[p] = "undo" => word = p /\ useMutex /\ ~held[p]
        /\ pc[p] = "wait" /\ posts[p] => word = p
        /\ pc[p] = "accept" /\ posts[p] /\ held[p] => word = p

\* ngx_accept_mutex_held stands for the registered sockets, owner or not, unless
\* an epoll_ctl() has failed halfway.
HeldInv ==
    \A p \in Worker :
        /\ held[p] => Alive(p) /\ (halfway[p] \/ listening[p] = Sockets)
        /\ useMutex /\ ~held[p] /\ ~halfway[p] => listening[p] = {}
        /\ pc[p] = "accept" /\ posts[p] /\ ~held[p] => listening[p] = {}

\* Accept events have timers only without the mutex, and nothing is posted and
\* nobody owns the word then.
ModeInv ==
    \A p \in Worker :
        /\ useMutex => retry[p] = {} /\ timedout[p] = {}
        /\ ~useMutex => ~held[p] /\ ~posts[p]

IInv == TypeOK /\ OwnerInv /\ HeldInv /\ ModeInv

-----------------------------------------------------------------------------
LEMMA RoomType == Room \in Nat /\ Conns \div 8 \in Int
<1>1. Cardinality(Sockets) \in Nat
    BY FS_CardinalityType, AcceptAssumption
<1> QED
    BY <1>1, AcceptAssumption DEF Room

LEMMA InitIInv == Init => IInv
<1> SUFFICES ASSUME Init PROVE IInv
    OBVIOUS
<1>1. TypeOK
    BY RoomType, AcceptAssumption DEF Init, TypeOK
<1>2. \A p \in Worker : word # p
    BY AcceptAssumption DEF Init
<1>3. OwnerInv /\ HeldInv /\ ModeInv
    BY <1>2 DEF Init, OwnerInv, HeldInv, ModeInv, Alive
<1> QED
    BY <1>1, <1>3 DEF IInv

-----------------------------------------------------------------------------
(* Each call that registers or removes the sockets of a worker leaves those *)
(* of the others alone.                                                     *)

OwnSockets(p) ==
    /\ listening' \in [Worker -> SUBSET Sockets] /\ halfway' \in [Worker -> BOOLEAN]
    /\ \A q \in Worker \ {p} : listening'[q] = listening[q] /\ halfway'[q] = halfway[q]

LEMMA EnableOwn ==
    ASSUME TypeOK, NEW p \in Worker, Enable(p)
    PROVE  OwnSockets(p) /\ listening'[p] = Sockets /\ ~halfway'[p]
  BY DEF TypeOK, Enable, OwnSockets

LEMMA DisableOwn ==
    ASSUME TypeOK, NEW p \in Worker, Disable(p)
    PROVE  OwnSockets(p) /\ listening'[p] = {} /\ ~halfway'[p]
  BY DEF TypeOK, Disable, OwnSockets

LEMMA EnableFailsOwn ==
    ASSUME TypeOK, NEW p \in Worker, EnableFails(p)
    PROVE  OwnSockets(p) /\ halfway'[p]
<1>1. PICK f \in Sockets \ listening[p] :
          listening' = [listening EXCEPT ![p] = @ \cup Before(f)]
    BY DEF EnableFails
<1>2. Before(f) \subseteq Sockets /\ listening[p] \subseteq Sockets
    BY DEF Before, TypeOK
<1>3. listening' \in [Worker -> SUBSET Sockets]
    BY <1>1, <1>2 DEF TypeOK
<1> QED
    BY <1>1, <1>3 DEF TypeOK, EnableFails, OwnSockets

LEMMA DisableFailsOwn ==
    ASSUME TypeOK, NEW p \in Worker, DisableFails(p)
    PROVE  OwnSockets(p) /\ halfway'[p] /\ listening[p] # {}
<1>1. PICK f \in listening[p] :
          listening' = [listening EXCEPT ![p] = @ \ Before(f)]
    BY DEF DisableFails
<1>2. listening' \in [Worker -> SUBSET Sockets]
    BY <1>1 DEF TypeOK
<1> QED
    BY <1>1, <1>2 DEF TypeOK, DisableFails, OwnSockets

-----------------------------------------------------------------------------
(* One lemma for each action: it keeps the invariant, and is a step of the  *)
(* robust lock or changes neither the word nor who is alive.                *)

LockStep == [Abstract!Next]_(Abstract!vars)

LEMMA ClientKeeps ==
    ASSUME IInv, NEW s \in Sockets, Client(s) PROVE IInv' /\ LockStep
  BY DEF Client, config, cycle, timers, sockets, IInv, TypeOK, OwnerInv, HeldInv, ModeInv, Alive,
         LockStep, Abstract!vars

LEMMA SkipTrylockKeeps ==
    ASSUME IInv, NEW p \in Worker, SkipTrylock(p) PROVE IInv' /\ LockStep
<1> USE DEF SkipTrylock, LoopRest, Sleep, Goto, config, timers, sockets, IInv
<1>1. TypeOK'
    BY DEF TypeOK
<1>2. OwnerInv' /\ HeldInv' /\ ModeInv'
    BY DEF TypeOK, OwnerInv, HeldInv, ModeInv, Alive
<1>3. LockStep
    BY DEF TypeOK, Alive, LockStep, Abstract!vars
<1> QED
    BY <1>1, <1>2, <1>3

LEMMA TrylockKeeps ==
    ASSUME IInv, NEW p \in Worker, Trylock(p) PROVE IInv' /\ LockStep
<1> USE DEF Trylock, LoopRest, Goto, config, timers, sockets, IInv
<1>1. \A q \in Worker : word # q
    BY AcceptAssumption
<1>2. LockStep
    <2>1. [q \in Worker |-> Alive(q)]' = [q \in Worker |-> Alive(q)]
        BY DEF TypeOK, Alive, Sleep
    <2>2. Abstract!Acquire(p)
        BY <2>1 DEF Alive, Abstract!Acquire
    <2> QED
        BY <2>2 DEF LockStep, Abstract!Next
<1>3. CASE Sleep(p, TRUE, TRUE) /\ held' = [held EXCEPT ![p] = TRUE]
           /\ (IF held[p] THEN UNCHANGED sockets ELSE Enable(p))
           /\ UNCHANGED faults
    <2> USE <1>3 DEF Sleep
    <2>1. OwnSockets(p) /\ (halfway'[p] \/ listening'[p] = Sockets)
        <3>1. CASE held[p]
            BY <3>1 DEF HeldInv, TypeOK, OwnSockets
        <3>2. CASE ~held[p]
            BY <3>2, EnableOwn
        <3> QED
            BY <3>1, <3>2
    <2>2. TypeOK'
        BY <2>1 DEF TypeOK, OwnSockets
    <2>3. OwnerInv'
        BY <1>1 DEF TypeOK, OwnerInv
    <2>4. HeldInv' /\ ModeInv'
        BY <2>1 DEF TypeOK, HeldInv, ModeInv, Alive, OwnSockets
    <2> QED
        BY <1>2, <2>2, <2>3, <2>4
<1>4. CASE ~held[p] /\ EnableFails(p) /\ Fault /\ pc' = [pc EXCEPT ![p] = "undo"]
           /\ UNCHANGED <<held, cycle>>
    <2>a. OwnSockets(p) /\ halfway'[p]
        BY <1>4, EnableFailsOwn
    <2>b. word' \in Worker \cup {None} /\ faults' \in Nat
        BY <1>4 DEF Fault, TypeOK
    <2>c. pc' \in [Worker -> {"loop", "undo", "wait", "accept", "rest", "dead", "reaped"}]
        BY <1>4 DEF TypeOK
    <2>1. TypeOK'
        BY <1>4, <2>a, <2>b, <2>c DEF TypeOK, OwnSockets, cycle
    <2>2. OwnerInv' /\ HeldInv' /\ ModeInv'
        BY <1>1, <1>4, <2>a DEF cycle, TypeOK, OwnerInv, HeldInv, ModeInv, Alive, OwnSockets
    <2> QED
        BY <1>2, <2>1, <2>2
<1> QED
    BY <1>3, <1>4

LEMMA UndoKeeps ==
    ASSUME IInv, NEW p \in Worker, Undo(p) PROVE IInv' /\ LockStep
<1> USE DEF Undo, LoopRest, Goto, Unlocked, config, cycle, timers, sockets, IInv
<1>1. word = p
    BY DEF OwnerInv
<1>2. TypeOK'
    BY <1>1 DEF TypeOK
<1>3. OwnerInv' /\ HeldInv' /\ ModeInv'
    BY <1>1, AcceptAssumption DEF TypeOK, OwnerInv, HeldInv, ModeInv, Alive
<1>4. Abstract!Release(p)
    BY <1>1 DEF TypeOK, Alive, Abstract!Release
<1> QED
    BY <1>2, <1>3, <1>4 DEF LockStep, Abstract!Next

LEMMA TrylockFailsKeeps ==
    ASSUME IInv, NEW p \in Worker, TrylockFails(p) PROVE IInv' /\ LockStep
<1> USE DEF TrylockFails, LoopRest, Sleep, Goto, config, cycle, timers, IInv
<1>1. LockStep
    BY DEF TypeOK, Alive, LockStep, Abstract!vars
<1>2. CASE held[p] /\ DisableFails(p) /\ Fault /\ UNCHANGED <<held, pc, cycle>>
    <2> USE <1>2 DEF Fault
    <2>a. OwnSockets(p) /\ halfway'[p]
        BY DisableFailsOwn
    <2>1. TypeOK'
        BY <2>a DEF TypeOK, OwnSockets
    <2>2. OwnerInv' /\ HeldInv' /\ ModeInv'
        BY <2>a DEF TypeOK, OwnerInv, HeldInv, ModeInv, Alive, OwnSockets
    <2> QED
        BY <1>1, <2>1, <2>2
<1>3. CASE /\ IF held[p] THEN Disable(p) ELSE UNCHANGED sockets
           /\ held' = [held EXCEPT ![p] = FALSE]
           /\ Sleep(p, FALSE, FALSE) /\ UNCHANGED faults
    <2>1. OwnSockets(p) /\ (~halfway'[p] => listening'[p] = {})
        <3>1. CASE held[p]
            BY <1>3, <3>1, DisableOwn
        <3>2. CASE ~held[p]
            BY <1>3, <3>2 DEF sockets, HeldInv, TypeOK, OwnSockets
        <3> QED
            BY <3>1, <3>2
    <2> USE <1>3
    <2>2. TypeOK'
        BY <2>1 DEF TypeOK, OwnSockets
    <2>3. OwnerInv'
        BY DEF TypeOK, OwnerInv
    <2>4. HeldInv' /\ ModeInv'
        BY <2>1 DEF TypeOK, HeldInv, ModeInv, Alive, OwnSockets
    <2> QED
        BY <1>1, <2>2, <2>3, <2>4
<1> QED
    BY <1>2, <1>3

LEMMA WaitKeeps ==
    ASSUME IInv, NEW p \in Worker, Wait(p) PROVE IInv' /\ LockStep
<1> USE DEF Wait, Goto, config, cycle, timers, sockets, bounds, IInv
<1>1. TypeOK'
    BY DEF TypeOK
<1>2. OwnerInv' /\ HeldInv' /\ ModeInv'
    BY DEF TypeOK, OwnerInv, HeldInv, ModeInv, Alive
<1>3. LockStep
    BY DEF TypeOK, Alive, LockStep, Abstract!vars
<1> QED
    BY <1>1, <1>2, <1>3

LEMMA AcceptKeeps ==
    ASSUME IInv, NEW p \in Worker, Accept(p) PROVE IInv' /\ LockStep
<1>1. PICK s \in batch[p] :
          \/ AcceptNothing(p, s) \/ ListenAgain(p, s) \/ AcceptClient(p, s)
          \/ AcceptAborted(p, s) \/ AcceptExhausted(p, s)
    BY DEF Accept
<1>2. pc[p] = "accept" /\ s \in Sockets
    BY DEF Accept, IInv, TypeOK
<1> USE <1>2 DEF IInv, Handled, AcceptRest, config, cycle, timers, sockets
<1>3. CASE AcceptNothing(p, s)
    <2> USE <1>3 DEF AcceptNothing
    <2>1. TypeOK'
        BY DEF TypeOK
    <2>2. OwnerInv' /\ HeldInv' /\ ModeInv'
        BY DEF TypeOK, OwnerInv, HeldInv, ModeInv, Alive
    <2> QED
        BY <2>1, <2>2 DEF Alive, LockStep, Abstract!vars
<1>4. CASE AcceptClient(p, s)
    <2> USE <1>4 DEF AcceptClient
    <2>1. batch' \in [Worker -> SUBSET Sockets]
        BY DEF TypeOK
    <2>2. own' \in [Worker -> 0 .. Room]
        BY RoomType DEF TypeOK, FreeConns
    <2>3. disabled' \in [Worker -> Int] /\ backlog' \in [Sockets -> Nat]
        BY RoomType DEF TypeOK, FreeConns
    <2>4. TypeOK'
        BY <2>1, <2>2, <2>3 DEF TypeOK
    <2>5. OwnerInv' /\ HeldInv' /\ ModeInv'
        BY DEF TypeOK, OwnerInv, HeldInv, ModeInv, Alive
    <2> QED
        BY <2>4, <2>5 DEF Alive, LockStep, Abstract!vars
<1>5. CASE AcceptExhausted(p, s)
    <2> USE <1>5 DEF AcceptExhausted, Fault
    <2>1. CASE DisableFails(p) /\ UNCHANGED <<word, held, disabled, retry>>
        <3> USE <2>1
        <3>a. OwnSockets(p) /\ halfway'[p] /\ listening[p] # {}
            BY DisableFailsOwn
        <3>b. batch' \in [Worker -> SUBSET Sockets] /\ faults' \in Nat
            BY DEF TypeOK
        <3>c. UNCHANGED <<config, pc, cycle, clients, closes, timers, own, backlog>>
            OBVIOUS
        <3>1. TypeOK'
            BY <3>a, <3>b, <3>c DEF TypeOK, OwnSockets
        <3>2. OwnerInv' /\ HeldInv' /\ ModeInv'
            BY <3>a DEF TypeOK, OwnerInv, HeldInv, ModeInv, Alive, OwnSockets
        <3> QED
            BY <3>1, <3>2 DEF Alive, LockStep, Abstract!vars
    <2>2. CASE /\ Disable(p) /\ useMutex
               /\ word' = IF held[p] THEN Unlocked(p) ELSE word
               /\ held' = [held EXCEPT ![p] = FALSE]
               /\ disabled' = [disabled EXCEPT ![p] = 1]
               /\ UNCHANGED retry
        <3> USE <2>2 DEF Disable, Unlocked
        <3>1. TypeOK'
            BY DEF TypeOK
        <3>2. word = p => held[p]
            BY DEF OwnerInv
        <3>3. OwnerInv'
            BY <3>2, AcceptAssumption DEF TypeOK, OwnerInv
        <3>4. HeldInv' /\ ModeInv'
            BY DEF TypeOK, HeldInv, ModeInv, Alive
        <3>5. CASE word = p
            <4>1. Abstract!Release(p)
                BY <3>2, <3>5 DEF Alive, Abstract!Release
            <4> QED
                BY <3>1, <3>3, <3>4, <4>1 DEF LockStep, Abstract!Next
        <3>6. CASE word # p
            BY <3>1, <3>3, <3>4, <3>6 DEF Alive, LockStep, Abstract!vars
        <3> QED
            BY <3>5, <3>6
    <2>3. CASE /\ Disable(p) /\ ~useMutex
               /\ retry' = [retry EXCEPT ![p] = @ \cup {s}]
               /\ UNCHANGED <<word, held, disabled>>
        <3> USE <2>3 DEF Disable
        <3>1. TypeOK'
            BY DEF TypeOK
        <3>2. OwnerInv' /\ HeldInv' /\ ModeInv'
            BY DEF TypeOK, OwnerInv, HeldInv, ModeInv, Alive
        <3> QED
            BY <3>1, <3>2 DEF Alive, LockStep, Abstract!vars
    <2> QED
        BY <2>1, <2>2, <2>3
<1>6. CASE AcceptAborted(p, s)
    <2> USE <1>6 DEF AcceptAborted, Fault
    <2>1. TypeOK'
        BY DEF TypeOK
    <2>2. OwnerInv' /\ HeldInv' /\ ModeInv'
        BY DEF TypeOK, OwnerInv, HeldInv, ModeInv, Alive
    <2> QED
        BY <2>1, <2>2 DEF Alive, LockStep, Abstract!vars
<1>7. CASE ListenAgain(p, s)
    <2>1. ~useMutex /\ ~posts[p]
        BY <1>7 DEF ListenAgain, ModeInv
    <2>2. OwnSockets(p)
        BY <1>7, EnableOwn, EnableFailsOwn DEF ListenAgain
    <2>3. /\ timedout' \in [Worker -> SUBSET Sockets] /\ batch' \in [Worker -> SUBSET Sockets]
          /\ faults' \in Nat
        BY <1>7 DEF ListenAgain, Fault, TypeOK
    <2>4. UNCHANGED <<config, pc, cycle, clients, closes, word, held, disabled, retry, own, backlog>>
        BY <1>7 DEF ListenAgain
    <2>5. TypeOK'
        BY <2>2, <2>3, <2>4 DEF TypeOK, OwnSockets
    <2>6. OwnerInv' /\ HeldInv' /\ ModeInv'
        BY <2>1, <2>2, <2>4 DEF TypeOK, OwnerInv, HeldInv, ModeInv, Alive, OwnSockets
    <2> QED
        BY <2>4, <2>5, <2>6 DEF Alive, LockStep, Abstract!vars
<1> QED
    BY <1>1, <1>3, <1>4, <1>5, <1>6, <1>7

LEMMA ReleaseKeeps ==
    ASSUME IInv, NEW p \in Worker, Release(p) PROVE IInv' /\ LockStep
<1> USE DEF Release, Unlocked, Goto, config, cycle, timers, sockets, bounds, IInv
<1>1. TypeOK'
    BY DEF TypeOK
<1>2. OwnerInv' /\ HeldInv' /\ ModeInv'
    BY AcceptAssumption DEF TypeOK, OwnerInv, HeldInv, ModeInv, Alive
<1>3. CASE word = p
    <2>1. Abstract!Release(p)
        BY <1>3 DEF TypeOK, OwnerInv, Alive, Abstract!Release
    <2> QED
        BY <1>1, <1>2, <2>1 DEF LockStep, Abstract!Next
<1>4. CASE word # p
    BY <1>1, <1>2, <1>4 DEF TypeOK, Alive, LockStep, Abstract!vars
<1> QED
    BY <1>3, <1>4

LEMMA CloseKeeps ==
    ASSUME IInv, NEW p \in Worker, Close(p) PROVE IInv' /\ LockStep
<1> USE DEF Close, Goto, config, cycle, timers, sockets, bounds, IInv
<1>1. TypeOK'
    BY RoomType DEF TypeOK
<1>2. OwnerInv' /\ HeldInv' /\ ModeInv'
    BY DEF TypeOK, OwnerInv, HeldInv, ModeInv, Alive
<1>3. LockStep
    BY DEF TypeOK, Alive, LockStep, Abstract!vars
<1> QED
    BY <1>1, <1>2, <1>3

LEMMA ExpireKeeps ==
    ASSUME IInv, NEW p \in Worker, Expire(p) PROVE IInv' /\ LockStep
<1>1. ~useMutex /\ pc[p] = "rest" /\ ~posts[p] /\ ~held[p]
    BY DEF Expire, ModeInv, IInv
<1>2. OwnSockets(p)
    BY EnableOwn, EnableFailsOwn DEF Expire, IInv
<1>3. /\ retry' \in [Worker -> SUBSET Sockets] /\ timedout' \in [Worker -> SUBSET Sockets]
      /\ batch' \in [Worker -> SUBSET Sockets] /\ faults' \in Nat
    BY DEF Expire, Fault, IInv, TypeOK
<1>4. pc' = pc \/ pc' = [pc EXCEPT ![p] = "accept"]
    BY DEF Expire, Goto
<1>5. UNCHANGED <<config, word, held, disabled, cycle, own, backlog, clients, closes>>
    BY DEF Expire
<1> USE DEF IInv, config, cycle
<1>6. TypeOK'
    BY <1>2, <1>3, <1>4, <1>5 DEF TypeOK, OwnSockets
<1>7. OwnerInv'
    BY <1>1, <1>4, <1>5 DEF TypeOK, OwnerInv
<1>8. HeldInv' /\ ModeInv'
    BY <1>1, <1>2, <1>4, <1>5 DEF TypeOK, HeldInv, ModeInv, Alive, OwnSockets
<1>9. LockStep
    BY <1>1, <1>4, <1>5 DEF TypeOK, Alive, LockStep, Abstract!vars
<1> QED
    BY <1>6, <1>7, <1>8, <1>9

LEMMA EndCycleKeeps ==
    ASSUME IInv, NEW p \in Worker, EndCycle(p) PROVE IInv' /\ LockStep
<1> USE DEF EndCycle, Goto, config, cycle, timers, sockets, bounds, IInv
<1>1. TypeOK'
    BY DEF TypeOK
<1>2. OwnerInv' /\ HeldInv' /\ ModeInv'
    BY DEF TypeOK, OwnerInv, HeldInv, ModeInv, Alive
<1>3. LockStep
    BY DEF TypeOK, Alive, LockStep, Abstract!vars
<1> QED
    BY <1>1, <1>2, <1>3

LEMMA CrashKeeps ==
    ASSUME IInv, NEW p \in Worker, Crash(p) PROVE IInv' /\ LockStep
<1> USE DEF Crash, Fault, Goto, config, cycle, IInv
<1>1. TypeOK'
    <2>1. own' \in [Worker -> 0 .. Room] /\ faults' \in Nat
        BY RoomType DEF TypeOK
    <2>2. pc' \in [Worker -> {"loop", "undo", "wait", "accept", "rest", "dead", "reaped"}]
        BY DEF TypeOK
    <2>3. /\ listening' \in [Worker -> SUBSET Sockets]
          /\ batch' \in [Worker -> SUBSET Sockets] /\ retry' \in [Worker -> SUBSET Sockets]
          /\ timedout' \in [Worker -> SUBSET Sockets]
        BY DEF TypeOK
    <2>4. /\ held' \in [Worker -> BOOLEAN] /\ infinite' \in [Worker -> BOOLEAN]
          /\ posts' \in [Worker -> BOOLEAN] /\ halfway' \in [Worker -> BOOLEAN]
          /\ disabled' \in [Worker -> Int]
        BY DEF TypeOK
    <2> QED
        BY <2>1, <2>2, <2>3, <2>4 DEF TypeOK
<1>2. OwnerInv' /\ HeldInv' /\ ModeInv'
    BY DEF TypeOK, OwnerInv, HeldInv, ModeInv, Alive
<1>3. Abstract!Die(p)
    BY DEF TypeOK, Alive, Abstract!Die
<1> QED
    BY <1>1, <1>2, <1>3 DEF LockStep, Abstract!Next

LEMMA ReapKeeps ==
    ASSUME IInv, NEW p \in Worker, Reap(p) PROVE IInv' /\ LockStep
<1> USE DEF Reap, Goto, config, cycle, timers, sockets, bounds, IInv
<1>1. TypeOK'
    BY DEF TypeOK
<1>2. OwnerInv' /\ HeldInv' /\ ModeInv'
    BY AcceptAssumption DEF TypeOK, OwnerInv, HeldInv, ModeInv, Alive
<1>3. CASE word = p
    <2>1. Abstract!Recover(p)
        BY <1>3 DEF TypeOK, Alive, Abstract!Recover
    <2> QED
        BY <1>1, <1>2, <2>1 DEF LockStep, Abstract!Next
<1>4. CASE word # p
    BY <1>1, <1>2, <1>4 DEF TypeOK, Alive, LockStep, Abstract!vars
<1> QED
    BY <1>3, <1>4

LEMMA RespawnKeeps ==
    ASSUME IInv, NEW p \in Worker, Respawn(p) PROVE IInv' /\ LockStep
<1> USE DEF Respawn, Goto, config, cycle, timers, bounds, IInv
<1>1. TypeOK'
    BY RoomType DEF TypeOK
<1>2. OwnerInv' /\ HeldInv' /\ ModeInv'
    BY DEF TypeOK, OwnerInv, HeldInv, ModeInv, Alive
<1>3. Abstract!Return(p)
    BY DEF TypeOK, OwnerInv, Alive, Abstract!Return
<1> QED
    BY <1>1, <1>2, <1>3 DEF LockStep, Abstract!Next

-----------------------------------------------------------------------------
LEMMA StepKeeps == IInv /\ [Next]_vars => IInv' /\ LockStep
<1> SUFFICES ASSUME IInv, [Next]_vars PROVE IInv' /\ LockStep
    OBVIOUS
<1>1. ASSUME NEW s \in Sockets, Client(s) PROVE IInv' /\ LockStep
    BY <1>1, ClientKeeps
<1>2. ASSUME NEW p \in Worker, WorkerStep(p) \/ Close(p) \/ Crash(p) \/ MasterStep(p)
      PROVE IInv' /\ LockStep
    BY <1>2, SkipTrylockKeeps, TrylockKeeps, UndoKeeps, TrylockFailsKeeps, WaitKeeps, AcceptKeeps,
       ReleaseKeeps, CloseKeeps, ExpireKeeps, EndCycleKeeps, CrashKeeps, ReapKeeps,
       RespawnKeeps DEF WorkerStep, MasterStep
<1>3. CASE UNCHANGED vars
    BY <1>3 DEF vars, config, cycle, timers, sockets, bounds, IInv, TypeOK, OwnerInv, HeldInv, ModeInv,
                Alive, LockStep, Abstract!vars
<1> QED
    BY <1>1, <1>2, <1>3 DEF Next

\* ngx_accept_mutex_held and the registered sockets agree with the mutex as far
\* as the accept events need it: the owner that sleeps listens, posted events
\* are handled by the owner, a worker that does not hold the mutex is silent; the
\* sockets may be too few or too many only from a failing epoll_ctl() to the next
\* complete ngx_enable_accept_events() or ngx_disable_accept_events().
THEOREM OwnerListensCorrect == Spec => []OwnerListens
<1>1. IInv => OwnerListens
    BY DEF IInv, TypeOK, OwnerInv, HeldInv, Alive, OwnerListens
<1> QED
    BY <1>1, InitIInv, StepKeeps, PTL DEF Spec

\* ngx_trylock_accept_mutex(), ngx_shmtx_unlock() with a stale held flag, kills
\* and the unlock by the master make a robust lock of the word.
THEOREM RobustLockImplemented == Spec => ImplementsRobustLock
<1>1. Init => Abstract!Init
    BY DEF Init, Alive, Abstract!Init
<1> QED
    BY <1>1, InitIInv, StepKeeps, PTL DEF Spec, ImplementsRobustLock, Abstract!Spec, LockStep
=============================================================================
