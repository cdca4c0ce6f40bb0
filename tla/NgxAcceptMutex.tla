--------------------------- MODULE NgxAcceptMutex ---------------------------
(***************************************************************************)
(* Who listens: ngx_process_events_and_timers() of event/ngx_event.c with  *)
(* ngx_trylock_accept_mutex() and ngx_event_accept() of                    *)
(* event/ngx_event_accept.c, in several workers that share the listening   *)
(* sockets and the accept mutex.                                           *)
(*                                                                         *)
(* The mutex is a word in shared memory (ngx_shmtx_t without waiting, see  *)
(* NgxShmtx): trylock and unlock are compare-and-sets with the own pid.    *)
(* What a worker does between two of them is seen by nobody else, so a     *)
(* cycle is a few steps.  A connection is a count of its worker's;         *)
(* sockets with reuseport, which take no part in this, are left out.       *)
(***************************************************************************)
EXTENDS Integers, FiniteSets

CONSTANTS
    Worker,     \* the worker processes
    None,       \* the word 0: no owner
    Sockets,    \* the listening sockets, by their place in cycle->listening
    Conns,      \* connection_n
    InitOwn,    \* how many connections the workers may have at first
    MaxClients, \* bound on the clients that connect
    MaxCloses,  \* bound on the connections that are closed
    MaxFaults   \* bound on crashes and failing calls

\* The listening sockets and the channel take a connection each.
Room == Conns - Cardinality(Sockets) - 1

ASSUME AcceptAssumption ==
    /\ None \notin Worker
    /\ Sockets \subseteq Nat /\ IsFiniteSet(Sockets)
    /\ Conns \in Nat /\ Room >= 0
    /\ InitOwn \subseteq 0 .. Room
    /\ MaxClients \in Nat /\ MaxCloses \in Nat /\ MaxFaults \in Nat

VARIABLES
    useMutex, multi,    \* ngx_use_accept_mutex; multi_accept
    word,       \* ngx_accept_mutex
    pc,         \* where each worker is in its cycle
    held,       \* ngx_accept_mutex_held
    disabled,   \* ngx_accept_disabled
    listening,  \* sockets whose read event is in the worker's epoll
    infinite,   \* the timeout of epoll_wait() is infinite, but for own timers
    posts,      \* NGX_POST_EVENTS
    batch,      \* accept events of this cycle that are not handled yet
    retry,      \* accept events with a timer (only without the mutex)
    timedout,   \* accept events whose timer is over but that do not listen again
    own,        \* connections in use
    backlog,    \* clients that wait in each socket
    halfway,    \* history: the last call that was to register or to remove the
                \* listening sockets of the worker has met a failing epoll_ctl()
    clients, closes, faults     \* bounds

config == <<useMutex, multi>>
cycle == <<infinite, posts>>
timers == <<retry, timedout>>
sockets == <<listening, halfway>>
bounds == <<clients, closes, faults>>
vars == <<config, word, pc, held, disabled, sockets, cycle, batch, timers, own, backlog,
          bounds>>

Goto(p, l) == pc' = [pc EXCEPT ![p] = l]
Alive(p) == pc[p] \notin {"dead", "reaped"}
FreeConns(p) == Room - own[p]       \* free_connection_n
Fault == faults < MaxFaults /\ faults' = faults + 1

Init ==
    /\ useMutex \in BOOLEAN /\ multi \in BOOLEAN
    /\ word = None
    /\ pc = [p \in Worker |-> "loop"]
    /\ held = [p \in Worker |-> FALSE]
    /\ disabled = [p \in Worker |-> 0]
    /\ listening = [p \in Worker |-> IF useMutex THEN {} ELSE Sockets]
    /\ infinite = [p \in Worker |-> FALSE]
    /\ posts = [p \in Worker |-> FALSE]
    /\ batch = [p \in Worker |-> {}]
    /\ retry = [p \in Worker |-> {}]
    /\ timedout = [p \in Worker |-> {}]
    /\ \E n \in InitOwn : own = [p \in Worker |-> n]
    /\ backlog = [s \in Sockets |-> 0]
    /\ halfway = [p \in Worker |-> FALSE]
    /\ clients = 0 /\ closes = 0 /\ faults = 0

Client(s) ==
    /\ clients < MaxClients
    /\ clients' = clients + 1
    /\ backlog' = [backlog EXCEPT ![s] = @ + 1]
    /\ UNCHANGED <<config, word, pc, held, disabled, sockets, cycle, batch, timers, own,
                   closes, faults>>

-----------------------------------------------------------------------------
(* The mutex *)

\* ngx_shmtx_unlock(): the word behind the compare-and-set.
Unlocked(p) == IF word = p THEN None ELSE word

Before(f) == {s \in Sockets : s < f}

\* ngx_enable_accept_events()
Enable(p) ==
    /\ listening' = [listening EXCEPT ![p] = Sockets]
    /\ halfway' = [halfway EXCEPT ![p] = FALSE]

\* It fails at a socket that is not registered: those before it are.
EnableFails(p) ==
    /\ \E f \in Sockets \ listening[p] :
          listening' = [listening EXCEPT ![p] = @ \cup Before(f)]
    /\ halfway' = [halfway EXCEPT ![p] = TRUE]

\* ngx_disable_accept_events()
Disable(p) ==
    /\ listening' = [listening EXCEPT ![p] = {}]
    /\ halfway' = [halfway EXCEPT ![p] = FALSE]

\* It fails at a socket that is registered: those before it no longer are.
DisableFails(p) ==
    /\ \E f \in listening[p] :
          listening' = [listening EXCEPT ![p] = @ \ Before(f)]
    /\ halfway' = [halfway EXCEPT ![p] = TRUE]

Sleep(p, posting, forever) ==
    /\ posts' = [posts EXCEPT ![p] = posting]
    /\ infinite' = [infinite EXCEPT ![p] = forever]
    /\ Goto(p, "wait")

LoopRest == UNCHANGED <<config, batch, timers, own, backlog, clients, closes>>

\* Mutant: ngx_accept_disabled is not counted down.
SkipTrylockForGood(p) ==
    /\ pc[p] = "loop"
    /\ ~useMutex \/ disabled[p] > 0
    /\ Sleep(p, FALSE, TRUE)
    /\ UNCHANGED <<word, held, disabled, sockets, faults>> /\ LoopRest

\* The head of the cycle without the mutex, and the turn a worker with few
\* free connections leaves out.
SkipTrylock(p) ==
    /\ pc[p] = "loop"
    /\ ~useMutex \/ disabled[p] > 0
    /\ disabled' = [disabled EXCEPT ![p] = IF useMutex THEN @ - 1 ELSE @]
    /\ Sleep(p, FALSE, TRUE)
    /\ UNCHANGED <<word, held, sockets, faults>> /\ LoopRest

\* ngx_trylock_accept_mutex() takes the mutex; who still has the flag set keeps
\* the sockets as they are.
Trylock(p) ==
    /\ pc[p] = "loop" /\ useMutex /\ disabled[p] <= 0
    /\ word = None
    /\ word' = p
    /\ \/ /\ IF held[p] THEN UNCHANGED sockets ELSE Enable(p)
          /\ held' = [held EXCEPT ![p] = TRUE]
          /\ Sleep(p, TRUE, TRUE)
          /\ UNCHANGED faults
       \/ /\ ~held[p] /\ EnableFails(p) /\ Fault
          /\ Goto(p, "undo")
          /\ UNCHANGED <<held, cycle>>
    /\ UNCHANGED disabled /\ LoopRest

\* NGX_ERROR: the mutex is given back, and the cycle begins anew.
Undo(p) ==
    /\ pc[p] = "undo"
    /\ word' = Unlocked(p)
    /\ Goto(p, "loop")
    /\ UNCHANGED <<held, disabled, sockets, cycle, faults>> /\ LoopRest

\* Mutant: the flag is left set when the sockets have been removed.
TrylockFailsHeld(p) ==
    /\ pc[p] = "loop" /\ useMutex /\ disabled[p] <= 0
    /\ word # None
    /\ IF held[p] THEN Disable(p) ELSE UNCHANGED sockets
    /\ Sleep(p, held[p], held[p])
    /\ UNCHANGED <<word, held, disabled, faults>> /\ LoopRest

\* Another worker owns it.  When a socket cannot be removed (NGX_ERROR) the flag
\* stays set over the sockets that are left, and the cycle begins anew.
TrylockFails(p) ==
    /\ pc[p] = "loop" /\ useMutex /\ disabled[p] <= 0
    /\ word # None
    /\ \/ /\ IF held[p] THEN Disable(p) ELSE UNCHANGED sockets
          /\ held' = [held EXCEPT ![p] = FALSE]
          /\ Sleep(p, FALSE, FALSE)
          /\ UNCHANGED faults
       \/ /\ held[p] /\ DisableFails(p) /\ Fault
          /\ UNCHANGED <<held, pc, cycle>>
    /\ UNCHANGED <<word, disabled>> /\ LoopRest

-----------------------------------------------------------------------------
(* ngx_epoll_process_events() and the accept events *)

\* epoll_wait() returns the sockets that are ready, or because of a timer or an
\* event of the worker's own connections.
Wait(p) ==
    LET ready == {s \in listening[p] : backlog[s] > 0}
    IN  /\ pc[p] = "wait"
        /\ ready # {} \/ ~infinite[p] \/ own[p] > 0 \/ retry[p] # {}
        /\ batch' = [batch EXCEPT ![p] = ready]
        /\ infinite' = [infinite EXCEPT ![p] = FALSE]
        /\ Goto(p, "accept")
        /\ UNCHANGED <<config, word, held, disabled, sockets, posts, timers, own, backlog,
                       bounds>>

Handled(p, s) == batch' = [batch EXCEPT ![p] = @ \ {s}]

AcceptRest == UNCHANGED <<config, pc, cycle, clients, closes>>

\* The handler is called: the event is posted or still registered.
Called(p, s) == posts[p] \/ s \in listening[p]

\* ngx_event_accept() comes as far as accept().
Accepts(p, s) == Called(p, s) /\ s \notin timedout[p]

\* No client is left (EAGAIN), or an earlier event has removed this one.
AcceptNothing(p, s) ==
    /\ ~Called(p, s) \/ (Accepts(p, s) /\ backlog[s] = 0)
    /\ Handled(p, s)
    /\ UNCHANGED <<word, held, disabled, sockets, timers, own, backlog, faults>>
    /\ AcceptRest

\* Since the timer of this event the worker has not listened on all sockets.
ListenAgain(p, s) ==
    /\ Called(p, s) /\ s \in timedout[p]
    /\ \/ /\ Enable(p)
          /\ timedout' = [timedout EXCEPT ![p] = @ \ {s}]
          /\ UNCHANGED <<batch, faults>>
       \/ EnableFails(p) /\ Fault /\ Handled(p, s) /\ UNCHANGED timedout
    /\ UNCHANGED <<word, held, disabled, retry, own, backlog>> /\ AcceptRest

\* accept(), and ngx_get_connection(), which may first drain connections that
\* wait for a request.
AcceptClient(p, s) ==
    /\ Accepts(p, s) /\ backlog[s] > 0
    /\ backlog' = [backlog EXCEPT ![s] = @ - 1]
    /\ disabled' = [disabled EXCEPT ![p] = Conns \div 8 - FreeConns(p)]
    /\ \/ /\ FreeConns(p) > 0
          /\ own' = [own EXCEPT ![p] = @ + 1]
          /\ IF multi THEN UNCHANGED batch ELSE Handled(p, s)
       \/ /\ FreeConns(p) = 0      \* one is drained, or the client is turned away
          /\ UNCHANGED own
          /\ \/ Handled(p, s)
             \/ own[p] > 0 /\ multi /\ UNCHANGED batch
    /\ UNCHANGED <<word, held, sockets, timers, faults>> /\ AcceptRest

\* ECONNABORTED: the client has gone.
AcceptAborted(p, s) ==
    /\ Accepts(p, s) /\ backlog[s] > 0
    /\ Fault
    /\ backlog' = [backlog EXCEPT ![s] = @ - 1]
    /\ IF multi THEN UNCHANGED batch ELSE Handled(p, s)
    /\ UNCHANGED <<word, held, disabled, sockets, timers, own>> /\ AcceptRest

\* EMFILE or ENFILE.  When a socket cannot be removed either, all the rest is
\* left out (the two failures count as one fault).
AcceptExhausted(p, s) ==
    /\ Accepts(p, s) /\ backlog[s] > 0
    /\ Fault
    /\ \/ /\ Disable(p)
          /\ IF useMutex
             THEN /\ word' = IF held[p] THEN Unlocked(p) ELSE word
                  /\ held' = [held EXCEPT ![p] = FALSE]
                  /\ disabled' = [disabled EXCEPT ![p] = 1]
                  /\ UNCHANGED retry
             ELSE /\ retry' = [retry EXCEPT ![p] = @ \cup {s}]
                  /\ UNCHANGED <<word, held, disabled>>
       \/ DisableFails(p) /\ UNCHANGED <<word, held, disabled, retry>>
    /\ Handled(p, s)
    /\ UNCHANGED <<timedout, own, backlog>> /\ AcceptRest

Accept(p) ==
    /\ pc[p] = "accept"
    /\ \E s \in batch[p] :
          \/ AcceptNothing(p, s) \/ ListenAgain(p, s) \/ AcceptClient(p, s)
          \/ AcceptAborted(p, s) \/ AcceptExhausted(p, s)

\* The accept events are done: the mutex is released, the sockets stay.
Release(p) ==
    /\ pc[p] = "accept" /\ batch[p] = {}
    /\ word' = IF held[p] THEN Unlocked(p) ELSE word
    /\ posts' = [posts EXCEPT ![p] = FALSE]
    /\ Goto(p, "rest")
    /\ UNCHANGED <<config, held, disabled, sockets, infinite, batch, timers, own, backlog,
                   bounds>>

-----------------------------------------------------------------------------
(* Timers and the other events *)

\* The handler of another event closes its connection: posted ones run last.
Close(p) ==
    /\ pc[p] = "rest" \/ (pc[p] = "accept" /\ ~posts[p])
    /\ own[p] > 0 /\ closes < MaxCloses
    /\ own' = [own EXCEPT ![p] = @ - 1]
    /\ closes' = closes + 1
    /\ UNCHANGED <<config, word, pc, held, disabled, sockets, cycle, batch, timers, backlog,
                   clients, faults>>

\* The timer of an accept event: listens again and accepts.  There is no second
\* timer when that fails, only the next event of this socket tries again.
Expire(p) ==
    /\ pc[p] = "rest"
    /\ \E s \in retry[p] :
          /\ retry' = [retry EXCEPT ![p] = @ \ {s}]
          /\ \/ /\ Enable(p)
                /\ timedout' = [timedout EXCEPT ![p] = @ \ {s}]
                /\ batch' = [batch EXCEPT ![p] = {s}]
                /\ Goto(p, "accept")
                /\ UNCHANGED faults
             \/ /\ EnableFails(p) /\ Fault
                /\ timedout' = [timedout EXCEPT ![p] = @ \cup {s}]
                /\ UNCHANGED <<batch, pc>>
    /\ UNCHANGED <<config, word, held, disabled, cycle, own, backlog, clients,
                   closes>>

EndCycle(p) ==
    /\ pc[p] = "rest"
    /\ Goto(p, "loop")
    /\ UNCHANGED <<config, word, held, disabled, sockets, cycle, batch, timers, own, backlog,
                   bounds>>

-----------------------------------------------------------------------------
(* Death of a worker *)

\* The worker's memory is gone and the kernel closes its epoll; clients that
\* were not accepted wait on.
Crash(p) ==
    /\ Alive(p) /\ Fault
    /\ Goto(p, "dead")
    /\ held' = [held EXCEPT ![p] = FALSE]
    /\ disabled' = [disabled EXCEPT ![p] = 0]
    /\ listening' = [listening EXCEPT ![p] = {}]
    /\ infinite' = [infinite EXCEPT ![p] = FALSE]
    /\ posts' = [posts EXCEPT ![p] = FALSE]
    /\ batch' = [batch EXCEPT ![p] = {}]
    /\ retry' = [retry EXCEPT ![p] = {}]
    /\ timedout' = [timedout EXCEPT ![p] = {}]
    /\ own' = [own EXCEPT ![p] = 0]
    /\ halfway' = [halfway EXCEPT ![p] = FALSE]
    /\ UNCHANGED <<config, word, backlog, clients, closes>>

\* Mutant: the master does not unlock.
ReapOnly(p) ==
    /\ pc[p] = "dead"
    /\ Goto(p, "reaped")
    /\ UNCHANGED <<config, word, held, disabled, sockets, cycle, batch, timers, own, backlog,
                   bounds>>

\* ngx_unlock_mutexes() in the master.
Reap(p) ==
    /\ pc[p] = "dead"
    /\ word' = IF word = p THEN None ELSE word
    /\ Goto(p, "reaped")
    /\ UNCHANGED <<config, held, disabled, sockets, cycle, batch, timers, own, backlog,
                   bounds>>

\* A new worker: ngx_event_process_init() leaves the listening sockets out of
\* epoll if there is a mutex.
Respawn(p) ==
    /\ pc[p] = "reaped"
    /\ Goto(p, "loop")
    /\ listening' = [listening EXCEPT ![p] = IF useMutex THEN {} ELSE Sockets]
    /\ UNCHANGED <<config, word, held, disabled, halfway, cycle, batch, timers, own, backlog,
                   bounds>>

-----------------------------------------------------------------------------
WorkerStep(p) ==
    \/ SkipTrylock(p) \/ Trylock(p) \/ Undo(p) \/ TrylockFails(p) \/ Wait(p) \/ Accept(p)
    \/ Release(p) \/ Expire(p) \/ EndCycle(p)

MasterStep(p) == Reap(p) \/ Respawn(p)

Next ==
    \/ \E s \in Sockets : Client(s)
    \/ \E p \in Worker : WorkerStep(p) \/ Close(p) \/ Crash(p) \/ MasterStep(p)

Spec == Init /\ [][Next]_vars

\* The workers run and their timers go off; the master reaps and respawns.
FairSpec ==
    /\ Spec
    /\ \A p \in Worker :
          WF_vars(WorkerStep(p)) /\ SF_vars(Expire(p)) /\ WF_vars(MasterStep(p))

-----------------------------------------------------------------------------
(* Properties *)

TypeOK ==
    /\ useMutex \in BOOLEAN /\ multi \in BOOLEAN
    /\ word \in Worker \cup {None}
    /\ pc \in [Worker -> {"loop", "undo", "wait", "accept", "rest", "dead", "reaped"}]
    /\ held \in [Worker -> BOOLEAN] /\ disabled \in [Worker -> Int]
    /\ listening \in [Worker -> SUBSET Sockets]
    /\ infinite \in [Worker -> BOOLEAN] /\ posts \in [Worker -> BOOLEAN]
    /\ batch \in [Worker -> SUBSET Sockets]
    /\ retry \in [Worker -> SUBSET Sockets] /\ timedout \in [Worker -> SUBSET Sockets]
    /\ own \in [Worker -> 0 .. Room]
    /\ backlog \in [Sockets -> Nat]
    /\ halfway \in [Worker -> BOOLEAN]
    /\ clients \in Nat /\ closes \in Nat /\ faults \in Nat

\* ngx_accept_mutex_held outlives the mutex, and the sockets stay registered
\* over many cycles; still: the owner that sleeps listens on every socket, a
\* worker that holds back its accept events owns the mutex while it handles
\* them (unless it has just run out of descriptors, given it up and left every
\* socket), and one that does not hold the mutex does not listen.  Only between
\* a failing epoll_ctl() and the next time all sockets are registered or removed
\* may an owner listen on too few sockets, and another worker on some.
OwnerListens ==
    TypeOK /\ \A p \in Worker :
        /\ pc[p] = "wait" /\ word = p /\ ~halfway[p] => listening[p] = Sockets
        /\ pc[p] = "accept" /\ posts[p] /\ held[p] => word = p
        /\ pc[p] = "accept" /\ posts[p] /\ ~held[p] => listening[p] = {}
        /\ useMutex /\ ~held[p] /\ ~halfway[p] => listening[p] = {}

\* The word obeys the robust lock: what a killed worker owned is free before its
\* pid comes back.
Abstract == INSTANCE RobustLock WITH
    owner <- word,
    alive <- [p \in Worker |-> Alive(p)]
ImplementsRobustLock == Abstract!Spec

\* Nobody will listen on s before something else wakes him: a worker that met
\* ENFILE and has no connection of its own sleeps without a timer; without the
\* mutex a failing epoll_ctl() is not tried again; and with it, who has failed to
\* remove all sockets owns the mutex time and again without listening on s.
Deaf(s) ==
    \/ \A p \in Worker :
          /\ Alive(p) /\ s \notin listening[p] /\ retry[p] = {}
          /\ (pc[p] = "wait" /\ infinite[p] /\ own[p] = 0) \/ ~useMutex
    \/ \E p \in Worker :
          pc[p] = "wait" /\ word = p /\ halfway[p] /\ s \notin listening[p]

\* Every client is taken out of the backlog, also when the owner of the mutex
\* is killed, runs out of descriptors or has hardly a connection left; one that
\* waits for ever meets a Deaf state again and again.
Accepted == \A s \in Sockets : backlog[s] > 0 ~> (backlog[s] = 0 \/ Deaf(s))

=============================================================================
