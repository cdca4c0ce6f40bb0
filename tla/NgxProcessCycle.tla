--------------------------- MODULE NgxProcessCycle ---------------------------
(***************************************************************************)
(* The nginx master process (os/unix/ngx_process_cycle.c) with its signal  *)
(* handlers and process table (os/unix/ngx_process.c), and of the workers  *)
(* what the master sees of them.                                           *)
(*                                                                         *)
(* All signals are blocked except in sigsuspend(), so the handlers run     *)
(* only there and set flags; one action per branch of the loop looks at    *)
(* them.  A command that the channel cannot take (EAGAIN) is sent again    *)
(* with kill() and has the same effect, so both are one.  Descriptors,     *)
(* and the copies of the table that the workers keep, are left out.        *)
(*                                                                         *)
(* A slot is used (pid # -1) by one process at a time; a set of slots for  *)
(* each bit field of ngx_process_t.                                        *)
(***************************************************************************)
EXTENDS Integers, Sequences, FiniteSets

CONSTANTS
    Slots,      \* NGX_MAX_PROCESSES
    Workers,    \* ccf->worker_processes
    KillAfter,  \* the delay behind which SIGKILL is sent, in units of the first
    Signals,    \* the signals the administrator sends
    MaxSignals, \* bound on how many of them
    MaxFaults   \* bound on crashes, hangs and failing calls

Slot == 1 .. Slots
NoBinary == 0       \* ngx_new_binary = 0
BadBinary == -1     \* ngx_new_binary = NGX_INVALID_PID

\* What ngx_signal_handler() sets for each signal, in the master.
Raised == [TERM |-> "terminate", QUIT |-> "quit", HUP |-> "reconfigure",
           USR1 |-> "reopen", USR2 |-> "change_binary", WINCH |-> "noaccept",
           ALRM |-> "sigalrm", IO |-> "sigio", CHLD |-> "reap"]

ASSUME NgxProcessCycleAssumption ==
    /\ Slots \in Nat /\ Workers \in Nat \ {0} /\ Workers <= Slots
    /\ KillAfter \in Nat \ {0}
    /\ Signals \subseteq DOMAIN Raised \ {"ALRM", "IO", "CHLD"}
    /\ MaxSignals \in Nat /\ MaxFaults \in Nat

VARIABLES
    pc,         \* where the master is: the branch of its loop
    flag,       \* the flags ngx_terminate, ngx_quit, ngx_reap, ... that are set
    pending,    \* signals sent to the master and still blocked
    live, delay, sigio,     \* locals of ngx_master_process_cycle()
    armed,      \* the interval timer runs
    noaccepting, newBinary, \* ngx_noaccepting; the slot of ngx_new_binary
    used, exited, exiting, respawn, justSpawn, detached,    \* ngx_processes[]
    proc,       \* the process of each slot, as the kernel knows it
    inbox,      \* the commands each worker has not read yet
    hung,       \* workers that are stuck and read nothing any more
    gen,        \* history: the configuration each process was started with
    cycle,      \* history: the configuration of the master
    lost,       \* history: a spawn failed, or a worker ended with status 2
    signals, faults     \* bounds

table == <<used, exited, exiting, respawn, justSpawn, detached>>
kids == <<proc, inbox, hung, gen>>
loop == <<live, delay, sigio, armed>>
upgrade == <<noaccepting, newBinary>>
bounds == <<signals, faults>>
vars == <<pc, flag, pending, loop, upgrade, table, kids, cycle, lost, bounds>>

-----------------------------------------------------------------------------
Alive(s) == proc[s] \in {"run", "shut"}
Zombies == {s \in Slot : proc[s] \in {"zombie", "fatal"}}
Ending(f) == f \cap {"terminate", "quit"} # {}

\* The branches behind the shutdown, in their order in the loop.
Branches == <<"reconfigure", "restart", "reopen", "change_binary", "noaccept">>

\* The first of them from the k-th whose flag is set, or back to the top.
From(k, f) ==
    LET set == {n \in k .. Len(Branches) : Branches[n] \in f}
    IN  IF set = {} THEN "top" ELSE Branches[CHOOSE n \in set : \A m \in set : n <= m]

\* Mutant: the flags alone make the master exit.
DecideAtOnce(f, alive) ==
    IF Ending(f) THEN "exit" ELSE From(1, f)

\* The tests behind ngx_reap_children().
Decide(f, alive) ==
    IF ~Ending(f) THEN From(1, f)
    ELSE IF ~alive THEN "exit"
    ELSE IF "terminate" \in f THEN "terminate" ELSE "quit"

\* The n lowest free slots, which is what ngx_spawn_process() takes.
Free(n) == {s \in Slot \ used : Cardinality({r \in Slot \ used : r < s}) < n}

\* n processes started at the slots S, in the master's configuration c.
Run(S, c) ==
    /\ proc' = [s \in Slot |-> IF s \in S THEN "run" ELSE proc[s]]
    /\ inbox' = [s \in Slot |-> IF s \in S THEN {} ELSE inbox[s]]
    /\ gen' = [s \in Slot |-> IF s \in S THEN c ELSE gen[s]]
    /\ hung' = hung \ S

\* k of n calls of ngx_spawn_process() succeed; a full table is no fault.
Spawned(k, n) ==
    /\ k = Cardinality(Free(k))
    /\ faults' = faults + Cardinality(Free(n)) - k
    /\ faults' <= MaxFaults
    /\ lost' = (lost \/ k < n)

Init ==
    /\ pc = "top"
    /\ flag = {} /\ pending = {}
    /\ live = TRUE /\ delay = 0 /\ sigio = 0 /\ armed = FALSE
    /\ noaccepting = FALSE /\ newBinary = NoBinary
    /\ \E n \in 0 .. Workers :
          /\ Workers - n <= MaxFaults /\ faults = Workers - n
          /\ lost = (n < Workers)
          /\ used = 1 .. n /\ respawn = 1 .. n
          /\ proc = [s \in Slot |-> IF s <= n THEN "run" ELSE "none"]
    /\ exited = {} /\ exiting = {} /\ justSpawn = {} /\ detached = {}
    /\ inbox = [s \in Slot |-> {}]
    /\ hung = {}
    /\ gen = [s \in Slot |-> 0] /\ cycle = 0
    /\ signals = 0

-----------------------------------------------------------------------------
(* Signals *)

\* The administrator's kill(); a signal that is pending already is not queued.
\* One that comes while signals are blocked is one that comes at sigsuspend().
Kill(sig) ==
    /\ pc = "sigsuspend" /\ sig \notin pending /\ signals < MaxSignals
    /\ signals' = signals + 1
    /\ pending' = pending \cup {sig}
    /\ UNCHANGED <<pc, flag, loop, upgrade, table, kids, cycle, lost, faults>>

AlarmRings ==
    /\ pc # "gone" /\ armed
    /\ armed' = FALSE
    /\ pending' = pending \cup {"ALRM"}
    /\ UNCHANGED <<pc, flag, live, delay, sigio, upgrade, table, kids, cycle, lost, bounds>>

\* Mutant: the delay does not grow.
LoopTopConstantDelay ==
    /\ pc = "top"
    /\ IF delay > 0
       THEN /\ sigio' = IF "sigalrm" \in flag THEN 0 ELSE sigio
            /\ flag' = flag \ {"sigalrm"}
            /\ armed' = TRUE
       ELSE UNCHANGED <<sigio, flag, armed>>
    /\ pc' = "sigsuspend"
    /\ UNCHANGED <<pending, live, delay, upgrade, table, kids, cycle, lost, bounds>>

\* The head of the loop: the delay of a termination, and its timer.
LoopTop ==
    /\ pc = "top"
    /\ IF delay > 0
       THEN /\ sigio' = IF "sigalrm" \in flag THEN 0 ELSE sigio
            /\ delay' = IF "sigalrm" \in flag /\ delay <= KillAfter THEN 2 * delay ELSE delay
            /\ flag' = flag \ {"sigalrm"}
            /\ armed' = TRUE
       ELSE UNCHANGED <<sigio, delay, flag, armed>>
    /\ pc' = "sigsuspend"
    /\ UNCHANGED <<pending, live, upgrade, table, kids, cycle, lost, bounds>>

\* Mutant: one waitpid() for one SIGCHLD.
GetStatusOnce ==
    IF Zombies = {} THEN UNCHANGED <<exited, proc, respawn>>
    ELSE \E z \in Zombies :
        /\ exited' = exited \cup {z}
        /\ respawn' = IF proc[z] = "fatal" THEN respawn \ {z} ELSE respawn
        /\ proc' = [proc EXCEPT ![z] = "none"]

\* ngx_process_get_status(): waitpid() for every child that ended.
GetStatus ==
    /\ exited' = exited \cup Zombies
    /\ respawn' = {s \in respawn : proc[s] # "fatal"}
    /\ proc' = [s \in Slot |-> IF s \in Zombies THEN "none" ELSE proc[s]]

\* sigsuspend() returns: the handlers of the pending signals have run.
Sigsuspend ==
    /\ pc = "sigsuspend" /\ pending # {}
    /\ LET heeded == IF newBinary \in Slot THEN pending \ {"USR2"} ELSE pending
           f == (flag \cup {Raised[sig] : sig \in heeded}) \ {"sigio"}
       IN  /\ flag' = f
           /\ pc' = IF "reap" \in f THEN "reap" ELSE Decide(f, live)
    /\ IF "CHLD" \in pending THEN GetStatus ELSE UNCHANGED <<exited, respawn, proc>>
    /\ pending' = {}
    /\ UNCHANGED <<loop, upgrade, used, exiting, justSpawn, detached, inbox, hung, gen,
                   cycle, lost, bounds>>

-----------------------------------------------------------------------------
(* ngx_reap_children() and the end *)

\* Mutant: ngx_quit is not looked at.
ToRespawnInQuit == IF "terminate" \in flag THEN {} ELSE (exited \cap respawn) \ exiting

ToRespawn == IF Ending(flag) THEN {} ELSE (exited \cap respawn) \ exiting

\* A slot whose respawn fails keeps exited = 1 and the pid of the dead.
Reap ==
    /\ pc = "reap"
    /\ \E ok \in SUBSET ToRespawn :
          LET freed == exited \ ToRespawn
              lives == ok # {} \/ \E s \in used \ exited : s \in exiting \/ s \notin detached
              binaryGone == newBinary \in freed
              f == (flag \ {"reap"})
                       \cup (IF binaryGone /\ noaccepting THEN {"restart"} ELSE {})
          IN  /\ faults + Cardinality(ToRespawn \ ok) <= MaxFaults
              /\ faults' = faults + Cardinality(ToRespawn \ ok)
              /\ lost' = (lost \/ ok # ToRespawn)
              /\ Run(ok, cycle)
              /\ used' = used \ freed
              /\ exited' = ToRespawn \ ok
              /\ live' = lives
              /\ flag' = f
              /\ newBinary' = IF binaryGone THEN NoBinary ELSE newBinary
              /\ noaccepting' = (noaccepting /\ ~binaryGone)
              /\ pc' = Decide(f, lives)
    /\ UNCHANGED <<pending, delay, sigio, armed, exiting, respawn, justSpawn, detached,
                   cycle, signals>>

\* ngx_master_process_exit()
Exit ==
    /\ pc = "exit"
    /\ pc' = "gone"
    /\ UNCHANGED <<flag, pending, loop, upgrade, table, kids, cycle, lost, bounds>>

-----------------------------------------------------------------------------
(* ngx_signal_worker_processes() *)

Command == [TERM |-> "terminate", QUIT |-> "quit", USR1 |-> "reopen", KILL |-> "kill"]

\* Mutant: a process that was just started is told as well.
ToldAll(sig) ==
    {s \in used \ detached : ~(sig = "QUIT" /\ s \in exiting)}

\* Mutant: the loop ends at the first process that was just started.
ToldUntilFresh(sig) ==
    {s \in used \ detached : /\ ~(sig = "QUIT" /\ s \in exiting)
                             /\ \A r \in justSpawn : s < r}

Told(sig) ==
    {s \in used \ (detached \cup justSpawn) : ~(sig = "QUIT" /\ s \in exiting)}

\* The slot of a process that is gone (its respawn failed) answers ESRCH.
SignalWorkers(sig, f) ==
    LET esrch == {s \in Told(sig) : proc[s] = "none"}
        told == Told(sig) \ esrch
        hit == {s \in told : Alive(s)}
    IN  /\ exiting' = (IF sig = "USR1" THEN exiting ELSE exiting \cup told) \ esrch
        /\ exited' = exited \cup esrch
        /\ justSpawn' = {}
        /\ flag' = IF esrch = {} THEN f ELSE f \cup {"reap"}
        /\ IF sig = "KILL"
           THEN /\ proc' = [s \in Slot |-> IF s \in hit THEN "zombie" ELSE proc[s]]
                /\ pending' = IF hit = {} THEN pending ELSE pending \cup {"CHLD"}
                /\ UNCHANGED inbox
           ELSE /\ inbox' = [s \in Slot |->
                        IF s \in hit THEN inbox[s] \cup {Command[sig]} ELSE inbox[s]]
                /\ UNCHANGED <<proc, pending>>
        /\ UNCHANGED <<used, respawn, detached, hung, gen>>

-----------------------------------------------------------------------------
(* The branches of ngx_master_process_cycle() *)

\* TERM, and KILL once the delay has grown; not again for each SIGIO.
Terminate ==
    /\ pc = "terminate"
    /\ delay' = IF delay = 0 THEN 1 ELSE delay
    /\ IF sigio > 0
       THEN /\ sigio' = sigio - 1
            /\ UNCHANGED <<flag, pending, table, kids>>
       ELSE /\ sigio' = Workers + 2
            /\ SignalWorkers(IF delay' > KillAfter THEN "KILL" ELSE "TERM", flag)
    /\ pc' = "top"
    /\ UNCHANGED <<live, armed, upgrade, cycle, lost, bounds>>

Quit ==
    /\ pc = "quit"
    /\ SignalWorkers("QUIT", flag)
    /\ pc' = "top"
    /\ UNCHANGED <<loop, upgrade, cycle, lost, bounds>>

\* ngx_start_worker_processes() in configuration c; `just' is
\* NGX_PROCESS_JUST_RESPAWN.
StartWorkers(c, just) ==
    \E k \in 0 .. Workers :
        LET S == Free(k)
        IN  /\ Spawned(k, Workers)
            /\ Run(S, c)
            /\ used' = used \cup S
            /\ exiting' = exiting \ S
            /\ respawn' = respawn \cup S
            /\ justSpawn' = IF just THEN justSpawn \cup S ELSE justSpawn \ S
            /\ detached' = detached \ S
            /\ UNCHANGED exited

\* While a new binary runs: new workers with the old configuration.
ReconfigureBack ==
    /\ pc = "reconfigure" /\ newBinary # NoBinary
    /\ StartWorkers(cycle, FALSE)
    /\ flag' = flag \ {"reconfigure"}
    /\ noaccepting' = FALSE
    /\ pc' = "top"
    /\ UNCHANGED <<pending, loop, newBinary, cycle, signals>>

\* ngx_init_cycle() fails: the flags behind this one wait for the next signal.
ReconfigureFails ==
    /\ pc = "reconfigure" /\ newBinary = NoBinary
    /\ faults < MaxFaults /\ faults' = faults + 1
    /\ flag' = flag \ {"reconfigure"}
    /\ pc' = "top"
    /\ UNCHANGED <<pending, loop, upgrade, table, kids, cycle, lost, signals>>

Reconfigure ==
    /\ pc = "reconfigure" /\ newBinary = NoBinary
    /\ cycle' = cycle + 1
    /\ StartWorkers(cycle + 1, TRUE)
    /\ live' = TRUE
    /\ flag' = flag \ {"reconfigure"}
    /\ pc' = "shutdown_old"
    /\ UNCHANGED <<pending, delay, sigio, armed, upgrade, signals>>

\* Behind ngx_msleep(100): the workers of before, not those just started.
ShutdownOld ==
    /\ pc = "shutdown_old"
    /\ SignalWorkers("QUIT", flag)
    /\ pc' = From(2, flag)
    /\ UNCHANGED <<loop, upgrade, cycle, lost, bounds>>

Restart ==
    /\ pc = "restart"
    /\ StartWorkers(cycle, FALSE)
    /\ live' = TRUE
    /\ flag' = flag \ {"restart"}
    /\ pc' = From(3, flag)
    /\ UNCHANGED <<pending, delay, sigio, armed, upgrade, cycle, signals>>

Reopen ==
    /\ pc = "reopen"
    /\ SignalWorkers("USR1", flag \ {"reopen"})
    /\ pc' = From(4, flag)
    /\ UNCHANGED <<loop, upgrade, cycle, lost, bounds>>

\* ngx_exec_new_binary(): a detached process, or NGX_INVALID_PID.
ChangeBinary ==
    /\ pc = "change_binary"
    /\ flag' = flag \ {"change_binary"}
    /\ pc' = From(5, flag)
    /\ \/ \E s \in Free(1) :
             /\ Run({s}, cycle)
             /\ newBinary' = s
             /\ used' = used \cup {s} /\ detached' = detached \cup {s}
             /\ exiting' = exiting \ {s} /\ respawn' = respawn \ {s}
             /\ UNCHANGED <<exited, justSpawn, faults>>
       \/ /\ Free(1) = {} \/ faults < MaxFaults
          /\ faults' = IF Free(1) = {} THEN faults ELSE faults + 1
          /\ newBinary' = BadBinary
          /\ UNCHANGED <<table, kids>>
    /\ UNCHANGED <<pending, loop, noaccepting, cycle, lost, signals>>

Noaccept ==
    /\ pc = "noaccept"
    /\ noaccepting' = TRUE
    /\ SignalWorkers("QUIT", flag \ {"noaccept"})
    /\ pc' = "top"
    /\ UNCHANGED <<loop, newBinary, cycle, lost, bounds>>

-----------------------------------------------------------------------------
(* The children *)

ChildRest == UNCHANGED <<pc, flag, loop, upgrade, table, gen, cycle, lost, signals>>

Ends(s, how) == proc' = [proc EXCEPT ![s] = how]

\* ngx_channel_handler() and the tests of ngx_worker_process_cycle().  Reading
\* the channel raises SIGIO in the master.
WorkerReads(s) ==
    /\ pc # "gone" /\ Alive(s) /\ s \notin hung /\ inbox[s] # {}
    /\ inbox' = [inbox EXCEPT ![s] = {}]
    /\ IF "terminate" \in inbox[s]
       THEN Ends(s, "zombie") /\ pending' = pending \cup {"IO", "CHLD"}
       ELSE /\ Ends(s, IF "quit" \in inbox[s] THEN "shut" ELSE proc[s])
            /\ pending' = pending \cup {"IO"}
    /\ UNCHANGED <<hung, faults>> /\ ChildRest

\* ngx_exiting, and no timer is left.
WorkerDone(s) ==
    /\ pc # "gone" /\ proc[s] = "shut" /\ s \notin hung
    /\ Ends(s, "zombie")
    /\ pending' = pending \cup {"CHLD"}
    /\ UNCHANGED <<inbox, hung, faults>> /\ ChildRest

\* A child is killed, or a worker exits with the fatal status 2, or the new
\* binary ends.
Dies(s) ==
    /\ pc # "gone" /\ Alive(s) /\ faults < MaxFaults
    /\ faults' = faults + 1
    /\ \/ Ends(s, "zombie") /\ UNCHANGED lost
       \/ s \notin detached /\ Ends(s, "fatal") /\ lost' = TRUE
    /\ pending' = pending \cup {"CHLD"}
    /\ UNCHANGED <<pc, flag, loop, upgrade, table, inbox, hung, gen, cycle, signals>>

Hangs(s) ==
    /\ pc # "gone" /\ Alive(s) /\ s \notin hung \cup detached /\ faults < MaxFaults
    /\ faults' = faults + 1
    /\ hung' = hung \cup {s}
    /\ UNCHANGED <<proc, inbox, pending>> /\ ChildRest

-----------------------------------------------------------------------------
MasterStep ==
    \/ LoopTop \/ Sigsuspend \/ Reap \/ Exit \/ Terminate \/ Quit
    \/ ReconfigureBack \/ ReconfigureFails \/ Reconfigure \/ ShutdownOld
    \/ Restart \/ Reopen \/ ChangeBinary \/ Noaccept

WorkerStep(s) == WorkerReads(s) \/ WorkerDone(s)

Next ==
    \/ MasterStep
    \/ \E sig \in Signals : Kill(sig)
    \/ AlarmRings
    \/ \E s \in Slot : WorkerStep(s) \/ Dies(s) \/ Hangs(s)

Spec == Init /\ [][Next]_vars

\* The master runs, its timer goes off, and every worker that does not hang
\* reads its channel and finishes its connections.
FairSpec ==
    /\ Spec /\ WF_vars(MasterStep) /\ WF_vars(AlarmRings)
    /\ \A s \in Slot : WF_vars(WorkerStep(s))

-----------------------------------------------------------------------------
(* Properties *)

TypeOK ==
    /\ pc \in {"top", "sigsuspend", "reap", "exit", "gone", "terminate", "quit",
               "shutdown_old"} \cup {Branches[n] : n \in 1 .. Len(Branches)}
    /\ flag \subseteq {Raised[sig] : sig \in DOMAIN Raised} \cup {"restart"}
    /\ pending \subseteq DOMAIN Raised
    /\ {live, armed, noaccepting, lost} \subseteq BOOLEAN
    /\ delay \in Nat /\ sigio \in 0 .. Workers + 2
    /\ newBinary \in Slot \cup {NoBinary, BadBinary}
    /\ \A bits \in {used, exited, exiting, respawn, justSpawn, detached, hung} :
          bits \subseteq Slot
    /\ proc \in [Slot -> {"none", "run", "shut", "zombie", "fatal"}]
    /\ inbox \in [Slot -> SUBSET {"terminate", "quit", "reopen"}]
    /\ gen \in [Slot -> Nat] /\ cycle \in Nat

\* The workers that are not told to stop, those included that died and whose
\* death the master has still to see.
Active == used \ (exiting \cup detached)

\* Whatever order signals, deaths and reloads come in, when the master sleeps
\* it has as many workers as configured, unless it is shutting down, was told to
\* stop accepting, or a worker could not be started; the restart behind a new
\* binary may still wait for the next signal.
Served ==
    pc = "sigsuspend" /\ ~lost /\ ~noaccepting /\ ~Ending(flag) /\ "restart" \notin flag
        => Cardinality(Active) >= Workers

\* A reload leaves no worker of an older configuration in service, also when
\* workers die or cannot be started in the middle of it.
SameConfig ==
    /\ TypeOK
    /\ pc = "sigsuspend" => \A s \in Active : Alive(s) => gen[s] = cycle

\* ngx_reap_children(): a process that was told to stop is not started again
\* when it dies, and none is started once the master shuts down.
NotBroughtBack ==
    [][\A s \in Slot : ~Alive(s) /\ Alive(s)' =>
            ~Ending(flag) /\ ~(s \in used /\ s \in exiting)]_vars

Orphans == {s \in Slot \ detached : Alive(s)}

\* ngx_process_cycle.c:197: the master exits when it was told to and no child
\* process lives.
NoOrphans == pc = "gone" => Orphans = {}

\* The same for a master that has not started, or has outlived, a new binary.
LeavesNoWorker == pc = "gone" /\ newBinary = NoBinary => Orphans = {}

\* live = 1 was set for workers of which none could be started: no SIGCHLD will
\* ever clear it.
Childless ==
    live /\ (\A s \in Slot \ detached : proc[s] = "none") /\ "CHLD" \notin pending

\* A termination ends even if workers hang: the delay grows and they are
\* killed.  A graceful shutdown ends when the workers do.
ShutdownEnds ==
    /\ "terminate" \in flag ~> pc = "gone" \/ Childless
    /\ "quit" \in flag ~> pc = "gone" \/ Childless \/ hung # {}

\* A worker that dies unasked is replaced.
Replaced ==
    \A s \in Slot : (proc[s] = "zombie" /\ s \in respawn \ exiting)
        ~> (Alive(s) \/ s \in exiting \/ lost \/ Ending(flag))
=============================================================================
