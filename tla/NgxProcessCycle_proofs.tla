----------------------- MODULE NgxProcessCycle_proofs ------------------------
(***************************************************************************)
(* Proofs about NgxProcessCycle, for any size of the process table, any    *)
(* number of workers, of signals and of faults.                            *)
(***************************************************************************)
EXTENDS NgxProcessCycle, FiniteSetTheorems, TLAPS

ProcStates == {"none", "run", "shut", "zombie", "fatal"}

\* The kernel knows at most one process for each slot.
ProcInv == proc \in [Slot -> ProcStates]

\* The branches that may start processes.
Starting == {"reconfigure", "restart", "reopen", "change_binary", "noaccept", "shutdown_old"}

\* They are reached only when neither ngx_terminate nor ngx_quit is set: both
\* branches in front of them `continue'.
BranchInv == pc \in Starting => ~Ending(flag)

IInv == ProcInv /\ BranchInv

-----------------------------------------------------------------------------
LEMMA InitIInv == Init => IInv
  BY DEF Init, IInv, ProcInv, ProcStates, BranchInv, Starting

\* When the master is to end, none of the branches that start processes follows.
LEMMA DecideEnds ==
    ASSUME NEW f, NEW alive, Ending(f)
    PROVE  Decide(f, alive) \notin Starting
  BY DEF Decide, Starting

\* ngx_signal_worker_processes() starts nothing and does not touch the flags
\* of the administrator.
LEMMA SignalWorkersQuiet ==
    ASSUME NEW sig, NEW f, ProcInv, SignalWorkers(sig, f)
    PROVE  /\ ProcInv'
           /\ Ending(flag') => Ending(f)
           /\ \A s \in Slot : Alive(s)' => Alive(s)
<1>1. Ending(flag') => Ending(f)
    BY DEF SignalWorkers, Ending
<1>2. CASE sig = "KILL"
    BY <1>1, <1>2 DEF SignalWorkers, ProcInv, ProcStates, Alive
<1>3. CASE sig # "KILL"
    BY <1>1, <1>3 DEF SignalWorkers, ProcInv, Alive
<1> QED
    BY <1>2, <1>3

\* What Run(S, c) starts, and only that, is alive afterwards besides what was.
LEMMA RunStarts ==
    ASSUME NEW S, NEW c, ProcInv, Run(S, c)
    PROVE  /\ ProcInv'
           /\ \A s \in Slot : Alive(s)' => Alive(s) \/ s \in S
  BY DEF Run, ProcInv, ProcStates, Alive

\* New workers take free slots only.
LEMMA StartWorkersFree ==
    ASSUME NEW c, NEW just, ProcInv, StartWorkers(c, just)
    PROVE  /\ ProcInv'
           /\ \A s \in Slot : Alive(s)' => Alive(s) \/ s \notin used
<1>1. PICK k \in 0 .. Workers : Run(Free(k), c)
    BY DEF StartWorkers
<1>2. Free(k) \cap used = {}
    BY DEF Free
<1> QED
    BY <1>1, <1>2, RunStarts

\* What a step may bring to life.
Lawful == \A s \in Slot : ~Alive(s) /\ Alive(s)' =>
              ~Ending(flag) /\ ~(s \in used /\ s \in exiting)

LEMMA StepLawful == IInv /\ [Next]_vars => IInv' /\ Lawful
<1> SUFFICES ASSUME IInv, [Next]_vars PROVE IInv' /\ Lawful
    OBVIOUS
<1> USE DEF IInv
<1>1. ASSUME NEW sig \in Signals, Kill(sig) PROVE IInv' /\ Lawful
    BY <1>1 DEF Kill, kids, ProcInv, BranchInv, Lawful, Alive
<1>2. CASE AlarmRings
    BY <1>2 DEF AlarmRings, kids, ProcInv, BranchInv, Lawful, Alive
<1>3. CASE LoopTop
    BY <1>3 DEF LoopTop, kids, ProcInv, BranchInv, Starting, Lawful, Alive
<1>4. CASE Sigsuspend
  <2>1. ProcInv' /\ \A s \in Slot : Alive(s)' => Alive(s)
    BY <1>4 DEF Sigsuspend, GetStatus, ProcInv, ProcStates, Alive
  <2>2. pc' = "reap" \/ pc' = Decide(flag', live)
    BY <1>4 DEF Sigsuspend
  <2>3. BranchInv'
    BY <2>2, DecideEnds DEF BranchInv, Starting
  <2> QED
    BY <2>1, <2>3 DEF Lawful
<1>5. CASE Reap
  <2>1. PICK ok \in SUBSET ToRespawn : Run(ok, cycle) /\ pc' = Decide(flag', live')
    BY <1>5 DEF Reap
  <2>2. ProcInv' /\ \A s \in Slot : Alive(s)' => Alive(s) \/ s \in ToRespawn
    BY <2>1, RunStarts
  <2>3. \A s \in ToRespawn : ~Ending(flag) /\ s \notin exiting
    BY DEF ToRespawn
  <2>4. BranchInv'
    BY <2>1, DecideEnds DEF BranchInv
  <2> QED
    BY <2>2, <2>3, <2>4 DEF Lawful
<1>6. CASE Exit
    BY <1>6 DEF Exit, kids, ProcInv, BranchInv, Starting, Lawful, Alive
<1>7. CASE Terminate
  <2>1. pc' = "top"
    BY <1>7 DEF Terminate
  <2>2. CASE UNCHANGED kids
    BY <2>1, <2>2 DEF kids, ProcInv, BranchInv, Starting, Lawful, Alive
  <2>3. CASE \E sig : SignalWorkers(sig, flag)
    BY <2>1, <2>3, SignalWorkersQuiet DEF BranchInv, Starting, Lawful
  <2> QED
    BY <1>7, <2>2, <2>3 DEF Terminate
<1>8. CASE Quit
  <2>1. pc' = "top" /\ SignalWorkers("QUIT", flag)
    BY <1>8 DEF Quit
  <2> QED
    BY <2>1, SignalWorkersQuiet DEF BranchInv, Starting, Lawful
<1>9. CASE ReconfigureBack
  <2>1. pc = "reconfigure" /\ pc' = "top" /\ StartWorkers(cycle, FALSE)
    BY <1>9 DEF ReconfigureBack
  <2> QED
    BY <2>1, StartWorkersFree DEF BranchInv, Starting, Lawful
<1>10. CASE ReconfigureFails
    BY <1>10 DEF ReconfigureFails, kids, ProcInv, BranchInv, Starting, Lawful, Alive
<1>11. CASE Reconfigure
  <2>1. pc = "reconfigure" /\ StartWorkers(cycle + 1, TRUE)
    BY <1>11 DEF Reconfigure
  <2>2. ~Ending(flag) /\ ~Ending(flag')
    BY <1>11, <2>1 DEF Reconfigure, BranchInv, Starting, Ending
  <2> QED
    BY <2>1, <2>2, StartWorkersFree DEF BranchInv, Lawful
<1>12. CASE ShutdownOld
  <2>1. SignalWorkers("QUIT", flag) /\ ~Ending(flag)
    BY <1>12 DEF ShutdownOld, BranchInv, Starting
  <2> QED
    BY <2>1, SignalWorkersQuiet DEF BranchInv, Lawful
<1>13. CASE Restart
  <2>1. pc = "restart" /\ StartWorkers(cycle, FALSE)
    BY <1>13 DEF Restart
  <2>2. ~Ending(flag) /\ ~Ending(flag')
    BY <1>13, <2>1 DEF Restart, BranchInv, Starting, Ending
  <2> QED
    BY <2>1, <2>2, StartWorkersFree DEF BranchInv, Lawful
<1>14. CASE Reopen
  <2>1. SignalWorkers("USR1", flag \ {"reopen"}) /\ ~Ending(flag \ {"reopen"})
    BY <1>14 DEF Reopen, BranchInv, Starting, Ending
  <2> QED
    BY <2>1, SignalWorkersQuiet DEF BranchInv, Lawful
<1>15. CASE ChangeBinary
  <2>1. ~Ending(flag) /\ ~Ending(flag')
    BY <1>15 DEF ChangeBinary, BranchInv, Starting, Ending
  <2>2. CASE UNCHANGED kids
    BY <2>1, <2>2 DEF kids, ProcInv, BranchInv, Lawful, Alive
  <2>3. CASE \E s \in Free(1) : Run({s}, cycle)
    <3>1. PICK s \in Free(1) : Run({s}, cycle)
      BY <2>3
    <3>2. s \notin used
      BY DEF Free
    <3> QED
      BY <2>1, <3>1, <3>2, RunStarts DEF BranchInv, Lawful
  <2> QED
    BY <1>15, <2>2, <2>3 DEF ChangeBinary
<1>16. CASE Noaccept
  <2>1. pc' = "top" /\ SignalWorkers("QUIT", flag \ {"noaccept"})
    BY <1>16 DEF Noaccept
  <2> QED
    BY <2>1, SignalWorkersQuiet DEF BranchInv, Starting, Lawful
<1>17. ASSUME NEW s \in Slot, WorkerReads(s) \/ WorkerDone(s) \/ Dies(s) \/ Hangs(s)
       PROVE  IInv' /\ Lawful
  <2>1. ProcInv' /\ \A r \in Slot : Alive(r)' => Alive(r)
    BY <1>17 DEF WorkerReads, WorkerDone, Dies, Hangs, Ends, ProcInv, ProcStates, Alive
  <2>2. UNCHANGED <<pc, flag>>
    BY <1>17 DEF WorkerReads, WorkerDone, Dies, Hangs, ChildRest
  <2> QED
    BY <2>1, <2>2 DEF BranchInv, Lawful
<1>18. CASE UNCHANGED vars
    BY <1>18 DEF vars, kids, ProcInv, BranchInv, Lawful, Alive
<1> QED
    BY <1>1, <1>2, <1>3, <1>4, <1>5, <1>6, <1>7, <1>8, <1>9, <1>10, <1>11, <1>12,
       <1>13, <1>14, <1>15, <1>16, <1>17, <1>18 DEF Next, MasterStep, WorkerStep

\* ngx_reap_children(), ngx_start_worker_processes() and the order of the
\* branches: nothing that was told to stop comes back, and nothing starts behind
\* a termination or a shutdown, for any number of workers, signals and faults.
THEOREM NotBroughtBackCorrect == Spec => NotBroughtBack
<1>1. IInv /\ [Next]_vars =>
        [\A s \in Slot : ~Alive(s) /\ Alive(s)' =>
            ~Ending(flag) /\ ~(s \in used /\ s \in exiting)]_vars
    BY StepLawful DEF Lawful
<1>2. IInv /\ [Next]_vars => IInv'
    BY StepLawful
<1> QED
    BY <1>1, <1>2, InitIInv, PTL DEF Spec, NotBroughtBack

-----------------------------------------------------------------------------
(* Types *)

USE NgxProcessCycleAssumption

Flags == {Raised[sig] : sig \in DOMAIN Raised} \cup {"restart"}
BranchLabels == {"reconfigure", "restart", "reopen", "change_binary", "noaccept"}
Labels == {"top", "sigsuspend", "reap", "exit", "gone", "terminate", "quit", "shutdown_old"}
              \cup BranchLabels

ControlOK ==
    /\ pc \in Labels /\ flag \subseteq Flags /\ pending \subseteq DOMAIN Raised
    /\ live \in BOOLEAN /\ armed \in BOOLEAN /\ noaccepting \in BOOLEAN /\ lost \in BOOLEAN
    /\ delay \in Nat /\ sigio \in 0 .. Workers + 2
    /\ newBinary \in Slot \cup {NoBinary, BadBinary}

TableOK ==
    /\ used \subseteq Slot /\ exited \subseteq Slot /\ exiting \subseteq Slot
    /\ respawn \subseteq Slot /\ justSpawn \subseteq Slot /\ detached \subseteq Slot

KidsOK ==
    /\ proc \in [Slot -> ProcStates]
    /\ inbox \in [Slot -> SUBSET {"terminate", "quit", "reopen"}]
    /\ hung \subseteq Slot /\ gen \in [Slot -> Nat] /\ cycle \in Nat

Types == ControlOK /\ TableOK /\ KidsOK

LEMMA RaisedSignals ==
  /\ DOMAIN Raised = {"TERM", "QUIT", "HUP", "USR1", "USR2", "WINCH", "ALRM", "IO", "CHLD"}
  /\ Flags = {"terminate", "quit", "reconfigure", "reopen", "change_binary", "noaccept",
              "sigalrm", "sigio", "reap", "restart"}
  BY DEF Flags, Raised

LEMMA BranchesRange ==
  /\ Len(Branches) = 5 /\ \A n \in 1 .. 5 : Branches[n] \in BranchLabels
  /\ {Branches[n] : n \in 1 .. Len(Branches)} = BranchLabels
<1>1. Len(Branches) = 5
  BY DEF Branches
<1>2. /\ Branches[1] = "reconfigure" /\ Branches[2] = "restart" /\ Branches[3] = "reopen"
      /\ Branches[4] = "change_binary" /\ Branches[5] = "noaccept"
  BY DEF Branches
<1>3. 1 .. 5 = {1, 2, 3, 4, 5}
  OBVIOUS
<1> QED BY <1>1, <1>2, <1>3 DEF BranchLabels

LEMMA FromLabel ==
  ASSUME NEW k \in 1 .. 5, NEW f
  PROVE  From(k, f) \in BranchLabels \cup {"top"}
<1> DEFINE set == {n \in k .. Len(Branches) : Branches[n] \in f}
<1>1. CASE set = {}
  BY <1>1 DEF From
<1>2. CASE set # {}
  <2>1. set \subseteq 1 .. 5
    BY BranchesRange
  <2>2. \E n \in set : \A m \in set : n <= m
    <3>1. CASE 1 \in set
      BY <2>1, <3>1
    <3>2. CASE 1 \notin set /\ 2 \in set
      BY <2>1, <3>2
    <3>3. CASE {1, 2} \cap set = {} /\ 3 \in set
      BY <2>1, <3>3
    <3>4. CASE {1, 2, 3} \cap set = {} /\ 4 \in set
      BY <2>1, <3>4
    <3>5. CASE {1, 2, 3, 4} \cap set = {} /\ 5 \in set
      BY <2>1, <3>5
    <3>6. 1 .. 5 = {1, 2, 3, 4, 5}
      OBVIOUS
    <3> HIDE DEF set
    <3> QED BY <1>2, <2>1, <3>1, <3>2, <3>3, <3>4, <3>5, <3>6
  <2>3. (CHOOSE n \in set : \A m \in set : n <= m) \in set
    BY <2>2
  <2> QED BY <1>2, <2>1, <2>3, BranchesRange DEF From
<1> QED BY <1>1, <1>2

LEMMA DecideLabel ==
  ASSUME NEW f, NEW alive
  PROVE  Decide(f, alive) \in BranchLabels \cup {"top", "exit", "terminate", "quit"}
  BY FromLabel DEF Decide

LEMMA TypesTypeOK == Types => TypeOK
<1> SUFFICES ASSUME Types PROVE TypeOK
  OBVIOUS
<1>1. pc \in {"top", "sigsuspend", "reap", "exit", "gone", "terminate", "quit",
               "shutdown_old"} \cup {Branches[n] : n \in 1 .. Len(Branches)}
  BY BranchesRange DEF Types, ControlOK, Labels
<1>2. {live, armed, noaccepting, lost} \subseteq BOOLEAN
  BY DEF Types, ControlOK
<1>3. \A bits \in {used, exited, exiting, respawn, justSpawn, detached, hung} :
          bits \subseteq Slot
  BY DEF Types, TableOK, KidsOK
<1> QED BY <1>1, <1>2, <1>3 DEF Types, ControlOK, KidsOK, ProcStates, TypeOK, Flags

-----------------------------------------------------------------------------
(* The configuration of the workers *)

\* A worker in service is of the master's configuration, except between the two
\* halves of a reload, where those of before are the ones not marked as just
\* started; nobody keeps that mark for longer.
Current ==
    /\ \A s \in Active : Alive(s) =>
          gen[s] = cycle \/ (pc = "shutdown_old" /\ s \notin justSpawn)
    /\ pc # "shutdown_old" => justSpawn = {}

\* What a signal to the workers leaves in service was in service.
LEMMA SignalWorkersStep ==
  ASSUME Types, NEW sig \in {"TERM", "QUIT", "USR1", "KILL"}, NEW f \in SUBSET Flags,
         SignalWorkers(sig, f), cycle' = cycle
  PROVE  /\ TableOK' /\ KidsOK' /\ flag' \subseteq Flags /\ pending' \subseteq DOMAIN Raised
         /\ justSpawn' = {} /\ gen' = gen
         /\ \A s \in Active' : Alive(s)' => s \in Active /\ Alive(s)
         /\ sig = "QUIT" => \A s \in Active' : Alive(s)' => s \in justSpawn
<1> DEFINE esrch == {s \in Told(sig) : proc[s] = "none"}
           told == Told(sig) \ esrch
           hit == {s \in told : Alive(s)}
<1>1. /\ exiting' = (IF sig = "USR1" THEN exiting ELSE exiting \cup told) \ esrch
      /\ exited' = exited \cup esrch /\ justSpawn' = {}
      /\ flag' = (IF esrch = {} THEN f ELSE f \cup {"reap"})
      /\ UNCHANGED <<used, respawn, detached, hung, gen>>
  BY DEF SignalWorkers
<1>2. \/ /\ proc' = [s \in Slot |-> IF s \in hit THEN "zombie" ELSE proc[s]]
         /\ pending' = (IF hit = {} THEN pending ELSE pending \cup {"CHLD"})
         /\ UNCHANGED inbox
      \/ /\ inbox' = [s \in Slot |->
                        IF s \in hit THEN inbox[s] \cup {Command[sig]} ELSE inbox[s]]
         /\ sig # "KILL" /\ UNCHANGED <<proc, pending>>
  BY DEF SignalWorkers
<1>3. Told(sig) \subseteq used /\ used \subseteq Slot
  BY DEF Told, Types, TableOK
<1>4. TableOK'
  BY <1>1, <1>3 DEF Types, TableOK
<1>5. KidsOK'
  <2>1. sig # "KILL" => Command[sig] \in {"terminate", "quit", "reopen"}
    BY DEF Command
  <2>2. proc' \in [Slot -> ProcStates]
    BY <1>2 DEF Types, KidsOK, ProcStates
  <2> HIDE DEF hit
  <2>3. inbox' \in [Slot -> SUBSET {"terminate", "quit", "reopen"}]
    BY <1>2, <2>1 DEF Types, KidsOK
  <2> QED BY <1>1, <2>2, <2>3 DEF Types, KidsOK
<1>6. flag' \subseteq Flags /\ pending' \subseteq DOMAIN Raised
  BY <1>1, <1>2, RaisedSignals DEF Types, ControlOK
<1>7. ASSUME NEW s \in Active', Alive(s)'
      PROVE  s \in Active /\ Alive(s) /\ (sig = "QUIT" => s \in justSpawn)
  <2>1. s \in used /\ s \notin detached /\ s \notin exiting' /\ s \in Slot
    BY <1>1, <1>3, <1>7 DEF Active
  <2>2. Alive(s) /\ proc[s] # "none"
    BY <1>2, <1>7, <2>1 DEF Alive, Types, KidsOK
  <2>3. s \notin esrch /\ s \notin exiting
    BY <1>1, <2>1, <2>2
  <2>4. ASSUME sig = "QUIT" PROVE s \in justSpawn
    BY <1>1, <2>1, <2>3, <2>4 DEF Told
  <2> QED BY <2>1, <2>2, <2>3, <2>4 DEF Active
<1> QED BY <1>1, <1>4, <1>5, <1>6, <1>7

LEMMA RunStep ==
  ASSUME KidsOK, NEW S, NEW c \in Nat, Run(S, c), cycle' \in Nat
  PROVE  /\ KidsOK'
         /\ \A s \in Slot : IF s \in S THEN gen'[s] = c
                            ELSE gen'[s] = gen[s] /\ (Alive(s)' <=> Alive(s))
<1>1. proc' \in [Slot -> ProcStates] /\ gen' \in [Slot -> Nat] /\ hung' \subseteq Slot
  BY DEF Run, KidsOK, ProcStates
<1>2. inbox' \in [Slot -> SUBSET {"terminate", "quit", "reopen"}]
  BY DEF Run, KidsOK
<1>3. \A s \in Slot : IF s \in S THEN gen'[s] = c
                      ELSE gen'[s] = gen[s] /\ (Alive(s)' <=> Alive(s))
  BY DEF Run, Alive
<1> QED BY <1>1, <1>2, <1>3 DEF KidsOK

\* New workers are of configuration c; the others in service were so before.
LEMMA StartWorkersStep ==
  ASSUME Types, NEW c \in Nat, NEW just \in BOOLEAN, StartWorkers(c, just), cycle' \in Nat
  PROVE  /\ TableOK' /\ KidsOK' /\ lost' \in BOOLEAN
         /\ ~just /\ justSpawn = {} => justSpawn' = {}
         /\ \A s \in Active' : Alive(s)' =>
               \/ gen'[s] = c
               \/ s \in Active /\ Alive(s) /\ gen'[s] = gen[s]
                     /\ (s \notin justSpawn => s \notin justSpawn')
<1>1. PICK k \in 0 .. Workers :
          /\ Spawned(k, Workers) /\ Run(Free(k), c)
          /\ used' = used \cup Free(k) /\ exiting' = exiting \ Free(k)
          /\ respawn' = respawn \cup Free(k) /\ detached' = detached \ Free(k)
          /\ justSpawn' = IF just THEN justSpawn \cup Free(k) ELSE justSpawn \ Free(k)
          /\ UNCHANGED exited
  BY DEF StartWorkers
<1>2. Free(k) \subseteq Slot
  BY DEF Free
<1>3. TableOK'
  BY <1>1, <1>2 DEF Types, TableOK
<1>4. /\ KidsOK'
      /\ \A s \in Slot : IF s \in Free(k) THEN gen'[s] = c
                         ELSE gen'[s] = gen[s] /\ (Alive(s)' <=> Alive(s))
  BY <1>1, RunStep DEF Types
<1>5. lost' \in BOOLEAN
  BY <1>1 DEF Spawned
<1>6. ASSUME NEW s \in Active', Alive(s)'
      PROVE  \/ gen'[s] = c
             \/ s \in Active /\ Alive(s) /\ gen'[s] = gen[s]
                   /\ (s \notin justSpawn => s \notin justSpawn')
  <2>1. s \in Slot /\ s \in used' /\ s \notin exiting' /\ s \notin detached'
    BY <1>3, <1>6 DEF Active, TableOK
  <2>2. CASE s \in Free(k)
    BY <1>4, <2>1, <2>2
  <2>3. CASE s \notin Free(k)
    BY <1>1, <1>4, <1>6, <2>1, <2>3 DEF Active
  <2> QED BY <2>2, <2>3
<1>7. ~just /\ justSpawn = {} => justSpawn' = {}
  BY <1>1
<1> QED BY <1>3, <1>4, <1>5, <1>6, <1>7

\* A step after which those in service were there before keeps Current.
LEMMA CurrentKept ==
  ASSUME Types, Current, cycle' = cycle, pc' # "shutdown_old", justSpawn' = {},
         \A s \in Active' : Alive(s)' =>
             gen'[s] = cycle \/ (s \in Active /\ Alive(s) /\ gen'[s] = gen[s]),
         pc = "shutdown_old" =>
             \A s \in Active' : Alive(s)' => gen'[s] = cycle \/ s \in justSpawn
  PROVE  Current'
<1>1. ASSUME NEW s \in Active', Alive(s)' PROVE gen'[s] = cycle'
  BY <1>1 DEF Current
<1> QED BY <1>1 DEF Current

\* Steps of the children: processes end, and the table is not touched.
LEMMA ChildrenStep ==
  ASSUME Types, Current, NEW s \in Slot, WorkerReads(s) \/ WorkerDone(s) \/ Dies(s) \/ Hangs(s)
  PROVE  Types' /\ Current'
<1>1. /\ UNCHANGED <<pc, flag, live, delay, sigio, armed, noaccepting, newBinary, used, exited,
                     exiting, respawn, justSpawn, detached, gen, cycle>>
  BY DEF WorkerReads, WorkerDone, Dies, Hangs, ChildRest, loop, upgrade, table
<1>2. pending' \subseteq DOMAIN Raised
  BY RaisedSignals DEF WorkerReads, WorkerDone, Dies, Hangs, Types, ControlOK
<1>3. lost' \in BOOLEAN
  BY DEF WorkerReads, WorkerDone, Dies, Hangs, ChildRest, Types, ControlOK
<1>4. proc' \in [Slot -> ProcStates] /\ \A r \in Slot : Alive(r)' => Alive(r)
  BY DEF WorkerReads, WorkerDone, Dies, Hangs, ChildRest, Ends, Types, KidsOK, ProcStates,
         Alive
<1>5. inbox' \in [Slot -> SUBSET {"terminate", "quit", "reopen"}] /\ hung' \subseteq Slot
  <2>1. UNCHANGED inbox \/ inbox' = [inbox EXCEPT ![s] = {}]
    BY DEF WorkerReads, WorkerDone, Dies, Hangs, ChildRest
  <2>2. hung' = hung \/ hung' = hung \cup {s}
    BY DEF WorkerReads, WorkerDone, Dies, Hangs, ChildRest
  <2> QED BY <2>1, <2>2 DEF Types, KidsOK
<1>6. Types'
  BY <1>1, <1>2, <1>3, <1>4, <1>5 DEF Types, ControlOK, TableOK, KidsOK
<1>7. Active' = Active /\ Active \subseteq Slot
  BY <1>1 DEF Active, Types, TableOK
<1> QED BY <1>1, <1>4, <1>6, <1>7 DEF Current

\* Steps that touch neither the table nor the processes.
LEMMA QuietStep ==
  ASSUME Types, Current, UNCHANGED <<table, kids, cycle>>, ControlOK',
         (pc = "shutdown_old") = (pc' = "shutdown_old")
  PROVE  Types' /\ Current'
<1>1. UNCHANGED <<used, exited, exiting, respawn, justSpawn, detached, proc, inbox, hung, gen,
                  cycle>>
  BY DEF table, kids
<1> QED BY <1>1 DEF Types, TableOK, KidsOK, Current, Active, Alive

LEMMA LoopStep ==
  ASSUME Types, Current,
         LoopTop \/ Exit \/ AlarmRings \/ ReconfigureFails
            \/ (\E sig \in Signals : Kill(sig)) \/ UNCHANGED vars
  PROVE  Types' /\ Current'
<1> USE DEF Types, ControlOK, Labels, BranchLabels
<1>1. CASE LoopTop
  <2>1. flag' \subseteq Flags /\ sigio' \in 0 .. Workers + 2 /\ delay' \in Nat
        /\ pc' = "sigsuspend" /\ pc = "top"
    BY <1>1 DEF LoopTop
  <2>2. armed' \in BOOLEAN
    BY <1>1 DEF LoopTop
  <2>3. UNCHANGED <<pending, live, noaccepting, newBinary, lost, table, kids, cycle>>
    BY <1>1 DEF LoopTop, upgrade
  <2> QED BY <2>1, <2>2, <2>3, QuietStep
<1>2. CASE Exit
  BY <1>2, QuietStep DEF Exit, loop, upgrade
<1>3. CASE AlarmRings
  BY <1>3, QuietStep, RaisedSignals DEF AlarmRings, upgrade
<1>4. CASE ReconfigureFails
  BY <1>4, QuietStep DEF ReconfigureFails, loop, upgrade
<1>5. ASSUME NEW sig \in Signals, Kill(sig) PROVE Types' /\ Current'
  <2>1. pending' \subseteq DOMAIN Raised
    BY <1>5 DEF Kill
  <2> QED BY <1>5, <2>1, QuietStep DEF Kill, loop, upgrade
<1>6. CASE UNCHANGED vars
  BY <1>6, QuietStep DEF vars, loop, upgrade
<1> QED BY <1>1, <1>2, <1>3, <1>4, <1>5, <1>6

LEMMA SigsuspendStep ==
  ASSUME Types, Current, Sigsuspend
  PROVE  Types' /\ Current'
<1>1. /\ pc = "sigsuspend" /\ pending' = {}
      /\ UNCHANGED <<live, delay, sigio, armed, noaccepting, newBinary, used, exiting, justSpawn,
                     detached, inbox, hung, gen, cycle, lost>>
  BY DEF Sigsuspend, loop, upgrade
<1>2. flag' \subseteq Flags
  BY DEF Sigsuspend, Types, ControlOK, Flags
<1>3. pc' \in BranchLabels \cup {"top", "exit", "terminate", "quit", "reap"}
  BY DecideLabel DEF Sigsuspend
<1>4. ControlOK'
  BY <1>1, <1>2, <1>3 DEF Types, ControlOK, Labels
<1>5. TableOK'
  BY <1>1 DEF Sigsuspend, GetStatus, Zombies, Types, TableOK
<1>6. proc' \in [Slot -> ProcStates] /\ \A r \in Slot : Alive(r)' => Alive(r)
  BY DEF Sigsuspend, GetStatus, Types, KidsOK, ProcStates, Alive
<1>7. Types'
  BY <1>1, <1>4, <1>5, <1>6 DEF Types, KidsOK
<1>8. Active' = Active /\ Active \subseteq Slot
  BY <1>1 DEF Active, Types, TableOK
<1> QED BY <1>1, <1>6, <1>7, <1>8 DEF Current

LEMMA ReapStep ==
  ASSUME Types, Current, Reap
  PROVE  Types' /\ Current'
<1>1. PICK ok \in SUBSET ToRespawn :
          /\ Run(ok, cycle) /\ used' = used \ (exited \ ToRespawn)
          /\ exited' = ToRespawn \ ok
          /\ lost' = (lost \/ ok # ToRespawn)
          /\ pc' = Decide(flag', live')
  BY DEF Reap
<1>2. /\ pc = "reap" /\ flag' \subseteq Flags
      /\ newBinary' \in Slot \cup {NoBinary, BadBinary}
      /\ UNCHANGED <<pending, delay, sigio, armed, exiting, respawn, justSpawn, detached, cycle>>
  BY RaisedSignals DEF Reap, Types, ControlOK
<1>3. live' \in BOOLEAN /\ noaccepting' \in BOOLEAN /\ lost' \in BOOLEAN
  BY <1>1 DEF Reap
<1>4. pc' \in BranchLabels \cup {"top", "exit", "terminate", "quit"}
  BY <1>1, DecideLabel
<1>5. ControlOK'
  BY <1>2, <1>3, <1>4 DEF Types, ControlOK, Labels
<1>6. ToRespawn \subseteq Slot
  BY DEF ToRespawn, Types, TableOK
<1>7. TableOK'
  BY <1>1, <1>2, <1>6 DEF Types, TableOK
<1>8. /\ KidsOK'
      /\ \A s \in Slot : IF s \in ok THEN gen'[s] = cycle
                         ELSE gen'[s] = gen[s] /\ (Alive(s)' <=> Alive(s))
  <2>1. cycle \in Nat /\ cycle' \in Nat /\ KidsOK
    BY <1>2 DEF Types, KidsOK
  <2> QED BY <1>1, <2>1, RunStep
<1>9. ASSUME NEW s \in Active', Alive(s)'
      PROVE  gen'[s] = cycle \/ (s \in Active /\ Alive(s) /\ gen'[s] = gen[s])
  <2>1. s \in Slot /\ s \in Active
    BY <1>1, <1>2, <1>7, <1>9 DEF Active, TableOK
  <2> QED BY <1>8, <1>9, <2>1
<1>10. justSpawn' = {} /\ pc' # "shutdown_old" /\ pc # "shutdown_old"
  BY <1>2, <1>4 DEF Current, BranchLabels
<1> QED BY <1>2, <1>5, <1>7, <1>8, <1>9, <1>10, CurrentKept DEF Types

\* The branches that signal the workers.
LEMMA SignallingStep ==
  ASSUME Types, Current, Terminate \/ Quit \/ ShutdownOld \/ Reopen \/ Noaccept
  PROVE  Types' /\ Current'
<1> USE RaisedSignals
<1>1. ASSUME NEW sig \in {"TERM", "QUIT", "USR1", "KILL"}, NEW f \in SUBSET Flags,
             SignalWorkers(sig, f), cycle' = cycle,
             pc' \in BranchLabels \cup {"top"}, pc = "shutdown_old" => sig = "QUIT",
             live' \in BOOLEAN /\ armed' \in BOOLEAN /\ noaccepting' \in BOOLEAN,
             lost' \in BOOLEAN,
             delay' \in Nat, sigio' \in 0 .. Workers + 2,
             newBinary' \in Slot \cup {NoBinary, BadBinary}
      PROVE  Types' /\ Current'
  <2>1. /\ TableOK' /\ KidsOK' /\ flag' \subseteq Flags /\ pending' \subseteq DOMAIN Raised
        /\ justSpawn' = {} /\ gen' = gen
        /\ \A s \in Active' : Alive(s)' => s \in Active /\ Alive(s)
        /\ sig = "QUIT" => \A s \in Active' : Alive(s)' => s \in justSpawn
    BY <1>1, SignalWorkersStep
  <2>2. ControlOK' /\ pc' # "shutdown_old"
    BY <1>1, <2>1 DEF ControlOK, Labels, BranchLabels
  <2>3. Current'
    BY <1>1, <2>1, <2>2, CurrentKept
  <2> QED BY <2>1, <2>2, <2>3 DEF Types
<1>2. CASE Terminate
  <2>1. pc = "terminate" /\ pc' = "top" /\ delay' \in Nat
        /\ UNCHANGED <<live, armed, noaccepting, newBinary, cycle, lost>>
    BY <1>2 DEF Terminate, upgrade, Types, ControlOK
  <2>2. CASE UNCHANGED <<flag, pending, table, kids>> /\ sigio > 0 /\ sigio' = sigio - 1
    <3>1. ControlOK'
      BY <2>1, <2>2 DEF Types, ControlOK, Labels
    <3> QED BY <2>1, <2>2, <3>1, QuietStep
  <2>3. CASE /\ sigio' = Workers + 2
             /\ SignalWorkers(IF delay' > KillAfter THEN "KILL" ELSE "TERM", flag)
    BY <1>1, <2>1, <2>3 DEF Types, ControlOK
  <2> QED BY <1>2, <2>2, <2>3 DEF Terminate
<1>3. CASE Quit
  BY <1>1, <1>3 DEF Quit, loop, upgrade, Types, ControlOK
<1>4. CASE ShutdownOld
  <2>1. pc' \in BranchLabels \cup {"top"}
    BY <1>4, FromLabel DEF ShutdownOld
  <2> QED BY <1>1, <1>4, <2>1 DEF ShutdownOld, loop, upgrade, Types, ControlOK
<1>5. CASE Reopen
  <2>1. pc' \in BranchLabels \cup {"top"}
    BY <1>5, FromLabel DEF Reopen
  <2> QED BY <1>1, <1>5, <2>1 DEF Reopen, loop, upgrade, Types, ControlOK
<1>6. CASE Noaccept
  <2>1. noaccepting' \in BOOLEAN
    BY <1>6 DEF Noaccept
  <2> QED BY <1>1, <1>6, <2>1 DEF Noaccept, loop, Types, ControlOK
<1> QED BY <1>2, <1>3, <1>4, <1>5, <1>6

\* The branches that start processes.
LEMMA StartingStep ==
  ASSUME Types, Current, ReconfigureBack \/ Reconfigure \/ Restart \/ ChangeBinary
  PROVE  Types' /\ Current'
<1>1. cycle \in Nat /\ cycle + 1 \in Nat
  BY DEF Types, KidsOK
<1>2. CASE ReconfigureBack \/ Restart
  <2>1. /\ StartWorkers(cycle, FALSE) /\ pc # "shutdown_old" /\ cycle' = cycle
        /\ flag' \subseteq Flags /\ pending' = pending
        /\ UNCHANGED <<delay, sigio, armed, newBinary>>
    BY <1>2 DEF ReconfigureBack, Restart, loop, upgrade, Types, ControlOK
  <2>2. live' \in BOOLEAN /\ noaccepting' \in BOOLEAN
    BY <1>2 DEF ReconfigureBack, Restart, loop, upgrade, Types, ControlOK
  <2>3. pc' \in BranchLabels \cup {"top"}
    <3>1. CASE ReconfigureBack
      BY <3>1 DEF ReconfigureBack
    <3>2. CASE Restart
      <4>1. pc' = From(3, flag)
        BY <3>2 DEF Restart
      <4>2. 3 \in 1 .. 5
        OBVIOUS
      <4> QED BY <4>1, <4>2, FromLabel
    <3> QED BY <1>2, <3>1, <3>2
  <2>4. justSpawn = {}
    BY <2>1 DEF Current
  <2>5. /\ TableOK' /\ KidsOK' /\ lost' \in BOOLEAN /\ justSpawn' = {}
        /\ \A s \in Active' : Alive(s)' =>
               gen'[s] = cycle \/ (s \in Active /\ Alive(s) /\ gen'[s] = gen[s])
    BY <1>1, <2>1, <2>4, StartWorkersStep
  <2>6. ControlOK' /\ pc' # "shutdown_old"
    BY <2>1, <2>2, <2>3, <2>5 DEF Types, ControlOK, Labels, BranchLabels
  <2> QED BY <2>1, <2>5, <2>6, CurrentKept DEF Types
<1>3. CASE Reconfigure
  <2>1. /\ StartWorkers(cycle + 1, TRUE) /\ pc = "reconfigure" /\ pc' = "shutdown_old"
        /\ cycle' = cycle + 1 /\ live' = TRUE /\ flag' \subseteq Flags
        /\ UNCHANGED <<pending, delay, sigio, armed, noaccepting, newBinary>>
    BY <1>3 DEF Reconfigure, upgrade, Types, ControlOK
  <2>2. justSpawn = {}
    BY <2>1 DEF Current
  <2>3. /\ TableOK' /\ KidsOK' /\ lost' \in BOOLEAN
        /\ \A s \in Active' : Alive(s)' =>
               gen'[s] = cycle + 1 \/ (s \notin justSpawn => s \notin justSpawn')
    BY <1>1, <2>1, StartWorkersStep
  <2>4. ControlOK'
    BY <2>1, <2>3 DEF Types, ControlOK, Labels
  <2> QED BY <2>1, <2>2, <2>3, <2>4 DEF Types, Current
<1>4. CASE ChangeBinary
  <2>1. /\ pc = "change_binary" /\ flag' \subseteq Flags /\ justSpawn' = {}
        /\ UNCHANGED <<pending, live, delay, sigio, armed, noaccepting, cycle, lost>>
    BY <1>4 DEF ChangeBinary, loop, table, Types, ControlOK, Current
  <2>2. pc' \in BranchLabels \cup {"top"}
    BY <1>4, FromLabel DEF ChangeBinary
  <2>3. newBinary' \in Slot \cup {NoBinary, BadBinary}
    BY <1>4 DEF ChangeBinary, Free
  <2>4. ControlOK' /\ pc' # "shutdown_old"
    BY <2>1, <2>2, <2>3 DEF Types, ControlOK, Labels, BranchLabels
  <2>5. CASE UNCHANGED <<table, kids>>
    BY <2>1, <2>4, <2>5, QuietStep
  <2>6. ASSUME NEW s \in Free(1), Run({s}, cycle),
               used' = used \cup {s}, detached' = detached \cup {s},
               exiting' = exiting \ {s}, respawn' = respawn \ {s}, exited' = exited
        PROVE  Types' /\ Current'
    <3>1. s \in Slot
      BY DEF Free
    <3>2. TableOK'
      BY <2>1, <2>6, <3>1 DEF Types, TableOK, Current
    <3>3. /\ KidsOK'
          /\ \A r \in Slot : IF r \in {s} THEN gen'[r] = cycle
                             ELSE gen'[r] = gen[r] /\ (Alive(r)' <=> Alive(r))
      BY <1>1, <2>1, <2>6, RunStep DEF Types
    <3>4. ASSUME NEW r \in Active', Alive(r)'
          PROVE  gen'[r] = cycle \/ (r \in Active /\ Alive(r) /\ gen'[r] = gen[r])
      BY <2>6, <3>2, <3>3, <3>4 DEF Active, TableOK
    <3> QED BY <2>1, <2>4, <3>2, <3>3, <3>4, CurrentKept DEF Types
  <2> QED BY <1>4, <2>5, <2>6 DEF ChangeBinary
<1> QED BY <1>2, <1>3, <1>4

LEMMA InitCurrent == Init => Types /\ Current
<1> SUFFICES ASSUME Init PROVE Types /\ Current
  OBVIOUS
<1>1. PICK n \in 0 .. Workers :
          /\ lost = (n < Workers) /\ used = 1 .. n /\ respawn = 1 .. n
          /\ proc = [s \in Slot |-> IF s <= n THEN "run" ELSE "none"]
  BY DEF Init
<1>2. 1 .. n \subseteq Slot
  BY DEF Slot
<1>3. ControlOK
  <2>1. /\ pc \in Labels /\ flag \subseteq Flags /\ pending \subseteq DOMAIN Raised
        /\ delay \in Nat /\ newBinary \in Slot \cup {NoBinary, BadBinary}
    BY DEF Init, Labels
  <2>2. live \in BOOLEAN /\ armed \in BOOLEAN /\ noaccepting \in BOOLEAN
    BY DEF Init
  <2>3. lost \in BOOLEAN
    BY <1>1
  <2>4. sigio \in 0 .. Workers + 2
    <3>1. sigio = 0 /\ Workers \in Nat
      BY NgxProcessCycleAssumption DEF Init
    <3> QED BY <3>1
  <2> QED BY <2>1, <2>2, <2>3, <2>4 DEF ControlOK
<1>4. TableOK
  BY <1>1, <1>2 DEF Init, TableOK
<1>5. KidsOK
  BY <1>1 DEF Init, KidsOK, ProcStates
<1>6. Current
  BY <1>2, <1>1 DEF Init, Current, Active
<1> QED BY <1>3, <1>4, <1>5, <1>6 DEF Types

LEMMA StepCurrent == Types /\ Current /\ [Next]_vars => Types' /\ Current'
  BY LoopStep, SigsuspendStep, ReapStep, SignallingStep, StartingStep, ChildrenStep
     DEF Next, MasterStep, WorkerStep

\* A reload: when the master sleeps every worker in service is of its present
\* configuration, whichever workers died, hung, could not be started or were
\* told to stop meanwhile, for any number of workers, slots and signals.
THEOREM SameConfigCorrect == Spec => []SameConfig
<1>1. Types /\ Current => SameConfig
  BY TypesTypeOK DEF Current, SameConfig
<1> QED BY <1>1, InitCurrent, StepCurrent, PTL DEF Spec

-----------------------------------------------------------------------------
(* The number of the workers, and the end of the master *)

\* A slot is in use for a process the kernel knows, or for one whose end the
\* master has noted.  As long as nothing was lost it notes ends only on its way
\* to ngx_reap_children(), and every worker in service is one to be respawned.
Accounted ==
    /\ {s \in Slot : proc[s] # "none"} = used \ exited
    /\ exited \subseteq used
    /\ ~lost => /\ pc # "reap" => exited = {}
                /\ \A s \in Slot : proc[s] # "fatal"
                /\ Active \subseteq respawn

\* In the middle of a reload the workers just started are already enough.
Staffed ==
    /\ ~lost /\ ~noaccepting /\ ~Ending(flag) /\ "restart" \notin flag
           => Cardinality(Active) >= Workers
    /\ ~lost /\ pc = "shutdown_old"
           => justSpawn \subseteq Active /\ Cardinality(justSpawn) >= Workers

\* The local variable live may be 0 with workers running only while there is or
\* was a new binary.
Ended ==
    /\ pc \in {"quit", "terminate"} => Ending(flag)
    /\ pc \in {"exit", "gone"} => ~live
    /\ ~live /\ newBinary = NoBinary => Orphans = {}

Whole == Types /\ Current /\ Accounted /\ Staffed /\ Ended

LEMMA SlotCardinality ==
  ASSUME NEW S \in SUBSET Slot, NEW T \in SUBSET S
  PROVE  /\ Cardinality(S) \in Nat /\ Cardinality(T) \in Nat
         /\ Cardinality(T) <= Cardinality(S)
<1>1. IsFiniteSet(Slot)
  BY FS_Interval DEF Slot
<1>2. IsFiniteSet(S)
  BY <1>1, FS_Subset
<1> QED BY <1>2, FS_Subset, FS_CardinalityType

LEMMA DecideEnding ==
  ASSUME NEW f, NEW alive \in BOOLEAN
  PROVE  /\ Decide(f, alive) \in {"quit", "terminate"} => Ending(f)
         /\ Decide(f, alive) = "exit" => ~alive
         /\ Decide(f, alive) \notin {"gone", "shutdown_old", "reap"}
<1>1. From(1, f) \in BranchLabels \cup {"top"}
  BY FromLabel
<1> QED BY <1>1 DEF Decide, BranchLabels

\* A slot whose process is gone has been noted already, so what
\* ngx_signal_worker_processes() learns from ESRCH is nothing new.
LEMMA SignalWorkersAccounts ==
  ASSUME Types, Accounted, NEW sig \in {"TERM", "QUIT", "USR1", "KILL"}, NEW f,
         SignalWorkers(sig, f)
  PROVE  /\ UNCHANGED <<used, exited, respawn, detached>>
         /\ {s \in Slot : proc'[s] # "none"} = used \ exited
         /\ \A s \in Slot : proc'[s] = "fatal" => proc[s] = "fatal"
         /\ \A s \in Slot : Alive(s)' => Alive(s)
         /\ f \subseteq flag' /\ flag' \subseteq f \cup {"reap"}
         /\ exited = {} => /\ Active' \subseteq Active
                           /\ Active \cap justSpawn \subseteq Active'
                           /\ sig = "USR1" => Active' = Active
<1> DEFINE esrch == {s \in Told(sig) : proc[s] = "none"}
           told == Told(sig) \ esrch
           hit == {s \in told : Alive(s)}
<1>1. /\ exiting' = (IF sig = "USR1" THEN exiting ELSE exiting \cup told) \ esrch
      /\ exited' = exited \cup esrch
      /\ flag' = (IF esrch = {} THEN f ELSE f \cup {"reap"})
      /\ UNCHANGED <<used, respawn, detached>>
  BY DEF SignalWorkers
<1>2. \/ proc' = [s \in Slot |-> IF s \in hit THEN "zombie" ELSE proc[s]]
      \/ proc' = proc
  BY DEF SignalWorkers
<1>3. Told(sig) \subseteq used /\ Told(sig) \cap justSpawn = {} /\ used \subseteq Slot
  BY DEF Told, Types, TableOK
<1>4. esrch \subseteq exited
  BY <1>3 DEF Accounted
<1>5. exited' = exited
  BY <1>1, <1>4
<1>6. /\ {s \in Slot : proc'[s] # "none"} = {s \in Slot : proc[s] # "none"}
      /\ \A s \in Slot : proc'[s] = "fatal" => proc[s] = "fatal"
      /\ \A s \in Slot : Alive(s)' => Alive(s)
  BY <1>2 DEF Alive, Types, KidsOK
<1>7. ASSUME exited = {}
      PROVE  /\ Active' \subseteq Active
             /\ Active \cap justSpawn \subseteq Active'
             /\ sig = "USR1" => Active' = Active
  <2>1. esrch = {}
    BY <1>4, <1>7
  <2>2. told \cap justSpawn = {}
    BY <1>3
  <2> HIDE DEF esrch, told
  <2>3. exiting' = (IF sig = "USR1" THEN exiting ELSE exiting \cup told)
    BY <1>1, <2>1
  <2> QED BY <1>1, <2>2, <2>3 DEF Active
<1> QED BY <1>1, <1>5, <1>6, <1>7 DEF Accounted

\* ngx_start_worker_processes(): if nothing is lost, all of them started.
LEMMA StartWorkersAccounts ==
  ASSUME Types, Accounted, NEW c, NEW just \in BOOLEAN, StartWorkers(c, just)
  PROVE  /\ exited' = exited /\ exited' \subseteq used' /\ (lost => lost')
         /\ {s \in Slot : proc'[s] # "none"} = used' \ exited'
         /\ \A s \in Slot : proc'[s] = "fatal" => proc[s] = "fatal"
         /\ Active \subseteq Active'
         /\ Active \subseteq respawn => Active' \subseteq respawn'
         /\ ~lost' => Cardinality(Active') >= Workers
         /\ ~lost' /\ just /\ justSpawn = {} =>
                justSpawn' \subseteq Active' /\ Cardinality(justSpawn') >= Workers
<1>1. PICK k \in 0 .. Workers :
          /\ Spawned(k, Workers) /\ Run(Free(k), c)
          /\ used' = used \cup Free(k) /\ exiting' = exiting \ Free(k)
          /\ respawn' = respawn \cup Free(k) /\ detached' = detached \ Free(k)
          /\ justSpawn' = (IF just THEN justSpawn \cup Free(k) ELSE justSpawn \ Free(k))
          /\ UNCHANGED exited
  BY DEF StartWorkers
<1> DEFINE S == Free(k)
<1>2. S \subseteq Slot /\ S \cap used = {}
  BY DEF Free
<1>3. ~lost' => ~lost /\ k = Workers /\ Cardinality(S) = Workers
  <2>1. k = Cardinality(S) /\ lost' = (lost \/ k < Workers)
    BY <1>1 DEF Spawned
  <2> HIDE DEF S
  <2>2. ~lost' => ~lost /\ ~(k < Workers)
    BY <2>1, Zenon
  <2>3. ~(k < Workers) => k = Workers
    OBVIOUS
  <2> QED BY <2>1, <2>2, <2>3
<1> HIDE DEF S
<1>4. \A s \in Slot : proc'[s] = IF s \in S THEN "run" ELSE proc[s]
  BY <1>1 DEF Run, S
<1>5. Active' = Active \cup S
  BY <1>1, <1>2 DEF Active, S
<1>6. Active' \subseteq Slot
  BY <1>2, <1>5 DEF Active, Types, TableOK
<1>7. {s \in Slot : proc'[s] # "none"} = used' \ exited'
  BY <1>1, <1>2, <1>4 DEF Accounted, S
<1>8. ~lost' => Cardinality(Active') >= Workers
  <2>1. Cardinality(S) <= Cardinality(Active')
    BY <1>5, <1>6, SlotCardinality
  <2> QED BY <1>3, <2>1
<1>9. ASSUME ~lost', just, justSpawn = {}
      PROVE  justSpawn' \subseteq Active' /\ Cardinality(justSpawn') >= Workers
  <2>1. justSpawn' = S
    BY <1>1, <1>9 DEF S
  <2> QED BY <1>3, <1>5, <1>9, <2>1
<1> QED BY <1>1, <1>3, <1>4, <1>5, <1>7, <1>8, <1>9 DEF Accounted, S

\* The steps that touch neither the table, nor the processes, nor the flags that
\* count here.
LEMMA QuietAccounts ==
  ASSUME Whole, UNCHANGED <<table, kids, live, newBinary, noaccepting, lost>>,
         Ending(flag) => Ending(flag'), "restart" \in flag => "restart" \in flag',
         pc # "reap", pc' # "shutdown_old",
         pc' \in {"quit", "terminate"} => Ending(flag'),
         pc' \in {"exit", "gone"} => ~live
  PROVE  Accounted' /\ Staffed' /\ Ended'
<1>1. UNCHANGED <<used, exited, exiting, respawn, justSpawn, detached, proc, live, newBinary,
                  noaccepting, lost>>
  BY DEF table, kids
<1>2. Active' = Active /\ Orphans' = Orphans
  BY <1>1 DEF Active, Orphans, Alive
<1>3. Accounted'
  BY <1>1, <1>2 DEF Whole, Accounted
<1>4. Staffed'
  BY <1>1, <1>2 DEF Whole, Staffed
<1>5. Ended'
  BY <1>1, <1>2 DEF Whole, Ended
<1> QED BY <1>3, <1>4, <1>5

LEMMA LoopAccounts ==
  ASSUME Whole,
         LoopTop \/ Exit \/ AlarmRings \/ ReconfigureFails
            \/ (\E sig \in Signals : Kill(sig)) \/ UNCHANGED vars
  PROVE  Accounted' /\ Staffed' /\ Ended'
<1>1. CASE LoopTop
  <2>1. flag \ {"sigalrm"} \subseteq flag' /\ pc = "top" /\ pc' = "sigsuspend"
        /\ UNCHANGED <<table, kids, live, newBinary, noaccepting, lost>>
    BY <1>1 DEF LoopTop, upgrade
  <2> QED BY <2>1, QuietAccounts DEF Ending
<1>2. CASE Exit
  BY <1>2, QuietAccounts DEF Exit, loop, upgrade, Whole, Ended
<1>3. CASE ReconfigureFails
  <2>1. flag' = flag \ {"reconfigure"} /\ pc = "reconfigure" /\ pc' = "top"
        /\ UNCHANGED <<table, kids, live, newBinary, noaccepting, lost>>
    BY <1>3 DEF ReconfigureFails, loop, upgrade
  <2> QED BY <2>1, QuietAccounts DEF Ending
<1>4. CASE AlarmRings \/ (\E sig \in Signals : Kill(sig)) \/ UNCHANGED vars
  <2>1. UNCHANGED <<pc, flag, live, newBinary, noaccepting, lost, table, kids>>
    BY <1>4 DEF AlarmRings, Kill, vars, loop, upgrade
  <2>2. UNCHANGED <<used, exited, exiting, respawn, justSpawn, detached, proc>>
    BY <2>1 DEF table, kids
  <2>3. Active' = Active /\ Orphans' = Orphans
    BY <2>2 DEF Active, Orphans, Alive
  <2>4. Accounted'
    BY <2>1, <2>2, <2>3 DEF Whole, Accounted
  <2>5. Staffed'
    BY <2>1, <2>2, <2>3 DEF Whole, Staffed
  <2>6. Ended'
    BY <2>1, <2>2, <2>3 DEF Whole, Ended
  <2> QED BY <2>4, <2>5, <2>6
<1> QED BY <1>1, <1>2, <1>3, <1>4

LEMMA SigsuspendAccounts ==
  ASSUME Whole, Sigsuspend
  PROVE  Accounted' /\ Staffed' /\ Ended'
<1>1. /\ pc = "sigsuspend"
      /\ flag \ {"sigio"} \subseteq flag'
      /\ UNCHANGED <<live, noaccepting, newBinary, used, exiting, justSpawn, detached, lost>>
  BY DEF Sigsuspend, loop, upgrade
<1>2. /\ pc' = IF "reap" \in flag' THEN "reap" ELSE Decide(flag', live)
      /\ "CHLD" \in pending => "reap" \in flag'
  <2>1. pc' = IF "reap" \in flag' THEN "reap" ELSE Decide(flag', live)
    BY DEF Sigsuspend
  <2>2. "CHLD" \in pending => "reap" \in flag'
    BY DEF Sigsuspend, Raised
  <2> QED BY <2>1, <2>2
<1>3. \/ "CHLD" \in pending /\ GetStatus
      \/ UNCHANGED <<exited, respawn, proc>>
  BY DEF Sigsuspend
<1>4. /\ {s \in Slot : proc'[s] # "none"} = used' \ exited'
      /\ exited' \subseteq used'
      /\ \A s \in Slot : proc'[s] = "fatal" => proc[s] = "fatal"
      /\ \A s \in Slot : Alive(s)' => Alive(s)
      /\ (\A s \in Slot : proc[s] # "fatal") => respawn' = respawn
  BY <1>1, <1>3 DEF GetStatus, Zombies, Whole, Accounted, Types, TableOK, Alive
<1>5. Active' = Active
  BY <1>1 DEF Active
<1>6. Accounted'
  <2>1. ~lost' /\ pc' # "reap" => exited' = {}
    BY <1>1, <1>2, <1>3 DEF Whole, Accounted
  <2> QED BY <1>1, <1>4, <1>5, <2>1 DEF Whole, Accounted
<1>7. live \in BOOLEAN
  BY DEF Whole, Types, ControlOK
<1>8. Staffed'
  <2>1. pc' # "shutdown_old"
    BY <1>2, <1>7, DecideEnding
  <2> QED BY <1>1, <1>5, <2>1 DEF Whole, Staffed, Ending
<1>9. Ended'
  <2>1. /\ pc' \in {"quit", "terminate"} => Ending(flag')
        /\ pc' \in {"exit", "gone"} => ~live
    BY <1>2, <1>7, DecideEnding
  <2>2. Orphans' \subseteq Orphans
    BY <1>1, <1>4 DEF Orphans
  <2> QED BY <1>1, <2>1, <2>2 DEF Whole, Ended
<1> QED BY <1>6, <1>8, <1>9

LEMMA ReapAccounts ==
  ASSUME Whole, Reap
  PROVE  Accounted' /\ Staffed' /\ Ended'
<1> DEFINE freed == exited \ ToRespawn
<1>1. PICK ok \in SUBSET ToRespawn :
          /\ lost' = (lost \/ ok # ToRespawn)
          /\ Run(ok, cycle)
          /\ used' = used \ freed /\ exited' = ToRespawn \ ok
          /\ live' = (ok # {} \/ \E s \in used \ exited : s \in exiting \/ s \notin detached)
          /\ flag' = (flag \ {"reap"})
                         \cup (IF newBinary \in freed /\ noaccepting THEN {"restart"} ELSE {})
          /\ noaccepting' = (noaccepting /\ ~(newBinary \in freed))
          /\ pc' = Decide(flag', live')
  BY DEF Reap
<1>2. UNCHANGED <<exiting, respawn, justSpawn, detached>>
  BY DEF Reap
<1>3. /\ ToRespawn \subseteq exited /\ ToRespawn \subseteq respawn /\ exited \subseteq used
      /\ ToRespawn \cap exiting = {} /\ used \subseteq Slot
      /\ ~Ending(flag) => ToRespawn = (exited \cap respawn) \ exiting
      /\ Ending(flag) => ToRespawn = {}
  BY DEF ToRespawn, Whole, Accounted, Types, TableOK
<1> HIDE DEF freed
<1>4. \A s \in Slot : proc'[s] = IF s \in ok THEN "run" ELSE proc[s]
  BY <1>1 DEF Run
<1>5. /\ {s \in Slot : proc'[s] # "none"} = used' \ exited'
      /\ exited' \subseteq used'
  BY <1>1, <1>3, <1>4 DEF Whole, Accounted, freed
<1>6. ~lost' => ~lost /\ ok = ToRespawn
  BY <1>1, Zenon
<1>7. pc' \notin {"gone", "shutdown_old", "reap"} /\ live' \in BOOLEAN
  <2>1. live' \in BOOLEAN
    BY <1>1
  <2> QED BY <1>1, <2>1, DecideEnding
<1>8. Accounted'
  <2>1. ~lost' => exited' = {} /\ \A s \in Slot : proc'[s] # "fatal"
    BY <1>1, <1>4, <1>6 DEF Whole, Accounted
  <2>2. ~lost' => Active' \subseteq respawn'
    BY <1>1, <1>2, <1>6 DEF Active, Whole, Accounted
  <2> QED BY <1>5, <2>1, <2>2 DEF Accounted
<1>9. Staffed'
  <2> SUFFICES ASSUME ~lost', ~noaccepting', ~Ending(flag'), "restart" \notin flag'
               PROVE  Cardinality(Active') >= Workers
    BY <1>7 DEF Staffed
  <2>1. ~Ending(flag) /\ "restart" \notin flag
    BY <1>1 DEF Ending
  <2>2. ~noaccepting
    BY <1>1
  <2>3. ~lost /\ Active \subseteq respawn
    BY <1>6 DEF Whole, Accounted
  <2>4. freed \cap Active = {}
    BY <1>3, <2>1, <2>3 DEF freed, Active
  <2>5. Active' = Active
    BY <1>1, <1>2, <2>4 DEF Active
  <2> QED BY <2>1, <2>2, <2>3, <2>5 DEF Whole, Staffed
<1>10. Ended'
  <2>1. /\ pc' \in {"quit", "terminate"} => Ending(flag')
        /\ pc' \in {"exit", "gone"} => ~live'
    BY <1>1, <1>7, DecideEnding
  <2>2. ~live' => Orphans' = {}
    <3> SUFFICES ASSUME ~live', NEW s \in Slot, s \notin detached, Alive(s)'
                 PROVE  FALSE
      BY <1>2 DEF Orphans
    <3>1. ok = {} /\ \A r \in used \ exited : r \in detached
      BY <1>1, Zenon
    <3>2. proc[s] # "none"
      BY <1>4, <3>1 DEF Alive
    <3> QED BY <3>1, <3>2 DEF Whole, Accounted
  <2> QED BY <2>1, <2>2 DEF Ended
<1> QED BY <1>8, <1>9, <1>10

\* The branches that signal the workers: outside a termination, a shutdown and
\* a halt of accepting, a QUIT spares the workers just started.
LEMMA SignallingAccounts ==
  ASSUME Whole, Terminate \/ Quit \/ ShutdownOld \/ Reopen \/ Noaccept
  PROVE  Accounted' /\ Staffed' /\ Ended'
<1>1. ASSUME NEW sig \in {"TERM", "QUIT", "USR1", "KILL"}, NEW f, SignalWorkers(sig, f),
             UNCHANGED <<live, newBinary, lost>>, pc # "reap",
             Ending(flag) => Ending(f), "restart" \in flag => "restart" \in f,
             pc' \in BranchLabels \cup {"top"},
             \/ Ending(f) \/ noaccepting'
             \/ sig = "USR1" /\ noaccepting' = noaccepting
             \/ pc = "shutdown_old"
      PROVE  Accounted' /\ Staffed' /\ Ended'
  <2>1. Types /\ Accounted
    BY DEF Whole
  <2>2. /\ UNCHANGED <<used, exited, respawn, detached>>
        /\ {s \in Slot : proc'[s] # "none"} = used \ exited
        /\ \A s \in Slot : proc'[s] = "fatal" => proc[s] = "fatal"
        /\ \A s \in Slot : Alive(s)' => Alive(s)
        /\ f \subseteq flag' /\ flag' \subseteq f \cup {"reap"}
        /\ exited = {} => /\ Active' \subseteq Active
                          /\ Active \cap justSpawn \subseteq Active'
                          /\ sig = "USR1" => Active' = Active
    BY <1>1, <2>1, SignalWorkersAccounts
  <2>3. Accounted'
    BY <1>1, <2>1, <2>2 DEF Accounted
  <2>4. Staffed'
    <3> SUFFICES ASSUME ~lost', ~noaccepting', ~Ending(flag'), "restart" \notin flag'
                 PROVE  Cardinality(Active') >= Workers
      BY <1>1 DEF Staffed, BranchLabels
    <3>1. ~Ending(f) /\ ~Ending(flag) /\ "restart" \notin flag
      BY <1>1, <2>2 DEF Ending
    <3>2. ~lost /\ exited = {}
      BY <1>1, <2>1 DEF Accounted
    <3>3. CASE sig = "USR1" /\ noaccepting' = noaccepting
      BY <2>2, <3>1, <3>2, <3>3 DEF Whole, Staffed
    <3>4. CASE pc = "shutdown_old"
      <4>1. justSpawn \subseteq Active /\ Cardinality(justSpawn) >= Workers
        BY <3>2, <3>4 DEF Whole, Staffed
      <4>2. justSpawn \subseteq Active' /\ Active' \subseteq Slot
        BY <2>1, <2>2, <3>2, <4>1 DEF Active, Types, TableOK
      <4>3. Cardinality(justSpawn) \in Nat /\ Cardinality(Active') \in Nat
            /\ Cardinality(justSpawn) <= Cardinality(Active')
        BY <4>2, SlotCardinality
      <4> QED BY <4>1, <4>3
    <3> QED BY <1>1, <3>1, <3>3, <3>4
  <2>5. Ended'
    <3>1. Orphans' \subseteq Orphans
      BY <2>2 DEF Orphans
    <3> QED BY <1>1, <3>1 DEF Whole, Ended, BranchLabels
  <2> QED BY <2>3, <2>4, <2>5
<1>2. CASE Terminate
  <2>1. /\ pc = "terminate" /\ pc' = "top" /\ Ending(flag)
        /\ UNCHANGED <<live, noaccepting, newBinary, lost>>
    BY <1>2 DEF Terminate, upgrade, Whole, Ended
  <2>2. CASE UNCHANGED <<flag, pending, table, kids>>
    BY <2>1, <2>2, QuietAccounts
  <2>3. CASE SignalWorkers(IF delay' > KillAfter THEN "KILL" ELSE "TERM", flag)
    BY <1>1, <2>1, <2>3
  <2> QED BY <1>2, <2>2, <2>3 DEF Terminate
<1>3. CASE Quit
  <2>1. /\ pc = "quit" /\ pc' = "top" /\ Ending(flag) /\ SignalWorkers("QUIT", flag)
        /\ UNCHANGED <<live, newBinary, lost>>
    BY <1>3 DEF Quit, loop, upgrade, Whole, Ended
  <2> QED BY <1>1, <2>1
<1>4. CASE ShutdownOld
  <2>1. 2 \in 1 .. 5
    OBVIOUS
  <2>2. /\ pc = "shutdown_old" /\ pc' \in BranchLabels \cup {"top"}
        /\ SignalWorkers("QUIT", flag) /\ UNCHANGED <<live, newBinary, lost>>
    BY <1>4, <2>1, FromLabel DEF ShutdownOld, loop, upgrade
  <2> QED BY <1>1, <2>2
<1>5. CASE Reopen
  <2>1. 4 \in 1 .. 5
    OBVIOUS
  <2>2. /\ pc = "reopen" /\ pc' \in BranchLabels \cup {"top"}
        /\ SignalWorkers("USR1", flag \ {"reopen"})
        /\ UNCHANGED <<live, newBinary, lost, noaccepting>>
    BY <1>5, <2>1, FromLabel DEF Reopen, loop, upgrade
  <2>3. /\ Ending(flag) => Ending(flag \ {"reopen"})
        /\ "restart" \in flag => "restart" \in flag \ {"reopen"}
    BY DEF Ending
  <2> QED BY <1>1, <2>2, <2>3
<1>6. CASE Noaccept
  <2>1. /\ pc = "noaccept" /\ pc' = "top" /\ noaccepting' = TRUE
        /\ SignalWorkers("QUIT", flag \ {"noaccept"}) /\ UNCHANGED <<live, newBinary, lost>>
    BY <1>6 DEF Noaccept, loop
  <2>2. /\ Ending(flag) => Ending(flag \ {"noaccept"})
        /\ "restart" \in flag => "restart" \in flag \ {"noaccept"}
    BY DEF Ending
  <2> QED BY <1>1, <2>1, <2>2
<1> QED BY <1>2, <1>3, <1>4, <1>5, <1>6

\* The branches that start processes.
LEMMA StartingAccounts ==
  ASSUME Whole, ReconfigureBack \/ Reconfigure \/ Restart \/ ChangeBinary
  PROVE  Accounted' /\ Staffed' /\ Ended'
<1>0. Types /\ Accounted
  BY DEF Whole
<1>1. ASSUME NEW c, NEW just \in BOOLEAN, StartWorkers(c, just), UNCHANGED newBinary,
             pc # "reap", pc # "shutdown_old", pc' \in BranchLabels \cup {"top", "shutdown_old"},
             pc' = "shutdown_old" => just, live' \/ newBinary # NoBinary
      PROVE  Accounted' /\ Staffed' /\ Ended'
  <2>1. /\ exited' = exited /\ exited' \subseteq used' /\ (lost => lost')
        /\ {s \in Slot : proc'[s] # "none"} = used' \ exited'
        /\ \A s \in Slot : proc'[s] = "fatal" => proc[s] = "fatal"
        /\ Active \subseteq respawn => Active' \subseteq respawn'
        /\ ~lost' => Cardinality(Active') >= Workers
        /\ ~lost' /\ just /\ justSpawn = {} =>
               justSpawn' \subseteq Active' /\ Cardinality(justSpawn') >= Workers
    BY <1>0, <1>1, StartWorkersAccounts
  <2>2. justSpawn = {}
    BY <1>1 DEF Whole, Current
  <2>3. Accounted'
    BY <1>0, <1>1, <2>1 DEF Accounted
  <2>4. Staffed'
    BY <1>1, <2>1, <2>2 DEF Staffed
  <2>5. Ended'
    BY <1>1 DEF Ended, BranchLabels
  <2> QED BY <2>3, <2>4, <2>5
<1>2. CASE ReconfigureBack
  BY <1>1, <1>2 DEF ReconfigureBack, loop
<1>3. CASE Restart
  <2>1. 3 \in 1 .. 5
    OBVIOUS
  <2>2. pc = "restart" /\ StartWorkers(cycle, FALSE) /\ live' = TRUE /\ UNCHANGED newBinary
        /\ pc' \in BranchLabels \cup {"top"}
    BY <1>3, <2>1, FromLabel DEF Restart, upgrade
  <2> QED BY <1>1, <2>2 DEF BranchLabels
<1>4. CASE Reconfigure
  BY <1>1, <1>4 DEF Reconfigure, upgrade
<1>5. CASE ChangeBinary
  <2>1. 5 \in 1 .. 5
    OBVIOUS
  <2>2. /\ pc = "change_binary" /\ pc' \in BranchLabels \cup {"top"}
        /\ UNCHANGED <<live, noaccepting, lost>> /\ flag' = flag \ {"change_binary"}
    BY <1>5, <2>1, FromLabel DEF ChangeBinary, loop
  <2>3. /\ Ending(flag) => Ending(flag')
        /\ "restart" \in flag => "restart" \in flag'
    BY <2>2 DEF Ending
  <2>4. CASE newBinary' = BadBinary /\ UNCHANGED <<table, kids>>
    <3>1. UNCHANGED <<used, exited, exiting, respawn, justSpawn, detached, proc>>
      BY <2>4 DEF table, kids
    <3>2. Active' = Active
      BY <3>1 DEF Active
    <3>3. Accounted'
      BY <1>0, <2>2, <3>1, <3>2 DEF Accounted
    <3>4. Staffed'
      BY <2>2, <2>3, <3>2 DEF Whole, Staffed, BranchLabels
    <3>5. newBinary' # NoBinary
      BY <2>4 DEF NoBinary, BadBinary
    <3> QED BY <2>2, <3>3, <3>4, <3>5 DEF Ended, BranchLabels
  <2>5. ASSUME NEW s \in Free(1), Run({s}, cycle), newBinary' = s,
               used' = used \cup {s}, detached' = detached \cup {s},
               exiting' = exiting \ {s}, respawn' = respawn \ {s},
               UNCHANGED <<exited, justSpawn>>
        PROVE  Accounted' /\ Staffed' /\ Ended'
    <3>1. s \in Slot /\ s \notin used
      BY DEF Free
    <3>2. \A r \in Slot : proc'[r] = IF r = s THEN "run" ELSE proc[r]
      BY <2>5 DEF Run
    <3>3. Active' = Active /\ s \notin Active
      BY <2>5, <3>1 DEF Active
    <3>4. Accounted'
      BY <1>0, <2>2, <2>5, <3>1, <3>2, <3>3 DEF Accounted
    <3>5. Staffed'
      BY <2>2, <2>3, <3>3 DEF Whole, Staffed, BranchLabels
    <3>6. newBinary' # NoBinary
      BY <2>5, <3>1 DEF NoBinary, Slot
    <3> QED BY <2>2, <3>4, <3>5, <3>6 DEF Ended, BranchLabels
  <2> QED BY <1>5, <2>4, <2>5 DEF ChangeBinary
<1> QED BY <1>2, <1>3, <1>4, <1>5

\* The children do not touch the table; a worker that ends with status 2 is lost.
LEMMA ChildrenAccounts ==
  ASSUME Whole, NEW s \in Slot, WorkerReads(s) \/ WorkerDone(s) \/ Dies(s) \/ Hangs(s)
  PROVE  Accounted' /\ Staffed' /\ Ended'
<1>1. UNCHANGED <<pc, flag, live, noaccepting, newBinary, used, exited, exiting, respawn,
                  justSpawn, detached>>
  BY DEF WorkerReads, WorkerDone, Dies, Hangs, ChildRest, loop, upgrade, table
<1>2. Active' = Active
  BY <1>1 DEF Active
<1>3. /\ \A r \in Slot : proc'[r] # "none" <=> proc[r] # "none"
      /\ \A r \in Slot : Alive(r)' => Alive(r)
  BY DEF WorkerReads, WorkerDone, Dies, Hangs, ChildRest, Ends, Whole, Types, KidsOK, Alive
<1>4. /\ lost => lost'
      /\ ~lost' => \A r \in Slot : proc'[r] = "fatal" => proc[r] = "fatal"
  BY DEF WorkerReads, WorkerDone, Dies, Hangs, ChildRest, Ends, Whole, Types, KidsOK
<1>5. Accounted'
  BY <1>1, <1>2, <1>3, <1>4 DEF Whole, Accounted
<1>6. Staffed'
  BY <1>1, <1>2, <1>4 DEF Whole, Staffed
<1>7. Ended'
  BY <1>1, <1>3 DEF Whole, Ended, Orphans
<1> QED BY <1>5, <1>6, <1>7

LEMMA InitWhole == Init => Whole
<1> SUFFICES ASSUME Init PROVE Whole
  OBVIOUS
<1>1. Types /\ Current
  BY InitCurrent
<1>2. PICK n \in 0 .. Workers :
          /\ lost = (n < Workers) /\ used = 1 .. n /\ respawn = 1 .. n
          /\ proc = [s \in Slot |-> IF s <= n THEN "run" ELSE "none"]
  BY DEF Init
<1>3. /\ pc = "top" /\ live = TRUE
      /\ exited = {} /\ exiting = {} /\ justSpawn = {} /\ detached = {}
  BY DEF Init
<1>4. n \in Nat /\ n <= Slots /\ Slots \in Nat
  OBVIOUS
<1>5. Accounted
  <2>1. {s \in Slot : proc[s] # "none"} = 1 .. n
    BY <1>2, <1>4 DEF Slot
  <2> QED BY <1>2, <1>3, <2>1 DEF Accounted, Active
<1>6. Staffed
  <2>1. Active = 1 .. n
    BY <1>2, <1>3 DEF Active
  <2>2. Cardinality(1 .. n) = n
    BY <1>4, FS_Interval
  <2>3. ~lost => n = Workers
    <3>1. ~(n < Workers) => n = Workers
      OBVIOUS
    <3> QED BY <1>2, <3>1
  <2> QED BY <1>3, <2>1, <2>2, <2>3 DEF Staffed
<1>7. Ended
  BY <1>3 DEF Ended
<1> QED BY <1>1, <1>5, <1>6, <1>7 DEF Whole

LEMMA StepWhole == Whole /\ [Next]_vars => Whole'
<1> SUFFICES ASSUME Whole, [Next]_vars PROVE Whole'
  OBVIOUS
<1>1. Types' /\ Current'
  BY StepCurrent DEF Whole
<1>2. Accounted' /\ Staffed' /\ Ended'
  BY LoopAccounts, SigsuspendAccounts, ReapAccounts, SignallingAccounts, StartingAccounts,
     ChildrenAccounts DEF Next, MasterStep, WorkerStep
<1> QED BY <1>1, <1>2 DEF Whole

\* ngx_start_worker_processes(), ngx_reap_children() and the marks on the slots:
\* whatever order signals, deaths, reloads and upgrades come in, a master that
\* sleeps has as many workers in service as configured, unless it ends, halted
\* accepting or lost one; for any number of workers, slots, signals and faults.
THEOREM ServedCorrect == Spec => []Served
<1>1. Whole => Served
  BY DEF Whole, Staffed, Served
<1> QED BY <1>1, InitWhole, StepWhole, PTL DEF Spec

\* ngx_process_cycle.c:197: with no new binary in its table a master that exits
\* leaves no worker behind, though `live' is only computed when it reaps.
THEOREM LeavesNoWorkerCorrect == Spec => []LeavesNoWorker
<1>1. Whole => LeavesNoWorker
  BY DEF Whole, Ended, LeavesNoWorker
<1> QED BY <1>1, InitWhole, StepWhole, PTL DEF Spec
=============================================================================
