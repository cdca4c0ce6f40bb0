--------------------------- MODULE WebBench_proofs ---------------------------
(***************************************************************************)
(* What a child of webbench, or of its rewriting, reports agrees with what *)
(* happened to it, up to the request its alarm cut (ChildAccounts), and    *)
(* the parent adds up what was reported (Conserved), for any number of     *)
(* children, requests and descriptors.                                     *)
(*                                                                         *)
(* The counters are compared only at the report; between, each is ahead of *)
(* or behind its history by what the child is about to count.  ChildInv    *)
(* says by how much at each place.                                         *)
(***************************************************************************)
EXTENDS WebBench, FiniteSetTheorems, TLAPS

One(b) == IF b THEN 1 ELSE 0

\* Children are forked in order: who is not yet forked has not started.
Forking ==
    ppc \in {"probe", "fork"} =>
        /\ i \in Nat /\ clients = Clients
        /\ \A c \in Child : c > i => cpc[c] = "none"

Types ==
    /\ cpc \in [Child -> ChildLabels]
    /\ expired \in [Child -> BOOLEAN] /\ cause \in [Child -> BOOLEAN]
    /\ speed \in [Child -> Nat] /\ failed \in [Child -> Nat]
    /\ pages \in [Child -> Nat] /\ errs \in [Child -> Nat]
    /\ fds \in [Child -> Int]

Between(c) == cpc[c] \in {"check", "report", "exited"}

\* A failure is put down to the alarm only while it is being counted.
Blamed(c) == cause[c] => cpc[c] \in {"connfail", "readfail", "died"} /\ expired[c]

\* webbench.c has counted the request the alarm cut until Check takes it back.
FailedInv(c) ==
    ~Rebuilt /\ cpc[c] # "died" =>
        IF Reporting(c) THEN failed[c] <= errs[c] /\ errs[c] <= failed[c] + 1
        ELSE \/ failed[c] = errs[c]
             \/ failed[c] = errs[c] + 1 /\ expired[c] /\ cpc[c] = "check"

SpeedInv(c) ==
    IF Rebuilt
    THEN cpc[c] # "died" => pages[c] = speed[c] + One(cpc[c] = "close")
    ELSE cpc[c] # "died" =>
            /\ pages[c] <= speed[c] + errs[c] + One(cpc[c] = "close")
            /\ speed[c] <= pages[c] + One(Between(c) /\ expired[c])
            /\ cpc[c] = "close" => speed[c] + 1 <= pages[c] \/ expired[c]

\* Behind socket() and before close() one descriptor is the request's.
DescriptorInv(c) ==
    CASE Between(c) -> fds[c] <= errs[c] + One(expired[c])
      [] cpc[c] \in {"none", "start", "socket"} -> fds[c] <= errs[c]
      [] OTHER -> cpc[c] # "died" => fds[c] <= errs[c] + 1

ChildInv(c) == Blamed(c) /\ FailedInv(c) /\ SpeedInv(c) /\ DescriptorInv(c)

IInv == Forking /\ Types /\ \A c \in Child : ChildInv(c)

USE WebBenchAssumption

-----------------------------------------------------------------------------
LEMMA InitInv == Init => IInv
  BY DEF Init, IInv, Forking, Types, ChildInv, Blamed, FailedInv, SpeedInv, DescriptorInv,
         Between, Reporting, One, Rebuilt, Child, ChildLabels

\* What the parent does: at most one child begins.
LEMMA ParentInv ==
  ASSUME IInv, ParentStep
  PROVE  IInv'
<1> USE DEF IInv, parentVars, countVars
<1>1. CASE Probe \/ ForkDone
  <2>1. UNCHANGED <<program, i, clients, cpc, expired, countVars, fds>>
        /\ (ppc' \in {"probe", "fork"} => ppc \in {"probe", "fork"})
    BY <1>1 DEF Probe, ForkDone, Return
  <2> QED BY <2>1 DEF Forking, Types, ChildInv, Blamed, FailedInv, SpeedInv,
                      DescriptorInv, Between, Reporting, Rebuilt
<1>2. CASE Fork
  <2>1. UNCHANGED <<program, clients, expired, countVars, fds>> /\ ppc = "fork"
    BY <1>2 DEF Fork
  <2>2. CASE UNCHANGED <<cpc, i>> /\ ppc' = "ended"
    BY <2>1, <2>2 DEF Forking, Types, ChildInv, Blamed, FailedInv, SpeedInv,
                      DescriptorInv, Between, Reporting, Rebuilt
  <2>3. CASE cpc' = [cpc EXCEPT ![i + 1] = "start"] /\ i' = i + 1 /\ ppc' = ppc /\ i < clients
    <3>1. i + 1 \in Child /\ cpc[i + 1] = "none"
      BY <2>1, <2>3 DEF Forking, Child
    <3>2. Types'
      BY <2>1, <2>3, <3>1 DEF Types, ChildLabels
    <3>3. Forking'
      <4>1. i \in Nat /\ clients = Clients /\ \A c \in Child : c > i => cpc[c] = "none"
        BY <2>1 DEF Forking
      <4>2. \A c \in Child : c > i + 1 => c > i /\ cpc'[c] = cpc[c]
        BY <2>3, <4>1 DEF Types, Child
      <4> QED BY <2>1, <2>3, <4>1, <4>2 DEF Forking
    <3>4. \A c \in Child : ChildInv(c)'
      BY <2>1, <2>3, <3>1 DEF Types, ChildInv, Blamed, FailedInv, SpeedInv,
                              DescriptorInv, Between, Reporting, Rebuilt, One
    <3> QED BY <3>2, <3>3, <3>4
  <2> QED BY <1>2, <2>2, <2>3 DEF Fork, Goto, Return
<1>3. CASE ReadReport
  <2>1. UNCHANGED <<program, cpc, expired, countVars, fds>>
        /\ ppc = "read" /\ ppc' \in {"read", "ended"}
    BY <1>3 DEF ReadReport, Return
  <2> QED BY <2>1 DEF Forking, Types, ChildInv, Blamed, FailedInv, SpeedInv,
                      DescriptorInv, Between, Reporting, Rebuilt
<1> QED BY <1>1, <1>2, <1>3 DEF ParentStep

\* What one child does is seen by no other; it is never on its way to being forked.
LEMMA OthersKept ==
  ASSUME IInv, NEW c \in Child, cpc[c] # "none",
         UNCHANGED <<program, ppc, i, clients>>,
         Types',
         \A d \in Child \ {c} : /\ cpc'[d] = cpc[d] /\ expired'[d] = expired[d]
                                /\ cause'[d] = cause[d] /\ fds'[d] = fds[d]
                                /\ speed'[d] = speed[d] /\ failed'[d] = failed[d]
                                /\ pages'[d] = pages[d] /\ errs'[d] = errs[d],
         ChildInv(c)'
  PROVE  IInv'
<1>1. Forking'
  BY DEF IInv, Forking
<1>2. ASSUME NEW d \in Child \ {c} PROVE ChildInv(d)'
  BY <1>2 DEF IInv, ChildInv, Blamed, FailedInv, SpeedInv, DescriptorInv, Between,
              Reporting, Rebuilt
<1> QED BY <1>1, <1>2 DEF IInv

\* The counters of a child stay as they are.
Unchanged(c) ==
    /\ expired'[c] = expired[c] /\ cause'[c] = cause[c] /\ fds'[c] = fds[c]
    /\ speed'[c] = speed[c] /\ failed'[c] = failed[c]
    /\ pages'[c] = pages[c] /\ errs'[c] = errs[c]

\* Moves that begin or end a child.
LEMMA MoveEnds ==
  ASSUME IInv, NEW c \in Child, UNCHANGED program, Unchanged(c), cpc[c] # "none",
         \/ cpc[c] = "start" /\ cpc'[c] = "check"
         \/ cpc[c] = "report" /\ cpc'[c] = "exited"
         \/ cpc'[c] = "died"
  PROVE  ChildInv(c)'
<1> USE DEF IInv, ChildInv, Unchanged, Rebuilt
<1>1. Blamed(c)'
  BY DEF Blamed
<1>2. FailedInv(c)'
  BY DEF Types, FailedInv, Reporting, Blamed
<1>3. SpeedInv(c)'
  <2>1. CASE cpc'[c] = "died"
    BY <2>1 DEF SpeedInv
  <2>2. CASE cpc'[c] # "died"
    <3>1. cpc[c] # "close" /\ cpc'[c] # "close" /\ Between(c)' /\ cpc[c] # "died"
      BY <2>2 DEF Between
    <3>2. CASE program = "mywebbench"
      BY <3>1, <3>2 DEF SpeedInv, One
    <3>3. CASE program # "mywebbench"
      <4>1. pages[c] <= speed[c] + errs[c] /\ speed[c] <= pages[c] + One(expired[c])
        BY <3>1, <3>3 DEF Types, SpeedInv, One
      <4>2. speed[c] <= pages[c] + One(Between(c)' /\ expired'[c])
        BY <3>1, <4>1 DEF Types, One
      <4>3. One(cpc'[c] = "close") = 0
        BY <3>1 DEF One
      <4> QED BY <3>1, <3>3, <4>1, <4>2, <4>3 DEF Types, SpeedInv
    <3> QED BY <3>2, <3>3
  <2> QED BY <2>1, <2>2
<1>4. DescriptorInv(c)'
  BY DEF Types, DescriptorInv, Between, One
<1> QED BY <1>1, <1>2, <1>3, <1>4

\* Moves inside a request.
LEMMA MoveWithin ==
  ASSUME IInv, NEW c \in Child, UNCHANGED program, Unchanged(c),
         cpc[c] \in {"connecting", "write", "readcheck", "read", "reading"},
         cpc'[c] \in {"write", "readcheck", "read", "reading", "close", "connfail",
                      "readfail"},
         cpc'[c] = "close" => expired[c] /\ ~Rebuilt
  PROVE  ChildInv(c)'
<1> USE DEF IInv, ChildInv, Unchanged, Rebuilt
<1>1. Blamed(c)'
  BY DEF Blamed
<1>2. FailedInv(c)'
  BY DEF Types, FailedInv, Reporting, Blamed
<1>3. SpeedInv(c)'
  <2>1. cpc[c] \notin {"close", "died"} /\ ~Between(c) /\ ~Between(c)' /\ One(FALSE) = 0
    BY DEF Between, One
  <2>2. CASE program = "mywebbench"
    BY <2>1, <2>2 DEF SpeedInv, One
  <2>3. CASE program # "mywebbench"
    <3>1. pages[c] <= speed[c] + errs[c] /\ speed[c] <= pages[c]
      BY <2>1, <2>3 DEF Types, SpeedInv, One
    <3>2. One(cpc'[c] = "close") \in {0, 1} /\ One(Between(c)' /\ expired'[c]) = 0
      BY <2>1 DEF One
    <3>3. cpc'[c] = "close" => speed'[c] + 1 <= pages'[c] \/ expired'[c]
      OBVIOUS
    <3> QED BY <2>3, <3>1, <3>2, <3>3 DEF Types, SpeedInv
  <2> QED BY <2>2, <2>3
<1>4. DescriptorInv(c)'
  BY DEF Types, DescriptorInv, Between, One
<1> QED BY <1>1, <1>2, <1>3, <1>4

\* Steps that move a child along and touch none of its counters.
LEMMA MovesInv ==
  ASSUME IInv, NEW c \in Child,
         Start(c) \/ Written(c) \/ ReadCheck(c) \/ EnterRead(c) \/ Connected(c)
            \/ Refused(c) \/ ReadData(c) \/ ReadError(c) \/ Report(c) \/ Die(c)
  PROVE  IInv'
<1> USE DEF IInv, parentVars, countVars, Goto
<1>1. cpc[c] # "none" /\ UNCHANGED <<program, ppc, i, clients, expired, countVars, fds>>
  BY DEF Start, Written, ReadCheck, EnterRead, Connected, Refused, ReadData, ReadError,
         Report, Die
<1>2. PICK l \in ChildLabels : cpc' = [cpc EXCEPT ![c] = l]
  BY DEF Start, Written, ReadCheck, EnterRead, Connected, Refused, ReadData, ReadError,
         Report, Die, ChildLabels
<1>3. Types'
  BY <1>1, <1>2 DEF Types
<1>4. ChildInv(c)'
  <2>1. cpc'[c] = l /\ Unchanged(c)
    BY <1>1, <1>2 DEF Types, Unchanged
  <2>2. CASE Start(c) \/ Report(c) \/ Die(c)
    <3>1. \/ cpc[c] = "start" /\ l = "check"
          \/ cpc[c] = "report" /\ l = "exited"
          \/ l = "died"
      BY <2>1, <2>2 DEF Types, Start, Report, Die
    <3> QED BY <1>1, <2>1, <3>1, MoveEnds
  <2>3. CASE Written(c) \/ ReadCheck(c) \/ EnterRead(c) \/ Connected(c)
               \/ Refused(c) \/ ReadData(c) \/ ReadError(c)
    <3>1. /\ cpc[c] \in {"connecting", "write", "readcheck", "read", "reading"}
          /\ l \in {"write", "readcheck", "read", "reading", "close", "connfail", "readfail"}
          /\ l = "close" => expired[c] /\ ~Rebuilt
      BY <2>1, <2>3 DEF Types, Written, ReadCheck, EnterRead, Connected, Refused,
                       ReadData, ReadError
    <3> QED BY <1>1, <2>1, <3>1, MoveWithin
  <2> QED BY <2>2, <2>3
<1> QED BY <1>1, <1>2, <1>3, <1>4, OthersKept DEF Types

\* The alarm, and the head of the request loop that looks at it.
LEMMA AlarmInv ==
  ASSUME IInv, NEW c \in Child, Alarm(c) \/ Check(c)
  PROVE  IInv'
<1> USE DEF IInv, parentVars, countVars, Goto
<1>1. cpc[c] # "none" /\ UNCHANGED <<program, ppc, i, clients, speed, pages, errs, fds>>
  BY DEF Alarm, Check
<1>2. Types'
  <2>1. CASE Alarm(c)
    BY <1>1, <2>1 DEF Types, Alarm, ChildLabels
  <2>2. CASE Check(c)
    <3>1. cpc' \in [Child -> ChildLabels]
      BY <2>2 DEF Types, Check, ChildLabels
    <3>2. failed' \in [Child -> Nat]
      BY <2>2 DEF Types, Check
    <3> QED BY <1>1, <2>2, <3>1, <3>2 DEF Types, Check
  <2> QED BY <2>1, <2>2
<1>3. ChildInv(c)'
  <2>1. CASE Alarm(c)
    BY <1>1, <2>1 DEF Types, ChildInv, Blamed, FailedInv, SpeedInv, DescriptorInv, Between,
         Reporting, Rebuilt, One, Alarm, Blocked, Gone, ChildLabels
  <2>2. CASE Check(c)
    BY <1>1, <2>2 DEF Types, ChildInv, Blamed, FailedInv, SpeedInv, DescriptorInv, Between,
         Reporting, Rebuilt, One, Check, ChildLabels
  <2> QED BY <2>1, <2>2
<1>4. \A d \in Child \ {c} : /\ cpc'[d] = cpc[d] /\ expired'[d] = expired[d]
                            /\ cause'[d] = cause[d] /\ failed'[d] = failed[d]
  BY DEF Types, Alarm, Check
<1> QED BY <1>1, <1>2, <1>3, <1>4, OthersKept

\* Descriptors and pages that come and go.
LEMMA RequestInv ==
  ASSUME IInv, NEW c \in Child, OpenSocket(c) \/ ReadEof(c) \/ PageDone(c)
  PROVE  IInv'
<1> USE DEF IInv, parentVars, countVars, Goto, Close
<1>1. cpc[c] # "none" /\ UNCHANGED <<program, ppc, i, clients, expired, failed, errs, cause>>
  BY DEF OpenSocket, ReadEof, PageDone
<1>2. Types'
  BY <1>1 DEF Types, OpenSocket, ReadEof, PageDone, ChildLabels
<1>3. ChildInv(c)'
  BY <1>1 DEF Types, ChildInv, Blamed, FailedInv, SpeedInv, DescriptorInv, Between,
         Reporting, Rebuilt, One, OpenSocket, ReadEof, PageDone, ChildLabels
<1>4. \A d \in Child \ {c} : /\ cpc'[d] = cpc[d] /\ speed'[d] = speed[d]
                            /\ pages'[d] = pages[d] /\ fds'[d] = fds[d]
  BY DEF Types, OpenSocket, ReadEof, PageDone
<1> QED BY <1>1, <1>2, <1>3, <1>4, OthersKept

\* Failures: what is counted, and what is put down to the alarm.
LEMMA FailureInv ==
  ASSUME IInv, NEW c \in Child,
         ConnectFailed(c) \/ WriteFailed(c) \/ ReadFailed(c) \/ CloseFailed(c)
  PROVE  IInv'
<1> USE DEF IInv, parentVars, countVars, Goto, Close, AfterFailure, CountFailure
<1>1. cpc[c] # "none" /\ UNCHANGED <<program, ppc, i, clients, expired, speed, pages>>
  BY DEF ConnectFailed, WriteFailed, ReadFailed, CloseFailed
<1>2. Types'
  <2> USE DEF ConnectFailed, WriteFailed, ReadFailed, CloseFailed
  <2>1. cpc' \in [Child -> ChildLabels] /\ cause' \in [Child -> BOOLEAN]
    BY DEF Types, ChildLabels
  <2>2. failed' \in [Child -> Nat]
    BY DEF Types
  <2>3. errs' \in [Child -> Nat]
    BY DEF Types
  <2>4. fds' \in [Child -> Int]
    BY DEF Types
  <2> QED BY <1>1, <2>1, <2>2, <2>3, <2>4 DEF Types
<1>3. ChildInv(c)'
  BY <1>1 DEF Types, ChildInv, Blamed, FailedInv, SpeedInv, DescriptorInv, Between,
         Reporting, Rebuilt, One, ConnectFailed, WriteFailed, ReadFailed, CloseFailed,
         ChildLabels
<1>4. \A d \in Child \ {c} : /\ cpc'[d] = cpc[d] /\ failed'[d] = failed[d]
                            /\ errs'[d] = errs[d] /\ cause'[d] = cause[d]
                            /\ fds'[d] = fds[d]
  BY DEF Types, ConnectFailed, WriteFailed, ReadFailed, CloseFailed
<1> QED BY <1>1, <1>2, <1>3, <1>4, OthersKept

-----------------------------------------------------------------------------
LEMMA NextInv == IInv /\ [Next]_vars => IInv'
<1> SUFFICES ASSUME IInv, [Next]_vars PROVE IInv'
  OBVIOUS
<1>1. CASE ParentStep
  BY <1>1, ParentInv
<1>2. ASSUME NEW c \in Child, ChildStep(c) PROVE IInv'
  BY <1>2, MovesInv, AlarmInv, RequestInv, FailureInv DEF ChildStep
<1>3. ASSUME NEW c \in Child, Answer(c) PROVE IInv'
  BY <1>3, MovesInv, RequestInv DEF Answer
<1>4. ASSUME NEW c \in Child, Alarm(c) \/ Die(c) PROVE IInv'
  BY <1>4, AlarmInv, MovesInv
<1>5. CASE UNCHANGED vars
  BY <1>5 DEF vars, parentVars, countVars, IInv, Forking, Types, ChildInv, Blamed,
         FailedInv, SpeedInv, DescriptorInv, Between, Reporting, Rebuilt
<1> QED BY <1>1, <1>2, <1>3, <1>4, <1>5 DEF Next

LEMMA InvAccounts == IInv => ChildAccounts
  BY DEF IInv, Types, ChildInv, FailedInv, SpeedInv, DescriptorInv, Between, Reporting, One,
         ChildAccounts, FailedWithinOne, SpeedWithinOne, DescriptorsKept

\* benchcore(): what a child writes to the pipe is what happened to it, but for
\* the request at which its alarm came in, and it has lost at most one
\* descriptor for each failed request, whenever the alarm falls.
THEOREM ChildAccountsCorrect == Spec => []ChildAccounts
<1>1. Spec => []IInv
  BY InitInv, NextInv, PTL DEF Spec
<1> QED BY <1>1, InvAccounts, PTL

-----------------------------------------------------------------------------
(* Sums.  An induction over the subsets of a finite set is an application of *)
(* WFMin to the proper subset relation, with the set of the good subsets in  *)
(* the place of a predicate.                                                 *)

\* Induction over the subsets of a finite set, for a set of subsets.
LEMMA SubsetInduction ==
  ASSUME NEW S, IsFiniteSet(S), NEW T,
         \A s \in SUBSET S : (\A t \in SUBSET s : t # s => t \in T) => s \in T
  PROVE  SUBSET S \subseteq T
<1> DEFINE U == {s \in SUBSET S : s \notin T}
           R == StrictSubsetOrdering(S)
<1>1. SUFFICES ASSUME U # {} PROVE FALSE
  OBVIOUS
<1>2. IsWellFoundedOn(R, SUBSET S)
  BY FS_StrictSubsetOrderingWellFounded, FS_FiniteSubsetsOfFinite
<1>3. U \subseteq SUBSET S
  OBVIOUS
<1>4. PICK s \in U : \A t \in U : ~(<<t, s>> \in R)
  <2> HIDE DEF R, U
  <2> QED BY <1>1, <1>2, <1>3, WFMin
<1>5. \A t \in SUBSET s : t # s => t \in T
  BY <1>4 DEF StrictSubsetOrdering
<1> QED BY <1>4, <1>5

Pick(s) == CHOOSE x \in s : TRUE
Recursion(g, f, D) == g = [s \in D |-> IF s = {} THEN 0 ELSE f[Pick(s)] + g[s \ {Pick(s)}]]

\* Two functions that satisfy the recursion agree.
LEMMA RecursionUnique ==
  ASSUME NEW f, NEW S, NEW S1, NEW S2, IsFiniteSet(S), S \subseteq S1, S \subseteq S2, NEW g, NEW h,
         Recursion(g, f, SUBSET S1), Recursion(h, f, SUBSET S2)
  PROVE  g[S] = h[S]
<1> DEFINE T == {s \in SUBSET S : g[s] = h[s]}
<1>1. ASSUME NEW s \in SUBSET S, \A t \in SUBSET s : t # s => t \in T
      PROVE  s \in T
  <2>1. s = {} => g[s] = 0 /\ h[s] = 0
    BY DEF Recursion
  <2>2. s # {} => /\ g[s] = f[Pick(s)] + g[s \ {Pick(s)}]
                  /\ h[s] = f[Pick(s)] + h[s \ {Pick(s)}]
    BY DEF Recursion
  <2>3. s # {} => s \ {Pick(s)} \in SUBSET s /\ s \ {Pick(s)} # s
    BY DEF Pick
  <2> QED BY <1>1, <2>1, <2>2, <2>3
<1>2. SUBSET S \subseteq T
  <2> HIDE DEF T
  <2> QED BY <1>1, SubsetInduction
<1> QED BY <1>2

\* The recursion defines a function.
LEMMA RecursionExists ==
  ASSUME NEW f, NEW S, IsFiniteSet(S)
  PROVE  \E g : Recursion(g, f, SUBSET S)
<1> DEFINE T == {s \in SUBSET S : \E g : Recursion(g, f, SUBSET s)}
<1>1. ASSUME NEW s \in SUBSET S, \A t \in SUBSET s : t # s => t \in T
      PROVE  s \in T
  <2> DEFINE G(t) == CHOOSE g : Recursion(g, f, SUBSET t)
             h == [t \in SUBSET s |-> IF t = {} THEN 0
                                      ELSE f[Pick(t)] + G(t \ {Pick(t)})[t \ {Pick(t)}]]
  <2>1. \A t \in SUBSET s : t # s => Recursion(G(t), f, SUBSET t)
    BY <1>1
  <2>2. \A t \in SUBSET s : IsFiniteSet(t)
    BY FS_Subset
  <2> HIDE DEF G
  <2>3. ASSUME NEW t \in SUBSET s, t # s PROVE h[t] = G(t)[t]
    <3>1. CASE t = {}
      BY <2>1, <2>3, <3>1 DEF Recursion
    <3>2. CASE t # {}
      <4> DEFINE u == t \ {Pick(t)}
      <4>1. u \in SUBSET t /\ u # t /\ u \in SUBSET s /\ u # s
        BY <3>2 DEF Pick
      <4> HIDE DEF u
      <4>2. G(u)[u] = G(t)[u]
        <5>1. IsFiniteSet(u) /\ u \subseteq u /\ u \subseteq t
          BY <2>2, <4>1
        <5>2. Recursion(G(u), f, SUBSET u)
          BY <2>1, <4>1
        <5>3. Recursion(G(t), f, SUBSET t)
          BY <2>1, <2>3
        <5> HIDE DEF h, T
        <5> QED BY <5>1, <5>2, <5>3, RecursionUnique
      <4>3. h[t] = f[Pick(t)] + G(u)[u]
        BY <3>2 DEF u
      <4>4. G(t)[t] = f[Pick(t)] + G(t)[u]
        BY <2>1, <2>3, <3>2 DEF Recursion, u
      <4> QED BY <4>2, <4>3, <4>4
    <3> QED BY <3>1, <3>2
  <2>4. \A t \in SUBSET s : t # {} => h[t \ {Pick(t)}] = G(t \ {Pick(t)})[t \ {Pick(t)}]
    <3> TAKE t \in SUBSET s
    <3> HAVE t # {}
    <3>1. t \ {Pick(t)} \in SUBSET s /\ t \ {Pick(t)} # s
      BY DEF Pick
    <3> HIDE DEF h
    <3> QED BY <2>3, <3>1
  <2>5. h = [t \in SUBSET s |-> IF t = {} THEN 0 ELSE f[Pick(t)] + h[t \ {Pick(t)}]]
    BY <2>4
  <2> HIDE DEF h
  <2>6. Recursion(h, f, SUBSET s)
    BY <2>5 DEF Recursion
  <2> QED BY <2>6
<1>2. S \in SUBSET S /\ SUBSET S \subseteq T
  <2> HIDE DEF T
  <2> QED BY <1>1, SubsetInduction
<1> QED BY <1>2

\* The sum over S is that recursion.
LEMMA SumRecursion ==
  ASSUME NEW f, NEW S, IsFiniteSet(S)
  PROVE  \E g : Recursion(g, f, SUBSET S) /\ SumOver(f, S) = g[S]
<1> DEFINE g == CHOOSE h : Recursion(h, f, SUBSET S)
<1>1. Recursion(g, f, SUBSET S)
  BY RecursionExists
<1>2. SumOver(f, S) = g[S]
  BY DEF SumOver, FoldFunctionOnSet, MapThenFoldSet, Recursion, Pick
<1> QED BY <1>1, <1>2

LEMMA SumEmpty == ASSUME NEW f PROVE SumOver(f, {}) = 0
<1>1. PICK g : Recursion(g, f, SUBSET {}) /\ SumOver(f, {}) = g[{}]
  BY SumRecursion, FS_EmptySet
<1> QED BY <1>1 DEF Recursion

LEMMA SumPick ==
  ASSUME NEW f, NEW S, IsFiniteSet(S), S # {}
  PROVE  Pick(S) \in S /\ SumOver(f, S) = f[Pick(S)] + SumOver(f, S \ {Pick(S)})
<1> DEFINE r == S \ {Pick(S)}
<1>1. PICK g : Recursion(g, f, SUBSET S) /\ SumOver(f, S) = g[S]
  BY SumRecursion
<1>2. g[S] = f[Pick(S)] + g[r]
  BY <1>1 DEF Recursion
<1>3. IsFiniteSet(r) /\ r \subseteq S
  BY FS_Subset
<1>4. PICK h : Recursion(h, f, SUBSET r) /\ SumOver(f, r) = h[r]
  BY <1>3, SumRecursion
<1>5. g[r] = h[r]
  <2> HIDE DEF r
  <2> QED BY <1>1, <1>3, <1>4, RecursionUnique
<1> QED BY <1>1, <1>2, <1>4, <1>5 DEF Pick

Ints(f, S) == \A x \in S : f[x] \in Int

LEMMA SumInt ==
  ASSUME NEW f, NEW S, IsFiniteSet(S), Ints(f, S)
  PROVE  SumOver(f, S) \in Int
<1> DEFINE T == {s \in SUBSET S : SumOver(f, s) \in Int}
<1>1. ASSUME NEW s \in SUBSET S, \A t \in SUBSET s : t # s => t \in T
      PROVE  s \in T
  <2>1. CASE s = {}
    BY <2>1, SumEmpty
  <2>2. CASE s # {}
    <3>1. IsFiniteSet(s)
      BY FS_Subset
    <3>2. Pick(s) \in s /\ SumOver(f, s) = f[Pick(s)] + SumOver(f, s \ {Pick(s)})
      BY <2>2, <3>1, SumPick
    <3>3. s \ {Pick(s)} \in SUBSET s /\ s \ {Pick(s)} # s
      BY <3>2
    <3>4. SumOver(f, s \ {Pick(s)}) \in Int /\ f[Pick(s)] \in Int
      BY <1>1, <3>2, <3>3 DEF Ints
    <3> QED BY <3>2, <3>4
  <2> QED BY <2>1, <2>2
<1>2. S \in SUBSET S /\ SUBSET S \subseteq T
  <2> HIDE DEF T
  <2> QED BY <1>1, SubsetInduction
<1> QED BY <1>2

\* The order of the summands does not matter.
LEMMA SumRemove ==
  ASSUME NEW f, NEW S, IsFiniteSet(S), Ints(f, S), NEW x \in S
  PROVE  SumOver(f, S) = f[x] + SumOver(f, S \ {x})
<1> DEFINE T == {s \in SUBSET S : \A y \in s : SumOver(f, s) = f[y] + SumOver(f, s \ {y})}
<1>1. ASSUME NEW s \in SUBSET S, \A t \in SUBSET s : t # s => t \in T
      PROVE  s \in T
  <2> SUFFICES ASSUME NEW y \in s PROVE SumOver(f, s) = f[y] + SumOver(f, s \ {y})
    OBVIOUS
  <2>1. \A t \in SUBSET S : IsFiniteSet(t) /\ SumOver(f, t) \in Int
    BY FS_Subset, SumInt DEF Ints
  <2>2. PICK z : z \in s /\ SumOver(f, s) = f[z] + SumOver(f, s \ {z})
    BY <2>1, SumPick
  <2>3. CASE y = z
    BY <2>2, <2>3
  <2>4. CASE y # z
    <3> DEFINE v == (s \ {z}) \ {y}
    <3>1. /\ s \ {z} \in SUBSET s /\ s \ {z} # s /\ y \in s \ {z}
          /\ s \ {y} \in SUBSET s /\ s \ {y} # s /\ z \in s \ {y}
          /\ (s \ {y}) \ {z} = v /\ v \in SUBSET S
      BY <2>2, <2>4
    <3>2. SumOver(f, s \ {z}) = f[y] + SumOver(f, v)
      BY <1>1, <3>1
    <3>3. SumOver(f, s \ {y}) = f[z] + SumOver(f, v)
      BY <1>1, <3>1
    <3>4. f[y] \in Int /\ f[z] \in Int /\ SumOver(f, v) \in Int
      BY <2>1, <2>2, <3>1 DEF Ints
    <3> HIDE DEF v
    <3> QED BY <2>2, <3>2, <3>3, <3>4
  <2> QED BY <2>3, <2>4
<1>2. S \in SUBSET S /\ SUBSET S \subseteq T
  <2> HIDE DEF T
  <2> QED BY <1>1, SubsetInduction
<1> QED BY <1>2

\* Two functions that agree on S.
LEMMA SumSame ==
  ASSUME NEW f, NEW g, NEW S, IsFiniteSet(S), \A x \in S : g[x] = f[x]
  PROVE  SumOver(g, S) = SumOver(f, S)
<1> DEFINE T == {s \in SUBSET S : SumOver(g, s) = SumOver(f, s)}
<1>1. ASSUME NEW s \in SUBSET S, \A t \in SUBSET s : t # s => t \in T
      PROVE  s \in T
  <2>1. CASE s = {}
    BY <2>1, SumEmpty
  <2>2. CASE s # {}
    <3> DEFINE y == Pick(s)
               r == s \ {y}
    <3>1. IsFiniteSet(s)
      BY FS_Subset
    <3>2. /\ y \in s /\ SumOver(g, s) = g[y] + SumOver(g, r)
          /\ SumOver(f, s) = f[y] + SumOver(f, r)
      BY <2>2, <3>1, SumPick
    <3>3. r \in SUBSET s /\ r # s
      BY <3>2
    <3>4. SumOver(g, r) = SumOver(f, r)
      BY <1>1, <3>3
    <3>5. g[y] = f[y]
      BY <3>2
    <3> QED BY <3>2, <3>4, <3>5
  <2> QED BY <2>1, <2>2
<1>2. S \in SUBSET S /\ SUBSET S \subseteq T
  <2> HIDE DEF T
  <2> QED BY <1>1, SubsetInduction
<1> QED BY <1>2

\* A sum over positions, and over the same positions one further.
LEMMA SumShift ==
  ASSUME NEW k \in Nat, NEW f, NEW g, Ints(f, 2 .. k + 1),
         \A n \in 1 .. k : g[n] = f[n + 1]
  PROVE  SumOver(f, 2 .. k + 1) = SumOver(g, 1 .. k)
<1> DEFINE S == 1 .. k
           Up(s) == {n + 1 : n \in s}
           T == {s \in SUBSET S : SumOver(f, Up(s)) = SumOver(g, s)}
<1>1. IsFiniteSet(S)
  BY FS_Interval
<1>2. \A s \in SUBSET S : Up(s) \subseteq 2 .. k + 1 /\ IsFiniteSet(Up(s)) /\ Ints(f, Up(s))
  <2> TAKE s \in SUBSET S
  <2>1. Up(s) \subseteq 2 .. k + 1
    OBVIOUS
  <2>2. IsFiniteSet(2 .. k + 1)
    BY FS_Interval
  <2> HIDE DEF Up
  <2> QED BY <2>1, <2>2, FS_Subset DEF Ints
<1>3. ASSUME NEW s \in SUBSET S, \A t \in SUBSET s : t # s => t \in T
      PROVE  s \in T
  <2>1. CASE s = {}
    <3>1. Up(s) = {}
      BY <2>1
    <3> QED BY <2>1, <3>1, SumEmpty
  <2>2. CASE s # {}
    <3> DEFINE y == Pick(s)
               r == s \ {y}
    <3>1. IsFiniteSet(s)
      BY <1>1, FS_Subset
    <3>2. y \in s /\ SumOver(g, s) = g[y] + SumOver(g, r)
      BY <2>2, <3>1, SumPick
    <3>3. r \in SUBSET s /\ r # s
      BY <3>2
    <3>4. SumOver(f, Up(r)) = SumOver(g, r)
      BY <1>3, <3>3
    <3>5. y \in 1 .. k /\ g[y] = f[y + 1]
      BY <3>2
    <3>6. y + 1 \in Up(s) /\ Up(s) \ {y + 1} = Up(r)
      BY <3>2, <3>5
    <3> HIDE DEF y, r, Up
    <3>7. SumOver(f, Up(s)) = f[y + 1] + SumOver(f, Up(r))
      BY <1>2, <3>6, SumRemove
    <3> QED BY <3>2, <3>4, <3>5, <3>7
  <2> QED BY <2>1, <2>2
<1>4. S \in SUBSET S /\ SUBSET S \subseteq T
  <2> HIDE DEF T, S
  <2> QED BY <1>1, <1>3, SubsetInduction
<1>5. Up(S) = 2 .. k + 1
  <2>1. ASSUME NEW m \in 2 .. k + 1 PROVE m \in Up(S)
    <3>1. m - 1 \in S /\ m = (m - 1) + 1
      OBVIOUS
    <3> QED BY <3>1
  <2>2. Up(S) \subseteq 2 .. k + 1
    BY <1>2
  <2> HIDE DEF Up, S
  <2> QED BY <2>1, <2>2
<1> QED BY <1>4, <1>5

-----------------------------------------------------------------------------
(* The pipe *)

ReportRecord == [speed : Nat, failed : Nat]
SumOfField(s, field) == SumOver([n \in DOMAIN s |-> s[n][field]], DOMAIN s)

\* A report that is written, and one that is read.
LEMMA FieldAppend ==
  ASSUME NEW s \in Seq(ReportRecord), NEW x \in ReportRecord, NEW field \in {"speed", "failed"}
  PROVE  /\ SumOfField(Append(s, x), field) = SumOfField(s, field) + x[field]
         /\ SumOfField(s, field) \in Int
<1> DEFINE a == Append(s, x)
           f == [n \in DOMAIN a |-> a[n][field]]
           g == [n \in DOMAIN s |-> s[n][field]]
           k == Len(s)
<1>1. /\ k \in Nat /\ DOMAIN s = 1 .. k /\ DOMAIN a = 1 .. k + 1
      /\ a[k + 1] = x /\ \A n \in 1 .. k : a[n] = s[n] /\ s[n] \in ReportRecord
  OBVIOUS
<1>2. \A r \in ReportRecord : r[field] \in Int
  BY DEF ReportRecord
<1> HIDE DEF a, k
<1>3. /\ \A n \in 1 .. k + 1 : f[n] = IF n = k + 1 THEN x[field] ELSE s[n][field]
      /\ \A n \in 1 .. k : g[n] = s[n][field]
  BY <1>1
<1>4. Ints(f, 1 .. k + 1) /\ Ints(g, 1 .. k)
  BY <1>1, <1>2, <1>3 DEF Ints
<1>5. /\ IsFiniteSet(1 .. k + 1) /\ IsFiniteSet(1 .. k)
      /\ k + 1 \in 1 .. k + 1 /\ (1 .. k + 1) \ {k + 1} = 1 .. k
  <2>1. 1 \in Int /\ k \in Int /\ k + 1 \in Int
    BY <1>1
  <2>2. IsFiniteSet(1 .. k + 1) /\ IsFiniteSet(1 .. k)
    BY <2>1, FS_Interval
  <2>3. k + 1 \in 1 .. k + 1 /\ (1 .. k + 1) \ {k + 1} = 1 .. k
    BY <1>1
  <2> QED BY <2>2, <2>3
<1>6. f[k + 1] = x[field] /\ \A n \in 1 .. k : f[n] = g[n]
  BY <1>1, <1>3
<1> HIDE DEF f, g
<1>7. SumOver(f, 1 .. k + 1) = f[k + 1] + SumOver(f, 1 .. k)
  <2>1. SumOver(f, 1 .. k + 1) = f[k + 1] + SumOver(f, (1 .. k + 1) \ {k + 1})
    BY <1>4, <1>5, SumRemove
  <2> QED BY <1>5, <2>1
<1>8. SumOver(f, 1 .. k) = SumOver(g, 1 .. k)
  BY <1>5, <1>6, SumSame
<1>9. SumOver(g, 1 .. k) \in Int /\ x[field] \in Int
  BY <1>2, <1>4, <1>5, SumInt
<1>10. SumOfField(a, field) = SumOver(f, 1 .. k + 1) /\ SumOfField(s, field) = SumOver(g, 1 .. k)
  BY <1>1 DEF SumOfField, f, g
<1>11. SumOfField(a, field) = SumOfField(s, field) + x[field] /\ SumOfField(s, field) \in Int
  BY <1>6, <1>7, <1>8, <1>9, <1>10
<1> QED BY <1>11 DEF a

LEMMA FieldTail ==
  ASSUME NEW s \in Seq(ReportRecord), s # <<>>, NEW field \in {"speed", "failed"}
  PROVE  /\ SumOfField(s, field) = Head(s)[field] + SumOfField(Tail(s), field)
         /\ SumOfField(Tail(s), field) \in Int
<1> DEFINE b == Tail(s)
           f == [n \in DOMAIN s |-> s[n][field]]
           g == [n \in DOMAIN b |-> b[n][field]]
           k == Len(s) - 1
<1>1. /\ k \in Nat /\ DOMAIN s = 1 .. k + 1 /\ DOMAIN b = 1 .. k /\ Head(s) = s[1]
      /\ \A n \in 1 .. k + 1 : s[n] \in ReportRecord
      /\ \A n \in 1 .. k : b[n] = s[n + 1]
  OBVIOUS
<1>2. \A r \in ReportRecord : r[field] \in Int
  BY DEF ReportRecord
<1> HIDE DEF b, k
<1>3. /\ \A n \in 1 .. k + 1 : f[n] = s[n][field]
      /\ \A n \in 1 .. k : g[n] = f[n + 1]
  <2>1. \A n \in 1 .. k : n + 1 \in 1 .. k + 1
    BY <1>1
  <2> QED BY <1>1, <2>1
<1>4. Ints(f, 1 .. k + 1) /\ Ints(f, 2 .. k + 1) /\ Ints(g, 1 .. k)
  <2>1. \A n \in 2 .. k + 1 : n \in 1 .. k + 1
    BY <1>1
  <2>2. \A n \in 1 .. k : n + 1 \in 1 .. k + 1
    BY <1>1
  <2> QED BY <1>1, <1>2, <1>3, <2>1, <2>2 DEF Ints
<1>5. /\ IsFiniteSet(1 .. k + 1) /\ IsFiniteSet(1 .. k)
      /\ 1 \in 1 .. k + 1 /\ (1 .. k + 1) \ {1} = 2 .. k + 1
  <2>1. 1 \in Int /\ k \in Int /\ k + 1 \in Int
    BY <1>1
  <2>2. IsFiniteSet(1 .. k + 1) /\ IsFiniteSet(1 .. k)
    BY <2>1, FS_Interval
  <2>3. 1 \in 1 .. k + 1 /\ (1 .. k + 1) \ {1} = 2 .. k + 1
    BY <1>1
  <2> QED BY <2>2, <2>3
<1>6. f[1] = s[1][field]
  BY <1>1, <1>3, <1>5
<1>7. Ints(f, 2 .. k + 1) /\ \A n \in 1 .. k : g[n] = f[n + 1]
  BY <1>3, <1>4
<1> HIDE DEF f, g
<1>8. SumOver(f, 1 .. k + 1) = f[1] + SumOver(f, 2 .. k + 1)
  <2> DEFINE S == 1 .. k + 1
  <2>2. IsFiniteSet(S) /\ 1 \in S /\ Ints(f, S)
    BY <1>4, <1>5
  <2> HIDE DEF S
  <2>1. SumOver(f, S) = f[1] + SumOver(f, S \ {1})
    BY <2>2, SumRemove
  <2> USE DEF S
  <2> QED BY <1>5, <2>1
<1>9. SumOver(f, 2 .. k + 1) = SumOver(g, 1 .. k)
  BY <1>1, <1>7, SumShift
<1>10. SumOver(g, 1 .. k) \in Int
  BY <1>4, <1>5, SumInt
<1>11. SumOfField(s, field) = SumOver(f, 1 .. k + 1) /\ SumOfField(b, field) = SumOver(g, 1 .. k)
  BY <1>1 DEF SumOfField, f, g
<1>12. SumOfField(s, field) = Head(s)[field] + SumOfField(b, field) /\ SumOfField(b, field) \in Int
  BY <1>1, <1>6, <1>8, <1>9, <1>10, <1>11
<1> QED BY <1>12 DEF b

-----------------------------------------------------------------------------
(* Reports *)

\* Behind socket() and before close() a descriptor is open.
HoldsSocket(c) == cpc[c] \in {"connecting", "write", "readcheck", "read", "reading",
                             "readfail", "close"}

Owned == \A c \in Child : HoldsSocket(c) => fds[c] > 0

Books ==
    /\ total.speed + SumOfField(pipe, "speed") = SumOver(speed, Exited)
    /\ total.failed + SumOfField(pipe, "failed") = SumOver(failed, Exited)
    /\ Clients - clients + Len(pipe) = Cardinality(Exited)
    /\ ppc = "read" => clients > 0

\* What the accounts of the children leave open of TypeOK.
ParentTypes ==
    /\ program \in Programs
    /\ ppc \in {"probe", "fork", "read", "ended"}
    /\ i \in Nat /\ clients \in 0 .. Clients /\ ret \in Nat \cup {-1}
    /\ total \in ReportRecord /\ pipe \in Seq(ReportRecord)
    /\ tries \in [Child -> Nat]
    /\ fds \in [Child -> 0 .. MaxFd]

CInv == IInv /\ ParentTypes /\ Owned /\ Books

LEMMA ExitedFinite == IsFiniteSet(Exited) /\ Exited \subseteq Child /\ IsFiniteSet(Child)
                      /\ Cardinality(Exited) \in 0 .. Clients
<1>1. IsFiniteSet(Child) /\ Cardinality(Child) = Clients
  BY FS_Interval DEF Child
<1>2. Exited \subseteq Child
  BY DEF Exited
<1> QED BY <1>1, <1>2, FS_Subset, FS_CardinalityType

LEMMA InitBooks == Init => CInv
<1> SUFFICES ASSUME Init PROVE CInv
  OBVIOUS
<1>1. IInv
  BY InitInv
<1>2. ParentTypes /\ Owned
  BY DEF Init, ParentTypes, Owned, HoldsSocket, ReportRecord
<1>3. Exited = {} /\ DOMAIN pipe = {} /\ Len(pipe) = 0
  BY DEF Init, Exited
<1>4. SumOfField(pipe, "speed") = 0 /\ SumOfField(pipe, "failed") = 0
  BY <1>3, SumEmpty DEF SumOfField
<1>5. SumOver(speed, {}) = 0 /\ SumOver(failed, {}) = 0 /\ Cardinality({}) = 0
  BY SumEmpty, FS_EmptySet
<1>6. total.speed = 0 /\ total.failed = 0 /\ clients = Clients /\ ppc # "read"
  BY DEF Init
<1> QED BY <1>1, <1>2, <1>3, <1>4, <1>5, <1>6 DEF CInv, Books

\* Who has exited counts no more.
LEMMA BooksKept ==
  ASSUME Books, UNCHANGED <<total, pipe, clients>>, ppc' = "read" => ppc = "read" \/ clients > 0,
         \A c \in Child : /\ cpc'[c] = "exited" <=> cpc[c] = "exited"
                          /\ cpc[c] = "exited" => speed'[c] = speed[c] /\ failed'[c] = failed[c]
  PROVE  Books'
<1>1. Exited' = Exited
  BY DEF Exited
<1>2. SumOver(speed', Exited) = SumOver(speed, Exited)
  BY ExitedFinite, SumSame DEF Exited
<1>3. SumOver(failed', Exited) = SumOver(failed, Exited)
  BY ExitedFinite, SumSame DEF Exited
<1> QED BY <1>1, <1>2, <1>3 DEF Books

LEMMA ReportBooks ==
  ASSUME CInv, NEW c \in Child, Report(c)
  PROVE  Books'
<1> USE DEF CInv, ParentTypes, IInv
<1> DEFINE x == [speed |-> speed[c], failed |-> failed[c]]
<1>1. /\ pipe' = Append(pipe, x) /\ cpc' = [cpc EXCEPT ![c] = "exited"] /\ cpc[c] = "report"
      /\ UNCHANGED <<total, clients, ppc, speed, failed>>
  BY DEF Report, Goto, parentVars, countVars
<1>2. x \in ReportRecord /\ x.speed = speed[c] /\ x.failed = failed[c] /\ speed[c] \in Nat /\ failed[c] \in Nat
  BY DEF Types, ReportRecord
<1>3. Exited' = Exited \cup {c} /\ c \notin Exited
  BY <1>1 DEF Exited, Types
<1> HIDE DEF x
<1>4. /\ SumOfField(pipe', "speed") = SumOfField(pipe, "speed") + speed[c]
      /\ SumOfField(pipe', "failed") = SumOfField(pipe, "failed") + failed[c]
      /\ SumOfField(pipe, "speed") \in Int /\ SumOfField(pipe, "failed") \in Int
  BY <1>1, <1>2, FieldAppend
<1>5. Len(pipe') = Len(pipe) + 1 /\ Len(pipe) \in Nat
  BY <1>1, <1>2
<1>6. Cardinality(Exited') = Cardinality(Exited) + 1 /\ Cardinality(Exited) \in Int
  <2>1. IsFiniteSet(Exited) /\ Cardinality(Exited) \in Int
    BY ExitedFinite
  <2> HIDE DEF CInv, ParentTypes, IInv
  <2>2. Cardinality(Exited \cup {c}) = Cardinality(Exited) + 1
    BY <1>3, <2>1, FS_AddElement
  <2> QED BY <1>3, <2>1, <2>2
<1>7. /\ IsFiniteSet(Exited \cup {c}) /\ (Exited \cup {c}) \ {c} = Exited /\ c \in Exited \cup {c}
      /\ Ints(speed, Exited \cup {c}) /\ Ints(failed, Exited \cup {c})
  BY <1>3, ExitedFinite, FS_AddElement DEF Ints, Types
<1> DEFINE E == Exited \cup {c}
<1>8. SumOver(speed, E) = speed[c] + SumOver(speed, Exited)
  <2>1. IsFiniteSet(E) /\ E \ {c} = Exited /\ c \in E /\ Ints(speed, E)
    BY <1>7
  <2> HIDE DEF E, CInv, ParentTypes, IInv
  <2>2. SumOver(speed, E) = speed[c] + SumOver(speed, E \ {c})
    BY <2>1, SumRemove
  <2> QED BY <2>1, <2>2
<1>9. SumOver(failed, E) = failed[c] + SumOver(failed, Exited)
  <2>1. IsFiniteSet(E) /\ E \ {c} = Exited /\ c \in E /\ Ints(failed, E)
    BY <1>7
  <2> HIDE DEF E, CInv, ParentTypes, IInv
  <2>2. SumOver(failed, E) = failed[c] + SumOver(failed, E \ {c})
    BY <2>1, SumRemove
  <2> QED BY <2>1, <2>2
<1>10. total.speed \in Int /\ total.failed \in Int
  BY DEF ReportRecord
<1>11. SumOver(speed, Exited) \in Int /\ SumOver(failed, Exited) \in Int
  BY <1>4, <1>10 DEF Books
<1>0. /\ total.speed + SumOfField(pipe, "speed") = SumOver(speed, Exited)
      /\ total.failed + SumOfField(pipe, "failed") = SumOver(failed, Exited)
      /\ Clients - clients + Len(pipe) = Cardinality(Exited)
      /\ clients \in Int
  BY DEF Books
<1> HIDE DEF CInv, ParentTypes, IInv, E
<1>12. total.speed + SumOfField(pipe', "speed") = SumOver(speed, E)
  BY <1>2, <1>4, <1>8, <1>10, <1>11, <1>0
<1>13. total.failed + SumOfField(pipe', "failed") = SumOver(failed, E)
  BY <1>2, <1>4, <1>9, <1>10, <1>11, <1>0
<1>14. Clients - clients + Len(pipe') = Cardinality(Exited')
  BY <1>5, <1>6, <1>0
<1> USE DEF CInv, ParentTypes, IInv, E
<1>15. SumOver(speed, Exited)' = SumOver(speed, Exited \cup {c})
       /\ SumOver(failed, Exited)' = SumOver(failed, Exited \cup {c})
  BY <1>1, <1>3
<1> QED BY <1>1, <1>12, <1>13, <1>14, <1>15 DEF Books

LEMMA ReadBooks ==
  ASSUME CInv, ReadReport
  PROVE  Books' /\ ParentTypes'
<1> USE DEF CInv, IInv
<1>1. UNCHANGED <<program, cpc, speed, failed, fds, tries>> /\ ppc = "read"
  BY DEF ReadReport, countVars
<1>2. Exited' = Exited
  BY <1>1 DEF Exited
<1>3. CASE pipe = <<>>
  <2>1. UNCHANGED <<total, pipe, clients, i>> /\ ppc' = "ended" /\ ret' = i
    BY <1>3 DEF ReadReport, Return
  <2>2. Books'
    BY <1>1, <2>1, BooksKept
  <2> QED BY <1>1, <2>1, <2>2 DEF ParentTypes
<1>4. CASE pipe # <<>>
  <2> DEFINE h == Head(pipe)
  <2>1. /\ total' = [speed |-> total.speed + h.speed, failed |-> total.failed + h.failed]
        /\ i' = h.speed /\ pipe' = Tail(pipe) /\ clients' = clients - 1
        /\ IF clients = 1 THEN ppc' = "ended" /\ ret' = h.speed ELSE UNCHANGED <<ppc, ret>>
    BY <1>4 DEF ReadReport, Return
  <2>2. /\ h \in ReportRecord /\ pipe \in Seq(ReportRecord) /\ Tail(pipe) \in Seq(ReportRecord)
        /\ Len(Tail(pipe)) = Len(pipe) - 1 /\ Len(pipe) \in Nat \ {0}
    BY <1>4 DEF ParentTypes
  <2>3. h.speed \in Nat /\ h.failed \in Nat /\ total.speed \in Nat /\ total.failed \in Nat
    BY <2>2 DEF ReportRecord, ParentTypes
  <2> HIDE DEF h
  <2>4. /\ SumOfField(pipe, "speed") = h.speed + SumOfField(pipe', "speed")
        /\ SumOfField(pipe, "failed") = h.failed + SumOfField(pipe', "failed")
        /\ SumOfField(pipe', "speed") \in Int /\ SumOfField(pipe', "failed") \in Int
    BY <1>4, <2>1, <2>2, FieldTail DEF h
  <2>5. total'.speed = total.speed + h.speed /\ total'.failed = total.failed + h.failed
    BY <2>1
  <2>6. clients \in Nat /\ clients > 0 /\ clients <= Clients /\ clients' = clients - 1
    BY <1>1, <2>1 DEF ParentTypes, Books
  <2>7. total'.speed + SumOfField(pipe', "speed") = SumOver(speed, Exited)
    BY <2>3, <2>4, <2>5 DEF Books
  <2>8. total'.failed + SumOfField(pipe', "failed") = SumOver(failed, Exited)
    BY <2>3, <2>4, <2>5 DEF Books
  <2>9. Clients - clients' + Len(pipe') = Cardinality(Exited)
    <3>1. Cardinality(Exited) \in Int /\ Clients - clients + Len(pipe) = Cardinality(Exited)
      BY ExitedFinite DEF Books
    <3> QED BY <2>1, <2>2, <2>6, <3>1
  <2>10. ppc' = "read" => clients' > 0
    BY <2>1, <2>6
  <2>11. Books'
    <3>1. SumOver(speed, Exited)' = SumOver(speed, Exited)
          /\ SumOver(failed, Exited)' = SumOver(failed, Exited)
          /\ Cardinality(Exited)' = Cardinality(Exited)
      BY <1>1, <1>2
    <3> QED BY <2>7, <2>8, <2>9, <2>10, <3>1 DEF Books
  <2>12. ParentTypes'
    <3>1. total' \in ReportRecord
      BY <2>1, <2>3 DEF ReportRecord
    <3>2. ppc' \in {"read", "ended"} /\ ret' \in Nat \cup {-1}
      BY <1>1, <2>1, <2>3 DEF ParentTypes
    <3> QED BY <1>1, <2>1, <2>2, <2>3, <2>6, <3>1, <3>2 DEF ParentTypes
  <2> QED BY <2>11, <2>12
<1> QED BY <1>3, <1>4

\* The rest of the parent.
LEMMA ParentBooks ==
  ASSUME CInv, Probe \/ Fork \/ ForkDone
  PROVE  Books' /\ ParentTypes' /\ Owned'
<1> USE DEF CInv, IInv
<1>1. UNCHANGED <<program, total, pipe, clients, speed, failed, fds, tries>>
  BY DEF Probe, Fork, ForkDone, countVars
<1>2. i' \in Nat /\ ppc' \in {"fork", "read", "ended"} /\ ret' \in Nat \cup {-1}
  BY DEF Probe, Fork, ForkDone, Return, ParentTypes
<1>3. ParentTypes'
  BY <1>1, <1>2 DEF ParentTypes
<1>4. \/ UNCHANGED cpc
      \/ i + 1 \in Child /\ cpc[i + 1] = "none" /\ cpc' = [cpc EXCEPT ![i + 1] = "start"]
  <2>1. CASE Probe \/ ForkDone
    BY <2>1 DEF Probe, ForkDone
  <2>2. CASE Fork
    <3>1. ppc = "fork" /\ i < clients
      BY <2>2 DEF Fork
    <3>2. i + 1 \in Child /\ cpc[i + 1] = "none"
      BY <3>1 DEF Forking, Child
    <3> QED BY <2>2, <3>2 DEF Fork, Goto
  <2> QED BY <2>1, <2>2
<1>5. \A c \in Child : /\ cpc'[c] = "exited" <=> cpc[c] = "exited"
                       /\ HoldsSocket(c)' => HoldsSocket(c)
  BY <1>4 DEF Types, HoldsSocket
<1>6. Owned'
  BY <1>1, <1>5 DEF Owned
<1>7. ppc' = "read" => clients > 0
  <2> SUFFICES ASSUME ppc' = "read" PROVE clients > 0
    OBVIOUS
  <2>1. ppc \in {"probe", "fork"}
    BY DEF Probe, Fork, ForkDone
  <2> QED BY <2>1 DEF Forking
<1>8. Books'
  BY <1>1, <1>5, <1>7, BooksKept
<1> QED BY <1>3, <1>6, <1>8

\* What the step of a child leaves alone, and what it may do to its descriptors.
StepOf(c) ==
    /\ UNCHANGED <<program, ppc, i, clients, total, ret>>
    /\ tries' \in [Child -> Nat]
    /\ cpc[c] # "exited" /\ pipe' = pipe /\ cpc'[c] # "exited"
    /\ \A d \in Child \ {c} : /\ cpc'[d] = cpc[d]
                              /\ speed'[d] = speed[d] /\ failed'[d] = failed[d]
    /\ \/ fds' = fds /\ (HoldsSocket(c)' => HoldsSocket(c))
       \/ fds[c] < MaxFd /\ fds' = [fds EXCEPT ![c] = @ + 1]
       \/ HoldsSocket(c) /\ fds' = [fds EXCEPT ![c] = @ - 1] /\ ~HoldsSocket(c)'

LEMMA MovesStep ==
  ASSUME CInv, NEW c \in Child,
         Start(c) \/ Written(c) \/ ReadCheck(c) \/ EnterRead(c) \/ Connected(c)
            \/ Refused(c) \/ ReadData(c) \/ ReadError(c) \/ Die(c)
  PROVE  StepOf(c)
<1> USE DEF CInv, IInv, Goto, parentVars, countVars
<1>1. /\ UNCHANGED <<program, ppc, i, clients, total, ret, pipe, speed, failed, fds, tries>>
      /\ cpc[c] \notin Gone
  BY DEF Start, Written, ReadCheck, EnterRead, Connected, Refused, ReadData, ReadError, Die,
         Gone
<1>2. PICK l \in ChildLabels : cpc' = [cpc EXCEPT ![c] = l] /\ l # "exited"
  BY DEF Start, Written, ReadCheck, EnterRead, Connected, Refused, ReadData, ReadError,
         Die, ChildLabels
<1>3. HoldsSocket(c)' => HoldsSocket(c)
  BY DEF Types, Start, Written, ReadCheck, EnterRead, Connected, Refused, ReadData,
         ReadError, Die, HoldsSocket
<1> QED BY <1>1, <1>2, <1>3 DEF Types, StepOf, ParentTypes, Gone

LEMMA AlarmStep ==
  ASSUME CInv, NEW c \in Child, Alarm(c) \/ Check(c)
  PROVE  StepOf(c)
<1> USE DEF CInv, IInv, Goto, parentVars, countVars
<1>1. UNCHANGED <<program, ppc, i, clients, total, ret, pipe, speed, fds>>
  BY DEF Alarm, Check
<1>2. /\ cpc[c] # "exited" /\ cpc'[c] # "exited"
      /\ \A d \in Child \ {c} : cpc'[d] = cpc[d] /\ failed'[d] = failed[d]
  BY DEF Types, Alarm, Check, Gone
<1>3. HoldsSocket(c)' => HoldsSocket(c)
  BY DEF Types, Alarm, Check, HoldsSocket, Blocked
<1>4. tries' \in [Child -> Nat]
  <2>1. tries \in [Child -> Nat]
    BY DEF ParentTypes
  <2>2. tries' = tries \/ tries' = [tries EXCEPT ![c] = @ + 1]
    BY DEF Alarm, Check
  <2> HIDE DEF CInv, IInv
  <2> QED BY <2>1, <2>2
<1> QED BY <1>1, <1>2, <1>3, <1>4 DEF StepOf

LEMMA RequestStep ==
  ASSUME CInv, NEW c \in Child, OpenSocket(c) \/ ReadEof(c) \/ PageDone(c)
  PROVE  StepOf(c)
<1> USE DEF CInv, IInv, Goto, Close, parentVars, countVars
<1>1. UNCHANGED <<program, ppc, i, clients, total, ret, pipe, failed, tries>>
  BY DEF OpenSocket, ReadEof, PageDone
<1>2. /\ cpc[c] # "exited" /\ cpc'[c] # "exited"
      /\ \A d \in Child \ {c} : cpc'[d] = cpc[d] /\ speed'[d] = speed[d]
  BY DEF Types, OpenSocket, ReadEof, PageDone
<1>3. \/ fds' = fds /\ (HoldsSocket(c)' => HoldsSocket(c))
      \/ fds[c] < MaxFd /\ fds' = [fds EXCEPT ![c] = @ + 1]
      \/ HoldsSocket(c) /\ fds' = [fds EXCEPT ![c] = @ - 1] /\ ~HoldsSocket(c)'
  BY DEF Types, OpenSocket, ReadEof, PageDone, HoldsSocket
<1> QED BY <1>1, <1>2, <1>3 DEF StepOf, ParentTypes

LEMMA FailureStep ==
  ASSUME CInv, NEW c \in Child,
         ConnectFailed(c) \/ WriteFailed(c) \/ ReadFailed(c) \/ CloseFailed(c)
  PROVE  StepOf(c)
<1> USE DEF CInv, IInv, Goto, Close, CountFailure, AfterFailure, parentVars, countVars
<1>1. UNCHANGED <<program, ppc, i, clients, total, ret, pipe, speed, tries>>
  BY DEF ConnectFailed, WriteFailed, ReadFailed, CloseFailed
<1>2. /\ cpc[c] # "exited" /\ cpc'[c] \in {"report", "check"}
      /\ \A d \in Child \ {c} : cpc'[d] = cpc[d] /\ failed'[d] = failed[d]
  BY DEF Types, ConnectFailed, WriteFailed, ReadFailed, CloseFailed
<1>3. \/ fds' = fds /\ ~HoldsSocket(c)'
      \/ HoldsSocket(c) /\ fds' = [fds EXCEPT ![c] = @ - 1] /\ ~HoldsSocket(c)'
  BY <1>2 DEF ConnectFailed, WriteFailed, ReadFailed, CloseFailed, HoldsSocket
<1> QED BY <1>1, <1>2, <1>3 DEF StepOf, ParentTypes

\* The report touches no descriptor and leaves the child without one in use.
LEMMA ReportStep ==
  ASSUME CInv, NEW c \in Child, Report(c)
  PROVE  Books' /\ ParentTypes' /\ Owned'
<1> USE DEF CInv, IInv
<1>1. Books'
  BY ReportBooks
<1>2. /\ UNCHANGED <<program, ppc, i, clients, total, ret, fds, tries>>
      /\ cpc' = [cpc EXCEPT ![c] = "exited"]
      /\ pipe' = Append(pipe, [speed |-> speed[c], failed |-> failed[c]])
  BY DEF Report, Goto, parentVars, countVars
<1>3. pipe' \in Seq(ReportRecord)
  BY <1>2 DEF ParentTypes, Types, ReportRecord
<1>4. Owned'
  BY <1>2 DEF Types, Owned, HoldsSocket
<1> QED BY <1>1, <1>2, <1>3, <1>4 DEF ParentTypes

\* The children.
LEMMA ChildBooks ==
  ASSUME CInv, NEW c \in Child, ChildStep(c) \/ Alarm(c) \/ Answer(c) \/ Die(c)
  PROVE  Books' /\ ParentTypes' /\ Owned'
<1>1. CASE Report(c)
  BY <1>1, ReportStep
<1>2. CASE ~Report(c)
  <2>1. StepOf(c)
    BY <1>2, MovesStep, AlarmStep, RequestStep, FailureStep DEF ChildStep, Answer
  <2>2. Books'
    <3>1. \A d \in Child : cpc'[d] = "exited" <=> cpc[d] = "exited"
      BY <2>1 DEF StepOf
    <3>2. \A d \in Child : cpc[d] = "exited" => speed'[d] = speed[d] /\ failed'[d] = failed[d]
      BY <2>1 DEF StepOf
    <3> QED BY <2>1, <3>1, <3>2, BooksKept DEF CInv, StepOf
  <2>3. fds \in [Child -> 0 .. MaxFd] /\ (HoldsSocket(c) => fds[c] > 0)
    BY DEF CInv, ParentTypes, Owned
  <2>4. /\ fds' \in [Child -> 0 .. MaxFd]
        /\ HoldsSocket(c)' => fds'[c] > 0
        /\ \A d \in Child \ {c} : fds'[d] = fds[d]
    BY <2>1, <2>3 DEF StepOf
  <2>5. \A d \in Child \ {c} : HoldsSocket(d)' = HoldsSocket(d)
    BY <2>1 DEF StepOf, HoldsSocket
  <2>6. Owned'
    BY <2>4, <2>5 DEF CInv, Owned
  <2>7. ParentTypes'
    BY <2>1, <2>4 DEF CInv, ParentTypes, StepOf
  <2> QED BY <2>2, <2>6, <2>7
<1> QED BY <1>1, <1>2

LEMMA NextBooks == CInv /\ [Next]_vars => CInv'
<1> SUFFICES ASSUME CInv, [Next]_vars PROVE CInv'
  OBVIOUS
<1>1. IInv'
  BY NextInv DEF CInv
<1>2. CASE ReadReport
  <2>1. Owned'
    BY <1>2 DEF CInv, ReadReport, Owned, HoldsSocket
  <2> QED BY <1>1, <1>2, <2>1, ReadBooks DEF CInv
<1>3. CASE Probe \/ Fork \/ ForkDone
  BY <1>1, <1>3, ParentBooks DEF CInv
<1>4. ASSUME NEW c \in Child, ChildStep(c) \/ Alarm(c) \/ Answer(c) \/ Die(c) PROVE CInv'
  BY <1>1, <1>4, ChildBooks DEF CInv
<1>5. CASE UNCHANGED vars
  <2>1. Books'
    BY <1>5, BooksKept DEF CInv, vars, parentVars, countVars
  <2>2. ParentTypes' /\ Owned'
    BY <1>5 DEF CInv, vars, parentVars, countVars, ParentTypes, Owned, HoldsSocket
  <2> QED BY <1>1, <2>1, <2>2 DEF CInv
<1> QED BY <1>2, <1>3, <1>4, <1>5 DEF Next, ParentStep

LEMMA CInvHolds == Spec => []CInv
  BY InitBooks, NextBooks, PTL DEF Spec

\* bench(): what the children report is what the parent adds up.  No report is
\* lost, counted twice or mixed up with another, whatever the order in which the
\* children write, whoever dies, and whenever the parent leaves.
THEOREM ConservedCorrect == Spec => []Conserved
<1>1. CInv => Conserved
  <2> SUFFICES ASSUME CInv PROVE Conserved
    OBVIOUS
  <2>1. TypeOK
    BY DEF CInv, IInv, Types, ParentTypes, TypeOK, ReportRecord
  <2>2. Piped("speed") = SumOfField(pipe, "speed") /\ Piped("failed") = SumOfField(pipe, "failed")
    BY DEF Piped, SumOfField
  <2> QED BY <2>1, <2>2 DEF CInv, Books, Conserved
<1> QED BY <1>1, CInvHolds, PTL

\* bench(): a parent that has counted clients down to 0 has the counts of all its
\* children, none of whom is missing, and nothing is left in the pipe.
THEOREM TotalsComplete ==
    Spec => [](clients = 0 => /\ pipe = <<>>
                              /\ total.speed = SumOver(speed, Child)
                              /\ total.failed = SumOver(failed, Child))
<1>1. ASSUME CInv, clients = 0
      PROVE  /\ pipe = <<>>
             /\ total.speed = SumOver(speed, Child) /\ total.failed = SumOver(failed, Child)
  <2>1. Cardinality(Exited) \in 0 .. Clients /\ Clients + Len(pipe) = Cardinality(Exited)
    BY <1>1, ExitedFinite DEF CInv, Books
  <2>2. pipe \in Seq(ReportRecord) /\ Len(pipe) \in Nat
    BY <1>1 DEF CInv, ParentTypes
  <2>3. Len(pipe) = 0 /\ Cardinality(Exited) = Clients
    BY <2>1, <2>2
  <2>4. pipe = <<>>
    BY <2>2, <2>3
  <2>5. Exited = Child
    <3>1. Cardinality(Child) = Clients
      BY FS_Interval DEF Child
    <3> QED BY <2>3, <3>1, ExitedFinite, FS_Subset
  <2>6. SumOfField(pipe, "speed") = 0 /\ SumOfField(pipe, "failed") = 0
    BY <2>4, SumEmpty DEF SumOfField
  <2>7. total.speed \in Nat /\ total.failed \in Nat
    BY <1>1 DEF CInv, ParentTypes, ReportRecord
  <2> QED BY <1>1, <2>4, <2>5, <2>6, <2>7 DEF CInv, Books
<1> QED BY <1>1, CInvHolds, PTL
=============================================================================
