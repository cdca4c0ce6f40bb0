------------------------------ MODULE WebBench ------------------------------
(***************************************************************************)
(* webbench: a parent forks one client per -c, each fetches the page over  *)
(* and over until its alarm, writes one report to a shared pipe and exits; *)
(* the parent adds the reports up.  Both programs of the repository are    *)
(* modelled: webbench.c and the author's rewriting of it, mywebbench.c,    *)
(* which differ in benchcore().                                            *)
(*                                                                         *)
(* connect() and read() are entered in one step and return in another: the *)
(* alarm interrupts only a call that is already blocked (sa_flags = 0).    *)
(* Reports are shorter than PIPE_BUF, so their writes are atomic.          *)
(***************************************************************************)
EXTENDS Integers, Sequences, FiniteSets, Functions

CONSTANTS
    Clients,    \* -c
    Programs,   \* which of the two programs
    MaxTry,     \* bound on the requests of one child
    MaxFd,      \* the descriptors a child may still open (RLIMIT_NOFILE)
    MaxDead     \* bound on the children that are killed

ASSUME WebBenchAssumption ==
    /\ Clients \in Nat \ {0}
    /\ Programs \subseteq {"webbench", "mywebbench"}
    /\ MaxTry \in Nat /\ MaxFd \in Nat /\ MaxDead \in Nat

Child == 1 .. Clients

VARIABLES
    program,    \* the program that runs
    ppc,        \* where the parent is in bench()
    i,          \* its local i: the loop counter, then what fscanf stored
    clients,    \* the global, counted down for each report
    total,      \* its speed and failed
    ret,        \* what bench() returned
    pipe,       \* mypipe: the reports written and not read
    cpc,        \* where each child is
    expired,    \* its timerexpired
    speed, failed,  \* its counters
    fds,        \* the descriptors it has opened and not closed
    tries,      \* bound: its requests so far
    pages,      \* history: pages it read to the end
    errs,       \* history: requests that failed for another reason than its alarm
    cause       \* history: its current failure comes from the alarm

parentVars == <<program, ppc, i, clients, total, ret>>
countVars == <<speed, failed, pages, errs, cause>>
vars == <<parentVars, pipe, cpc, expired, countVars, fds, tries>>

Goto(c, l) == cpc' = [cpc EXCEPT ![c] = l]

Blocked == {"connecting", "reading"}
Gone == {"exited", "died"}
Rebuilt == program = "mywebbench"

Init ==
    /\ program \in Programs
    /\ ppc = "probe" /\ i = 0 /\ clients = Clients
    /\ total = [speed |-> 0, failed |-> 0] /\ ret = -1
    /\ pipe = <<>>
    /\ cpc = [c \in Child |-> "none"]
    /\ expired = [c \in Child |-> FALSE]
    /\ speed = [c \in Child |-> 0] /\ failed = [c \in Child |-> 0]
    /\ fds = [c \in Child |-> 0] /\ tries = [c \in Child |-> 0]
    /\ pages = [c \in Child |-> 0] /\ errs = [c \in Child |-> 0]
    /\ cause = [c \in Child |-> FALSE]

-----------------------------------------------------------------------------
(* bench(): the parent *)

Return(code) == ppc' = "ended" /\ ret' = code

\* The server is tried once; then the pipe is made.
Probe ==
    /\ ppc = "probe"
    /\ \/ ppc' = "fork" /\ UNCHANGED ret
       \/ \E code \in {1, 3} : Return(code)
    /\ UNCHANGED <<program, i, clients, total, pipe, cpc, expired, countVars, fds, tries>>

Fork ==
    /\ ppc = "fork"
    /\ i < clients
    /\ \/ /\ Goto(i + 1, "start")
          /\ i' = i + 1
          /\ UNCHANGED <<ppc, ret>>
       \/ /\ Return(3)
          /\ UNCHANGED <<cpc, i>>
    /\ UNCHANGED <<program, clients, total, pipe, expired, countVars, fds, tries>>

\* All are forked: fdopen() of the read end, which may fail.
ForkDone ==
    /\ ppc = "fork"
    /\ i = clients
    /\ \/ ppc' = "read" /\ UNCHANGED ret
       \/ Return(3)
    /\ UNCHANGED <<program, i, clients, total, pipe, cpc, expired, countVars, fds, tries>>

\* The processes that hold mypipe[1]: nobody closes it before exiting, not
\* even the parent, which is process 0.
WriteEnds ==
    {c \in Child : cpc[c] \notin {"none"} \cup Gone}
        \cup (IF ppc = "ended" THEN {} ELSE {0})

\* Mutant: the last report replaces the totals.
ReadReportOverwrites ==
    /\ ppc = "read"
    /\ pipe # <<>>
    /\ total' = Head(pipe)
    /\ i' = Head(pipe).speed
    /\ pipe' = Tail(pipe)
    /\ clients' = clients - 1
    /\ IF clients = 1 THEN Return(Head(pipe).speed) ELSE UNCHANGED <<ppc, ret>>
    /\ UNCHANGED <<program, cpc, expired, countVars, fds, tries>>

\* Mutant: clients-- == 0, one report too many.
ReadReportPostDecrement ==
    /\ ppc = "read"
    /\ pipe # <<>>
    /\ total' = [speed |-> total.speed + Head(pipe).speed,
                 failed |-> total.failed + Head(pipe).failed]
    /\ i' = Head(pipe).speed
    /\ pipe' = Tail(pipe)
    /\ clients' = clients - 1
    /\ IF clients = 0 THEN Return(Head(pipe).speed) ELSE UNCHANGED <<ppc, ret>>
    /\ UNCHANGED <<program, cpc, expired, countVars, fds, tries>>

\* fscanf() returns a report, or fails at the end of the file, when the pipe
\* is empty and no write end is open.  bench() ends by `return i'.
ReadReport ==
    /\ ppc = "read"
    /\ pipe # <<>> \/ WriteEnds = {}
    /\ IF pipe = <<>>
       THEN /\ Return(i)
            /\ UNCHANGED <<total, i, pipe, clients>>
       ELSE /\ total' = [speed |-> total.speed + Head(pipe).speed,
                         failed |-> total.failed + Head(pipe).failed]
            /\ i' = Head(pipe).speed
            /\ pipe' = Tail(pipe)
            /\ clients' = clients - 1
            /\ IF clients = 1 THEN Return(Head(pipe).speed) ELSE UNCHANGED <<ppc, ret>>
    /\ UNCHANGED <<program, cpc, expired, countVars, fds, tries>>

-----------------------------------------------------------------------------
(* benchcore(): the children *)

\* sigaction() and alarm() are in place.
Start(c) ==
    /\ cpc[c] = "start"
    /\ Goto(c, "check")
    /\ UNCHANGED <<parentVars, pipe, expired, countVars, fds, tries>>

\* alarm_handler(); a blocked call returns -1 with EINTR.
Alarm(c) ==
    /\ cpc[c] \notin {"none", "start", "report"} \cup Gone
    /\ ~expired[c]
    /\ expired' = [expired EXCEPT ![c] = TRUE]
    /\ IF cpc[c] \in Blocked
       THEN /\ Goto(c, IF cpc[c] = "connecting" THEN "connfail" ELSE "readfail")
            /\ cause' = [cause EXCEPT ![c] = TRUE]
       ELSE UNCHANGED <<cpc, cause>>
    /\ UNCHANGED <<parentVars, pipe, speed, failed, pages, errs, fds, tries>>

\* Mutant: the request the alarm cut is counted as failed.
CheckUncorrected(c) ==
    /\ cpc[c] = "check"
    /\ \/ expired[c] /\ Goto(c, "report") /\ UNCHANGED tries
       \/ /\ ~expired[c] /\ tries[c] < MaxTry
          /\ tries' = [tries EXCEPT ![c] = @ + 1]
          /\ Goto(c, "socket")
    /\ UNCHANGED <<parentVars, pipe, expired, countVars, fds>>

\* The head of the loop; webbench.c corrects failed "by signal".
Check(c) ==
    /\ cpc[c] = "check"
    /\ IF expired[c]
       THEN /\ failed' = IF ~Rebuilt /\ failed[c] > 0
                         THEN [failed EXCEPT ![c] = @ - 1] ELSE failed
            /\ Goto(c, "report")
            /\ UNCHANGED tries
       ELSE /\ tries[c] < MaxTry
            /\ tries' = [tries EXCEPT ![c] = @ + 1]
            /\ Goto(c, "socket")
            /\ UNCHANGED failed
    /\ UNCHANGED <<parentVars, pipe, expired, speed, pages, errs, cause, fds>>

\* Socket(): gethostbyname() and socket(), which may fail, and the call of
\* connect().
OpenSocket(c) ==
    /\ cpc[c] = "socket"
    /\ \/ /\ fds[c] < MaxFd
          /\ fds' = [fds EXCEPT ![c] = @ + 1]
          /\ Goto(c, "connecting")
       \/ /\ Goto(c, "connfail")
          /\ UNCHANGED fds
    /\ UNCHANGED <<parentVars, pipe, expired, countVars, tries>>

Connected(c) ==
    /\ cpc[c] = "connecting"
    /\ Goto(c, "write")
    /\ UNCHANGED <<parentVars, pipe, expired, countVars, fds, tries>>

Refused(c) ==
    /\ cpc[c] = "connecting"
    /\ Goto(c, "connfail")
    /\ UNCHANGED <<parentVars, pipe, expired, countVars, fds, tries>>

\* After a failed request webbench.c tries again, mywebbench.c gives up.
AfterFailure == IF Rebuilt THEN "report" ELSE "check"

\* A failure is counted, and in the histories put down to its cause.
CountFailure(c, counted) ==
    /\ failed' = IF counted THEN [failed EXCEPT ![c] = @ + 1] ELSE failed
    /\ errs' = IF cause[c] THEN errs ELSE [errs EXCEPT ![c] = @ + 1]
    /\ cause' = [cause EXCEPT ![c] = FALSE]
    /\ Goto(c, AfterFailure)
    /\ UNCHANGED <<parentVars, pipe, expired, speed, pages, tries>>

\* Socket() returned -1: nobody closes the descriptor connect() failed on.
ConnectFailed(c) ==
    /\ cpc[c] = "connfail"
    /\ CountFailure(c, TRUE)
    /\ UNCHANGED fds

Close(c) == fds' = [fds EXCEPT ![c] = @ - 1]

\* write() is short or fails, or shutdown() does.
WriteFailed(c) ==
    /\ cpc[c] = "write"
    /\ CountFailure(c, TRUE)
    /\ Close(c)

Written(c) ==
    /\ cpc[c] = "write"
    /\ Goto(c, "readcheck")
    /\ UNCHANGED <<parentVars, pipe, expired, countVars, fds, tries>>

\* The head of the read loop: only webbench.c looks at the timer.
ReadCheck(c) ==
    /\ cpc[c] = "readcheck"
    /\ Goto(c, IF expired[c] /\ ~Rebuilt THEN "close" ELSE "read")
    /\ UNCHANGED <<parentVars, pipe, expired, countVars, fds, tries>>

EnterRead(c) ==
    /\ cpc[c] = "read"
    /\ Goto(c, "reading")
    /\ UNCHANGED <<parentVars, pipe, expired, countVars, fds, tries>>

ReadData(c) ==
    /\ cpc[c] = "reading"
    /\ Goto(c, "readcheck")
    /\ UNCHANGED <<parentVars, pipe, expired, countVars, fds, tries>>

ReadEof(c) ==
    /\ cpc[c] = "reading"
    /\ Goto(c, "close")
    /\ pages' = [pages EXCEPT ![c] = @ + 1]
    /\ UNCHANGED <<parentVars, pipe, expired, speed, failed, errs, cause, fds, tries>>

ReadError(c) ==
    /\ cpc[c] = "reading"
    /\ Goto(c, "readfail")
    /\ UNCHANGED <<parentVars, pipe, expired, countVars, fds, tries>>

ReadFailed(c) ==
    /\ cpc[c] = "readfail"
    /\ CountFailure(c, ~Rebuilt)
    /\ Close(c)

PageDone(c) ==
    /\ cpc[c] = "close"
    /\ Close(c)
    /\ speed' = [speed EXCEPT ![c] = @ + 1]
    /\ Goto(c, "check")
    /\ UNCHANGED <<parentVars, pipe, expired, failed, pages, errs, cause, tries>>

\* webbench.c counts a close() that fails; the descriptor is gone all the same.
CloseFailed(c) ==
    /\ cpc[c] = "close" /\ ~Rebuilt
    /\ CountFailure(c, TRUE)
    /\ Close(c)

\* fprintf(f, "%d %d %d\n", speed, failed, bytes); fclose(f); return 0
Report(c) ==
    /\ cpc[c] = "report"
    /\ pipe' = Append(pipe, [speed |-> speed[c], failed |-> failed[c]])
    /\ Goto(c, "exited")
    /\ UNCHANGED <<parentVars, expired, countVars, fds, tries>>

\* A child is gone without a report: it is killed, by a user or by SIGPIPE when
\* it writes to a connection the server has reset, or its sigaction() or its
\* fdopen() failed.
Die(c) ==
    /\ cpc[c] \notin {"none"} \cup Gone
    /\ Cardinality({d \in Child : cpc[d] = "died"}) < MaxDead
    /\ Goto(c, "died")
    /\ UNCHANGED <<parentVars, pipe, expired, countVars, fds, tries>>

-----------------------------------------------------------------------------
ParentStep == Probe \/ Fork \/ ForkDone \/ ReadReport

ChildStep(c) ==
    \/ Start(c) \/ Check(c) \/ OpenSocket(c) \/ ConnectFailed(c) \/ WriteFailed(c)
    \/ Written(c) \/ ReadCheck(c) \/ EnterRead(c) \/ ReadFailed(c) \/ PageDone(c)
    \/ CloseFailed(c) \/ Report(c)

\* The answers of the server.
Answer(c) ==
    Connected(c) \/ Refused(c) \/ ReadData(c) \/ ReadEof(c) \/ ReadError(c)

Next == ParentStep \/ \E c \in Child : ChildStep(c) \/ Alarm(c) \/ Answer(c) \/ Die(c)

Spec == Init /\ [][Next]_vars

\* The processes are scheduled and the alarm goes off.
Fairness == WF_vars(ParentStep) /\ \A c \in Child : WF_vars(ChildStep(c)) /\ WF_vars(Alarm(c))

FairSpec == Spec /\ Fairness

\* Moreover the server answers every call.
ServedSpec == FairSpec /\ \A c \in Child : WF_vars(Answer(c))

-----------------------------------------------------------------------------
(* Properties *)

ChildLabels == {"none", "start", "check", "socket", "connecting", "connfail", "write",
                "readcheck", "read", "reading", "readfail", "close", "report",
                "exited", "died"}

\* The types of the counters and program counters.
TypeOK ==
    /\ program \in Programs
    /\ ppc \in {"probe", "fork", "read", "ended"}
    /\ i \in Nat /\ clients \in 0 .. Clients /\ ret \in Nat \cup {-1}
    /\ total \in [speed : Nat, failed : Nat]
    /\ pipe \in Seq([speed : Nat, failed : Nat])
    /\ cpc \in [Child -> ChildLabels]
    /\ expired \in [Child -> BOOLEAN] /\ cause \in [Child -> BOOLEAN]
    /\ \A f \in {speed, failed, tries, pages, errs} : f \in [Child -> Nat]
    /\ fds \in [Child -> 0 .. MaxFd]

Exited == {c \in Child : cpc[c] = "exited"}
SumOver(f, S) == FoldFunctionOnSet(+, 0, f, S)
Piped(field) == SumOver([n \in DOMAIN pipe |-> pipe[n][field]], DOMAIN pipe)

\* Every report of an exited child is in the pipe or in the parent's totals,
\* once, whatever the order in which the children end.
Conserved ==
    /\ TypeOK
    /\ total.speed + Piped("speed") = SumOver(speed, Exited)
    /\ total.failed + Piped("failed") = SumOver(failed, Exited)
    /\ Clients - clients + Len(pipe) = Cardinality(Exited)

Reporting(c) == cpc[c] \in {"report", "exited"}

\* The correction "by signal" of webbench.c is off by at most one request per
\* child.
FailedWithinOne ==
    ~Rebuilt => \A c \in Child : Reporting(c)
        => failed[c] <= errs[c] /\ errs[c] <= failed[c] + 1

\* The number of successes is the number of pages read to their end; in
\* webbench.c but for the one the timer cuts short and those whose close()
\* failed.
SpeedWithinOne ==
    \A c \in Child : Reporting(c) =>
        IF Rebuilt THEN speed[c] = pages[c]
        ELSE speed[c] <= pages[c] + 1 /\ pages[c] <= speed[c] + errs[c]

\* Only failed requests cost descriptors, at most one each; between two
\* requests a child holds no other.
DescriptorsKept ==
    \A c \in Child : cpc[c] \in {"check", "report", "exited"}
        => fds[c] <= errs[c] + (IF expired[c] THEN 1 ELSE 0)

\* What a child reports is what happened to it, but for the request at which the
\* alarm came in, and its descriptors are those of failed requests.
ChildAccounts == FailedWithinOne /\ SpeedWithinOne /\ DescriptorsKept

\* With a server that answers and children that are not killed webbench.c
\* ends, whichever child reports first.
Died == {c \in Child : cpc[c] = "died"}
Ends == <>(ppc = "ended" \/ Died # {} \/ Rebuilt)

\* webbench/README.MD: when the time is up the signal makes the process leave
\* its loop.
TimerEnds == \A c \in Child : expired[c] ~> cpc[c] \in Gone

\* "Some of our childrens died.": the parent ends also when a child died.
DeathNoticed == Died # {} ~> ppc = "ended"
=============================================================================
