----------------------------- MODULE TinyHttpd -----------------------------
(***************************************************************************)
(* tinyhttpd/httpd.c (and test3.c, the author's annotated copy): a thread  *)
(* per connection, a CGI process per dynamic request, two pipes between    *)
(* them.  The subject is who holds which descriptor: threads share one     *)
(* table, and fork() copies all of it, the descriptors of the requests of  *)
(* other threads included.  Nothing is marked close-on-exec.               *)
(*                                                                         *)
(* The script behind execl() is external: it is one of a few programs that *)
(* read their input and write their output in different orders.  Bodies    *)
(* and outputs are counted in blocks, a pipe holds Cap of them.            *)
(* When the server dies (up = FALSE) the model stops.                      *)
(***************************************************************************)
EXTENDS Integers, Sequences, SequencesExt, FiniteSets

CONSTANTS
    Conn,       \* the connections, one each
    Requests,   \* the kinds of requests the clients send
    Scripts,    \* the kinds of CGI programs
    Body,       \* Content-Length of a POST, in blocks
    Output,     \* the blocks a script writes
    Cap,        \* the capacity of a pipe
    MaxFd,      \* the descriptors the server may still open (RLIMIT_NOFILE)
    CallsFail,  \* fork() and pthread_create() may fail
    MaxHang     \* bound on the clients that hang up

Server == "server"  \* its place in fd; the CGI process of connection c is c

ASSUME TinyHttpdAssumption ==
    /\ Server \notin Conn
    /\ Requests \subseteq {"other", "missing", "file", "unreadable", "get", "post", "nolength"}
    /\ Scripts \subseteq {"polite", "eager", "slurp", "deaf", "noexec"}
    /\ {Body, Output, Cap, MaxFd, MaxHang} \subseteq Nat /\ Cap > 0
    /\ CallsFail \in BOOLEAN

VARIABLES
    up,         \* the server runs
    pc,         \* where the thread of each connection is
    req, script,    \* what the client asked for, what would answer it
    fd,         \* the descriptors of each process, pairs <<kind, connection>>
    cpc,        \* where the CGI process of each connection is
    inBuf, outBuf,  \* blocks in the pipes cgi_input and cgi_output
    copied,     \* i of the loop that copies the body
    taken, put, \* blocks the script has read and written
    resp,       \* what the client was sent
    trouble,    \* history: connections that met a failing call
    hung        \* clients that hung up

pipeVars == <<inBuf, outBuf, copied, taken, put>>
askVars == <<req, script, hung>>
vars == <<up, pc, fd, cpc, pipeVars, resp, trouble, askVars>>

Goto(c, l) == pc' = [pc EXCEPT ![c] = l]
ChildGoto(c, l) == cpc' = [cpc EXCEPT ![c] = l]
Send(c, item) == resp' = [resp EXCEPT ![c] = Append(@, item)]
Opens(s) == fd' = [fd EXCEPT ![Server] = @ \cup s]
Closes(p, s) == fd' = [fd EXCEPT ![p] = @ \ s]
Room(n) == Cardinality(fd[Server]) + n <= MaxFd
Holders(d) == {p \in {Server} \cup Conn : d \in fd[p]}
Trouble(c) == trouble' = trouble \cup {c}

\* exit(1) of error_die(), SIGPIPE, or a crash: all threads are gone.
Dies == up' = FALSE /\ UNCHANGED <<pc, fd, cpc, pipeVars, resp, trouble, askVars>>

Init ==
    /\ up = TRUE
    /\ pc = [c \in Conn |-> "none"]
    /\ req \in [Conn -> Requests] /\ script \in [Conn -> Scripts]
    /\ fd = [p \in {Server} \cup Conn |-> {}]
    /\ cpc = [c \in Conn |-> "none"]
    /\ inBuf = [c \in Conn |-> 0] /\ outBuf = [c \in Conn |-> 0]
    /\ copied = [c \in Conn |-> 0]
    /\ taken = [c \in Conn |-> 0] /\ put = [c \in Conn |-> 0]
    /\ resp = [c \in Conn |-> <<>>]
    /\ trouble = {} /\ hung = {}

-----------------------------------------------------------------------------
(* main() *)

\* A descriptor that cannot be allocated makes accept() fail: error_die().
\* The socket is nobody's when pthread_create() fails.
Accept(c) ==
    /\ pc[c] = "none"
    /\ IF Room(1)
       THEN /\ Opens({<<"sock", c>>})
            /\ \/ Goto(c, "parse") /\ UNCHANGED trouble
               \/ CallsFail /\ Goto(c, "nothread") /\ Trouble(c)
            /\ UNCHANGED <<up, cpc, pipeVars, resp, askVars>>
       ELSE Dies

-----------------------------------------------------------------------------
(* accept_request(): one thread *)

ThreadRest == UNCHANGED <<up, cpc, pipeVars, askVars>>

\* unimplemented() and return: the socket stays open.
Unimplemented(c) ==
    /\ pc[c] = "parse" /\ req[c] = "other"
    /\ Send(c, "error") /\ Goto(c, "done")
    /\ UNCHANGED <<fd, trouble>> /\ ThreadRest

\* Mutant: returns without close(client), as unimplemented() does.
RefuseUnclosed(c) ==
    /\ pc[c] = "parse" /\ req[c] \in {"missing", "nolength"}
    /\ Send(c, "error") /\ Goto(c, "done")
    /\ UNCHANGED <<fd, trouble>> /\ ThreadRest

\* not_found(), or bad_request() for a POST without a Content-Length.
Refuse(c) ==
    /\ pc[c] = "parse" /\ req[c] \in {"missing", "nolength"}
    /\ Send(c, "error") /\ Goto(c, "close")
    /\ UNCHANGED <<fd, trouble>> /\ ThreadRest

\* serve_file(): when fopen() fails, the client is sent not_found() and
\* fclose(NULL) follows.
ServeFile(c) ==
    /\ pc[c] = "parse" /\ req[c] \in {"file", "unreadable"}
    /\ IF req[c] = "file" /\ Room(1)
       THEN /\ Opens({<<"file", c>>}) /\ Goto(c, "serve")
            /\ UNCHANGED <<resp, trouble>> /\ ThreadRest
       ELSE Dies

\* headers(), cat(), fclose().
SendFile(c) ==
    /\ pc[c] = "serve"
    /\ resp' = [resp EXCEPT ![c] = @ \o <<"status", "block">>]
    /\ Closes(Server, {<<"file", c>>}) /\ Goto(c, "close")
    /\ UNCHANGED trouble /\ ThreadRest

Close(c) ==
    /\ pc[c] = "close"
    /\ Closes(Server, {<<"sock", c>>}) /\ Goto(c, "done")
    /\ UNCHANGED <<resp, trouble>> /\ ThreadRest

-----------------------------------------------------------------------------
(* execute_cgi(): the thread *)

OutPipe(c) == {<<"outR", c>>, <<"outW", c>>}
InPipe(c) == {<<"inR", c>>, <<"inW", c>>}

\* cannot_execute() and return: what was opened before stays open.
CannotExecute(c) ==
    /\ Send(c, "error") /\ Goto(c, "close") /\ Trouble(c)
    /\ UNCHANGED fd

PipeOutput(c) ==
    /\ pc[c] = "parse" /\ req[c] \in {"get", "post"}
    /\ IF Room(2)
       THEN Opens(OutPipe(c)) /\ Goto(c, "pipe") /\ UNCHANGED <<resp, trouble>>
       ELSE CannotExecute(c)
    /\ ThreadRest

PipeInput(c) ==
    /\ pc[c] = "pipe"
    /\ IF Room(2)
       THEN Opens(InPipe(c)) /\ Goto(c, "fork") /\ UNCHANGED <<resp, trouble>>
       ELSE CannotExecute(c)
    /\ ThreadRest

ForkCgi(c) ==
    /\ pc[c] = "fork"
    /\ \/ /\ fd' = [fd EXCEPT ![c] = fd[Server]]
          /\ ChildGoto(c, "status") /\ Goto(c, "status")
          /\ UNCHANGED <<resp, trouble>>
       \/ /\ CallsFail
          /\ CannotExecute(c)
          /\ UNCHANGED cpc
    /\ UNCHANGED <<up, pipeVars, askVars>>

\* Both processes run the lines after fork() that send "200 OK".
SendStatus(c) ==
    /\ pc[c] = "status"
    /\ Send(c, "status") /\ Goto(c, "ends")
    /\ UNCHANGED <<fd, trouble>> /\ ThreadRest

\* Mutant: cgi_input[0] stays open.
CloseOutputEnd(c) ==
    /\ pc[c] = "ends"
    /\ Closes(Server, {<<"outW", c>>}) /\ Goto(c, "copy")
    /\ UNCHANGED <<resp, trouble>> /\ ThreadRest

\* Mutant: cgi_output[1] stays open.
CloseInputEnd(c) ==
    /\ pc[c] = "ends"
    /\ Closes(Server, {<<"inR", c>>}) /\ Goto(c, "copy")
    /\ UNCHANGED <<resp, trouble>> /\ ThreadRest

CloseEnds(c) ==
    /\ pc[c] = "ends"
    /\ Closes(Server, {<<"outW", c>>, <<"inR", c>>}) /\ Goto(c, "copy")
    /\ UNCHANGED <<resp, trouble>> /\ ThreadRest

\* One turn of the loop that copies the body: recv(), whose result nobody
\* looks at, and write(), which waits for room, or raises SIGPIPE when
\* nobody can read.
ContentLength(c) == IF req[c] = "post" THEN Body ELSE 0

CopyBody(c) ==
    /\ pc[c] = "copy"
    /\ copied[c] < ContentLength(c)
    /\ IF Holders(<<"inR", c>>) = {} THEN Dies
       ELSE /\ inBuf[c] < Cap
            /\ inBuf' = [inBuf EXCEPT ![c] = @ + 1]
            /\ copied' = [copied EXCEPT ![c] = @ + 1]
            /\ UNCHANGED <<up, pc, fd, cpc, outBuf, taken, put, resp, trouble, askVars>>

CopyDone(c) ==
    /\ pc[c] = "copy"
    /\ copied[c] = ContentLength(c)
    /\ Goto(c, "relay")
    /\ UNCHANGED <<fd, resp, trouble>> /\ ThreadRest

\* Mutant: an empty pipe ends the relaying.
RelayAvailable(c) ==
    /\ pc[c] = "relay"
    /\ IF outBuf[c] > 0
       THEN /\ outBuf' = [outBuf EXCEPT ![c] = @ - 1]
            /\ Send(c, "block")
            /\ UNCHANGED <<pc, fd, cpc, inBuf, copied, taken, put>>
       ELSE /\ Goto(c, "wait")
            /\ Closes(Server, {<<"outR", c>>, <<"inW", c>>})
            /\ UNCHANGED <<resp, cpc, pipeVars>>
    /\ UNCHANGED <<up, trouble, askVars>>

\* while (read(cgi_output[0]) > 0) send(): ends when no write end is left.
Relay(c) ==
    /\ pc[c] = "relay"
    /\ \/ /\ outBuf[c] > 0
          /\ outBuf' = [outBuf EXCEPT ![c] = @ - 1]
          /\ Send(c, "block")
          /\ UNCHANGED <<pc, fd, cpc, inBuf, copied, taken, put>>
       \/ /\ outBuf[c] = 0 /\ Holders(<<"outW", c>>) = {}
          /\ Goto(c, "wait")
          /\ Closes(Server, {<<"outR", c>>, <<"inW", c>>})
          /\ UNCHANGED <<resp, cpc, pipeVars>>
    /\ UNCHANGED <<up, trouble, askVars>>

Waitpid(c) ==
    /\ pc[c] = "wait" /\ cpc[c] = "zombie"
    /\ ChildGoto(c, "reaped") /\ Goto(c, "close")
    /\ UNCHANGED <<up, fd, pipeVars, resp, trouble, askVars>>

-----------------------------------------------------------------------------
(* execute_cgi(): the CGI process *)

ChildRest == UNCHANGED <<up, pc, trouble, askVars>>

ChildSendStatus(c) ==
    /\ cpc[c] = "status"
    /\ Send(c, "status") /\ ChildGoto(c, "exec")
    /\ UNCHANGED <<fd, pipeVars>> /\ ChildRest

Exit(c) == ChildGoto(c, "zombie") /\ fd' = [fd EXCEPT ![c] = {}]

\* Mutant: the child closes its own end of cgi_input.
ExecSwapped(c) ==
    /\ cpc[c] = "exec"
    /\ Closes(c, {<<"outR", c>>, <<"inR", c>>}) /\ ChildGoto(c, "script")
    /\ UNCHANGED <<resp, pipeVars>> /\ ChildRest

\* dup2(), close(cgi_output[0]), close(cgi_input[1]), execl() or exit(0).
Exec(c) ==
    /\ cpc[c] = "exec"
    /\ IF script[c] = "noexec" THEN Exit(c)
       ELSE Closes(c, {<<"outR", c>>, <<"inW", c>>}) /\ ChildGoto(c, "script")
    /\ UNCHANGED <<resp, pipeVars>> /\ ChildRest

\* The script: has it read what it wants to read?
Read(c) ==
    CASE script[c] = "deaf" -> TRUE
      [] script[c] = "slurp" -> inBuf[c] = 0 /\ Holders(<<"inW", c>>) = {}
      [] OTHER -> taken[c] = ContentLength(c)

ScriptReads(c) ==
    /\ cpc[c] = "script" /\ ~Read(c) /\ inBuf[c] > 0
    /\ script[c] = "eager" => put[c] = Output
    /\ inBuf' = [inBuf EXCEPT ![c] = @ - 1] /\ taken' = [taken EXCEPT ![c] = @ + 1]
    /\ UNCHANGED <<fd, cpc, outBuf, copied, put, resp>> /\ ChildRest

ScriptWrites(c) ==
    /\ cpc[c] = "script" /\ put[c] < Output
    /\ script[c] = "eager" \/ Read(c)
    /\ outBuf[c] < Cap
    /\ outBuf' = [outBuf EXCEPT ![c] = @ + 1] /\ put' = [put EXCEPT ![c] = @ + 1]
    /\ UNCHANGED <<fd, cpc, inBuf, copied, taken, resp>> /\ ChildRest

ScriptExits(c) ==
    /\ cpc[c] = "script" /\ put[c] = Output /\ Read(c)
    /\ Exit(c)
    /\ UNCHANGED <<resp, pipeVars>> /\ ChildRest

-----------------------------------------------------------------------------
(* The client *)

HangUp(c) ==
    /\ pc[c] \notin {"none", "done", "nothread"}
    /\ c \notin hung /\ Cardinality(hung) < MaxHang
    /\ hung' = hung \cup {c}
    /\ UNCHANGED <<up, pc, fd, cpc, pipeVars, resp, trouble, req, script>>

\* send() to a client that hung up may raise SIGPIPE, in a thread or in the
\* CGI process.
Sigpipe(c) ==
    /\ c \in hung
    /\ \/ pc[c] \in {"status", "serve"} \/ (pc[c] = "relay" /\ outBuf[c] > 0)
       \/ pc[c] = "parse" /\ req[c] \in {"other", "missing", "nolength"}
       \/ ~Room(2) /\ (pc[c] = "pipe" \/ (pc[c] = "parse" /\ req[c] \in {"get", "post"}))
       \/ CallsFail /\ pc[c] = "fork"
    /\ Dies

ChildSigpipe(c) ==
    /\ c \in hung /\ cpc[c] = "status"
    /\ Exit(c)
    /\ UNCHANGED <<resp, pipeVars>> /\ ChildRest

-----------------------------------------------------------------------------
Thread(c) ==
    \/ Unimplemented(c) \/ Refuse(c) \/ ServeFile(c) \/ SendFile(c) \/ Close(c)
    \/ PipeOutput(c) \/ PipeInput(c) \/ ForkCgi(c) \/ SendStatus(c) \/ CloseEnds(c)
    \/ CopyBody(c) \/ CopyDone(c) \/ Relay(c) \/ Waitpid(c)

Cgi(c) ==
    ChildSendStatus(c) \/ Exec(c) \/ ScriptReads(c) \/ ScriptWrites(c) \/ ScriptExits(c)

Next ==
    /\ up
    /\ \E c \in Conn :
        Accept(c) \/ Thread(c) \/ Cgi(c) \/ HangUp(c) \/ Sigpipe(c) \/ ChildSigpipe(c)

Spec == Init /\ [][Next]_vars

\* Threads and processes are scheduled, and the script makes progress when the
\* pipes let it.
FairSpec ==
    Spec /\ \A c \in Conn : WF_vars(up /\ Thread(c)) /\ WF_vars(up /\ Cgi(c))

-----------------------------------------------------------------------------
(* Properties *)

Kinds == {"sock", "file", "outR", "outW", "inR", "inW"}
Threads == {c \in Conn : pc[c] \notin {"none", "nothread", "done"}}

\* The types, and the limits of the descriptor table and of the pipes.
TypeOK ==
    /\ up \in BOOLEAN
    /\ pc \in [Conn -> {"none", "nothread", "parse", "serve", "pipe", "fork", "status",
                        "ends", "copy", "relay", "wait", "close", "done"}]
    /\ cpc \in [Conn -> {"none", "status", "exec", "script", "zombie", "reaped"}]
    /\ fd \in [{Server} \cup Conn -> SUBSET (Kinds \X Conn)]
    /\ Cardinality(fd[Server]) <= MaxFd
    /\ inBuf \in [Conn -> 0 .. Cap] /\ outBuf \in [Conn -> 0 .. Cap]
    /\ copied \in [Conn -> 0 .. Body] /\ taken \in [Conn -> 0 .. Body]
    /\ put \in [Conn -> 0 .. Output]
    /\ trouble \subseteq Conn /\ hung \subseteq Conn

\* When a thread has left the loop that relays the output, the client has been
\* sent all the script wrote, behind both status lines, whichever processes
\* inherited the pipe and whoever ran first.
AnswerComplete ==
    \A c \in Conn :
        c \notin trouble \cup hung /\ (pc[c] = "wait" \/ cpc[c] = "reaped") =>
            /\ resp[c] = <<"status", "status">> \o [n \in 1 .. put[c] |-> "block"]
            /\ put[c] = IF script[c] = "noexec" THEN 0 ELSE Output

\* A request that meets no failing call leaves no descriptor behind, but for the
\* socket of a method that is not implemented.
NothingLeft ==
    /\ TypeOK
    /\ \A c \in Conn : pc[c] = "done" /\ c \notin trouble =>
          \A d \in fd[Server] : d[2] = c => req[c] = "other" /\ d[1] = "sock"

\* The server dies only at a full descriptor table, at fclose(NULL), or by a
\* write to a client that hung up or to a script that left its input; never
\* because of the order in which threads and CGI processes close their ends.
Survives ==
    ~up => \/ hung # {} \/ ~Room(1)
           \/ \E c \in Conn : pc[c] = "parse" /\ req[c] = "unreadable"
           \/ \E c \in Conn : pc[c] = "copy" /\ script[c] \in {"deaf", "noexec"}

\* A script that cannot go on without the server, whose thread waits for it:
\* it reads to an end of file that comes only behind its own output, or both
\* pipes are full.
Wedged(c) ==
    /\ cpc[c] = "script"
    /\ \/ script[c] = "slurp" /\ ~Read(c) /\ inBuf[c] = 0
       \/ put[c] < Output /\ outBuf[c] = Cap /\ inBuf[c] = Cap

\* Every accepted request comes to its end: no thread waits for a pipe end that
\* only itself, or a process that waits for it, could close; only a script that
\* is wedged with its own thread holds up others too, by what it inherited.
Answered ==
    \A c \in Conn : (c \in Threads) ~>
        (pc[c] \in {"done", "nothread"} \/ ~up \/ \E d \in Conn : Wedged(d))

\* The client sees the end of the answer: the processes that inherited its
\* socket from the table end as well.
ConnectionEnds ==
    \A c \in Conn : (pc[c] = "done" /\ req[c] # "other") ~>
        (Holders(<<"sock", c>>) = {} \/ ~up \/ \E d \in Conn : Wedged(d))
=============================================================================
