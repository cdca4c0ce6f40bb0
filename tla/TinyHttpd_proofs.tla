-------------------------- MODULE TinyHttpd_proofs --------------------------
(***************************************************************************)
(* Proofs about TinyHttpd, for any number of connections, any sizes of     *)
(* bodies, outputs and pipes and any limit of descriptors: whole answers   *)
(* (AnswerComplete), no forgotten descriptors (NothingLeft), and a server  *)
(* that dies only for the listed reasons (Survives); and about             *)
(* HttpdGetLine, for any buffer and anything a client may send: no byte    *)
(* lost (NothingLost).                                                     *)
(*                                                                         *)
(* The first three rest on what is open where.  The server has a           *)
(* connection's descriptors according to the place of its thread (Table),  *)
(* and its CGI process has its own pipe ends until it exits (Inherited):   *)
(* so an end of file, or a pipe without a reader, means that this process  *)
(* is gone, even if the others that inherited the pipe have gone before.   *)
(***************************************************************************)
EXTENDS TinyHttpd, HttpdGetLine, FiniteSetTheorems, WellFoundedInduction, SequenceTheorems, TLAPS

USE TinyHttpdAssumption

\* What a client can be sent.
Item == {"error", "status", "block"}

Labels == {"none", "nothread", "parse", "serve", "pipe", "fork", "status", "ends", "copy",
           "relay", "wait", "close", "done"}
CgiLabels == {"none", "status", "exec", "script", "zombie", "reaped"}

Tables(f) ==
    /\ f \in [{Server} \cup Conn -> SUBSET (Kinds \X Conn)]
    /\ IsFiniteSet(f[Server]) /\ Cardinality(f[Server]) <= MaxFd

Types ==
    /\ up \in BOOLEAN
    /\ pc \in [Conn -> Labels] /\ cpc \in [Conn -> CgiLabels]
    /\ Tables(fd)
    /\ inBuf \in [Conn -> 0 .. Cap] /\ outBuf \in [Conn -> 0 .. Cap]
    /\ copied \in [Conn -> 0 .. Body] /\ taken \in [Conn -> 0 .. Body]
    /\ put \in [Conn -> 0 .. Output]
    /\ trouble \subseteq Conn /\ hung \subseteq Conn
    /\ req \in [Conn -> Requests] /\ script \in [Conn -> Scripts]
    /\ resp \in [Conn -> Seq(Item)]

\* The places of a thread that has a CGI process to serve.
Serving == {"status", "ends", "copy", "relay"}

\* The thread knows of its CGI process, and only a thread that is about to end
\* has met a failing call.
Places(c) ==
    /\ pc[c] \in {"none", "nothread", "parse", "serve", "pipe", "fork"} => cpc[c] = "none"
    /\ pc[c] \in Serving => cpc[c] \in {"status", "exec", "script", "zombie"}
    /\ pc[c] = "wait" => cpc[c] = "zombie"
    /\ pc[c] \in {"close", "done"} => cpc[c] \in {"none", "reaped"}
    /\ cpc[c] = "script" => script[c] # "noexec"
    /\ req[c] = "other" => pc[c] \in {"none", "nothread", "parse", "done"}
    /\ c \in trouble => pc[c] \in {"nothread", "close", "done"} /\ cpc[c] = "none"

\* What the server has open for a connection, at each place of its thread.
Open(c) ==
    CASE pc[c] \in {"parse", "close", "wait"} -> {"sock"}
      [] pc[c] = "serve" -> {"sock", "file"}
      [] pc[c] = "pipe" -> {"sock", "outR", "outW"}
      [] pc[c] \in {"fork", "status", "ends"} -> {"sock", "outR", "outW", "inR", "inW"}
      [] pc[c] \in {"copy", "relay"} -> {"sock", "outR", "inW"}
      [] pc[c] = "done" /\ req[c] = "other" -> {"sock"}
      [] OTHER -> {}

Table(c) == c \notin trouble => \A k \in Kinds : <<k, c>> \in fd[Server] <=> k \in Open(c)

\* Until it exits a CGI process has its own ends of its own pipes, whatever else
\* it has inherited.
Inherited(c) ==
    cpc[c] \in {"status", "exec", "script"} => <<"outW", c>> \in fd[c] /\ <<"inR", c>> \in fd[c]

\* The blocks of the body and of the output are in one place each.
Flow(c) ==
    /\ taken[c] + inBuf[c] = copied[c] /\ copied[c] <= ContentLength(c)
    /\ outBuf[c] <= put[c]
    /\ cpc[c] \in {"none", "status", "exec"} => put[c] = 0
    /\ pc[c] \in {"status", "ends", "copy"} => put[c] = outBuf[c]
    /\ pc[c] = "wait" \/ cpc[c] = "reaped" => outBuf[c] = 0

\* A script that nobody cut off has done what it does.  One that reads to the
\* end of file never gets there: its own thread keeps the write end.
Done(c) ==
    cpc[c] \in {"zombie", "reaped"} /\ c \notin hung =>
        /\ put[c] = IF script[c] = "noexec" THEN 0 ELSE Output
        /\ script[c] \in {"deaf", "noexec"} \/ taken[c] = ContentLength(c)
        /\ script[c] # "slurp"

Blocks(n) == [k \in 1 .. n |-> "block"]

\* Both status lines are sent before a block is.
Answer(c) ==
    c \notin trouble \cup hung =>
        IF cpc[c] = "none" THEN pc[c] \in {"none", "parse", "serve", "pipe", "fork"} => resp[c] = <<>>
        ELSE resp[c] = IF pc[c] = "status" /\ cpc[c] = "status" THEN <<>>
                       ELSE IF pc[c] = "status" \/ cpc[c] = "status" THEN <<"status">>
                       ELSE <<"status", "status">> \o Blocks(put[c] - outBuf[c])

ConnInv(c) == Places(c) /\ Table(c) /\ Inherited(c) /\ Flow(c) /\ Done(c) /\ Answer(c)

IInv == Types /\ Survives /\ \A c \in Conn : ConnInv(c)

-----------------------------------------------------------------------------
(* Tables *)

LEMMA RoomFor ==
  ASSUME NEW S, IsFiniteSet(S), NEW n \in {1, 2}, NEW m \in Nat, Cardinality(S) + n <= m,
         NEW x, NEW y, n = 1 => x = y
  PROVE  IsFiniteSet(S \cup {x, y}) /\ Cardinality(S \cup {x, y}) <= m
<1> DEFINE a == Cardinality(S)
           s1 == S \cup {x}
           s2 == s1 \cup {y}
<1>1. a \in Nat
  BY FS_CardinalityType
<1>2. IsFiniteSet(s1) /\ Cardinality(s1) \in {a, a + 1}
  BY FS_AddElement
<1>3. s2 = S \cup {x, y} /\ (n = 1 => s2 = s1)
  OBVIOUS
<1> HIDE DEF s1
<1>4. IsFiniteSet(s2) /\ Cardinality(s2) \in {Cardinality(s1), Cardinality(s1) + 1}
  BY <1>2, FS_AddElement
<1> HIDE DEF s2, a
<1>5. Cardinality(s2) <= a + n /\ Cardinality(s2) \in Nat
  BY <1>1, <1>2, <1>3, <1>4
<1>6. a + n <= m
  BY DEF a
<1>7. Cardinality(s2) <= m
  BY <1>1, <1>5, <1>6
<1> QED BY <1>3, <1>4, <1>7

\* The server has the kinds of S of connection c opened, or closed, and nothing
\* else changed.
Opened(c, S) ==
    /\ Tables(fd')
    /\ \A d \in Conn : fd'[d] = fd[d]
    /\ \A d \in Conn, l \in Kinds :
          <<l, d>> \in fd'[Server] <=> <<l, d>> \in fd[Server] \/ (d = c /\ l \in S)

Closed(c, S) ==
    /\ Tables(fd')
    /\ \A d \in Conn : fd'[d] = fd[d]
    /\ \A d \in Conn, l \in Kinds :
          <<l, d>> \in fd'[Server] <=> <<l, d>> \in fd[Server] /\ ~(d = c /\ l \in S)

LEMMA OpensTable ==
  ASSUME Tables(fd), NEW c \in Conn, NEW j \in Kinds, NEW k \in Kinds, NEW n \in {1, 2},
         n = 1 => j = k, Room(n), Opens({<<j, c>>, <<k, c>>})
  PROVE  Opened(c, {j, k})
<1> DEFINE s == {<<j, c>>, <<k, c>>}
<1>1. fd[Server] \subseteq Kinds \X Conn /\ s \subseteq Kinds \X Conn /\ Server \notin Conn
  BY DEF Tables
<1>2. fd' = [fd EXCEPT ![Server] = @ \cup s]
  BY DEF Opens
<1>3. fd'[Server] = fd[Server] \cup s /\ \A d \in Conn : fd'[d] = fd[d]
  BY <1>1, <1>2 DEF Tables
<1>4. fd' \in [{Server} \cup Conn -> SUBSET (Kinds \X Conn)]
  <2> HIDE DEF s
  <2> QED BY <1>1, <1>2 DEF Tables
<1>5. IsFiniteSet(fd[Server] \cup s) /\ Cardinality(fd[Server] \cup s) <= MaxFd
  <2> DEFINE x == <<j, c>>
             y == <<k, c>>
  <2>1. n = 1 => x = y
    OBVIOUS
  <2>2. IsFiniteSet(fd[Server]) /\ Cardinality(fd[Server]) + n <= MaxFd /\ MaxFd \in Nat
    BY DEF Tables, Room
  <2>3. s = {x, y}
    OBVIOUS
  <2> HIDE DEF x, y, s
  <2>4. IsFiniteSet(fd[Server] \cup {x, y}) /\ Cardinality(fd[Server] \cup {x, y}) <= MaxFd
    BY <2>1, <2>2, RoomFor
  <2> QED BY <2>3, <2>4
<1>6. \A d \in Conn, l \in Kinds : <<l, d>> \in s <=> d = c /\ l \in {j, k}
  OBVIOUS
<1> HIDE DEF s
<1> QED BY <1>3, <1>4, <1>5, <1>6 DEF Tables, Opened

LEMMA ClosesTable ==
  ASSUME Tables(fd), NEW c \in Conn, NEW j \in Kinds, NEW k \in Kinds,
         Closes(Server, {<<j, c>>, <<k, c>>})
  PROVE  Closed(c, {j, k})
<1> DEFINE s == {<<j, c>>, <<k, c>>}
<1>1. fd[Server] \subseteq Kinds \X Conn /\ Server \notin Conn
  BY DEF Tables
<1>2. fd' = [fd EXCEPT ![Server] = @ \ s]
  BY DEF Closes
<1>3. fd'[Server] = fd[Server] \ s /\ \A d \in Conn : fd'[d] = fd[d]
  BY <1>1, <1>2 DEF Tables
<1>4. fd' \in [{Server} \cup Conn -> SUBSET (Kinds \X Conn)]
  <2> HIDE DEF s
  <2> QED BY <1>1, <1>2 DEF Tables
<1>5. IsFiniteSet(fd'[Server]) /\ Cardinality(fd'[Server]) <= MaxFd
  <2>1. fd'[Server] \in SUBSET fd[Server]
    BY <1>3
  <2>2. IsFiniteSet(fd'[Server]) /\ Cardinality(fd'[Server]) <= Cardinality(fd[Server])
    BY <2>1, FS_Subset DEF Tables
  <2>3. Cardinality(fd'[Server]) \in Nat /\ Cardinality(fd[Server]) \in Nat
    BY <2>2, FS_CardinalityType DEF Tables
  <2> QED BY <2>2, <2>3 DEF Tables
<1>6. \A d \in Conn, l \in Kinds : <<l, d>> \in s <=> d = c /\ l \in {j, k}
  OBVIOUS
<1> HIDE DEF s
<1> QED BY <1>3, <1>4, <1>5, <1>6 DEF Tables, Closed

LEMMA OpensOne ==
  ASSUME Tables(fd), NEW c \in Conn, NEW k \in Kinds, Room(1), Opens({<<k, c>>})
  PROVE  Opened(c, {k})
<1>1. {<<k, c>>} = {<<k, c>>, <<k, c>>} /\ {k} = {k, k}
  OBVIOUS
<1>2. Opens({<<k, c>>, <<k, c>>})
  BY <1>1
<1>3. PICK n \in {1, 2} : n = 1
  OBVIOUS
<1>4. Room(n)
  BY <1>3
<1>5. Opened(c, {k, k})
  BY <1>2, <1>4, OpensTable
<1> QED BY <1>1, <1>5

LEMMA OpensTwo ==
  ASSUME Tables(fd), NEW c \in Conn, NEW j \in Kinds, NEW k \in Kinds, Room(2),
         Opens({<<j, c>>, <<k, c>>})
  PROVE  Opened(c, {j, k})
<1>1. PICK n \in {1, 2} : n = 2
  OBVIOUS
<1>2. Room(n) /\ (n = 1 => j = k)
  BY <1>1
<1> QED BY <1>2, OpensTable

LEMMA ClosesOne ==
  ASSUME Tables(fd), NEW c \in Conn, NEW k \in Kinds, Closes(Server, {<<k, c>>})
  PROVE  Closed(c, {k})
<1>1. {<<k, c>>} = {<<k, c>>, <<k, c>>} /\ {k} = {k, k}
  OBVIOUS
<1>2. Closes(Server, {<<k, c>>, <<k, c>>})
  BY <1>1
<1>3. Closed(c, {k, k})
  BY <1>2, ClosesTable
<1> QED BY <1>1, <1>3

\* The table of a CGI process is its own.
LEMMA ProcessTable ==
  ASSUME Tables(fd), NEW c \in Conn, NEW s, s \subseteq fd[Server] \cup fd[c],
         fd' = [fd EXCEPT ![c] = s]
  PROVE  Tables(fd') /\ fd'[Server] = fd[Server] /\ fd'[c] = s
         /\ \A d \in Conn \ {c} : fd'[d] = fd[d]
  BY DEF Tables

-----------------------------------------------------------------------------
(* One connection at a time *)

\* A step that leaves the descriptors of other connections and processes alone.
FdLocal(c) ==
    \A d \in Conn \ {c} :
        /\ fd'[d] = fd[d]
        /\ \A k \in Kinds : <<k, d>> \in fd'[Server] <=> <<k, d>> \in fd[Server]

LEMMA OpenedLocal ==
  ASSUME NEW c \in Conn, NEW S, Opened(c, S) \/ Closed(c, S)
  PROVE  FdLocal(c)
BY DEF Opened, Closed, FdLocal

\* A step that is about c alone, the server living on.
Local(c) ==
    /\ up' = up /\ UNCHANGED <<req, script>> /\ FdLocal(c)
    /\ \A d \in Conn \ {c} :
          /\ pc'[d] = pc[d] /\ cpc'[d] = cpc[d] /\ resp'[d] = resp[d]
          /\ inBuf'[d] = inBuf[d] /\ outBuf'[d] = outBuf[d]
          /\ copied'[d] = copied[d] /\ taken'[d] = taken[d] /\ put'[d] = put[d]
          /\ d \in trouble' <=> d \in trouble
          /\ d \in hung' <=> d \in hung

LEMMA OthersKept ==
  ASSUME IInv, up, NEW c \in Conn, Local(c), Types', ConnInv(c)'
  PROVE  IInv'
<1>1. Survives'
  BY DEF Local, Survives
<1>2. ASSUME NEW d \in Conn \ {c} PROVE ConnInv(d)'
  <2> USE DEF IInv, ConnInv
  <2>1. Places(d)'
    BY DEF Local, Places
  <2>2. Inherited(d)'
    BY DEF Local, Inherited, FdLocal
  <2>3. Done(d)'
    BY DEF Local, Done, ContentLength
  <2>4. Table(d)'
    BY DEF Local, Table, Open, FdLocal
  <2>5. Flow(d)'
    BY DEF Local, Flow, ContentLength
  <2>6. Answer(d)'
    BY DEF Local, Answer
  <2> HIDE DEF IInv
  <2> QED BY <2>1, <2>2, <2>3, <2>4, <2>5, <2>6
<1> QED BY <1>1, <1>2 DEF IInv

\* What the server may die of.
Cause ==
    \/ hung # {} \/ ~Room(1)
    \/ \E c \in Conn : pc[c] = "parse" /\ req[c] = "unreadable"
    \/ \E c \in Conn : pc[c] = "copy" /\ script[c] \in {"deaf", "noexec"}

LEMMA DeadKept ==
  ASSUME IInv, Dies, Cause
  PROVE  IInv'
<1> USE DEF Dies, pipeVars, askVars
<1>1. Survives'
  BY DEF Cause, Survives, Room
<1>2. Types'
  BY DEF IInv, Types
<1>3. ASSUME NEW d \in Conn PROVE ConnInv(d)'
  <2> USE DEF IInv, ConnInv
  <2>1. Places(d)' /\ Inherited(d)'
    BY DEF Places, Inherited
  <2>2. Table(d)' /\ Answer(d)'
    BY DEF Table, Open, Answer
  <2>3. Flow(d)' /\ Done(d)'
    BY DEF Flow, Done, ContentLength
  <2> QED BY <2>1, <2>2, <2>3
<1> QED BY <1>1, <1>2, <1>3 DEF IInv

LEMMA InitInv == Init => IInv
<1> SUFFICES ASSUME Init PROVE IInv
  OBVIOUS
<1>1. IsFiniteSet({}) /\ Cardinality({}) = 0
  BY FS_EmptySet
<1>2. fd[Server] = {}
  BY DEF Init
<1>3. Tables(fd)
  BY <1>1, <1>2 DEF Init, Tables
<1>4. Types
  <2>1. resp \in [Conn -> Seq(Item)]
    BY DEF Init
  <2>2. req \in [Conn -> Requests] /\ script \in [Conn -> Scripts]
    BY DEF Init
  <2> QED BY <1>3, <2>1, <2>2 DEF Init, Types, Labels, CgiLabels
<1>5. Survives
  BY DEF Init, Survives
<1>6. ASSUME NEW c \in Conn PROVE ConnInv(c)
  <2>0. pc[c] = "none" /\ cpc[c] = "none" /\ c \notin trouble
    BY DEF Init
  <2>6. Places(c)
    BY <2>0 DEF Places, Serving
  <2>7. Inherited(c)
    BY <2>0 DEF Inherited
  <2>1. Done(c)
    BY <2>0 DEF Done
  <2>4. Answer(c)
    BY DEF Init, Answer
  <2>2. Table(c)
    BY <1>2 DEF Init, Table, Open
  <2>3. Flow(c)
    <3>1. ContentLength(c) \in Nat
      BY DEF ContentLength
    <3> QED BY <3>1 DEF Init, Flow
  <2> QED BY <2>1, <2>2, <2>3, <2>4, <2>6, <2>7 DEF ConnInv
<1> QED BY <1>4, <1>5, <1>6 DEF IInv

-----------------------------------------------------------------------------
(* The thread *)

\* Before there is a CGI process, and after it is gone, no block moves.
LEMMA NoChild ==
  ASSUME IInv, NEW c \in Conn, cpc[c] = "none",
         UNCHANGED <<cpc, inBuf, outBuf, copied, taken, put, req>>
  PROVE  Inherited(c)' /\ Flow(c)' /\ Done(c)'
<1>1. Inherited(c)' /\ Done(c)'
  BY DEF Inherited, Done
<1>2. taken[c] + inBuf[c] = copied[c] /\ copied[c] <= ContentLength(c) /\ put[c] = 0 /\ outBuf[c] = 0
  <2>1. outBuf[c] \in Nat
    BY DEF IInv, Types
  <2> QED BY <2>1 DEF IInv, ConnInv, Flow
<1>3. Flow(c)'
  BY <1>2 DEF Flow, ContentLength
<1> QED BY <1>1, <1>3

\* Moves of the thread by which no descriptor and no block moves.
LEMMA RefuseInv ==
  ASSUME IInv, up, NEW c \in Conn, Unimplemented(c) \/ Refuse(c)
  PROVE  IInv'
<1> USE DEF IInv, ThreadRest, pipeVars, askVars
<1>1. /\ UNCHANGED <<up, cpc, fd, inBuf, outBuf, copied, taken, put, trouble, req, script, hung>>
      /\ pc[c] = "parse" /\ resp' = [resp EXCEPT ![c] = Append(@, "error")]
  BY DEF Unimplemented, Refuse, Send
<1>2. PICK l \in Labels : /\ pc' = [pc EXCEPT ![c] = l]
                          /\ (l = "close" /\ req[c] # "other") \/ (l = "done" /\ req[c] = "other")
  BY DEF Unimplemented, Refuse, Goto, Labels
<1>3. resp[c] \in Seq(Item) /\ Append(resp[c], "error") \in Seq(Item)
  BY DEF Types, Item
<1>4. Types'
  BY <1>1, <1>2, <1>3 DEF Types
<1>5. Local(c)
  BY <1>1, <1>2 DEF Types, Local, FdLocal
<1>6. pc'[c] = l /\ cpc[c] = "none" /\ c \notin trouble
  BY <1>1, <1>2 DEF Types, ConnInv, Places
<1>7. Table(c)'
  BY <1>1, <1>2, <1>6 DEF ConnInv, Table, Open
<1>8. Places(c)' /\ Answer(c)'
  BY <1>1, <1>2, <1>6 DEF ConnInv, Places, Serving, Answer
<1>9. Inherited(c)' /\ Flow(c)' /\ Done(c)'
  BY <1>1, <1>6, NoChild
<1> QED BY <1>4, <1>5, <1>7, <1>8, <1>9, OthersKept DEF ConnInv

LEMMA CopyDoneInv ==
  ASSUME IInv, up, NEW c \in Conn, CopyDone(c)
  PROVE  IInv'
<1> USE DEF IInv, ThreadRest, pipeVars, askVars
<1>1. /\ UNCHANGED <<up, cpc, fd, inBuf, outBuf, copied, taken, put, resp, trouble, req, script, hung>>
      /\ pc[c] = "copy" /\ pc' = [pc EXCEPT ![c] = "relay"]
  BY DEF CopyDone, Goto
<1>2. Types'
  BY <1>1 DEF Types, Labels
<1>3. Local(c)
  BY <1>1 DEF Types, Local, FdLocal
<1>4. pc'[c] = "relay"
  BY <1>1 DEF Types
<1>5. ConnInv(c)'
  BY <1>1, <1>4 DEF ConnInv, Places, Serving, Table, Open, Inherited, Flow, Done, Answer,
     ContentLength
<1> QED BY <1>2, <1>3, <1>5, OthersKept

LEMMA WaitpidInv ==
  ASSUME IInv, up, NEW c \in Conn, Waitpid(c)
  PROVE  IInv'
<1> USE DEF IInv, pipeVars, askVars
<1>1. /\ UNCHANGED <<up, fd, inBuf, outBuf, copied, taken, put, resp, trouble, req, script, hung>>
      /\ pc[c] = "wait" /\ pc' = [pc EXCEPT ![c] = "close"]
      /\ cpc[c] = "zombie" /\ cpc' = [cpc EXCEPT ![c] = "reaped"]
  BY DEF Waitpid, Goto, ChildGoto
<1>2. Types'
  BY <1>1 DEF Types, Labels, CgiLabels
<1>3. Local(c)
  BY <1>1 DEF Types, Local, FdLocal
<1>4. pc'[c] = "close" /\ cpc'[c] = "reaped" /\ c \notin trouble
  BY <1>1 DEF Types, ConnInv, Places
<1>5. ConnInv(c)'
  BY <1>1, <1>4 DEF ConnInv, Places, Serving, Table, Open, Inherited, Flow, Done, Answer,
     ContentLength
<1> QED BY <1>2, <1>3, <1>5, OthersKept

\* Descriptors come and go.
LEMMA AcceptInv ==
  ASSUME IInv, up, NEW c \in Conn, Accept(c)
  PROVE  IInv'
<1> USE DEF IInv, pipeVars, askVars
<1>1. CASE Dies
  <2>1. ~Room(1) \/ ~Dies
    BY DEF Accept, Opens, Dies
  <2> QED BY <1>1, <2>1, DeadKept DEF Cause
<1>2. CASE ~Dies
  <2>1. /\ UNCHANGED <<up, cpc, inBuf, outBuf, copied, taken, put, resp, req, script, hung>>
        /\ pc[c] = "none" /\ Room(1) /\ Opens({<<"sock", c>>})
        /\ \/ pc' = [pc EXCEPT ![c] = "parse"] /\ UNCHANGED trouble
           \/ pc' = [pc EXCEPT ![c] = "nothread"] /\ trouble' = trouble \cup {c}
    BY <1>2 DEF Accept, Goto, Trouble
  <2>2. Opened(c, {"sock"})
    <3>1. "sock" \in Kinds
      BY DEF Kinds
    <3> QED BY <2>1, <3>1, OpensOne DEF Types
  <2>3. Types'
    <3>1. Types /\ Tables(fd')
      BY <2>2 DEF Opened
    <3> HIDE DEF IInv
    <3> QED BY <2>1, <3>1 DEF Types, Labels
  <2>4. Local(c)
    <3>1. FdLocal(c)
      BY <2>2, OpenedLocal
    <3> QED BY <2>1, <3>1 DEF Types, Local
  <2>5. \/ pc'[c] = "parse" /\ trouble' = trouble
        \/ pc'[c] = "nothread" /\ c \in trouble'
    BY <2>1 DEF Types
  <2>6. cpc[c] = "none" /\ c \notin trouble
    BY <2>1 DEF ConnInv, Places
  <2>7. Table(c)'
    BY <2>1, <2>2, <2>5 DEF ConnInv, Table, Open, Opened
  <2>8. Places(c)' /\ Inherited(c)' /\ Flow(c)' /\ Done(c)' /\ Answer(c)'
    BY <2>1, <2>2, <2>5, <2>6 DEF ConnInv, Places, Serving, Inherited, Flow, Done, Answer,
       ContentLength, Opened
  <2> QED BY <2>3, <2>4, <2>7, <2>8, OthersKept DEF ConnInv
<1> QED BY <1>1, <1>2

LEMMA ServeFileInv ==
  ASSUME IInv, up, NEW c \in Conn, ServeFile(c)
  PROVE  IInv'
<1> USE DEF IInv, ThreadRest, pipeVars, askVars
<1>1. CASE ~(req[c] = "file" /\ Room(1))
  <2>1. Dies /\ pc[c] = "parse" /\ req[c] \in {"file", "unreadable"}
    BY <1>1 DEF ServeFile
  <2> QED BY <1>1, <2>1, DeadKept DEF Cause
<1>2. CASE req[c] = "file" /\ Room(1)
  <2>1. /\ UNCHANGED <<up, cpc, inBuf, outBuf, copied, taken, put, req, script, hung, resp, trouble>>
        /\ pc[c] = "parse" /\ Room(1) /\ Opens({<<"file", c>>})
        /\ pc' = [pc EXCEPT ![c] = "serve"]
    BY <1>2 DEF ServeFile, Goto
  <2>2. Opened(c, {"file"})
    <3>1. "file" \in Kinds
      BY DEF Kinds
    <3> QED BY <2>1, <3>1, OpensOne DEF Types
  <2>3. Types'
    <3>1. Types /\ Tables(fd')
      BY <2>2 DEF Opened
    <3> HIDE DEF IInv
    <3> QED BY <2>1, <3>1 DEF Types, Labels
  <2>4. Local(c)
    <3>1. FdLocal(c)
      BY <2>2, OpenedLocal
    <3> QED BY <2>1, <3>1 DEF Types, Local
  <2>5. pc'[c] = "serve" /\ cpc[c] = "none"
    BY <2>1 DEF Types, ConnInv, Places
  <2>6. Table(c)'
    BY <2>1, <2>2, <2>5 DEF ConnInv, Table, Open, Opened
  <2>7. Places(c)' /\ Answer(c)'
    BY <1>2, <2>1, <2>5 DEF ConnInv, Places, Serving, Answer
  <2>8. Inherited(c)' /\ Flow(c)' /\ Done(c)'
    BY <2>1, <2>5, NoChild
  <2> QED BY <2>3, <2>4, <2>6, <2>7, <2>8, OthersKept DEF ConnInv
<1> QED BY <1>1, <1>2

LEMMA SendFileInv ==
  ASSUME IInv, up, NEW c \in Conn, SendFile(c)
  PROVE  IInv'
<1> USE DEF IInv, ThreadRest, pipeVars, askVars
<1>1. /\ UNCHANGED <<up, cpc, inBuf, outBuf, copied, taken, put, req, script, hung, trouble>>
      /\ pc[c] = "serve" /\ Closes(Server, {<<"file", c>>})
      /\ pc' = [pc EXCEPT ![c] = "close"]
      /\ resp' = [resp EXCEPT ![c] = @ \o <<"status", "block">>]
  BY DEF SendFile, Goto
<1>2. Closed(c, {"file"})
  <2>1. "file" \in Kinds
    BY DEF Kinds
  <2> QED BY <1>1, <2>1, ClosesOne DEF Types
<1>3. resp[c] \in Seq(Item) /\ resp[c] \o <<"status", "block">> \in Seq(Item)
  BY DEF Types, Item
<1>4. Types'
  <2>1. Types /\ Tables(fd')
    BY <1>2 DEF Closed
  <2> HIDE DEF IInv
  <2> QED BY <1>1, <1>3, <2>1 DEF Types, Labels
<1>5. Local(c)
  <2>1. FdLocal(c)
    BY <1>2, OpenedLocal
  <2> QED BY <1>1, <2>1 DEF Types, Local
<1>6. pc'[c] = "close" /\ cpc[c] = "none"
  BY <1>1 DEF Types, ConnInv, Places
<1>7. Table(c)'
  BY <1>1, <1>2, <1>6 DEF ConnInv, Table, Open, Closed
<1>8. Places(c)' /\ Answer(c)'
  BY <1>1, <1>6 DEF ConnInv, Places, Serving, Answer
<1>9. Inherited(c)' /\ Flow(c)' /\ Done(c)'
  BY <1>1, <1>6, NoChild
<1> QED BY <1>4, <1>5, <1>7, <1>8, <1>9, OthersKept DEF ConnInv

LEMMA CloseInv ==
  ASSUME IInv, up, NEW c \in Conn, Close(c)
  PROVE  IInv'
<1> USE DEF IInv, ThreadRest, pipeVars, askVars
<1>1. /\ UNCHANGED <<up, cpc, inBuf, outBuf, copied, taken, put, req, script, hung, trouble, resp>>
      /\ pc[c] = "close" /\ Closes(Server, {<<"sock", c>>})
      /\ pc' = [pc EXCEPT ![c] = "done"]
  BY DEF Close, Goto
<1>2. Closed(c, {"sock"})
  <2>1. "sock" \in Kinds
    BY DEF Kinds
  <2> QED BY <1>1, <2>1, ClosesOne DEF Types
<1>4. Types'
  <2>1. Types /\ Tables(fd')
    BY <1>2 DEF Closed
  <2> HIDE DEF IInv
  <2> QED BY <1>1, <2>1 DEF Types, Labels
<1>5. Local(c)
  <2>1. FdLocal(c)
    BY <1>2, OpenedLocal
  <2> QED BY <1>1, <2>1 DEF Types, Local
<1>6. pc'[c] = "done" /\ cpc[c] \in {"none", "reaped"} /\ req[c] # "other"
  BY <1>1 DEF Types, ConnInv, Places
<1>7. Table(c)'
  BY <1>1, <1>2, <1>6 DEF ConnInv, Table, Open, Closed
<1>8. Places(c)' /\ Inherited(c)'
  BY <1>1, <1>6 DEF ConnInv, Places, Serving, Inherited
<1>9. Flow(c)'
  BY <1>1, <1>6 DEF ConnInv, Flow, ContentLength
<1>10. Done(c)'
  BY <1>1, <1>6 DEF ConnInv, Done, ContentLength
<1>11. Answer(c)'
  BY <1>1, <1>6 DEF ConnInv, Answer
<1> QED BY <1>4, <1>5, <1>7, <1>8, <1>9, <1>10, <1>11, OthersKept DEF ConnInv

\* The answer to a failing call.
LEMMA CannotExecuteInv ==
  ASSUME IInv, up, NEW c \in Conn, pc[c] \in {"parse", "pipe", "fork"}, req[c] # "other",
         CannotExecute(c), UNCHANGED <<up, cpc, pipeVars, askVars>>
  PROVE  IInv'
<1> USE DEF IInv, pipeVars, askVars
<1>1. /\ UNCHANGED <<up, cpc, fd, inBuf, outBuf, copied, taken, put, req, script, hung>>
      /\ pc' = [pc EXCEPT ![c] = "close"] /\ trouble' = trouble \cup {c}
      /\ resp' = [resp EXCEPT ![c] = Append(@, "error")]
  BY DEF CannotExecute, Goto, Trouble, Send
<1>2. resp[c] \in Seq(Item) /\ Append(resp[c], "error") \in Seq(Item)
  BY DEF Types, Item
<1>3. Types'
  BY <1>1, <1>2 DEF Types, Labels
<1>4. Local(c)
  BY <1>1 DEF Types, Local, FdLocal
<1>5. pc'[c] = "close" /\ cpc[c] = "none" /\ c \in trouble'
  BY <1>1 DEF Types, ConnInv, Places
<1>6. Places(c)' /\ Table(c)' /\ Answer(c)'
  BY <1>1, <1>5 DEF Places, Serving, Table, Answer
<1>7. Inherited(c)' /\ Flow(c)' /\ Done(c)'
  BY <1>1, <1>5, NoChild
<1> QED BY <1>3, <1>4, <1>6, <1>7, OthersKept DEF ConnInv

\* pipe() opens both ends.
LEMMA PipeInv ==
  ASSUME IInv, up, NEW c \in Conn, PipeOutput(c) \/ PipeInput(c)
  PROVE  IInv'
<1> USE DEF IInv, ThreadRest, pipeVars, askVars
<1>1. req[c] # "other" /\ pc[c] \in {"parse", "pipe"}
  BY DEF PipeOutput, PipeInput, ConnInv, Places
<1>2. CASE ~Room(2)
  <2>1. CannotExecute(c) /\ UNCHANGED <<up, cpc, pipeVars, askVars>>
    BY <1>2 DEF PipeOutput, PipeInput
  <2> QED BY <1>1, <2>1, CannotExecuteInv
<1>3. CASE Room(2)
  <2>1. /\ UNCHANGED <<up, cpc, inBuf, outBuf, copied, taken, put, req, script, hung, resp, trouble>>
        /\ \/ /\ pc[c] = "parse" /\ Opens({<<"outR", c>>, <<"outW", c>>})
              /\ pc' = [pc EXCEPT ![c] = "pipe"]
           \/ /\ pc[c] = "pipe" /\ Opens({<<"inR", c>>, <<"inW", c>>})
              /\ pc' = [pc EXCEPT ![c] = "fork"]
    BY <1>3 DEF PipeOutput, PipeInput, OutPipe, InPipe, Goto
  <2>2. PICK j \in Kinds, k \in Kinds :
           /\ Opens({<<j, c>>, <<k, c>>})
           /\ \/ j = "outR" /\ k = "outW" /\ pc[c] = "parse" /\ pc' = [pc EXCEPT ![c] = "pipe"]
              \/ j = "inR" /\ k = "inW" /\ pc[c] = "pipe" /\ pc' = [pc EXCEPT ![c] = "fork"]
    BY <2>1 DEF Kinds
  <2>3. Opened(c, {j, k})
    <3>1. Tables(fd)
      BY DEF Types
    <3> QED BY <1>3, <2>2, <3>1, OpensTwo
  <2>4. Types'
    <3>1. Types /\ Tables(fd')
      BY <2>3 DEF Opened
    <3> HIDE DEF IInv
    <3> QED BY <2>1, <3>1 DEF Types, Labels
  <2>5. Local(c)
    <3>1. FdLocal(c)
      BY <2>3, OpenedLocal
    <3> QED BY <2>1, <3>1 DEF Types, Local
  <2>6. /\ \/ pc[c] = "parse" /\ pc'[c] = "pipe" /\ j = "outR" /\ k = "outW"
           \/ pc[c] = "pipe" /\ pc'[c] = "fork" /\ j = "inR" /\ k = "inW"
        /\ cpc[c] = "none"
    BY <2>1, <2>2 DEF Types, ConnInv, Places
  <2>7. Table(c)'
    BY <2>1, <2>3, <2>6 DEF ConnInv, Table, Open, Opened
  <2>8. Places(c)' /\ Answer(c)'
    BY <1>1, <2>1, <2>6 DEF ConnInv, Places, Serving, Answer
  <2>9. Inherited(c)' /\ Flow(c)' /\ Done(c)'
    BY <2>1, <2>6, NoChild
  <2> QED BY <2>4, <2>5, <2>7, <2>8, <2>9, OthersKept DEF ConnInv
<1> QED BY <1>2, <1>3

\* fork() copies the whole table; the process has the ends it needs, and more.
LEMMA ForkCgiInv ==
  ASSUME IInv, up, NEW c \in Conn, ForkCgi(c)
  PROVE  IInv'
<1> USE DEF IInv, pipeVars, askVars
<1>1. req[c] # "other" /\ pc[c] = "fork" /\ cpc[c] = "none" /\ c \notin trouble
  BY DEF ForkCgi, ConnInv, Places
<1>2. CASE CannotExecute(c) /\ UNCHANGED cpc
  BY <1>1, <1>2, CannotExecuteInv DEF ForkCgi
<1>3. CASE ~(CannotExecute(c) /\ UNCHANGED cpc)
  <2>1. /\ UNCHANGED <<up, inBuf, outBuf, copied, taken, put, req, script, hung, resp, trouble>>
        /\ fd' = [fd EXCEPT ![c] = fd[Server]]
        /\ pc' = [pc EXCEPT ![c] = "status"] /\ cpc' = [cpc EXCEPT ![c] = "status"]
    BY <1>3 DEF ForkCgi, Goto, ChildGoto
  <2>2. Tables(fd') /\ fd'[Server] = fd[Server] /\ fd'[c] = fd[Server]
        /\ \A d \in Conn \ {c} : fd'[d] = fd[d]
    BY <2>1, ProcessTable DEF Types
  <2>3. Types'
    BY <2>1, <2>2 DEF Types, Labels, CgiLabels
  <2>4. Local(c)
    BY <2>1, <2>2 DEF Types, Local, FdLocal
  <2>5. pc'[c] = "status" /\ cpc'[c] = "status"
    BY <2>1 DEF Types
  <2>6. Table(c)'
    BY <1>1, <2>1, <2>2, <2>5 DEF ConnInv, Table, Open
  <2>7. Places(c)'
    BY <1>1, <2>1, <2>5 DEF ConnInv, Places, Serving
  <2>8. Inherited(c)'
    BY <1>1, <2>2 DEF ConnInv, Inherited, Table, Open, Kinds
  <2>9. Flow(c)'
    <3>1. outBuf[c] \in Nat
      BY DEF Types
    <3> QED BY <1>1, <2>1, <2>5, <3>1 DEF ConnInv, Flow, ContentLength
  <2>10. Done(c)' /\ Answer(c)'
    BY <1>1, <2>1, <2>5 DEF ConnInv, Done, Answer
  <2> QED BY <2>3, <2>4, <2>6, <2>7, <2>8, <2>9, <2>10, OthersKept DEF ConnInv
<1> QED BY <1>2, <1>3

\* A place of the thread at which its CGI process runs.
LEMMA Served ==
  ASSUME IInv, NEW c \in Conn, pc[c] \in Serving
  PROVE  /\ cpc[c] \in {"status", "exec", "script", "zombie"} /\ c \notin trouble
         /\ req[c] # "other"
  BY DEF IInv, ConnInv, Places, Serving

\* ConcatAssociative in terms of an operator: a solver that sees \o expands it.
Cat(s, t) == s \o t

LEMMA CatAssociative ==
  ASSUME NEW S, NEW s \in Seq(S), NEW t \in Seq(S), NEW u \in Seq(S)
  PROVE  Cat(Cat(s, t), u) = Cat(s, Cat(t, u))
<1> DEFINE l == (s \o t) \o u
           r == s \o (t \o u)
<1>1. l \in Seq(S) /\ Len(l) = Len(s) + Len(t) + Len(u)
  BY ConcatProperties
<1>2. r \in Seq(S) /\ Len(r) = Len(s) + Len(t) + Len(u)
  BY ConcatProperties
<1>3. ASSUME NEW i \in 1 .. Len(l) PROVE l[i] = r[i]
  BY ConcatProperties
<1> HIDE DEF l, r
<1>4. l = r
  BY <1>1, <1>2, <1>3, SeqEqual
<1> QED BY <1>4, Zenon DEF Cat, l, r

LEMMA BlocksGrow ==
  /\ Blocks(0) = <<>>
  /\ Append(<<"status">>, "status") = <<"status", "status">> \o Blocks(0)
  /\ \A n \in Nat :
       Append(<<"status", "status">> \o Blocks(n), "block") = <<"status", "status">> \o Blocks(n + 1)
<1>1. Blocks(0) = <<>>
  BY DEF Blocks
<1>2. Append(<<"status">>, "status") = <<"status", "status">> \o Blocks(0)
  BY <1>1
<1>3. ASSUME NEW n \in Nat
      PROVE  Append(<<"status", "status">> \o Blocks(n), "block") = <<"status", "status">> \o Blocks(n + 1)
  <2> DEFINE a == <<"status", "status">>
             b == <<"block">>
  <2>1. a \in Seq(Item) /\ b \in Seq(Item) /\ Blocks(n) \in Seq(Item) /\ "block" \in Item
    BY DEF Item, Blocks
  <2>2. Blocks(n + 1) = Blocks(n) \o b
    <3> DEFINE p == Blocks(n)
               q == Append(p, "block")
    <3>1. Len(p) = n /\ \A k \in 1 .. n : p[k] = "block"
      BY DEF Blocks
    <3>2. Len(Blocks(n + 1)) = n + 1 /\ \A k \in 1 .. n + 1 : Blocks(n + 1)[k] = "block"
      BY DEF Blocks
    <3>3. Blocks(n + 1) \in Seq(Item)
      BY DEF Blocks, Item
    <3> HIDE DEF p
    <3>4. q \in Seq(Item) /\ Len(q) = n + 1 /\ \A k \in 1 .. n + 1 : q[k] = "block"
      <4>1. p \in Seq(Item) /\ "block" \in Item
        BY <2>1 DEF p
      <4>2. /\ q \in Seq(Item) /\ Len(q) = Len(p) + 1 /\ q[Len(p) + 1] = "block"
            /\ \A k \in 1 .. Len(p) : q[k] = p[k]
        BY <4>1, AppendProperties
      <4> HIDE DEF q
      <4>3. \A k \in 1 .. n + 1 : k \in 1 .. n \/ k = n + 1
        OBVIOUS
      <4> QED BY <3>1, <4>2, <4>3
    <3> HIDE DEF q
    <3>5. Blocks(n + 1) = q
      BY <3>2, <3>3, <3>4, SeqEqual
    <3>6. q = p \o b
      BY <2>1, AppendIsConcat DEF p, q
    <3> QED BY <3>5, <3>6 DEF p
  <2> HIDE DEF a
  <2>3. a \o Blocks(n) \in Seq(Item)
    BY <2>1, ConcatProperties
  <2>4. Append(a \o Blocks(n), "block") = (a \o Blocks(n)) \o b
    BY <2>1, <2>3, AppendIsConcat
  <2>5. (a \o Blocks(n)) \o b = a \o (Blocks(n) \o b)
    <3> DEFINE p == Blocks(n)
    <3>1. a \in Seq(Item) /\ p \in Seq(Item) /\ b \in Seq(Item)
      BY <2>1
    <3> HIDE DEF b, p
    <3>2. Cat(Cat(a, p), b) = Cat(a, Cat(p, b))
      BY <3>1, CatAssociative
    <3> QED BY <3>2 DEF p, Cat
  <2> QED BY <2>2, <2>4, <2>5 DEF a
<1> QED BY <1>1, <1>2, <1>3

LEMMA SendStatusInv ==
  ASSUME IInv, up, NEW c \in Conn, SendStatus(c)
  PROVE  IInv'
<1> USE DEF IInv, ThreadRest, pipeVars, askVars
<1>1. /\ UNCHANGED <<up, cpc, fd, inBuf, outBuf, copied, taken, put, req, script, hung, trouble>>
      /\ pc[c] = "status" /\ pc' = [pc EXCEPT ![c] = "ends"]
      /\ resp' = [resp EXCEPT ![c] = Append(@, "status")]
  BY DEF SendStatus, Goto, Send
<1>2. resp[c] \in Seq(Item) /\ Append(resp[c], "status") \in Seq(Item)
  BY DEF Types, Item
<1>3. Types'
  BY <1>1, <1>2 DEF Types, Labels
<1>4. Local(c)
  BY <1>1 DEF Types, Local, FdLocal
<1>5. /\ pc'[c] = "ends" /\ cpc[c] \in {"status", "exec", "script", "zombie"} /\ c \notin trouble
      /\ req[c] # "other"
  BY <1>1, Served DEF Types, Serving
<1>6. Places(c)' /\ Inherited(c)'
  BY <1>1, <1>5 DEF ConnInv, Places, Serving, Inherited
<1>7. Table(c)'
  BY <1>1, <1>5 DEF ConnInv, Table, Open
<1>8. Flow(c)'
  BY <1>1, <1>5 DEF ConnInv, Flow, ContentLength
<1>9. Done(c)'
  BY <1>1, <1>5 DEF ConnInv, Done, ContentLength
<1>10. Answer(c)'
  <2>1. put[c] - outBuf[c] = 0
    BY <1>1 DEF Types, ConnInv, Flow
  <2>2. CASE cpc[c] = "status"
    <3>1. c \notin hung => resp[c] = <<>>
      BY <1>1, <1>5, <2>2 DEF ConnInv, Answer
    <3>2. c \notin hung => resp'[c] = <<"status">>
      BY <1>1, <3>1 DEF Types
    <3> QED BY <1>1, <1>5, <2>2, <3>2 DEF Answer
  <2>3. CASE cpc[c] # "status"
    BY <1>1, <1>5, <2>1, <2>3, BlocksGrow DEF Types, ConnInv, Answer
  <2> QED BY <2>2, <2>3
<1> QED BY <1>3, <1>4, <1>6, <1>7, <1>8, <1>9, <1>10, OthersKept DEF ConnInv

LEMMA CloseEndsInv ==
  ASSUME IInv, up, NEW c \in Conn, CloseEnds(c)
  PROVE  IInv'
<1> USE DEF IInv, ThreadRest, pipeVars, askVars
<1>1. /\ UNCHANGED <<up, cpc, inBuf, outBuf, copied, taken, put, req, script, hung, trouble, resp>>
      /\ pc[c] = "ends" /\ pc' = [pc EXCEPT ![c] = "copy"]
      /\ Closes(Server, {<<"outW", c>>, <<"inR", c>>})
  BY DEF CloseEnds, Goto
<1>2. Closed(c, {"outW", "inR"})
  <2>1. "outW" \in Kinds /\ "inR" \in Kinds
    BY DEF Kinds
  <2> QED BY <1>1, <2>1, ClosesTable DEF Types
<1>3. Types'
  <2>1. Types /\ Tables(fd')
    BY <1>2 DEF Closed
  <2> HIDE DEF IInv
  <2> QED BY <1>1, <2>1 DEF Types, Labels
<1>4. Local(c)
  <2>1. FdLocal(c)
    BY <1>2, OpenedLocal
  <2> QED BY <1>1, <2>1 DEF Types, Local
<1>5. /\ pc'[c] = "copy" /\ cpc[c] \in {"status", "exec", "script", "zombie"} /\ c \notin trouble
      /\ req[c] # "other"
  BY <1>1, Served DEF Types, Serving
<1>6. Places(c)' /\ Inherited(c)'
  BY <1>1, <1>2, <1>5 DEF ConnInv, Places, Serving, Inherited, Closed
<1>7. Table(c)'
  BY <1>1, <1>2, <1>5 DEF ConnInv, Table, Open, Closed
<1>8. Flow(c)'
  BY <1>1, <1>5 DEF ConnInv, Flow, ContentLength
<1>9. Done(c)'
  BY <1>1, <1>5 DEF ConnInv, Done, ContentLength
<1>10. Answer(c)'
  BY <1>1, <1>5 DEF ConnInv, Answer
<1> QED BY <1>3, <1>4, <1>6, <1>7, <1>8, <1>9, <1>10, OthersKept DEF ConnInv

\* write() finds no reader only when the CGI process is gone, and a script that
\* is gone has read the body, unless it is of those that leave it.
LEMMA CopyBodyInv ==
  ASSUME IInv, up, NEW c \in Conn, CopyBody(c)
  PROVE  IInv'
<1> USE DEF IInv, pipeVars, askVars
<1>1. pc[c] = "copy" /\ copied[c] < ContentLength(c)
  BY DEF CopyBody
<1>2. cpc[c] \in {"status", "exec", "script", "zombie"} /\ c \notin trouble /\ req[c] # "other"
  BY <1>1, Served DEF Serving
<1>3. CASE Holders(<<"inR", c>>) = {}
  <2>1. Dies
    BY <1>3 DEF CopyBody
  <2>2. cpc[c] = "zombie"
    BY <1>2, <1>3 DEF Holders, ConnInv, Inherited
  <2>3. taken[c] # ContentLength(c)
    <3>1. taken[c] \in Nat /\ inBuf[c] \in Nat /\ copied[c] \in Nat /\ ContentLength(c) \in Nat
      BY DEF Types, ContentLength
    <3> QED BY <1>1, <3>1 DEF ConnInv, Flow
  <2>4. c \in hung \/ script[c] \in {"deaf", "noexec"}
    BY <2>2, <2>3 DEF ConnInv, Done
  <2> QED BY <1>1, <2>1, <2>4, DeadKept DEF Cause
<1>4. CASE Holders(<<"inR", c>>) # {}
  <2>1. /\ UNCHANGED <<up, pc, fd, cpc, outBuf, taken, put, resp, trouble, req, script, hung>>
        /\ inBuf[c] < Cap
        /\ inBuf' = [inBuf EXCEPT ![c] = @ + 1] /\ copied' = [copied EXCEPT ![c] = @ + 1]
    BY <1>4 DEF CopyBody
  <2>2. inBuf[c] + 1 \in 0 .. Cap /\ copied[c] + 1 \in 0 .. Body
    BY <1>1, <2>1 DEF Types, ContentLength
  <2>3. Types'
    BY <2>1, <2>2 DEF Types
  <2>4. Local(c)
    BY <2>1 DEF Types, Local, FdLocal
  <2>5. Places(c)' /\ Inherited(c)' /\ Table(c)'
    BY <2>1 DEF ConnInv, Places, Inherited, Table, Open, Serving
  <2>6. Flow(c)'
    <3>1. inBuf'[c] = inBuf[c] + 1 /\ copied'[c] = copied[c] + 1
      BY <2>1 DEF Types
    <3>2. taken[c] \in Nat /\ inBuf[c] \in Nat /\ copied[c] \in Nat /\ ContentLength(c) \in Nat
      BY DEF Types, ContentLength
    <3>3. ContentLength(c)' = ContentLength(c)
      BY <2>1 DEF ContentLength
    <3> QED BY <1>1, <2>1, <3>1, <3>2, <3>3 DEF ConnInv, Flow
  <2>7. Done(c)'
    BY <2>1 DEF ConnInv, Done, ContentLength
  <2>8. Answer(c)'
    BY <2>1 DEF ConnInv, Answer
  <2> QED BY <2>3, <2>4, <2>5, <2>6, <2>7, <2>8, OthersKept DEF ConnInv
<1> QED BY <1>3, <1>4

\* read() tells the end of the output only when the CGI process is gone.
LEMMA RelayInv ==
  ASSUME IInv, up, NEW c \in Conn, Relay(c)
  PROVE  IInv'
<1> USE DEF IInv, pipeVars, askVars
<1>1. pc[c] = "relay"
  BY DEF Relay
<1>2. cpc[c] \in {"status", "exec", "script", "zombie"} /\ c \notin trouble /\ req[c] # "other"
  BY <1>1, Served DEF Serving
<1>3. CASE outBuf[c] > 0
  <2>1. /\ UNCHANGED <<up, pc, fd, cpc, inBuf, copied, taken, put, trouble, req, script, hung>>
        /\ outBuf' = [outBuf EXCEPT ![c] = @ - 1]
        /\ resp' = [resp EXCEPT ![c] = Append(@, "block")]
    BY <1>3 DEF Relay, Send
  <2>2. outBuf[c] - 1 \in 0 .. Cap
    BY <1>3 DEF Types
  <2>3. resp[c] \in Seq(Item) /\ Append(resp[c], "block") \in Seq(Item)
    BY DEF Types, Item
  <2>4. Types'
    BY <2>1, <2>2, <2>3 DEF Types
  <2>5. Local(c)
    BY <2>1 DEF Types, Local, FdLocal
  <2>6. Places(c)' /\ Inherited(c)' /\ Table(c)'
    BY <2>1 DEF ConnInv, Places, Inherited, Table, Open, Serving
  <2>7. outBuf'[c] = outBuf[c] - 1 /\ outBuf[c] \in Nat /\ put[c] \in Nat /\ outBuf[c] <= put[c]
    BY <2>1 DEF Types, ConnInv, Flow
  <2>8. cpc[c] \notin {"none", "status", "exec"}
    BY <1>2, <1>3, <2>7 DEF ConnInv, Flow
  <2>9. Flow(c)'
    BY <1>1, <1>2, <2>1, <2>7, <2>8 DEF ConnInv, Flow, ContentLength
  <2>10. Done(c)'
    BY <2>1 DEF ConnInv, Done, ContentLength
  <2>11. Answer(c)'
    <3> DEFINE n == put[c] - outBuf[c]
    <3>1. n \in Nat /\ n + 1 = put'[c] - outBuf'[c]
      BY <2>1, <2>7
    <3>2. resp'[c] = Append(resp[c], "block")
      BY <2>1 DEF Types
    <3>3. c \notin hung => resp[c] = <<"status", "status">> \o Blocks(n)
      BY <1>1, <1>2, <2>8 DEF ConnInv, Answer
    <3> HIDE DEF n
    <3>4. c \notin hung => resp'[c] = <<"status", "status">> \o Blocks(n + 1)
      BY <3>1, <3>2, <3>3, BlocksGrow
    <3> QED BY <1>1, <1>2, <2>1, <2>8, <3>1, <3>4 DEF Answer
  <2> QED BY <2>4, <2>5, <2>6, <2>9, <2>10, <2>11, OthersKept DEF ConnInv
<1>4. CASE ~(outBuf[c] > 0)
  <2>1. /\ UNCHANGED <<up, cpc, inBuf, outBuf, copied, taken, put, req, script, hung, trouble, resp>>
        /\ outBuf[c] = 0 /\ Holders(<<"outW", c>>) = {}
        /\ pc' = [pc EXCEPT ![c] = "wait"]
        /\ Closes(Server, {<<"outR", c>>, <<"inW", c>>})
    BY <1>4 DEF Relay, Goto
  <2>2. Closed(c, {"outR", "inW"})
    <3>1. "outR" \in Kinds /\ "inW" \in Kinds
      BY DEF Kinds
    <3> QED BY <2>1, <3>1, ClosesTable DEF Types
  <2>3. Types'
    <3>1. Types /\ Tables(fd')
      BY <2>2 DEF Closed
    <3> HIDE DEF IInv
    <3> QED BY <2>1, <3>1 DEF Types, Labels
  <2>4. Local(c)
    <3>1. FdLocal(c)
      BY <2>2, OpenedLocal
    <3> QED BY <2>1, <3>1 DEF Types, Local
  <2>5. pc'[c] = "wait" /\ cpc[c] = "zombie"
    BY <1>2, <2>1 DEF Types, Holders, ConnInv, Inherited
  <2>6. Places(c)' /\ Inherited(c)'
    BY <1>2, <2>1, <2>5 DEF Places, Serving, Inherited
  <2>7. Table(c)'
    BY <1>1, <1>2, <2>1, <2>2, <2>5 DEF ConnInv, Table, Open, Closed
  <2>8. Flow(c)'
    BY <2>1, <2>5 DEF ConnInv, Flow, ContentLength
  <2>9. Done(c)'
    BY <2>1 DEF ConnInv, Done, ContentLength
  <2>10. Answer(c)'
    BY <1>1, <2>1, <2>5 DEF ConnInv, Answer
  <2> QED BY <2>3, <2>4, <2>6, <2>7, <2>8, <2>9, <2>10, OthersKept DEF ConnInv
<1> QED BY <1>3, <1>4

-----------------------------------------------------------------------------
(* The CGI process *)

\* A CGI process runs while its thread serves it.
LEMMA Running ==
  ASSUME IInv, NEW c \in Conn, cpc[c] \in {"status", "exec", "script"}
  PROVE  pc[c] \in Serving /\ c \notin trouble /\ req[c] # "other"
<1>1. Places(c) /\ pc[c] \in Labels
  BY DEF IInv, Types, ConnInv
<1> QED BY <1>1 DEF Labels, Places, Serving

\* The end of a CGI process that has been cut off, or has done what it does.
LEMMA ExitInv ==
  ASSUME IInv, up, NEW c \in Conn, cpc[c] \in {"status", "exec", "script"},
         Exit(c), UNCHANGED <<resp, pipeVars>>, ChildRest,
         c \notin hung => /\ cpc[c] # "status"
                          /\ put[c] = IF script[c] = "noexec" THEN 0 ELSE Output
                          /\ script[c] \in {"deaf", "noexec"} \/ taken[c] = ContentLength(c)
                          /\ script[c] # "slurp"
  PROVE  IInv'
<1> USE DEF IInv, ChildRest, pipeVars, askVars
<1>1. /\ UNCHANGED <<up, pc, inBuf, outBuf, copied, taken, put, req, script, hung, trouble, resp>>
      /\ cpc' = [cpc EXCEPT ![c] = "zombie"] /\ fd' = [fd EXCEPT ![c] = {}]
  BY DEF Exit, ChildGoto
<1>2. Tables(fd') /\ fd'[Server] = fd[Server] /\ \A d \in Conn \ {c} : fd'[d] = fd[d]
  BY <1>1, ProcessTable DEF Types
<1>3. Types'
  <2>1. Types /\ Tables(fd')
    BY <1>2
  <2> HIDE DEF IInv
  <2> QED BY <1>1, <2>1 DEF Types, CgiLabels
<1>4. Local(c)
  BY <1>1, <1>2 DEF Types, Local, FdLocal
<1>5. cpc'[c] = "zombie" /\ pc[c] \in Serving /\ c \notin trouble /\ req[c] # "other"
  BY <1>1, Running DEF Types
<1>6. Places(c)' /\ Inherited(c)'
  BY <1>1, <1>5 DEF ConnInv, Places, Serving, Inherited
<1>7. Table(c)'
  BY <1>1, <1>2 DEF ConnInv, Table, Open
<1>8. Flow(c)'
  BY <1>1, <1>5 DEF ConnInv, Flow, ContentLength
<1>9. Done(c)'
  BY <1>1 DEF Done, ContentLength
<1>10. Answer(c)'
  BY <1>1, <1>5 DEF ConnInv, Answer
<1> QED BY <1>3, <1>4, <1>6, <1>7, <1>8, <1>9, <1>10, OthersKept DEF ConnInv

LEMMA ChildSigpipeInv ==
  ASSUME IInv, up, NEW c \in Conn, ChildSigpipe(c)
  PROVE  IInv'
<1>1. cpc[c] \in {"status", "exec", "script"} /\ c \in hung /\ Exit(c)
      /\ UNCHANGED <<resp, pipeVars>> /\ ChildRest
  BY DEF ChildSigpipe
<1> QED BY <1>1, ExitInv

\* A script that reads to the end of file does not exit: its thread has the
\* write end for as long as it waits for the output.
LEMMA ScriptExitsInv ==
  ASSUME IInv, up, NEW c \in Conn, ScriptExits(c)
  PROVE  IInv'
<1>1. cpc[c] \in {"status", "exec", "script"} /\ cpc[c] = "script" /\ Exit(c)
      /\ UNCHANGED <<resp, pipeVars>> /\ ChildRest /\ put[c] = Output /\ Read(c)
  BY DEF ScriptExits
<1>2. pc[c] \in Serving /\ c \notin trouble
  BY <1>1, Running
<1>3. script[c] # "slurp"
  <2>1. <<"inW", c>> \in fd[Server]
    BY <1>2 DEF IInv, ConnInv, Table, Open, Serving, Kinds
  <2>2. Holders(<<"inW", c>>) # {}
    BY <2>1 DEF Holders
  <2> QED BY <1>1, <2>2 DEF Read
<1>4. script[c] \in {"deaf", "noexec"} \/ taken[c] = ContentLength(c)
  BY <1>1, <1>3 DEF Read
<1>5. script[c] # "noexec"
  BY <1>1 DEF IInv, ConnInv, Places
<1> QED BY <1>1, <1>3, <1>4, <1>5, ExitInv

LEMMA ChildSendStatusInv ==
  ASSUME IInv, up, NEW c \in Conn, ChildSendStatus(c)
  PROVE  IInv'
<1> USE DEF IInv, ChildRest, pipeVars, askVars
<1>1. /\ UNCHANGED <<up, pc, fd, inBuf, outBuf, copied, taken, put, req, script, hung, trouble>>
      /\ cpc[c] = "status" /\ cpc' = [cpc EXCEPT ![c] = "exec"]
      /\ resp' = [resp EXCEPT ![c] = Append(@, "status")]
  BY DEF ChildSendStatus, ChildGoto, Send
<1>2. resp[c] \in Seq(Item) /\ Append(resp[c], "status") \in Seq(Item)
  BY DEF Types, Item
<1>3. Types'
  BY <1>1, <1>2 DEF Types, CgiLabels
<1>4. Local(c)
  BY <1>1 DEF Types, Local, FdLocal
<1>5. cpc'[c] = "exec" /\ pc[c] \in Serving /\ c \notin trouble /\ req[c] # "other"
  BY <1>1, Running DEF Types
<1>6. Places(c)' /\ Inherited(c)' /\ Table(c)'
  BY <1>1, <1>5 DEF ConnInv, Places, Serving, Inherited, Table, Open
<1>7. put[c] = 0 /\ outBuf[c] = 0
  BY <1>1 DEF Types, ConnInv, Flow
<1>8. Flow(c)'
  BY <1>1, <1>5, <1>7 DEF ConnInv, Flow, ContentLength
<1>9. Done(c)'
  BY <1>1, <1>5 DEF Done
<1>10. Answer(c)'
  <2>1. put[c] - outBuf[c] = 0
    BY <1>7
  <2>2. CASE pc[c] = "status"
    <3>1. c \notin hung => resp[c] = <<>>
      BY <1>1, <1>5, <2>2 DEF ConnInv, Answer
    <3>2. c \notin hung => resp'[c] = <<"status">>
      BY <1>1, <3>1 DEF Types
    <3> QED BY <1>1, <1>5, <2>2, <3>2 DEF Answer
  <2>3. CASE pc[c] # "status"
    <3>1. c \notin hung => resp[c] = <<"status">>
      BY <1>1, <1>5, <2>3 DEF ConnInv, Answer
    <3>2. c \notin hung => resp'[c] = <<"status", "status">> \o Blocks(0)
      BY <1>1, <3>1, BlocksGrow DEF Types
    <3> QED BY <1>1, <1>5, <2>1, <2>3, <3>2 DEF Answer
  <2> QED BY <2>2, <2>3
<1> QED BY <1>3, <1>4, <1>6, <1>8, <1>9, <1>10, OthersKept DEF ConnInv

LEMMA ExecInv ==
  ASSUME IInv, up, NEW c \in Conn, Exec(c)
  PROVE  IInv'
<1> USE DEF IInv
<1>1. cpc[c] = "exec"
  BY DEF Exec
<1>2. CASE script[c] = "noexec"
  <2>1. Exit(c) /\ UNCHANGED <<resp, pipeVars>> /\ ChildRest
    BY <1>2 DEF Exec
  <2>2. put[c] = 0
    BY <1>1 DEF ConnInv, Flow
  <2> QED BY <1>1, <1>2, <2>1, <2>2, ExitInv
<1>3. CASE script[c] # "noexec"
  <2> USE DEF ChildRest, pipeVars, askVars
  <2>1. /\ UNCHANGED <<up, pc, inBuf, outBuf, copied, taken, put, req, script, hung, trouble, resp>>
        /\ cpc' = [cpc EXCEPT ![c] = "script"]
        /\ fd' = [fd EXCEPT ![c] = @ \ {<<"outR", c>>, <<"inW", c>>}]
    BY <1>3 DEF Exec, Closes, ChildGoto
  <2>2. /\ Tables(fd') /\ fd'[Server] = fd[Server] /\ \A d \in Conn \ {c} : fd'[d] = fd[d]
        /\ fd'[c] = fd[c] \ {<<"outR", c>>, <<"inW", c>>}
    <3> DEFINE s == fd[c] \ {<<"outR", c>>, <<"inW", c>>}
    <3>1. s \subseteq fd[Server] \cup fd[c] /\ fd' = [fd EXCEPT ![c] = s]
      BY <2>1
    <3> HIDE DEF s
    <3>2. Tables(fd') /\ fd'[Server] = fd[Server] /\ fd'[c] = s
          /\ \A d \in Conn \ {c} : fd'[d] = fd[d]
      BY <3>1, ProcessTable DEF Types
    <3> QED BY <3>2 DEF s
  <2>3. Types'
    BY <2>1, <2>2 DEF Types, CgiLabels
  <2>4. Local(c)
    BY <2>1, <2>2 DEF Types, Local, FdLocal
  <2>5. cpc'[c] = "script" /\ pc[c] \in Serving /\ c \notin trouble /\ req[c] # "other"
    BY <1>1, <2>1, Running DEF Types
  <2>6. Places(c)'
    BY <1>3, <2>1, <2>5 DEF ConnInv, Places, Serving
  <2>7. Inherited(c)'
    BY <1>1, <2>2 DEF ConnInv, Inherited
  <2>8. Table(c)'
    BY <2>1, <2>2 DEF ConnInv, Table, Open
  <2>9. Flow(c)'
    BY <2>1, <2>5 DEF ConnInv, Flow, ContentLength
  <2>10. Done(c)' /\ Answer(c)'
    BY <1>1, <2>1, <2>5 DEF ConnInv, Done, Answer
  <2> QED BY <2>3, <2>4, <2>6, <2>7, <2>8, <2>9, <2>10, OthersKept DEF ConnInv
<1> QED BY <1>2, <1>3

LEMMA ScriptReadsInv ==
  ASSUME IInv, up, NEW c \in Conn, ScriptReads(c)
  PROVE  IInv'
<1> USE DEF IInv, ChildRest, pipeVars, askVars
<1>1. /\ UNCHANGED <<up, pc, fd, cpc, outBuf, copied, put, resp, trouble, req, script, hung>>
      /\ cpc[c] = "script" /\ inBuf[c] > 0
      /\ inBuf' = [inBuf EXCEPT ![c] = @ - 1] /\ taken' = [taken EXCEPT ![c] = @ + 1]
  BY DEF ScriptReads
<1>2. /\ inBuf'[c] = inBuf[c] - 1 /\ taken'[c] = taken[c] + 1
      /\ taken[c] \in Nat /\ inBuf[c] \in Nat /\ copied[c] \in Nat /\ taken[c] + inBuf[c] = copied[c]
  <2>1. inBuf \in [Conn -> 0 .. Cap] /\ taken \in [Conn -> 0 .. Body] /\ copied \in [Conn -> 0 .. Body]
    BY DEF Types
  <2>2. Flow(c)
    BY DEF ConnInv
  <2> HIDE DEF IInv
  <2>3. inBuf'[c] = inBuf[c] - 1 /\ taken'[c] = taken[c] + 1
    BY <1>1, <2>1
  <2>4. taken[c] \in Nat /\ inBuf[c] \in Nat /\ copied[c] \in Nat
    BY <2>1
  <2>5. taken[c] + inBuf[c] = copied[c]
    BY <2>2 DEF Flow
  <2> QED BY <2>3, <2>4, <2>5
<1>3. inBuf[c] - 1 \in 0 .. Cap /\ taken[c] + 1 \in 0 .. Body
  <2>1. inBuf[c] \in 0 .. Cap /\ copied[c] \in 0 .. Body
    BY DEF Types
  <2> HIDE DEF IInv
  <2> QED BY <1>1, <1>2, <2>1
<1>4. Types'
  BY <1>1, <1>3 DEF Types
<1>5. Local(c)
  BY <1>1 DEF Types, Local, FdLocal
<1>6. Places(c)' /\ Inherited(c)' /\ Table(c)'
  BY <1>1 DEF ConnInv, Places, Inherited, Table, Open, Serving
<1>7. Flow(c)'
  BY <1>1, <1>2 DEF ConnInv, Flow, ContentLength
<1>8. Done(c)' /\ Answer(c)'
  BY <1>1 DEF ConnInv, Done, Answer
<1> QED BY <1>4, <1>5, <1>6, <1>7, <1>8, OthersKept DEF ConnInv

LEMMA ScriptWritesInv ==
  ASSUME IInv, up, NEW c \in Conn, ScriptWrites(c)
  PROVE  IInv'
<1> USE DEF IInv, ChildRest, pipeVars, askVars
<1>1. /\ UNCHANGED <<up, pc, fd, cpc, inBuf, copied, taken, resp, trouble, req, script, hung>>
      /\ cpc[c] = "script" /\ put[c] < Output /\ outBuf[c] < Cap
      /\ outBuf' = [outBuf EXCEPT ![c] = @ + 1] /\ put' = [put EXCEPT ![c] = @ + 1]
  BY DEF ScriptWrites
<1>2. /\ outBuf'[c] = outBuf[c] + 1 /\ put'[c] = put[c] + 1
      /\ put[c] \in Nat /\ outBuf[c] \in Nat /\ outBuf[c] <= put[c]
  <2>1. outBuf \in [Conn -> 0 .. Cap] /\ put \in [Conn -> 0 .. Output]
    BY DEF Types
  <2>2. Flow(c)
    BY DEF ConnInv
  <2> HIDE DEF IInv
  <2>3. outBuf'[c] = outBuf[c] + 1 /\ put'[c] = put[c] + 1
    BY <1>1, <2>1
  <2>4. put[c] \in Nat /\ outBuf[c] \in Nat
    BY <2>1
  <2>5. outBuf[c] <= put[c]
    BY <2>2 DEF Flow
  <2> QED BY <2>3, <2>4, <2>5
<1>3. outBuf[c] + 1 \in 0 .. Cap /\ put[c] + 1 \in 0 .. Output
  <2>1. outBuf[c] \in 0 .. Cap /\ put[c] \in 0 .. Output
    BY DEF Types
  <2> HIDE DEF IInv
  <2> QED BY <1>1, <1>2, <2>1
<1>4. Types'
  BY <1>1, <1>3 DEF Types
<1>5. Local(c)
  BY <1>1 DEF Types, Local, FdLocal
<1>6. pc[c] \in Serving
  BY <1>1, Running
<1>7. Places(c)' /\ Inherited(c)' /\ Table(c)'
  BY <1>1 DEF ConnInv, Places, Inherited, Table, Open, Serving
<1>8. Flow(c)'
  <2>1. ContentLength(c)' = ContentLength(c)
    BY <1>1 DEF ContentLength
  <2> QED BY <1>1, <1>2, <1>6, <2>1 DEF ConnInv, Flow, Serving
<1>9. Done(c)'
  BY <1>1 DEF Done
<1>10. Answer(c)'
  <2>1. put'[c] - outBuf'[c] = put[c] - outBuf[c]
    BY <1>2
  <2> QED BY <1>1, <2>1 DEF ConnInv, Answer
<1> QED BY <1>4, <1>5, <1>7, <1>8, <1>9, <1>10, OthersKept DEF ConnInv

-----------------------------------------------------------------------------
(* The client *)

LEMMA HangUpInv ==
  ASSUME IInv, up, NEW c \in Conn, HangUp(c)
  PROVE  IInv'
<1> USE DEF IInv, pipeVars, askVars
<1>1. /\ UNCHANGED <<up, pc, fd, cpc, inBuf, outBuf, copied, taken, put, resp, trouble, req, script>>
      /\ hung' = hung \cup {c}
  BY DEF HangUp
<1>2. Types'
  BY <1>1 DEF Types
<1>3. Local(c)
  BY <1>1 DEF Types, Local, FdLocal
<1>4. Places(c)' /\ Inherited(c)' /\ Table(c)'
  BY <1>1 DEF ConnInv, Places, Inherited, Table, Open, Serving
<1>5. Flow(c)'
  BY <1>1 DEF ConnInv, Flow, ContentLength
<1>6. Done(c)' /\ Answer(c)'
  BY <1>1 DEF Done, Answer
<1> QED BY <1>2, <1>3, <1>4, <1>5, <1>6, OthersKept DEF ConnInv

LEMMA SigpipeInv ==
  ASSUME IInv, up, NEW c \in Conn, Sigpipe(c)
  PROVE  IInv'
<1>1. Dies /\ hung # {}
  BY DEF Sigpipe
<1> QED BY <1>1, DeadKept DEF Cause

-----------------------------------------------------------------------------
LEMMA ThreadInv ==
  ASSUME IInv, up, NEW c \in Conn, Thread(c)
  PROVE  IInv'
<1>1. CASE Unimplemented(c) \/ Refuse(c)
  BY <1>1, RefuseInv
<1>2. CASE ServeFile(c)
  BY <1>2, ServeFileInv
<1>3. CASE SendFile(c)
  BY <1>3, SendFileInv
<1>4. CASE Close(c)
  BY <1>4, CloseInv
<1>5. CASE PipeOutput(c) \/ PipeInput(c)
  BY <1>5, PipeInv
<1>6. CASE ForkCgi(c)
  BY <1>6, ForkCgiInv
<1>7. CASE SendStatus(c)
  BY <1>7, SendStatusInv
<1>8. CASE CloseEnds(c)
  BY <1>8, CloseEndsInv
<1>9. CASE CopyBody(c)
  BY <1>9, CopyBodyInv
<1>10. CASE CopyDone(c)
  BY <1>10, CopyDoneInv
<1>11. CASE Relay(c)
  BY <1>11, RelayInv
<1>12. CASE Waitpid(c)
  BY <1>12, WaitpidInv
<1> QED BY <1>1, <1>2, <1>3, <1>4, <1>5, <1>6, <1>7, <1>8, <1>9, <1>10, <1>11, <1>12 DEF Thread

LEMMA CgiInv ==
  ASSUME IInv, up, NEW c \in Conn, Cgi(c)
  PROVE  IInv'
<1>1. CASE ChildSendStatus(c)
  BY <1>1, ChildSendStatusInv
<1>2. CASE Exec(c)
  BY <1>2, ExecInv
<1>3. CASE ScriptReads(c)
  BY <1>3, ScriptReadsInv
<1>4. CASE ScriptWrites(c)
  BY <1>4, ScriptWritesInv
<1>5. CASE ScriptExits(c)
  BY <1>5, ScriptExitsInv
<1> QED BY <1>1, <1>2, <1>3, <1>4, <1>5 DEF Cgi

LEMMA NextInv == IInv /\ [Next]_vars => IInv'
<1> SUFFICES ASSUME IInv, [Next]_vars PROVE IInv'
  OBVIOUS
<1>1. CASE UNCHANGED vars
  <2> USE <1>1 DEF vars, pipeVars, askVars
  <2>1. Types' /\ Survives'
    BY DEF IInv, Types, Survives, Room
  <2>2. ASSUME NEW c \in Conn PROVE ConnInv(c)'
    <3> USE DEF IInv, ConnInv
    <3>1. Places(c)' /\ Inherited(c)'
      BY DEF Places, Inherited
    <3>2. Table(c)' /\ Answer(c)'
      BY DEF Table, Open, Answer
    <3>3. Flow(c)' /\ Done(c)'
      BY DEF Flow, Done, ContentLength
    <3> QED BY <3>1, <3>2, <3>3
  <2> QED BY <2>1, <2>2 DEF IInv
<1>2. CASE Next
  <2>1. up
    BY <1>2 DEF Next
  <2>2. PICK c \in Conn :
          Accept(c) \/ Thread(c) \/ Cgi(c) \/ HangUp(c) \/ Sigpipe(c) \/ ChildSigpipe(c)
    BY <1>2 DEF Next
  <2>3. CASE Accept(c)
    BY <2>1, <2>3, AcceptInv
  <2>4. CASE Thread(c)
    BY <2>1, <2>4, ThreadInv
  <2>5. CASE Cgi(c)
    BY <2>1, <2>5, CgiInv
  <2>6. CASE HangUp(c)
    BY <2>1, <2>6, HangUpInv
  <2>7. CASE Sigpipe(c) \/ ChildSigpipe(c)
    BY <2>1, <2>7, SigpipeInv, ChildSigpipeInv
  <2> QED BY <2>2, <2>3, <2>4, <2>5, <2>6, <2>7
<1> QED BY <1>1, <1>2

LEMMA InvHolds == Spec => []IInv
  BY InitInv, NextInv, PTL DEF Spec

-----------------------------------------------------------------------------
(* The theorems *)

\* A thread that has left the loop over the output, and no failing call or
\* client has cut off, has sent both status lines and all the script wrote.
THEOREM AnswerCompleteCorrect == Spec => []AnswerComplete
<1>1. IInv => AnswerComplete
  <2> SUFFICES ASSUME IInv, NEW c \in Conn, c \notin trouble \cup hung,
                      pc[c] = "wait" \/ cpc[c] = "reaped"
               PROVE  /\ resp[c] = <<"status", "status">> \o [n \in 1 .. put[c] |-> "block"]
                      /\ put[c] = IF script[c] = "noexec" THEN 0 ELSE Output
    BY DEF AnswerComplete
  <2>1. cpc[c] \in {"zombie", "reaped"} /\ pc[c] # "status" /\ outBuf[c] = 0
    BY DEF IInv, ConnInv, Places, Serving, Flow
  <2>2. put[c] - outBuf[c] = put[c]
    BY <2>1 DEF IInv, Types
  <2>3. resp[c] = <<"status", "status">> \o Blocks(put[c])
    BY <2>1, <2>2 DEF IInv, ConnInv, Answer
  <2>4. put[c] = IF script[c] = "noexec" THEN 0 ELSE Output
    BY <2>1 DEF IInv, ConnInv, Done
  <2> QED BY <2>3, <2>4 DEF Blocks
<1> QED BY <1>1, InvHolds, PTL

\* A request that met no failing call leaves no descriptor in the table but the
\* socket of a method that is not implemented.
THEOREM NothingLeftCorrect == Spec => []NothingLeft
<1>1. IInv => NothingLeft
  <2> SUFFICES ASSUME IInv PROVE NothingLeft
    OBVIOUS
  <2>1. TypeOK
    BY DEF IInv, Types, Tables, Labels, CgiLabels, TypeOK
  <2>2. ASSUME NEW c \in Conn, pc[c] = "done", c \notin trouble, NEW d \in fd[Server], d[2] = c
        PROVE  req[c] = "other" /\ d[1] = "sock"
    <3>1. PICK k \in Kinds : d = <<k, c>>
      BY <2>2 DEF IInv, Types, Tables
    <3>2. k \in Open(c)
      BY <2>2, <3>1 DEF IInv, ConnInv, Table
    <3> QED BY <2>2, <3>1, <3>2 DEF Open
  <2> QED BY <2>1, <2>2 DEF NothingLeft
<1> QED BY <1>1, InvHolds, PTL

\* The server dies only of a client or a script that leaves, of a full table or
\* of fclose(NULL); a pipe end closed too early or too late is never why.
THEOREM SurvivesCorrect == Spec => []Survives
<1>1. IInv => Survives
  BY DEF IInv
<1> QED BY <1>1, InvHolds, PTL

-----------------------------------------------------------------------------
(* get_line(): FlattenSeq *)

HIDE TinyHttpdAssumption

LEMMA Smallest ==
  ASSUME NEW S \in SUBSET Nat, S # {}
  PROVE  \E m \in S : \A k \in S : m <= k
<1>1. PICK n \in S : TRUE
  OBVIOUS
<1> DEFINE A == 0 .. n
           R == StrictSubsetOrdering(A)
           T == {s \in SUBSET A : \E k \in S : s = 0 .. k}
<1>2. IsWellFoundedOn(R, SUBSET A)
  <2>1. IsFiniteSet(A)
    BY FS_Interval
  <2> HIDE DEF A
  <2> QED BY <2>1, FS_StrictSubsetOrderingWellFounded, FS_FiniteSubsetsOfFinite
<1>3. A \in T
  OBVIOUS
<1>4. PICK s \in T : \A t \in T : ~(<<t, s>> \in R)
  <2>1. T \subseteq SUBSET A
    OBVIOUS
  <2> HIDE DEF A, R, T
  <2> QED BY <1>2, <1>3, <2>1, WFMin
<1>5. PICK k \in S : s = 0 .. k
  BY <1>4
<1>6. ASSUME NEW j \in S, j < k PROVE FALSE
  <2>1. k \in Nat /\ j \in Nat
    OBVIOUS
  <2>2. 0 .. j \subseteq 0 .. k /\ k \in 0 .. k /\ k \notin 0 .. j
    BY <2>1, <1>6
  <2>3. 0 .. k \subseteq A
    BY <1>4, <1>5
  <2>4. 0 .. j \in T
    BY <2>2, <2>3
  <2>5. <<0 .. j, s>> \in R
    <3> DEFINE u == 0 .. j
    <3>1. u \in SUBSET A /\ s \in SUBSET A /\ u \subseteq s /\ u # s
      BY <2>2, <2>3, <1>5
    <3> HIDE DEF u, A, T
    <3>2. <<u, s>> \in R
      BY <3>1 DEF StrictSubsetOrdering
    <3> QED BY <3>2 DEF u
  <2> QED BY <1>4, <2>4, <2>5
<1>7. \A j \in S : k <= j
  <2> TAKE j \in S
  <2>1. k \in Nat /\ j \in Nat
    OBVIOUS
  <2> QED BY <1>6, <2>1
<1> QED BY <1>7

\* f joins the first n sequences of ss, one after the other.
Joins(f, ss, n) == f = [i \in 1 .. n |-> IF i = 1 THEN ss[i] ELSE f[i - 1] \o ss[i]]

LEMMA JoinsAt ==
  ASSUME NEW ss, NEW n, NEW f, Joins(f, ss, n), NEW i \in 1 .. n
  PROVE  f[i] = IF i = 1 THEN ss[i] ELSE f[i - 1] \o ss[i]
<1> DEFINE h == [k \in 1 .. n |-> IF k = 1 THEN ss[k] ELSE f[k - 1] \o ss[k]]
<1>1. f = h
  BY DEF Joins
<1>2. h[i] = IF i = 1 THEN ss[i] ELSE f[i - 1] \o ss[i]
  OBVIOUS
<1> HIDE DEF h
<1> QED BY <1>1, <1>2

Agree(f, g, n) == \A i \in 1 .. n : f[i] = g[i]

LEMMA JoinsAgree ==
  ASSUME NEW ss, NEW tt, NEW n \in Nat, NEW m \in Nat, NEW f, NEW g, Joins(f, ss, n), Joins(g, tt, m),
         n <= m, Agree(ss, tt, n)
  PROVE  Agree(f, g, n)
<1> DEFINE Bad == {i \in 1 .. n : f[i] # g[i]}
<1>1. SUFFICES ASSUME Bad # {} PROVE FALSE
  BY DEF Agree
<1>2. Bad \in SUBSET Nat
  OBVIOUS
<1> HIDE DEF Bad
<1>3. PICK i \in Bad : \A j \in Bad : i <= j
  BY <1>1, <1>2, Smallest
<1>4. i \in 1 .. n /\ f[i] # g[i] /\ (i # 1 => f[i - 1] = g[i - 1])
  BY <1>3 DEF Bad
<1>5. f[i] = IF i = 1 THEN ss[i] ELSE f[i - 1] \o ss[i]
  BY <1>4, JoinsAt
<1>6. i \in 1 .. m /\ ss[i] = tt[i]
  BY <1>4 DEF Agree
<1>7. g[i] = IF i = 1 THEN tt[i] ELSE g[i - 1] \o tt[i]
  BY <1>6, JoinsAt
<1> QED BY <1>4, <1>5, <1>6, <1>7

LEMMA JoinsExtend ==
  ASSUME NEW ss, NEW n \in Nat, NEW f, Joins(f, ss, n)
  PROVE  \E g : Joins(g, ss, n + 1)
<1> DEFINE g == [i \in 1 .. n + 1 |-> IF i = 1 THEN ss[i] ELSE f[i - 1] \o ss[i]]
<1>1. ASSUME NEW i \in 1 .. n PROVE g[i] = f[i]
  BY JoinsAt
<1>2. ASSUME NEW i \in 1 .. n + 1 PROVE g[i] = IF i = 1 THEN ss[i] ELSE g[i - 1] \o ss[i]
  <2>1. CASE i = 1
    BY <2>1
  <2>2. CASE i # 1
    <3>0. i - 1 \in 1 .. n
      BY <2>2
    <3>1. g[i] = f[i - 1] \o ss[i]
      BY <2>2
    <3>2. g[i - 1] = f[i - 1]
      BY <3>0, <1>1
    <3> HIDE DEF g
    <3> QED BY <2>2, <3>1, <3>2
  <2> QED BY <2>1, <2>2
<1>3. Joins(g, ss, n + 1)
  <2> DEFINE h == [i \in 1 .. n + 1 |-> IF i = 1 THEN ss[i] ELSE g[i - 1] \o ss[i]]
  <2>1. \A i \in 1 .. n + 1 : g[i] = h[i]
    BY <1>2
  <2>2. DOMAIN g = 1 .. n + 1 /\ DOMAIN h = 1 .. n + 1 /\ g = [i \in 1 .. n + 1 |-> g[i]]
        /\ h = [i \in 1 .. n + 1 |-> h[i]]
    OBVIOUS
  <2>3. g = h
    <3> HIDE DEF g, h
    <3> QED BY <2>1, <2>2
  <2> QED BY <2>3 DEF Joins
<1> QED BY <1>3

LEMMA JoinsExists ==
  ASSUME NEW ss, NEW n \in Nat
  PROVE  \E f : Joins(f, ss, n)
<1> DEFINE Bad == {m \in Nat : ~\E f : Joins(f, ss, m)}
<1>1. SUFFICES ASSUME Bad # {} PROVE FALSE
  OBVIOUS
<1>2. Bad \in SUBSET Nat
  OBVIOUS
<1>3. PICK m \in Bad : \A j \in Bad : m <= j
  <2> HIDE DEF Bad
  <2> QED BY <1>1, <1>2, Smallest
<1>4. m # 0
  <2>1. Joins([i \in 1 .. 0 |-> ss[i]], ss, 0)
    BY DEF Joins
  <2> QED BY <2>1, <1>3
<1>5. m - 1 \in Nat /\ m - 1 \notin Bad /\ m - 1 + 1 = m
  BY <1>3, <1>4
<1>6. PICK f : Joins(f, ss, m - 1)
  BY <1>5
<1>7. \E g : Joins(g, ss, m)
  BY <1>5, <1>6, JoinsExtend
<1> QED BY <1>3, <1>7

LEMMA FlattenMeans ==
  ASSUME NEW X, NEW ss \in Seq(X), ss # <<>>
  PROVE  \E f : Joins(f, ss, Len(ss)) /\ FlattenSeq(ss) = f[Len(ss)]
<1> DEFINE f == CHOOSE g : Joins(g, ss, Len(ss))
<1>1. Joins(f, ss, Len(ss))
  <2>1. Len(ss) \in Nat
    OBVIOUS
  <2>2. \E g : Joins(g, ss, Len(ss))
    BY <2>1, JoinsExists
  <2> QED BY <2>2
<1>2. FlattenSeq(ss) = f[Len(ss)]
  <2>1. Len(ss) # 0
    OBVIOUS
  <2> QED BY <2>1 DEF FlattenSeq, Joins
<1> QED BY <1>1, <1>2

LEMMA FlattenAppend ==
  ASSUME NEW X, NEW ss \in Seq(Seq(X)), NEW s \in Seq(X)
  PROVE  FlattenSeq(Append(ss, s)) = FlattenSeq(ss) \o s
<1> DEFINE tt == Append(ss, s)
           n == Len(ss)
<1>1. /\ n \in Nat /\ tt \in Seq(Seq(X)) /\ Len(tt) = n + 1 /\ tt # <<>> /\ tt[n + 1] = s
      /\ \A i \in 1 .. n : tt[i] = ss[i]
  BY AppendProperties
<1> HIDE DEF tt
<1>2. PICK m \in Nat : m = n + 1
  BY <1>1
<1>3. PICK g : Joins(g, tt, m) /\ FlattenSeq(tt) = g[m]
  BY <1>1, <1>2, FlattenMeans
<1>6. g[m] = IF n = 0 THEN s ELSE g[n] \o s
  <2>1. m \in 1 .. m /\ (m = 1 <=> n = 0) /\ m - 1 = n
    BY <1>1, <1>2
  <2>2. g[m] = IF m = 1 THEN tt[m] ELSE g[m - 1] \o tt[m]
    BY <1>3, <2>1, JoinsAt
  <2> QED BY <1>1, <1>2, <2>1, <2>2
<1>4. CASE n = 0
  <2>1. ss = <<>> /\ FlattenSeq(<<>>) = <<>> /\ <<>> \o s = s
    BY <1>4 DEF FlattenSeq
  <2> QED BY <1>3, <1>4, <1>6, <2>1 DEF tt
<1>5. CASE n # 0
  <2>1. PICK f : Joins(f, ss, n) /\ FlattenSeq(ss) = f[n]
    BY <1>5, FlattenMeans
  <2>2. n \in 1 .. n /\ n <= m
    BY <1>1, <1>2, <1>5
  <2>3. f[n] = g[n]
    <3>1. Agree(ss, tt, n)
      BY <1>1 DEF Agree
    <3> HIDE DEF n
    <3>2. n \in Nat /\ m \in Nat /\ Joins(f, ss, n) /\ Joins(g, tt, m) /\ n <= m
      BY <1>1, <1>2, <1>3, <2>1, <2>2
    <3>3. Agree(f, g, n)
      BY <3>1, <3>2, JoinsAgree
    <3> QED BY <2>2, <3>3 DEF Agree
  <2> QED BY <1>3, <1>5, <1>6, <2>1, <2>3 DEF tt
<1> QED BY <1>4, <1>5

LEMMA FlattenType ==
  ASSUME NEW X, NEW ss \in Seq(Seq(X))
  PROVE  FlattenSeq(ss) \in Seq(X)
<1> DEFINE Bad == {m \in Nat : \E tt \in Seq(Seq(X)) : Len(tt) = m /\ FlattenSeq(tt) \notin Seq(X)}
<1>1. SUFFICES ASSUME Bad # {} PROVE FALSE
  <2> HIDE DEF Bad
  <2> QED BY DEF Bad
<1>2. Bad \in SUBSET Nat
  OBVIOUS
<1>3. PICK m \in Bad : \A j \in Bad : m <= j
  <2> HIDE DEF Bad
  <2> QED BY <1>1, <1>2, Smallest
<1>4. PICK tt \in Seq(Seq(X)) : Len(tt) = m /\ FlattenSeq(tt) \notin Seq(X)
  BY <1>3
<1>5. tt # <<>>
  <2>1. FlattenSeq(<<>>) = <<>> /\ <<>> \in Seq(X)
    BY DEF FlattenSeq
  <2> QED BY <1>4, <2>1
<1>6. PICK uu \in Seq(Seq(X)), s \in Seq(X) : tt = Append(uu, s)
  BY <1>4, <1>5, SequenceEmptyOrAppend
<1>7. Len(uu) \in Nat /\ Len(uu) + 1 = m
  BY <1>4, <1>6, AppendProperties
<1>8. FlattenSeq(uu) \in Seq(X)
  BY <1>3, <1>7
<1>9. FlattenSeq(tt) = FlattenSeq(uu) \o s
  BY <1>6, FlattenAppend
<1> QED BY <1>4, <1>8, <1>9, ConcatProperties

-----------------------------------------------------------------------------
(* get_line(): the invariant *)

Char == {"a", "lf"}

LineTypes ==
    /\ sent \in Seq(Bytes) /\ received \in 0 .. Len(sent)
    /\ char \in {"nul", "a", "lf"} /\ phase \in {"headers", "body"}
    /\ buf \in Seq(Char) /\ Len(buf) < Size
    /\ lines \in Seq(Seq(Char))

\* A carriage return and the line feed behind it are taken together.
Whole == received \in 1 .. Len(sent) - 1 /\ sent[received] = "cr" => sent[received + 1] # "lf"

\* The line in hand: other bytes only, then perhaps a line end; or the client
\* had no more.
InHand ==
    /\ \A k \in 1 .. Len(buf) : buf[k] = "lf" => k = Len(buf) /\ char = "lf"
    /\ char = "lf" => \/ /\ buf # <<>> /\ buf[Len(buf)] = "lf"
                         /\ received > 0 /\ sent[received] # "a"
                      \/ received = Len(sent) /\ \A k \in 1 .. Len(buf) : buf[k] = "a"
    /\ char # "lf" =>
          Len(buf) <= received /\ \A k \in 1 .. Len(buf) : sent[received - Len(buf) + k] = "a"
    /\ phase = "body" => char = "nul" /\ buf = <<>>

\* A line that ends neither in a line end nor at the end of the buffer is the
\* last one, or the last but the empty one behind it.
Returned ==
    \A n \in DOMAIN lines :
        /\ Len(lines[n]) < Size
        /\ \A k \in 1 .. Len(lines[n]) - 1 : lines[n][k] # "lf"
        /\ (lines[n] = <<>> \/ lines[n][Len(lines[n])] # "lf") /\ Len(lines[n]) # Size - 1 =>
              /\ received = Len(sent)
              /\ \/ n = Len(lines) /\ buf = <<>>
                 \/ n = Len(lines) - 1 /\ phase = "body"

\* While no line is too long for the buffer: a line begins behind a line end,
\* and what ends the headers is the first blank line.
Begins ==
    phase = "headers" /\ buf = <<>> /\ char # "lf" /\ received \in 1 .. Len(sent) - 1 =>
        sent[received] # "a"

FirstBlank(k) == k \in BlankAt(sent) /\ received = EndOf(sent, k) /\ \A j \in BlankAt(sent) : k <= j

Headers ==
    phase = "headers" =>
        IF buf = Blank THEN \E k \in BlankAt(sent) : FirstBlank(k)
        ELSE \A k \in BlankAt(sent) : received < k

LineInv ==
    /\ LineTypes /\ Whole /\ InHand /\ Returned
    /\ FlattenSeq(lines) \o buf = Normal(SubSeq(sent, 1, received))
    /\ ~Overlong(sent) => Begins /\ Headers
    /\ BodyStartsAfterBlank

USE GetLineAssumption

LEMMA ShownMeans ==
  ASSUME NEW s \in Seq(Bytes), NEW k \in 1 .. Len(s)
  PROVE  Shown(s, k) \in Seq(Char)
<1>1. /\ <<"a">> \in Seq(Char) /\ <<"lf">> \in Seq(Char) /\ <<>> \in Seq(Char)
  BY DEF Char
<1>2. Shown(s, k) \in {<<"a">>, <<"lf">>, <<>>}
  BY DEF Shown
<1> QED BY <1>1, <1>2

LEMMA NormalStep ==
  ASSUME NEW s \in Seq(Bytes), NEW n \in Nat, n < Len(s)
  PROVE  Normal(SubSeq(s, 1, n + 1)) = Normal(SubSeq(s, 1, n)) \o Shown(s, n + 1)
<1> DEFINE P == [k \in 1 .. n |-> Shown(s, k)]
           Q == [k \in 1 .. n + 1 |-> Shown(s, k)]
<1>1. Normal(SubSeq(s, 1, n)) = FlattenSeq(P)
  <2> DEFINE t == SubSeq(s, 1, n)
  <2>1. Len(t) = n /\ \A k \in 1 .. n : t[k] = s[k]
    BY SubSeqProperties
  <2>2. \A k \in 1 .. n : Shown(t, k) = Shown(s, k)
    <3> HIDE DEF t
    <3> QED BY <2>1 DEF Shown
  <2>3. [k \in 1 .. Len(t) |-> Shown(t, k)] = P
    <3> HIDE DEF t
    <3> QED BY <2>1, <2>2
  <2> HIDE DEF P
  <2> QED BY <2>3 DEF Normal
<1>2. Normal(SubSeq(s, 1, n + 1)) = FlattenSeq(Q)
  <2> DEFINE t == SubSeq(s, 1, n + 1)
  <2>1. Len(t) = n + 1 /\ \A k \in 1 .. n + 1 : t[k] = s[k]
    BY SubSeqProperties
  <2>2. \A k \in 1 .. n + 1 : Shown(t, k) = Shown(s, k)
    <3> HIDE DEF t
    <3> QED BY <2>1 DEF Shown
  <2>3. [k \in 1 .. Len(t) |-> Shown(t, k)] = Q
    <3> HIDE DEF t
    <3> QED BY <2>1, <2>2
  <2> HIDE DEF Q
  <2> QED BY <2>3 DEF Normal
<1>3. /\ P \in Seq(Seq(Char)) /\ Q \in Seq(Seq(Char))
      /\ Len(P) = n /\ Len(Q) = n + 1 /\ Shown(s, n + 1) \in Seq(Char)
  <2>1. \A k \in 1 .. n + 1 : Shown(s, k) \in Seq(Char)
    BY ShownMeans
  <2>2. P \in [1 .. n -> Seq(Char)] /\ Q \in [1 .. n + 1 -> Seq(Char)]
    BY <2>1
  <2> QED BY <2>1, <2>2, IsASeq, LenProperties
<1>4. Q = Append(P, Shown(s, n + 1))
  <2> DEFINE R == Append(P, Shown(s, n + 1))
  <2>1. /\ R \in Seq(Seq(Char)) /\ Len(R) = n + 1 /\ R[n + 1] = Shown(s, n + 1)
        /\ \A k \in 1 .. n : R[k] = P[k]
    <3> HIDE DEF P
    <3> QED BY <1>3, AppendProperties
  <2>2. \A k \in 1 .. n + 1 : Q[k] = R[k]
    <3>1. \A k \in 1 .. n : P[k] = Q[k]
      OBVIOUS
    <3>2. Q[n + 1] = Shown(s, n + 1)
      OBVIOUS
    <3> HIDE DEF P, Q, R
    <3>3. \A k \in 1 .. n + 1 : k \in 1 .. n \/ k = n + 1
      OBVIOUS
    <3>4. \A k \in 1 .. n : Q[k] = R[k]
      BY <2>1, <3>1
    <3>5. Q[n + 1] = R[n + 1]
      BY <2>1, <3>2
    <3> QED BY <3>3, <3>4, <3>5
  <2> HIDE DEF Q, R
  <2> QED BY <1>3, <2>1, <2>2, SeqEqual
<1> HIDE DEF P, Q
<1>5. FlattenSeq(Q) = FlattenSeq(P) \o Shown(s, n + 1)
  BY <1>3, <1>4, FlattenAppend
<1> QED BY <1>1, <1>2, <1>5

LEMMA LineInitInv ==
  ASSUME LineInit
  PROVE  LineInv
<1>1. /\ sent \in Seq(Bytes) /\ received = 0 /\ char = "nul" /\ buf = <<>> /\ lines = <<>>
      /\ phase = "headers" /\ Len(sent) \in Nat /\ 1 < Size
  <2>1. PICK m \in 0 .. MaxLen : sent \in [1 .. m -> Bytes]
    BY DEF LineInit, BoundedSeq, SeqOf
  <2>2. sent \in Seq(Bytes)
    BY <2>1, SeqDef
  <2> QED BY <2>2 DEF LineInit
<1>2. LineTypes
  BY <1>1 DEF LineTypes, Char
<1>3. Whole /\ InHand /\ Returned /\ BodyStartsAfterBlank /\ Begins
  BY <1>1 DEF Whole, InHand, Returned, BodyStartsAfterBlank, Begins
<1>4. Headers
  BY <1>1 DEF Headers, BlankAt, Blank
<1>5. FlattenSeq(lines) \o buf = Normal(SubSeq(sent, 1, received))
  <2>1. SubSeq(sent, 1, 0) = <<>> /\ FlattenSeq(<<>>) = <<>> /\ <<>> \o <<>> = <<>>
    BY <1>1, SubSeqEmpty DEF FlattenSeq
  <2>2. Normal(<<>>) = <<>>
    <3>1. [k \in 1 .. 0 |-> Shown(<<>>, k)] = <<>>
      OBVIOUS
    <3> QED BY <2>1, <3>1 DEF Normal
  <2> QED BY <1>1, <2>1, <2>2
<1> QED BY <1>2, <1>3, <1>4, <1>5 DEF LineInv

\* What one turn of the loop reads, and what it puts into the buffer.
LEMMA GetCharMeans ==
  ASSUME LineInv, GetChar
  PROVE  /\ received \in Nat /\ Len(buf) \in Nat /\ Len(sent) \in Nat /\ received < Len(sent)
         /\ phase = "headers" /\ phase' = "headers" /\ char # "lf" /\ Len(buf) + 1 < Size
         /\ sent' = sent /\ lines' = lines /\ sent[received + 1] \in Bytes
         /\ char' = (IF sent[received + 1] = "a" THEN "a" ELSE "lf")
         /\ received' = received + (IF /\ sent[received + 1] = "cr" /\ received + 1 < Len(sent)
                                       /\ sent[received + 2] = "lf" THEN 2 ELSE 1)
<1>1. LineTypes
  BY DEF LineInv
<1>2. /\ received \in Nat /\ Len(buf) \in Nat /\ Len(sent) \in Nat /\ received < Len(sent)
      /\ phase = "headers" /\ phase' = "headers" /\ char # "lf" /\ Len(buf) + 1 < Size
      /\ sent' = sent /\ lines' = lines /\ sent[received + 1] \in Bytes
  BY <1>1 DEF LineTypes, GetChar, Reading
<1>3. char' = (IF sent[received + 1] = "a" THEN "a" ELSE "lf")
  BY <1>2 DEF GetChar, Bytes
<1>4. received' = received + (IF /\ sent[received + 1] = "cr" /\ received + 1 < Len(sent)
                                 /\ sent[received + 2] = "lf" THEN 2 ELSE 1)
  BY DEF GetChar
<1> QED BY <1>2, <1>3, <1>4

LEMMA GetCharPuts ==
  ASSUME LineInv, GetChar
  PROVE  /\ buf \in Seq(Char) /\ Len(buf) \in Nat /\ char' \in Char
         /\ buf' = Append(buf, char') /\ Len(buf') = Len(buf) + 1 /\ buf' # <<>>
         /\ buf' \in Seq(Char)
         /\ buf'[Len(buf) + 1] = char' /\ \A k \in 1 .. Len(buf) : buf'[k] = "a"
<1>1. buf \in Seq(Char) /\ Len(buf) \in Nat /\ InHand
  BY DEF LineInv, LineTypes
<1>2. char' \in Char
  BY GetCharMeans DEF Char
<1>3. buf' = Append(buf, char')
  BY DEF GetChar
<1>4. /\ Len(buf') = Len(buf) + 1 /\ buf' # <<>> /\ buf' \in Seq(Char)
      /\ buf'[Len(buf) + 1] = char' /\ \A k \in 1 .. Len(buf) : buf'[k] = buf[k]
  BY <1>1, <1>2, <1>3, AppendProperties
<1>5. \A k \in 1 .. Len(buf) : buf[k] = "a"
  <2>1. \A k \in 1 .. Len(buf) : buf[k] # "lf"
    <3>1. char # "lf"
      BY GetCharMeans
    <3> QED BY <1>1, <3>1 DEF InHand
  <2>2. \A k \in 1 .. Len(buf) : buf[k] \in {"a", "lf"}
    BY <1>1, ElementOfSeq DEF Char
  <2> QED BY <2>1, <2>2
<1> QED BY <1>1, <1>2, <1>3, <1>4, <1>5

LEMMA GetCharKeepsLines ==
  ASSUME LineInv, GetChar
  PROVE  (LineTypes /\ Whole /\ InHand /\ Returned /\ BodyStartsAfterBlank /\ Begins)'
<1>0. LineTypes /\ InHand /\ Returned
  BY DEF LineInv
<1>1. LineTypes'
  BY <1>0, GetCharMeans, GetCharPuts DEF LineTypes
<1>2. Whole'
  BY GetCharMeans DEF Whole
<1>3. InHand'
  <2> DEFINE n == Len(buf)
  <2>0. n \in Nat /\ Len(buf') = n + 1 /\ buf'[n + 1] = char' /\ \A k \in 1 .. n : buf'[k] = "a"
    BY GetCharPuts
  <2> HIDE DEF n
  <2>1. ASSUME NEW k \in 1 .. Len(buf'), buf'[k] = "lf" PROVE k = Len(buf') /\ char' = "lf"
    <3>1. k \notin 1 .. n
      BY <2>0, <2>1
    <3>2. k = n + 1
      BY <2>0, <3>1
    <3> QED BY <2>0, <2>1, <3>2
  <2>2. char' = "lf" => /\ buf' # <<>> /\ buf'[Len(buf')] = "lf"
                        /\ received' > 0 /\ sent'[received'] # "a"
    <3> SUFFICES ASSUME char' = "lf"
                 PROVE  /\ buf' # <<>> /\ buf'[Len(buf')] = "lf"
                        /\ received' > 0 /\ sent'[received'] # "a"
      OBVIOUS
    <3>1. buf' # <<>> /\ buf'[Len(buf')] = "lf"
      BY <2>0, GetCharPuts
    <3>2. received' > 0 /\ sent'[received'] # "a"
      BY GetCharMeans
    <3> QED BY <3>1, <3>2
  <2>3. ASSUME char' # "lf"
        PROVE  /\ Len(buf') <= received'
               /\ \A k \in 1 .. Len(buf') : sent'[received' - Len(buf') + k] = "a"
    <3>1. sent[received + 1] = "a" /\ received' = received + 1 /\ sent' = sent /\ received \in Nat
      BY <2>3, GetCharMeans
    <3>2. n <= received /\ \A k \in 1 .. n : sent[received - n + k] = "a"
      <4>1. char # "lf"
        BY GetCharMeans
      <4> QED BY <1>0, <4>1 DEF InHand, n
    <3>3. ASSUME NEW k \in 1 .. Len(buf') PROVE sent[received' - Len(buf') + k] = "a"
      <4>1. received' - Len(buf') + k = received - n + k
        BY <2>0, <3>1
      <4>2. CASE k = n + 1
        <5>1. received - n + k = received + 1
          BY <2>0, <3>1, <4>2
        <5> QED BY <3>1, <4>1, <5>1
      <4>3. CASE k \in 1 .. n
        BY <3>2, <4>1, <4>3
      <4> QED BY <2>0, <4>2, <4>3
    <3>4. Len(buf') <= received'
      BY <2>0, <3>1, <3>2
    <3> QED BY <3>1, <3>3, <3>4
  <2>4. phase' = "headers"
    BY GetCharMeans
  <2> QED BY <2>1, <2>2, <2>3, <2>4 DEF InHand
<1>4. Returned'
  BY <1>0, GetCharMeans DEF Returned
<1>5. BodyStartsAfterBlank'
  BY GetCharMeans DEF BodyStartsAfterBlank
<1>6. Begins'
  BY GetCharPuts DEF Begins
<1> QED BY <1>1, <1>2, <1>3, <1>4, <1>5, <1>6

LEMMA ShownAlone ==
  ASSUME NEW s, NEW n \in Nat, n > 0 /\ s[n] = "cr" => s[n + 1] # "lf"
  PROVE  Shown(s, n + 1) = IF s[n + 1] = "a" THEN <<"a">> ELSE <<"lf">>
<1>1. PICK k \in Nat : k = n + 1
  OBVIOUS
<1>2. k - 1 = n /\ (k > 1 <=> n > 0)
  BY <1>1
<1>3. ~(s[k] = "lf" /\ k > 1 /\ s[k - 1] = "cr")
  BY <1>1, <1>2
<1>4. Shown(s, k) = IF s[k] = "a" THEN <<"a">> ELSE <<"lf">>
  BY <1>3 DEF Shown
<1> QED BY <1>1, <1>4

LEMMA ShownBehind ==
  ASSUME NEW s, NEW n \in Nat, s[n + 1] = "cr", s[n + 2] = "lf"
  PROVE  Shown(s, n + 2) = <<>>
<1>1. PICK k \in Nat : k = n + 2
  OBVIOUS
<1>2. k > 1 /\ k - 1 = n + 1
  BY <1>1
<1>3. s[k] = "lf" /\ s[k - 1] = "cr"
  BY <1>1, <1>2
<1>4. Shown(s, k) = <<>>
  BY <1>2, <1>3 DEF Shown
<1> QED BY <1>1, <1>4

LEMMA GetCharKeepsAll ==
  ASSUME LineInv, GetChar
  PROVE  (FlattenSeq(lines) \o buf = Normal(SubSeq(sent, 1, received)))'
<1> DEFINE F == FlattenSeq(lines)
           N(n) == Normal(SubSeq(sent, 1, n))
<1>1. /\ sent \in Seq(Bytes) /\ lines \in Seq(Seq(Char)) /\ buf \in Seq(Char) /\ F \in Seq(Char)
      /\ Whole /\ F \o buf = N(received)
  <2>1. sent \in Seq(Bytes) /\ lines \in Seq(Seq(Char)) /\ buf \in Seq(Char) /\ Whole
    BY DEF LineInv, LineTypes
  <2>2. F \in Seq(Char)
    BY <2>1, FlattenType
  <2> QED BY <2>1, <2>2 DEF LineInv
<1>2. Shown(sent, received + 1) = <<char'>>
  <2>1. received > 0 /\ sent[received] = "cr" => sent[received + 1] # "lf"
    <3>1. received \in Nat /\ Len(sent) \in Nat /\ received < Len(sent)
      BY GetCharMeans
    <3>2. received > 0 => received \in 1 .. Len(sent) - 1
      BY <3>1
    <3> QED BY <1>1, <3>2 DEF Whole
  <2>2. Shown(sent, received + 1) = IF sent[received + 1] = "a" THEN <<"a">> ELSE <<"lf">>
    BY <2>1, GetCharMeans, ShownAlone
  <2> QED BY <2>2, GetCharMeans
<1>3. N(received + 1) = F \o buf'
  <2>1. N(received + 1) = N(received) \o <<char'>>
    BY <1>1, <1>2, GetCharMeans, NormalStep
  <2>2. buf' = buf \o <<char'>> /\ <<char'>> \in Seq(Char)
    BY GetCharPuts, AppendIsConcat
  <2> HIDE DEF F, N
  <2>3. (F \o buf) \o <<char'>> = F \o (buf \o <<char'>>)
    <3> DEFINE t == <<char'>>
    <3>1. F \in Seq(Char) /\ buf \in Seq(Char) /\ t \in Seq(Char)
      BY <1>1, <2>2
    <3> HIDE DEF t
    <3>2. Cat(Cat(F, buf), t) = Cat(F, Cat(buf, t))
      BY <3>1, CatAssociative
    <3> QED BY <3>2 DEF t, Cat
  <2>4. N(received) = F \o buf
    BY <1>1
  <2>5. N(received + 1) = (F \o buf) \o <<char'>>
    BY <2>1, <2>4
  <2> QED BY <2>2, <2>3, <2>5
<1>4. CASE received' = received + 1
  BY <1>3, <1>4, GetCharMeans
<1>5. CASE received' = received + 2
  <2>1. received + 1 < Len(sent) /\ sent[received + 1] = "cr" /\ sent[received + 2] = "lf"
    <3>1. received \in Nat /\ received' # received + 1
      BY <1>5, GetCharMeans
    <3> QED BY <3>1, GetCharMeans
  <2>2. received + 1 \in Nat /\ received + 1 + 1 = received + 2
    BY GetCharMeans
  <2>3. Shown(sent, received + 2) = <<>>
    BY <2>1, GetCharMeans, ShownBehind
  <2>4. N(received + 2) = N(received + 1) \o <<>>
    BY <1>1, <2>1, <2>2, <2>3, NormalStep
  <2>5. (F \o buf') \o <<>> = F \o buf'
    <3>1. F \o buf' \in Seq(Char)
      BY <1>1, GetCharPuts, ConcatProperties
    <3> HIDE DEF F
    <3> QED BY <3>1, ConcatEmptySeq
  <2> HIDE DEF F
  <2>6. N(received + 2) = F \o buf'
    BY <1>3, <2>4, <2>5
  <2> QED BY <1>5, <2>6, GetCharMeans DEF F
<1> QED BY <1>4, <1>5, GetCharMeans

LEMMA GetCharKeepsHeaders ==
  ASSUME LineInv, GetChar, ~Overlong(sent)
  PROVE  Headers'
<1>1. Begins /\ Headers /\ InHand /\ LineTypes
  BY DEF LineInv
<1>2. buf # Blank
  <2>1. \A k \in 1 .. Len(buf) : buf[k] # "lf"
    BY <1>1, GetCharMeans DEF InHand
  <2> QED BY <2>1 DEF Blank
<1>3. \A k \in BlankAt(sent) : k \in Nat /\ received < k
  BY <1>1, <1>2, GetCharMeans DEF Headers, BlankAt, LineTypes
<1>4. buf' = Blank <=> buf = <<>> /\ char' = "lf"
  <2>1. buf' = Blank => buf = <<>> /\ char' = "lf"
    <3> SUFFICES ASSUME buf' = Blank PROVE buf = <<>> /\ char' = "lf"
      OBVIOUS
    <3>1. Len(buf') = 1 /\ buf'[1] = "lf"
      BY DEF Blank
    <3>2. Len(buf) = 0 /\ char' = "lf"
      BY <3>1, GetCharPuts
    <3> QED BY <3>2, GetCharPuts, EmptySeq
  <2>2. buf = <<>> /\ char' = "lf" => buf' = Blank
    BY GetCharPuts DEF Blank
  <2> QED BY <2>1, <2>2
<1>5. received + 1 \in BlankAt(sent) => buf' = Blank
  <2> SUFFICES ASSUME received + 1 \in BlankAt(sent) PROVE buf = <<>> /\ char' = "lf"
    BY <1>4
  <2>1. Shown(sent, received + 1) = <<"lf">> /\ (received = 0 \/ sent[received] # "a")
    BY GetCharMeans DEF BlankAt
  <2>2. char' = "lf"
    BY <2>1, GetCharMeans DEF Shown
  <2>3. Len(buf) <= received /\ \A k \in 1 .. Len(buf) : sent[received - Len(buf) + k] = "a"
    BY <1>1, GetCharMeans DEF InHand
  <2>4. ASSUME Len(buf) # 0 PROVE FALSE
    <3>1. Len(buf) \in 1 .. Len(buf) /\ received - Len(buf) + Len(buf) = received /\ received # 0
      BY <2>3, <2>4, GetCharMeans
    <3>2. sent[received] = "a"
      BY <2>3, <3>1
    <3> QED BY <2>1, <3>1, <3>2
  <2> QED BY <2>2, <2>4, GetCharMeans
<1>6. CASE buf' = Blank
  <2>1. received + 1 \in BlankAt(sent)
    <3>1. received + 1 \in DOMAIN sent
      BY <1>1, GetCharMeans DEF LineTypes
    <3>2. received # 0 => sent[received] # "a"
      BY <1>1, <1>4, <1>6, GetCharMeans DEF Begins
    <3>3. Shown(sent, received + 1) = <<"lf">>
      BY <1>4, <1>6, GetCharMeans DEF Shown, LineInv, Whole
    <3> QED BY <3>1, <3>2, <3>3, GetCharMeans DEF BlankAt
  <2>2. received' = EndOf(sent, received + 1)
    BY GetCharMeans DEF EndOf
  <2>3. \A j \in BlankAt(sent) : received + 1 <= j
    BY <1>3, GetCharMeans
  <2>4. PICK k \in BlankAt(sent) : k = received + 1
    BY <2>1
  <2>5. sent' = sent /\ buf' = Blank
    BY <1>6, GetCharMeans
  <2>6. FirstBlank(k)'
    <3>1. received' = EndOf(sent', k) /\ k \in BlankAt(sent') /\ \A j \in BlankAt(sent') : k <= j
      BY <2>2, <2>3, <2>4, <2>5
    <3> QED BY <3>1 DEF FirstBlank
  <2>7. (\E j \in BlankAt(sent) : FirstBlank(j))'
    BY <2>4, <2>5, <2>6
  <2> QED BY <2>5, <2>7 DEF Headers, Blank
<1>7. CASE buf' # Blank
  <2>1. \A k \in BlankAt(sent) : k # received + 1
    BY <1>5, <1>7
  <2>2. received' = received + 2 => received + 2 \notin BlankAt(sent)
    <3> SUFFICES ASSUME received' = received + 2 PROVE received + 2 \notin BlankAt(sent)
      OBVIOUS
    <3>1. Shown(sent, received + 2) = <<>>
      BY GetCharMeans, ShownBehind
    <3>2. <<>> # <<"lf">>
      OBVIOUS
    <3> QED BY <3>1, <3>2 DEF BlankAt
  <2>3. ASSUME NEW k \in BlankAt(sent) PROVE received' < k
    <3>1. k \in Nat /\ received \in Nat /\ received < k /\ k # received + 1
      BY <1>3, <2>1, GetCharMeans
    <3>2. received' = received + 1 \/ (received' = received + 2 /\ k # received + 2)
      BY <2>2, GetCharMeans
    <3> QED BY <3>1, <3>2
  <2> QED BY <1>7, <2>3, GetCharMeans DEF Headers
<1> QED BY <1>6, <1>7

LEMMA GetCharInv ==
  ASSUME LineInv, GetChar
  PROVE  LineInv'
<1>1. (~Overlong(sent) => Begins /\ Headers)'
  BY GetCharKeepsLines, GetCharKeepsHeaders, GetCharMeans
<1> QED BY <1>1, GetCharKeepsLines, GetCharKeepsAll DEF LineInv

LEMMA NoMoreInv ==
  ASSUME LineInv, NoMore
  PROVE  LineInv'
<1>1. /\ LineTypes /\ Whole /\ InHand /\ Returned
      /\ phase = "headers" /\ Len(buf) < Size - 1 /\ char # "lf" /\ received = Len(sent) /\ char' = "lf"
      /\ UNCHANGED <<sent, received, buf, lines, phase>>
  BY DEF LineInv, NoMore, Reading
<1>2. LineTypes'
  BY <1>1 DEF LineTypes
<1>3. Whole' /\ Begins'
  BY <1>1 DEF Whole, Begins
<1>4. InHand'
  <2>1. \A k \in 1 .. Len(buf) : buf[k] = "a"
    BY <1>1 DEF InHand, LineTypes, Char
  <2> QED BY <1>1, <2>1 DEF InHand
<1>5. Returned'
  BY <1>1 DEF Returned
<1>6. ~Overlong(sent) => Headers'
  BY <1>1 DEF LineInv, Headers, FirstBlank
<1>7. (FlattenSeq(lines) \o buf = Normal(SubSeq(sent, 1, received)))' /\ BodyStartsAfterBlank'
  BY <1>1 DEF LineInv, BodyStartsAfterBlank
<1> QED BY <1>1, <1>2, <1>3, <1>4, <1>5, <1>6, <1>7 DEF LineInv

LEMMA ReadHeaderMeans ==
  ASSUME LineInv, ReadHeader
  PROVE  /\ LineTypes /\ Whole /\ InHand /\ Returned
         /\ Len(lines) \in Nat /\ Len(buf) \in Nat /\ Size - 1 \in Nat \ {0}
         /\ phase = "headers" /\ (char = "lf" \/ Len(buf) = Size - 1)
         /\ sent' = sent /\ received' = received /\ char' = "nul" /\ buf' = <<>>
         /\ phase' = (IF buf = <<>> \/ buf = Blank THEN "body" ELSE "headers")
         /\ lines' = Append(lines, buf) /\ lines' \in Seq(Seq(Char)) /\ Len(lines') = Len(lines) + 1
         /\ lines'[Len(lines) + 1] = buf /\ \A n \in 1 .. Len(lines) : lines'[n] = lines[n]
<1>1. LineTypes /\ Whole /\ InHand /\ Returned
  BY DEF LineInv
<1>2. /\ lines \in Seq(Seq(Char)) /\ buf \in Seq(Char) /\ lines' = Append(lines, buf)
      /\ Len(lines) \in Nat /\ Len(buf) \in Nat /\ Size - 1 \in Nat \ {0}
  BY <1>1 DEF LineTypes, ReadHeader
<1>3. /\ lines' \in Seq(Seq(Char)) /\ Len(lines') = Len(lines) + 1
      /\ lines'[Len(lines) + 1] = buf /\ \A n \in 1 .. Len(lines) : lines'[n] = lines[n]
  BY <1>2, AppendProperties
<1>4. phase = "headers" /\ (char = "lf" \/ Len(buf) = Size - 1)
  <2>1. phase = "headers" /\ ~(Len(buf) < Size - 1 /\ char # "lf")
    BY DEF ReadHeader, Reading
  <2>2. Len(buf) < Size /\ Size \in Nat
    BY <1>1, GetLineAssumption DEF LineTypes, GetLineAssumption
  <2>3. Len(buf) \in Nat
    BY <1>2
  <2>4. CASE char = "lf"
    BY <2>1, <2>4
  <2>5. CASE char # "lf"
    BY <2>1, <2>2, <2>3, <2>5
  <2> QED BY <2>4, <2>5
<1>5. /\ sent' = sent /\ received' = received /\ char' = "nul" /\ buf' = <<>>
      /\ phase' = (IF buf = <<>> \/ buf = Blank THEN "body" ELSE "headers")
  BY DEF ReadHeader, EndsHeaders
<1> QED BY <1>1, <1>2, <1>3, <1>4, <1>5

LEMMA ReadHeaderKeepsLines ==
  ASSUME LineInv, ReadHeader
  PROVE  (LineTypes /\ Whole /\ InHand /\ Returned)'
<1>1. LineTypes'
  BY ReadHeaderMeans DEF LineTypes
<1>2. Whole'
  BY ReadHeaderMeans DEF Whole
<1>3. InHand'
  BY ReadHeaderMeans DEF InHand, LineTypes
<1>4. Returned'
  <2>1. DOMAIN lines' = 1 .. Len(lines) + 1 /\ DOMAIN lines = 1 .. Len(lines)
    BY ReadHeaderMeans DEF LineTypes
  <2> DEFINE Good(line) == Len(line) < Size /\ \A k \in 1 .. Len(line) - 1 : line[k] # "lf"
             Cut(line) == (line = <<>> \/ line[Len(line)] # "lf") /\ Len(line) # Size - 1
  <2>2. ASSUME NEW n \in 1 .. Len(lines)
        PROVE  /\ Good(lines'[n])
               /\ Cut(lines'[n]) =>
                     received' = Len(sent') /\ n = Len(lines') - 1 /\ phase' = "body"
    <3>1. lines'[n] = lines[n] /\ n \in DOMAIN lines
      BY <2>1, ReadHeaderMeans
    <3>2. Good(lines[n])
      BY <3>1, ReadHeaderMeans DEF Returned
    <3>3. Cut(lines[n]) => received = Len(sent) /\ n = Len(lines) /\ buf = <<>>
      BY <3>1, ReadHeaderMeans DEF Returned
    <3> QED BY <3>1, <3>2, <3>3, ReadHeaderMeans
  <2>3. Good(buf)
    BY ReadHeaderMeans DEF LineTypes, InHand
  <2>4. Cut(buf) => received' = Len(sent')
    BY ReadHeaderMeans DEF InHand
  <2>5. ASSUME NEW n \in DOMAIN lines'
        PROVE  /\ Good(lines'[n])
               /\ Cut(lines'[n]) =>
                     /\ received' = Len(sent')
                     /\ (n = Len(lines') /\ buf' = <<>>) \/ (n = Len(lines') - 1 /\ phase' = "body")
    <3>1. CASE n = Len(lines) + 1
      BY <2>3, <2>4, <3>1, ReadHeaderMeans
    <3>2. CASE n \in 1 .. Len(lines)
      <4> HIDE DEF Good, Cut
      <4> QED BY <2>2, <3>2
    <3> QED BY <2>1, <3>1, <3>2
  <2> QED BY <2>5 DEF Returned
<1> QED BY <1>1, <1>2, <1>3, <1>4

LEMMA ReadHeaderKeepsAll ==
  ASSUME LineInv, ReadHeader
  PROVE  (FlattenSeq(lines) \o buf = Normal(SubSeq(sent, 1, received)))'
<1>1. lines \in Seq(Seq(Char)) /\ buf \in Seq(Char)
  BY DEF LineInv, LineTypes
<1>2. FlattenSeq(lines') = FlattenSeq(lines) \o buf
  BY <1>1, ReadHeaderMeans, FlattenAppend
<1>3. FlattenSeq(lines') \o <<>> = FlattenSeq(lines')
  <2>1. FlattenSeq(lines') \in Seq(Char)
    BY ReadHeaderMeans, FlattenType
  <2> QED BY <2>1, ConcatEmptySeq
<1>4. FlattenSeq(lines) \o buf = Normal(SubSeq(sent, 1, received))
  BY DEF LineInv
<1>5. buf' = <<>> /\ sent' = sent /\ received' = received
  BY ReadHeaderMeans
<1> QED BY <1>2, <1>3, <1>4, <1>5

LEMMA ReadHeaderKeepsHeaders ==
  ASSUME LineInv, ReadHeader, ~Overlong(sent)
  PROVE  (Begins /\ Headers /\ BodyStartsAfterBlank)'
<1>1. Begins /\ Headers /\ LineTypes
  BY DEF LineInv
<1>2. DOMAIN sent = 1 .. Len(sent) /\ Len(sent) \in Nat /\ received \in 0 .. Len(sent)
  BY <1>1 DEF LineTypes
<1>3. Begins'
  <2> SUFFICES ASSUME phase' = "headers", received \in 1 .. Len(sent) - 1, sent[received] = "a"
               PROVE  FALSE
    BY ReadHeaderMeans DEF Begins
  <2>1. char # "lf"
    <3>0. Len(sent) \in Nat
      BY <1>2
    <3>1. received # Len(sent)
      BY <3>0
    <3>2. InHand
      BY DEF LineInv
    <3> QED BY <3>1, <3>2 DEF InHand
  <2>2. Len(buf) = Size - 1
    BY <2>1, ReadHeaderMeans
  <2>3. Len(buf) <= received /\ \A k \in 1 .. Len(buf) : sent[received - Len(buf) + k] = "a"
    BY <2>1, ReadHeaderMeans DEF InHand
  <2>4. PICK b \in Nat : b = received - Len(buf) + 1
    BY <1>2, <2>3, ReadHeaderMeans
  <2>5. b \in DOMAIN sent /\ b + Size - 2 = received /\ received \in DOMAIN sent
    BY <1>2, <2>2, <2>3, <2>4, ReadHeaderMeans
  <2>6. ASSUME NEW m \in b .. received PROVE sent[m] = "a"
    <3>0. received \in Nat /\ Len(buf) \in Nat /\ m \in Int /\ b <= m /\ m <= received
      BY <1>2, <2>4, ReadHeaderMeans
    <3>1. m - b + 1 \in 1 .. Len(buf)
      BY <2>4, <3>0
    <3>2. received - Len(buf) + (m - b + 1) = m
      BY <2>4, <3>0
    <3> QED BY <2>3, <3>1, <3>2
  <2> QED BY <2>5, <2>6 DEF Overlong
<1>4. Headers'
  <2>1. buf # <<>> /\ buf # Blank => \A k \in BlankAt(sent) : received < k
    BY <1>1, ReadHeaderMeans DEF Headers
  <2>2. <<>> # Blank
    BY DEF Blank
  <2> QED BY <2>1, <2>2, ReadHeaderMeans DEF Headers, Blank
<1>5. BodyStartsAfterBlank'
  <2> SUFFICES ASSUME buf = <<>> \/ buf = Blank
               PROVE  IF BlankAt(sent) = {} THEN received = Len(sent)
                      ELSE \E k \in BlankAt(sent) :
                              received = EndOf(sent, k) /\ \A j \in BlankAt(sent) : k <= j
    BY ReadHeaderMeans DEF BodyStartsAfterBlank
  <2>1. CASE buf = Blank
    <3>1. \E k \in BlankAt(sent) : FirstBlank(k)
      BY <1>1, <2>1, ReadHeaderMeans DEF Headers
    <3> QED BY <3>1 DEF FirstBlank
  <2>2. CASE buf = <<>>
    <3>1. char = "lf" /\ received = Len(sent)
      BY <2>2, ReadHeaderMeans DEF InHand
    <3>2. <<>> # Blank
      BY DEF Blank
    <3>3. \A k \in BlankAt(sent) : received < k /\ k \in 1 .. Len(sent)
      BY <1>1, <1>2, <2>2, <3>2, ReadHeaderMeans DEF Headers, BlankAt
    <3>4. BlankAt(sent) = {}
      BY <1>2, <3>1, <3>3
    <3> QED BY <3>1, <3>4
  <2> QED BY <2>1, <2>2
<1> QED BY <1>3, <1>4, <1>5

LEMMA ReadHeaderInv ==
  ASSUME LineInv, ReadHeader
  PROVE  LineInv'
<1>1. (~Overlong(sent) => Begins /\ Headers)' /\ BodyStartsAfterBlank'
  <2>1. CASE Overlong(sent)
    BY <2>1, ReadHeaderMeans DEF BodyStartsAfterBlank
  <2>2. CASE ~Overlong(sent)
    BY <2>2, ReadHeaderKeepsHeaders
  <2> QED BY <2>1, <2>2
<1> QED BY <1>1, ReadHeaderKeepsLines, ReadHeaderKeepsAll DEF LineInv

LEMMA LineStutterInv ==
  ASSUME LineInv, UNCHANGED lineVars
  PROVE  LineInv'
<1>1. UNCHANGED <<sent, received, char, buf, lines, phase>>
  BY DEF lineVars
<1> QED BY <1>1 DEF LineInv, LineTypes, Whole, InHand, Returned, Begins, Headers, FirstBlank,
                    BodyStartsAfterBlank

LEMMA LineInvCorrect == LineSpec => []LineInv
<1>1. LineInit => LineInv
  BY LineInitInv
<1>2. LineInv /\ [LineNext]_lineVars => LineInv'
  BY GetCharInv, NoMoreInv, ReadHeaderInv, LineStutterInv DEF LineNext
<1> QED BY <1>1, <1>2, PTL DEF LineSpec

\* NothingLost for every buffer and everything a client may send: get_line()
\* neither loses, doubles nor joins a byte at a carriage return's look ahead or
\* at the end of the buffer, and discarding the headers stops at the blank line.
THEOREM NothingLostCorrect == LineSpec => []NothingLost
<1>1. LineInv => NothingLost
  <2> SUFFICES ASSUME LineInv PROVE NothingLost
    OBVIOUS
  <2>1. LinesTerminated
    <3>1. Returned /\ LineTypes
      BY DEF LineInv
    <3>2. ASSUME NEW n \in DOMAIN lines
          PROVE  lines[n] = <<>> \/ Last(lines[n]) # "lf" =>
                     Len(lines[n]) = Size - 1 \/ n >= Len(lines) - 1
      BY <3>1 DEF Returned, LineTypes, Last
    <3> QED BY <3>1, <3>2 DEF LinesTerminated, Returned
  <2> QED BY <2>1 DEF LineInv, NothingLost
<1> QED BY <1>1, LineInvCorrect, PTL
=============================================================================
