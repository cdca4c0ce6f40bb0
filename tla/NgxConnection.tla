--------------------------- MODULE NgxConnection ----------------------------
(***************************************************************************)
(* The connections of one worker (core/ngx_connection.c) and the events    *)
(* epoll returns for them (event/modules/ngx_epoll_module.c): slots that   *)
(* are closed and used again while events of their former use are still    *)
(* in the batch or in the queue of posted events.                          *)
(*                                                                         *)
(* A handler may do anything that the functions here offer, to its own     *)
(* connection or to any other, and as often as it likes, up to the bounds. *)
(* The kernel reports events of open descriptors; a closed descriptor      *)
(* leaves epoll.  Descriptors are never shared with another process.       *)
(***************************************************************************)
EXTENDS Integers, Sequences, SequencesExt

CONSTANTS
    Conns,      \* connection_n
    MaxGets,    \* bound on the uses of connections
    MaxBatch    \* nevents, the events of one epoll_wait()

ASSUME ConnectionAssumption ==
    Conns \in Nat \ {0} /\ MaxGets \in Nat /\ MaxBatch \in Nat \ {0}

Conn == 1 .. Conns
Dir == {"in", "out"}    \* c->read, c->write

VARIABLES
    free,       \* free_connections, from its head
    open,       \* connections with c->fd # -1
    instance,   \* rev->instance, of which wev->instance is a copy
    active,     \* directions with ev->active
    reusable,   \* reusable_connections_queue, from its head
    posted,     \* ngx_posted_events: connection, direction, and history: the use
                \* (a set: no property tells their order apart)
    pc,         \* where the worker is in its cycle
    posts,      \* NGX_POST_EVENTS
    batch,      \* event_list: connection, instance, events, and history: the use
    use,        \* history: how often each connection was taken
    gets        \* bound: how often one was taken at all

conns == <<free, open, instance, active, reusable, use, gets>>
vars == <<conns, posted, pc, posts, batch>>

\* The states in which a handler runs, and what follows it.
Handler == {"in_read", "in_write", "in_timer", "in_posted"}
Behind == [in_read |-> "write", in_write |-> "next", in_timer |-> "posted",
            in_posted |-> "posted"]

Init ==
    /\ free = [n \in Conn |-> n]
    /\ open = {}
    /\ instance = [c \in Conn |-> 1]
    /\ active = [c \in Conn |-> {}]
    /\ reusable = <<>> /\ posted = {} /\ batch = <<>>
    /\ pc = "in_timer"
    /\ posts = FALSE
    /\ use = [c \in Conn |-> 0]
    /\ gets = 0

-----------------------------------------------------------------------------
(* What handlers call *)

\* ngx_queue_remove(): the one node of c, wherever it stands, where c->reusable
\* is set.
Unqueued(c) ==
    IF \E n \in 1 .. Len(reusable) : reusable[n] = c
    THEN RemoveAt(reusable, CHOOSE n \in 1 .. Len(reusable) : reusable[n] = c)
    ELSE reusable

\* Mutant: posted events stay.
ClosedOnly(c) ==
    /\ free' = <<c>> \o free
    /\ open' = open \ {c}
    /\ active' = [active EXCEPT ![c] = {}]
    /\ reusable' = Unqueued(c)
    /\ UNCHANGED <<instance, posted, pc, posts, batch, use, gets>>

\* What ngx_close_connection() takes back: epoll, posted events, the reusable
\* queue, and the connection itself.
Closed(c) ==
    /\ free' = <<c>> \o free
    /\ open' = open \ {c}
    /\ active' = [active EXCEPT ![c] = {}]
    /\ reusable' = Unqueued(c)
    /\ posted' = {e \in posted : e.conn # c}
    /\ UNCHANGED <<instance, pc, posts, batch, use, gets>>

\* Mutant: a connection is closed twice.
CloseAgain(c) == pc \in Handler /\ Closed(c)

\* A connection that is closed already is left alone.
Close(c) == pc \in Handler /\ c \in open /\ Closed(c)

Taken(c) == instance' = [instance EXCEPT ![c] = 1 - @]

\* ngx_get_connection(): the head of the free list.
Get ==
    /\ pc \in Handler /\ gets < MaxGets /\ gets' = gets + 1
    /\ free # <<>>
    /\ LET c == Head(free)
       IN  /\ Taken(c)
           /\ open' = open \cup {c}
           /\ use' = [use EXCEPT ![c] = @ + 1]
           /\ active' = [active EXCEPT ![c] = {}]
    /\ free' = Tail(free)
    /\ UNCHANGED <<reusable, posted, pc, posts, batch>>

\* ngx_drain_connections(): the list was empty, and the connection that waits
\* longest is closed by its handler and taken at once.  (From 16 reusable
\* connections on it closes more of them; there are fewer here.)
GetDrained ==
    /\ pc \in Handler /\ gets < MaxGets /\ gets' = gets + 1
    /\ free = <<>> /\ reusable # <<>>
    /\ LET c == Last(reusable)
       IN  /\ Taken(c)
           /\ posted' = {e \in posted : e.conn # c}
           /\ use' = [use EXCEPT ![c] = @ + 1]
           /\ active' = [active EXCEPT ![c] = {}]
    /\ reusable' = Front(reusable)
    /\ UNCHANGED <<free, open, pc, posts, batch>>

\* ngx_reusable_connection()
Reusable(c, on) ==
    /\ pc \in Handler /\ c \in open
    /\ reusable' = (IF on THEN <<c>> ELSE <<>>) \o Unqueued(c)
    /\ UNCHANGED <<free, open, instance, active, posted, pc, posts, batch, use, gets>>

\* ngx_epoll_add_event(), for one direction or, in ngx_epoll_add_connection(),
\* both.
Add(c, dirs) ==
    /\ pc \in Handler /\ c \in open
    /\ active' = [active EXCEPT ![c] = @ \cup dirs]
    /\ UNCHANGED <<free, open, instance, reusable, posted, pc, posts, batch, use, gets>>

\* ngx_epoll_del_event(); what is posted stays posted.
Del(c, d) ==
    /\ pc \in Handler /\ c \in open
    /\ active' = [active EXCEPT ![c] = @ \ {d}]
    /\ UNCHANGED <<free, open, instance, reusable, posted, pc, posts, batch, use, gets>>

\* ngx_post_event(): an event that is posted already is not posted again.
WithPosted(c, d) ==
    IF \E e \in posted : e.conn = c /\ e.dir = d THEN posted
    ELSE posted \cup {[conn |-> c, dir |-> d, use |-> use[c]]}

\* A handler that has more to do posts an event of a connection itself.
Post(c, d) ==
    /\ pc \in Handler /\ c \in open
    /\ posted' = WithPosted(c, d)
    /\ UNCHANGED <<conns, pc, posts, batch>>

Return ==
    /\ pc \in Handler
    /\ pc' = Behind[pc]
    /\ UNCHANGED <<conns, posted, posts, batch>>

-----------------------------------------------------------------------------
(* ngx_epoll_process_events() *)

\* epoll_wait(): some connections that are registered, in any order, each with
\* the instance it was registered with.  An error sets both directions.
EpollWait ==
    /\ pc = "wait"
    /\ \E n \in 0 .. MaxBatch : \E cs \in [1 .. n -> open], ds \in [1 .. n -> SUBSET Dir \ {{}}] :
          /\ \A i, j \in 1 .. n : i # j => cs[i] # cs[j]
          /\ \A i \in 1 .. n : active[cs[i]] # {} /\ (ds[i] \subseteq active[cs[i]] \/ ds[i] = Dir)
          /\ batch' = [i \in 1 .. n |-> [conn |-> cs[i], instance |-> instance[cs[i]],
                                         events |-> ds[i], use |-> use[cs[i]]]]
    /\ posts' \in BOOLEAN
    /\ pc' = "read"
    /\ UNCHANGED <<conns, posted>>

\* c->fd == -1 || rev->instance != instance
Stale(e) == e.conn \notin open \/ instance[e.conn] # e.instance

\* The event of one direction is ready: its handler runs, or it is posted.
Ready(e, d, handler, next) ==
    IF posts
    THEN posted' = WithPosted(e.conn, d) /\ pc' = next
    ELSE pc' = handler /\ UNCHANGED posted

\* The read part; a stale event is passed over altogether.
ReadPart ==
    /\ pc = "read" /\ batch # <<>>
    /\ LET e == Head(batch)
       IN  IF Stale(e) THEN pc' = "next" /\ UNCHANGED posted
           ELSE IF "in" \in e.events \cap active[e.conn]
           THEN Ready(e, "in", "in_read", "write")
           ELSE pc' = "write" /\ UNCHANGED posted
    /\ UNCHANGED <<conns, posts, batch>>

\* Mutant: the write part relies on the test of the read part.
WritePartUntested ==
    /\ pc = "write"
    /\ LET e == Head(batch)
       IN  IF "out" \in e.events \cap active[e.conn]
           THEN Ready(e, "out", "in_write", "next")
           ELSE pc' = "next" /\ UNCHANGED posted
    /\ UNCHANGED <<conns, posts, batch>>

\* The write part looks again, as the handler of the read part may have closed
\* the connection.
WritePart ==
    /\ pc = "write"
    /\ LET e == Head(batch)
       IN  IF "out" \in e.events \cap active[e.conn] /\ ~Stale(e)
           THEN Ready(e, "out", "in_write", "next")
           ELSE pc' = "next" /\ UNCHANGED posted
    /\ UNCHANGED <<conns, posts, batch>>

NextEvent ==
    /\ pc = "next"
    /\ batch' = Tail(batch)
    /\ pc' = "read"
    /\ UNCHANGED <<conns, posted, posts>>

-----------------------------------------------------------------------------
(* The rest of the cycle *)

\* The handlers of accept events that were posted, and of timers, run first.
Timers ==
    /\ pc = "read" /\ batch = <<>>
    /\ pc' = "in_timer"
    /\ UNCHANGED <<conns, posted, posts, batch>>

\* ngx_event_process_posted()
RunPosted ==
    /\ pc = "posted"
    /\ \/ posted = {} /\ pc' = "wait" /\ UNCHANGED posted
       \/ \E e \in posted : posted' = posted \ {e} /\ pc' = "in_posted"
    /\ UNCHANGED <<conns, posts, batch>>

HandlerStep ==
    \/ Get \/ GetDrained \/ Return
    \/ \E c \in Conn :
          \/ Close(c)
          \/ \E on \in BOOLEAN : Reusable(c, on)
          \/ \E dirs \in SUBSET Dir \ {{}} : Add(c, dirs)
          \/ \E d \in Dir : Del(c, d) \/ Post(c, d)

Next ==
    \/ HandlerStep \/ EpollWait \/ ReadPart \/ WritePart \/ NextEvent \/ Timers \/ RunPosted

Spec == Init /\ [][Next]_vars

-----------------------------------------------------------------------------
(* Properties *)

TypeOK ==
    /\ open \subseteq Conn /\ instance \in [Conn -> {0, 1}]
    /\ active \in [Conn -> SUBSET Dir]
    /\ pc \in Handler \cup {"wait", "read", "write", "next", "posted"}
    /\ posts \in BOOLEAN
    /\ use \in [Conn -> Nat] /\ gets \in Nat

\* Whatever the handlers close and take: every connection is either open or once
\* in the free list, and only open ones can be drained.
ListsSound ==
    /\ TypeOK
    /\ IsInjective(free) /\ ToSet(free) = Conn \ open
    /\ IsInjective(reusable) /\ ToSet(reusable) \subseteq open

\* An event that was posted finds the connection it was posted for, not a closed
\* one and not the next use of its slot.
PostedOwn ==
    \A e \in posted : e.conn \in open /\ e.use = use[e.conn]

\* The kernel meant the present use of the connection.
Own(e) == e.conn \in open /\ use[e.conn] = e.use

Delivered == pc' \in {"in_read", "in_write"} \/ posted' # posted

RightlyTaken(e) ==
    /\ Delivered => Own(e) \/ use[e.conn] >= e.use + 2
    /\ Own(e) /\ ~posts =>
           /\ pc = "read" => pc' # "next"
           /\ pc = "write" /\ "out" \in e.events \cap active[e.conn] => Delivered

\* ngx_epoll_module.c:886: the events of a connection that was closed in this
\* iteration are passed over, and no others.  One bit tells the uses of a slot
\* apart: an event may go astray only if the slot was taken twice since.
StalePassedOver ==
    [][batch # <<>> /\ pc \in {"read", "write"} => RightlyTaken(Head(batch))]_vars
=============================================================================
