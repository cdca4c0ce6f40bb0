---------------------------- MODULE NgxUpstreamRR ----------------------------
(***************************************************************************)
(* The weighted round robin balancer of nginx upstreams,                   *)
(* http/ngx_http_upstream_round_robin.c, with the part of                  *)
(* http/ngx_http_upstream.c that asks it for a peer, tries another one and *)
(* gives the peer back.  The peers lie in a zone shared by the workers;    *)
(* requests of several workers call get and free in any order.             *)
(*                                                                         *)
(* A get and a free are each one action: the code runs them under the      *)
(* lock of the peers, whose exclusion NgxRwlock models.  A get that turns  *)
(* to the backup peers lets the lock go in between and takes two actions.  *)
(* One clock stands for the cached time of the workers, one FailTimeout    *)
(* for the fail_timeout of every server, one address for each server.      *)
(***************************************************************************)
EXTENDS Integers, Sequences, FiniteSets, Functions

CONSTANTS
    Requests,      \* the requests that may be under way at a time
    Configs,       \* the server lists an upstream block may have
    FailTimeout,   \* fail_timeout of every server
    MaxTime,       \* bound: the clock stops here
    MaxGets,       \* bound: gets that find a peer
    MaxFaults      \* bound: peers freed as failed, and workers that die

Server == [weight : Nat \ {0}, max_fails : Nat, max_conns : Nat,
           down : BOOLEAN, backup : BOOLEAN]

\* An upstream without a server that is not a backup is refused.
ASSUME ConfigsAssumption ==
    \A c \in Configs : /\ c \in Seq(Server)
                       /\ \E p \in DOMAIN c : ~c[p].backup

ASSUME ConstantsAssumption ==
    /\ IsFiniteSet(Requests)
    /\ FailTimeout \in Nat
    /\ MaxTime \in Nat
    /\ MaxGets \in Nat
    /\ MaxFaults \in Nat

VARIABLES
    servers,   \* the server list of the configuration
    now,       \* ngx_time()
    peer,      \* the peers in the zone, in the order of servers
    req,       \* what each request keeps: ngx_peer_connection_t and rr_peer_data
    gets,      \* number of gets that found a peer
    faults,    \* number of peers freed as failed and of workers that died
    leaked,    \* history: connections counted for workers that died
    taken,     \* history: the peers a request has got
    picks,     \* history: how often each peer was chosen while steady
    steady,    \* history: each choice so far was among all main peers at full weight
    last       \* history: when a peer last failed, or was last tried while failed

vars == <<servers, now, peer, req, gets, faults, leaked, taken, picks, steady, last>>

Peers  == DOMAIN servers
Backup == {p \in Peers : servers[p].backup}
Main   == Peers \ Backup
Single == Cardinality(Main) = 1 /\ Backup = {}
Live   == {p \in Main : ~servers[p].down}

Sum(f, S) == FoldFunctionOnSet(+, 0, f, S)

Weight == [p \in Peers |-> servers[p].weight]

-----------------------------------------------------------------------------
Fresh(pc, tries) ==
    [pc |-> pc, backup |-> FALSE, tried |-> {}, current |-> 0, tries |-> tries]

Idle == Fresh("idle", 0)

\* ngx_http_upstream_init_round_robin(): calloc'd peers at their full weight.
\* The clock is far beyond the zeroes of accessed and checked.
Init ==
    /\ servers \in Configs
    /\ now = FailTimeout + 1
    /\ peer = [p \in Peers |->
                 [cw |-> 0, ew |-> servers[p].weight, conns |-> 0,
                  fails |-> 0, accessed |-> 0, checked |-> 0]]
    /\ req = [r \in Requests |-> Idle]
    /\ gets = 0
    /\ faults = 0
    /\ leaked = [p \in Peers |-> 0]
    /\ taken = [r \in Requests |-> {}]
    /\ picks = [p \in Peers |-> 0]
    /\ steady = TRUE
    /\ last = [p \in Peers |-> 0]

\* ngx_http_upstream_init_round_robin_peer(): as many tries as there are
\* peers, backups included, and none of them tried.
Start(r) ==
    /\ req[r].pc = "idle"
    /\ req' = [req EXCEPT ![r] = Fresh("connect", Cardinality(Peers))]
    /\ UNCHANGED <<servers, now, peer, gets, faults, leaked, taken, picks, steady, last>>

-----------------------------------------------------------------------------
(* ngx_http_upstream_get_round_robin_peer() *)

Group(r) == IF req[r].backup THEN Backup ELSE Main

Full(p) == servers[p].max_conns > 0 /\ peer[p].conns >= servers[p].max_conns

Failed(p) == servers[p].max_fails > 0 /\ peer[p].fails >= servers[p].max_fails

Resting(p) == Failed(p) /\ now - peer[p].checked <= FailTimeout

\* The peers that take part in the choice.
Eligible(r) ==
    {p \in Group(r) :
        /\ ~servers[p].down
        /\ ~Full(p)
        /\ ~Single => p \notin req[r].tried /\ ~Resting(p)}

Raised(p) == peer[p].cw + peer[p].ew

\* p is the first of the peers of S whose raised weight is the largest.
IsBest(p, S) ==
    \A q \in S : Raised(q) < Raised(p) \/ (Raised(q) = Raised(p) /\ p <= q)

\* Mutant: the total is that of the configured weights.
ConfiguredTotal(S) == Sum(Weight, S)

Total(S) == Sum([p \in Peers |-> peer[p].ew], S)

\* Mutant: the try of a failed peer starts no new period.
NeverChecked(p) == peer[p].checked

\* A peer whose failures are old starts a new period when it is chosen.
Checked(p) == IF now - peer[p].checked > FailTimeout THEN now ELSE peer[p].checked

\* What choosing best among S does to the peers: every peer of S is raised by
\* its effective weight, which recovers by one, and best pays the total.
Weighed(S, best) ==
    [p \in Peers |->
        IF p \notin S THEN peer[p]
        ELSE [peer[p] EXCEPT
                 !.cw = Raised(p) - (IF p = best THEN Total(S) ELSE 0),
                 !.ew = IF @ < servers[p].weight THEN @ + 1 ELSE @,
                 !.checked = IF p = best THEN Checked(p) ELSE @]]

\* Mutant: the chosen peer is not marked in the bitmap.
Unmarked(r, p) == req[r].tried

\* A single peer is neither weighed nor marked as tried.
Chosen(S, best) == IF Single THEN peer ELSE Weighed(S, best)

Tried(r, p) == IF Single THEN req[r].tried ELSE req[r].tried \cup {p}

Held(r, p) == [req[r] EXCEPT !.pc = "held", !.current = p, !.tried = Tried(r, p)]

Get(r) ==
    /\ req[r].pc = "connect"
    /\ gets < MaxGets
    /\ \E best \in Eligible(r) :
          /\ IsBest(best, Eligible(r))
          /\ peer' = [Chosen(Eligible(r), best) EXCEPT ![best].conns = @ + 1]
          /\ req' = [req EXCEPT ![r] = Held(r, best)]
          /\ taken' = [taken EXCEPT ![r] = @ \cup {best}]
          /\ steady' = (steady /\ (req[r].backup \/ Eligible(r) = Live))
          /\ picks' = IF ~steady' THEN [p \in Peers |-> 0]
                      ELSE IF req[r].backup THEN picks
                      ELSE [picks EXCEPT ![best] = @ + 1]
          /\ last' = IF Failed(best) THEN [last EXCEPT ![best] = now] ELSE last
    /\ gets' = gets + 1
    /\ UNCHANGED <<servers, now, faults, leaked>>

\* No main peer can be taken: all tries are open again, among the backups.
Failover(r) ==
    /\ req[r].pc = "connect"
    /\ Eligible(r) = {}
    /\ ~req[r].backup
    /\ Backup # {}
    /\ req' = [req EXCEPT ![r].backup = TRUE, ![r].tried = {}]
    /\ UNCHANGED <<servers, now, peer, gets, faults, leaked, taken, picks, steady, last>>

\* The request ends, and its memory goes with it.
Ended(r) ==
    /\ req' = [req EXCEPT ![r] = Idle]
    /\ taken' = [taken EXCEPT ![r] = {}]

\* NGX_BUSY: "no live upstreams".  ngx_http_upstream_next() is called with
\* FT_NOLIVE, which no next_upstream setting holds, and without a peer to free.
Busy(r) ==
    /\ req[r].pc = "connect"
    /\ Eligible(r) = {}
    /\ req[r].backup \/ Backup = {}
    /\ Ended(r)
    /\ UNCHANGED <<servers, now, peer, gets, faults, leaked, picks, steady, last>>

-----------------------------------------------------------------------------
(* ngx_http_upstream_free_round_robin_peer() *)

Released(p) == [peer[p] EXCEPT !.conns = @ - 1]

\* A peer whose failures lie before the last check is live again.
FreedGood(p) ==
    IF ~Single /\ peer[p].accessed < peer[p].checked
    THEN [Released(p) EXCEPT !.fails = 0]
    ELSE Released(p)

Penalty(p) ==
    IF servers[p].max_fails > 0 THEN servers[p].weight \div servers[p].max_fails ELSE 0

Lowered(p) == IF peer[p].ew > Penalty(p) THEN peer[p].ew - Penalty(p) ELSE 0

\* Mutant: the connection of a failed request is not given back.
FailedOnly(p) ==
    [peer[p] EXCEPT !.fails = @ + 1, !.accessed = now, !.checked = now, !.ew = Lowered(p)]

FreedFailed(p) ==
    IF Single THEN Released(p)
    ELSE [Released(p) EXCEPT !.fails = @ + 1, !.accessed = now, !.checked = now,
                             !.ew = Lowered(p)]

TriesLeft(r) == IF Single THEN 0 ELSE IF req[r].tries > 0 THEN req[r].tries - 1 ELSE 0

\* The request goes on to ngx_http_upstream_connect().
Again(r) ==
    /\ req' = [req EXCEPT ![r].pc = "connect", ![r].tries = TriesLeft(r)]
    /\ UNCHANGED taken

\* ngx_http_upstream_finalize_request(): the answer is complete, the client
\* has gone or nginx itself failed; the peer is given back with state 0.
Finish(r) ==
    LET p == req[r].current IN
    /\ req[r].pc = "held"
    /\ peer' = [peer EXCEPT ![p] = FreedGood(p)]
    /\ Ended(r)
    /\ UNCHANGED <<servers, now, gets, faults, leaked, picks, steady, last>>

\* ngx_http_upstream_test_next() and ngx_http_upstream_next() with 403 or 404:
\* another peer is asked, if there is a try beyond this one.
NextPeer(r) ==
    LET p == req[r].current IN
    /\ req[r].pc = "held"
    /\ req[r].tries > 1
    /\ peer' = [peer EXCEPT ![p] = FreedGood(p)]
    /\ Again(r)
    /\ UNCHANGED <<servers, now, gets, faults, leaked, picks, steady, last>>

\* ngx_http_upstream_next() after a refused connection, a timeout or a bad
\* answer: the peer is given back as failed.  The request ends here when no try
\* is left, and also when next_upstream, the method or the time forbid another.
Fail(r) ==
    LET p == req[r].current IN
    /\ req[r].pc = "held"
    /\ faults < MaxFaults
    /\ peer' = [peer EXCEPT ![p] = FreedFailed(p)]
    /\ \/ Ended(r)
       \/ TriesLeft(r) > 0 /\ Again(r)
    /\ steady' = (steady /\ (Single \/ Penalty(p) = 0))
    /\ picks' = IF steady' THEN picks ELSE [q \in Peers |-> 0]
    /\ last' = [last EXCEPT ![p] = now]
    /\ faults' = faults + 1
    /\ UNCHANGED <<servers, now, gets, leaked>>

-----------------------------------------------------------------------------
\* The clock.
Tick ==
    /\ now < MaxTime
    /\ now' = now + 1
    /\ UNCHANGED <<servers, peer, req, gets, faults, leaked, taken, picks, steady, last>>

HoldersOf(p) == {r \in Requests : req[r].pc = "held" /\ req[r].current = p}

\* A worker dies with its requests W: what it had counted stays in the zone.
Crash(W) ==
    /\ faults < MaxFaults
    /\ W # {}
    /\ \A r \in W : req[r].pc \in {"connect", "held"}
    /\ req' = [r \in Requests |-> IF r \in W THEN Idle ELSE req[r]]
    /\ taken' = [r \in Requests |-> IF r \in W THEN {} ELSE taken[r]]
    /\ leaked' = [p \in Peers |-> leaked[p] + Cardinality(HoldersOf(p) \cap W)]
    /\ faults' = faults + 1
    /\ UNCHANGED <<servers, now, peer, gets, picks, steady, last>>

RequestStep(r) ==
    \/ Start(r)
    \/ Get(r)
    \/ Failover(r)
    \/ Busy(r)
    \/ Finish(r)
    \/ NextPeer(r)
    \/ Fail(r)

Next ==
    \/ \E r \in Requests : RequestStep(r)
    \/ Tick
    \/ \E W \in SUBSET Requests : Crash(W)

Spec == Init /\ [][Next]_vars

-----------------------------------------------------------------------------
\* What a request keeps.
RequestState == [pc : {"idle", "connect", "held"}, backup : BOOLEAN,
                 tried : SUBSET Peers, current : Peers \cup {0}, tries : Nat]

\* Every get is matched by one free, over retries, failures and the three ways
\* a request ends: the connections a peer counts are those of the requests that
\* hold it and those lost with a dead worker, and never more than max_conns.
ConnsExact ==
    \A p \in Peers :
        /\ peer[p].conns = Cardinality(HoldersOf(p)) + leaked[p]
        /\ servers[p].max_conns > 0 => peer[p].conns <= servers[p].max_conns

\* The peers of G owe each other nothing in total.
Settled(G) == Sum([p \in Peers |-> peer[p].cw], G) = 0

\* What choices raise the weights by, their winner pays, whatever failed, was
\* full or rested meanwhile.  While all main peers take part at full weight,
\* none is ever a whole round ahead of its share of the requests; and none falls
\* further behind than the others can be ahead of theirs, which is one round
\* each.  (One round behind is possible: five peers of weights 1, 1, 1, 6 and 6.)
Smooth ==
    /\ Settled(Main)
    /\ Settled(Backup)
    /\ steady =>
          \A p \in Live :
              LET round == Sum(Weight, Live)
                  ahead == round * picks[p] - Weight[p] * Sum(picks, Live)
              IN  (1 - Cardinality(Live)) * round <= ahead /\ ahead < round

\* Request r gets a peer in this step.
GetsPeer(r) == req[r].pc = "connect" /\ req'[r].pc = "held"

\* However its tries fail, a request never gets a peer that it had before: not
\* when it turns to the backups, and not the only peer of a single upstream.
TriedOnce == [][\A r \in Requests : GetsPeer(r) => req'[r].current \notin taken[r]]_vars

\* A peer that failed max_fails times is tried by one request of all workers
\* in a fail_timeout: none gets it within fail_timeout of its last failure
\* and of the last try.
ProbeSpaced ==
    [][\A r \in Requests :
          GetsPeer(r) /\ Failed(req'[r].current)
              => now - last[req'[r].current] > FailTimeout]_vars

=============================================================================
