------------------------- MODULE NgxUpstreamRR_proofs -------------------------
(***************************************************************************)
(* Proofs about NgxUpstreamRR, for any server list, any number of requests *)
(* and workers and any bounds: connections are counted exactly, no request *)
(* gets a peer twice, and a failed peer is tried once in a fail_timeout.   *)
(* The weights of the peers sum to zero, and are their shares (Smooth).     *)
(***************************************************************************)
EXTENDS NgxUpstreamRR, FiniteSetTheorems, TLAPS

\* The fields of a peer.  The weights have an invariant of their own below.
Shape(x) ==
    /\ x = [cw |-> x.cw, ew |-> x.ew, conns |-> x.conns, fails |-> x.fails,
            accessed |-> x.accessed, checked |-> x.checked]
    /\ x.fails \in Nat
    /\ x.checked \in Nat

TypeInv ==
    /\ servers \in Configs
    /\ now \in Nat
    /\ peer = [p \in Peers |-> peer[p]]
    /\ \A p \in Peers : Shape(peer[p])
    /\ req \in [Requests -> RequestState]
    /\ leaked \in [Peers -> Nat]
    /\ taken \in [Requests -> SUBSET Peers]
    /\ last \in [Peers -> Nat]

\* A request that holds a peer knows which.
HeldInv == \A r \in Requests : req[r].pc = "held" => req[r].current \in Peers

\* The bitmap holds what a request got from its present group, and it has got
\* nothing from the backups before it turns to them.  A single peer has no bit;
\* there the only try does it.
TriedOf(r) ==
    /\ req[r].pc = "idle" => taken[r] = {}
    /\ ~req[r].backup => taken[r] \subseteq Main
    /\ ~Single => taken[r] \cap Group(r) \subseteq req[r].tried
    /\ Single => /\ req[r].tries <= 1
                 /\ req[r].pc = "connect" => taken[r] = {}

TriedInv == \A r \in Requests : TriedOf(r)

\* The present period of a peer began no earlier than it failed or was tried.
\* The failures of a single peer are not counted.
ProbeInv ==
    \A p \in Peers :
        /\ last[p] <= now
        /\ IF Single THEN peer[p].fails = 0 ELSE last[p] <= peer[p].checked

IInv == TypeInv /\ HeldInv /\ ConnsExact /\ TriedInv /\ ProbeInv

-----------------------------------------------------------------------------
(* The server list never changes, and is finite. *)

LEMMA PeersFinite ==
    ASSUME servers \in Configs
    PROVE  /\ servers \in Seq(Server)
           /\ \A p \in Peers : servers[p] \in Server
           /\ IsFiniteSet(Peers)
           /\ Cardinality(Peers) \in Nat
           /\ Single => Cardinality(Peers) = 1
           /\ Main \subseteq Peers /\ Backup \subseteq Peers /\ Main \cap Backup = {}
<1>1. servers \in Seq(Server)
    BY ConfigsAssumption
<1>2. Peers = 1 .. Len(servers) /\ Len(servers) \in Nat
    BY <1>1 DEF Peers
<1>3. IsFiniteSet(Peers)
    BY <1>2, FS_Interval
<1>4. Cardinality(Peers) \in Nat
    BY <1>3, FS_CardinalityType
<1>5. Main \subseteq Peers /\ Backup \subseteq Peers /\ Main \cap Backup = {}
    BY DEF Main, Backup
<1>6. Single => Cardinality(Peers) = 1
    <2>1. Single => Peers = Main
        BY DEF Single, Main
    <2> QED
        BY <2>1 DEF Single
<1>7. \A p \in Peers : servers[p] \in Server
    BY <1>1, <1>2
<1> QED
    BY <1>1, <1>3, <1>4, <1>5, <1>6, <1>7

LEMMA HoldersFinite ==
    ASSUME NEW p
    PROVE  /\ IsFiniteSet(HoldersOf(p))
           /\ Cardinality(HoldersOf(p)) \in Nat
<1>1. HoldersOf(p) \subseteq Requests
    BY DEF HoldersOf
<1> QED
    BY <1>1, ConstantsAssumption, FS_Subset, FS_CardinalityType

\* A step of one request leaves what the others got alone.
LEMMA OthersTried ==
    ASSUME TriedInv, NEW r \in Requests, Main' = Main, (Single)' = Single,
           \A q \in Requests \ {r} :
               req'[q] = req[q] /\ taken'[q] = taken[q] /\ Group(q)' = Group(q),
           TriedOf(r)'
    PROVE  TriedInv'
<1>1. ASSUME NEW q \in Requests \ {r} PROVE TriedOf(q)'
    <2>1. TriedOf(q)
        BY DEF TriedInv
    <2> QED
        BY <2>1 DEF TriedOf
<1> QED
    BY <1>1 DEF TriedInv

LEMMA InitIInv == Init => IInv
<1> SUFFICES ASSUME Init PROVE IInv
    OBVIOUS
<1> USE DEF Init
<1>1. \A p \in Peers : HoldersOf(p) = {} /\ Cardinality(HoldersOf(p)) = 0
    BY FS_EmptySet DEF HoldersOf, Idle, Fresh
<1>2. TypeInv
    BY ConstantsAssumption DEF TypeInv, Shape, RequestState, Idle, Fresh
<1>3. HeldInv
    BY DEF HeldInv, Idle, Fresh
<1>4. ConnsExact
    <2>1. \A p \in Peers : servers[p].max_conns \in Nat
        BY <1>2, PeersFinite DEF Server, TypeInv
    <2> QED
        BY <1>1, <2>1 DEF ConnsExact
<1>5. TriedInv
    BY DEF TriedInv, TriedOf, Idle, Fresh
<1>6. ProbeInv
    BY ConstantsAssumption DEF ProbeInv
<1> QED
    BY <1>2, <1>3, <1>4, <1>5, <1>6 DEF IInv

-----------------------------------------------------------------------------
(* How the connections of the peers follow the requests that hold them. *)

\* The peers keep their number of connections but for p, which changes by d.
Counts(p, d) ==
    \A q \in Peers : peer'[q].conns = peer[q].conns + (IF q = p THEN d ELSE 0)

LEMMA GainExact ==
    ASSUME TypeInv, ConnsExact, NEW r \in Requests, NEW b \in Peers,
           req[r].pc # "held", req'[r].pc = "held", req'[r].current = b,
           \A s \in Requests \ {r} : req'[s] = req[s],
           ~Full(b), Counts(b, 1), servers' = servers, leaked' = leaked
    PROVE  ConnsExact'
<1>1. HoldersOf(b)' = HoldersOf(b) \cup {r} /\ r \notin HoldersOf(b)
    BY DEF HoldersOf
<1>2. Cardinality(HoldersOf(b)') = Cardinality(HoldersOf(b)) + 1
    <2>1. IsFiniteSet(HoldersOf(b))
        BY HoldersFinite
    <2> QED
        BY <1>1, <2>1, FS_AddElement
<1>3. \A q \in Peers \ {b} : HoldersOf(q)' = HoldersOf(q)
    BY DEF HoldersOf
<1>4. \A q \in Peers : servers[q].max_conns \in Nat /\ leaked[q] \in Nat
    BY PeersFinite DEF TypeInv, Server
<1>5. Peers' = Peers
    BY DEF Peers
<1>6. \A q \in Peers : Cardinality(HoldersOf(q)) \in Nat
    BY HoldersFinite
<1>7. peer'[b].conns = Cardinality(HoldersOf(b)') + leaked'[b]
    BY <1>2, <1>4, <1>6 DEF Counts, ConnsExact
<1>8. servers[b].max_conns > 0 => peer'[b].conns <= servers[b].max_conns
    BY <1>4, <1>6 DEF Full, Counts, ConnsExact
<1>9. \A q \in Peers \ {b} : peer'[q].conns = peer[q].conns
    BY <1>4, <1>6 DEF Counts, ConnsExact
<1> QED
    BY <1>3, <1>5, <1>7, <1>8, <1>9 DEF ConnsExact

LEMMA LossExact ==
    ASSUME TypeInv, ConnsExact, NEW r \in Requests, NEW b \in Peers,
           req[r].pc = "held", req[r].current = b, req'[r].pc # "held",
           \A s \in Requests \ {r} : req'[s] = req[s],
           Counts(b, -1), servers' = servers, leaked' = leaked
    PROVE  ConnsExact'
<1>1. HoldersOf(b)' = HoldersOf(b) \ {r} /\ r \in HoldersOf(b)
    BY DEF HoldersOf
<1>2. Cardinality(HoldersOf(b)') = Cardinality(HoldersOf(b)) - 1
    <2>1. IsFiniteSet(HoldersOf(b))
        BY HoldersFinite
    <2> QED
        BY <1>1, <2>1, FS_RemoveElement
<1>3. \A q \in Peers \ {b} : HoldersOf(q)' = HoldersOf(q)
    BY DEF HoldersOf
<1>4. \A q \in Peers : servers[q].max_conns \in Nat /\ leaked[q] \in Nat
    BY PeersFinite DEF TypeInv, Server
<1>5. Peers' = Peers
    BY DEF Peers
<1>6. \A q \in Peers : Cardinality(HoldersOf(q)) \in Nat
    BY HoldersFinite
<1>7. peer'[b].conns = Cardinality(HoldersOf(b)') + leaked'[b]
    BY <1>2, <1>4, <1>6 DEF Counts, ConnsExact
<1>8. servers[b].max_conns > 0 => peer'[b].conns <= servers[b].max_conns
    BY <1>4, <1>6 DEF Counts, ConnsExact
<1>9. \A q \in Peers \ {b} : peer'[q].conns = peer[q].conns
    BY <1>4, <1>6 DEF Counts, ConnsExact
<1> QED
    BY <1>3, <1>5, <1>7, <1>8, <1>9 DEF ConnsExact

-----------------------------------------------------------------------------
(* Getting a peer. *)

LEMMA ShapeKept ==
    ASSUME NEW x, Shape(x), NEW n
    PROVE  /\ Shape([x EXCEPT !.conns = n])
           /\ [x EXCEPT !.conns = n].conns = n
           /\ [x EXCEPT !.conns = n].cw = x.cw
           /\ [x EXCEPT !.conns = n].ew = x.ew
           /\ [x EXCEPT !.conns = n].fails = x.fails
           /\ [x EXCEPT !.conns = n].checked = x.checked
<1> DEFINE y == [cw |-> x.cw, ew |-> x.ew, conns |-> n, fails |-> x.fails,
                 accessed |-> x.accessed, checked |-> x.checked]
<1>1. [x EXCEPT !.conns = n] = y
    BY DEF Shape
<1> QED
    BY <1>1 DEF Shape

LEMMA ChosenPeers ==
    ASSUME TypeInv, NEW r \in Requests, NEW b \in Eligible(r),
           peer' = [Chosen(Eligible(r), b) EXCEPT ![b].conns = @ + 1],
           ConnsExact
    PROVE  /\ peer' = [p \in Peers |-> peer'[p]]
           /\ \A p \in Peers : Shape(peer'[p])
           /\ Counts(b, 1)
           /\ \A p \in Peers : peer'[p].fails = peer[p].fails
           /\ ~Single => \A p \in Peers :
                            peer'[p].checked = IF p = b THEN Checked(p) ELSE peer[p].checked
<1>1. b \in Peers /\ Eligible(r) \subseteq Peers
    BY DEF Eligible, Group, Main, Backup
<1>2. \A p \in Peers : Shape(peer[p]) /\ Checked(p) \in Nat /\ peer[p].conns \in Nat
    BY HoldersFinite DEF TypeInv, Shape, Checked, ConnsExact
<1>3. CASE Single
    <2>1. peer = [p \in Peers |-> peer[p]] /\ peer' = [peer EXCEPT ![b].conns = @ + 1]
        BY <1>3 DEF Chosen, TypeInv
    <2>2. /\ peer' = [p \in Peers |-> peer'[p]]
          /\ \A p \in Peers \ {b} : peer'[p] = peer[p]
          /\ peer'[b] = [peer[b] EXCEPT !.conns = @ + 1]
        BY <1>1, <2>1
    <2>3. Shape(peer'[b]) /\ peer'[b].conns = peer[b].conns + 1
                         /\ peer'[b].fails = peer[b].fails
        BY <1>1, <1>2, <2>2 DEF Shape
    <2> QED
        BY <1>1, <1>2, <1>3, <2>2, <2>3 DEF Counts
<1>4. CASE ~Single
    <2> DEFINE W == Weighed(Eligible(r), b)
    <2>1. /\ W = [p \in Peers |-> W[p]]
          /\ \A p \in Peers :
                /\ Shape(W[p])
                /\ W[p].conns = peer[p].conns
                /\ W[p].fails = peer[p].fails
                /\ W[p].checked = IF p = b THEN Checked(p) ELSE peer[p].checked
        <3>1. W = [p \in Peers |-> W[p]]
            BY DEF Weighed
        <3>2. SUFFICES ASSUME NEW p \in Peers
                       PROVE  /\ Shape(W[p])
                              /\ W[p].conns = peer[p].conns
                              /\ W[p].fails = peer[p].fails
                              /\ W[p].checked = IF p = b THEN Checked(p)
                                                ELSE peer[p].checked
            BY <3>1
        <3>3. CASE p \notin Eligible(r)
            <4>1. W[p] = peer[p]
                BY <3>3 DEF Weighed
            <4> QED
                BY <4>1, <3>3, <1>2
        <3>4. CASE p \in Eligible(r)
            <4>1. W[p] = [peer[p] EXCEPT
                             !.cw = Raised(p) - (IF p = b THEN Total(Eligible(r)) ELSE 0),
                             !.ew = IF @ < servers[p].weight THEN @ + 1 ELSE @,
                             !.checked = IF p = b THEN Checked(p) ELSE @]
                BY <3>4 DEF Weighed
            <4> QED
                BY <4>1, <1>2 DEF Shape
        <3> QED
            BY <3>3, <3>4
    <2>2. peer' = [W EXCEPT ![b].conns = @ + 1]
        BY <1>4 DEF Chosen
    <2> HIDE DEF W
    <2>3. \A p \in Peers :
             peer'[p] = IF p = b THEN [W[p] EXCEPT !.conns = @ + 1] ELSE W[p]
        BY <2>1, <2>2, <1>1
    <2>4. DOMAIN peer' = Peers /\ peer' = [p \in Peers |-> peer'[p]]
        BY <2>1, <2>2
    <2>5. ASSUME NEW p \in Peers
          PROVE  /\ Shape(peer'[p])
                 /\ peer'[p].conns = peer[p].conns + (IF p = b THEN 1 ELSE 0)
                 /\ peer'[p].fails = W[p].fails
                 /\ peer'[p].checked = W[p].checked
        <3>1. CASE p = b
            <4>1. peer'[p] = [W[p] EXCEPT !.conns = @ + 1]
                BY <2>3, <3>1
            <4>2. Shape(W[p]) /\ W[p].conns = peer[p].conns
                BY <2>1
            <4> DEFINE y == [W[p] EXCEPT !.conns = W[p].conns + 1]
            <4>3. /\ Shape(y)
                  /\ y.conns = W[p].conns + 1
                  /\ y.fails = W[p].fails
                  /\ y.checked = W[p].checked
                BY <4>2, ShapeKept
            <4>4. peer'[p] = y
                BY <4>1
            <4> HIDE DEF y
            <4> QED
                BY <4>2, <4>3, <4>4, <3>1
        <3>2. CASE p # b
            <4>1. peer'[p] = W[p]
                BY <2>3, <3>2
            <4>2. Shape(W[p]) /\ W[p].conns = peer[p].conns /\ peer[p].conns \in Nat
                BY <2>1, <1>2
            <4> QED
                BY <4>1, <4>2, <3>2
        <3> QED
            BY <3>1, <3>2
    <2> QED
        BY <2>1, <2>4, <2>5 DEF Counts
<1> QED
    BY <1>3, <1>4

\* What Get(r) does when it chooses b.
GetOf(r, b) ==
    /\ req[r].pc = "connect"
    /\ peer' = [Chosen(Eligible(r), b) EXCEPT ![b].conns = @ + 1]
    /\ req' = [req EXCEPT ![r] = Held(r, b)]
    /\ taken' = [taken EXCEPT ![r] = @ \cup {b}]
    /\ last' = IF Failed(b) THEN [last EXCEPT ![b] = now] ELSE last
    /\ UNCHANGED <<servers, now, leaked>>

LEMMA GetIInv ==
    ASSUME IInv, NEW r \in Requests, NEW b \in Eligible(r), GetOf(r, b)
    PROVE  IInv'
<1> USE DEF IInv, GetOf
<1>1. /\ b \in Group(r) /\ b \in Peers /\ ~Full(b)
      /\ ~Single => b \notin req[r].tried /\ ~Resting(b)
      /\ Group(r) = IF req[r].backup THEN Backup ELSE Main
    BY DEF Eligible, Group, Main, Backup
<1>2. /\ peer' = [p \in Peers |-> peer'[p]]
      /\ \A p \in Peers : Shape(peer'[p])
      /\ Counts(b, 1)
      /\ \A p \in Peers : peer'[p].fails = peer[p].fails
      /\ ~Single => \A p \in Peers :
                       peer'[p].checked = IF p = b THEN Checked(p) ELSE peer[p].checked
    BY ChosenPeers
<1>3. /\ Peers' = Peers /\ Main' = Main /\ Backup' = Backup /\ (Single)' = Single
    BY DEF Peers, Main, Backup, Single
<1>4. /\ Held(r, b) \in RequestState
      /\ Held(r, b).pc = "held" /\ Held(r, b).current = b
      /\ Held(r, b).backup = req[r].backup /\ Held(r, b).tries = req[r].tries
      /\ Held(r, b).tried = IF Single THEN req[r].tried ELSE req[r].tried \cup {b}
    BY <1>1 DEF Held, Tried, RequestState, TypeInv
<1>5. TypeInv'
    <2>1. req' \in [Requests -> RequestState]
        BY <1>4 DEF TypeInv
    <2>2. taken' \in [Requests -> SUBSET Peers] /\ last' \in [Peers -> Nat]
        BY <1>1 DEF TypeInv
    <2>3. RequestState' = RequestState
        BY <1>3 DEF RequestState
    <2> QED
        BY <1>2, <1>3, <2>1, <2>2, <2>3 DEF TypeInv
<1>6. HeldInv'
    BY <1>1, <1>3, <1>4 DEF HeldInv, TypeInv
<1>7. ConnsExact'
    BY <1>1, <1>2, <1>4, GainExact DEF TypeInv
<1>8. TriedInv'
    <2>1. req'[r] = Held(r, b) /\ taken'[r] = taken[r] \cup {b}
        BY DEF TypeInv
    <2>2. \A q \in Requests \ {r} : req'[q] = req[q] /\ taken'[q] = taken[q]
        BY DEF TypeInv
    <2>3. \A q \in Requests : Group(q)' = Group(q)
        BY <1>3, <1>4, <2>1, <2>2 DEF Group
    <2> QED
        <3>1. TriedOf(r)
            BY DEF TriedInv
        <3>2. TriedOf(r)'
            BY <3>1, <1>1, <1>3, <1>4, <2>1, <2>3 DEF TriedOf
        <3> QED
            BY <3>2, <1>3, <2>2, <2>3, OthersTried
<1>9. ProbeInv'
    <2>1. \A p \in Peers : last[p] \in Nat /\ peer[p].checked \in Nat
        BY DEF TypeInv, Shape
    <2>2. now \in Nat /\ FailTimeout \in Nat
        BY ConstantsAssumption DEF TypeInv
    <2>5. \A p \in Peers : last'[p] <= now'
        BY <2>1, <2>2 DEF ProbeInv, TypeInv
    <2>3. CASE Single
        BY <1>2, <1>3, <2>3, <2>5 DEF ProbeInv
    <2>4. CASE ~Single
        <3>1. peer[b].checked <= Checked(b)
            BY <1>1, <2>1, <2>2 DEF Checked
        <3>2. Failed(b) => Checked(b) = now
            BY <1>1, <2>1, <2>2, <2>4 DEF Checked, Resting
        <3>3. \A p \in Peers : last'[p] = IF p = b /\ Failed(b) THEN now ELSE last[p]
            BY DEF TypeInv
        <3>4. Checked(b) \in Nat
            BY <1>1, <2>1, <2>2 DEF Checked
        <3> QED
            BY <1>1, <1>2, <1>3, <2>1, <2>2, <2>4, <2>5, <3>1, <3>2, <3>3, <3>4 DEF ProbeInv
    <2> QED
        BY <2>3, <2>4
<1> QED
    BY <1>5, <1>6, <1>7, <1>8, <1>9

-----------------------------------------------------------------------------
(* Giving a peer back. *)

\* What a free does to the peer it is called for.
FreedAs(x, p) ==
    /\ Shape(x)
    /\ x.conns = peer[p].conns - 1
    /\ x.checked = peer[p].checked \/ x.checked = now
    /\ Single => x.fails = peer[p].fails

LEMMA Freed ==
    ASSUME TypeInv, NEW p \in Peers
    PROVE  FreedAs(FreedGood(p), p) /\ FreedAs(FreedFailed(p), p)
<1>1. Shape(peer[p])
    BY DEF TypeInv
<1>2. /\ Shape(Released(p))
      /\ Released(p).conns = peer[p].conns - 1
      /\ Released(p).fails = peer[p].fails
      /\ Released(p).checked = peer[p].checked
    BY <1>1, ShapeKept DEF Released
<1>3. now \in Nat
    BY DEF TypeInv
<1>4. FreedAs(FreedGood(p), p)
    BY <1>2 DEF FreedGood, FreedAs, Shape
<1>5. FreedAs(FreedFailed(p), p)
    <2>1. CASE Single
        BY <1>2, <2>1 DEF FreedFailed, FreedAs
    <2>2. CASE ~Single
        <3> DEFINE y == Released(p)
                   z == [cw |-> y.cw, ew |-> Lowered(p), conns |-> y.conns,
                         fails |-> y.fails + 1, accessed |-> now, checked |-> now]
        <3>1. FreedFailed(p) = z
            BY <1>2, <2>2 DEF FreedFailed, Shape
        <3>2. y.fails \in Nat
            BY <1>2 DEF Shape
        <3> QED
            BY <3>1, <3>2, <1>2, <1>3, <2>2 DEF FreedAs, Shape
    <2> QED
        BY <2>1, <2>2
<1> QED
    BY <1>4, <1>5

\* The request goes on with a try less, or ends.
AgainOrEnded(r) ==
    \/ Again(r) /\ TriesLeft(r) > 0
    \/ Ended(r)

LEMMA FreeIInv ==
    ASSUME IInv, NEW r \in Requests, req[r].pc = "held", NEW x,
           FreedAs(x, req[r].current), peer' = [peer EXCEPT ![req[r].current] = x],
           AgainOrEnded(r), UNCHANGED <<servers, now, leaked>>,
           \/ last' = last
           \/ last' = [last EXCEPT ![req[r].current] = now] /\ (~Single => x.checked = now)
    PROVE  IInv'
<1> DEFINE p == req[r].current
<1> USE DEF IInv
<1>1. p \in Peers
    BY DEF HeldInv
<1>2. /\ Peers' = Peers /\ Main' = Main /\ Backup' = Backup /\ (Single)' = Single
    BY DEF Peers, Main, Backup, Single
<1>3. \A q \in Peers : peer'[q] = IF q = p THEN x ELSE peer[q]
    BY <1>1 DEF TypeInv
<1>4. peer' = [q \in Peers |-> peer'[q]] /\ \A q \in Peers : Shape(peer'[q])
    BY <1>1, <1>3 DEF FreedAs, TypeInv
<1>5. \A q \in Requests \ {r} : req'[q] = req[q] /\ taken'[q] = taken[q]
    BY DEF AgainOrEnded, Again, Ended, TypeInv
<1>6. \/ req'[r] = Idle /\ taken'[r] = {}
      \/ /\ req'[r] = [req[r] EXCEPT !.pc = "connect", !.tries = TriesLeft(r)]
         /\ taken'[r] = taken[r]
         /\ TriesLeft(r) > 0
    BY DEF AgainOrEnded, Again, Ended, TypeInv
<1>7. TriesLeft(r) \in Nat
    BY DEF TriesLeft, TypeInv, RequestState
<1>8. req'[r] \in RequestState /\ req'[r].pc # "held"
    <2>1. req[r] \in RequestState
        BY DEF TypeInv
    <2>2. Idle \in RequestState /\ Idle.pc = "idle"
        BY DEF Idle, Fresh, RequestState
    <2>3. [req[r] EXCEPT !.pc = "connect", !.tries = TriesLeft(r)] \in RequestState
        BY <2>1, <1>7 DEF RequestState
    <2>4. [req[r] EXCEPT !.pc = "connect", !.tries = TriesLeft(r)].pc = "connect"
        BY <2>1 DEF RequestState
    <2> QED
        BY <1>6, <2>2, <2>3, <2>4
<1>9. TypeInv'
    <2>1. req' \in [Requests -> RequestState] /\ taken' \in [Requests -> SUBSET Peers]
        <3>1. req' = [q \in Requests |-> req'[q]] /\ taken' = [q \in Requests |-> taken'[q]]
            BY DEF AgainOrEnded, Again, Ended, TypeInv
        <3>2. \A q \in Requests : req'[q] \in RequestState
            BY <1>5, <1>8 DEF TypeInv
        <3>3. \A q \in Requests : taken'[q] \in SUBSET Peers
            BY <1>5, <1>6 DEF TypeInv
        <3> QED
            BY <3>1, <3>2, <3>3
    <2>2. last' \in [Peers -> Nat]
        BY <1>1 DEF TypeInv
    <2> QED
        BY <2>1, <2>2, <1>2, <1>4 DEF TypeInv, RequestState
<1>10. HeldInv'
    BY <1>2, <1>5, <1>8 DEF HeldInv
<1>11. ConnsExact'
    <2>1. Counts(p, -1)
        <3>1. \A q \in Peers : peer[q].conns \in Int
            BY HoldersFinite DEF ConnsExact, TypeInv
        <3> QED
            BY <1>1, <1>3, <3>1 DEF Counts, FreedAs
    <2> QED
        BY <2>1, <1>1, <1>5, <1>8, LossExact
<1>12. TriedInv'
    <2>1. \A q \in Requests \ {r} : Group(q)' = Group(q)
        BY <1>2, <1>5 DEF Group
    <2>2. CASE req'[r] = Idle /\ taken'[r] = {}
        <3>1. TriedOf(r)'
            BY <1>2, <2>2 DEF TriedOf, Idle, Fresh
        <3> QED
            BY <3>1, <1>2, <1>5, <2>1, OthersTried
    <2>3. CASE /\ req'[r] = [req[r] EXCEPT !.pc = "connect", !.tries = TriesLeft(r)]
               /\ taken'[r] = taken[r]
               /\ TriesLeft(r) > 0
        <3>1. /\ ~Single
              /\ req'[r].backup = req[r].backup /\ req'[r].tried = req[r].tried
              /\ req'[r].pc = "connect"
            BY <2>3 DEF TriesLeft, TypeInv, RequestState
        <3>2. Group(r)' = Group(r)
            BY <1>2, <3>1 DEF Group
        <3>3. TriedOf(r)
            BY DEF TriedInv
        <3>4. TriedOf(r)'
            BY <1>2, <2>3, <3>1, <3>2, <3>3 DEF TriedOf
        <3> QED
            BY <3>4, <1>2, <1>5, <2>1, OthersTried
    <2> QED
        BY <1>6, <2>2, <2>3
<1>13. ProbeInv'
    <2>1. \A q \in Peers : last[q] \in Nat /\ peer[q].checked \in Nat
        BY DEF TypeInv, Shape
    <2>4. \A q \in Peers : last'[q] <= now'
        BY <1>1, <2>1 DEF ProbeInv, TypeInv
    <2>2. CASE Single
        BY <1>1, <1>2, <1>3, <2>2, <2>4 DEF ProbeInv, FreedAs
    <2>3. CASE ~Single
        <3>1. x.checked = peer[p].checked \/ x.checked = now
            BY DEF FreedAs
        <3>2. last[p] <= now /\ now \in Nat
            BY <1>1 DEF TypeInv, ProbeInv
        <3> QED
            BY <1>1, <1>2, <1>3, <2>1, <2>3, <2>4, <3>1, <3>2 DEF ProbeInv, TypeInv
    <2> QED
        BY <2>2, <2>3
<1> QED
    BY <1>9, <1>10, <1>11, <1>12, <1>13

-----------------------------------------------------------------------------
(* Steps that leave the peers alone. *)

LEMMA TypesKept ==
    ASSUME TypeInv, UNCHANGED <<servers, now, peer, last>>, leaked' \in [Peers -> Nat],
           req' = [q \in Requests |-> req'[q]], taken' = [q \in Requests |-> taken'[q]],
           \A q \in Requests : req'[q] \in RequestState /\ taken'[q] \subseteq Peers
    PROVE  TypeInv'
<1>1. Peers' = Peers
    BY DEF Peers
<1>2. RequestState' = RequestState
    BY <1>1 DEF RequestState
<1>3. req' \in [Requests -> RequestState] /\ taken' \in [Requests -> SUBSET Peers]
    OBVIOUS
<1> QED
    BY <1>1, <1>2, <1>3 DEF TypeInv

LEMMA OtherIInv ==
    ASSUME IInv, NEW r \in Requests, Start(r) \/ Failover(r) \/ Busy(r)
    PROVE  IInv'
<1> USE DEF IInv
<1>1. /\ Peers' = Peers /\ Main' = Main /\ Backup' = Backup /\ (Single)' = Single
      /\ UNCHANGED <<servers, now, peer, leaked, last>>
    BY DEF Start, Failover, Busy, Peers, Main, Backup, Single
<1>2. req[r].pc # "held" /\ req[r] \in RequestState
    BY DEF Start, Failover, Busy, TypeInv
<1>3. /\ \A q \in Requests \ {r} : req'[q] = req[q] /\ taken'[q] = taken[q]
      /\ req' = [q \in Requests |-> req'[q]] /\ taken' = [q \in Requests |-> taken'[q]]
    BY DEF Start, Failover, Busy, Ended, TypeInv
<1>4. CASE Start(r)
    <2> DEFINE x == Fresh("connect", Cardinality(Peers))
    <2>1. /\ x = [pc |-> "connect", backup |-> FALSE, tried |-> {}, current |-> 0,
                  tries |-> Cardinality(Peers)]
          /\ req[r].pc = "idle" /\ req'[r] = x /\ taken'[r] = taken[r]
        <3>1. x = [pc |-> "connect", backup |-> FALSE, tried |-> {}, current |-> 0,
                   tries |-> Cardinality(Peers)]
            BY DEF Fresh
        <3>2. req[r].pc = "idle" /\ req'[r] = x /\ taken'[r] = taken[r]
            BY <1>4 DEF Start, TypeInv
        <3> QED
            BY <3>1, <3>2
    <2>2. taken[r] = {}
        BY <2>1 DEF TriedInv, TriedOf
    <2>3. x \in RequestState
        BY PeersFinite DEF TypeInv, RequestState, Idle, Fresh
    <2>4. Single => x.tries <= 1
        BY PeersFinite, <2>1 DEF TypeInv
    <2> HIDE DEF x
    <2>5. TypeInv' /\ HeldInv'
        <3>1. \A q \in Requests : req'[q] \in RequestState /\ taken'[q] \subseteq Peers
            BY <1>3, <2>1, <2>3 DEF TypeInv
        <3>2. TypeInv'
            BY <1>1, <1>3, <3>1, TypesKept DEF TypeInv
        <3> QED
            BY <3>2, <1>1, <1>3, <2>1 DEF HeldInv
    <2>6. \A q \in Requests \ {r} : Group(q)' = Group(q)
        BY <1>1, <1>3 DEF Group
    <2>7. TriedInv'
        <3>1. TriedOf(r)'
            BY <1>1, <2>1, <2>2, <2>4 DEF TriedOf
        <3> QED
            BY <3>1, <1>1, <1>3, <2>6, OthersTried
    <2>8. \A p \in Peers : HoldersOf(p)' = HoldersOf(p)
        BY <1>2, <1>3, <2>1 DEF HoldersOf
    <2>9. ConnsExact' /\ ProbeInv'
        BY <1>1, <2>8 DEF ConnsExact, ProbeInv
    <2> QED
        BY <2>5, <2>7, <2>9
<1>5. CASE Failover(r)
    <2>1. /\ req[r].pc = "connect" /\ ~req[r].backup /\ Backup # {}
          /\ req'[r] = [req[r] EXCEPT !.backup = TRUE, !.tried = {}]
          /\ taken'[r] = taken[r]
        BY <1>5 DEF Failover, TypeInv
    <2>2. /\ req'[r] \in RequestState
          /\ req'[r].pc = "connect" /\ req'[r].backup = TRUE
        BY <1>2, <2>1 DEF RequestState
    <2>3. ~Single
        BY <2>1 DEF Single
    <2>4. TypeInv' /\ HeldInv'
        <3>1. \A q \in Requests : req'[q] \in RequestState /\ taken'[q] \subseteq Peers
            BY <1>3, <2>1, <2>2 DEF TypeInv
        <3>2. TypeInv'
            BY <1>1, <1>3, <3>1, TypesKept DEF TypeInv
        <3> QED
            BY <3>2, <1>1, <1>3, <2>2 DEF HeldInv
    <2>5. \A q \in Requests \ {r} : Group(q)' = Group(q)
        BY <1>1, <1>3 DEF Group
    <2>6. Group(r)' = Backup /\ taken[r] \subseteq Main /\ Main \cap Backup = {}
        BY <1>1, <2>1, <2>2, PeersFinite DEF Group, TriedInv, TriedOf, TypeInv
    <2>7. TriedInv'
        <3>1. TriedOf(r)'
            BY <1>1, <2>1, <2>2, <2>3, <2>6 DEF TriedOf
        <3> QED
            BY <3>1, <1>1, <1>3, <2>5, OthersTried
    <2>8. \A p \in Peers : HoldersOf(p)' = HoldersOf(p)
        BY <1>2, <1>3, <2>2 DEF HoldersOf
    <2>9. ConnsExact' /\ ProbeInv'
        BY <1>1, <2>8 DEF ConnsExact, ProbeInv
    <2> QED
        BY <2>4, <2>7, <2>9
<1>6. CASE Busy(r)
    <2>1. req'[r] = Idle /\ taken'[r] = {}
        BY <1>6 DEF Busy, Ended, TypeInv
    <2>2. Idle \in RequestState /\ Idle.pc = "idle" /\ Idle.tries = 0 /\ ~Idle.backup
        BY DEF Idle, Fresh, RequestState
    <2>3. TypeInv' /\ HeldInv'
        <3>1. \A q \in Requests : req'[q] \in RequestState /\ taken'[q] \subseteq Peers
            BY <1>3, <2>1, <2>2 DEF TypeInv
        <3>2. TypeInv'
            BY <1>1, <1>3, <3>1, TypesKept DEF TypeInv
        <3> QED
            BY <3>2, <1>1, <1>3, <2>1, <2>2 DEF HeldInv
    <2>4. \A q \in Requests \ {r} : Group(q)' = Group(q)
        BY <1>1, <1>3 DEF Group
    <2>5. TriedInv'
        BY <1>1, <1>3, <2>1, <2>2, <2>4 DEF TriedInv, TriedOf
    <2>6. \A p \in Peers : HoldersOf(p)' = HoldersOf(p)
        BY <1>2, <1>3, <2>1, <2>2 DEF HoldersOf
    <2>7. ConnsExact' /\ ProbeInv'
        BY <1>1, <2>6 DEF ConnsExact, ProbeInv
    <2> QED
        BY <2>3, <2>5, <2>7
<1> QED
    BY <1>4, <1>5, <1>6

LEMMA TickIInv == ASSUME IInv, Tick PROVE IInv'
<1> USE DEF IInv, Tick
<1>1. Peers' = Peers /\ Main' = Main /\ Backup' = Backup /\ (Single)' = Single
    BY DEF Peers, Main, Backup, Single
<1>2. TypeInv' /\ HeldInv'
    BY <1>1 DEF TypeInv, HeldInv, RequestState
<1>3. ConnsExact'
    BY <1>1 DEF ConnsExact, HoldersOf
<1>4. TriedInv'
    BY <1>1 DEF TriedInv, TriedOf, Group
<1>5. ProbeInv'
    BY <1>1 DEF ProbeInv, TypeInv
<1> QED
    BY <1>2, <1>3, <1>4, <1>5

LEMMA CrashIInv == ASSUME IInv, NEW W \in SUBSET Requests, Crash(W) PROVE IInv'
<1> USE DEF IInv, Crash
<1>1. Peers' = Peers /\ Main' = Main /\ Backup' = Backup /\ (Single)' = Single
    BY DEF Peers, Main, Backup, Single
<1>2. Idle \in RequestState /\ Idle.pc = "idle" /\ Idle.tries = 0 /\ ~Idle.backup
    BY DEF Idle, Fresh, RequestState
<1>3. \A p \in Peers : /\ IsFiniteSet(HoldersOf(p))
                       /\ Cardinality(HoldersOf(p)) \in Nat
                       /\ Cardinality(HoldersOf(p) \cap W) \in Nat
    <2>1. \A p \in Peers : IsFiniteSet(HoldersOf(p) \cap W)
        BY HoldersFinite, FS_Subset
    <2> QED
        BY <2>1, HoldersFinite, FS_CardinalityType
<1>4. TypeInv'
    <2>1. \A q \in Requests : req'[q] \in RequestState /\ taken'[q] \subseteq Peers
        BY <1>2 DEF TypeInv
    <2>2. leaked' \in [Peers -> Nat]
        BY <1>3 DEF TypeInv
    <2> QED
        BY <2>1, <2>2, TypesKept
<1>5. HeldInv'
    BY <1>1, <1>2 DEF HeldInv
<1>6. ConnsExact'
    <2>1. \A p \in Peers : HoldersOf(p)' = HoldersOf(p) \ W
        BY <1>2 DEF HoldersOf
    <2>2. \A p \in Peers : Cardinality(HoldersOf(p)')
                             = Cardinality(HoldersOf(p)) - Cardinality(HoldersOf(p) \cap W)
        BY <2>1, <1>3, FS_Difference
    <2>3. \A p \in Peers : leaked[p] \in Nat
        BY DEF TypeInv
    <2> QED
        BY <1>1, <1>3, <2>2, <2>3 DEF ConnsExact
<1>7. TriedInv'
    <2>1. \A q \in Requests \ W : Group(q)' = Group(q)
        BY <1>1 DEF Group
    <2> QED
        BY <1>1, <1>2, <2>1 DEF TriedInv, TriedOf
<1>8. ProbeInv'
    BY <1>1 DEF ProbeInv
<1> QED
    BY <1>4, <1>5, <1>6, <1>7, <1>8

-----------------------------------------------------------------------------
(* The theorems. *)

LEMMA GetIsGetOf ==
    ASSUME NEW r \in Requests, Get(r)
    PROVE  \E b \in Eligible(r) : GetOf(r, b)
  BY DEF Get, GetOf

LEMMA NextIInv == IInv /\ [Next]_vars => IInv'
<1> SUFFICES ASSUME IInv, [Next]_vars PROVE IInv'
    OBVIOUS
<1>1. ASSUME NEW r \in Requests, Get(r) PROVE IInv'
    BY <1>1, GetIsGetOf, GetIInv
<1>2. ASSUME NEW r \in Requests, Start(r) \/ Failover(r) \/ Busy(r) PROVE IInv'
    BY <1>2, OtherIInv
<1>3. ASSUME NEW r \in Requests, Finish(r) \/ NextPeer(r) PROVE IInv'
    <2> DEFINE p == req[r].current
    <2>1. /\ req[r].pc = "held" /\ peer' = [peer EXCEPT ![p] = FreedGood(p)]
          /\ UNCHANGED <<servers, now, leaked, last>>
        BY <1>3 DEF Finish, NextPeer
    <2>2. p \in Peers
        BY <2>1 DEF IInv, HeldInv
    <2>3. AgainOrEnded(r)
        <3>1. CASE Finish(r)
            BY <3>1 DEF Finish, AgainOrEnded
        <3>2. CASE NextPeer(r)
            <4>1. req[r].tries \in Nat /\ req[r].tries > 1
                BY <3>2 DEF NextPeer, IInv, TypeInv, RequestState
            <4>2. ~Single
                BY <4>1 DEF IInv, TriedInv, TriedOf
            <4> QED
                BY <3>2, <4>1, <4>2 DEF NextPeer, AgainOrEnded, TriesLeft
        <3> QED
            BY <1>3, <3>1, <3>2
    <2>4. FreedAs(FreedGood(p), p)
        BY <2>2, Freed DEF IInv
    <2> QED
        BY <2>1, <2>3, <2>4, FreeIInv
<1>4. ASSUME NEW r \in Requests, Fail(r) PROVE IInv'
    <2> DEFINE p == req[r].current
    <2>1. /\ req[r].pc = "held" /\ peer' = [peer EXCEPT ![p] = FreedFailed(p)]
          /\ UNCHANGED <<servers, now, leaked>> /\ last' = [last EXCEPT ![p] = now]
          /\ AgainOrEnded(r)
        BY <1>4 DEF Fail, AgainOrEnded
    <2>2. p \in Peers
        BY <2>1 DEF IInv, HeldInv
    <2>3. FreedAs(FreedFailed(p), p)
        BY <2>2, Freed DEF IInv
    <2>4. ~Single => FreedFailed(p).checked = now
        <3>1. Shape(peer[p])
            BY <2>2 DEF IInv, TypeInv
        <3>2. Shape(Released(p))
            BY <3>1, ShapeKept DEF Released
        <3> QED
            BY <3>2 DEF FreedFailed, Shape
    <2> QED
        BY <2>1, <2>3, <2>4, FreeIInv
<1>5. ASSUME NEW W \in SUBSET Requests, Crash(W) PROVE IInv'
    BY <1>5, CrashIInv
<1>6. CASE Tick
    BY <1>6, TickIInv
<1>7. CASE UNCHANGED vars
    <2>1. /\ UNCHANGED <<servers, now, peer, req, leaked, taken, last>>
          /\ Peers' = Peers /\ Main' = Main /\ Backup' = Backup /\ (Single)' = Single
        BY <1>7 DEF vars, Peers, Main, Backup, Single
    <2>2. \A p \in Peers : HoldersOf(p)' = HoldersOf(p)
        BY <2>1 DEF HoldersOf
    <2>3. \A r \in Requests : Group(r)' = Group(r)
        BY <2>1 DEF Group
    <2>4. TypeInv' /\ HeldInv'
        BY <2>1 DEF IInv, TypeInv, HeldInv, RequestState
    <2>5. ConnsExact' /\ ProbeInv'
        BY <2>1, <2>2 DEF IInv, ConnsExact, ProbeInv
    <2>6. TriedInv'
        BY <2>1, <2>3 DEF IInv, TriedInv, TriedOf
    <2> QED
        BY <2>4, <2>5, <2>6 DEF IInv
<1> QED
    BY <1>1, <1>2, <1>3, <1>4, <1>5, <1>6, <1>7 DEF Next, RequestStep

LEMMA IInvCorrect == Spec => []IInv
  BY InitIInv, NextIInv, PTL DEF Spec

\* Every get is matched by one free: a peer counts the requests that hold it and
\* what dead workers left, never more than max_conns.
THEOREM ConnsExactCorrect == Spec => []ConnsExact
  BY IInvCorrect, PTL DEF IInv

LEMMA GetsPeerIsGet ==
    ASSUME IInv, [Next]_vars, NEW r \in Requests, GetsPeer(r)
    PROVE  \E b \in Eligible(r) : GetOf(r, b) /\ req'[r].current = b
<1>1. req[r].pc = "connect" /\ req'[r].pc = "held" /\ req \in [Requests -> RequestState]
    BY DEF GetsPeer, IInv, TypeInv
<1>2. ASSUME NEW q \in Requests, RequestStep(q) PROVE q = r /\ Get(q)
    <2>1. Idle.pc = "idle" /\ Fresh("connect", Cardinality(Peers)).pc = "connect"
        BY DEF Idle, Fresh
    <2>2. q = r
        BY <1>1, <1>2 DEF RequestStep, Start, Get, Failover, Busy, Finish, NextPeer, Fail,
                          Again, Ended
    <2>3. ~Start(r) /\ ~Busy(r) /\ ~Finish(r) /\ ~NextPeer(r) /\ ~Fail(r)
        BY <1>1, <2>1 DEF Start, Busy, Ended, Finish, NextPeer, Fail
    <2>4. ~Failover(r)
        BY <1>1 DEF Failover, RequestState
    <2> QED
        BY <1>2, <2>2, <2>3, <2>4 DEF RequestStep
<1>3. ~Tick /\ ~UNCHANGED vars
    BY <1>1 DEF Tick, vars
<1>4. ASSUME NEW W \in SUBSET Requests, Crash(W) PROVE FALSE
    BY <1>1, <1>4 DEF Crash, Idle, Fresh
<1>5. Get(r)
    BY <1>2, <1>3, <1>4 DEF Next
<1>6. PICK b \in Eligible(r) : GetOf(r, b)
    BY <1>5, GetIsGetOf
<1>7. req'[r].current = b
    BY <1>1, <1>6 DEF GetOf, Held, RequestState
<1> QED
    BY <1>6, <1>7

\* No request gets a peer that it had before, however its tries fail.
THEOREM TriedOnceCorrect == Spec => TriedOnce
<1>1. IInv /\ [Next]_vars
        => [\A r \in Requests : GetsPeer(r) => req'[r].current \notin taken[r]]_vars
    <2> SUFFICES ASSUME IInv, [Next]_vars, NEW r \in Requests, GetsPeer(r)
                 PROVE  req'[r].current \notin taken[r]
        OBVIOUS
    <2>1. PICK b \in Eligible(r) : req'[r].current = b
        BY GetsPeerIsGet
    <2>2. b \in Group(r) /\ (~Single => b \notin req[r].tried)
        BY DEF Eligible
    <2> QED
        BY <2>1, <2>2 DEF IInv, TriedInv, TriedOf, GetsPeer
<1> QED
    BY <1>1, IInvCorrect, PTL DEF Spec, TriedOnce

\* Whatever the workers do at a time, a peer that failed max_fails times goes to
\* none of their requests until fail_timeout has passed since its last failure
\* and since the last request that tried it.
THEOREM ProbeSpacedCorrect == Spec => ProbeSpaced
<1>1. IInv /\ [Next]_vars
        => [\A r \in Requests :
               GetsPeer(r) /\ Failed(req'[r].current)
                   => now - last[req'[r].current] > FailTimeout]_vars
    <2> SUFFICES ASSUME IInv, [Next]_vars, NEW r \in Requests, GetsPeer(r),
                        Failed(req'[r].current)
                 PROVE  now - last[req'[r].current] > FailTimeout
        OBVIOUS
    <2>1. PICK b \in Eligible(r) : req'[r].current = b
        BY GetsPeerIsGet
    <2>2. b \in Peers /\ (~Single => ~Resting(b))
        BY DEF Eligible, Group, Main, Backup
    <2>3. /\ now \in Nat /\ last[b] \in Nat /\ peer[b].checked \in Nat
          /\ FailTimeout \in Nat /\ servers[b].max_fails \in Nat
        BY <2>2, ConstantsAssumption, PeersFinite DEF IInv, TypeInv, Shape, Server
    <2>4. ~Single
        BY <2>1, <2>2, <2>3 DEF Failed, IInv, ProbeInv
    <2>5. now - peer[b].checked > FailTimeout
        BY <2>1, <2>2, <2>3, <2>4 DEF Resting
    <2> QED
        BY <2>1, <2>2, <2>3, <2>4, <2>5 DEF IInv, ProbeInv
<1> QED
    BY <1>1, IInvCorrect, PTL DEF Spec, ProbeSpaced

-----------------------------------------------------------------------------
(* Sums.  An induction over the subsets of a finite set is an application of *)
(* WFMin to the proper subset relation, with the set of the good subsets in  *)
(* the place of a predicate.                                                 *)

\* Induction over the subsets of a finite set, for a set of subsets.
LEMMA SubsetInduction ==
  ASSUME NEW S, IsFiniteSet(S), NEW T,
         \A s \in SUBSET S : (\A t \in SUBSET s : t # s => t \in T) => s \in T
  PROVE  SUBSET S \subseteq T
<1> DEFINE U == {s \in SUBSET S : s \notin T}
           R == StrictSubsetOrdering(S)
<1>1. SUFFICES ASSUME U # {} PROVE FALSE
  OBVIOUS
<1>2. IsWellFoundedOn(R, SUBSET S)
  BY FS_StrictSubsetOrderingWellFounded, FS_FiniteSubsetsOfFinite
<1>3. U \subseteq SUBSET S
  OBVIOUS
<1>4. PICK s \in U : \A t \in U : ~(<<t, s>> \in R)
  <2> HIDE DEF R, U
  <2> QED BY <1>1, <1>2, <1>3, WFMin
<1>5. \A t \in SUBSET s : t # s => t \in T
  BY <1>4 DEF StrictSubsetOrdering
<1> QED BY <1>4, <1>5

Pick(s) == CHOOSE x \in s : TRUE
Recursion(g, f, D) == g = [s \in D |-> IF s = {} THEN 0 ELSE f[Pick(s)] + g[s \ {Pick(s)}]]

\* Two functions that satisfy the recursion agree.
LEMMA RecursionUnique ==
  ASSUME NEW f, NEW S, NEW S1, NEW S2, IsFiniteSet(S), S \subseteq S1, S \subseteq S2, NEW g, NEW h,
         Recursion(g, f, SUBSET S1), Recursion(h, f, SUBSET S2)
  PROVE  g[S] = h[S]
<1> DEFINE T == {s \in SUBSET S : g[s] = h[s]}
<1>1. ASSUME NEW s \in SUBSET S, \A t \in SUBSET s : t # s => t \in T
      PROVE  s \in T
  <2>1. s = {} => g[s] = 0 /\ h[s] = 0
    BY DEF Recursion
  <2>2. s # {} => /\ g[s] = f[Pick(s)] + g[s \ {Pick(s)}]
                  /\ h[s] = f[Pick(s)] + h[s \ {Pick(s)}]
    BY DEF Recursion
  <2>3. s # {} => s \ {Pick(s)} \in SUBSET s /\ s \ {Pick(s)} # s
    BY DEF Pick
  <2> QED BY <1>1, <2>1, <2>2, <2>3
<1>2. SUBSET S \subseteq T
  <2> HIDE DEF T
  <2> QED BY <1>1, SubsetInduction
<1> QED BY <1>2

\* The recursion defines a function.
LEMMA RecursionExists ==
  ASSUME NEW f, NEW S, IsFiniteSet(S)
  PROVE  \E g : Recursion(g, f, SUBSET S)
<1> DEFINE T == {s \in SUBSET S : \E g : Recursion(g, f, SUBSET s)}
<1>1. ASSUME NEW s \in SUBSET S, \A t \in SUBSET s : t # s => t \in T
      PROVE  s \in T
  <2> DEFINE G(t) == CHOOSE g : Recursion(g, f, SUBSET t)
             h == [t \in SUBSET s |-> IF t = {} THEN 0
                                      ELSE f[Pick(t)] + G(t \ {Pick(t)})[t \ {Pick(t)}]]
  <2>1. \A t \in SUBSET s : t # s => Recursion(G(t), f, SUBSET t)
    BY <1>1
  <2>2. \A t \in SUBSET s : IsFiniteSet(t)
    BY FS_Subset
  <2> HIDE DEF G
  <2>3. ASSUME NEW t \in SUBSET s, t # s PROVE h[t] = G(t)[t]
    <3>1. CASE t = {}
      BY <2>1, <2>3, <3>1 DEF Recursion
    <3>2. CASE t # {}
      <4> DEFINE u == t \ {Pick(t)}
      <4>1. u \in SUBSET t /\ u # t /\ u \in SUBSET s /\ u # s
        BY <3>2 DEF Pick
      <4> HIDE DEF u
      <4>2. G(u)[u] = G(t)[u]
        <5>1. IsFiniteSet(u) /\ u \subseteq u /\ u \subseteq t
          BY <2>2, <4>1
        <5>2. Recursion(G(u), f, SUBSET u)
          BY <2>1, <4>1
        <5>3. Recursion(G(t), f, SUBSET t)
          BY <2>1, <2>3
        <5> HIDE DEF h, T
        <5> QED BY <5>1, <5>2, <5>3, RecursionUnique
      <4>3. h[t] = f[Pick(t)] + G(u)[u]
        BY <3>2 DEF u
      <4>4. G(t)[t] = f[Pick(t)] + G(t)[u]
        BY <2>1, <2>3, <3>2 DEF Recursion, u
      <4> QED BY <4>2, <4>3, <4>4
    <3> QED BY <3>1, <3>2
  <2>4. \A t \in SUBSET s : t # {} => h[t \ {Pick(t)}] = G(t \ {Pick(t)})[t \ {Pick(t)}]
    <3> TAKE t \in SUBSET s
    <3> HAVE t # {}
    <3>1. t \ {Pick(t)} \in SUBSET s /\ t \ {Pick(t)} # s
      BY DEF Pick
    <3> HIDE DEF h
    <3> QED BY <2>3, <3>1
  <2>5. h = [t \in SUBSET s |-> IF t = {} THEN 0 ELSE f[Pick(t)] + h[t \ {Pick(t)}]]
    BY <2>4
  <2> HIDE DEF h
  <2>6. Recursion(h, f, SUBSET s)
    BY <2>5 DEF Recursion
  <2> QED BY <2>6
<1>2. S \in SUBSET S /\ SUBSET S \subseteq T
  <2> HIDE DEF T
  <2> QED BY <1>1, SubsetInduction
<1> QED BY <1>2

\* The sum over S is that recursion.
LEMMA SumRecursion ==
  ASSUME NEW f, NEW S, IsFiniteSet(S)
  PROVE  \E g : Recursion(g, f, SUBSET S) /\ Sum(f, S) = g[S]
<1> DEFINE g == CHOOSE h : Recursion(h, f, SUBSET S)
<1>1. Recursion(g, f, SUBSET S)
  BY RecursionExists
<1>2. Sum(f, S) = g[S]
  BY DEF Sum, FoldFunctionOnSet, MapThenFoldSet, Recursion, Pick
<1> QED BY <1>1, <1>2

LEMMA SumEmpty == ASSUME NEW f PROVE Sum(f, {}) = 0
<1>1. PICK g : Recursion(g, f, SUBSET {}) /\ Sum(f, {}) = g[{}]
  BY SumRecursion, FS_EmptySet
<1> QED BY <1>1 DEF Recursion

LEMMA SumPick ==
  ASSUME NEW f, NEW S, IsFiniteSet(S), S # {}
  PROVE  Pick(S) \in S /\ Sum(f, S) = f[Pick(S)] + Sum(f, S \ {Pick(S)})
<1> DEFINE r == S \ {Pick(S)}
<1>1. PICK g : Recursion(g, f, SUBSET S) /\ Sum(f, S) = g[S]
  BY SumRecursion
<1>2. g[S] = f[Pick(S)] + g[r]
  BY <1>1 DEF Recursion
<1>3. IsFiniteSet(r) /\ r \subseteq S
  BY FS_Subset
<1>4. PICK h : Recursion(h, f, SUBSET r) /\ Sum(f, r) = h[r]
  BY <1>3, SumRecursion
<1>5. g[r] = h[r]
  <2> HIDE DEF r
  <2> QED BY <1>1, <1>3, <1>4, RecursionUnique
<1> QED BY <1>1, <1>2, <1>4, <1>5 DEF Pick

Ints(f, S) == \A x \in S : f[x] \in Int

LEMMA SumInt ==
  ASSUME NEW f, NEW S, IsFiniteSet(S), Ints(f, S)
  PROVE  Sum(f, S) \in Int
<1> DEFINE T == {s \in SUBSET S : Sum(f, s) \in Int}
<1>1. ASSUME NEW s \in SUBSET S, \A t \in SUBSET s : t # s => t \in T
      PROVE  s \in T
  <2>1. CASE s = {}
    BY <2>1, SumEmpty
  <2>2. CASE s # {}
    <3>1. IsFiniteSet(s)
      BY FS_Subset
    <3>2. Pick(s) \in s /\ Sum(f, s) = f[Pick(s)] + Sum(f, s \ {Pick(s)})
      BY <2>2, <3>1, SumPick
    <3>3. s \ {Pick(s)} \in SUBSET s /\ s \ {Pick(s)} # s
      BY <3>2
    <3>4. Sum(f, s \ {Pick(s)}) \in Int /\ f[Pick(s)] \in Int
      BY <1>1, <3>2, <3>3 DEF Ints
    <3> QED BY <3>2, <3>4
  <2> QED BY <2>1, <2>2
<1>2. S \in SUBSET S /\ SUBSET S \subseteq T
  <2> HIDE DEF T
  <2> QED BY <1>1, SubsetInduction
<1> QED BY <1>2

\* The order of the summands does not matter.
LEMMA SumRemove ==
  ASSUME NEW f, NEW S, IsFiniteSet(S), Ints(f, S), NEW x \in S
  PROVE  Sum(f, S) = f[x] + Sum(f, S \ {x})
<1> DEFINE T == {s \in SUBSET S : \A y \in s : Sum(f, s) = f[y] + Sum(f, s \ {y})}
<1>1. ASSUME NEW s \in SUBSET S, \A t \in SUBSET s : t # s => t \in T
      PROVE  s \in T
  <2> SUFFICES ASSUME NEW y \in s PROVE Sum(f, s) = f[y] + Sum(f, s \ {y})
    OBVIOUS
  <2>1. \A t \in SUBSET S : IsFiniteSet(t) /\ Sum(f, t) \in Int
    BY FS_Subset, SumInt DEF Ints
  <2>2. PICK z : z \in s /\ Sum(f, s) = f[z] + Sum(f, s \ {z})
    BY <2>1, SumPick
  <2>3. CASE y = z
    BY <2>2, <2>3
  <2>4. CASE y # z
    <3> DEFINE v == (s \ {z}) \ {y}
    <3>1. /\ s \ {z} \in SUBSET s /\ s \ {z} # s /\ y \in s \ {z}
          /\ s \ {y} \in SUBSET s /\ s \ {y} # s /\ z \in s \ {y}
          /\ (s \ {y}) \ {z} = v /\ v \in SUBSET S
      BY <2>2, <2>4
    <3>2. Sum(f, s \ {z}) = f[y] + Sum(f, v)
      BY <1>1, <3>1
    <3>3. Sum(f, s \ {y}) = f[z] + Sum(f, v)
      BY <1>1, <3>1
    <3>4. f[y] \in Int /\ f[z] \in Int /\ Sum(f, v) \in Int
      BY <2>1, <2>2, <3>1 DEF Ints
    <3> HIDE DEF v
    <3> QED BY <2>2, <3>2, <3>3, <3>4
  <2> QED BY <2>3, <2>4
<1>2. S \in SUBSET S /\ SUBSET S \subseteq T
  <2> HIDE DEF T
  <2> QED BY <1>1, SubsetInduction
<1> QED BY <1>2

\* A sum of sums.  With g = 0: the sum depends on the summands only.
LEMMA SumPlus ==
  ASSUME NEW f, NEW g, NEW h, NEW S, IsFiniteSet(S), Ints(f, S), Ints(g, S),
         \A x \in S : h[x] = f[x] + g[x]
  PROVE  Sum(h, S) = Sum(f, S) + Sum(g, S)
<1> DEFINE T == {s \in SUBSET S : Sum(h, s) = Sum(f, s) + Sum(g, s)}
<1>1. ASSUME NEW s \in SUBSET S, \A t \in SUBSET s : t # s => t \in T
      PROVE  s \in T
  <2>1. CASE s = {}
    BY <2>1, SumEmpty
  <2>2. CASE s # {}
    <3> DEFINE y == Pick(s)
               r == s \ {y}
    <3>1. IsFiniteSet(s) /\ IsFiniteSet(r)
      BY FS_Subset
    <3>2. /\ y \in s /\ Sum(h, s) = h[y] + Sum(h, r)
          /\ Sum(f, s) = f[y] + Sum(f, r) /\ Sum(g, s) = g[y] + Sum(g, r)
      BY <2>2, <3>1, SumPick
    <3>3. r \in SUBSET s /\ r # s
      BY <3>2
    <3>4. Sum(h, r) = Sum(f, r) + Sum(g, r)
      BY <1>1, <3>3
    <3>5. Ints(f, r) /\ Ints(g, r)
      BY DEF Ints
    <3>6. f[y] \in Int /\ g[y] \in Int /\ h[y] = f[y] + g[y]
      BY <3>2 DEF Ints
    <3> HIDE DEF y, r
    <3>7. Sum(f, r) \in Int /\ Sum(g, r) \in Int
      BY <3>1, <3>5, SumInt
    <3> QED BY <3>2, <3>4, <3>6, <3>7
  <2> QED BY <2>1, <2>2
<1>2. S \in SUBSET S /\ SUBSET S \subseteq T
  <2> HIDE DEF T
  <2> QED BY <1>1, SubsetInduction
<1> QED BY <1>2

\* Summands that are zero do not count.
LEMMA SumPart ==
  ASSUME NEW f, NEW d, NEW S, NEW A \in SUBSET S, IsFiniteSet(S), Ints(f, A),
         \A x \in S : d[x] = IF x \in A THEN f[x] ELSE 0
  PROVE  Sum(d, S) = Sum(f, A)
<1> DEFINE T == {s \in SUBSET S : Sum(d, s) = Sum(f, s \cap A)}
<1>1. ASSUME NEW s \in SUBSET S, \A t \in SUBSET s : t # s => t \in T
      PROVE  s \in T
  <2>1. CASE s = {}
    BY <2>1, SumEmpty
  <2>2. CASE s # {}
    <3> DEFINE y == Pick(s)
               r == s \ {y}
    <3>1. IsFiniteSet(s) /\ IsFiniteSet(s \cap A) /\ IsFiniteSet(r \cap A)
      BY FS_Subset
    <3>2. y \in s /\ Sum(d, s) = d[y] + Sum(d, r)
      BY <2>2, <3>1, SumPick
    <3>3. r \in SUBSET s /\ r # s
      BY <3>2
    <3>4. Sum(d, r) = Sum(f, r \cap A)
      BY <1>1, <3>3
    <3>5. Ints(f, s \cap A) /\ Ints(f, r \cap A)
      BY DEF Ints
    <3>6. y \in A => d[y] = f[y] /\ y \in s \cap A /\ r \cap A = (s \cap A) \ {y}
      BY <3>2
    <3>7. y \notin A => d[y] = 0 /\ r \cap A = s \cap A
      BY <3>2
    <3> HIDE DEF y, r
    <3>8. Sum(f, r \cap A) \in Int
      BY <3>1, <3>5, SumInt
    <3>9. y \in A => Sum(f, s \cap A) = f[y] + Sum(f, r \cap A)
      BY <3>1, <3>5, <3>6, SumRemove
    <3>10. Sum(d, s) = Sum(f, s \cap A)
      <4>1. CASE y \in A
        BY <3>2, <3>4, <3>6, <3>9, <4>1
      <4>2. CASE y \notin A
        <5>1. Sum(d, s) = 0 + Sum(f, s \cap A) /\ Sum(f, s \cap A) \in Int
          BY <3>2, <3>4, <3>7, <3>8, <4>2
        <5> QED BY <5>1
      <4> QED BY <4>1, <4>2
    <3> QED BY <3>10
  <2> QED BY <2>1, <2>2
<1>2. S \in SUBSET S /\ SUBSET S \subseteq T
  <2> HIDE DEF T
  <2> QED BY <1>1, SubsetInduction
<1>3. S \cap A = A
  OBVIOUS
<1> QED BY <1>2, <1>3

LEMMA OneMore ==
  ASSUME NEW c \in Int, NEW k \in Int
  PROVE  c * (k + 1) = c * k + c /\ c * k \in Int
  OBVIOUS

\* A lower bound of the summands.
LEMMA SumAtLeast ==
  ASSUME NEW f, NEW S, IsFiniteSet(S), Ints(f, S), NEW c \in Int, \A x \in S : c <= f[x]
  PROVE  Sum(f, S) >= c * Cardinality(S)
<1> DEFINE T == {s \in SUBSET S : Sum(f, s) >= c * Cardinality(s)}
<1>1. ASSUME NEW s \in SUBSET S, \A t \in SUBSET s : t # s => t \in T
      PROVE  s \in T
  <2>1. CASE s = {}
    BY <2>1, SumEmpty, FS_EmptySet
  <2>2. CASE s # {}
    <3> DEFINE y == Pick(s)
               r == s \ {y}
    <3>1. IsFiniteSet(s) /\ IsFiniteSet(r)
      BY FS_Subset
    <3>2. y \in s /\ Sum(f, s) = f[y] + Sum(f, r)
      BY <2>2, <3>1, SumPick
    <3>3. r \in SUBSET s /\ r # s
      BY <3>2
    <3>4. Sum(f, r) >= c * Cardinality(r)
      BY <1>1, <3>3
    <3>5. Ints(f, r)
      BY DEF Ints
    <3>6. Cardinality(r) = Cardinality(s) - 1 /\ Cardinality(s) \in Nat
      BY <3>1, <3>2, FS_RemoveElement, FS_CardinalityType
    <3>7. f[y] \in Int /\ c <= f[y]
      BY <3>2 DEF Ints
    <3> HIDE DEF y, r
    <3>8. Sum(f, r) \in Int
      BY <3>1, <3>5, SumInt
    <3> DEFINE least == c * Cardinality(r)
    <3>9. c * Cardinality(s) = least + c /\ least \in Int
      <4>1. Cardinality(r) \in Int /\ Cardinality(s) = Cardinality(r) + 1
        BY <3>6
      <4> QED BY <4>1, OneMore
    <3> HIDE DEF least
    <3>10. least <= Sum(f, r)
      BY <3>4, <3>8, <3>9 DEF least
    <3>11. least + c <= f[y] + Sum(f, r) /\ f[y] + Sum(f, r) \in Int /\ least + c \in Int
      BY <3>7, <3>8, <3>9, <3>10
    <3> QED BY <3>2, <3>9, <3>11
  <2> QED BY <2>1, <2>2
<1>2. S \in SUBSET S /\ SUBSET S \subseteq T
  <2> HIDE DEF T
  <2> QED BY <1>1, SubsetInduction
<1> QED BY <1>2

\* Two functions that agree on S.
LEMMA SumSame ==
  ASSUME NEW f, NEW g, NEW S, IsFiniteSet(S), Ints(f, S), \A x \in S : g[x] = f[x]
  PROVE  Sum(g, S) = Sum(f, S)
<1>1. \A x \in S : g[x] = IF x \in S THEN f[x] ELSE 0
  OBVIOUS
<1> QED BY <1>1, SumPart

LEMMA SumZero ==
  ASSUME NEW f, NEW S, IsFiniteSet(S), \A x \in S : f[x] = 0
  PROVE  Sum(f, S) = 0
<1>1. {} \in SUBSET S /\ Ints(f, {}) /\ \A x \in S : f[x] = IF x \in {} THEN f[x] ELSE 0
  BY DEF Ints
<1>2. Sum(f, S) = Sum(f, {})
  BY <1>1, SumPart
<1> QED BY <1>2, SumEmpty

LEMMA SumOne ==
  ASSUME NEW f, NEW x, f[x] \in Int
  PROVE  Sum(f, {x}) = f[x]
<1>1. IsFiniteSet({x}) /\ Ints(f, {x}) /\ {x} \ {x} = {}
  BY FS_Singleton DEF Ints
<1>2. Sum(f, {x}) = f[x] + Sum(f, {})
  BY <1>1, SumRemove
<1> QED BY <1>2, SumEmpty

\* One summand grows by d.
LEMMA SumChange ==
  ASSUME NEW f, NEW g, NEW S, IsFiniteSet(S), Ints(f, S), NEW b \in S, NEW d \in Int,
         \A x \in S : g[x] = IF x = b THEN f[x] + d ELSE f[x]
  PROVE  Sum(g, S) = Sum(f, S) + d
<1> DEFINE h == [x \in S |-> IF x = b THEN d ELSE 0]
<1>1. Ints(h, S) /\ \A x \in S : g[x] = f[x] + h[x]
  BY DEF Ints
<1>2. h[b] = d /\ {b} \in SUBSET S /\ \A x \in S : h[x] = IF x \in {b} THEN h[x] ELSE 0
  OBVIOUS
<1> HIDE DEF h
<1>3. Sum(g, S) = Sum(f, S) + Sum(h, S)
  BY <1>1, SumPlus
<1>4. Ints(h, {b})
  BY <1>2 DEF Ints
<1>5. Sum(h, S) = Sum(h, {b})
  BY <1>2, <1>4, SumPart
<1>6. Sum(h, {b}) = d
  BY <1>2, SumOne
<1> QED BY <1>3, <1>5, <1>6

\* The members of S put in e each, and b takes it all out.
LEMMA SumPaid ==
  ASSUME NEW f, NEW e, NEW g, NEW G, IsFiniteSet(G), NEW S \in SUBSET G, NEW b \in S,
         Ints(f, G), Ints(e, S),
         \A x \in G : g[x] = f[x] + (IF x \in S THEN e[x] ELSE 0)
                                  - (IF x = b THEN Sum(e, S) ELSE 0)
  PROVE  Sum(g, G) = Sum(f, G)
<1> DEFINE d == [x \in G |-> IF x \in S THEN e[x] ELSE 0]
           h == [x \in G |-> f[x] + d[x]]
           t == Sum(e, S)
<1>1. IsFiniteSet(S) /\ t \in Int
  BY FS_Subset, SumInt
<1>2. Ints(d, G) /\ Ints(h, G) /\ \A x \in G : h[x] = f[x] + d[x]
  BY DEF Ints
<1>3. \A x \in G : d[x] = IF x \in S THEN e[x] ELSE 0
  OBVIOUS
<1> HIDE DEF t
<1>4. \A x \in G : g[x] = IF x = b THEN h[x] + (-t) ELSE h[x]
  <2>1. ASSUME NEW x \in G PROVE g[x] = IF x = b THEN h[x] + (-t) ELSE h[x]
    <3>1. g[x] = f[x] + d[x] - (IF x = b THEN t ELSE 0)
      BY <1>3 DEF t
    <3>2. h[x] = f[x] + d[x] /\ f[x] \in Int /\ d[x] \in Int
      BY <1>2 DEF Ints
    <3> HIDE DEF d, h
    <3> QED BY <1>1, <3>1, <3>2
  <2> QED BY <2>1
<1> HIDE DEF d, h
<1>5. Sum(h, G) = Sum(f, G) + Sum(d, G)
  BY <1>2, SumPlus
<1>6. Sum(d, G) = t
  BY <1>3, SumPart DEF t
<1>7. b \in G /\ -t \in Int
  BY <1>1
<1>8. Sum(g, G) = Sum(h, G) + (-t)
  BY <1>2, <1>4, <1>7, SumChange
<1>9. Sum(f, G) \in Int
  BY SumInt
<1> QED BY <1>1, <1>5, <1>6, <1>8, <1>9

-----------------------------------------------------------------------------
(* Shares *)

\* The largest summand of a positive sum is positive.
LEMMA SumPositive ==
  ASSUME NEW f, NEW S, IsFiniteSet(S), Ints(f, S), Sum(f, S) > 0, NEW b \in S,
         \A x \in S : f[x] <= f[b]
  PROVE  f[b] > 0
<1> DEFINE g == [x \in S |-> -f[x]]
           z == [x \in S |-> 0]
<1>1. SUFFICES ASSUME ~(f[b] > 0) PROVE FALSE
  OBVIOUS
<1>2. Ints(g, S) /\ (\A x \in S : 0 <= g[x]) /\ \A x \in S : z[x] = f[x] + g[x]
  BY <1>1 DEF Ints
<1>3. \A x \in S : z[x] = 0
  OBVIOUS
<1> HIDE DEF g, z
<1>4. Sum(z, S) = Sum(f, S) + Sum(g, S) /\ Sum(z, S) = 0
  BY <1>2, <1>3, SumPlus, SumZero
<1>5. Sum(g, S) >= 0 * Cardinality(S) /\ Cardinality(S) \in Nat
  BY <1>2, SumAtLeast, FS_CardinalityType
<1>6. Sum(f, S) \in Int /\ Sum(g, S) \in Int
  BY <1>2, SumInt
<1>7. Sum(g, S) >= 0
  BY <1>5
<1> QED BY <1>4, <1>6, <1>7

\* The current weight c[p] of each of the peers L, of weights w, is its share of
\* the picks k so far, less those it got, and by less than a round.
Shares(L, w, c, k) ==
    /\ Sum(c, L) = 0
    /\ \A p \in L : /\ c[p] = w[p] * Sum(k, L) - Sum(w, L) * k[p]
                    /\ -Sum(w, L) < c[p]

\* The choice among L of a peer b with the largest raised weight.
Choice(L, w, c, k, b, c2, k2) ==
    /\ b \in L
    /\ \A p \in L : c[p] + w[p] <= c[b] + w[b]
    /\ \A p \in L : c2[p] = c[p] + w[p] - (IF p = b THEN Sum(w, L) ELSE 0)
    /\ \A p \in L : k2[p] = IF p = b THEN k[p] + 1 ELSE k[p]

LEMMA SharesKept ==
  ASSUME NEW L, IsFiniteSet(L), NEW w, NEW c, NEW k, NEW b, NEW c2, NEW k2,
         Ints(w, L), Ints(c, L), Ints(k, L), \A p \in L : w[p] > 0,
         Shares(L, w, c, k), Choice(L, w, c, k, b, c2, k2)
  PROVE  Shares(L, w, c2, k2)
<1> USE DEF Choice
<1> DEFINE round == Sum(w, L)
           n == Sum(k, L)
           h == [p \in L |-> c[p] + w[p]]
<1>1. round \in Int /\ n \in Int
  BY SumInt
<1>2. Sum(k2, L) = n + 1
  BY SumChange
<1>3. \A p \in L : c2[p] = c[p] + (IF p \in L THEN w[p] ELSE 0)
                                - (IF p = b THEN Sum(w, L) ELSE 0)
  OBVIOUS
<1>4. Sum(c2, L) = 0
  <2>1. L \in SUBSET L
    OBVIOUS
  <2>2. Sum(c2, L) = Sum(c, L)
    BY <1>3, <2>1, SumPaid
  <2> QED BY <2>2 DEF Shares
<1>5. round > 0
  <2>1. w[b] > 0 /\ w[b] \in Int /\ Ints(w, L \ {b}) /\ IsFiniteSet(L \ {b})
    BY FS_Subset DEF Ints
  <2>2. round = w[b] + Sum(w, L \ {b})
    BY SumRemove
  <2>3. \A p \in L \ {b} : 0 <= w[p]
    BY DEF Ints
  <2>4. Sum(w, L \ {b}) >= 0 * Cardinality(L \ {b}) /\ Cardinality(L \ {b}) \in Nat
    BY <2>1, <2>3, SumAtLeast, FS_CardinalityType
  <2>5. Sum(w, L \ {b}) \in Int /\ Sum(w, L \ {b}) >= 0
    BY <2>1, <2>4, SumInt
  <2> HIDE DEF round
  <2> QED BY <2>1, <2>2, <2>5
<1>6. c[b] + w[b] > 0
  <2>1. Ints(h, L) /\ (\A p \in L : h[p] = c[p] + w[p]) /\ \A p \in L : h[p] <= h[b]
    BY DEF Ints
  <2> HIDE DEF h
  <2>2. Sum(h, L) = Sum(c, L) + round
    BY <2>1, SumPlus
  <2>3. Sum(h, L) > 0
    BY <1>1, <1>5, <2>2 DEF Shares
  <2>4. h[b] > 0
    BY <2>1, <2>3, SumPositive
  <2> QED BY <2>1, <2>4
<1>7. ASSUME NEW p \in L
      PROVE  c2[p] = w[p] * (n + 1) - round * k2[p] /\ -round < c2[p]
  <2>1. /\ c[p] = w[p] * n - round * k[p] /\ -round < c[p]
        /\ c[p] \in Int /\ w[p] \in Int /\ k[p] \in Int /\ w[p] > 0
    BY DEF Shares, Ints
  <2>2. c2[p] = c[p] + w[p] - (IF p = b THEN round ELSE 0)
    OBVIOUS
  <2> HIDE DEF round, n
  <2>3. w[p] * (n + 1) = w[p] * n + w[p] /\ w[p] * n \in Int
    BY <1>1, <2>1
  <2>4. round * (k[p] + 1) = round * k[p] + round /\ round * k[p] \in Int
    BY <1>1, <2>1
  <2>5. CASE p = b
    <3>1. k2[p] = k[p] + 1 /\ c2[p] = c[p] + w[p] - round
      BY <2>2, <2>5
    <3>2. c2[p] = w[p] * (n + 1) - round * k2[p]
      BY <1>1, <2>1, <2>3, <2>4, <3>1
    <3>3. -round < c2[p]
      BY <1>1, <1>6, <2>1, <2>5, <3>1
    <3> QED BY <3>2, <3>3
  <2>6. CASE p # b
    <3>1. k2[p] = k[p] /\ c2[p] = c[p] + w[p]
      BY <2>1, <2>2, <2>6
    <3>2. c2[p] = w[p] * (n + 1) - round * k2[p]
      BY <1>1, <2>1, <2>3, <2>4, <3>1
    <3>3. -round < c2[p]
      BY <1>1, <2>1, <3>1
    <3> QED BY <3>2, <3>3
  <2> QED BY <2>5, <2>6
<1> QED BY <1>2, <1>4, <1>7 DEF Shares

\* Who is not ahead by a round is not behind by more than a round for each of
\* the others.
LEMMA SharesBound ==
  ASSUME NEW L, IsFiniteSet(L), NEW w, NEW c, NEW k, Ints(w, L), Ints(c, L), Ints(k, L),
         Shares(L, w, c, k), NEW p \in L
  PROVE  LET round == Sum(w, L)
             ahead == round * k[p] - w[p] * Sum(k, L)
         IN  (1 - Cardinality(L)) * round <= ahead /\ ahead < round
<1> DEFINE round == Sum(w, L)
           n == Sum(k, L)
           m == Cardinality(L)
           o == L \ {p}
<1>1. round \in Int /\ n \in Int
  BY SumInt
<1>2. IsFiniteSet(o) /\ Cardinality(o) = m - 1 /\ m \in Nat
  BY FS_RemoveElement, FS_CardinalityType
<1>3. Ints(c, o) /\ \A q \in o : -round <= c[q]
  <2>1. \A q \in L : -round < c[q] /\ c[q] \in Int
    BY DEF Shares, Ints
  <2> HIDE DEF round
  <2> QED BY <1>1, <2>1 DEF Ints
<1>4. 0 = c[p] + Sum(c, o) /\ c[p] \in Int
  <2>1. Sum(c, L) = c[p] + Sum(c, o)
    BY SumRemove
  <2> QED BY <2>1 DEF Shares, Ints
<1>5. c[p] = w[p] * n - round * k[p] /\ -round < c[p] /\ w[p] \in Int /\ k[p] \in Int
  BY DEF Shares, Ints
<1> HIDE DEF round, n, m, o
<1>6. -round \in Int
  BY <1>1
<1>7. Sum(c, o) \in Int /\ Sum(c, o) >= (-round) * (m - 1)
  BY <1>2, <1>3, <1>6, SumInt, SumAtLeast
<1>8. (-round) * (m - 1) = (1 - m) * round /\ (1 - m) * round \in Int
  BY <1>1, <1>2
<1>9. w[p] * n \in Int /\ round * k[p] \in Int
  BY <1>1, <1>5
<1>10. (1 - m) * round <= round * k[p] - w[p] * n
  BY <1>4, <1>5, <1>7, <1>8, <1>9
<1>11. round * k[p] - w[p] * n < round
  BY <1>1, <1>5, <1>9
<1> QED BY <1>10, <1>11 DEF round, n, m

-----------------------------------------------------------------------------
(* The weights *)

CurrentWeights == [p \in Peers |-> peer[p].cw]
EffectiveWeights == [p \in Peers |-> peer[p].ew]

\* A choice neither creates nor destroys weight, a single peer has none, and
\* while steady the weights of the live peers are their shares.
WeightInv ==
    /\ \A p \in Peers : peer[p].cw \in Int /\ peer[p].ew \in Nat
    /\ Single => \A p \in Peers : peer[p].cw = 0
    /\ Settled(Main) /\ Settled(Backup)
    /\ picks \in [Peers -> Nat] /\ steady \in BOOLEAN
    /\ steady => /\ \A p \in Peers : peer[p].ew = Weight[p]
                 /\ Shares(Live, Weight, CurrentWeights, picks)

LEMMA GroupsFinite ==
    ASSUME servers \in Configs
    PROVE  /\ IsFiniteSet(Main) /\ IsFiniteSet(Backup) /\ IsFiniteSet(Live)
           /\ Live \subseteq Main
           /\ \A p \in Peers : Weight[p] \in Nat \ {0}
<1>1. Live \subseteq Main /\ Main \subseteq Peers /\ Backup \subseteq Peers
    BY PeersFinite DEF Live
<1>2. \A p \in Peers : Weight[p] \in Nat \ {0}
    BY PeersFinite DEF Weight, Server
<1> QED
    BY <1>1, <1>2, PeersFinite, FS_Subset

LEMMA InitWeights == Init => WeightInv
<1> SUFFICES ASSUME Init PROVE WeightInv
    OBVIOUS
<1>1. servers \in Configs
    BY DEF Init
<1>2. \A p \in Peers : /\ peer[p].cw = 0 /\ peer[p].ew = Weight[p] /\ Weight[p] \in Nat
                       /\ CurrentWeights[p] = 0 /\ picks[p] = 0 /\ Weight[p] > 0
    BY <1>1, GroupsFinite DEF Init, CurrentWeights, Weight
<1>3. \A G \in SUBSET Peers : IsFiniteSet(G) => Sum(CurrentWeights, G) = 0
    BY <1>2, SumZero
<1>4. Settled(Main) /\ Settled(Backup)
    BY <1>1, <1>3, GroupsFinite, PeersFinite DEF Settled, CurrentWeights
<1>5. Shares(Live, Weight, CurrentWeights, picks)
    <2>1. IsFiniteSet(Live) /\ Live \subseteq Peers
        BY <1>1, GroupsFinite, PeersFinite
    <2>2. Sum(CurrentWeights, Live) = 0 /\ Sum(picks, Live) = 0
        BY <1>2, <2>1, SumZero
    <2>3. ASSUME NEW p \in Live PROVE Sum(Weight, Live) \in Int /\ Sum(Weight, Live) > 0
        <3>1. Weight[p] \in Int /\ Weight[p] > 0 /\ IsFiniteSet(Live \ {p})
              /\ Ints(Weight, Live) /\ Ints(Weight, Live \ {p})
              /\ \A q \in Live \ {p} : 0 <= Weight[q]
            BY <1>2, <2>1, FS_Subset DEF Ints
        <3>2. Sum(Weight, Live) = Weight[p] + Sum(Weight, Live \ {p})
            BY <2>1, <3>1, SumRemove
        <3>3. /\ Sum(Weight, Live \ {p}) \in Int
              /\ Sum(Weight, Live \ {p}) >= 0 * Cardinality(Live \ {p})
              /\ Cardinality(Live \ {p}) \in Nat
            BY <3>1, SumInt, SumAtLeast, FS_CardinalityType
        <3> QED
            BY <3>1, <3>2, <3>3
    <2>4. ASSUME NEW p \in Live
          PROVE  /\ CurrentWeights[p] = Weight[p] * Sum(picks, Live)
                                          - Sum(Weight, Live) * picks[p]
                 /\ -Sum(Weight, Live) < CurrentWeights[p]
        <3>1. CurrentWeights[p] = 0 /\ picks[p] = 0 /\ Weight[p] \in Nat
            BY <1>2, <2>1
        <3> QED
            BY <2>2, <2>3, <3>1
    <2> QED
        BY <2>2, <2>4 DEF Shares
<1>6. picks \in [Peers -> Nat] /\ steady = TRUE
    BY DEF Init
<1> QED
    BY <1>2, <1>4, <1>5, <1>6 DEF WeightInv

\* Steps that raise no weight.
LEMMA WeightsKept ==
    ASSUME WeightInv, servers' = servers,
           \A p \in Peers : peer'[p].cw = peer[p].cw /\ peer'[p].ew \in Nat,
           picks' \in [Peers -> Nat], steady' \in BOOLEAN,
           steady' => /\ steady /\ picks' = picks
                      /\ \A p \in Peers : peer'[p].ew = peer[p].ew
    PROVE  WeightInv'
<1>1. /\ Peers' = Peers /\ Main' = Main /\ Backup' = Backup /\ (Single)' = Single
      /\ Live' = Live /\ Weight' = Weight
    BY DEF Peers, Main, Backup, Single, Live, Weight
<1>2. CurrentWeights' = CurrentWeights
    BY <1>1 DEF CurrentWeights
<1>3. \A G : Settled(G) <=> Sum(CurrentWeights, G) = 0
    BY DEF Settled, CurrentWeights
<1>4. (Settled(Main))' /\ (Settled(Backup))'
    <2>1. Settled(Main)' <=> Sum(CurrentWeights', Main') = 0
        BY DEF Settled, CurrentWeights
    <2>2. Settled(Backup)' <=> Sum(CurrentWeights', Backup') = 0
        BY DEF Settled, CurrentWeights
    <2> QED
        BY <1>1, <1>2, <1>3, <2>1, <2>2 DEF WeightInv
<1>5. steady' => Shares(Live, Weight, CurrentWeights, picks)'
    <2>1. steady' => Shares(Live, Weight, CurrentWeights, picks)
        BY DEF WeightInv
    <2>2. steady' => Shares(Live', Weight', CurrentWeights', picks')
        BY <1>1, <1>2, <2>1
    <2> QED
        BY <2>2
<1> QED
    BY <1>1, <1>4, <1>5 DEF WeightInv

\* What a choice does to the weights.
LEMMA ChosenWeights ==
    ASSUME TypeInv, WeightInv, ~Single, NEW r \in Requests, NEW b \in Eligible(r),
           peer' = [Chosen(Eligible(r), b) EXCEPT ![b].conns = @ + 1]
    PROVE  \A p \in Peers :
             /\ peer'[p].cw = peer[p].cw + (IF p \in Eligible(r) THEN peer[p].ew ELSE 0)
                                         - (IF p = b THEN Total(Eligible(r)) ELSE 0)
             /\ peer'[p].ew \in Nat
             /\ peer[p].ew = servers[p].weight => peer'[p].ew = peer[p].ew
<1> DEFINE S == Eligible(r)
           t == Total(S)
           W == Weighed(S, b)
<1>1. b \in Peers /\ b \in S
    BY DEF Eligible, Group, Main, Backup
<1>2. SUFFICES ASSUME NEW p \in Peers
               PROVE  /\ peer'[p].cw = peer[p].cw + (IF p \in S THEN peer[p].ew ELSE 0)
                                                  - (IF p = b THEN t ELSE 0)
                      /\ peer'[p].ew \in Nat
                      /\ peer[p].ew = servers[p].weight => peer'[p].ew = peer[p].ew
    OBVIOUS
<1>3. Shape(peer[p]) /\ peer[p].cw \in Int /\ peer[p].ew \in Nat /\ servers[p].weight \in Nat
    BY PeersFinite DEF TypeInv, WeightInv, Server
<1>4. peer' = [W EXCEPT ![b].conns = @ + 1]
    BY DEF Chosen
<1>7. t \in Int
    <2>1. IsFiniteSet(S) /\ S \subseteq Peers
        BY PeersFinite, FS_Subset DEF Eligible, Group, Main, Backup, TypeInv
    <2>2. Ints(EffectiveWeights, S)
        BY <2>1 DEF Ints, EffectiveWeights, WeightInv
    <2>3. t = Sum(EffectiveWeights, S)
        BY DEF Total, EffectiveWeights
    <2> QED
        BY <2>1, <2>2, <2>3, SumInt
<1>5. CASE p \notin S
    <2>1. W[p] = peer[p] /\ DOMAIN W = Peers
        BY <1>5 DEF Weighed
    <2> HIDE DEF W, S, t
    <2>2. peer'[p] = peer[p]
        BY <1>1, <1>4, <1>5, <2>1
    <2> QED
        BY <1>1, <1>3, <1>5, <2>2
<1>6. CASE p \in S
    <2> DEFINE u == Raised(p) - (IF p = b THEN t ELSE 0)
               v == IF peer[p].ew < servers[p].weight THEN peer[p].ew + 1 ELSE peer[p].ew
               k == IF p = b THEN Checked(p) ELSE peer[p].checked
    <2>1. W[p] = [peer[p] EXCEPT !.cw = u, !.ew = v, !.checked = k] /\ DOMAIN W = Peers
        BY <1>6 DEF Weighed
    <2>2. k \in Nat
        BY <1>3 DEF Checked, Shape, TypeInv
    <2>3. u = peer[p].cw + peer[p].ew - (IF p = b THEN t ELSE 0)
        <3> HIDE DEF t
        <3> QED
            BY <1>3, <1>7 DEF Raised
    <2> HIDE DEF W, S, t, u, v, k
    <2>4. Shape(W[p]) /\ W[p].cw = u /\ W[p].ew = v
        <3> DEFINE y == [cw |-> u, ew |-> v, conns |-> peer[p].conns,
                         fails |-> peer[p].fails, accessed |-> peer[p].accessed,
                         checked |-> k]
        <3>1. W[p] = y
            BY <1>3, <2>1 DEF Shape
        <3> QED
            BY <1>3, <2>2, <3>1 DEF Shape
    <2>5. peer'[p] = IF p = b THEN [W[p] EXCEPT !.conns = @ + 1] ELSE W[p]
        BY <1>1, <1>4, <2>1
    <2>6. peer'[p].cw = W[p].cw /\ peer'[p].ew = W[p].ew
        <3>1. CASE p = b
            BY <2>4, <2>5, <3>1 DEF Shape
        <3>2. CASE p # b
            BY <2>5, <3>2
        <3> QED
            BY <3>1, <3>2
    <2> QED
        BY <1>3, <1>6, <2>3, <2>4, <2>6 DEF v
<1> QED
    BY <1>5, <1>6

\* Among several peers.
LEMMA GetWeighs ==
    ASSUME IInv, WeightInv, ~Single, NEW r \in Requests, NEW b \in Eligible(r),
           IsBest(b, Eligible(r)), GetOf(r, b),
           steady' = (steady /\ (req[r].backup \/ Eligible(r) = Live)),
           picks' = IF ~steady' THEN [p \in Peers |-> 0]
                    ELSE IF req[r].backup THEN picks
                    ELSE [picks EXCEPT ![b] = @ + 1]
    PROVE  WeightInv'
<1> DEFINE S == Eligible(r)
           c == CurrentWeights
           d == CurrentWeights'
           e == EffectiveWeights
<1>1. /\ servers' = servers
      /\ Peers' = Peers /\ Main' = Main /\ Backup' = Backup /\ (Single)' = Single
      /\ Live' = Live /\ Weight' = Weight
    BY DEF GetOf, Peers, Main, Backup, Single, Live, Weight
<1>2. /\ IsFiniteSet(Main) /\ IsFiniteSet(Backup) /\ IsFiniteSet(Live) /\ Live \subseteq Main
      /\ Main \subseteq Peers /\ Backup \subseteq Peers /\ Main \cap Backup = {}
      /\ \A p \in Peers : Weight[p] \in Nat \ {0}
    BY GroupsFinite, PeersFinite DEF IInv, TypeInv
<1>3. S \subseteq (IF req[r].backup THEN Backup ELSE Main) /\ b \in S /\ b \in Peers
    BY <1>2 DEF Eligible, Group
<1>4. /\ \A p \in Peers : c[p] = peer[p].cw /\ e[p] = peer[p].ew /\ d[p] = peer'[p].cw
      /\ \A p \in Peers : c[p] \in Int /\ e[p] \in Nat
    BY <1>1 DEF CurrentWeights, EffectiveWeights, WeightInv
<1>5. \A p \in Peers :
         /\ peer'[p].cw = peer[p].cw + (IF p \in S THEN peer[p].ew ELSE 0)
                                     - (IF p = b THEN Total(S) ELSE 0)
         /\ peer'[p].ew \in Nat
         /\ peer[p].ew = servers[p].weight => peer'[p].ew = peer[p].ew
    BY ChosenWeights DEF IInv, GetOf
<1>6. Total(S) = Sum(e, S)
    BY DEF Total, EffectiveWeights
<1>7. \A q \in S : c[q] + e[q] <= c[b] + e[b]
    <2>1. \A q \in S : Raised(q) = c[q] + e[q] /\ c[q] \in Int /\ e[q] \in Int
        BY <1>2, <1>3, <1>4 DEF Raised
    <2> QED
        BY <1>3, <2>1 DEF IsBest
<1> HIDE DEF S, c, d, e
<1>8. \A p \in Peers : d[p] = c[p] + (IF p \in S THEN e[p] ELSE 0)
                                   - (IF p = b THEN Sum(e, S) ELSE 0)
    BY <1>4, <1>5, <1>6
<1>9. \A G \in SUBSET Peers : Ints(c, G) /\ Ints(e, G)
    BY <1>4 DEF Ints
<1>10. ASSUME NEW G \in SUBSET Peers, IsFiniteSet(G), S \subseteq G PROVE Sum(d, G) = Sum(c, G)
    <2>1. S \in SUBSET G /\ Ints(c, G) /\ Ints(e, S)
        BY <1>9, <1>10
    <2>2. \A p \in G : d[p] = c[p] + (IF p \in S THEN e[p] ELSE 0)
                                   - (IF p = b THEN Sum(e, S) ELSE 0)
        BY <1>8
    <2> QED
        BY <1>3, <1>10, <2>1, <2>2, SumPaid
<1>11. ASSUME NEW G \in SUBSET Peers, IsFiniteSet(G), S \cap G = {} PROVE Sum(d, G) = Sum(c, G)
    <2>1. \A p \in G : d[p] = c[p] /\ p # b
        BY <1>3, <1>4, <1>8, <1>11
    <2> QED
        BY <1>9, <1>11, <2>1, SumSame
<1>12. Sum(d, Main) = Sum(c, Main) /\ Sum(d, Backup) = Sum(c, Backup)
    BY <1>2, <1>3, <1>10, <1>11
<1>13. Sum(c, Main) = 0 /\ Sum(c, Backup) = 0
    BY DEF WeightInv, Settled, c, CurrentWeights
<1>14. (Settled(Main))' /\ (Settled(Backup))'
    <2>1. Settled(Main)' <=> Sum(d, Main') = 0
        BY DEF Settled, CurrentWeights, d
    <2>2. Settled(Backup)' <=> Sum(d, Backup') = 0
        BY DEF Settled, CurrentWeights, d
    <2> QED
        BY <1>1, <1>12, <1>13, <2>1, <2>2
<1>15. picks' \in [Peers -> Nat] /\ steady' \in BOOLEAN
    BY <1>3 DEF WeightInv
<1>16. ASSUME steady' PROVE /\ \A p \in Peers : peer'[p].ew = Weight[p]
                            /\ Shares(Live, Weight, d, picks')
    <2>1. /\ steady /\ (req[r].backup \/ S = Live)
          /\ Shares(Live, Weight, c, picks)
          /\ \A p \in Peers : peer[p].ew = Weight[p]
        BY <1>16 DEF WeightInv, S, c
    <2>2. \A p \in Peers : peer'[p].ew = Weight[p]
        BY <1>5, <2>1 DEF Weight
    <2>3. Ints(Weight, Live) /\ Ints(c, Live) /\ Ints(picks, Live)
        BY <1>2, <1>4 DEF Ints, WeightInv
    <2>4. CASE req[r].backup
        <3>1. picks' = picks
            BY <1>16, <2>4
        <3>2. S \cap Live = {} /\ Live \in SUBSET Peers
            BY <1>2, <1>3, <2>4
        <3>3. Sum(d, Live) = Sum(c, Live)
            BY <1>2, <1>11, <3>2
        <3>4. \A p \in Live : d[p] = c[p]
            BY <1>3, <1>4, <1>8, <3>2
        <3> QED
            BY <2>1, <2>2, <3>1, <3>3, <3>4 DEF Shares
    <2>5. CASE ~req[r].backup
        <3>1. picks' = [picks EXCEPT ![b] = @ + 1] /\ S = Live /\ b \in Live
            BY <1>3, <1>16, <2>1, <2>5
        <3>2. \A p \in Live : e[p] = Weight[p]
            BY <1>2, <1>4, <2>1
        <3>3. Sum(e, S) = Sum(Weight, Live)
            BY <1>2, <2>3, <3>1, <3>2, SumSame
        <3>4. \A p \in Live : c[p] + Weight[p] <= c[b] + Weight[b]
            BY <1>7, <3>1, <3>2
        <3>5. \A p \in Live : d[p] = c[p] + Weight[p]
                                       - (IF p = b THEN Sum(Weight, Live) ELSE 0)
            BY <1>2, <1>8, <3>1, <3>2, <3>3
        <3>6. \A p \in Live : picks'[p] = IF p = b THEN picks[p] + 1 ELSE picks[p]
            BY <1>2, <3>1 DEF WeightInv
        <3>7. \A p \in Live : Weight[p] > 0
            BY <1>2
        <3>8. IsFiniteSet(Live) /\ b \in Live /\ Shares(Live, Weight, c, picks)
            BY <1>2, <2>1, <3>1
        <3>9. Choice(Live, Weight, c, picks, b, d, picks')
            BY <3>4, <3>5, <3>6, <3>8 DEF Choice
        <3>10. Shares(Live, Weight, d, picks')
            BY <2>3, <3>7, <3>8, <3>9, SharesKept
        <3> QED
            BY <2>2, <3>10
    <2> QED
        BY <2>4, <2>5
<1>17. steady' => Shares(Live, Weight, CurrentWeights, picks)'
    <2>1. Shares(Live, Weight, CurrentWeights, picks)'
             <=> Shares(Live', Weight', CurrentWeights', picks')
        BY DEF Shares
    <2> QED
        BY <1>1, <1>16, <2>1 DEF d
<1>18. \A p \in Peers : peer'[p].cw \in Int /\ peer'[p].ew \in Nat
    <2>1. Sum(e, S) \in Int
        <3>1. IsFiniteSet(S) /\ Ints(e, S)
            BY <1>2, <1>3, <1>9, FS_Subset
        <3> QED
            BY <3>1, SumInt
    <2> QED
        BY <1>4, <1>5, <1>8, <2>1
<1> QED
    BY <1>1, <1>14, <1>15, <1>16, <1>17, <1>18 DEF WeightInv

\* The only peer.
LEMMA GetSingle ==
    ASSUME IInv, WeightInv, Single, NEW r \in Requests, NEW b \in Eligible(r), GetOf(r, b),
           steady' = (steady /\ (req[r].backup \/ Eligible(r) = Live)),
           picks' = IF ~steady' THEN [p \in Peers |-> 0]
                    ELSE IF req[r].backup THEN picks
                    ELSE [picks EXCEPT ![b] = @ + 1]
    PROVE  WeightInv'
<1>1. b \in Group(r) /\ b \in Peers /\ Backup = {} /\ ~req[r].backup
    BY DEF Eligible, Group, Main, Backup, Single
<1>2. \A p \in Peers : peer'[p].cw = peer[p].cw /\ peer'[p].ew = peer[p].ew
    <2>1. peer = [p \in Peers |-> peer[p]] /\ peer' = [peer EXCEPT ![b].conns = @ + 1]
        BY DEF GetOf, Chosen, IInv, TypeInv
    <2>2. \A p \in Peers : peer'[p] = IF p = b THEN [peer[p] EXCEPT !.conns = @ + 1] ELSE peer[p]
        BY <1>1, <2>1
    <2>3. Shape(peer[b])
        BY <1>1 DEF IInv, TypeInv
    <2> QED
        <3>1. peer'[b] = [peer[b] EXCEPT !.conns = peer[b].conns + 1]
            BY <1>1, <2>2
        <3>2. peer'[b].cw = peer[b].cw /\ peer'[b].ew = peer[b].ew
            BY <2>3, <3>1, ShapeKept
        <3> QED
            BY <2>2, <3>2
<1>3. /\ servers' = servers
      /\ Peers' = Peers /\ Main' = Main /\ Backup' = Backup /\ (Single)' = Single
      /\ Live' = Live /\ Weight' = Weight
    BY DEF GetOf, Peers, Main, Backup, Single, Live, Weight
<1>4. CurrentWeights' = CurrentWeights
    BY <1>2, <1>3 DEF CurrentWeights
<1>5. picks' \in [Peers -> Nat] /\ steady' \in BOOLEAN
    BY <1>1 DEF WeightInv
<1>6. steady' => Shares(Live, Weight, CurrentWeights, picks')
    <2> SUFFICES ASSUME steady' PROVE Shares(Live, Weight, CurrentWeights, picks')
        OBVIOUS
    <2>1. Live = {b}
        <3>1. IsFiniteSet(Main) /\ Live \subseteq Main /\ Cardinality(Main) = 1
            BY GroupsFinite DEF IInv, TypeInv, Single
        <3>2. PICK q : Main = {q}
            BY <3>1, FS_Singleton
        <3>3. b \in Live
            BY <1>1
        <3> QED
            BY <3>1, <3>2, <3>3
    <2>2. /\ CurrentWeights[b] = 0 /\ picks'[b] \in Nat /\ Weight[b] \in Nat \ {0}
          /\ \A p \in Live : CurrentWeights[p] = 0
        BY <1>1, <1>5, <2>1, GroupsFinite DEF CurrentWeights, WeightInv, IInv, TypeInv
    <2>3. Sum(CurrentWeights, Live) = 0 /\ Sum(picks', Live) = picks'[b]
          /\ Sum(Weight, Live) = Weight[b]
        <3>1. CurrentWeights[b] \in Int /\ picks'[b] \in Int /\ Weight[b] \in Int
            BY <2>2
        <3>2. Sum(CurrentWeights, {b}) = CurrentWeights[b]
            BY <3>1, SumOne
        <3>3. Sum(picks', {b}) = picks'[b]
            BY <3>1, SumOne
        <3>4. Sum(Weight, {b}) = Weight[b]
            BY <3>1, SumOne
        <3> QED
            BY <2>1, <2>2, <3>2, <3>3, <3>4
    <2> QED
        BY <2>1, <2>2, <2>3 DEF Shares
<1>7. steady' => Shares(Live, Weight, CurrentWeights, picks)'
    <2>1. Shares(Live, Weight, CurrentWeights, picks)'
             <=> Shares(Live', Weight', CurrentWeights', picks')
        BY DEF Shares
    <2> QED
        BY <1>3, <1>4, <1>6, <2>1
<1>8. (Settled(Main))' /\ (Settled(Backup))'
    <2>1. Settled(Main) <=> Sum(CurrentWeights, Main) = 0
        BY DEF Settled, CurrentWeights
    <2>2. Settled(Backup) <=> Sum(CurrentWeights, Backup) = 0
        BY DEF Settled, CurrentWeights
    <2>3. Settled(Main)' <=> Sum(CurrentWeights', Main') = 0
        BY DEF Settled, CurrentWeights
    <2>4. Settled(Backup)' <=> Sum(CurrentWeights', Backup') = 0
        BY DEF Settled, CurrentWeights
    <2> QED
        BY <1>3, <1>4, <2>1, <2>2, <2>3, <2>4 DEF WeightInv
<1>9. steady' => \A p \in Peers : peer'[p].ew = Weight'[p]
    BY <1>2, <1>3 DEF WeightInv
<1> QED
    BY <1>2, <1>3, <1>5, <1>7, <1>8, <1>9 DEF WeightInv

LEMMA FreedWeights ==
    ASSUME TypeInv, WeightInv, NEW p \in Peers
    PROVE  /\ FreedGood(p).cw = peer[p].cw /\ FreedGood(p).ew = peer[p].ew
           /\ FreedFailed(p).cw = peer[p].cw /\ FreedFailed(p).ew \in Nat
           /\ Single \/ Penalty(p) = 0 => FreedFailed(p).ew = peer[p].ew
<1>1. Shape(peer[p]) /\ peer[p].ew \in Nat /\ servers[p] \in Server
    BY PeersFinite DEF TypeInv, WeightInv
<1>2. Shape(Released(p)) /\ Released(p).cw = peer[p].cw /\ Released(p).ew = peer[p].ew
    BY <1>1, ShapeKept DEF Released
<1>3. FreedGood(p).cw = peer[p].cw /\ FreedGood(p).ew = peer[p].ew
    BY <1>2 DEF FreedGood, Shape
<1>4. Penalty(p) \in Nat
    BY <1>1 DEF Penalty, Server
<1>5. Lowered(p) \in Nat /\ (Penalty(p) = 0 => Lowered(p) = peer[p].ew)
    BY <1>1, <1>4 DEF Lowered
<1>6. CASE Single
    BY <1>1, <1>2, <1>3, <1>6 DEF FreedFailed
<1>7. CASE ~Single
    <2>1. FreedFailed(p).cw = Released(p).cw /\ FreedFailed(p).ew = Lowered(p)
        BY <1>2, <1>7 DEF FreedFailed, Shape
    <2> QED
        BY <1>2, <1>3, <1>5, <1>7, <2>1
<1> QED
    BY <1>3, <1>6, <1>7

LEMMA NextWeights == IInv /\ WeightInv /\ [Next]_vars => WeightInv'
<1> SUFFICES ASSUME IInv, WeightInv, [Next]_vars PROVE WeightInv'
    OBVIOUS
<1>1. ASSUME NEW r \in Requests, Get(r) PROVE WeightInv'
    <2>1. PICK b \in Eligible(r) :
             /\ IsBest(b, Eligible(r)) /\ GetOf(r, b)
             /\ steady' = (steady /\ (req[r].backup \/ Eligible(r) = Live))
             /\ picks' = IF ~steady' THEN [p \in Peers |-> 0]
                         ELSE IF req[r].backup THEN picks
                         ELSE [picks EXCEPT ![b] = @ + 1]
        BY <1>1 DEF Get, GetOf
    <2> QED
        BY <2>1, GetWeighs, GetSingle
<1>2. ASSUME UNCHANGED <<servers, peer, picks, steady>> PROVE WeightInv'
    BY <1>2, WeightsKept DEF WeightInv
<1>3. ASSUME NEW r \in Requests, Finish(r) \/ NextPeer(r) PROVE WeightInv'
    <2>1. PICK p : p = req[r].current
        OBVIOUS
    <2>2. /\ p \in Peers /\ peer' = [peer EXCEPT ![p] = FreedGood(p)]
          /\ UNCHANGED <<servers, picks, steady>>
        BY <1>3, <2>1 DEF Finish, NextPeer, IInv, HeldInv
    <2>3. \A q \in Peers : peer'[q] = IF q = p THEN FreedGood(p) ELSE peer[q]
        BY <2>2 DEF IInv, TypeInv
    <2>4. \A q \in Peers : peer'[q].cw = peer[q].cw /\ peer'[q].ew = peer[q].ew
        BY <2>2, <2>3, FreedWeights DEF IInv
    <2> QED
        BY <2>2, <2>4, WeightsKept DEF WeightInv
<1>4. ASSUME NEW r \in Requests, Fail(r) PROVE WeightInv'
    <2>1. PICK p : p = req[r].current
        OBVIOUS
    <2>2. /\ p \in Peers /\ peer' = [peer EXCEPT ![p] = FreedFailed(p)]
          /\ servers' = servers
          /\ steady' = (steady /\ (Single \/ Penalty(p) = 0))
          /\ picks' = IF steady' THEN picks ELSE [q \in Peers |-> 0]
        BY <1>4, <2>1 DEF Fail, IInv, HeldInv
    <2>3. \A q \in Peers : peer'[q] = IF q = p THEN FreedFailed(p) ELSE peer[q]
        BY <2>2 DEF IInv, TypeInv
    <2>4. \A q \in Peers : peer'[q].cw = peer[q].cw /\ peer'[q].ew \in Nat
        BY <2>2, <2>3, FreedWeights DEF IInv, WeightInv
    <2>5. steady' => \A q \in Peers : peer'[q].ew = peer[q].ew
        BY <2>2, <2>3, FreedWeights DEF IInv
    <2>6. picks' \in [Peers -> Nat] /\ steady' \in BOOLEAN
        BY <2>2 DEF WeightInv
    <2> QED
        BY <2>2, <2>4, <2>5, <2>6, WeightsKept
<1>5. CASE Tick \/ (\E W \in SUBSET Requests : Crash(W)) \/ UNCHANGED vars
    BY <1>2, <1>5 DEF Tick, Crash, vars
<1>6. ASSUME NEW r \in Requests, Start(r) \/ Failover(r) \/ Busy(r) PROVE WeightInv'
    BY <1>2, <1>6 DEF Start, Failover, Busy
<1> QED
    BY <1>1, <1>3, <1>4, <1>5, <1>6 DEF Next, RequestStep

\* However peers fail, fill up, rest and come back, the weights of a group sum to
\* zero; and while all main peers take part at full weight, none gets a whole
\* round more than its share, nor falls behind by more than a round for each of
\* the others.
THEOREM SmoothCorrect == Spec => []Smooth
<1>1. IInv /\ WeightInv => Smooth
    <2> SUFFICES ASSUME IInv, WeightInv PROVE Smooth
        OBVIOUS
    <2>1. ASSUME steady, NEW p \in Live
          PROVE  LET round == Sum(Weight, Live)
                     ahead == round * picks[p] - Weight[p] * Sum(picks, Live)
                 IN  (1 - Cardinality(Live)) * round <= ahead /\ ahead < round
        <3>1. Live \subseteq Peers /\ IsFiniteSet(Live)
            BY GroupsFinite, PeersFinite DEF IInv, TypeInv
        <3>2. Ints(Weight, Live) /\ Ints(CurrentWeights, Live) /\ Ints(picks, Live)
            BY <3>1, GroupsFinite DEF Ints, CurrentWeights, WeightInv, IInv, TypeInv
        <3>3. Shares(Live, Weight, CurrentWeights, picks)
            BY <2>1 DEF WeightInv
        <3> QED
            BY <2>1, <3>1, <3>2, <3>3, SharesBound
    <2> QED
        BY <2>1 DEF Smooth, WeightInv
<1>2. Spec => []WeightInv
    BY IInvCorrect, InitWeights, NextWeights, PTL DEF Spec
<1> QED
    BY <1>1, <1>2, IInvCorrect, PTL

=============================================================================
