------------------------ MODULE NgxConnection_proofs -------------------------
(***************************************************************************)
(* Proofs about NgxConnection, for any number of connections, uses and     *)
(* events: what the instance bit does, that posted events find their own   *)
(* connection, and that the lists hold what they should.                   *)
(***************************************************************************)
EXTENDS NgxConnection, SequenceTheorems, TLAPS

\* The bit is the parity of how often the connection was taken.
Bit(n) == (n + 1) % 2

FreeInv ==
    /\ free \in Seq(Conn)
    /\ \A m, n \in 1 .. Len(free) : m # n => free[m] # free[n]
    /\ \A n \in 1 .. Len(free) : free[n] \notin open
    /\ \A c \in Conn \ open : \E n \in 1 .. Len(free) : free[n] = c

ReusableInv ==
    /\ reusable \in Seq(open)
    /\ \A m, n \in 1 .. Len(reusable) : m # n => reusable[m] # reusable[n]

BitInv == \A c \in Conn : instance[c] = Bit(use[c])

Event == [conn : Conn, instance : {0, 1}, events : SUBSET Dir, use : Nat]

\* An event carries the bit of the use it was reported for, which is the present
\* use or an earlier one.
BatchInv ==
    /\ batch \in Seq(Event)
    /\ \A n \in 1 .. Len(batch) :
          /\ batch[n].instance = Bit(batch[n].use)
          /\ batch[n].use <= use[batch[n].conn]

\* An event of the batch is being worked on.
PcInv == pc \in {"in_read", "write", "in_write", "next"} => batch # <<>>

PostedInv ==
    \A e \in posted : e.conn \in open /\ e.use = use[e.conn]

IInv == TypeOK /\ FreeInv /\ ReusableInv /\ BitInv /\ BatchInv /\ PcInv /\ PostedInv

-----------------------------------------------------------------------------
LEMMA ParityOfBit ==
    ASSUME NEW m \in Nat, NEW n \in Nat, m <= n, Bit(m) = Bit(n)
    PROVE  m = n \/ n >= m + 2
  BY DEF Bit

LEMMA NextBit == ASSUME NEW n \in Nat PROVE Bit(n + 1) = 1 - Bit(n) /\ Bit(n) \in {0, 1}
  BY DEF Bit

\* ngx_queue_remove() takes the node of c and no other.
LEMMA UnqueuedSound ==
    ASSUME ReusableInv, NEW c
    PROVE  /\ Unqueued(c) \in Seq(open \ {c})
           /\ \A m, n \in 1 .. Len(Unqueued(c)) :
                  m # n => Unqueued(c)[m] # Unqueued(c)[n]
<1>1. CASE \A n \in 1 .. Len(reusable) : reusable[n] # c
    <2>1. Unqueued(c) = reusable
        BY <1>1 DEF Unqueued
    <2>2. reusable \in Seq(open \ {c})
        BY <1>1 DEF ReusableInv
    <2> QED
        BY <2>1, <2>2 DEF ReusableInv
<1>2. CASE \E n \in 1 .. Len(reusable) : reusable[n] = c
    <2> DEFINE at == CHOOSE n \in 1 .. Len(reusable) : reusable[n] = c
               head == SubSeq(reusable, 1, at - 1)
               rest == SubSeq(reusable, at + 1, Len(reusable))
    <2>1. at \in 1 .. Len(reusable) /\ reusable[at] = c
        BY <1>2
    <2>2. Unqueued(c) = head \o rest
        BY <1>2 DEF Unqueued, RemoveAt
    <2> HIDE DEF at
    <2>3. /\ reusable \in Seq(open) /\ Len(reusable) \in Nat /\ at \in Nat
          /\ \A m, n \in 1 .. Len(reusable) : m # n => reusable[m] # reusable[n]
        BY <2>1 DEF ReusableInv
    <2>4. /\ head \in Seq(open) /\ Len(head) = at - 1
          /\ \A n \in 1 .. at - 1 : head[n] = reusable[n]
        BY <2>1, <2>3
    <2>5. /\ rest \in Seq(open) /\ Len(rest) = Len(reusable) - at
          /\ \A n \in 1 .. Len(reusable) - at : rest[n] = reusable[n + at]
        BY <2>1, <2>3
    <2> HIDE DEF head, rest
    <2> DEFINE less == head \o rest
               from(n) == IF n < at THEN n ELSE n + 1
    <2>6. less \in Seq(open) /\ Len(less) = Len(reusable) - 1
        <3>1. less \in Seq(open) /\ Len(less) = Len(head) + Len(rest)
            BY <2>4, <2>5
        <3> QED
            BY <2>3, <2>4, <2>5, <3>1
    <2>7. \A n \in 1 .. Len(less) :
              less[n] = reusable[from(n)] /\ from(n) \in 1 .. Len(reusable) /\ from(n) # at
        <3> TAKE n \in 1 .. Len(less)
        <3>1. n \in 1 .. Len(reusable) - 1
            BY <2>6
        <3>2. CASE n < at
            <4>1. n \in 1 .. Len(head)
                BY <2>3, <2>4, <3>1, <3>2
            <4>2. less[n] = head[n]
                BY <2>4, <2>5, <4>1
            <4> QED
                BY <2>3, <2>4, <3>1, <3>2, <4>2
        <3>3. CASE ~(n < at)
            <4>1. n - Len(head) \in 1 .. Len(rest) /\ n - Len(head) + at = n + 1
                BY <2>1, <2>3, <2>4, <2>5, <3>1, <3>3
            <4>2. less[n] = rest[n - Len(head)]
                BY <2>4, <2>5, <2>3, <3>1, <3>3
            <4> QED
                BY <2>3, <2>5, <3>1, <3>3, <4>1, <4>2
        <3> QED
            BY <3>2, <3>3
    <2>8. \A m, n \in 1 .. Len(less) : m # n => from(m) # from(n)
        BY <2>1, <2>3, <2>6
    <2> HIDE DEF less, from
    <2>9. \A n \in 1 .. Len(less) : less[n] \in open \ {c}
        BY <2>1, <2>3, <2>6, <2>7
    <2>10. \A m, n \in 1 .. Len(less) : m # n => less[m] # less[n]
        BY <2>3, <2>7, <2>8
    <2>11. less \in Seq(open \ {c})
        BY <2>6, <2>9
    <2> QED
        BY <2>2, <2>10, <2>11 DEF less
<1> QED
    BY <1>1, <1>2

\* A node that was removed may be inserted at the head.
LEMMA InsertedSound ==
    ASSUME ReusableInv, NEW c \in open
    PROVE  /\ <<c>> \o Unqueued(c) \in Seq(open)
           /\ \A m, n \in 1 .. Len(<<c>> \o Unqueued(c)) :
                  m # n => (<<c>> \o Unqueued(c))[m] # (<<c>> \o Unqueued(c))[n]
<1> DEFINE q == Unqueued(c)
           more == <<c>> \o q
<1>1. /\ q \in Seq(open \ {c})
      /\ \A m, n \in 1 .. Len(q) : m # n => q[m] # q[n]
    BY UnqueuedSound
<1> HIDE DEF q
<1>2. q \in Seq(open) /\ Len(q) \in Nat /\ \A n \in 1 .. Len(q) : q[n] # c
    BY <1>1
<1>3. /\ more \in Seq(open) /\ Len(more) = Len(q) + 1 /\ more[1] = c
      /\ \A n \in 2 .. Len(q) + 1 : more[n] = q[n - 1] /\ n - 1 \in 1 .. Len(q)
    BY <1>1, <1>2
<1> HIDE DEF more
<1>4. \A m, n \in 1 .. Len(more) : m # n => more[m] # more[n]
    <2> SUFFICES ASSUME NEW m \in 1 .. Len(more), NEW n \in 1 .. Len(more), m # n
                 PROVE  more[m] # more[n]
        OBVIOUS
    <2>1. CASE m = 1
        BY <1>1, <1>2, <1>3, <2>1
    <2>2. CASE n = 1
        BY <1>1, <1>2, <1>3, <2>2
    <2>3. CASE m # 1 /\ n # 1
        <3>1. m - 1 \in 1 .. Len(q) /\ n - 1 \in 1 .. Len(q) /\ m - 1 # n - 1
            BY <1>2, <1>3, <2>3
        <3>2. more[m] = q[m - 1] /\ more[n] = q[n - 1]
            BY <1>2, <1>3, <2>3
        <3> QED
            BY <1>1, <3>1, <3>2
    <2> QED
        BY <2>1, <2>2, <2>3
<1> QED
    BY <1>3, <1>4 DEF more, q

LEMMA InitIInv == Init => IInv
<1> SUFFICES ASSUME Init PROVE IInv
    OBVIOUS
<1> USE ConnectionAssumption DEF Init, Conn
<1>1. TypeOK
    BY DEF TypeOK, Handler
<1>2. FreeInv
    BY DEF FreeInv
<1>2a. ReusableInv
    BY DEF ReusableInv
<1>3. BitInv
    BY DEF BitInv, Bit
<1>4. BatchInv /\ PcInv /\ PostedInv
    BY DEF BatchInv, PcInv, PostedInv
<1> QED
    BY <1>1, <1>2, <1>2a, <1>3, <1>4 DEF IInv

-----------------------------------------------------------------------------
(* A connection is taken *)

\* Taking c keeps the bit and the batch, whatever becomes of the lists.
LEMMA TakenKeeps ==
    ASSUME IInv, NEW c \in Conn, Taken(c), use' = [use EXCEPT ![c] = @ + 1],
           UNCHANGED batch
    PROVE  BitInv' /\ BatchInv' /\ instance' \in [Conn -> {0, 1}] /\ use' \in [Conn -> Nat]
<1> USE DEF IInv, Taken
<1>1. instance' \in [Conn -> {0, 1}] /\ use' \in [Conn -> Nat]
    BY DEF TypeOK
<1>2. BitInv'
    <2> SUFFICES ASSUME NEW d \in Conn PROVE instance'[d] = Bit(use'[d])
        BY DEF BitInv
    <2>1. CASE d = c
        BY <2>1, NextBit DEF TypeOK, BitInv
    <2>2. CASE d # c
        BY <2>2 DEF TypeOK, BitInv
    <2> QED
        BY <2>1, <2>2
<1>3. \A d \in Conn : use'[d] >= use[d]
    BY DEF TypeOK
<1>4. BatchInv'
    <2> SUFFICES \A n \in 1 .. Len(batch) : batch[n].use <= use'[batch[n].conn]
        BY DEF BatchInv
    <2> TAKE n \in 1 .. Len(batch)
    <2>1. batch[n] \in Event
        BY DEF BatchInv
    <2>2. batch[n].conn \in Conn /\ batch[n].use \in Nat
        BY <2>1 DEF Event
    <2>3. batch[n].use <= use[batch[n].conn]
        BY DEF BatchInv
    <2> QED
        BY <1>1, <1>3, <2>2, <2>3 DEF TypeOK
<1> QED
    BY <1>1, <1>2, <1>4

LEMMA GetKeeps == ASSUME IInv, Get PROVE IInv'
<1> DEFINE c == Head(free)
<1>1. /\ c \in Conn /\ Len(free) > 0 /\ c = free[1]
      /\ Tail(free) \in Seq(Conn) /\ Len(Tail(free)) = Len(free) - 1
      /\ \A n \in 1 .. Len(free) - 1 : Tail(free)[n] = free[n + 1]
    BY DEF Get, IInv, FreeInv
<1>2. Taken(c) /\ use' = [use EXCEPT ![c] = @ + 1] /\ UNCHANGED batch
    BY DEF Get
<1> HIDE DEF c
<1>3. /\ BitInv' /\ BatchInv' /\ instance' \in [Conn -> {0, 1}] /\ use' \in [Conn -> Nat]
    BY <1>1, <1>2, TakenKeeps
<1>4. /\ open' = open \cup {c} /\ free' = Tail(free) /\ active' = [active EXCEPT ![c] = {}]
      /\ gets' = gets + 1 /\ UNCHANGED <<reusable, posted, pc, posts>>
    BY DEF Get, c
<1>5. TypeOK'
    BY <1>1, <1>3, <1>4 DEF IInv, TypeOK
<1>6. FreeInv'
    <2>1. \A m, n \in 1 .. Len(free') : m # n => free'[m] # free'[n]
        BY <1>1, <1>4 DEF IInv, FreeInv
    <2>2. \A n \in 1 .. Len(free') : free'[n] \notin open /\ free'[n] # c
        BY <1>1, <1>4 DEF IInv, FreeInv
    <2>3. ASSUME NEW d \in Conn \ open' PROVE \E n \in 1 .. Len(free') : free'[n] = d
        <3>1. PICK n \in 1 .. Len(free) : free[n] = d
            BY <1>4, <2>3 DEF IInv, FreeInv
        <3>2. n # 1 /\ Len(free) \in Nat
            BY <1>1, <1>4, <2>3, <3>1 DEF IInv, FreeInv
        <3>3. n - 1 \in 1 .. Len(free') /\ free'[n - 1] = d
            BY <1>1, <1>4, <3>1, <3>2
        <3> QED
            BY <3>3
    <2> QED
        BY <1>1, <1>4, <2>1, <2>2, <2>3 DEF FreeInv
<1>6a. ReusableInv'
    BY <1>4 DEF IInv, ReusableInv
<1>7. PcInv'
    BY <1>2, <1>4 DEF IInv, PcInv
<1>8. PostedInv'
    <2>1. c \notin open
        BY <1>1 DEF IInv, FreeInv
    <2> QED
        BY <1>2, <1>4, <2>1 DEF IInv, PostedInv, TypeOK
<1> QED
    BY <1>3, <1>5, <1>6, <1>6a, <1>7, <1>8 DEF IInv

LEMMA GetDrainedKeeps == ASSUME IInv, GetDrained PROVE IInv'
<1> DEFINE c == Last(reusable)
<1>1. /\ Taken(c) /\ use' = [use EXCEPT ![c] = @ + 1] /\ active' = [active EXCEPT ![c] = {}]
      /\ posted' = {e \in posted : e.conn # c} /\ gets' = gets + 1
      /\ UNCHANGED <<free, open, pc, posts, batch>>
    BY DEF GetDrained
<1> HIDE DEF c
<1>2. /\ BitInv' /\ BatchInv' /\ instance' \in [Conn -> {0, 1}] /\ use' \in [Conn -> Nat]
    <2>1. CASE c \in Conn
        BY <1>1, <2>1, TakenKeeps
    <2>2. CASE c \notin Conn
        <3>1. UNCHANGED <<instance, use>>
            BY <1>1, <2>2 DEF IInv, TypeOK, Taken
        <3> QED
            BY <1>1, <3>1 DEF IInv, TypeOK, BitInv, BatchInv
    <2> QED
        BY <2>1, <2>2
<1>3. TypeOK'
    BY <1>1, <1>2 DEF IInv, TypeOK
<1>4. FreeInv'
    BY <1>1 DEF IInv, FreeInv
<1>4a. ReusableInv'
    <2>1. reusable \in Seq(open) /\ reusable # <<>> /\ reusable' = Front(reusable)
        BY DEF GetDrained, IInv, ReusableInv
    <2>2. /\ reusable' \in Seq(open) /\ Len(reusable') = Len(reusable) - 1
          /\ \A n \in 1 .. Len(reusable') : reusable'[n] = reusable[n]
        <3>1. Len(reusable) \in Nat \ {0}
            BY <2>1
        <3>2. reusable' = SubSeq(reusable, 1, Len(reusable) - 1)
            BY <2>1 DEF Front
        <3> DEFINE last == Len(reusable) - 1
        <3>3. last \in Nat /\ \A n \in 1 .. last : reusable[n] \in open
            BY <2>1, <3>1
        <3> HIDE DEF last
        <3>4. /\ SubSeq(reusable, 1, last) \in Seq(open)
              /\ Len(SubSeq(reusable, 1, last)) = IF 1 <= last THEN last - 1 + 1 ELSE 0
              /\ \A n \in 1 .. last - 1 + 1 : SubSeq(reusable, 1, last)[n] = reusable[1 + n - 1]
            BY <3>3, SubSeqProperties
        <3>5. Len(SubSeq(reusable, 1, last)) = last
            BY <3>3, <3>4
        <3>6. \A n \in 1 .. last : SubSeq(reusable, 1, last)[n] = reusable[n]
            <4> TAKE n \in 1 .. last
            <4>1. n \in 1 .. last - 1 + 1 /\ 1 + n - 1 = n
                BY <3>3
            <4> QED
                BY <3>4, <4>1
        <3> QED
            BY <3>2, <3>4, <3>5, <3>6 DEF last
    <2> QED
        BY <1>1, <2>1, <2>2 DEF IInv, ReusableInv
<1>5. PostedInv' /\ PcInv'
    BY <1>1 DEF IInv, PostedInv, PcInv, TypeOK
<1> QED
    BY <1>2, <1>3, <1>4, <1>4a, <1>5 DEF IInv

-----------------------------------------------------------------------------
(* The other steps *)

LEMMA CloseKeeps == ASSUME IInv, NEW c \in Conn, Close(c) PROVE IInv'
<1> USE DEF IInv, Close, Closed
<1>1. /\ <<c>> \o free \in Seq(Conn) /\ Len(<<c>> \o free) = Len(free) + 1
      /\ (<<c>> \o free)[1] = c
      /\ \A n \in 2 .. Len(free) + 1 : (<<c>> \o free)[n] = free[n - 1]
    BY DEF FreeInv
<1>2. TypeOK'
    BY DEF TypeOK
<1>3. FreeInv'
    <2>1. \A n \in 1 .. Len(free') : free'[n] \notin open'
        BY <1>1 DEF FreeInv
    <2>2. \A m, n \in 1 .. Len(free') : m # n => free'[m] # free'[n]
        BY <1>1 DEF FreeInv
    <2>3. ASSUME NEW d \in Conn \ open' PROVE \E n \in 1 .. Len(free') : free'[n] = d
        <3>1. CASE d = c
            BY <1>1, <3>1 DEF FreeInv
        <3>2. CASE d # c
            <4>1. PICK n \in 1 .. Len(free) : free[n] = d
                BY <2>3, <3>2 DEF FreeInv
            <4>2. n + 1 \in 1 .. Len(free') /\ free'[n + 1] = d
                BY <1>1, <4>1 DEF FreeInv
            <4> QED
                BY <4>2
        <3> QED
            BY <3>1, <3>2
    <2> QED
        BY <1>1, <2>1, <2>2, <2>3 DEF FreeInv
<1>3a. ReusableInv'
    BY UnqueuedSound DEF ReusableInv
<1>4. BitInv' /\ BatchInv' /\ PcInv'
    BY DEF BitInv, BatchInv, PcInv
<1>5. PostedInv'
    BY DEF PostedInv
<1> QED
    BY <1>2, <1>3, <1>3a, <1>4, <1>5

\* Nothing but a direction, the reusable queue or the posted events change.
LEMMA HandlerKeeps ==
    ASSUME IInv, NEW c \in Conn,
           \/ \E on \in BOOLEAN : Reusable(c, on)
           \/ \E dirs \in SUBSET Dir \ {{}} : Add(c, dirs)
           \/ \E d \in Dir : Del(c, d) \/ Post(c, d)
    PROVE  IInv'
<1>1. UNCHANGED <<free, open, instance, pc, posts, batch, use, gets>>
    BY DEF Reusable, Add, Del, Post, conns
<1>2. active' \in [Conn -> SUBSET Dir]
    <2>1. active \in [Conn -> SUBSET Dir]
        BY DEF IInv, TypeOK
    <2> QED
        BY <2>1 DEF Reusable, Add, Del, Post, conns
<1>3. \A e \in posted' : e \in posted \/ (e.conn \in open /\ e.use = use[e.conn])
    <2>1. CASE \E d \in Dir : Post(c, d)
        BY <2>1 DEF Post, WithPosted
    <2>2. CASE UNCHANGED posted
        BY <2>2
    <2> QED
        BY <2>1, <2>2 DEF Reusable, Add, Del
<1>4. TypeOK' /\ FreeInv' /\ BitInv' /\ BatchInv' /\ PcInv'
    BY <1>1, <1>2 DEF IInv, TypeOK, FreeInv, BitInv, BatchInv, PcInv
<1>5. PostedInv'
    BY <1>1, <1>3 DEF IInv, PostedInv
<1>6. ReusableInv'
    <2>1. CASE UNCHANGED reusable
        BY <1>1, <2>1 DEF IInv, ReusableInv
    <2>2. CASE Reusable(c, TRUE)
        <3>1. c \in open /\ reusable' = <<c>> \o Unqueued(c)
            BY <2>2 DEF Reusable
        <3>2. /\ <<c>> \o Unqueued(c) \in Seq(open)
              /\ \A m, n \in 1 .. Len(<<c>> \o Unqueued(c)) :
                     m # n => (<<c>> \o Unqueued(c))[m] # (<<c>> \o Unqueued(c))[n]
            BY <3>1, InsertedSound DEF IInv
        <3> QED
            BY <1>1, <3>1, <3>2 DEF ReusableInv
    <2>3. CASE Reusable(c, FALSE)
        <3>1. /\ Unqueued(c) \in Seq(open \ {c})
              /\ \A m, n \in 1 .. Len(Unqueued(c)) :
                     m # n => Unqueued(c)[m] # Unqueued(c)[n]
            BY UnqueuedSound DEF IInv
        <3>2. Unqueued(c) \in Seq(open)
            BY <3>1
        <3>3. <<>> \o Unqueued(c) = Unqueued(c)
            BY <3>2
        <3>4. reusable' = Unqueued(c)
            BY <2>3, <3>3 DEF Reusable
        <3> QED
            BY <1>1, <3>1, <3>2, <3>4 DEF ReusableInv
    <2> QED
        BY <2>1, <2>2, <2>3 DEF Reusable, Add, Del, Post, conns
<1> QED
    BY <1>4, <1>5, <1>6 DEF IInv

LEMMA EpollWaitKeeps == ASSUME IInv, EpollWait PROVE IInv'
<1> DEFINE Report(n, cs, ds) ==
              [i \in 1 .. n |-> [conn |-> cs[i], instance |-> instance[cs[i]],
                                events |-> ds[i], use |-> use[cs[i]]]]
<1>0. PICK n \in 0 .. MaxBatch :
          \E cs \in [1 .. n -> open], ds \in [1 .. n -> SUBSET Dir \ {{}}] :
              /\ \A i, j \in 1 .. n : i # j => cs[i] # cs[j]
              /\ \A i \in 1 .. n : active[cs[i]] # {}
                                  /\ (ds[i] \subseteq active[cs[i]] \/ ds[i] = Dir)
              /\ batch' = Report(n, cs, ds)
    BY Zenon DEF EpollWait
<1> HIDE DEF Report
<1>1. PICK cs \in [1 .. n -> open], ds \in [1 .. n -> SUBSET Dir \ {{}}] :
          batch' = Report(n, cs, ds)
    BY <1>0
<1> USE DEF Report
<1>2. /\ posts' \in BOOLEAN /\ pc' = "read"
      /\ UNCHANGED <<free, open, instance, active, reusable, use, gets, posted>>
    BY DEF EpollWait, conns
<1>3. n \in Nat /\ open \subseteq Conn
    BY ConnectionAssumption DEF IInv, TypeOK
<1>4. TypeOK' /\ FreeInv' /\ ReusableInv' /\ BitInv' /\ PcInv' /\ PostedInv'
    BY <1>2 DEF IInv, TypeOK, FreeInv, ReusableInv, BitInv, PcInv, PostedInv
<1>5. \A i \in 1 .. n :
          [conn |-> cs[i], instance |-> instance[cs[i]], events |-> ds[i], use |-> use[cs[i]]]
              \in Event
    BY <1>3 DEF Event, IInv, TypeOK
<1>6. BatchInv'
    <2>1. batch' \in Seq(Event)
          /\ Len(batch') = n
        BY <1>1, <1>3, <1>5
    <2>2. \A i \in 1 .. n : batch'[i].instance = Bit(batch'[i].use)
                            /\ batch'[i].use <= use'[batch'[i].conn]
        BY <1>1, <1>2, <1>3 DEF IInv, TypeOK, BitInv
    <2> QED
        BY <2>1, <2>2 DEF BatchInv
<1> QED
    BY <1>4, <1>6 DEF IInv

\* The steps through the batch and the posted events.
LEMMA LoopKeeps ==
    ASSUME IInv, Return \/ ReadPart \/ WritePart \/ NextEvent \/ Timers \/ RunPosted
    PROVE  IInv'
<1>1. UNCHANGED <<conns, posts>>
    BY DEF Return, ReadPart, WritePart, NextEvent, Timers, RunPosted, conns
<1>2. pc' \in Handler \cup {"wait", "read", "write", "next", "posted"}
    <2>1. CASE Return
        BY <2>1 DEF Return, Handler, Behind
    <2>2. CASE ReadPart
        BY <2>2 DEF ReadPart, Ready, Handler
    <2>3. CASE WritePart
        BY <2>3 DEF WritePart, Ready, Handler
    <2>4. CASE NextEvent \/ Timers \/ RunPosted
        BY <2>4 DEF NextEvent, Timers, RunPosted, Handler
    <2> QED
        BY <2>1, <2>2, <2>3, <2>4
<1>3. TypeOK' /\ FreeInv' /\ ReusableInv' /\ BitInv'
    BY <1>1, <1>2 DEF conns, IInv, TypeOK, FreeInv, ReusableInv, BitInv
<1>4. BatchInv'
    <2>1. CASE UNCHANGED batch
        BY <1>1, <2>1 DEF conns, IInv, BatchInv
    <2>2. CASE batch' = Tail(batch) /\ batch # <<>>
        <3>1. /\ batch' \in Seq(Event)
              /\ Len(batch') = Len(batch) - 1
              /\ \A n \in 1 .. Len(batch') : batch'[n] = batch[n + 1] /\ n + 1 \in 1 .. Len(batch)
            BY <2>2 DEF IInv, BatchInv
        <3> QED
            BY <1>1, <3>1 DEF conns, IInv, BatchInv
    <2> QED
        BY <2>1, <2>2 DEF Return, ReadPart, WritePart, NextEvent, Timers, RunPosted, IInv, PcInv
<1>5. PcInv'
    BY DEF Return, ReadPart, WritePart, NextEvent, Timers, RunPosted, Ready, Behind, IInv, PcInv,
           Handler
<1>6. PostedInv'
    <2>1. \A e \in posted' : e \in posted \/ (e.conn \in open /\ e.use = use[e.conn])
        <3>1. CASE ReadPart \/ WritePart
            BY <3>1 DEF ReadPart, WritePart, Ready, WithPosted, Stale
        <3>2. CASE Return \/ NextEvent \/ Timers \/ RunPosted
            BY <3>2 DEF Return, NextEvent, Timers, RunPosted
        <3> QED
            BY <3>1, <3>2
    <2> QED
        BY <1>1, <2>1 DEF conns, IInv, PostedInv
<1> QED
    BY <1>3, <1>4, <1>5, <1>6 DEF IInv

LEMMA StepKeeps == IInv /\ [Next]_vars => IInv'
<1> SUFFICES ASSUME IInv, [Next]_vars PROVE IInv'
    OBVIOUS
<1>1. CASE HandlerStep
    BY <1>1, GetKeeps, GetDrainedKeeps, LoopKeeps, CloseKeeps, HandlerKeeps DEF HandlerStep
<1>2. CASE EpollWait \/ ReadPart \/ WritePart \/ NextEvent \/ Timers \/ RunPosted
    BY <1>2, EpollWaitKeeps, LoopKeeps
<1>3. CASE UNCHANGED vars
    <2>1. TypeOK' /\ FreeInv' /\ ReusableInv'
        BY <1>3 DEF vars, conns, IInv, TypeOK, FreeInv, ReusableInv
    <2>2. BitInv' /\ BatchInv' /\ PcInv' /\ PostedInv'
        BY <1>3 DEF vars, conns, IInv, BitInv, BatchInv, PcInv, PostedInv
    <2> QED
        BY <2>1, <2>2 DEF IInv
<1> QED
    BY <1>1, <1>2, <1>3 DEF Next

\* Whatever the handlers close, take, drain and offer for reuse, no connection is
\* lost: each is open or stands once in the free list, and only open ones stand,
\* once, in the queue of those that may be drained.
THEOREM ListsSoundCorrect == Spec => []ListsSound
<1>1. ASSUME IInv PROVE ListsSound
    <2>1. TypeOK
        BY <1>1 DEF IInv
    <2>2. IsInjective(free) /\ ToSet(free) = Conn \ open
        BY <1>1 DEF IInv, FreeInv, IsInjective, ToSet
    <2>3. IsInjective(reusable) /\ ToSet(reusable) \subseteq open
        BY <1>1 DEF IInv, ReusableInv, IsInjective, ToSet
    <2> QED
        BY <2>1, <2>2, <2>3 DEF ListsSound
<1> QED
    BY <1>1, InitIInv, StepKeeps, PTL DEF Spec

\* ngx_close_connection() takes back what was posted: no posted event reaches a
\* closed connection or the next use of its slot.
THEOREM PostedOwnCorrect == Spec => []PostedOwn
<1>1. IInv => PostedOwn
    BY DEF IInv, PostedInv, PostedOwn
<1> QED
    BY <1>1, InitIInv, StepKeeps, PTL DEF Spec

\* The instance bit lets no event of an earlier use through, unless the slot was
\* taken an even number of times since, and holds back none of the present use.
THEOREM StalePassedOverCorrect == Spec => StalePassedOver
<1>1. ASSUME IInv, Next, batch # <<>>, pc \in {"read", "write"}
      PROVE  RightlyTaken(Head(batch))
    <2> DEFINE e == Head(batch)
    <2>1. e \in Event
          /\ e.instance = Bit(e.use) /\ e.use <= use[e.conn]
        BY <1>1 DEF IInv, BatchInv
    <2>2. instance[e.conn] = Bit(use[e.conn]) /\ use[e.conn] \in Nat
        BY <1>1, <2>1 DEF Event, IInv, BitInv, TypeOK
    <2>3. ~Stale(e) => Own(e) \/ use[e.conn] >= e.use + 2
        BY <2>1, <2>2, ParityOfBit DEF Event, Stale, Own
    <2>4. Own(e) => ~Stale(e)
        BY <2>1, <2>2 DEF Stale, Own
    <2>5. ReadPart \/ WritePart
        BY <1>1 DEF Next, HandlerStep, Get, GetDrained, Return, Close, Reusable, Add, Del,
                    Post, Handler, EpollWait, NextEvent, Timers, RunPosted
    <2> HIDE DEF e
    <2>6. Delivered => ~Stale(e)
        BY <2>5 DEF ReadPart, WritePart, Ready, Delivered, e
    <2>7. Own(e) /\ ~posts /\ pc = "read" => pc' # "next"
        BY <2>4, <2>5 DEF ReadPart, WritePart, Ready, e
    <2>8. Own(e) /\ ~posts /\ pc = "write" /\ "out" \in e.events \cap active[e.conn] => Delivered
        BY <2>4, <2>5 DEF ReadPart, WritePart, Ready, Delivered, e
    <2>9. RightlyTaken(e)
        BY <2>3, <2>6, <2>7, <2>8 DEF RightlyTaken
    <2> QED
        BY <2>9 DEF e
<1>2. IInv /\ [Next]_vars =>
          [batch # <<>> /\ pc \in {"read", "write"} => RightlyTaken(Head(batch))]_vars
    BY <1>1
<1> QED
    BY <1>2, InitIInv, StepKeeps, PTL DEF Spec, StalePassedOver
=============================================================================
