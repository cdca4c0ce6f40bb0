------------------------- MODULE NgxThreadPool_proofs -------------------------
(***************************************************************************)
(* For every set of threads and tasks, every limit and number of posts:    *)
(* the linked lists of the pool are what was linked into them (ListShape), *)
(* no wakeup is lost (NoStall), the pool is destroyed only behind its last *)
(* thread (DestroyedUnused), and all of it is a TaskService.               *)
(*                                                                         *)
(* A list is sound because its tasks are in no other list and in no thread *)
(* while somebody writes their next fields.  So the invariant says where   *)
(* each task is (Apart), what the lists are (Lists), and what each place   *)
(* implies for the task (Stages); wakeups are counted on top of that.      *)
(***************************************************************************)
EXTENDS NgxThreadPool, FiniteSetTheorems, SequenceTheorems, TLAPS

USE NgxThreadPoolAssumption

-----------------------------------------------------------------------------
(* Sequences without repetition *)

Elems(s) == {s[k] : k \in 1 .. Len(s)}
Once(s) == \A j, k \in 1 .. Len(s) : s[j] = s[k] => j = k

LEMMA AppendElems ==
  ASSUME NEW S, NEW s \in Seq(S), NEW t \in S
  PROVE  /\ Append(s, t) \in Seq(S) /\ Len(Append(s, t)) = Len(s) + 1
         /\ Append(s, t)[Len(s) + 1] = t
         /\ \A k \in 1 .. Len(s) : Append(s, t)[k] = s[k]
         /\ Elems(Append(s, t)) = Elems(s) \cup {t}
         /\ Once(s) /\ t \notin Elems(s) => Once(Append(s, t))
<1>1. /\ Append(s, t) \in Seq(S) /\ Len(Append(s, t)) = Len(s) + 1 /\ Len(s) \in Nat
      /\ Append(s, t)[Len(s) + 1] = t
      /\ \A k \in 1 .. Len(s) : Append(s, t)[k] = s[k]
  OBVIOUS
<1>2. 1 .. Len(s) + 1 = (1 .. Len(s)) \cup {Len(s) + 1}
  BY <1>1
<1>3. Elems(Append(s, t)) = Elems(s) \cup {t}
  BY <1>1, <1>2 DEF Elems
<1>4. Once(s) /\ t \notin Elems(s) => Once(Append(s, t))
  BY <1>1, <1>2 DEF Elems, Once
<1> QED BY <1>1, <1>3, <1>4

LEMMA TailElems ==
  ASSUME NEW S, NEW s \in Seq(S), s # <<>>
  PROVE  /\ Tail(s) \in Seq(S) /\ Len(Tail(s)) = Len(s) - 1 /\ Len(s) \in Nat \ {0}
         /\ s[1] \in S /\ s[1] \in Elems(s)
         /\ \A k \in 1 .. Len(s) - 1 : Tail(s)[k] = s[k + 1]
         /\ Once(s) => Once(Tail(s)) /\ Elems(Tail(s)) = Elems(s) \ {s[1]}
<1>1. /\ Tail(s) \in Seq(S) /\ Len(Tail(s)) = Len(s) - 1 /\ Len(s) \in Nat \ {0}
      /\ s[1] \in S
      /\ \A k \in 1 .. Len(s) - 1 : Tail(s)[k] = s[k + 1]
  OBVIOUS
<1>2. s[1] \in Elems(s)
  BY <1>1 DEF Elems
<1>3. ASSUME Once(s) PROVE Once(Tail(s))
  BY <1>1, <1>3 DEF Once
<1>4. ASSUME Once(s) PROVE Elems(Tail(s)) = Elems(s) \ {s[1]}
  <2>1. ASSUME NEW x \in Elems(Tail(s)) PROVE x \in Elems(s) \ {s[1]}
    <3>1. PICK k \in 1 .. Len(s) - 1 : x = s[k + 1]
      BY <1>1, <2>1 DEF Elems
    <3> QED BY <1>1, <1>4, <3>1 DEF Elems, Once
  <2>2. ASSUME NEW x \in Elems(s), x # s[1] PROVE x \in Elems(Tail(s))
    <3>1. PICK k \in 1 .. Len(s) : x = s[k]
      BY <2>2 DEF Elems
    <3>2. k - 1 \in 1 .. Len(s) - 1 /\ x = Tail(s)[k - 1]
      BY <1>1, <2>2, <3>1
    <3> QED BY <1>1, <3>2 DEF Elems
  <2> QED BY <2>1, <2>2
<1> QED BY <1>1, <1>2, <1>3, <1>4

-----------------------------------------------------------------------------
(* Linked lists *)

\* Spells, for the next fields nx.
Chain(nx, first, last, s) ==
    /\ first = IF s = <<>> THEN Null ELSE s[1]
    /\ last = IF s = <<>> THEN First ELSE s[Len(s)]
    /\ \A k \in 1 .. Len(s) : nx[s[k]] = IF k = Len(s) THEN Null ELSE s[k + 1]

Nexts == [AnyTask -> AnyTask \cup {Null}]

\* Both ends tell whether the list is empty.
LEMMA ChainEnds ==
  ASSUME NEW nx, NEW first, NEW last, NEW s \in Seq(AnyTask), Chain(nx, first, last, s)
  PROVE  /\ first = Null <=> s = <<>>
         /\ last = First <=> s = <<>>
         /\ s # <<>> => first \in Elems(s) /\ last \in Elems(s)
         /\ first \in AnyTask \cup {Null} /\ last \in AnyTask \cup {First}
<1>1. CASE s = <<>>
  BY <1>1 DEF Chain
<1>2. CASE s # <<>>
  <2>1. Len(s) \in Nat \ {0} /\ s[1] \in AnyTask /\ s[Len(s)] \in AnyTask
    BY <1>2
  <2> QED BY <1>2, <2>1 DEF Chain, Elems, AnyTask
<1> QED BY <1>1, <1>2

\* Who writes only next fields of other tasks leaves the list alone.
LEMMA ChainFrame ==
  ASSUME NEW nx, NEW nx2, NEW first, NEW last, NEW s, Chain(nx, first, last, s),
         \A t \in Elems(s) : nx2[t] = nx[t]
  PROVE  Chain(nx2, first, last, s)
  BY DEF Chain, Elems

\* *last = t; last = &t->next
LEMMA ChainAppend ==
  ASSUME NEW nx \in Nexts, NEW first, NEW last, NEW s \in Seq(AnyTask), NEW t \in AnyTask,
         Chain(nx, first, last, s), Once(s), t \notin Elems(s), nx[t] = Null
  PROVE  /\ Chain(Link(nx, last, t), IF last = First THEN t ELSE first, t, Append(s, t))
         /\ Link(nx, last, t) \in Nexts
         /\ \A u \in AnyTask \ Elems(s) : Link(nx, last, t)[u] = nx[u]
<1>1. last = First <=> s = <<>>
  BY ChainEnds
<1>2. CASE s = <<>>
  <2>1. Append(s, t) = <<t>>
    BY <1>2
  <2> QED BY <1>1, <1>2, <2>1 DEF Chain, Link
<1>3. CASE s # <<>>
  <2> DEFINE n == Len(s)
             a == Append(s, t)
  <2>1. n \in Nat \ {0} /\ last = s[n] /\ s[n] \in AnyTask /\ first = s[1]
    BY <1>3 DEF Chain
  <2>2. a # <<>> /\ Len(a) = n + 1 /\ a[n + 1] = t /\ a[1] = s[1]
        /\ \A k \in 1 .. n : a[k] = s[k]
    BY <1>3, <2>1, AppendElems
  <2>3. Link(nx, last, t) = [nx EXCEPT ![s[n]] = t]
    BY <1>1, <1>3, <2>1 DEF Link
  <2>4. ASSUME NEW k \in 1 .. n + 1
        PROVE  Link(nx, last, t)[a[k]] = IF k = n + 1 THEN Null ELSE a[k + 1]
    <3>1. CASE k = n + 1
      <4>1. t # s[n]
        BY <2>1 DEF Elems
      <4> QED BY <2>2, <2>3, <3>1, <4>1 DEF Nexts
    <3>2. CASE k = n
      BY <2>1, <2>2, <2>3, <3>2 DEF Nexts
    <3>3. CASE k < n
      <4>1. s[k] # s[n] /\ s[k] \in AnyTask
        BY <2>1, <3>3 DEF Once
      <4>2. nx[s[k]] = s[k + 1]
        BY <2>1, <3>3 DEF Chain
      <4> QED BY <2>1, <2>2, <2>3, <3>3, <4>1, <4>2 DEF Nexts
    <3> QED BY <2>1, <3>1, <3>2, <3>3
  <2>5. \A u \in AnyTask \ Elems(s) : Link(nx, last, t)[u] = nx[u]
    BY <2>1, <2>3 DEF Elems, Nexts
  <2>6. Link(nx, last, t) \in Nexts
    BY <2>3, Zenon DEF Nexts
  <2>7. last # First
    BY <1>1, <1>3
  <2> HIDE DEF a, n
  <2>8. Chain(Link(nx, last, t), first, t, a)
    BY <2>1, <2>2, <2>4 DEF Chain
  <2> QED BY <2>5, <2>6, <2>7, <2>8 DEF a
<1> QED BY <1>2, <1>3

\* first = first->next, with the end put right when that was the last one.
LEMMA ChainTail ==
  ASSUME NEW nx, NEW first, NEW last, NEW s \in Seq(AnyTask), Chain(nx, first, last, s),
         first # Null
  PROVE  /\ s # <<>> /\ first = s[1]
         /\ nx[first] = Null <=> Tail(s) = <<>>
         /\ Chain(nx, nx[first], IF nx[first] = Null THEN First ELSE last, Tail(s))
<1>1. s # <<>> /\ first = s[1] /\ last = s[Len(s)]
  BY DEF Chain
<1> DEFINE n == Len(s)
           r == Tail(s)
<1>2. /\ n \in Nat \ {0} /\ Len(r) = n - 1 /\ r \in Seq(AnyTask)
      /\ \A k \in 1 .. n - 1 : r[k] = s[k + 1]
  BY <1>1, TailElems
<1>3. r = <<>> <=> n = 1
  <2> HIDE DEF n, r
  <2>1. r = <<>> <=> Len(r) = 0
    BY <1>2
  <2> QED BY <1>2, <2>1
<1>0. \A k \in 1 .. n : nx[s[k]] = IF k = n THEN Null ELSE s[k + 1]
  BY DEF Chain
<1>4. nx[first] = IF n = 1 THEN Null ELSE s[2]
  <2>1. 1 \in 1 .. n /\ 1 + 1 = 2
    BY <1>2
  <2> QED BY <1>1, <1>0, <2>1
<1>5. n # 1 => s[2] \in AnyTask /\ s[2] # Null /\ r[1] = s[2] /\ r[n - 1] = s[n]
  BY <1>1, <1>2 DEF AnyTask
<1>6. ASSUME NEW k \in 1 .. n - 1 PROVE nx[r[k]] = IF k = n - 1 THEN Null ELSE r[k + 1]
  <2> HIDE DEF n, r
  <2>1. k + 1 \in 1 .. n /\ r[k] = s[k + 1]
    BY <1>2
  <2>2. ASSUME k # n - 1 PROVE r[k + 1] = s[k + 1 + 1]
    <3>1. k + 1 \in 1 .. n - 1
      BY <1>2, <2>2
    <3> QED BY <1>2, <3>1
  <2>3. k = n - 1 <=> k + 1 = n
    BY <1>2
  <2> QED BY <1>0, <2>1, <2>2, <2>3
<1>7. Chain(nx, nx[first], IF nx[first] = Null THEN First ELSE last, r)
  <2>1. nx[first] = Null <=> n = 1
    BY <1>4, <1>5
  <2>2. nx[first] = IF r = <<>> THEN Null ELSE r[1]
    BY <1>3, <1>4, <1>5
  <2>3. r # <<>> => last = r[Len(r)]
    BY <1>1, <1>2, <1>3, <1>5
  <2> HIDE DEF r, n
  <2> QED BY <1>2, <1>3, <1>6, <2>1, <2>2, <2>3 DEF Chain
<1>8. nx[first] = Null <=> r = <<>>
  BY <1>3, <1>4, <1>5
<1> QED BY <1>1, <1>7, <1>8

-----------------------------------------------------------------------------
(* The invariant *)

Held(w) == tpc[w] \in {"run", "finish", "append"}
Listed == Elems(queue) \cup Elems(done) \cup Elems(todo)
Placed(t) == t \in Listed \/ \E w \in Thread : Held(w) /\ ttask[w] = t

Types ==
    /\ next \in Nexts
    /\ active \in [AnyTask -> BOOLEAN]
    /\ waiting \in Int
    /\ notified \in BOOLEAN
    /\ tpc \in [Thread -> ThreadLabels]
    /\ ttask \in [Thread -> AnyTask \cup {Null}]
    /\ mpc \in MainLabels
    /\ exitLock \in {0, 1} /\ exitN \in Nat /\ posts \in Nat
    /\ queue \in Seq(AnyTask) /\ done \in Seq(AnyTask) /\ todo \in Seq(AnyTask)
    /\ ran \in [AnyTask -> Nat]

Lists ==
    /\ Chain(next, qfirst, qlast, queue)
    /\ Chain(next, dfirst, dlast, done)
    /\ Chain(next, mtask, IF todo = <<>> THEN First ELSE todo[Len(todo)], todo)

\* A task is in one place at a time.
Apart ==
    /\ Once(queue) /\ Once(done) /\ Once(todo)
    /\ Elems(queue) \cap Elems(done) = {} /\ Elems(queue) \cap Elems(todo) = {}
    /\ Elems(done) \cap Elems(todo) = {}
    /\ \A w \in Thread : Held(w) => ttask[w] \in AnyTask /\ ttask[w] \notin Listed
    /\ \A v, w \in Thread : Held(v) /\ Held(w) /\ ttask[v] = ttask[w] => v = w

\* The flag of a task says whether it is anywhere; the exit task is somewhere
\* only while the main thread spins for it.
Stages ==
    /\ \A t \in AnyTask : ~active[t] => ~Placed(t)
    /\ \A t \in Task : active[t] => Placed(t)
    /\ Exit \notin Elems(done) \cup Elems(todo)
    /\ \A w \in Thread : tpc[w] \in {"finish", "append"} => ttask[w] # Exit
    /\ Placed(Exit) => mpc = "exit_spin" /\ exitLock = 1
    /\ mpc \notin {"deliver", "handler"} => todo = <<>>
    /\ \A w \in Thread : tpc[w] = "append" => next[ttask[w]] = Null

Runs ==
    /\ \A t \in AnyTask : ran[t] <= 1
    /\ \A t \in Elems(queue) : ran[t] = 0
    /\ \A t \in Elems(done) \cup Elems(todo) : ran[t] = 1
    /\ \A w \in Thread : Held(w) => ran[ttask[w]] = IF tpc[w] = "run" THEN 0 ELSE 1

IInv == Types /\ Lists /\ Apart /\ Stages /\ Runs

LEMMA EmptyElems == Elems(<<>>) = {} /\ Once(<<>>)
  BY DEF Elems, Once

LEMMA ElemsType ==
  ASSUME NEW s \in Seq(AnyTask)
  PROVE  Elems(s) \subseteq AnyTask
  BY DEF Elems

LEMMA InitInv == Init => IInv
<1> SUFFICES ASSUME Init PROVE IInv
  OBVIOUS
<1> USE DEF Init
<1>1. Types
  <2>1. queue \in Seq(AnyTask) /\ done \in Seq(AnyTask) /\ todo \in Seq(AnyTask)
    OBVIOUS
  <2>2. next \in Nexts /\ active \in [AnyTask -> BOOLEAN] /\ ran \in [AnyTask -> Nat]
    BY DEF Nexts
  <2>3. tpc \in [Thread -> ThreadLabels] /\ ttask \in [Thread -> AnyTask \cup {Null}]
    BY DEF ThreadLabels
  <2>4. waiting \in Int /\ exitLock \in {0, 1} /\ exitN \in Nat /\ posts \in Nat
    OBVIOUS
  <2>5. notified \in BOOLEAN
    OBVIOUS
  <2>6. mpc \in MainLabels
    BY DEF MainLabels
  <2> HIDE DEF Init
  <2> QED BY <2>1, <2>2, <2>3, <2>4, <2>5, <2>6 DEF Types
<1>2. Lists
  BY DEF Lists, Chain
<1>3. Apart /\ Stages /\ Runs
  BY EmptyElems DEF Apart, Stages, Runs, Placed, Listed, Held, AnyTask
<1> QED BY <1>1, <1>2, <1>3 DEF IInv

-----------------------------------------------------------------------------
(* The steps *)

\* Steps that move no task, write no next field and do not count a run.
LEMMA StillInv ==
  ASSUME IInv, Types',
         UNCHANGED <<next, qfirst, qlast, queue, dfirst, dlast, done, mtask, todo, ran>>,
         \A w \in Thread : /\ Held(w)' <=> Held(w)
                           /\ Held(w) => tpc'[w] = tpc[w] /\ ttask'[w] = ttask[w],
         \A t \in Task : active'[t] = active[t],
         active'[Exit] = active[Exit] \/ (~active'[Exit] /\ ~Placed(Exit)),
         Placed(Exit) => mpc' = mpc /\ exitLock' = exitLock,
         mpc' \notin {"deliver", "handler"} => todo = <<>>
  PROVE  IInv'
<1>1. Lists'
  BY DEF IInv, Lists, Chain
<1>2. Apart'
  <2>1. /\ Elems(queue)' = Elems(queue) /\ Elems(done)' = Elems(done)
        /\ Elems(todo)' = Elems(todo) /\ (Once(queue) => Once(queue)')
        /\ (Once(done) => Once(done)') /\ (Once(todo) => Once(todo)')
    BY DEF Elems, Once
  <2> QED BY <2>1 DEF IInv, Apart, Listed
<1>3. Listed' = Listed /\ \A t \in AnyTask : (Placed(t)' <=> Placed(t))
  BY DEF Placed, Listed, Elems
<1>4. Stages'
  <2>1. Exit \in AnyTask /\ AnyTask = Task \cup {Exit}
    BY DEF AnyTask
  <2>2. Elems(done)' = Elems(done) /\ Elems(todo)' = Elems(todo)
    BY DEF Elems
  <2>3. \A w \in Thread : tpc'[w] \in {"finish", "append"} => tpc[w] = tpc'[w] /\ ttask'[w] = ttask[w]
    BY DEF Held
  <2> QED BY <1>3, <2>1, <2>2, <2>3 DEF IInv, Stages
<1>5. Runs'
  BY DEF IInv, Runs, Elems
<1> QED BY <1>1, <1>2, <1>4, <1>5 DEF IInv

\* pthread_cond_signal() moves a thread that has no task.
LEMMA SignalKeeps ==
  ASSUME Types, Signal
  PROVE  /\ tpc' \in [Thread -> ThreadLabels]
         /\ \A w \in Thread : (Held(w)' <=> Held(w)) /\ (Held(w) => tpc'[w] = tpc[w])
<1>1. CASE UNCHANGED tpc
  BY <1>1 DEF Types, Held
<1>2. ASSUME NEW v \in Waiters, tpc' = [tpc EXCEPT ![v] = "woken"]
      PROVE  /\ tpc' \in [Thread -> ThreadLabels]
             /\ \A w \in Thread : (Held(w)' <=> Held(w)) /\ (Held(w) => tpc'[w] = tpc[w])
  BY <1>2 DEF Types, Waiters, Held, ThreadLabels
<1> QED BY <1>1, <1>2 DEF Signal, Goto

\* ngx_thread_task_post(): an inactive task is nowhere, so its next field and
\* the last one of the queue are nobody else's.
LEMMA PostInv ==
  ASSUME IInv, NEW t \in AnyTask, PostTask(t), UNCHANGED <<mtask, todo>>,
         exitN' \in Nat, posts' \in Nat, mpc' \in MainLabels, exitLock' \in {0, 1},
         mpc' \notin {"deliver", "handler"} => todo = <<>>,
         t = Exit => mpc' = "exit_spin" /\ exitLock' = 1,
         t # Exit => ~Placed(Exit)
  PROVE  IInv'
<1> DEFINE nx == [next EXCEPT ![t] = Null]
<1>1. /\ ~active[t] /\ active' = [active EXCEPT ![t] = TRUE]
      /\ next' = Link(nx, qlast, t)
      /\ qfirst' = (IF qlast = First THEN t ELSE qfirst) /\ qlast' = t
      /\ queue' = Append(queue, t) /\ waiting' = waiting + 1
      /\ ran' = [ran EXCEPT ![t] = 0]
      /\ UNCHANGED <<dfirst, dlast, done, notified, ttask>>
  BY DEF PostTask, CanPost, Enqueue, doneVars
<1>2. /\ tpc' \in [Thread -> ThreadLabels]
      /\ \A w \in Thread : (Held(w)' <=> Held(w)) /\ (Held(w) => tpc'[w] = tpc[w])
  BY SignalKeeps DEF PostTask, IInv
<1>3. ~Placed(t)
  BY <1>1 DEF IInv, Stages
<1>4. t \notin Elems(queue) /\ t \notin Elems(done) /\ t \notin Elems(todo)
      /\ \A w \in Thread : Held(w) => ttask[w] # t
  BY <1>3 DEF Placed, Listed
<1>5. nx \in Nexts /\ nx[t] = Null /\ \A u \in AnyTask \ {t} : nx[u] = next[u]
  BY DEF IInv, Types, Nexts
<1>6. /\ queue \in Seq(AnyTask) /\ done \in Seq(AnyTask) /\ todo \in Seq(AnyTask)
      /\ Elems(queue) \subseteq AnyTask /\ Elems(done) \subseteq AnyTask
      /\ Elems(todo) \subseteq AnyTask
  BY ElemsType DEF IInv, Types
<1>7. Chain(nx, qfirst, qlast, queue)
  BY <1>4, <1>5, <1>6, ChainFrame DEF IInv, Lists
<1>8. /\ Chain(next', qfirst', qlast', queue')
      /\ next' \in Nexts
      /\ \A u \in AnyTask \ Elems(queue) : next'[u] = nx[u]
  <2>1. Once(queue)
    BY DEF IInv, Apart
  <2> HIDE DEF nx
  <2> QED BY <1>1, <1>4, <1>5, <1>6, <1>7, <2>1, ChainAppend
<1>9. \A u \in AnyTask \ (Elems(queue) \cup {t}) : next'[u] = next[u]
  BY <1>5, <1>8
<1>10. /\ queue' \in Seq(AnyTask) /\ Elems(queue') = Elems(queue) \cup {t} /\ Once(queue')
  BY <1>1, <1>4, <1>6, AppendElems DEF IInv, Apart
<1>11. Types'
  BY <1>1, <1>2, <1>8, <1>10 DEF IInv, Types
<1>12. Lists'
  <2>1. Chain(next', dfirst, dlast, done)
    BY <1>4, <1>6, <1>9, ChainFrame DEF IInv, Lists, Apart
  <2>2. Chain(next', mtask, IF todo = <<>> THEN First ELSE todo[Len(todo)], todo)
    BY <1>4, <1>6, <1>9, ChainFrame DEF IInv, Lists, Apart
  <2> QED BY <1>1, <1>8, <2>1, <2>2 DEF Lists
<1>13. Listed' = Listed \cup {t}
  BY <1>1, <1>10 DEF Listed, Elems
<1>14. Apart'
  BY <1>1, <1>2, <1>4, <1>10, <1>13 DEF IInv, Apart
<1>15. \A u \in AnyTask : Placed(u)' <=> Placed(u) \/ u = t
  BY <1>1, <1>2, <1>13 DEF Placed
<1>16. Stages'
  <2>1. \A u \in AnyTask : ~active'[u] => ~Placed(u)'
    BY <1>1, <1>15 DEF IInv, Types, Stages
  <2>2. \A u \in Task : active'[u] => Placed(u)'
    BY <1>1, <1>15 DEF IInv, Types, Stages, AnyTask
  <2>3. Placed(Exit)' => mpc' = "exit_spin" /\ exitLock' = 1
    BY <1>15 DEF AnyTask
  <2>4. \A w \in Thread : tpc'[w] \in {"finish", "append"}
                => Held(w) /\ tpc[w] = tpc'[w] /\ ttask'[w] = ttask[w]
    BY <1>1, <1>2 DEF Held
  <2>5. \A w \in Thread : tpc'[w] = "append" => next'[ttask'[w]] = Null
    BY <1>4, <1>9, <2>4 DEF IInv, Apart, Listed, Stages
  <2>6. Exit \notin Elems(done') \cup Elems(todo')
    BY <1>1 DEF IInv, Stages
  <2> QED BY <2>1, <2>2, <2>3, <2>4, <2>5, <2>6 DEF IInv, Stages
<1>17. Runs'
  BY <1>1, <1>2, <1>4, <1>6, <1>10 DEF IInv, Types, Runs, Apart
<1> QED BY <1>11, <1>12, <1>14, <1>16, <1>17 DEF IInv

\* The head of the queue goes to the thread that took it.
LEMMA DequeueInv ==
  ASSUME IInv, NEW w \in Thread, tpc[w] \in {"top", "woken"}, Dequeue(w), waiting' \in Int,
         UNCHANGED <<next, active, doneVars, notified, mainVars, ran>>
  PROVE  IInv'
<1> DEFINE t == qfirst
<1>1. /\ t # Null /\ ttask' = [ttask EXCEPT ![w] = t] /\ queue' = Tail(queue)
      /\ qfirst' = next[t] /\ qlast' = (IF next[t] = Null THEN First ELSE qlast)
      /\ tpc' = [tpc EXCEPT ![w] = "run"]
      /\ UNCHANGED <<next, active, dfirst, dlast, done, notified, mpc, mtask, todo,
                     exitLock, exitN, posts, ran>>
  BY DEF Dequeue, Goto, doneVars, mainVars
<1>2. queue # <<>> /\ t = queue[1] /\ Chain(next, qfirst', qlast', queue')
  BY <1>1, ChainTail DEF IInv, Types, Lists
<1>3. /\ queue' \in Seq(AnyTask) /\ Once(queue') /\ Elems(queue') = Elems(queue) \ {t}
      /\ t \in AnyTask /\ t \in Elems(queue)
  BY <1>1, <1>2, TailElems DEF IInv, Types, Apart
<1>4. ttask'[w] = t /\ tpc'[w] = "run" /\ ~Held(w)
      /\ \A v \in Thread \ {w} : tpc'[v] = tpc[v] /\ ttask'[v] = ttask[v]
  BY <1>1 DEF IInv, Types, Held
<1> HIDE DEF t
<1>5. t \notin Elems(done) /\ t \notin Elems(todo)
      /\ \A v \in Thread : Held(v) => ttask[v] # t
  BY <1>3 DEF IInv, Apart, Listed
<1>6. Types'
  BY <1>1, <1>3 DEF IInv, Types, ThreadLabels
<1>7. Lists'
  BY <1>1, <1>2 DEF IInv, Lists
<1>8. Listed' = Listed \ {t} /\ t \in Listed
  BY <1>1, <1>3, <1>5 DEF Listed
<1>9. \A v \in Thread : Held(v)' <=> Held(v) \/ v = w
  BY <1>4 DEF Held
<1>10. Apart'
  BY <1>1, <1>3, <1>4, <1>5, <1>8, <1>9 DEF IInv, Apart
<1>11. \A u \in AnyTask : Placed(u)' <=> Placed(u)
  BY <1>3, <1>4, <1>8, <1>9 DEF Placed
<1>12. Stages'
  <2>1. Exit \in AnyTask /\ Task \subseteq AnyTask
    BY DEF AnyTask
  <2>2. \A v \in Thread : tpc'[v] \in {"finish", "append"}
            => v # w /\ tpc'[v] = tpc[v] /\ ttask'[v] = ttask[v]
    BY <1>4
  <2> QED BY <1>1, <1>11, <2>1, <2>2 DEF IInv, Stages
<1>13. Runs'
  BY <1>1, <1>3, <1>4, <1>9 DEF IInv, Runs
<1> QED BY <1>6, <1>7, <1>10, <1>12, <1>13 DEF IInv

\* The handler of a task runs once; the one of the exit task ends the thread.
LEMMA RunInv ==
  ASSUME IInv, NEW w \in Thread, Run(w)
  PROVE  IInv'
<1> DEFINE t == ttask[w]
<1>1. /\ tpc[w] = "run" /\ ran' = [ran EXCEPT ![t] = @ + 1]
      /\ tpc' = [tpc EXCEPT ![w] = IF t = Exit THEN "exited" ELSE "finish"]
      /\ exitLock' = IF t = Exit THEN 0 ELSE exitLock
      /\ UNCHANGED <<next, active, poolVars, doneVars, notified, ttask, mpc, mtask, todo,
                     exitN, posts>>
  BY DEF Run, Goto
<1>2. UNCHANGED <<qfirst, qlast, waiting, queue, dfirst, dlast, done>>
  BY <1>1 DEF poolVars, doneVars
<1>3. /\ t \in AnyTask /\ t \notin Elems(queue) /\ t \notin Elems(done)
      /\ t \notin Elems(todo) /\ Held(w) /\ ran[t] = 0
      /\ \A v \in Thread \ {w} : Held(v) => ttask[v] # t
  BY <1>1 DEF IInv, Apart, Listed, Held, Runs
<1> HIDE DEF t
<1>4. tpc'[w] = (IF t = Exit THEN "exited" ELSE "finish") /\ ttask[w] = t
      /\ \A v \in Thread \ {w} : tpc'[v] = tpc[v]
  BY <1>1 DEF IInv, Types, t
<1>5. \A v \in Thread : Held(v)' <=> Held(v) /\ (v = w => t # Exit)
  BY <1>3, <1>4 DEF Held
<1>6. ran'[t] = 1 /\ \A u \in AnyTask \ {t} : ran'[u] = ran[u]
  BY <1>1, <1>3 DEF IInv, Types
<1>7. Types'
  <2>1. tpc' \in [Thread -> ThreadLabels]
    BY <1>1 DEF IInv, Types, ThreadLabels
  <2>2. ran' \in [AnyTask -> Nat]
    <3>1. ran[t] + 1 \in Nat
      BY <1>3
    <3> QED BY <1>1, <3>1 DEF IInv, Types
  <2>3. exitLock' \in {0, 1}
    BY <1>1 DEF IInv, Types
  <2> QED BY <1>1, <1>2, <2>1, <2>2, <2>3 DEF IInv, Types
<1>8. Lists'
  BY <1>1, <1>2 DEF IInv, Lists
<1>9. Listed' = Listed
  BY <1>1, <1>2 DEF Listed
<1>10. Apart'
  BY <1>1, <1>2, <1>5, <1>9 DEF IInv, Apart
<1>11. \A u \in AnyTask : Placed(u)' <=> Placed(u) /\ ~(u = Exit /\ t = Exit)
  <2>1. t = Exit => t \notin Listed
    BY <1>3 DEF Listed
  <2> QED BY <1>1, <1>3, <1>4, <1>5, <1>9, <2>1 DEF Placed
<1>12. Stages'
  <2>1. Exit \in AnyTask /\ Task \subseteq AnyTask /\ Exit \notin Task
    BY DEF AnyTask
  <2>2. \A v \in Thread : tpc'[v] \in {"finish", "append"}
            => IF v = w THEN t # Exit /\ tpc'[v] = "finish" ELSE tpc'[v] = tpc[v]
    BY <1>4
  <2>3. Placed(Exit)' => mpc' = "exit_spin" /\ exitLock' = 1
    BY <1>1, <1>11, <2>1 DEF IInv, Stages
  <2> QED BY <1>1, <1>2, <1>4, <1>11, <2>1, <2>2, <2>3 DEF IInv, Stages
<1>13. Runs'
  <2>1. \A u \in AnyTask : ran'[u] <= 1
    BY <1>6 DEF IInv, Runs
  <2>2. /\ \A u \in Elems(queue) : ran'[u] = 0
        /\ \A u \in Elems(done) \cup Elems(todo) : ran'[u] = 1
    BY <1>3, <1>6, ElemsType DEF IInv, Types, Runs
  <2>3. ASSUME NEW v \in Thread, Held(v)'
        PROVE  ran'[ttask[v]] = IF tpc'[v] = "run" THEN 0 ELSE 1
    BY <1>3, <1>4, <1>5, <1>6, <2>3 DEF IInv, Runs, Apart
  <2> QED BY <1>1, <1>2, <2>1, <2>2, <2>3 DEF Runs
<1> QED BY <1>7, <1>8, <1>10, <1>12, <1>13 DEF IInv

\* task->next = NULL without a lock: the task is in no list any more.
LEMMA FinishInv ==
  ASSUME IInv, NEW w \in Thread, Finish(w)
  PROVE  IInv'
<1> DEFINE t == ttask[w]
<1>1. /\ tpc[w] = "finish" /\ next' = [next EXCEPT ![t] = Null]
      /\ tpc' = [tpc EXCEPT ![w] = "append"]
      /\ UNCHANGED <<active, qfirst, qlast, waiting, queue, dfirst, dlast, done, notified,
                     ttask, mpc, mtask, todo, exitLock, exitN, posts, ran>>
  BY DEF Finish, Goto, poolVars, doneVars, mainVars
<1>2. /\ t \in AnyTask /\ t \notin Elems(queue) /\ t \notin Elems(done)
      /\ t \notin Elems(todo) /\ Held(w)
      /\ \A v \in Thread \ {w} : Held(v) => ttask[v] # t /\ ttask[v] \in AnyTask
  BY <1>1 DEF IInv, Apart, Listed, Held
<1>3. tpc'[w] = "append" /\ \A v \in Thread \ {w} : tpc'[v] = tpc[v]
  BY <1>1 DEF IInv, Types
<1>4. next'[t] = Null /\ \A u \in AnyTask \ {t} : next'[u] = next[u]
  BY <1>1, <1>2 DEF IInv, Types, Nexts
<1>5. \A v \in Thread : Held(v)' <=> Held(v)
  BY <1>2, <1>3 DEF Held
<1>6. Types'
  <2>1. next' \in Nexts
    BY <1>1 DEF IInv, Types, Nexts
  <2>2. tpc' \in [Thread -> ThreadLabels]
    BY <1>1 DEF IInv, Types, ThreadLabels
  <2> QED BY <1>1, <2>1, <2>2 DEF IInv, Types
<1>7. Lists'
  <2>1. Elems(queue) \subseteq AnyTask /\ Elems(done) \subseteq AnyTask
        /\ Elems(todo) \subseteq AnyTask
    BY ElemsType DEF IInv, Types
  <2> HIDE DEF t
  <2>2. Chain(next', qfirst, qlast, queue)
    BY <1>2, <1>4, <2>1, ChainFrame DEF IInv, Lists
  <2>3. Chain(next', dfirst, dlast, done)
    BY <1>2, <1>4, <2>1, ChainFrame DEF IInv, Lists
  <2>4. Chain(next', mtask, IF todo = <<>> THEN First ELSE todo[Len(todo)], todo)
    BY <1>2, <1>4, <2>1, ChainFrame DEF IInv, Lists
  <2> QED BY <1>1, <2>2, <2>3, <2>4 DEF Lists
<1>8. Listed' = Listed /\ \A u \in AnyTask : Placed(u)' <=> Placed(u)
  BY <1>1, <1>5 DEF Placed, Listed
<1>9. Apart'
  BY <1>1, <1>5, <1>8 DEF IInv, Apart
<1>10. Stages'
  <2>1. Exit \in AnyTask /\ Task \subseteq AnyTask
    BY DEF AnyTask
  <2>2. ASSUME NEW v \in Thread, tpc'[v] = "append" PROVE next'[ttask[v]] = Null
    BY <1>2, <1>3, <1>4, <2>2 DEF IInv, Stages, Held
  <2>3. \A v \in Thread : tpc'[v] \in {"finish", "append"} => ttask[v] # Exit
    BY <1>1, <1>3 DEF IInv, Stages
  <2> QED BY <1>1, <1>8, <2>1, <2>2, <2>3 DEF IInv, Stages
<1>11. Runs'
  BY <1>1, <1>3, <1>5 DEF IInv, Runs
<1> QED BY <1>6, <1>7, <1>9, <1>10, <1>11 DEF IInv

\* The task becomes the last of the done list.
LEMMA AppendDoneInv ==
  ASSUME IInv, NEW w \in Thread, AppendDone(w)
  PROVE  IInv'
<1> DEFINE t == ttask[w]
<1>1. /\ tpc[w] = "append" /\ next' = Link(next, dlast, t)
      /\ dfirst' = (IF dlast = First THEN t ELSE dfirst) /\ dlast' = t
      /\ done' = Append(done, t) /\ ttask' = [ttask EXCEPT ![w] = Null]
      /\ tpc' = [tpc EXCEPT ![w] = "notify"]
      /\ UNCHANGED <<active, qfirst, qlast, waiting, queue, notified, mpc, mtask, todo,
                     exitLock, exitN, posts, ran>>
  BY DEF AppendDone, Goto, poolVars, mainVars
<1>2. /\ t \in AnyTask /\ t \notin Elems(queue) /\ t \notin Elems(done)
      /\ t \notin Elems(todo) /\ Held(w) /\ next[t] = Null /\ t # Exit /\ ran[t] = 1
      /\ \A v \in Thread \ {w} : Held(v) => ttask[v] # t /\ ttask[v] \in AnyTask
  BY <1>1 DEF IInv, Apart, Listed, Held, Stages, Runs
<1>3. tpc'[w] = "notify" /\ ttask[w] = t
      /\ \A v \in Thread \ {w} : tpc'[v] = tpc[v] /\ ttask'[v] = ttask[v]
  BY <1>1 DEF IInv, Types
<1> HIDE DEF t
<1>4. \A v \in Thread : Held(v)' <=> Held(v) /\ v # w
  BY <1>3 DEF Held
<1>5. /\ queue \in Seq(AnyTask) /\ done \in Seq(AnyTask) /\ todo \in Seq(AnyTask)
      /\ Elems(queue) \subseteq AnyTask /\ Elems(done) \subseteq AnyTask
      /\ Elems(todo) \subseteq AnyTask
  BY ElemsType DEF IInv, Types
<1>6. /\ Chain(next', dfirst', dlast', done')
      /\ next' \in Nexts
      /\ \A u \in AnyTask \ Elems(done) : next'[u] = next[u]
  <2>1. Once(done) /\ Chain(next, dfirst, dlast, done) /\ next \in Nexts
    BY DEF IInv, Apart, Lists, Types
  <2> QED BY <1>1, <1>2, <1>5, <2>1, ChainAppend
<1>7. /\ done' \in Seq(AnyTask) /\ Elems(done') = Elems(done) \cup {t} /\ Once(done')
  BY <1>1, <1>2, <1>5, AppendElems DEF IInv, Apart
<1>8. Types'
  <2>1. tpc' \in [Thread -> ThreadLabels]
    BY <1>1 DEF IInv, Types, ThreadLabels
  <2>2. ttask' \in [Thread -> AnyTask \cup {Null}]
    BY <1>1 DEF IInv, Types
  <2> QED BY <1>1, <1>6, <1>7, <2>1, <2>2 DEF IInv, Types
<1>9. Lists'
  <2>1. Chain(next', qfirst, qlast, queue)
    BY <1>5, <1>6, ChainFrame DEF IInv, Lists, Apart
  <2>2. Chain(next', mtask, IF todo = <<>> THEN First ELSE todo[Len(todo)], todo)
    BY <1>5, <1>6, ChainFrame DEF IInv, Lists, Apart
  <2> QED BY <1>1, <1>6, <2>1, <2>2 DEF Lists
<1>10. Listed' = Listed \cup {t}
  BY <1>1, <1>7 DEF Listed
<1>11. Apart'
  BY <1>1, <1>2, <1>3, <1>4, <1>7, <1>10 DEF IInv, Apart
<1>12. \A u \in AnyTask : Placed(u)' <=> Placed(u)
  <2>1. ASSUME NEW u \in AnyTask, Placed(u) PROVE Placed(u)'
    BY <1>3, <1>4, <1>10, <2>1 DEF Placed
  <2>2. ASSUME NEW u \in AnyTask, Placed(u)' PROVE Placed(u)
    BY <1>2, <1>3, <1>4, <1>10, <2>2 DEF Placed
  <2> QED BY <2>1, <2>2
<1>13. Stages'
  <2>1. Exit \in AnyTask /\ Task \subseteq AnyTask
    BY DEF AnyTask
  <2>2. ASSUME NEW v \in Thread, tpc'[v] \in {"finish", "append"}
        PROVE  /\ v # w /\ Held(v) /\ tpc'[v] = tpc[v] /\ ttask'[v] = ttask[v]
               /\ ttask'[v] # Exit /\ ttask[v] \in AnyTask /\ ttask[v] \notin Elems(done)
    BY <1>3, <2>2 DEF IInv, Stages, Held, Apart, Listed
  <2>3. ASSUME NEW v \in Thread, tpc'[v] = "append" PROVE next'[ttask'[v]] = Null
    BY <1>6, <2>2, <2>3 DEF IInv, Stages
  <2>4. Exit \notin Elems(done') \cup Elems(todo')
    BY <1>1, <1>2, <1>7 DEF IInv, Stages
  <2> QED BY <1>1, <1>12, <2>1, <2>2, <2>3, <2>4 DEF IInv, Stages
<1>14. Runs'
  BY <1>1, <1>2, <1>3, <1>4, <1>7 DEF IInv, Runs
<1> QED BY <1>8, <1>9, <1>11, <1>13, <1>14 DEF IInv

\* The done list becomes the list to complete, which was empty.
LEMMA TakeDoneInv ==
  ASSUME IInv, TakeDone
  PROVE  IInv'
<1>1. /\ mpc = "take" /\ mpc' = "deliver" /\ mtask' = dfirst /\ dfirst' = Null
      /\ dlast' = First /\ todo' = done /\ done' = <<>>
      /\ UNCHANGED <<next, active, qfirst, qlast, waiting, queue, notified, tpc, ttask,
                     exitLock, exitN, posts, ran>>
  BY DEF TakeDone, poolVars
<1>2. todo = <<>>
  BY <1>1 DEF IInv, Stages
<1>3. /\ Elems(queue') = Elems(queue) /\ Elems(todo') = Elems(done) /\ Elems(todo) = {}
      /\ Elems(done') = {} /\ Once(done')
  BY <1>1, <1>2, EmptyElems
<1>4. Types'
  <2>1. done' \in Seq(AnyTask)
    BY <1>1
  <2> QED BY <1>1, <2>1 DEF IInv, Types, MainLabels
<1>5. Lists'
  BY <1>1 DEF IInv, Lists, Chain
<1>6. Listed' = Listed /\ \A v \in Thread : Held(v)' <=> Held(v)
  BY <1>1, <1>3 DEF Listed, Held
<1>7. Apart'
  BY <1>1, <1>3, <1>6 DEF IInv, Apart
<1>8. \A u \in AnyTask : Placed(u)' <=> Placed(u)
  BY <1>1, <1>6 DEF Placed
<1>9. Stages'
  <2>1. Exit \in AnyTask /\ Task \subseteq AnyTask
    BY DEF AnyTask
  <2>2. ~Placed(Exit)
    BY <1>1 DEF IInv, Stages
  <2> QED BY <1>1, <1>3, <1>8, <2>1, <2>2 DEF IInv, Stages
<1>10. Runs'
  BY <1>1, <1>3, <1>6 DEF IInv, Runs
<1> QED BY <1>4, <1>5, <1>7, <1>9, <1>10 DEF IInv

\* The handler reads task->next before it calls the task's event handler.
LEMMA DeliverInv ==
  ASSUME IInv, Deliver
  PROVE  IInv'
<1>1. mpc = "deliver"
      /\ UNCHANGED <<next, qfirst, qlast, waiting, queue, dfirst, dlast, done, notified, tpc,
                     ttask, exitLock, exitN, posts, ran>>
  BY DEF Deliver, poolVars, doneVars
<1>2. CASE mtask = Null
  <2>1. mpc' = "loop" /\ UNCHANGED <<mtask, active, todo>>
    BY <1>2 DEF Deliver
  <2>2. todo = <<>> /\ ~Placed(Exit)
    BY <1>1, <1>2, ChainEnds DEF IInv, Types, Lists, Stages
  <2>3. Types'
    BY <1>1, <2>1 DEF IInv, Types, MainLabels
  <2>4. \A v \in Thread : Held(v)' <=> Held(v)
    BY <1>1 DEF Held
  <2> QED BY <1>1, <2>1, <2>2, <2>3, <2>4, StillInv
<1>3. CASE mtask # Null
  <2> DEFINE t == mtask
  <2>1. /\ mpc' = "handler" /\ mtask' = next[t] /\ todo' = Tail(todo)
        /\ active' = [active EXCEPT ![t] = FALSE]
    BY <1>3 DEF Deliver
  <2>2. /\ todo # <<>> /\ t = todo[1]
        /\ Chain(next, next[t],
                 IF next[t] = Null THEN First ELSE todo[Len(todo)], Tail(todo))
        /\ next[t] = Null <=> Tail(todo) = <<>>
    <3>1. todo \in Seq(AnyTask)
      BY DEF IInv, Types
    <3>2. Chain(next, mtask, IF todo = <<>> THEN First ELSE todo[Len(todo)], todo)
      BY DEF IInv, Lists
    <3>3. todo # <<>>
      BY <1>3, <3>1, <3>2, ChainTail
    <3>4. Chain(next, mtask, todo[Len(todo)], todo)
      BY <3>2, <3>3
    <3> QED BY <1>3, <3>1, <3>3, <3>4, ChainTail
  <2>3. /\ todo' \in Seq(AnyTask) /\ Once(todo') /\ Elems(todo') = Elems(todo) \ {t}
        /\ t \in AnyTask /\ t \in Elems(todo)
    <3>1. todo \in Seq(AnyTask) /\ Once(todo)
      BY DEF IInv, Types, Apart
    <3>2. /\ Tail(todo) \in Seq(AnyTask) /\ todo[1] \in AnyTask /\ todo[1] \in Elems(todo)
          /\ Once(Tail(todo)) /\ Elems(Tail(todo)) = Elems(todo) \ {todo[1]}
      BY <2>2, <3>1, TailElems
    <3> QED BY <2>1, <2>2, <3>2
  <2>4. todo' # <<>> => todo'[Len(todo')] = todo[Len(todo)]
    <3>1. Len(Tail(todo)) = Len(todo) - 1 /\ Len(todo) \in Nat \ {0}
          /\ \A k \in 1 .. Len(todo) - 1 : Tail(todo)[k] = todo[k + 1]
      BY <2>2, TailElems DEF IInv, Types
    <3>2. ASSUME todo' # <<>> PROVE Len(todo) - 1 \in 1 .. Len(todo) - 1
      BY <2>1, <2>3, <3>1, <3>2
    <3> QED BY <2>1, <3>1, <3>2
  <2>5. t # Exit /\ t \notin Elems(queue) /\ t \notin Elems(done)
        /\ \A v \in Thread : Held(v) => ttask[v] # t
    BY <2>3 DEF IInv, Stages, Apart, Listed
  <2>6. Types'
    <3>1. active' \in [AnyTask -> BOOLEAN]
      BY <2>1 DEF IInv, Types
    <3> QED BY <1>1, <2>1, <2>3, <3>1 DEF IInv, Types, MainLabels
  <2>7. Lists'
    BY <1>1, <2>1, <2>2, <2>4 DEF IInv, Lists
  <2>8. Listed' = Listed \ {t}
    BY <1>1, <2>3, <2>5 DEF Listed
  <2>9. \A v \in Thread : Held(v)' <=> Held(v)
    BY <1>1 DEF Held
  <2>10. Apart'
    BY <1>1, <2>3, <2>8, <2>9 DEF IInv, Apart
  <2>11. \A u \in AnyTask : Placed(u)' <=> Placed(u) /\ u # t
    BY <1>1, <2>5, <2>8, <2>9 DEF Placed
  <2>12. Stages'
    <3>1. Exit \in AnyTask /\ Task \subseteq AnyTask
      BY DEF AnyTask
    <3>2. \A u \in AnyTask : active'[u] = (IF u = t THEN FALSE ELSE active[u])
      BY <2>1, <2>3 DEF IInv, Types
    <3>3. ~Placed(Exit)
      BY <1>1 DEF IInv, Stages
    <3> HIDE DEF t
    <3> QED BY <1>1, <2>1, <2>3, <2>11, <3>1, <3>2, <3>3 DEF IInv, Stages
  <2>13. Runs'
    BY <1>1, <2>3, <2>9 DEF IInv, Runs
  <2> QED BY <2>6, <2>7, <2>10, <2>12, <2>13 DEF IInv
<1> QED BY <1>2, <1>3

\* The other steps of the threads.
LEMMA ThreadStillInv ==
  ASSUME IInv, NEW w \in Thread,
         ((Top(w) \/ Recheck(w)) /\ CondWait(w)) \/ SpuriousWakeup(w) \/ Notify(w)
  PROVE  IInv'
<1>1. /\ UNCHANGED <<next, active, qfirst, qlast, queue, dfirst, dlast, done, ttask, mpc,
                     mtask, todo, exitLock, exitN, posts, ran>>
      /\ tpc[w] \in {"top", "wait", "woken", "notify"}
      /\ \E l \in {"wait", "woken", "top"} : tpc' = [tpc EXCEPT ![w] = l]
  BY DEF Top, Recheck, CondWait, SpuriousWakeup, Notify, Goto, poolVars, doneVars, mainVars
<1>2. waiting' \in Int
  BY DEF Top, Recheck, CondWait, SpuriousWakeup, Notify, poolVars, IInv, Types
<1>3. notified' \in BOOLEAN
  BY DEF Top, Recheck, CondWait, SpuriousWakeup, Notify, IInv, Types
<1>4. Types'
  BY <1>1, <1>2, <1>3 DEF IInv, Types, ThreadLabels
<1>5. \A v \in Thread : (Held(v)' <=> Held(v)) /\ (Held(v) => tpc'[v] = tpc[v])
  BY <1>1 DEF IInv, Types, Held
<1> QED BY <1>1, <1>4, <1>5, StillInv DEF IInv, Stages

LEMMA ThreadInv ==
  ASSUME IInv, NEW w \in Thread, ThreadStep(w) \/ SpuriousWakeup(w)
  PROVE  IInv'
<1>1. CASE (Top(w) \/ Recheck(w)) /\ Dequeue(w)
  <2>1. waiting' \in Int
    BY <1>1 DEF Top, Recheck, IInv, Types
  <2> QED BY <1>1, <2>1, DequeueInv DEF Top, Recheck
<1>2. CASE ((Top(w) \/ Recheck(w)) /\ CondWait(w)) \/ SpuriousWakeup(w) \/ Notify(w)
  BY <1>2, ThreadStillInv
<1>3. CASE Run(w) \/ Finish(w) \/ AppendDone(w)
  BY <1>3, RunInv, FinishInv, AppendDoneInv
<1> QED BY <1>1, <1>2, <1>3 DEF ThreadStep, Top, Recheck

\* The steps of the main thread that only move it along.
LEMMA MainStillInv ==
  ASSUME IInv,
         EpollWait \/ HandlerReturn \/ StartDestroy \/ Destroy \/ ExitSpin
            \/ (ExitPost /\ ~PostTask(Exit))
  PROVE  IInv'
<1>1. UNCHANGED <<next, qfirst, qlast, waiting, queue, dfirst, dlast, done, tpc, ttask, mtask,
                  todo, posts, ran>>
  BY DEF EpollWait, HandlerReturn, StartDestroy, Destroy, ExitSpin, ExitPost, poolVars,
         doneVars
<1>2. ~Placed(Exit) /\ (mpc' \notin {"deliver", "handler"} => todo = <<>>)
  BY DEF EpollWait, HandlerReturn, StartDestroy, Destroy, ExitSpin, ExitPost, IInv, Stages
<1>3. /\ \A t \in Task : active'[t] = active[t]
      /\ active'[Exit] = active[Exit] \/ ~active'[Exit]
  BY DEF EpollWait, HandlerReturn, StartDestroy, Destroy, ExitSpin, ExitPost, IInv, Types,
         AnyTask
<1>4. Types'
  <2>1. active' \in [AnyTask -> BOOLEAN] /\ notified' \in BOOLEAN
    BY DEF EpollWait, HandlerReturn, StartDestroy, Destroy, ExitSpin, ExitPost, IInv, Types
  <2>2. mpc' \in MainLabels
    BY DEF EpollWait, HandlerReturn, StartDestroy, Destroy, ExitSpin, ExitPost, MainLabels
  <2>3. exitLock' \in {0, 1} /\ exitN' \in Nat
    BY DEF EpollWait, HandlerReturn, StartDestroy, Destroy, ExitSpin, ExitPost, IInv, Types
  <2> QED BY <1>1, <2>1, <2>2, <2>3 DEF IInv, Types
<1>5. \A v \in Thread : Held(v)' <=> Held(v)
  BY <1>1 DEF Held
<1> QED BY <1>1, <1>2, <1>3, <1>4, <1>5, StillInv

LEMMA MainInv ==
  ASSUME IInv, MainStep \/ StartDestroy \/ \E t \in Task : Post(t)
  PROVE  IInv'
<1>1. ASSUME NEW t \in Task, Post(t) PROVE IInv'
  <2>1. /\ mpc \in {"loop", "handler"} /\ PostTask(t) /\ posts' = posts + 1
        /\ UNCHANGED <<mpc, mtask, todo, exitLock, exitN>>
    BY <1>1 DEF Post
  <2>2. t \in AnyTask /\ t # Exit /\ ~Placed(Exit)
    BY <2>1 DEF AnyTask, IInv, Stages
  <2>3. /\ exitN' \in Nat /\ posts' \in Nat /\ mpc' \in MainLabels /\ exitLock' \in {0, 1}
        /\ mpc' \notin {"deliver", "handler"} => todo = <<>>
    BY <2>1 DEF IInv, Types, Stages
  <2> QED BY <2>1, <2>2, <2>3, PostInv
<1>2. CASE ExitPost /\ PostTask(Exit)
  <2>1. mpc = "exit_post" /\ exitLock' = 1 /\ UNCHANGED <<mtask, todo, exitN, posts>>
    BY <1>2 DEF ExitPost
  <2>2. mpc' = "exit_spin"
    BY <1>2 DEF ExitPost, PostTask
  <2>3. /\ exitN' \in Nat /\ posts' \in Nat /\ mpc' \in MainLabels /\ exitLock' \in {0, 1}
        /\ mpc' \notin {"deliver", "handler"} => todo = <<>>
    BY <2>1, <2>2 DEF IInv, Types, Stages, MainLabels
  <2>4. Exit \in AnyTask
    BY DEF AnyTask
  <2> QED BY <1>2, <2>1, <2>2, <2>3, <2>4, PostInv
<1>3. CASE EpollWait \/ HandlerReturn \/ StartDestroy \/ Destroy \/ ExitSpin
              \/ (ExitPost /\ ~PostTask(Exit))
  BY <1>3, MainStillInv
<1>4. CASE TakeDone \/ Deliver
  BY <1>4, TakeDoneInv, DeliverInv
<1> QED BY <1>1, <1>2, <1>3, <1>4 DEF MainStep

LEMMA NextInv == IInv /\ [Next]_vars => IInv'
<1> SUFFICES ASSUME IInv, [Next]_vars PROVE IInv'
  OBVIOUS
<1>1. CASE UNCHANGED vars
  <2>1. UNCHANGED <<next, active, qfirst, qlast, waiting, queue, dfirst, dlast, done, notified,
                    tpc, ttask, mpc, mtask, todo, exitLock, exitN, posts, ran>>
    BY <1>1 DEF vars, poolVars, doneVars, mainVars
  <2>2. Types' /\ \A v \in Thread : Held(v)' <=> Held(v)
    BY <2>1 DEF IInv, Types, Held
  <2>3. mpc' \notin {"deliver", "handler"} => todo = <<>>
    BY <2>1 DEF IInv, Stages
  <2> QED BY <2>1, <2>2, <2>3, StillInv
<1> QED BY <1>1, ThreadInv, MainInv DEF Next, Stopped

LEMMA Invariance == Spec => []IInv
  BY InitInv, NextInv, PTL DEF Spec

-----------------------------------------------------------------------------
(* The lists: from places to occurrences *)

\* A thread keeps its pointer to a task only while it has the task, or when it
\* ended with the exit task.
NoTask == \A w \in Thread : ~Held(w) => ttask[w] \in {Null, Exit}

LEMMA NoTaskStep == IInv /\ NoTask /\ [Next]_vars => NoTask'
<1> SUFFICES ASSUME IInv, NoTask, [Next]_vars PROVE NoTask'
  OBVIOUS
<1>1. CASE UNCHANGED ttask /\ \A w \in Thread : Held(w) => Held(w)'
  BY <1>1 DEF NoTask
<1>2. CASE MainStep \/ StartDestroy \/ Stopped \/ UNCHANGED vars \/ \E t \in Task : Post(t)
  <2>1. UNCHANGED ttask /\ (UNCHANGED tpc \/ Signal)
    BY <1>2 DEF MainStep, EpollWait, TakeDone, Deliver, HandlerReturn, ExitPost, ExitSpin,
         Destroy, StartDestroy, Stopped, vars, Post, PostTask
  <2>2. \A w \in Thread : Held(w) => Held(w)'
    <3>1. CASE UNCHANGED tpc
      BY <3>1 DEF Held
    <3>2. CASE Signal
      BY <3>2, SignalKeeps DEF IInv
    <3> QED BY <2>1, <3>1, <3>2
  <2> QED BY <2>1, <2>2, <1>1
<1>3. ASSUME NEW w \in Thread, ThreadStep(w) \/ SpuriousWakeup(w) PROVE NoTask'
  <2>1. CASE Finish(w) \/ Notify(w) \/ SpuriousWakeup(w)
             \/ ((Top(w) \/ Recheck(w)) /\ CondWait(w))
    <3>1. UNCHANGED ttask
      BY <2>1 DEF Finish, Notify, SpuriousWakeup, CondWait
    <3>2. \A v \in Thread : Held(v) => Held(v)'
      BY <2>1 DEF Finish, Notify, SpuriousWakeup, Top, Recheck, CondWait, Goto, Held, IInv,
                  Types
    <3> QED BY <3>1, <3>2, <1>1
  <2>2. CASE (Top(w) \/ Recheck(w)) /\ Dequeue(w)
    BY <2>2 DEF Top, Recheck, Dequeue, Goto, NoTask, Held, IInv, Types
  <2>3. CASE Run(w)
    BY <2>3 DEF Run, Goto, NoTask, Held, IInv, Types
  <2>4. CASE AppendDone(w)
    BY <2>4 DEF AppendDone, Goto, NoTask, Held, IInv, Types
  <2> QED BY <1>3, <2>1, <2>2, <2>3, <2>4 DEF ThreadStep, Top, Recheck
<1> QED BY <1>2, <1>3 DEF Next

LEMMA OccursOnce ==
  ASSUME NEW s \in Seq(AnyTask), Once(s), NEW t
  PROVE  Occurrences(t, s) = IF t \in Elems(s) THEN 1 ELSE 0
<1> DEFINE At == {k \in 1 .. Len(s) : s[k] = t}
<1>1. CASE t \in Elems(s)
  <2>1. PICK k \in 1 .. Len(s) : s[k] = t
    BY <1>1 DEF Elems
  <2>2. At = {k}
    BY <2>1 DEF Once
  <2> QED BY <1>1, <2>2, FS_Singleton DEF Occurrences
<1>2. CASE t \notin Elems(s)
  <2>1. At = {}
    BY <1>2 DEF Elems
  <2> QED BY <1>2, <2>1, FS_EmptySet DEF Occurrences
<1> QED BY <1>1, <1>2

LEMMA InvListShape == IInv /\ NoTask => ListShape
<1> SUFFICES ASSUME IInv, NoTask PROVE ListShape
  OBVIOUS
<1>1. /\ queue \in Seq(AnyTask) /\ done \in Seq(AnyTask) /\ todo \in Seq(AnyTask)
      /\ Once(queue) /\ Once(done) /\ Once(todo)
  BY DEF IInv, Types, Apart
<1>2. TypeOK
  <2>1. qfirst \in AnyTask \cup {Null} /\ qlast \in AnyTask \cup {First}
    BY <1>1, ChainEnds DEF IInv, Lists
  <2>2. dfirst \in AnyTask \cup {Null} /\ dlast \in AnyTask \cup {First}
    BY <1>1, ChainEnds DEF IInv, Lists
  <2>3. mtask \in AnyTask \cup {Null}
    BY <1>1, ChainEnds DEF IInv, Lists
  <2> QED BY <2>1, <2>2, <2>3 DEF IInv, Types, Nexts, TypeOK
<1>3. /\ Spells(qfirst, qlast, queue) /\ Spells(dfirst, dlast, done)
      /\ Spells(mtask, IF todo = <<>> THEN First ELSE todo[Len(todo)], todo)
  BY DEF IInv, Lists, Chain, Spells
<1>4. RanOnce
  BY DEF IInv, Runs, RanOnce, Elems
<1>5. ASSUME NEW t \in Task
      PROVE  Occurrences(t, queue) + Occurrences(t, done) + Occurrences(t, todo)
                + Cardinality(Running(t)) = IF active[t] THEN 1 ELSE 0
  <2> DEFINE one(s) == IF t \in Elems(s) THEN 1 ELSE 0
  <2>1. Occurrences(t, queue) = one(queue) /\ Occurrences(t, done) = one(done)
        /\ Occurrences(t, todo) = one(todo)
    BY <1>1, OccursOnce
  <2>2. Running(t) = {w \in Thread : Held(w) /\ ttask[w] = t} /\ t \in AnyTask
    BY DEF Running, NoTask, Held, AnyTask
  <2>3. active[t] <=> Placed(t)
    BY <2>2 DEF IInv, Stages
  <2>4. CASE \E w \in Thread : Held(w) /\ ttask[w] = t
    <3>1. PICK w \in Thread : Held(w) /\ ttask[w] = t
      BY <2>4
    <3>2. Running(t) = {w} /\ t \notin Listed
      BY <2>2, <3>1 DEF IInv, Apart
    <3>3. Cardinality(Running(t)) = 1
      BY <3>2, FS_Singleton
    <3>4. active[t] /\ one(queue) = 0 /\ one(done) = 0 /\ one(todo) = 0
      BY <2>3, <3>1, <3>2 DEF Placed, Listed
    <3> QED BY <2>1, <3>3, <3>4
  <2>5. CASE ~\E w \in Thread : Held(w) /\ ttask[w] = t
    <3>1. Cardinality(Running(t)) = 0
      BY <2>2, <2>5, FS_EmptySet
    <3>2. active[t] <=> t \in Listed
      BY <2>3, <2>5 DEF Placed
    <3>3. one(queue) + one(done) + one(todo) = IF t \in Listed THEN 1 ELSE 0
      BY DEF IInv, Apart, Listed
    <3> QED BY <2>1, <3>1, <3>2, <3>3
  <2> QED BY <2>4, <2>5
<1> QED BY <1>2, <1>3, <1>4, <1>5 DEF ListShape, OnePlace

\* ngx_thread_pool.c: the queue, the done list and the list being completed are
\* what was linked into them, in order, although they share the next field of
\* a task and three parties write it; each active task is in one place, and
\* ran once when it is completed.
THEOREM ListShapeCorrect == Spec => []ListShape
<1>1. Init => NoTask
  BY DEF Init, NoTask, Held
<1>2. Spec => []NoTask
  BY <1>1, NoTaskStep, Invariance, PTL DEF Spec
<1> QED BY <1>2, Invariance, InvListShape, PTL

-----------------------------------------------------------------------------
(* Wakeups *)

LEMMA FiniteIdle == IsFiniteSet(Idle) /\ IsFiniteSet(Woken) /\ IsFiniteSet(Idle)'
                    /\ IsFiniteSet(Woken)'
  BY FS_Subset DEF Idle, Woken, Waiters

LEMMA QueueEmpty ==
  ASSUME IInv
  PROVE  /\ Len(queue) \in Nat
         /\ qfirst = Null <=> Len(queue) = 0
         /\ qfirst # Null => Len(Tail(queue)) = Len(queue) - 1
         /\ \A t \in AnyTask : Len(Append(queue, t)) = Len(queue) + 1
<1>1. queue \in Seq(AnyTask) /\ (qfirst = Null <=> queue = <<>>)
  BY ChainEnds DEF IInv, Types, Lists
<1> QED BY <1>1, TailElems, AppendElems

\* Nothing of the queue and of the idle threads changes.
LEMMA CalmStep ==
  ASSUME NoStall, UNCHANGED <<queue, waiting>>, Idle' = Idle, Woken' = Woken
  PROVE  NoStall'
<1>1. Waiters = Idle \ Woken /\ Waiters' = Idle' \ Woken'
  BY DEF Waiters, Idle, Woken
<1> QED BY <1>1 DEF NoStall, QueueBound, WaitingCount

\* A post: one more task, and one sleeper woken if there is one.
LEMMA PostStall ==
  ASSUME IInv, NoStall, NEW t \in AnyTask, PostTask(t)
  PROVE  NoStall'
<1>1. /\ queue' = Append(queue, t) /\ waiting' = waiting + 1 /\ waiting < MaxQueue /\ Signal
  BY DEF PostTask, CanPost, Enqueue
<1>2. Len(queue') = Len(queue) + 1 /\ Len(queue) \in Nat
  BY <1>1, QueueEmpty
<1>3. /\ IsFiniteSet(Idle) /\ IsFiniteSet(Woken)
      /\ Cardinality(Idle) \in Nat /\ Cardinality(Woken) \in Nat
  BY FiniteIdle, FS_CardinalityType
<1>4. CASE Waiters = {} /\ UNCHANGED tpc
  <2>1. Idle' = Idle /\ Waiters' = {}
    BY <1>4 DEF Waiters, Idle, Woken
  <2>2. waiting = Len(queue) - Cardinality(Idle) /\ MaxQueue \in Nat
    BY DEF NoStall, QueueBound, WaitingCount
  <2>3. waiting' = Len(queue') - Cardinality(Idle')
    BY <1>1, <1>2, <1>3, <2>1, <2>2
  <2>4. Len(queue') <= MaxQueue + Cardinality(Idle')
    BY <1>1, <1>2, <1>3, <2>1, <2>2
  <2> QED BY <2>1, <2>3, <2>4 DEF NoStall, QueueBound, WaitingCount
<1>5. ASSUME NEW v \in Waiters, tpc' = [tpc EXCEPT ![v] = "woken"] PROVE NoStall'
  <2>1. Idle' = Idle /\ Woken' = Woken \cup {v} /\ v \notin Woken
    BY <1>5 DEF IInv, Types, Waiters, Idle, Woken
  <2>2. Cardinality(Woken') = Cardinality(Woken) + 1
    BY <1>3, <2>1, FS_AddElement
  <2>3. /\ waiting = Len(queue) - Cardinality(Idle) /\ MaxQueue \in Nat
        /\ Len(queue) <= Cardinality(Woken)
    BY <1>5 DEF NoStall, QueueBound, WaitingCount
  <2>4. waiting' = Len(queue') - Cardinality(Idle')
    BY <1>1, <1>2, <1>3, <2>1, <2>3
  <2>5. Len(queue') <= MaxQueue + Cardinality(Idle') /\ Len(queue') <= Cardinality(Woken')
    BY <1>1, <1>2, <1>3, <2>1, <2>2, <2>3
  <2> QED BY <2>4, <2>5 DEF NoStall, QueueBound, WaitingCount
<1> QED BY <1>1, <1>4, <1>5 DEF Signal, Goto

\* A thread looks for a task, having counted itself down or been woken.
LEMMA LookStall ==
  ASSUME IInv, NoStall, NEW w \in Thread, Top(w) \/ Recheck(w)
  PROVE  NoStall'
<1>1. /\ Len(queue) \in Nat
      /\ IsFiniteSet(Idle) /\ IsFiniteSet(Woken)
      /\ Cardinality(Idle) \in Nat /\ Cardinality(Woken) \in Nat
      /\ IsFiniteSet(Woken') /\ Cardinality(Woken') \in Nat /\ waiting \in Int
  BY QueueEmpty, FiniteIdle, FS_CardinalityType DEF IInv, Types
<1>2. CASE Dequeue(w)
  <2>1. Len(queue') = Len(queue) - 1 /\ tpc' = [tpc EXCEPT ![w] = "run"]
    BY <1>2, QueueEmpty DEF Dequeue, Goto
  <2>2. Idle' = Idle \ {w} /\ Woken' = Woken \ {w} /\ Waiters' \subseteq Waiters
    BY <2>1 DEF IInv, Types, Waiters, Idle, Woken, Top, Recheck
  <2>3. CASE Top(w)
    <3>1. Idle' = Idle /\ Woken' = Woken /\ waiting' = waiting - 1
      BY <2>2, <2>3 DEF Top, Idle, Waiters, Woken
    <3>2. WaitingCount' /\ QueueBound'
      BY <1>1, <2>1, <3>1 DEF NoStall, QueueBound, WaitingCount
    <3>3. ASSUME Waiters' # {} PROVE Len(queue') <= Cardinality(Woken')
      <4>1. Len(queue) <= Cardinality(Woken)
        BY <2>2, <3>3 DEF NoStall
      <4>2. Len(queue) - 1 <= Cardinality(Woken)
        BY <1>1, <4>1
      <4> QED BY <2>1, <3>1, <4>2
    <3> QED BY <3>2, <3>3 DEF NoStall
  <2>4. CASE Recheck(w)
    <3>1. w \in Idle /\ w \in Woken /\ waiting' = waiting
      BY <2>4 DEF Recheck, Idle, Woken
    <3>2. Cardinality(Idle') = Cardinality(Idle) - 1
          /\ Cardinality(Woken') = Cardinality(Woken) - 1
      BY <1>1, <2>2, <3>1, FS_RemoveElement
    <3> QED BY <1>1, <2>1, <2>2, <3>1, <3>2 DEF NoStall, QueueBound, WaitingCount
  <2> QED BY <2>3, <2>4
<1>3. CASE CondWait(w)
  <2>1. Len(queue) = 0 /\ queue' = queue /\ tpc' = [tpc EXCEPT ![w] = "wait"]
    BY <1>3, QueueEmpty DEF CondWait, Goto
  <2>2. Idle' = Idle \cup {w}
    BY <2>1 DEF IInv, Types, Waiters, Idle, Woken
  <2>3. CASE Top(w)
    <3>1. w \notin Idle /\ waiting' = waiting - 1
      BY <2>3 DEF Top, Idle, Waiters, Woken
    <3>2. Cardinality(Idle') = Cardinality(Idle) + 1
      BY <1>1, <2>2, <3>1, FS_AddElement
    <3> QED BY <1>1, <2>1, <3>1, <3>2 DEF NoStall, QueueBound, WaitingCount
  <2>4. CASE Recheck(w)
    <3>1. Idle' = Idle /\ waiting' = waiting
      BY <2>2, <2>4 DEF Recheck, Idle, Woken
    <3> QED BY <1>1, <2>1, <3>1 DEF NoStall, QueueBound, WaitingCount
  <2> QED BY <2>3, <2>4
<1> QED BY <1>2, <1>3 DEF Top, Recheck

\* A thread wakes without a signal: it comes for a task all the same.
LEMMA SpuriousStall ==
  ASSUME IInv, NoStall, NEW w \in Thread, SpuriousWakeup(w)
  PROVE  NoStall'
<1>1. tpc[w] = "wait" /\ tpc' = [tpc EXCEPT ![w] = "woken"] /\ UNCHANGED <<queue, waiting>>
  BY DEF SpuriousWakeup, Goto, poolVars
<1>2. Idle' = Idle /\ Woken' = Woken \cup {w} /\ w \notin Woken /\ w \in Waiters
  BY <1>1 DEF IInv, Types, Waiters, Idle, Woken
<1>3. Cardinality(Woken') = Cardinality(Woken) + 1 /\ Cardinality(Woken) \in Nat
      /\ Len(queue) \in Nat
  BY <1>2, FiniteIdle, FS_AddElement, FS_CardinalityType, QueueEmpty
<1> QED BY <1>1, <1>2, <1>3 DEF NoStall, QueueBound, WaitingCount

LEMMA NoStallStep == IInv /\ NoStall /\ [Next]_vars => NoStall'
<1> SUFFICES ASSUME IInv, NoStall, [Next]_vars PROVE NoStall'
  OBVIOUS
<1>1. ASSUME NEW t \in AnyTask, PostTask(t) PROVE NoStall'
  BY <1>1, PostStall
<1>2. ASSUME NEW w \in Thread, Top(w) \/ Recheck(w) \/ SpuriousWakeup(w) PROVE NoStall'
  BY <1>2, LookStall, SpuriousStall
<1>3. ASSUME NEW w \in Thread, Run(w) \/ Finish(w) \/ AppendDone(w) \/ Notify(w)
      PROVE  NoStall'
  <2>1. /\ UNCHANGED <<queue, waiting>> /\ tpc[w] \notin {"wait", "woken"}
        /\ \E l \in ThreadLabels \ {"wait", "woken"} : tpc' = [tpc EXCEPT ![w] = l]
    BY <1>3 DEF Run, Finish, AppendDone, Notify, Goto, poolVars, ThreadLabels
  <2>2. Idle' = Idle /\ Woken' = Woken
    BY <2>1 DEF IInv, Types, Idle, Waiters, Woken
  <2> QED BY <2>1, <2>2, CalmStep
<1>4. CASE UNCHANGED <<queue, waiting, tpc>>
  BY <1>4, CalmStep DEF Idle, Waiters, Woken
<1>5. Task \subseteq AnyTask /\ Exit \in AnyTask
  BY DEF AnyTask
<1>6. CASE MainStep \/ StartDestroy \/ Stopped \/ UNCHANGED vars
  <2>1. PostTask(Exit) \/ UNCHANGED <<queue, waiting, tpc>>
    BY <1>6 DEF MainStep, EpollWait, TakeDone, Deliver, HandlerReturn, ExitPost, ExitSpin,
         Destroy, StartDestroy, Stopped, vars, poolVars
  <2> QED BY <2>1, <1>1, <1>4, <1>5
<1> QED BY <1>1, <1>2, <1>3, <1>5, <1>6 DEF Next, ThreadStep, Post

\* pthread_cond_signal() instead of a broadcast: while a thread sleeps each
\* queued task has a woken thread coming for it, also with spurious wakeups,
\* and tp->waiting counts what the limit of the queue is meant for.
THEOREM NoStallCorrect == Spec => []NoStall
<1>1. Init => NoStall
  <2> SUFFICES ASSUME Init PROVE NoStall
    OBVIOUS
  <2>1. Idle = {} /\ Waiters = {} /\ Len(queue) = 0 /\ waiting = 0
    BY DEF Init, Idle, Waiters, Woken
  <2>2. Cardinality(Idle) = 0
    BY <2>1, FS_EmptySet
  <2> QED BY <2>1, <2>2 DEF NoStall, QueueBound, WaitingCount
<1> QED BY <1>1, NoStallStep, Invariance, PTL DEF Spec

-----------------------------------------------------------------------------
(* The end *)

Ended == {w \in Thread : tpc[w] = "exited"}

\* Each exit task that was run to its end is a thread that ended.
Shutdown ==
    /\ mpc \in {"loop", "take", "deliver", "handler"} => Ended = {} /\ exitN = 0
    /\ mpc = "exit_post" => Cardinality(Ended) = exitN
    /\ mpc = "exit_spin" =>
          Cardinality(Ended) = exitN + (IF exitLock = 0 THEN 1 ELSE 0)
    /\ mpc = "down" => Cardinality(Ended) = Cardinality(Thread)

LEMMA FiniteEnded == IsFiniteSet(Ended) /\ Cardinality(Ended) \in Nat
  BY FS_Subset, FS_CardinalityType DEF Ended

LEMMA ShutdownStep == IInv /\ Shutdown /\ [Next]_vars => Shutdown'
<1> SUFFICES ASSUME IInv, Shutdown, [Next]_vars PROVE Shutdown'
  OBVIOUS
<1>1. ASSUME NEW w \in Thread, Run(w), ttask[w] = Exit PROVE Shutdown'
  <2>1. mpc = "exit_spin" /\ exitLock = 1 /\ tpc[w] = "run"
    BY <1>1 DEF Run, IInv, Stages, Placed, Held
  <2>2. exitLock' = 0 /\ mpc' = mpc /\ exitN' = exitN /\ Ended' = Ended \cup {w} /\ w \notin Ended
    BY <1>1, <2>1 DEF Run, Goto, Ended, IInv, Types
  <2>3. Cardinality(Ended') = Cardinality(Ended) + 1
    BY <2>2, FiniteEnded, FS_AddElement
  <2> QED BY <2>1, <2>2, <2>3 DEF Shutdown, IInv, Types
<1>2. ASSUME NEW w \in Thread, ThreadStep(w) \/ SpuriousWakeup(w), ~(Run(w) /\ ttask[w] = Exit)
      PROVE  Shutdown'
  <2>1. /\ UNCHANGED <<mpc, exitN, exitLock>> /\ tpc[w] # "exited"
        /\ \E l \in ThreadLabels \ {"exited"} : tpc' = [tpc EXCEPT ![w] = l]
    BY <1>2 DEF ThreadStep, SpuriousWakeup, Top, Recheck, Dequeue, CondWait, Run, Finish,
         AppendDone, Notify, Goto, mainVars, ThreadLabels
  <2>2. Ended' = Ended
    BY <2>1 DEF Ended, IInv, Types
  <2> QED BY <2>1, <2>2 DEF Shutdown
<1>3. CASE UNCHANGED tpc \/ Signal
  <2>1. Ended' = Ended
    BY <1>3 DEF Signal, Goto, Waiters, Ended, IInv, Types
  <2>2. CASE UNCHANGED <<mpc, exitLock, exitN>>
    BY <2>1, <2>2 DEF Shutdown
  <2>3. CASE EpollWait \/ TakeDone \/ Deliver \/ HandlerReturn \/ StartDestroy
    <3>1. CASE StartDestroy
      BY <2>1, <3>1, FS_EmptySet DEF StartDestroy, Shutdown
    <3>2. CASE EpollWait \/ TakeDone \/ Deliver \/ HandlerReturn
      BY <2>1, <3>2 DEF EpollWait, TakeDone, Deliver, HandlerReturn, Shutdown
    <3> QED BY <2>3, <3>1, <3>2
  <2>4. CASE ExitPost
    BY <2>1, <2>4 DEF ExitPost, Shutdown, IInv, Types
  <2>5. CASE ExitSpin
    BY <2>1, <2>5 DEF ExitSpin, Shutdown
  <2>6. CASE Destroy
    BY <2>1, <2>6 DEF Destroy, Shutdown
  <2>7. CASE \E w \in Thread : ThreadStep(w) \/ SpuriousWakeup(w)
    BY <2>7, <1>1, <1>2
  <2>8. CASE Stopped \/ UNCHANGED vars \/ \E t \in Task : Post(t)
    BY <2>8, <2>2 DEF Stopped, vars, mainVars, Post
  <2> QED BY <2>3, <2>4, <2>5, <2>6, <2>7, <2>8 DEF Next, MainStep
<1>4. CASE MainStep \/ StartDestroy \/ Stopped \/ UNCHANGED vars \/ \E t \in Task : Post(t)
  <2>1. UNCHANGED tpc \/ Signal
    BY <1>4 DEF MainStep, EpollWait, TakeDone, Deliver, HandlerReturn, ExitPost, ExitSpin,
         Destroy, StartDestroy, Stopped, vars, Post, PostTask
  <2> QED BY <2>1, <1>3
<1> QED BY <1>1, <1>2, <1>4 DEF Next

\* ngx_thread_pool_destroy(): each exit task ends one thread, so the mutex and
\* the condition variable are destroyed behind the last thread.
THEOREM DestroyedUnusedCorrect == Spec => []DestroyedUnused
<1>1. Init => Shutdown
  BY DEF Init, Shutdown, Ended
<1>2. Spec => []Shutdown
  BY <1>1, ShutdownStep, Invariance, PTL DEF Spec
<1>3. Shutdown => DestroyedUnused
  <2> SUFFICES ASSUME Shutdown, mpc = "down" PROVE \A w \in Thread : tpc[w] = "exited"
    BY DEF DestroyedUnused
  <2>1. Ended \in SUBSET Thread /\ Cardinality(Ended) = Cardinality(Thread)
    BY DEF Ended, Shutdown
  <2>2. Ended = Thread
    BY <2>1, FS_Subset
  <2> QED BY <2>2 DEF Ended
<1> QED BY <1>2, <1>3, PTL

-----------------------------------------------------------------------------
(* The abstract service *)

\* Stage, by membership.
Phase(t) ==
    IF ~active[t] THEN "free"
    ELSE IF t \in Elems(queue) THEN "pending"
    ELSE IF \E w \in Thread : tpc[w] = "run" /\ ttask[w] = t THEN "running"
    ELSE "finished"

\* Behind the exit task nothing is posted.
ExitLast == \A k \in 1 .. Len(queue) : queue[k] = Exit => k = Len(queue)

Phases == \A t \in Task : Stage(t) = Phase(t)

LEMMA StageIsPhase == IInv => Phases
<1> SUFFICES ASSUME IInv, NEW t \in Task PROVE Stage(t) = Phase(t)
  BY DEF Phases
<1>1. /\ queue \in Seq(AnyTask) /\ Once(queue) /\ active[t] \in BOOLEAN
      /\ t \in Elems(queue) => ~\E w \in Thread : tpc[w] = "run" /\ ttask[w] = t
  BY DEF IInv, Types, Apart, Listed, Held, AnyTask
<1>2. Occurrences(t, queue) > 0 <=> t \in Elems(queue)
  <2>1. Occurrences(t, queue) = IF t \in Elems(queue) THEN 1 ELSE 0
    BY <1>1, OccursOnce
  <2> QED BY <2>1
<1>3. (\E w \in Running(t) : tpc[w] = "run") <=> \E w \in Thread : tpc[w] = "run" /\ ttask[w] = t
  BY DEF Running
<1> HIDE DEF Occurrences, Running
<1> QED BY <1>1, <1>2, <1>3 DEF Stage, Phase

\* A sequence without its last element.
LEMMA ButLast ==
  ASSUME NEW S, NEW s \in Seq(S), s # <<>>
  PROVE  /\ SubSeq(s, 1, Len(s) - 1) \in Seq(S)
         /\ Len(SubSeq(s, 1, Len(s) - 1)) = Len(s) - 1 /\ Len(s) \in Nat \ {0}
         /\ \A k \in 1 .. Len(s) - 1 : SubSeq(s, 1, Len(s) - 1)[k] = s[k]
<1> DEFINE n == Len(s) - 1
<1>1. n \in Nat /\ n + 1 = Len(s) /\ \A k \in 1 .. n : s[k] \in S
  OBVIOUS
<1> HIDE DEF n
<1>2. /\ SubSeq(s, 1, n) \in Seq(S)
      /\ Len(SubSeq(s, 1, n)) = IF 1 <= n THEN n - 1 + 1 ELSE 0
      /\ \A k \in 1 .. n - 1 + 1 : SubSeq(s, 1, n)[k] = s[1 + k - 1]
  BY <1>1, SubSeqProperties
<1>3. Len(SubSeq(s, 1, n)) = n
  BY <1>1, <1>2
<1>4. \A k \in 1 .. n : SubSeq(s, 1, n)[k] = s[k]
  <2> TAKE k \in 1 .. n
  <2>1. k \in 1 .. n - 1 + 1 /\ 1 + k - 1 = k
    BY <1>1
  <2> QED BY <1>2, <2>1
<1>5. Len(s) \in Nat \ {0}
  OBVIOUS
<1> QED BY <1>2, <1>3, <1>4, <1>5 DEF n

\* What a task posted at the end, and one taken at the head, do to it.
LEMMA ButLastAppend ==
  ASSUME NEW S, NEW s \in Seq(S), NEW t \in S
  PROVE  SubSeq(Append(s, t), 1, Len(Append(s, t)) - 1) = s
<1> DEFINE a == Append(s, t)
           b == SubSeq(a, 1, Len(a) - 1)
<1>1. a \in Seq(S) /\ a # <<>> /\ Len(a) = Len(s) + 1 /\ Len(s) \in Nat
      /\ \A k \in 1 .. Len(s) : a[k] = s[k]
  OBVIOUS
<1> HIDE DEF a
<1>2. b \in Seq(S) /\ Len(b) = Len(a) - 1 /\ \A k \in 1 .. Len(a) - 1 : b[k] = a[k]
  BY <1>1, ButLast
<1> HIDE DEF b
<1>3. Len(b) = Len(s) /\ \A k \in 1 .. Len(b) : b[k] = s[k]
  BY <1>1, <1>2
<1>4. b = s
  BY <1>2, <1>3, SeqEqual
<1> QED BY <1>4 DEF a, b

LEMMA ButLastTail ==
  ASSUME NEW S, NEW s \in Seq(S), s # <<>>, Len(s) # 1
  PROVE  /\ SubSeq(s, 1, Len(s) - 1) # <<>>
         /\ Head(SubSeq(s, 1, Len(s) - 1)) = s[1]
         /\ Tail(s) # <<>> /\ Tail(s)[Len(Tail(s))] = s[Len(s)]
         /\ Tail(SubSeq(s, 1, Len(s) - 1)) = SubSeq(Tail(s), 1, Len(Tail(s)) - 1)
<1> DEFINE b == SubSeq(s, 1, Len(s) - 1)
           r == Tail(s)
           c == SubSeq(r, 1, Len(r) - 1)
<1>1. /\ b \in Seq(S) /\ Len(b) = Len(s) - 1 /\ Len(s) \in Nat \ {0, 1}
      /\ \A k \in 1 .. Len(s) - 1 : b[k] = s[k]
  BY ButLast
<1>2. /\ r \in Seq(S) /\ Len(r) = Len(s) - 1
      /\ \A k \in 1 .. Len(s) - 1 : r[k] = s[k + 1]
  BY TailElems
<1> HIDE DEF b, r
<1>3. r # <<>> /\ r[Len(r)] = s[Len(s)]
  <2>1. Len(s) - 1 \in 1 .. Len(s) - 1 /\ Len(s) - 1 + 1 = Len(s)
    BY <1>1
  <2> QED BY <1>1, <1>2, <2>1
<1>4. /\ c \in Seq(S) /\ Len(c) = Len(r) - 1
      /\ \A k \in 1 .. Len(r) - 1 : c[k] = r[k]
  BY <1>2, <1>3, ButLast
<1> HIDE DEF c
<1>5. b # <<>> /\ Head(b) = s[1]
  <2>1. 1 \in 1 .. Len(s) - 1
    BY <1>1
  <2> QED BY <1>1, <2>1
<1>6. Tail(b) \in Seq(S) /\ Len(Tail(b)) = Len(b) - 1
      /\ \A k \in 1 .. Len(b) - 1 : Tail(b)[k] = b[k + 1]
  BY <1>1, <1>5, TailElems
<1>7. Len(Tail(b)) = Len(c) /\ \A k \in 1 .. Len(Tail(b)) : Tail(b)[k] = c[k]
  <2>1. Len(Tail(b)) = Len(s) - 2 /\ Len(c) = Len(s) - 2
    BY <1>1, <1>2, <1>4, <1>6
  <2>2. ASSUME NEW k \in 1 .. Len(s) - 2 PROVE Tail(b)[k] = c[k]
    <3>1. /\ k \in 1 .. Len(s) - 1 /\ k + 1 \in 1 .. Len(s) - 1
          /\ k \in 1 .. Len(b) - 1 /\ k \in 1 .. Len(r) - 1
      BY <1>1, <1>2
    <3> QED BY <1>1, <1>2, <1>4, <1>6, <3>1
  <2> QED BY <2>1, <2>2
<1>8. Tail(b) = c
  BY <1>4, <1>6, <1>7, SeqEqual
<1> QED BY <1>3, <1>5, <1>8 DEF b, r, c

LEMMA ExitLastStep == IInv /\ ExitLast /\ [Next]_vars => ExitLast'
<1> SUFFICES ASSUME IInv, ExitLast, [Next]_vars PROVE ExitLast'
  OBVIOUS
<1>1. CASE UNCHANGED queue
  BY <1>1 DEF ExitLast
<1>2. ASSUME NEW t \in AnyTask, PostTask(t), ~Placed(Exit) PROVE ExitLast'
  <2>1. queue' = Append(queue, t) /\ queue \in Seq(AnyTask)
    BY <1>2 DEF PostTask, Enqueue, IInv, Types
  <2>2. \A k \in 1 .. Len(queue) : queue[k] # Exit
    BY <1>2 DEF Placed, Listed, Elems
  <2>3. Len(queue') = Len(queue) + 1 /\ Len(queue) \in Nat
        /\ \A k \in 1 .. Len(queue) : queue'[k] = queue[k]
    BY <2>1, AppendElems
  <2> QED BY <2>2, <2>3 DEF ExitLast
<1>3. ASSUME NEW w \in Thread, Dequeue(w) PROVE ExitLast'
  <2>1. queue' = Tail(queue) /\ queue \in Seq(AnyTask) /\ queue # <<>>
    BY <1>3, ChainTail DEF Dequeue, IInv, Types, Lists
  <2>2. Len(queue') = Len(queue) - 1 /\ Len(queue) \in Nat
        /\ \A k \in 1 .. Len(queue) - 1 : queue'[k] = queue[k + 1]
    BY <2>1, TailElems
  <2> QED BY <2>2 DEF ExitLast
<1>4. CASE \E w \in Thread : ThreadStep(w) \/ SpuriousWakeup(w)
  BY <1>1, <1>3, <1>4 DEF ThreadStep, SpuriousWakeup, Top, Recheck, CondWait, Run, Finish,
       AppendDone, Notify, poolVars
<1>5. ASSUME NEW t \in Task, Post(t) PROVE ExitLast'
  <2>1. PostTask(t) /\ ~Placed(Exit) /\ t \in AnyTask
    BY <1>5 DEF Post, IInv, Stages, AnyTask
  <2> QED BY <1>2, <2>1
<1>6. CASE ExitPost
  <2>1. CASE PostTask(Exit)
    <3>1. ~Placed(Exit) /\ Exit \in AnyTask
      BY <1>6 DEF ExitPost, IInv, Stages, AnyTask
    <3> QED BY <1>2, <2>1, <3>1
  <2>2. CASE UNCHANGED queue
    BY <1>1, <2>2
  <2> QED BY <1>6, <2>1, <2>2 DEF ExitPost, poolVars
<1>7. CASE StartDestroy \/ Stopped \/ UNCHANGED vars \/ EpollWait \/ TakeDone \/ Deliver
             \/ HandlerReturn \/ ExitSpin \/ Destroy
  BY <1>1, <1>7 DEF StartDestroy, Stopped, vars, EpollWait, TakeDone, Deliver, HandlerReturn,
       ExitSpin, Destroy, poolVars
<1> QED BY <1>4, <1>5, <1>6, <1>7 DEF Next, MainStep

\* A task that goes from one phase to another, and a step no task notices.
LEMMA PhaseMove ==
  ASSUME Phases, Phases', NEW t \in Task, NEW from, NEW to, Phase(t) = from,
         Phase(t)' = to, \A u \in Task \ {t} : Phase(u)' = Phase(u)
  PROVE  Service!Move(t, from, to)
<1>1. [u \in Task |-> Stage(u)]' = [[u \in Task |-> Stage(u)] EXCEPT ![t] = to]
  BY DEF Phases
<1> QED BY <1>1 DEF Phases, Service!Move

LEMMA PhaseStill ==
  ASSUME Phases, Phases', \A u \in Task : Phase(u)' = Phase(u)
  PROVE  [u \in Task |-> Stage(u)]' = [u \in Task |-> Stage(u)]
  BY DEF Phases

\* ngx_thread_task_post(): a task is submitted, or the exit task is none.
LEMMA PostRefines ==
  ASSUME IInv, Phases, Phases', NEW t \in AnyTask, PostTask(t), ~Placed(Exit)
  PROVE  [Service!Next]_(Service!vars)
<1>1. /\ ~active[t] /\ active' = [active EXCEPT ![t] = TRUE]
      /\ queue' = Append(queue, t) /\ ttask' = ttask
      /\ queue \in Seq(AnyTask) /\ active \in [AnyTask -> BOOLEAN]
  BY DEF PostTask, CanPost, Enqueue, IInv, Types
<1>2. Elems(queue') = Elems(queue) \cup {t} /\ Len(queue) \in Nat
      /\ Len(queue') = Len(queue) + 1 /\ queue'[Len(queue) + 1] = t
  BY <1>1, AppendElems
<1>3. queue' # <<>>
  BY <1>1, <1>2
<1>4. \A w \in Thread : tpc'[w] = "run" <=> tpc[w] = "run"
  BY SignalKeeps DEF PostTask, Signal, Goto, Waiters, IInv, Types
<1>5. \A u \in Task \ {t} : Phase(u)' = Phase(u)
  BY <1>1, <1>2, <1>4 DEF Phase, AnyTask
<1>6. Requested = queue
  <2>1. \A k \in 1 .. Len(queue) : queue[k] # Exit
    BY DEF Placed, Listed, Elems
  <2>2. queue # <<>> => Len(queue) \in 1 .. Len(queue)
    BY <1>1
  <2> QED BY <2>1, <2>2 DEF Requested
<1>7. CASE t = Exit
  <2>1. Requested' = SubSeq(queue', 1, Len(queue') - 1)
    BY <1>2, <1>3, <1>7 DEF Requested
  <2>2. Requested' = Requested
    BY <1>1, <1>6, <2>1, ButLastAppend
  <2>3. [u \in Task |-> Stage(u)]' = [u \in Task |-> Stage(u)]
    BY <1>5, <1>7, PhaseStill
  <2> QED BY <2>2, <2>3 DEF Service!vars
<1>8. CASE t # Exit
  <2>1. t \in Task
    BY <1>8 DEF AnyTask
  <2>2. Requested' = Append(Requested, t)
    BY <1>1, <1>2, <1>6, <1>8 DEF Requested
  <2>3. Phase(t) = "free" /\ Phase(t)' = "pending"
    BY <1>1, <1>2 DEF Phase
  <2>4. Service!Move(t, "free", "pending")
    BY <1>5, <2>1, <2>3, PhaseMove
  <2> QED BY <2>1, <2>2, <2>4 DEF Service!Next, Service!Submit
<1> QED BY <1>7, <1>8

\* A thread takes the task that was submitted first, or the exit task.
LEMMA DequeueRefines ==
  ASSUME IInv, Phases, Phases', ExitLast, NEW w \in Thread, tpc[w] \in {"top", "woken"},
         Dequeue(w), UNCHANGED active
  PROVE  [Service!Next]_(Service!vars)
<1>0. PICK t : t = queue[1]
  OBVIOUS
<1>1. /\ queue \in Seq(AnyTask) /\ queue # <<>> /\ qfirst = t
  BY <1>0, ChainTail DEF Dequeue, IInv, Types, Lists
<1>2. /\ queue' = Tail(queue) /\ ttask' = [ttask EXCEPT ![w] = t]
      /\ tpc' = [tpc EXCEPT ![w] = "run"]
  BY <1>1 DEF Dequeue, Goto
<1>3. /\ Elems(queue') = Elems(queue) \ {t} /\ t \in Elems(queue) /\ t \in AnyTask
      /\ Len(queue') = Len(queue) - 1 /\ Len(queue) \in Nat \ {0}
      /\ queue' \in Seq(AnyTask)
  BY <1>0, <1>1, <1>2, TailElems DEF IInv, Apart
<1>4. /\ tpc'[w] = "run" /\ ttask'[w] = t
      /\ \A v \in Thread \ {w} : tpc'[v] = tpc[v] /\ ttask'[v] = ttask[v]
  BY <1>2 DEF IInv, Types
<1>5. \A u \in Task \ {t} : Phase(u)' = Phase(u)
  BY <1>3, <1>4 DEF Phase
<1>6. CASE t = Exit
  <2>1. Len(queue) = 1
    <3>1. 1 \in 1 .. Len(queue) /\ queue[1] = Exit
      BY <1>0, <1>3, <1>6
    <3> QED BY <3>1 DEF ExitLast
  <2>2. Requested = SubSeq(queue, 1, Len(queue) - 1)
    BY <1>0, <1>1, <1>6, <2>1 DEF Requested
  <2>3. Requested \in Seq(AnyTask) /\ Len(Requested) = 0
    BY <1>1, <2>1, <2>2, ButLast
  <2>4. queue' = <<>>
    BY <1>3, <2>1
  <2>5. Requested' = Requested
    BY <2>3, <2>4 DEF Requested
  <2>6. [u \in Task |-> Stage(u)]' = [u \in Task |-> Stage(u)]
    BY <1>5, <1>6, PhaseStill
  <2> QED BY <2>5, <2>6 DEF Service!vars
<1>7. CASE t # Exit
  <2>1. t \in Task
    BY <1>3, <1>7 DEF AnyTask
  <2>2. Requested # <<>> /\ Head(Requested) = t /\ Requested' = Tail(Requested)
    <3>1. CASE queue[Len(queue)] = Exit
      <4>1. Len(queue) # 1
        BY <1>7, <3>1, <1>0
      <4>2. Requested = SubSeq(queue, 1, Len(queue) - 1)
        BY <1>1, <3>1 DEF Requested
      <4>3. Requested' = SubSeq(Tail(queue), 1, Len(Tail(queue)) - 1)
        BY <1>1, <1>2, <3>1, <4>1, ButLastTail DEF Requested
      <4> QED BY <1>1, <4>1, <4>2, <4>3, ButLastTail, <1>0
    <3>2. CASE queue[Len(queue)] # Exit
      <4>1. Requested = queue
        BY <3>2 DEF Requested
      <4>2. queue' # <<>> => queue'[Len(queue')] = queue[Len(queue)]
        <5>1. CASE Len(queue) = 1
          BY <1>3, <5>1
        <5>2. CASE Len(queue) # 1
          BY <1>1, <1>2, <5>2, ButLastTail
        <5> QED BY <5>1, <5>2
      <4>3. Requested' = Tail(queue)
        BY <1>2, <3>2, <4>2 DEF Requested
      <4> QED BY <1>1, <4>1, <4>3, <1>0
    <3> QED BY <3>1, <3>2
  <2>3. active[t]
    BY <1>3, <2>1 DEF IInv, Stages, Placed, Listed, Types
  <2>4. Phase(t) = "pending"
    BY <1>3, <2>3 DEF Phase
  <2>5. Phase(t)' = "running"
    <3>1. active'[t] /\ t \notin Elems(queue')
      BY <1>3, <2>3
    <3>2. \E v \in Thread : tpc'[v] = "run" /\ ttask'[v] = t
      BY <1>4
    <3> QED BY <3>1, <3>2 DEF Phase
  <2>6. Service!Move(t, "pending", "running")
    BY <1>5, <2>1, <2>4, <2>5, PhaseMove
  <2> QED BY <2>1, <2>2, <2>6 DEF Service!Next, Service!Start
<1> QED BY <1>6, <1>7

\* task->handler(): the task has run, or the thread ends.
LEMMA RunRefines ==
  ASSUME IInv, Phases, Phases', NEW w \in Thread, Run(w)
  PROVE  [Service!Next]_(Service!vars)
<1>0. PICK t : t = ttask[w]
  OBVIOUS
<1>1. /\ tpc[w] = "run" /\ UNCHANGED <<active, queue, ttask>>
      /\ tpc' = [tpc EXCEPT ![w] = IF t = Exit THEN "exited" ELSE "finish"]
  BY <1>0 DEF Run, Goto, poolVars
<1>2. /\ tpc'[w] # "run" /\ \A v \in Thread \ {w} : tpc'[v] = tpc[v]
  BY <1>1 DEF IInv, Types
<1>3. /\ t \in AnyTask /\ t \notin Elems(queue) /\ Held(w)
      /\ \A v \in Thread \ {w} : tpc[v] = "run" => ttask[v] # t
  BY <1>0, <1>1 DEF IInv, Apart, Listed, Held
<1>5. Requested' = Requested
  BY <1>1 DEF Requested
<1>6. \A u \in Task \ {t} : Phase(u)' = Phase(u)
  <2> TAKE u \in Task \ {t}
  <2>1. (\E v \in Thread : tpc'[v] = "run" /\ ttask'[v] = u)
            <=> \E v \in Thread : tpc[v] = "run" /\ ttask[v] = u
    BY <1>1, <1>2, <1>0
  <2> QED BY <1>1, <2>1 DEF Phase
<1>7. CASE t = Exit
  <2>1. [u \in Task |-> Stage(u)]' = [u \in Task |-> Stage(u)]
    BY <1>6, <1>7, PhaseStill
  <2> QED BY <1>5, <2>1 DEF Service!vars
<1>8. CASE t # Exit
  <2>1. t \in Task /\ active[t]
    BY <1>3, <1>0, <1>8 DEF AnyTask, IInv, Stages, Placed, Types
  <2>2. Phase(t) = "running"
    BY <1>1, <1>3, <1>0, <2>1 DEF Phase
  <2>3. Phase(t)' = "finished"
    <3>1. active'[t] /\ t \notin Elems(queue')
      BY <1>1, <1>3, <2>1
    <3>2. ~\E v \in Thread : tpc'[v] = "run" /\ ttask'[v] = t
      BY <1>1, <1>2, <1>3
    <3> QED BY <3>1, <3>2 DEF Phase
  <2>4. Service!Move(t, "running", "finished")
    BY <1>6, <2>1, <2>2, <2>3, PhaseMove
  <2> QED BY <1>5, <2>1, <2>4 DEF Service!Next, Service!Finish
<1> QED BY <1>7, <1>8

\* ngx_thread_pool_handler(): a task that ran is reported.
LEMMA DeliverRefines ==
  ASSUME IInv, Phases, Phases', Deliver
  PROVE  [Service!Next]_(Service!vars)
<1>0. PICK t : t = mtask
  OBVIOUS
<1>1. UNCHANGED <<queue, tpc, ttask>>
  BY DEF Deliver, poolVars
<1>2. Requested' = Requested
  BY <1>1 DEF Requested
<1>3. CASE mtask = Null
  <2>1. \A u \in Task : Phase(u)' = Phase(u)
    BY <1>1, <1>3 DEF Deliver, Phase
  <2>2. [u \in Task |-> Stage(u)]' = [u \in Task |-> Stage(u)]
    BY <2>1, PhaseStill
  <2> QED BY <1>2, <2>2 DEF Service!vars
<1>4. CASE mtask # Null
  <2>1. active' = [active EXCEPT ![t] = FALSE]
    BY <1>0, <1>4 DEF Deliver
  <2>2. t \in Elems(todo)
    <3>1. todo # <<>> /\ t = todo[1]
      BY <1>0, <1>4, ChainTail DEF IInv, Types, Lists
    <3> QED BY <3>1, TailElems DEF IInv, Types
  <2>3. /\ t \in AnyTask /\ t # Exit /\ t \notin Elems(queue)
        /\ \A v \in Thread : tpc[v] = "run" => ttask[v] # t
    BY <2>2, ElemsType DEF IInv, Types, Stages, Apart, Listed, Held
  <2>4. t \in Task /\ active[t]
    BY <2>2, <2>3 DEF AnyTask, IInv, Stages, Placed, Listed, Types
  <2>5. \A u \in Task \ {t} : Phase(u)' = Phase(u)
    BY <1>1, <2>1, <2>3 DEF Phase, IInv, Types, AnyTask
  <2>6. Phase(t) = "finished"
    <3>1. ~\E v \in Thread : tpc[v] = "run" /\ ttask[v] = t
      BY <2>3
    <3> QED BY <2>3, <2>4, <3>1 DEF Phase
  <2>7. Phase(t)' = "free"
    <3>1. ~active'[t]
      BY <2>1, <2>3 DEF IInv, Types
    <3> QED BY <3>1 DEF Phase
  <2>8. Service!Move(t, "finished", "free")
    BY <2>4, <2>5, <2>6, <2>7, PhaseMove
  <2> QED BY <1>2, <2>4, <2>8 DEF Service!Next, Service!Complete
<1> QED BY <1>3, <1>4

\* No other step is seen from outside.
LEMMA StillRefines ==
  ASSUME IInv, Phases, Phases', UNCHANGED queue, \A t \in Task : active'[t] = active[t],
         \A w \in Thread : /\ tpc'[w] = "run" <=> tpc[w] = "run"
                           /\ tpc[w] = "run" => ttask'[w] = ttask[w]
  PROVE  [Service!Next]_(Service!vars)
<1>1. \A u \in Task : Phase(u)' = Phase(u)
  BY DEF Phase
<1>2. [u \in Task |-> Stage(u)]' = [u \in Task |-> Stage(u)]
  BY <1>1, PhaseStill
<1> QED BY <1>2 DEF Requested, Service!vars

LEMMA StepRefines ==
  IInv /\ Phases /\ Phases' /\ ExitLast /\ [Next]_vars => [Service!Next]_(Service!vars)
<1> SUFFICES ASSUME IInv, Phases, Phases', ExitLast, [Next]_vars
             PROVE  [Service!Next]_(Service!vars)
  OBVIOUS
<1>1. ASSUME NEW w \in Thread, ThreadStep(w) \/ SpuriousWakeup(w)
      PROVE  [Service!Next]_(Service!vars)
  <2>1. CASE (Top(w) \/ Recheck(w)) /\ Dequeue(w)
    BY <2>1, DequeueRefines DEF Top, Recheck
  <2>2. CASE Run(w)
    BY <2>2, RunRefines
  <2>3. CASE ((Top(w) \/ Recheck(w)) /\ CondWait(w)) \/ SpuriousWakeup(w) \/ Finish(w)
               \/ AppendDone(w) \/ Notify(w)
    <3>1. /\ UNCHANGED <<queue, active>> /\ tpc[w] # "run"
          /\ \E l \in ThreadLabels \ {"run"} : tpc' = [tpc EXCEPT ![w] = l]
      BY <2>3 DEF Top, Recheck, CondWait, SpuriousWakeup, Finish, AppendDone, Notify, Goto,
           poolVars, ThreadLabels
    <3>2. UNCHANGED ttask \/ ttask' = [ttask EXCEPT ![w] = Null]
      BY <2>3 DEF Top, Recheck, CondWait, SpuriousWakeup, Finish, AppendDone, Notify
    <3>3. \A v \in Thread : /\ tpc'[v] = "run" <=> tpc[v] = "run"
                            /\ tpc[v] = "run" => ttask'[v] = ttask[v]
      BY <3>1, <3>2 DEF IInv, Types
    <3> QED BY <3>1, <3>3, StillRefines
  <2> QED BY <1>1, <2>1, <2>2, <2>3 DEF ThreadStep, Top, Recheck
<1>2. ASSUME NEW t \in Task, Post(t) PROVE [Service!Next]_(Service!vars)
  <2>1. t \in AnyTask /\ PostTask(t) /\ ~Placed(Exit)
    BY <1>2 DEF Post, IInv, Stages, AnyTask
  <2> QED BY <2>1, PostRefines
<1>3. CASE ExitPost /\ PostTask(Exit)
  <2>1. Exit \in AnyTask /\ ~Placed(Exit)
    BY <1>3 DEF ExitPost, IInv, Stages, AnyTask
  <2> QED BY <1>3, <2>1, PostRefines
<1>4. CASE Deliver
  BY <1>4, DeliverRefines
<1>5. CASE EpollWait \/ TakeDone \/ HandlerReturn \/ StartDestroy \/ Destroy \/ ExitSpin
             \/ (ExitPost /\ ~PostTask(Exit)) \/ Stopped \/ UNCHANGED vars
  <2>1. UNCHANGED <<queue, tpc, ttask>>
    BY <1>5 DEF EpollWait, TakeDone, HandlerReturn, StartDestroy, Destroy, ExitSpin, ExitPost,
         Stopped, vars, poolVars
  <2>2. \A t \in Task : active'[t] = active[t]
    BY <1>5 DEF EpollWait, TakeDone, HandlerReturn, StartDestroy, Destroy, ExitSpin, ExitPost,
         Stopped, vars, IInv, Types, AnyTask
  <2> QED BY <2>1, <2>2, StillRefines
<1> QED BY <1>1, <1>2, <1>3, <1>4, <1>5 DEF Next, MainStep

\* The pool is a task service: tasks start in the order in which they were posted,
\* run once, and are reported once, after they ran, whatever the threads, the
\* lists and the condition variable do in between, and also while the exit
\* tasks of ngx_thread_pool_destroy() go through the same queue.
THEOREM TaskServiceImplemented == Spec => ImplementsTaskService
<1>1. Init => Service!Init
  <2> SUFFICES ASSUME Init PROVE Service!Init
    OBVIOUS
  <2>1. IInv /\ queue = <<>> /\ \A t \in Task : ~active[t]
    BY InitInv DEF Init, AnyTask
  <2>2. Phases
    BY <2>1, StageIsPhase
  <2>3. [t \in Task |-> Stage(t)] = [t \in Task |-> "free"]
    BY <2>1, <2>2 DEF Phases, Phase
  <2> QED BY <2>1, <2>3 DEF Requested, Service!Init
<1>2. Init => ExitLast
  BY DEF Init, ExitLast
<1>3. Spec => []ExitLast
  BY <1>2, ExitLastStep, Invariance, PTL DEF Spec
<1>4. Spec => []Phases
  BY Invariance, StageIsPhase, PTL
<1> QED BY <1>1, <1>3, <1>4, Invariance, StepRefines, PTL
        DEF Spec, ImplementsTaskService, Service!Spec
=============================================================================
