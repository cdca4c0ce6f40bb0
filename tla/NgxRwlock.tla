----------------------------- MODULE NgxRwlock -----------------------------
(***************************************************************************)
(* core/ngx_rwlock.c: the spinning reader-writer lock in shared memory     *)
(* that guards the peers of an upstream zone.  One word holds the number   *)
(* of readers, or NGX_RWLOCK_WLOCK for a writer.                           *)
(*                                                                         *)
(* A step is one access to the word: a load, or a compare-and-set.  Where  *)
(* the code tests *lock before a compare-and-set with a constant, the test *)
(* only saves the attempt and the two are one step.  The spin loops and    *)
(* sched_yield() are the waiting of a step.                                *)
(***************************************************************************)
EXTENDS Integers, FiniteSets

CONSTANTS
    User,       \* the worker processes
    WLOCK       \* NGX_RWLOCK_WLOCK, the largest value of the word

\* The word is wide enough to count the workers.
ASSUME RwlockAssumption ==
    /\ IsFiniteSet(User)
    /\ WLOCK \in Nat
    /\ Cardinality(User) < WLOCK

VARIABLES
    rwlock,     \* the word, as an upstream zone names it
    at,         \* where each worker is
    readers,    \* its local copy of the word
    mode        \* history: how it holds the lock, dead or alive

rwVars == <<rwlock, at, readers, mode>>

RwGoto(p, l) == at' = [at EXCEPT ![p] = l]

\* Arithmetic on the word wraps around.
Inc(x) == IF x = WLOCK THEN 0 ELSE x + 1
Dec(x) == IF x = 0 THEN WLOCK ELSE x - 1

RwInit ==
    /\ rwlock = 0
    /\ at = [p \in User |-> "idle"]
    /\ readers = [p \in User |-> 0]
    /\ mode = [p \in User |-> "none"]

-----------------------------------------------------------------------------
(* ngx_rwlock_wlock() *)

WlockCall(p) ==
    /\ at[p] = "idle" /\ RwGoto(p, "wtry")
    /\ UNCHANGED <<rwlock, readers, mode>>

Wtry(p) ==
    /\ at[p] = "wtry"
    /\ rwlock = 0
    /\ rwlock' = WLOCK
    /\ mode' = [mode EXCEPT ![p] = "write"]
    /\ RwGoto(p, "in")
    /\ UNCHANGED readers

(* ngx_rwlock_rlock() *)

RlockCall(p) ==
    /\ at[p] = "idle" /\ RwGoto(p, "rload")
    /\ UNCHANGED <<rwlock, readers, mode>>

Rload(p) ==
    /\ at[p] = "rload"
    /\ rwlock # WLOCK
    /\ readers' = [readers EXCEPT ![p] = rwlock]
    /\ RwGoto(p, "rcas")
    /\ UNCHANGED <<rwlock, mode>>

Rcas(p) ==
    /\ at[p] = "rcas"
    /\ IF rwlock = readers[p]
       THEN /\ rwlock' = Inc(rwlock)
            /\ mode' = [mode EXCEPT ![p] = "read"]
            /\ RwGoto(p, "in")
       ELSE /\ RwGoto(p, "rload")
            /\ UNCHANGED <<rwlock, mode>>
    /\ UNCHANGED readers

(* ngx_rwlock_unlock() *)

UnlockCall(p) ==
    /\ at[p] = "in" /\ RwGoto(p, "uload")
    /\ UNCHANGED <<rwlock, readers, mode>>

Uload(p) ==
    /\ at[p] = "uload"
    /\ readers' = [readers EXCEPT ![p] = rwlock]
    /\ RwGoto(p, IF rwlock = WLOCK THEN "uwrite" ELSE "ucas")
    /\ UNCHANGED <<rwlock, mode>>

Release(p) ==
    /\ mode' = [mode EXCEPT ![p] = "none"]
    /\ RwGoto(p, "idle")

Uwrite(p) ==
    /\ at[p] = "uwrite"
    /\ rwlock' = IF rwlock = WLOCK THEN 0 ELSE rwlock
    /\ Release(p)
    /\ UNCHANGED readers

\* Mutant: a plain store instead of the compare-and-set.
UcasStores(p) ==
    /\ at[p] = "ucas"
    /\ rwlock' = Dec(readers[p])
    /\ Release(p)
    /\ UNCHANGED readers

Ucas(p) ==
    /\ at[p] = "ucas"
    /\ IF rwlock = readers[p]
       THEN /\ rwlock' = Dec(rwlock)
            /\ Release(p)
       ELSE /\ RwGoto(p, "ureload")
            /\ UNCHANGED <<rwlock, mode>>
    /\ UNCHANGED readers

\* Mutant: the copy is not refreshed.
UreloadStale(p) ==
    /\ at[p] = "ureload"
    /\ RwGoto(p, "ucas")
    /\ UNCHANGED <<rwlock, readers, mode>>

\* The copy is refreshed without another look at NGX_RWLOCK_WLOCK.
Ureload(p) ==
    /\ at[p] = "ureload"
    /\ readers' = [readers EXCEPT ![p] = rwlock]
    /\ RwGoto(p, "ucas")
    /\ UNCHANGED <<rwlock, mode>>

(* ngx_rwlock_downgrade() *)

DowngradeLoad(p) ==
    /\ at[p] = "in"
    /\ rwlock = WLOCK
    /\ RwGoto(p, "dstore")
    /\ UNCHANGED <<rwlock, readers, mode>>

\* Mutant: the writer does not count itself as a reader.
DowngradeStoreZero(p) ==
    /\ at[p] = "dstore"
    /\ rwlock' = 0
    /\ mode' = [mode EXCEPT ![p] = "read"]
    /\ RwGoto(p, "in")
    /\ UNCHANGED readers

DowngradeStore(p) ==
    /\ at[p] = "dstore"
    /\ rwlock' = 1
    /\ mode' = [mode EXCEPT ![p] = "read"]
    /\ RwGoto(p, "in")
    /\ UNCHANGED readers

\* A worker is killed: nothing of ngx_rwlock is cleaned up behind it.
Die(p) ==
    /\ at[p] # "dead" /\ RwGoto(p, "dead")
    /\ UNCHANGED <<rwlock, readers, mode>>

-----------------------------------------------------------------------------
\* The steps a worker that is inside a call, or between lock and unlock, takes.
Step(p) ==
    \/ Wtry(p) \/ Rload(p) \/ Rcas(p) \/ UnlockCall(p) \/ Uload(p)
    \/ Uwrite(p) \/ Ucas(p) \/ Ureload(p) \/ DowngradeStore(p)

Call(p) == WlockCall(p) \/ RlockCall(p) \/ DowngradeLoad(p)

RwNext == \E p \in User : Step(p) \/ Call(p) \/ Die(p)

RwSpec == RwInit /\ [][RwNext]_rwVars

\* A worker that is inside a call, or has the lock, goes on unless it is killed.
FairRwSpec == RwSpec /\ \A p \in User : WF_rwVars(Step(p))

-----------------------------------------------------------------------------
(* Properties *)

ReadersIn == {p \in User : mode[p] = "read"}
WritersIn == {p \in User : mode[p] = "write"}

Outside == {"idle", "rload", "rcas", "wtry"}
Inside == {"in", "uload", "uwrite", "ucas", "ureload", "dstore"}

\* The types; a worker that is about to count itself in has seen no writer
\* (the test `readers != NGX_RWLOCK_WLOCK' of ngx_rwlock_rlock()).
RwTypeOK ==
    /\ rwlock \in 0 .. WLOCK
    /\ at \in [User -> Outside \cup Inside \cup {"dead"}]
    /\ readers \in [User -> 0 .. WLOCK]
    /\ mode \in [User -> {"none", "read", "write"}]
    /\ \A p \in User : at[p] = "rcas" => readers[p] # WLOCK

\* A writer is alone, whoever is killed where.
Exclusion ==
    \A p, q \in User : mode[p] = "write" /\ mode[q] # "none" => p = q

\* The word counts exactly the readers inside, dead ones included: it is
\* WLOCK for a writer and never for a count, and no stale copy is stored.
LockCounts ==
    /\ rwlock = WLOCK <=> WritersIn # {}
    /\ rwlock # WLOCK => rwlock = Cardinality(ReadersIn)

\* The lock refines the monitor of readers and writers.
Monitor == INSTANCE RwMonitor
    WITH Proc <- User, readersIn <- ReadersIn, writersIn <- WritersIn
ImplementsRwMonitor == Monitor!Spec

\* When a worker waits, some worker gets the lock, unless one was killed:
\* failing compare-and-sets and stale copies never stop everybody.
RwProgress ==
    (\E p \in User : at[p] \in {"wtry", "rload", "rcas"})
        ~> (\E p \in User : at[p] \in {"in", "dead"})
=============================================================================
