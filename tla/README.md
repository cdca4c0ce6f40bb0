# A TLA+ model of rebuild-the-wheel

The repository is a reading room: open-source programs (nginx 1.14.0 with
annotations, tinyhttpd, webbench, cJSON, several STLs, libevent) and the author's
own rebuildings of some of them. There is no single system, so this project
models the parts whose correctness hangs on interleavings, crashes and shared
state, one family of modules per program:

| program | modules | what they are about |
|---|---|---|
| nginx shared-memory mutex | `NgxShmtx`, `RobustLock`, `NgxLocks_proofs` | a lock word, a waiter count and a semaphore shared by processes that may be killed |
| nginx reader-writer lock | `NgxRwlock`, `RwMonitor`, `NgxLocks_proofs` | one word, copied and compared-and-set |
| nginx thread pool | `NgxThreadPool`, `TaskService`, `NgxThreadPool_proofs` | three linked lists over one `next` field, a condition variable, an eventfd, a shutdown |
| nginx master and workers | `NgxProcessCycle`, `NgxProcessCycle_proofs` | signals, flags, the process table, reload, binary upgrade, shutdown |
| nginx accept mutex | `NgxAcceptMutex`, `RobustLock`, `NgxAcceptMutex_proofs` | which worker listens: mutex, flag and registration change at three different times |
| nginx connections | `NgxConnection`, `NgxConnection_proofs` | slots used again while events of their former use are on the way |
| nginx upstream round robin | `NgxUpstreamRR`, `MCUpstreamRR`, `NgxUpstreamRR_proofs` | weights, failures and connection counts shared by the requests of all workers |
| webbench, original and rebuilt | `WebBench`, `WebBench_proofs` | forked clients, an alarm, a report pipe |
| tinyhttpd | `TinyHttpd`, `TinyHttpd_proofs`, `HttpdGetLine` | threads and CGI processes that share descriptors and pipes; lines read from a socket |

Paths below are relative to `src/`; nginx files to
`src/nginx/nginx-1.14.0-research-master/src/`.

## 1. Inventory

### nginx shared-memory mutex — `core/ngx_shmtx.c`, `os/unix/ngx_process.c`

State: the lock word (owner's pid or 0), the waiter count, a POSIX semaphore, all
in shared memory. Operations: `ngx_shmtx_create`, `trylock`, `lock` (spin, count
oneself in, try once more, sleep), `unlock`, `wakeup`, `force_unlock`. It is used
by the slab allocator and through it by every shared zone (limit_conn, limit_req,
caches, upstream zones), and without a semaphore as the accept mutex. The master
calls `ngx_unlock_mutexes()` for each worker it reaps, in its SIGCHLD handler;
`ngx_reap_children()` starts a new worker later. Hard: the lost wakeup between
release and sleep, a kill between any two accesses, a reused pid. Correct when a
live owner is alone, nobody sleeps beside a free mutex, waiters and tokens are
conserved, a dead owner's mutex comes free.

### nginx reader-writer lock — `core/ngx_rwlock.c`

State: one word, the number of readers or `NGX_RWLOCK_WLOCK`. Operations: wlock,
rlock, unlock, downgrade. Used by the upstream zone (`http/ngx_http_upstream_round_robin.h:87-125`)
around the peers. Hard: the copy of the word is old when it is used; downgrade
tests and stores in two steps; nobody cleans up behind a killed worker. Correct
when a writer is alone and the word counts exactly who is inside.

### nginx thread pool — `core/ngx_thread_pool.c`

State: the queue (`first`, the address `last` of the last `next` field, `waiting`,
mutex, condition variable), the list of finished tasks shared by all pools (a
spinlock), `active` of each task. Operations: post (event loop), the loop of a
thread, the completion handler (event loop, woken through the eventfd of
`event/modules/ngx_epoll_module.c`), destroy (one exit task per thread). Hard: the
lists share one `next` field, the counter goes negative, signal comes before the
link, notifications coalesce, an exit task on the stack is posted repeatedly.
Correct when a task is in one place at a time, runs once, starts in order, is
completed once, never waits while every thread sleeps, and the shutdown never
destroys what a thread still uses.

### nginx master and worker cycle — `os/unix/ngx_process_cycle.c`, `os/unix/ngx_process.c`

State: the flags that the signal handlers set (`ngx_terminate`, `ngx_quit`,
`ngx_reap`, ...), `live`, `delay`, `sigio`, the interval timer, `ngx_new_binary`,
`ngx_noaccepting`, and the table `ngx_processes[]` with a handful of bits per slot.
Operations: the branches of the master's loop (reap, terminate, quit,
reconfigure, restart, reopen, change_binary, noaccept), the handler of every
signal, spawning, signalling over the channel or by `kill`, and of the workers
reading a command and ending. Hard: several flags at a time and one `continue`
among them, a slot used again in the middle of a reload, a worker that dies,
hangs or cannot be started, a new binary that ends. Correct when as many workers
run as configured, all with the present configuration, nobody is brought back
who was told to stop, and a shutdown ends without leaving a worker behind.

### nginx accept mutex and event loop — `event/ngx_event.c`, `event/ngx_event_accept.c`

State: the shared word, and in each worker `ngx_accept_mutex_held`,
`ngx_accept_disabled`, the listening sockets that are registered in its epoll, the
posted accept events, the free connections. Operations: one cycle of
`ngx_process_events_and_timers()`, trylock with enable and disable, the accept
handler with its errors (EAGAIN, ECONNABORTED, EMFILE/ENFILE), release, the timers
of sockets that ran out of descriptors, kill, reap, respawn. Hard: the mutex is
given up while the sockets stay registered; the flag outlives the mutex; a full
descriptor table makes a worker disable its sockets while it owns the mutex; an
`epoll_ctl()` that fails leaves part of the sockets registered or removed.
Correct when the owner that sleeps listens everywhere, accept events that are
held back are handled under the mutex, and every client is accepted in the end.

### nginx connections and epoll events — `core/ngx_connection.c`, `event/modules/ngx_epoll_module.c`

State: the free list, the reusable queue, for each connection its descriptor,
the instance bit and the registered directions; the batch of `epoll_wait()`, the
posted events. Operations: get (draining reusable connections), free, close,
reusable, add and del of an event, one cycle of `ngx_epoll_process_events()`. Hard: an
event of the batch may belong to a connection that was closed and taken again.
Correct when the list holds exactly the closed connections, a posted event finds
the connection it was posted for, and an event reaches the use it was meant for.

### nginx upstream round robin — `http/ngx_http_upstream_round_robin.c`, `http/ngx_http_upstream.c`

State: for each peer in the zone `current_weight`, `effective_weight`, `conns`,
`fails`, `accessed`, `checked`; for each request the group it looks at, the bitmap
of tried peers, the peer it holds, the tries left. Operations: get (single peer,
smooth weighted choice, turning to the backups), free (good, failed, next), and
the calls of `ngx_http_upstream_connect`, `_next`, `_finalize_request` around them;
workers that die. Hard: each get has one free over retries and failures; a failed
peer is to be tried by one request of all workers at a time; the weights drift
when peers come and go. Correct as the four properties of the run `upstream` say.

### webbench — `webbench/webbench1.50_src/`, `webbench/rebuild_mywebbench/mywebbench.c`

State: the parent's totals and its count of reports to come; in each child the
flag of the alarm, three counters, the descriptors; the pipe. Operations: probe,
fork, request loop (`benchcore`), `Socket`, report, adding up. Hard: the alarm
falls between a test and a blocking call, what the cut request is counted as, the
end of file of a pipe whose reader holds a write end, killed children,
descriptors left open by failed connects. Correct when every report is added
once, and a report is off by no more than the request the alarm cut.

### tinyhttpd — `tinyhttpd/tinyhttpd_src/httpd.c`

State: the process's descriptor table shared by all threads and copied by each
`fork`, two pipes per CGI request, the answer on the socket. Operations: accept,
`accept_request`, `serve_file`, `cat`, `execute_cgi` in both processes, the error
answers, `get_line`. Hard: a CGI process inherits the pipes and sockets of the
other requests, the status is sent by both processes, the body is written before
any output is read, SIGPIPE, a full table, returns that forget a close. Correct
when a served client gets all that its script wrote, no descriptor is forgotten,
and every request ends.

## 2. The modules and the code

A word on all of them: a history variable (declared as such) records what
happened and guides no action. Operators commented as a mutant are plausible
bugs in the definition below them; no action uses them, and `PROJECT.json` pairs
each with the property it breaks.

**`NgxShmtx`** takes each atomic operation as a step. `lock`, `wait`, `sem` are the
shared words; `pc` says where a process is: `try` (spin loop), `enroll`
(fetch_add +1), `retry`, `unenroll` (fetch_add -1), `sleep` (sem_wait), `cs`, and in
wakeup `wread`, `wcas`, `post`. `*lock == 0 && cmp_set(lock, 0, pid)` is one step,
because when it fails there was an instant at which the word was not 0. Spinning
and EINTR are stuttering. `Crash` kills anywhere; `Reap`, `ForceUnlock` and the
wakeup that follows are the master's handler, which runs to its end before
`Respawn` may bring the pid back. `leak` and `lostWakers` are histories that say
what kills left behind. `semaphore` is chosen once, in `Init`: without one the mutex
is the accept mutex, where a process only spins or leaves.
`RobustLock` is the abstract lock: acquire, release, die, recover on behalf of the
dead, come back owning nothing.

**`NgxRwlock`** takes each load and each compare-and-set as a step, with the local
copy copy in `readers`; `mode` is the history of who holds what, kept when a worker is
killed because the code keeps it. `RwMonitor` is the abstract monitor.

**`NgxThreadPool`** takes what is done under the mutex, or under the spinlock, as a
step, and everything outside as steps of its own: the handler of a task,
`task->next = NULL`, the write to the eventfd, epoll reporting the edge, the
handler taking the list, each turn of its loop. `next`, `qfirst`, `qlast`, `dfirst`,
`dlast`, `mtask` are the pointers; `queue`, `done`, `todo` are histories, the
sequences the pointers are supposed to spell (`ListShape`). A completion handler
may post (`Post` is enabled in `handler`). `pthread_cond_wait` may return
spuriously. `TaskService` is the abstract service: submitted, started in order,
finished, completed.

**`NgxProcessCycle`** has the master's loop with one action per branch; `pc` names the
branch, and `From(k, f)` finds the next one whose flag is set. All signals are
blocked outside `sigsuspend()`, so `pending` collects them, and `Sigsuspend` runs the
handlers, `ngx_process_get_status()` included. A set of slots stands for each bit of
`ngx_process_t`; `proc` is what the kernel knows of a slot. A command over the channel
and the `kill()` that replaces it have one effect, so they are one. A signal of the
administrator arrives at `sigsuspend()`: one that comes earlier waits until then
anyway. The `reconfigure` branch is three actions (with a new binary, failing,
succeeding) and the signal to the old workers one more, because workers may die
in the 100 ms between (`ShutdownOld`). `gen` and `cycle` are histories of the
configuration, `lost` one of failed spawns. Workers read commands, finish, die,
hang and exit with status 2.

**`NgxAcceptMutex`** takes a cycle of a worker in few steps: before the mutex, after
trylock, `wait` (epoll_wait), `accept` (one event of the batch per step, held back
by `NGX_POST_EVENTS` or not), `rest`. What a worker does between two accesses to
the shared word, the backlogs and its own epoll is seen by nobody else. A
connection is a number of the worker's, a client a number of the socket's backlog.
`useMutex` and `multi` (multi_accept) are chosen in `Init`. The mutex is the word
with compare-and-set; `Abstract` is the same `RobustLock` that `NgxShmtx` implements,
which is how the two modules compose. Enabling and disabling go through the sockets in
the order of `cycle->listening` (`Sockets` are their places) and may fail at any of them:
`EnableFails`, `DisableFails`, and each caller has the branch the code has for it. `halfway` is
a history, true from such a failure to the next complete call of either; `timedout` are
the events whose `ev->timedout` a failing enable has left set. All faults, kills
included, are counted by `MaxFaults`.

**`NgxConnection`** is one worker. `free` and `reusable` are sequences, `instance`, `active`
functions of the slot, `batch` the events not yet worked on. A handler
(`in_read`, `in_write`, `in_timer`, `in_posted`) may call any of `Get`, `Close`, `Reusable`,
`Add`, `Del`, `Post`, for its own connection or any other, any number of times; `use` counts how
often a slot was taken, as a history. The kernel reports any subset of what is
registered.

**`NgxUpstreamRR`** has get and free as one action each, as the code runs them under
the lock of the peers, except that `Failover` to the backups releases it. `req` is
what a request keeps. One clock stands for the cached times of the workers, one
`FailTimeout` for all servers, and a server has one address. The peers of a dead
worker's requests keep their counts (`Crash`), because nothing in the code gives
them back. `MCUpstreamRR` has the server lists and the symmetry of the run.

**`WebBench`** has the parent (`ppc`: `probe`, `fork`, `read`, `ended`) and the children
(`cpc`). connect() and read() take two steps, entering and returning, so that
`Alarm` may fall in front of the call (only the flag is set) or inside it (EINTR).
`program` says which of the two programs runs; they differ in three places of
`benchcore`, where `Rebuilt` appears. `pages`, `errs`, `cause` are histories.

**`TinyHttpd`** keeps for each process its set of descriptors, pairs of a kind and a
connection; `fork` copies the whole set, exec keeps it, exit drops it, and the end
of file of a pipe is the emptiness of `Holders`. Scripts are external: `polite`
(reads the body, then writes), `eager` (writes, then reads), `slurp` (reads to the
end of file), `deaf` (reads nothing), `noexec` (execl fails). Blocks stand for
bytes. A death of the server stops the model.

**`HttpdGetLine`** has one turn of the loop of `get_line` as an action, with a byte (`GetChar`, which
takes the line feed behind a carriage return with it) or without (`NoMore`), and its return to the loop that
discards the headers as another (`ReadHeader`). `Normal` is the reference: what was sent with every
line end made one.

## 3. Runs

| run | instance | what it shows |
|---|---|---|
| `shmtx` | 3 workers, 2 kills, with and without semaphore | exclusion, waiters and tokens conserved, no lost wakeup, refinement of `RobustLock`; with fairness, progress and the recovery of a dead owner's mutex |
| `rwlock` | 3 workers, any kills | exact counts, refinement of `RwMonitor`, progress |
| `pool` | 3 threads, 2 tasks, queue limit 1, 5 posts | lists, counters, no stall, shutdown, refinement of `TaskService`; every accepted task is completed, a shutdown ends |
| `master` | 3 slots, 1 worker, any 3 of 6 signals, 1 fault | enough workers, one configuration, nobody brought back, no worker left, shutdown ends, replacement |
| `accept` | 2 workers, 2 sockets, 16 connections of which 0 or 12 are in use, 2 clients, 1 close, 2 faults | who owns listens, refinement of `RobustLock`, every client is accepted |
| `connections` | 2 slots, 5 uses, batches of 2 | free list, posted events, stale events |
| `upstream` | 4 server lists, 2 requests, 6 gets, 2 faults, clock to 4, fail_timeout 1 | exact counts, smooth choice, no peer twice, one probe in a fail_timeout |
| `webbench` | 2 children, 1 killed, 2 requests, 1 descriptor, both programs | reports conserved, counters off by at most one, descriptors, the end |
| `tinyhttpd` | 2 connections, 7 kinds of request, 5 kinds of script, bodies and outputs of 2 blocks in pipes of 1, 7 descriptors, failing calls, 1 hang-up | whole answers, nothing left open, no death but for the listed reasons, every request and connection ends |
| `get_line` | buffer of 4, all requests of up to 7 bytes over CR, LF, other | nothing lost, lines terminated, the body starts behind the blank line |
| `webbench_death`, `master_orphans` | see below | disagreements between the code and what it says |

Why the bounds are enough. Three workers are an owner, a sleeper and one that
overtakes it; two kills put one dead worker behind another while the master is in
its handler. Three workers on the reader-writer lock make one that leaves, one
that enters and one that makes the compare-and-set of both fail. Three threads and
two tasks make the lists empty, single and longer, a wakeup while another thread
arrives by itself, a task posted again while the other waits; five posts over a
limit of one fill the queue beyond it. One configured worker in three slots has
room for the old worker, the new one and a new binary, and none for a fourth, so
spawning may find the table full; three signals are what a reload during an upgrade
or a quit behind a reload takes. With 16 connections, 12 in use make
`ngx_accept_disabled` positive at once and 0 never. A slot taken three times is what
the instance bit needs to be fooled; five uses of two slots reach that with the
other slot in use. The four server lists are a single peer, two peers with a
backup, one peer that is down with two backups, and weights 3, 1 and 2; the clock allows a probe, its failure and
the next probe. Two children end in either order; one descriptor is one a failed
connect can use up. Two connections are what it takes for a CGI process to inherit
a foreign pipe; bodies longer than the pipe make the server block in write; seven
descriptors are fewer than two CGI requests need. Seven bytes are a line that
fills a buffer of four, its rest, and a blank line. Every bound appears in a guard:
`MaxCrash`, `MaxPost`, `MaxSignals`, `MaxFaults`, `MaxClients`, `MaxCloses`, `MaxGets`, `MaxBatch`,
`MaxTime`, `MaxTry`, `MaxDead`, `MaxFd` (a real limit), `MaxHang`, `MaxLen`.

Deadlock is checked for the thread pool. In the other runs TLC's check is off
because the system may stop: all processes of the mutex may be killed, the master exits, webbench and the
header loop come to their end, a server may die, all users of the reader-writer
lock may be killed, no client may come, and the bounds on uses, gets and the clock
are reached. That nobody waits for ever is said there by `ShutdownEnds`, `Replaced`,
`Accepted`, `Progress`, `RwProgress`, `Ends`, `Answered` and `ConnectionEnds`.

### Fairness

- `NgxShmtx`: weak fairness for each step inside lock, unlock and wakeup, for the
  end of a critical section, for reaping and the forced unlock. The scheduler runs
  every process, and the kernel delivers SIGCHLD. Asking for the mutex, being
  killed and being respawned are free. `Progress` excuses only the kill of the last
  one that waits and of one that carried the wakeup.
- `NgxRwlock`: weak fairness for each worker inside a call or with the lock; critical
  sections of the users end. A worker killed inside blocks the rest, so `RwProgress`
  excuses it; nothing is claimed for each single writer, as readers may keep one out.
- `NgxThreadPool`: weak fairness for the main thread and for each thread; the
  mutex and the spinlock are held for a few instructions, so each acquisition is a
  step that becomes possible. Handlers return. Posts and the exit are free. Waking
  needs no fairness: `pthread_cond_signal` is part of the post.
- `NgxProcessCycle`: the master runs, the interval timer goes off, and each worker that
  does not hang reads its commands and finishes. Signals and faults are free.
- `NgxAcceptMutex`: weak fairness for each worker and for the master that reaps and
  respawns; strong fairness for the timers, which expire although the worker passes
  through states in which they are not looked at: the time goes on meanwhile.
- `NgxConnection`, `NgxUpstreamRR`: none; their properties are about safety.
- `WebBench`: processes run and alarms go off (`FairSpec`); the server answers
  every call (`ServedSpec`, which both runs use).
- `TinyHttpd`: threads and processes run, and scripts make progress when their
  pipes let them. Clients need not connect.

### What the code does not keep

- `webbench_death`: "Some of our childrens died." (webbench.c:436) cannot be printed:
  the parent keeps its own write end of the pipe, so `fscanf` never sees the end
  of the file and the parent waits for ever for the report of a killed child.
- `master_orphans`: the comment at ngx_process_cycle.c:197 says that the master exits when
  no child lives. A reload during a binary upgrade starts workers without `live = 1`
  (:258); behind WINCH, which ended all workers and cleared `live`, HUP starts one
  and QUIT makes the master exit at once and leave it behind. `LeavesNoWorker` shows that
  without a new binary this does not happen.

Also seen while modelling, without a run of their own:

- Master. After a failed USR2 `ngx_new_binary` stays -1, so a HUP takes the branch
  of an upgrade and starts a second set of workers. `noaccepting` stays set
  when a HUP without a new binary follows a WINCH. A respawn that fails leaves its slot in use with an old pid. `live` is set
  though no worker could be started, and no SIGCHLD will clear it: a master without
  children does not leave its shutdown (`Childless`, excepted in `ShutdownEnds`).
- Accept mutex. A worker with `ngx_accept_disabled > 0` skips trylock but keeps its
  sockets registered, and accepts without the mutex (ngx_event.c:193, :248). A worker that met ENFILE
  and has no connection of its own sleeps without a timer, against the comment at
  ngx_event.c:250. When `ngx_disable_accept_events()` fails halfway in trylock
  (ngx_event_accept.c:760) the worker keeps `ngx_accept_mutex_held` with part of its sockets
  registered, and the next trylock that succeeds (:731) registers nothing: the
  owner sleeps on too few sockets, possibly without a timeout, and time and again
  while nobody else takes the mutex; the same behind :139, where the handler returns
  before it gives the mutex up. When enabling fails halfway the mutex is given back
  with some sockets registered and the flag not set, against "如未获取则不监听端口"
  (ngx_event.c:255, ngx_event_accept.c:713), until the next complete enable. Without
  the mutex a failed `epoll_ctl()` at the end of the timer has no second timer: `ev->timedout`
  stays set, and only a later event of that socket, which must still be
  registered for it, tries again. `OwnerListens` leaves these windows out by `halfway`, `Accepted` by
  `Deaf`; TLC finds each property violated without its exception.
- Connections. One bit tells two uses of a slot apart: an event of the batch goes
  astray when the slot was taken twice since (`StalePassedOver` says so exactly).
- Upstream. `fails` is reset by the free of a request that got its peer before the
  failures, where the comment at ngx_http_upstream_round_robin.c:666 speaks of a passed check. The `conns` of a
  killed worker are never given back in a zone.
- webbench. The alarm may come between the test of the flag and the blocking call
  and is not repeated: with a server that does not answer the child stays,
  although README.MD:31 says that it leaves its loop (`TimerEnds`). The read loop of
  mywebbench.c (:214) does not look at the timer at all. `bench()` returns the last speed it read
  (webbench.c:455) where :12 documents 0; webbench.c counts a page the timer cuts as a
  success (:501, against the comment at :30).
- tinyhttpd. `cat()` says it puts out the entire contents (httpd.c:157); it tests `feof`
  behind `fgets` (:168) and never sends a last line without a line feed. With an output
  longer than a pipe and a script that writes before it reads, the server and the script wait for
  each other, and so they do with a script that reads its input to the end of file
  (`Wedged`, excepted in `Answered` and `ConnectionEnds`).

## 4. Proofs

Eight modules of proofs hold for every value of the constants their assumptions
allow; the assumptions say little more than that sets are finite and numbers are
natural.

**Shared-memory mutex** (`NgxShmtxAssumption`: the workers are finite, the master is
none of them, no pid is 0). `TypeCorrect` is inductive by itself. `Mutex` is not: a
forced unlock could take the mutex from a live owner with the victim's pid. The
inductive invariant `Safe` adds `VictimInv` (the pid the master
forces open is that of a worker that is reaped and not yet replaced) and `ReapedInv`
(a reaped worker that the mutex still names is the master's victim), from which
`MutexCorrect` and `RobustLockImplemented` follow; the latter maps each action to
its abstract one. `BalanceCorrect` and `SemBoundedCorrect` are proved from `Counted`, over the
cardinalities of the enrolled and posting processes: `CountStep` says what one change of
a program counter does to them, and each action is an instance of it.
`NoLostWakeupCorrect` needs the stronger `Woken`, whose lemma `WakeupOnItsWay` says
that when somebody sleeps and the count is not positive, a token or an owed post is
there.

**Reader-writer lock** (`RwlockAssumption`: finitely many workers, fewer than
`NGX_RWLOCK_WLOCK`; with as many readers as that, the count would read as a
writer). `RwIInv` is `RwTypeOK`, `Placed` (a worker's mode agrees
with where it is), `Exclusion` and `LockCounts`. The proof goes through `Effect`: every step is one of six
things to the word and the modes (nothing, a writer or a reader entering or
leaving, a downgrade), and `RwCountStep` and `MonitorStep` look only at those six.
`RwTypeCorrect`, `ExclusionCorrect`, `LockCountsCorrect` and `MonitorImplemented` follow.
`NgxLocks_proofs` holds the proofs of both locks; that is why the names of `NgxRwlock` differ from those of
`NgxShmtx` (`RwSpec`, `rwlock`, `at`, ...).

**Thread pool** (`NgxThreadPoolAssumption`). A list of the pool is sound because its
tasks are in no other list, and in no thread, while somebody writes their `next`
fields. So `IInv` says where each task is (`Apart`), what the lists are (`Lists`, with
`Chain`: the pointers from the first task to the tail spell the sequence), and what each
place implies for the task (`Stages`, `Runs`). Appending, taking the head and taking
the whole list are lemmas about `Chain`; each action is one of them for one list and leaves
the other two alone. `ListShapeCorrect` follows. `NoStallCorrect` is then inductive over
`IInv`, by counting idle and woken threads, and `DestroyedUnusedCorrect` adds
`Shutdown`, which ties the threads that ended to the exit tasks posted.
`TaskServiceImplemented`: the stage of a task in the abstract service is read off the
places `IInv` gives it (`StageIsPhase`), and the accepted tasks that wait are the queue without the exit
task, which is always its last element (`ExitLast`); then each action is one of the four of the service,
or a stutter.

**Process cycle.** `NotBroughtBackCorrect` needs that the branches that start processes are
reached only when neither `terminate` nor `quit` is set (`BranchInv`). `SameConfigCorrect`
rests on the types and on `Current`: every live worker in service has the
present configuration, but for the old ones between `start_worker_processes` and the
signal to them, and `just_spawn` is set nowhere outside that window. Signalling,
spawning and starting are lemmas (`SignalWorkersStep`, `RunStep`, `StartWorkersStep`) that the branches share.
`ServedCorrect` and `LeavesNoWorkerCorrect` come from `Whole`, which adds three things: `Accounted`
(a slot is in use for a process the kernel knows or for one whose end was noted, and while
nothing was lost the ends are noted only on the way to `ngx_reap_children()` and every worker
in service is to be respawned), `Staffed` (in the middle of a reload the new workers
are already enough) and `Ended` (`live` is 0 with workers left only when there is or was a new
binary: the case of `master_orphans`).

**Accept mutex.** `OwnerListensCorrect` and `RobustLockImplemented` follow from `OwnerInv`
(the word names a worker only between trylock and release, and the worker knows
it), `HeldInv` (`ngx_accept_mutex_held` stands for the registered sockets, owner or not,
but for a worker whose last enable or disable failed halfway) and `ModeInv` (without the
mutex nothing is held back, with it no socket has a timer). The flag outlives the
mutex, so that the owner listens is not inductive by itself: `HeldInv` says it of
everybody who has the flag. Four lemmas (`EnableOwn` to `DisableFailsOwn`) say what a
complete and a failing call leave of the sockets.

**Connections.** The bit is the parity of how often the slot was taken (`BitInv`), and an
event carries the bit of a use that is not later than the present one (`BatchInv`);
so equal bits mean the same use or two uses between, which is `StalePassedOverCorrect`.
`PostedOwnCorrect` follows from the closing of a connection taking its posted
events out, with the free list injective and disjoint from the open connections.
`ListsSoundCorrect` takes the same and the queue of reusable connections, from which
`ngx_get_connection()` drains while it takes a slot.

**Upstream round robin.** `ConnsExactCorrect` counts the holders of each peer over all
ways to get and to give back; `TriedOnceCorrect` rests on `TriedInv` (the bitmap holds
what the request got from its present group); `ProbeSpacedCorrect` on `ProbeInv` (the
`checked` time of a failed peer is not earlier than its last failure or try). The
weights play no part in these. `SmoothCorrect` is about nothing else: `WeightInv` says that the
`current_weight`s of each group sum to zero, and that as long as all main peers take part at
full weight the one of a peer is its share of all picks, scaled by the round, less the round times
its own picks (`Shares`). A winner has the largest raised weight, which is positive as the sum is
(`SumPositive`), so it pays from above zero (`Choice`): no weight
falls a whole round below zero, and therefore, the sum being zero, none rises further above it
than one round for each other peer (`SharesBound`). No peer is a whole round ahead of its share, then;
but one may be a whole round behind, with weights 1, 1, 1, 6 and 6 after ten requests, which the small
lists of the run do not show. The bound with the number of peers came out of the proof.

**webbench.** `ChildAccountsCorrect`: the counters agree with the histories only at
the report, so `ChildInv` says for each place how much the child is about to count,
and what the alarm put down to the wrong cause. `ConservedCorrect` keeps the parent's `Books`: what
it has added up and what is in the pipe are the counts of the children that exited, and while it
reads it waits for at least one report, so `clients` does not become negative. A write and a read
of the pipe are `FieldAppend` and `FieldTail`. `Owned` (between `socket()` and `close()` a descriptor is open)
keeps their number in range. `TotalsComplete`, which no run states, is the consequence that matters to the
user of the program: when the parent has counted down to 0, it has everything.

**tinyhttpd** (`TinyHttpdAssumption`). Every property here is about who has which descriptor open, and
`fork()` makes that a matter of all requests at once: a CGI process inherits the pipe ends of others.
None of the three theorems needs to know what it inherits. `IInv` says of each connection what the
server has open for it at each place of its thread (`Table`), and that its own CGI process
has its own ends of its own pipes until it exits (`Inherited`). So an end of file on the output, or a
write that finds no reader, says at least that this process is gone, whoever else was alive before. `Places` ties
the thread to its process, `Flow` says where the blocks of the body and of the output are, `Done` what
a script that nobody cut off has done when it is gone (one that reads to the end of file is never gone: its
thread has the write end as long as it waits for the output), and `Answer` what the client was sent. From
these come `AnswerCompleteCorrect` (the relay loop ends at an empty pipe whose writer is gone, and the
writer wrote everything), `NothingLeftCorrect` (`Table` at "done") and `SurvivesCorrect` (a body that is not
yet copied was not read, so the script that is gone is one of those that leave their input). A step
touches one connection (`Local`), so `OthersKept` keeps the conjuncts of all the others at once.

**get_line** (`GetLineAssumption`: a buffer of at least two characters). `NothingLostCorrect` is about the
concatenation of all lines, which the library computes by a recursive function with no theorem about it;
`FlattenAppend` says what one more line adds, and is proved by the least index at which two such functions
could differ (`Smallest`, `JoinsAgree`), as the prover takes no induction. `NormalStep` says what one more byte
adds to the reference. Two facts make this inductive: the server never stands between a carriage return and its line
feed (`Whole`), and a line in hand that is not ended is the tail of what was received (`InHand`). From them follow,
while no line is too long, that a line begins behind a line end (`Begins`) and that no blank line has
been passed in the headers, but for the one in hand (`Headers`): so the first blank line, and nothing else, ends them.

The sums of the upstream and webbench models are folds over finite sets. Their values are proved
by induction over the subsets of a finite set, which the prover can use in the form of `WFMin`:
the set of subsets for which the claim fails would have a minimal element (`SubsetInduction`).
From that come `SumRemove` (a sum is one of its terms and the rest) and all other lemmas about `Sum` and `SumOver`; they are
stated for each of the two, which are different operators of different modules.

Only model-checked: all liveness (fairness and ENABLED are beyond the prover), that is
`Progress`, `RwProgress`, `Recovered`, `Completed`, `DestroyEnds`, `Ends`, `Answered`, `ConnectionEnds`,
`ShutdownEnds`, `Replaced` and `Accepted`. Of the safety properties the runs check and expect to hold, none is left
without a theorem.

## 5. Not modelled, and why

The map covers a small share of the repository because most of it is whole
third-party programs: some 300 thousand lines of nginx, STLs and libevent, of
which the parts above are those with concurrency, faults or shared state.

- **nginx spinlock** (`ngx_spinlock.c`): a compare-and-set loop, taken as the lock it is
  by the thread pool.
- **nginx memory, containers, text** (slab, pool, tree, hash, ...): sequential, and
  about memory layout. **limit_conn, limit_req**: counters in a tree of slab nodes
  under the mutex; left for a module of their own over `NgxShmtx`.
- **nginx configuration, HTTP, mail and stream modules**: parsers and request phases.
- Of the modelled parts of nginx: several thread pools and failing pthread calls;
  cache manager and loader, the copies of the table in the workers, single-process
  mode; reuseport and UDP sockets, event modules other than epoll; shared
  descriptors, `ngx_close_idle_connections`; resolved upstreams, keepalive, the other balancers.
- **webbench**: options and `build_request`, `--force`, HTTP/0.9, the byte counter, the
  printed rates (and the correction mywebbench.c:348-363 makes for them). **tinyhttpd**: the
  characters of the request line (a request is one of seven kinds), a client that
  stops in the middle of its request, `cat` as a function of the text;
  rebuild_mytinyhttpd/test3.c has the same control (it adds printf calls, and an argv[0] for
  the script), test1.c and test2.c are steps towards it; `simpleclient.c` sends one byte
  and reads one.
- **cJSON**, its rebuilding in Python (`cJSON/rebuild_by_python/1.py`), **TinySTL**:
  sequential code whose hazards are single scans or memory layout. `stl/sgi-stl`,
  `stl/tinystl-master` and the libevent archive are third-party; `stl_source_analysis`
  and `libevent/test.c` are exercises.

What would come next, in this order: `NgxLimitConn` over the mutex (a refusal by one
zone gives back what another counted), the workers' copies of the process table,
and the keepalive cache of upstreams.
