# Specifications of QtZooKeeper

QtZooKeeper is a Qt class (`src/zkwrap/zookeepermanager.cpp`) on top of the
ZooKeeper C client (`src/zookeeper/`), built with `THREADED`. These modules
specify the client library and check it with TLC; the most important results
are proved for all parameters with TLAPS. Line numbers below are those of
`src/zookeeper/src/zookeeper.c` unless another file is named (`mt:` is
`mt_adaptor.c`).

## 1. The system

### Threads

| thread | code | role |
|---|---|---|
| application threads | `zoo_*`, `zoo_a*`, `zookeeper_close` | put requests on the queues; a `zoo_*` call then waits |
| IO thread | `do_io` (mt:354), `zookeeper_interest`, `zookeeper_process` | connects, flushes, reads, matches replies, fails requests |
| completion thread | `do_completion` (mt:454), `process_completions` | runs callbacks and watchers, which may call the API again |

### Components, their state and operations

| component | state | operations | what makes it correct |
|---|---|---|---|
| request pipeline | `to_send`, `sent_requests`, `to_process`, `completions_to_process`, `fd`, `state`, `connect_index`, `client_id` | every call of the API, `flush_send_queue`, `check_events`, `zookeeper_process`, `handle_error`, `cleanup_bufs`, `free_completions`, `process_completions`, `zookeeper_close` | a request is completed once, with a true outcome, in order; callers return; close returns |
| handle lifecycle | `ref_counter`, `close_requested`, the two threads | `api_prolog`, `api_epilog`, `zookeeper_close`, `adaptor_finish`, `destroy` | the handle is freed once, by the last user, and not used afterwards |
| watches | three hash tables of active watchers, the registration carried by each request | `activateWatcher`, `collectWatchers`, `deliverWatchers`, `send_set_watches` | a watch fires at most once, is not lost over a reconnect, is not active for a failed read |
| authentication | `auth_h`, a list of `auth_info` | `zoo_add_auth`, `send_auth_info`, `send_last_auth_info`, `auth_completion_func` | each `zoo_add_auth` is completed once; all are sent again after a reconnect |
| multi | the list of results of a request | `zoo_amulti`, `deserialize_multi` | each operation gets its own result, on failures too |
| records | buffers of `recordio.c`; the 59 records of `zookeeper.jute.c` | `oa_serialize_*`, `ia_deserialize_*`, `resize_buffer` | reading what was written gives it back; no overrun |
| hash table | `hashtable/*.c` (C. Clark's, vendored) | insert, search, remove, iterate | a map |
| condition variables on Windows | `winport.c`: waiters, a flag, a semaphore, an event | `pthread_cond_wait`, `pthread_cond_broadcast` | implements the POSIX contract |
| Qt manager | `m_nodePool`, `m_zooHandle`, `m_connected` | create/delete/get/set/exists, the completion functions, `watcher`, `quit` | the pool mirrors the nodes; no use after close |

Section 7 says what is not modelled.

### How they interact

A call checks `is_unrecoverable`, takes `zh_lock`, appends its completion to
`sent_requests` and its packet to `to_send`, leaves the lock and writes to the
IO thread's pipe. The IO thread flushes `to_send` and matches each reply with
the *head* of `sent_requests`; a synchronous caller is notified at once, an
asynchronous completion goes to `completions_to_process`, whose condition wakes
the completion thread. Losing the connection (`handle_error`) and
`zookeeper_close` both purge `sent_requests` through `free_completions`.
Session events and watch notifications use the same queue as completions.

### What is hard

The IO thread, callers, callbacks and a closing thread meet at those queues in
any order; the liveness of callers depends on every purge finding every entry;
the state is read without locks by callers (`is_unrecoverable`) and by both
threads (`close_requested`); a connection may go between any two steps, with
requests executed but unanswered. `PROJECT.json` lists the places as hazards.

## 2. Modules

### RequestPipeline

One action is what a thread does between two points where another can observe
it; `ioPc`, `ctPc`, `pc[r]` and `closerPc` name those points. `zh_lock` is the
variable `critical`, which holds its owner.

| state | code |
|---|---|
| `toSend`, `sentRequests`, `toProcess`, `completions` | the four lists of `_zhandle` |
| `doomed` | `tmp_list` of `free_completions` (1166) |
| `ioHeld` | `cptr` of `zookeeper_process` between 2259 and 2279/2291 |
| `fd` | `none` is -1; `open`; `broken`: open with the peer gone; `closed`: closed but not yet -1 (1238-1248) |
| `hasSession` | `client_id.client_id != 0` |
| `result[r]` | `sc->rc`, or the `rc` a callback was given |
| `c2s`, `s2c`, `connects`, `applied` | the environment: TCP connection and server |
| `issued` | history: every request accepted, in the order of `sent_requests` |
| `called`, `lastEvent` | history; none of the three is read by an action |

| actions | code |
|---|---|
| `Check`, `AddCompletion`, `QueueBuffer`, `SendQueue`, `WaitSync` | the common shape of `zoo_awget` (2646) ... and of the `zoo_*` functions (3488 on) |
| `IoWrap`, `IoConnect`, `IoInterest`, `IoTimeout` | `zookeeper_interest` (1558) |
| `IoConnected`, `IoFlush`, `IoRead`, `IoHandshake`, `IoReadError`, `IoNothing` | `check_events` (1709) |
| `IoDispatchReserved`, `IoDispatchReply`, `IoComplete`, `IoMismatch` | the loop of `zookeeper_process` (2199) |
| `handle_error` (an operator used by the above), `IoCleanup`, `IoFailOne`, `IoReset` | `handle_error` (1236), `cleanup_bufs`, `free_completions` |
| `IoExit`, `IoWake` | the loop of `do_io` |
| `CtLoop`, `CtWake`, `CtCallback`, `CtCallbackEnds`, `CtDrained` | `do_completion`, `process_completions` |
| `CloseRequest` ... `CloseFree` | `zookeeper_close`, `adaptor_finish`, `destroy` |

Abstractions. A request stands for its xid, its packet and its completion
entry. Only whole packets are written or read. A reply's error code is
`"ANSWERED"`. Time is the timeout that may happen at any `poll()`.
`check_events` hands at most one message to `to_process` per call, as
`recv_buffer` does. One thread closes the handle and it is not a callback (the
module HandleLifecycle looks at that); the application makes no new
call after the close returned, and none is on its way into the queues when the
handle is destroyed, which `zookeeper.h:464` asks of it.

### RequestPipelineProofs

Theorems about it, see section 6.

### RequestService

What RequestPipeline promises the callers of `zookeeper.h`, without queues,
threads or connections: `issued`, `refused`, `applied` (executed by a server)
and `result` of each request, `over` (the session or the handle is at its end:
`is_unrecoverable` or `close_requested`) and `closing`. A request is told its
outcome once; `ANSWERED` only if it was executed, `ZSESSIONEXPIRED` and
`ZAUTHFAILED` only when it is `over`, `ZCLOSING` only when `closing`; a callback
comes when all callbacks of earlier requests have, unless the handle is closing.
A request may be executed after its caller was told that the connection was
lost, and is never executed after a refusal. `ServiceHolds` maps the variables. `RP_main`
has one callback; the order of two is `CallbackOrder` in `RP_session`, and the
theorem of section 6 covers any number.

### HandleLifecycle

The three threads that hold references: the creator (`app`, which runs
`zookeeper_init` and may close), the IO thread (`io`) and the completion thread
(`ct`). `at[a]` is what thread `a` does next; `zookeeper_close` is a
subprogram, with its return label on `stack[a]`, because `api_epilog` calls it
from inside other functions, whenever the counter reaches 0 and
`close_requested` is set.

| state | code |
|---|---|
| `refs`, `closeRequested` | `ref_counter`, `close_requested` |
| `at`, `stack` | each thread's control point and return labels |
| `completions` | the length of `completions_to_process` |
| `freed` | `free(zh)` has run |
| `plan` | who will still call `zookeeper_close`; chosen from `Plans` in `Init` |

| actions | code |
|---|---|
| `Start`, `Begin`, `InitReturns` | `start_threads` and the barrier of `notify_thread_ready` (mt:189-228) |
| `Loop`, `IoQueue`, `IoProcessed`, `CtDrain`, `CtCallbackReturns`, `Exit` | the two thread functions; `zookeeper_process` holds a reference of its own |
| `zookeeper_close`, `Count`, `Purge`, `Uncount`, `Destroy` | `zookeeper_close` (2499-2557) |
| `Finish`, `ReapIo`, `ReapCt`, `JoinCt`, `Unfinish` | `adaptor_finish` (mt:272-298): join, or detach if the caller is that thread |
| `api_epilog`, `Last` | the decrement, and then the test of `close_requested`: two steps, since others run in between |

A callback on `ct` closes from a watcher or completion; `io` closes from an
authentication callback inside `zookeeper_process`. `Preempted` names the
closers that others may interrupt between `close_requested=1` (2505) and
`inc_ref_counter` (2506). What the queues hold is left to RequestPipeline: here
a purge queues one completion or none, and `is_unrecoverable` may end the IO
thread after any call of `zookeeper_process`.

### SharedLifetime

What reference counting promises of any object: it is freed once, when its end
was asked for and nobody uses it, and nobody enters afterwards. HandleLifecycle
implements it; a thread uses the handle while it owns a reference, except the
one that is destroying it.

### HandleLifecycleProofs

Theorems about HandleLifecycle, see section 6.

### CondVar, WinCondVar, WinCondVarProofs

CondVar is what `mt_adaptor.c` expects of a mutex with its condition variable;
WinCondVar is what `winport.c` makes of a critical section, a semaphore and an
event. `owner` is the mutex; `count`, `sema`, `flag` and `done` are
`waiters_count_`, `sema_`, `was_broadcast_` and `waiters_done_`; `pc[t]` is
where a thread is in `pthread_cond_wait` (168-203) or `pthread_cond_broadcast`
(133-164). `count` and `flag` are read under `waiters_count_lock_`, so each use
is one step. `pthread_cond_signal` has no caller in the library.

### HashTable, Watches, WatchesProofs

HashTable is `hashtable.c` and its iterator as functions from tables to
tables: lengths out of a list of primes, growth at a load of 65%, chains that
growth reverses. Watches uses three of them, as `zk_hashtable.c` does.

| state | code |
|---|---|
| `active` | `active_node_watchers`, `active_exist_watchers`, `active_child_watchers` |
| `sent` | the requests with their `watcher_registration_t` |
| `completions` | the `watcher_object_list_t` of each event that waits for delivery |
| `lastZxid` | `last_zxid` |
| `exists`, `mzxid`, `pzxid`, `zxid`, `armed` | the server: the data tree and its half of the watches |
| `since`, `owed` | history |

`Read` is a read with a watcher; `IoReply` runs `activateWatcher`, `IoEvent`
`collectWatchers`, `Deliver` `deliverWatchers`, `Connect` `send_set_watches`;
`Close` and `CleanOne` are `destroy_zk_hashtable`. The server is external: it
arms a watch when it executes a read, disarms it with the event, and on a
setWatches request answers with the events that are overdue. Requests carry the
count of calls for an xid, a setWatches and an event their reserved one. The
theorems are in WatchesProofs.

### JuteRecords, RecordIO, RecordIOProofs

JuteRecords has one definition per generated record, its sequence of
primitives. RecordIO runs the three functions the generator makes of each:
`Serialize*` write cell by cell into `oa`, `Travel` is the frame that arrives,
perhaps shorter, `ia_*` read it with the convention `rc = rc ? rc : ...`
(`Skip`), and `Deallocate` frees what a successful read left. A primitive
that was not read is `Unset` on the stack and zero in an element, which
`calloc` made. The bytes are real bytes.

| state | code |
|---|---|
| `cells`, `shape` | the record being written: its primitives in wire order, and its fields |
| `oa`, `left` | `struct buff_struct` of the oarchive; how many cells are still to write |
| `ia`, `rc` | that of the iarchive; the `rc` of the generated function |
| `todo` | the calls a `deserialize_*` function has still to make |
| `got`, `freed` | the record read, with what reading allocated; what `deallocate_*` freed |

`Init` chooses the record: one primitive has any of its values, the others
their first, and all vectors are equally long. That bounds TLC only; the theorems
are about `AnySpec` as well, whose records are any sequence of fields with any
values, each vector with a count of its own (`AnyRecord`). `Elements`
leaves out the elements after the first that the bytes do not hold: they stay as
`calloc` made them. The theorems are in RecordIOProofs.

### MultiOp

The list of results of `zoo_amulti` (`clist`), its requests on
`sent_requests`, and `deserialize_multi`, an operation at a time, on the
completion thread or, for `zoo_multi`, through the same list on the IO thread.
A reply is a sequence of tokens (MultiHeader, payload, error); the server
answers a transaction with all results, or with one error per operation.
`free_completions` fails what is outstanding, once per behaviour.

### Auth

`auth_h` (`list`, and the entries whose `completion` is not called yet), the
front of `to_send`, and partial writes. `zoo_add_auth` is four steps, as it
takes its lock twice and looks at the state in between. `wire` is what has been
written on this connection, piece by piece; the server answers each whole
authentication packet. `taken` holds the completions a thread collected and is
about to call. `overtaken` is history: an entry whose caller found another one
last.

### NodePool

The hash, the objects in it, and the two threads that change both without a
lock. Each `contains()`, `operator[]`, `remove()`, `clear()` and each step of an
iterator is a step, and so is each call of the client, so the other thread comes
in between any two of them: between the `contains()` of `deleteNode` (551), its
`operator[]` (552) and its `remove()` (553), and in the middle of the renaming
of a node that the server numbered (224-228). Where one thread removes a key
between another's `contains()` and `operator[]`, the latter inserts a null
pointer, as in the code.

| state | code |
|---|---|
| `pool` | `m_nodePool`; `Null` is a key with a null pointer |
| `node` | where each object is (in use, given to `deleteLater`, freed), and its `m_path` |
| `app`, `comp` | the function the application's thread is in and the completion the completion thread is in: the access that comes next, its path, a second one for a renaming, the local variable `node` |
| `queue` | the requests whose completion has not started, in order |
| `sweep` | the keys the iterator of `processDisconnected` has still to meet |
| `session` | whether the handle is open, closed by the watcher (and `m_zooHandle` left), being closed by `quit`, or null |
| `crashed` | the use of a null pointer, of a freed node, of a closed handle, or of a `QString` taken for the manager: the behaviour ends there |
| `excused`, `struck` | history: why a request or a call may miss its node (section 4); the nodes that were deleted in the middle of their renaming |

| actions | code |
|---|---|
| `createNode`, `createNodeAsks`, `createNodeInserts`, `ReturnsFound` | `createNode` (446), its four ways through |
| `createNodeSync` ... `createNodeSyncRemoves` | `createNodeSync` (490) |
| `deleteNode`, `deleteNodeStrikes`, `deleteNodeRemoves`, `deleteNodeAsks` | `deleteNode` (547), `deleteNodeSync` |
| `getNodeValue` ... `getNodeValueSyncReturns` | `getNodeValue` (641), `getNodeValueSync`, `wgetNodeValue` |
| `acreateCompletion`, `acreateLooksUp`, `acreateRekeys`, `acreateReinserts`, `acreateUnkeys`, `acreateTells`, `acreateDrops`, `acreateDeletes` | `acreateCompletion` (210) |
| `agetCompletion`, `agetCompletionEnds`, `SignalCompletion`, `aexistsCompletion` | the other completions |
| `watcherEnds`, `processDisconnected`, `SweepOne`, `SweepEnds` | the end of a session (182, 149) |
| `quit`, `quitCloses`, `quitReturns`, `EventLoop` | `quit` (829), and Qt's event loop, which frees |

Line numbers in this part are those of `zookeepermanager.cpp`.

AuthProofs, MultiOpProofs and NodePoolProofs hold the theorems about Auth,
MultiOp and NodePool.

### MC modules

`MCRequestPipeline`, `MCHandleLifecycle`, `MCWinCondVar`, `MCWatches`,
`MCRecordIO`, `MCMultiOp`, `MCAuth` and `MCNodePool` give the model values,
the symmetry and the sets of inputs of the runs.

## 3. Runs

| run | instance | shows |
|---|---|---|
| `RP_main` | one asynchronous request, one synchronous request made in a callback, 2 handshakes, pings, close | `TypeOK`; `OnePlace`: a request is always in exactly one place; `PipelineInOrder`: while a connection is intact, what is on the wire and unsent follows the order of acceptance, as `sent_requests` does; `OutcomeIsTruthful`; `ReplyFindsRequest` (the `assert(cptr)` of 2269); `ServiceHolds` (refinement of RequestService) |
| `RP_session` | two asynchronous requests, 2 addresses, 2 handshakes, expiry, auth, set_watches, a server that swaps answers | `AddressInBounds`; `SessionEventsTrackState`; `CallbackOrder` |
| `RP_live` | one asynchronous, one nested request, fairness | `EveryCallbackRuns` |
| `RP_close_live` | one nested request, watch events, close, fairness | `EveryCallReturns`; `CloseReturns` |
| `HL_close` | one closer, any of the three threads, 2 queued events, fairness | `CountIsExact`; `NoUseAfterFree`; `LifetimeHolds` (refinement of SharedLifetime); `HandleIsFreed`; `CloseReturns` |
| `CV_win` | 4 threads, fairness | `WaitersAreCounted`; `TokensMatchSleepers`; `FlagIsPrivate` (the comment of winport.c:163); `BroadcastReturns`; `IsCondVar` (refinement of CondVar, with its liveness) |
| `WT_watch` | 2 watchers, 2 paths, 2 reads, 3 changes, 2 connections, tables of 1 and 3 buckets | `TablesWellFormed`; `NoWatchIsLost`; `NoChangeIsMissed`; `EventsAreNews`; `FiresOncePerRead` |
| `RC_archive` | all 59 records, vectors of up to 2 elements, each primitive at each of its edge values, a cut at each byte, a first buffer of 4 bytes | `StaysInside`; `RoundTrip`; `OkMeansWhole`; `FreesWhatItOwns` |
| `MU_multi` | 2 calls of up to 2 operations of any kind, valid or not, one lost connection | `InStep`; `ResultsAreTheServers`; `EndedIsFinal` |
| `MU_lost` | the same | the finding |
| `AU_auth` | 2 authentications, 1 request, watches to set, 2 connections, 2 short writes | `OneAnswerEach`; `NobodyIsLeftOut`; `GreetingGoesFirst`; `ContinuedInPlace` |
| `NP_pool` | 2 paths, one of them what the server makes of a sequence node, 2 objects, 2 requests | `PoolIsSound`: what the pool holds is alive and under its own path; `MissingOnlyWhenLost`: a thread misses or loses its node only for the reasons named |

Type invariants of the last modules are conjuncts of a structural one
(`TablesWellFormed`, `StaysInside`, `InStep`, `OneAnswerEach`, `PoolIsSound`);
those of HandleLifecycle and WinCondVar are proved (section 6).

Bounds. In RequestPipeline requests are only told apart by being synchronous,
asynchronous or nested; two of them give every order of a pair, and every
ordering property of the module is about pairs. One address gives the
wrap-around on each failure, two give an index strictly inside the array. Two
accepted handshakes give a complete reconnection, with what is left of the
first connection. Watches needs two watchers on one path and two paths in one
bucket, two reads (the second fills a table the first left), and three
changes: one before, one after and one between two reads; two connections give
one `send_set_watches`. A buffer of 4 bytes makes `resize_buffer` double once,
often and not at all. In MultiOp two operations give a first error, one before
it and one after it. Auth needs two authentications to overtake each other and
a second connection for the list to be sent again. Two paths and two
requests let a sequence node move to a path that is taken, asked for or
deleted at the same time; the synchronous functions and the deletions whose
request is refused are not counted. Three requests, and three objects, give
nothing new, but take minutes; the theorems hold for any number.

HandleLifecycle's state is finite but for the queue, so two events (one being
handled, one waiting) show every order of waking, draining and leaving.

Deadlock is checked in the runs of RequestPipeline, HandleLifecycle, Watches and
RecordIO; `Terminated` (and in HandleLifecycle `Over`) describes the only states
the system may rest in. It is not checked in `CV_win` (all threads may sleep),
nor in `MU_multi`, `AU_auth` and `NP_pool`, where the application may have
nothing left to do and the bounds end the behaviour.

Fairness. Each thread runs (weak fairness of the steps of a call, of the IO
thread, of the completion thread and of the closer). A connection that stays
silent while it is being set up or owes an answer is given up in the end: that
is the deadline of `zookeeper_interest` (1661). That
takes it that no server goes on for ever sending events instead of the answer:
each puts the deadline off (`last_recv`, 1751). No more is assumed of servers and
network. `AddCompletion` is strongly fair: a caller competes for `zh_lock`
with an IO thread that takes it once per failed connection, but that thread
sleeps in `poll()` without it after each round of addresses (1580).
In HandleLifecycle each thread's own steps are weakly fair; nothing makes a
thread call `zookeeper_close`, and the IO thread need not find events.

In WinCondVar every thread goes on once it is inside `wait` or `broadcast`, the
owner of the mutex gives it up, and a critical section that is free again and
again is entered in the end (strong fairness of `Relock`); nobody has to
broadcast.

## 4. Where the code disagrees

`MU_lost` is the run of a finding: `assert(entry)` (1995) does not hold. An
asynchronous multi request that is outstanding when the connection is lost gets
a faked reply without a body (`free_completions`, 1187-1197).
`deserialize_multi` does not look at the error and does not notice that it
reads nothing: it takes every entry off its list as if it had a result, and
then one more. A synchronous `zoo_multi` is not affected, its caller is told
directly.

The rest, numbered, is what the passing runs leave out by preconditions or
exceptions, named here; where a change of a `.cfg` makes TLC show it, that is said.

1. `destroy` announces "call any outstanding completions with a special error
   code" (392). The completions are queued by `zookeeper_close`, but the
   completion thread leaves on `close_requested` (mt:464) and nobody calls them:
   `EveryCallbackRuns` is checked without a close (`RP_live`), and fails
   there with `MayClose = TRUE`.
2. A completion is documented to be invoked "as a result of connection loss or
   timeout" (`zookeeper.h:564`). A call that passed the check of
   `is_unrecoverable` just before the session expired queues its request after
   the IO thread's last purge: it returns `ZOK` and its callback is not called
   until the handle is closed. `RP_live` has `MayExpire` false, and
   fails when it is true.
3. After the last address failed, `connect_index` equals `addrs_count` until the
   next `zookeeper_interest` (1581). A `zoo_a*` call in that window evaluates
   `format_current_endpoint_info` (3475) for its debug message, with the log
   level at DEBUG, one element past the end of `addrs`. `AddressInBounds` speaks
   of the IO thread.
4. `zookeeper_close` sets `close_requested` (2505) before it counts itself
   (2506); its comment relies on the count (2507). Both threads can see the flag
   and end in between; the last of them finds the counter at 0 and destroys the
   handle, which the first closer goes on to use. Only for a closer that owns no
   other reference, the creator: `Preempted` leaves that interruption out of
   `HL_close`; with `Preempted <- Actors`, `NoUseAfterFree` fails.
5. `zookeeper.h:461` allows one close per handle. The session watcher of
   `ZooKeeperManager` closes it (`zookeepermanager.cpp:188`) and leaves
   `m_zooHandle` set; `quit`, which the destructor calls, closes it again (835),
   and every function in between uses it: in NodePool that is `crashed = "closed"`,
   where the behaviour ends. The plans of `HL_close` have one closer.
6. `zoo_add_auth` looks at the list again after it let go of its lock (3436): a
   call in between makes it send the other's entry twice and leave its own to
   the next connection (`overtaken` in `NobodyIsLeftOut`). The first answer of
   the server completes every waiting call with its code (1294), where
   `zookeeper.h:1161` promises each its own. A late authentication is put in
   front of a packet of which a part was already written, which tears that packet
   in two (`ContinuedInPlace` has the exception).
7. `zoo_add_auth` right after `zookeeper_init` returns `ZINVALIDSTATE` (3410);
   `zookeeper.h:1167` names an expired or failed session only, `src/README.md`
   shows `initialize` and `addAuth` in a row, and `ZooKeeperManager::addAuth`
   drops the code.
8. A vector's end overwrites a failure inside it (`recordio.c:218`): a frame cut
   there is reported as read (`OkMeansWhole` says how much can be relied on). The
   callers ignore most of these codes anyway.
9. `send_set_watches` cannot tell the server that a node watched for its creation
   was created and deleted meanwhile (`NoChangeIsMissed`).
10. In the node pool (`zookeepermanager.cpp`) nothing keeps the two threads apart,
    and `crashed` records what comes of it. The exceptions of the two properties
    are all there are:
    * a node that is deleted (552) while `acreateCompletion` renames it (225-228)
      is put back into the pool under its new path, for good, and is freed; who
      looks for that path follows it (`struck`). It needs a numbered node and a
      `deleteNode` in those few instructions;
    * a key that goes between `contains()` and `operator[]` becomes a null
      pointer that is followed (551-552), handed out (486, 538, 852) or used when
      the answer comes (650, 696, 779); so does a node that was deleted before
      its answer came (302), also for the iterator (158); `acreateCompletion`
      then has a null pointer of its own (219, 237) (`excused`);
    * between `deleteLater` and `remove` the pool holds a node that is going to
      be freed (552-553), and so it does while `processDisconnected` (157-160)
      goes through it, which the event loop may overtake;
    * `createNode` inserts the node after it has sent the request (469, 480), and
      the answer may be faster; `createNodeSync` removes the key it has just
      inserted unless the server numbered it (531);
    * `aexistsCompletion` takes a `QString` for the manager (269).

## 5. Mutants

Each property of a passing run has, in its module, a definition marked "a
mutation": the code with a bug somebody could plausibly write (a purge that
leaves the list in place, a caller that is not notified, `connect_index`
compared off by one, a wake-up condition too narrow). Replacing the original by
it must make TLC report that property.

## 6. Proofs

`RequestPipelineProofs` (all constants arbitrary, within the two named
assumptions of `RequestPipeline`: nested calls are synchronous calls, requests
are not reserved xids or thread names, there is at least one address).

* `AddressAlwaysInBounds`: `Spec => []AddressInBounds`. `connect_index` grows in
  `IoReset` only, when a descriptor had been in use. The bound is therefore not
  inductive alone: the invariant adds that the IO thread has a descriptor at
  every control point at which it may go on to fail (`ConnectionInv`), and that
  such a descriptor implies the index is strictly inside (`AddressInv`).
* `PurgeIsFinal`: `Spec => []PurgedStaysEmpty`. `AddCompletion` looks at
  `close_requested` with the list locked, which is why the flag is set before
  the purge; the only other way back on the list is `IoMismatch`, and that one
  goes to `cleanup` at once. The invariant relates `closeRequested`, `closerPc`
  and the IO thread's control point.
* `WatcherKnowsTheState`: `Spec => []SessionEventsTrackState`. The invariant
  `EventInv` adds that a handle without a descriptor is not CONNECTED, so
  `zookeeper_interest` never loses a connection the watcher knew of, and that
  `handle_error` is never entered from within itself.

* `TypesAreRight`: `Spec => []TypeOK`. It needs one fact about control, that the
  lists are emptied by `CloseDestroy` only after the IO thread has ended
  (`ConnectionInv`), so that no step takes the head of a
  list that vanished.

* `CallersAreToldTheTruth`: `Spec => []OutcomeIsTruthful`. The invariant follows
  a request and its answer through the queues: what is in `to_send`, on the wire
  or executed (`Pushed`) belongs to a call that has passed `QueueBuffer`; an
  answer that is on the wire, in `to_process`, in `completions_to_process` or
  with the caller (`Answered`) is of a request in `applied`. No order of the
  queues is used, so it holds for a server that reorders as well.

The order of the queues, from the same assumptions. Each invariant was
checked by TLC on small instances before it was proved.

* `EveryRequestHasOnePlace`: `Spec => []OnePlace`. `LockInv` says who can hold
  `zh_lock` and that the list a purge took over lives only while its purger
  does. `PlaceInv` says that the five places of an accepted request are disjoint
  and exhaust `Accepted`, and that what is on a list stands there in the order
  of acceptance, without repetition; a reply that is being matched is older than
  all that wait, which is what keeps the list sorted when `IoMismatch` puts it
  back at the front.
* `CallbacksRunInOrder`: `Spec => []CallbackOrder`. `CallInv`: the callbacks
  that ran, those that wait on `completions_to_process`, those a purge holds and
  those still in `sent_requests` are, one after the other, in the order of
  acceptance, until the handle closes.
* `PipelineStaysInOrder`: `Spec => []PipelineInOrder`. `WireInv` and `PipeInv`
  follow the requests through `to_send`, the connection, the server and
  `to_process`: whatever is there is in `sent_requests` or being matched, in that
  order, and what has left the pipe leaves it together with all before it. The
  cleanup in progress is excepted, the queues are emptied one at a time.
* `EveryReplyFindsItsRequest`: `Spec => []ReplyFindsRequest`, the assertion of
  2269. It adds `MatchInv`: with a server that answers in order, the request
  taken off the list is the one the reply is for.
* `PipelineIsAService`: `Spec => RequestService!Spec` under the mapping of
  `ServiceHolds`. A step is silent for the service, accepts or refuses a
  request, tells one, or announces the close (`ServiceCases`). That who is told
  was accepted and not told before is `PlaceInv`; that an answer is true is
  `OutcomeInv`; that a callback is in turn is `CallInv` (`CallBackInTurn`).
  `WorkInv` adds that the IO thread does not go on with a session that is over,
  so that `over` is final, and `EndInv` that no code of an end is waiting in
  `completions_to_process` before that end.

`HandleLifecycleProofs`, for any `Plans`, `Preempted` and `MaxEvents`:

* `CounterIsExact`: `Spec => []CountIsExact`. `CountInv` adds that a thread's
  stack holds at most one label, which is what makes "the references a thread
  owns" a function of two labels. The two depend on each other: a second label
  would be pushed if the counter reached 0 inside `adaptor_finish` or
  `zookeeper_process`, and it cannot, because the thread owns two references
  there. Every action is one of four kinds of moves (at home, away in
  `zookeeper_close`, calling it, returning from it), and each kind has a lemma.
* `LifecycleTypes`: `Spec => []TypeOK`; that `refs` is a natural number follows
  from the count.
* `FreedIsUnused`: `OneCloser` implies `Spec => []NoUseAfterFree`. `OneCloser`
  says that one thread at most calls `zookeeper_close` of its own accord, and
  that the creator is not in `Preempted`; section 4 (4, 5) shows that both are
  needed. The invariant `LastInv`: before `close_requested` the completion
  thread holds a reference, so the counter does not reach 0 (`OpenInv`); whoever
  gives back the last reference is the only thread that is not at rest
  (`ClosingInv`, from the exact count); a closer that is not counted yet is
  covered by a reference, its own for a callback (`Covered`).
* `LifetimeIsShared`: `OneCloser` implies `Spec => SharedLifetime!Spec` under the
  mapping of `LifetimeHolds`. Each step enters, leaves, asks for the end, frees
  or stutters; that nobody enters after the end was asked for and nobody used
  the object needs `LastInv`, that the object is freed by the last user needs
  the exact count.

`WinCondVarProofs`, for any set of threads:

* `TypesAreRight`, `WaitersStayCounted`: `waiters_count_` counts the threads between
  `EnterWait` and `CountOut`, by cardinality of finite sets.
* `TokensAreOwed`: a broadcast makes a token per counted waiter and owns the
  mutex until the last of them has counted itself out, so nobody new is counted;
  the invariant relates tokens, sleepers and the thread in `await`.
* `FlagHasOneWriter` is the comment of winport.c:163, from the same invariant.
* `ImplementsCondVar`: each step of WinCondVar maps to a step of CondVar or a
  stutter, with the sleepers of a broadcast in progress as the woken ones.

`NodePoolProofs`, for any paths, nodes and number of requests:

* `PoolStaysSound`, `NothingElseIsMissing`: `Spec => []PoolIsSound` and
  `Spec => []MissingOnlyWhenLost`. Neither is inductive: what a thread will find
  depends on what it and the other have in hand. A request without an excuse has
  its path in the pool (`Finds`), and so has a thread between the `contains()` and
  the `operator[]` of a function or a completion (`Sees`): whoever takes the path
  out excuses them in that step. What a function of the application holds is not
  freed, as the event loop is its own thread's (`CallHolds`). What a completion
  holds (`CompletionHolds`) is alive under the completion's path, or has been
  struck: by a deletion that is just about to remove that path, which will
  excuse the completion; or in the middle of its renaming, and then it is in
  `struck`. `Sound` is `PoolIsSound` with the states of deletion spelled out. The
  parts are operators on the hash, the objects and the two frames, so that the
  effect of each access is a lemma about them (`Looking`, `Inserting`,
  `FindsAfterExcuse`). The completion thread's steps leave the node of a call
  alone but for `deleteLater`, and the application's the other way round.

`AuthProofs`, for any number of authentications, connections and short writes:

* `AnsweredOnce`: `Spec => []OneAnswerEach`. An authentication is in one place
  at a time (`Placed`): its completion is set in the list, or in the hands of
  one thread, or it has been called. Who is about to collect completions holds
  none, so none is overwritten (`HandsInv`), and after the last collection
  nobody adds any (`CloseInv`).
* `NobodyIsForgotten`: `Spec => []NobodyIsLeftOut`. `CourseInv` relates the
  place a caller of `zoo_add_auth` has reached to the packets of its entry, and
  `ListedInv` the entries of `auth_h` to their callers; a packet that left
  `to_send` is on the wire or the connection is gone, and the next one sends the
  list again.
* `GreetingIsFirst`: `Spec => []GreetingGoesFirst`. `FreshInv`: nothing of a
  greeting is queued before the handshake, and no authentication but the late
  ones; `OrderInv`: from then on the queue, and what follows the wire in it, is
  ordered authentications, watches, requests, the late ones apart.
* `RestComesNext`: `Spec => []ContinuedInPlace`. `TornInv`: a
  packet written in part is at the front, or has been torn by an authentication
  put before it, the exception the property names.

`MultiOpProofs`, for any requests, within `RequestsAssumption` (a request is a
sequence of operations):

* `StaysInStep`: `Spec => []InStep`; `ReportsTheServer`:
  `Spec => []ResultsAreTheServers`; `ResultsAreFinal`: `Spec => [][EndedIsFinal]_vars`.
  The replies on their way are those of the first requests sent, in order, one
  for one (`SentInv`); nobody has looked at the results of a call whose reply
  has not been taken (`CallInv`); the reply being read is a faked one, or its
  first operations are decoded rightly and it stands at the header of the next
  (`ReaderInv`), where a request's tokens are the concatenation of its
  operations' tokens. What a concatenation and the loop of `free_completions`
  amount to is shown by induction; the library's induction theorem is out of the
  provers' reach, so the induction is done on sets: the set of the numbers for
  which the claim fails has no least element (`LeastNumber`, from the
  well-foundedness of the natural numbers).

`WatchesProofs`, for any paths and watchers, any hash function, any list of
table sizes, and any number of reads, changes and reconnects
(`WatchesAssumption`). The invariant was an invariant of `WT_watch` before it was
proved.

* The tables. `IsTable` says of a hash table that every entry is in the chain of
  its hash, once, and that the count is the number of keys; the lemmas show that
  `hashtable_insert` (with `hashtable_expand`, which moves every chain),
  `hashtable_remove` and `hashtable_iterator_remove` keep it, and what each does
  to the map that `hashtable_search` shows. All that follows speaks of that map.
  Lists are shown to name nobody twice (`add_to_list`, `copy_lists`).
* `WatchesShape`: the shapes (`ShapeInv`), and three facts about the
  connection. `AnnounceInv`: a set_watches is the first request of its
  connection, describes the tables as they are until the server has read it, and
  no answer comes before. `OrderInv`: the reads on their way, answered or not, are
  those of `sent_requests`, in their order, so a reply is matched with its own
  request. `ZxidInv`: zxids grow along the connection.
* `TablesStayWellFormed`: `Spec => []TablesWellFormed`, from the shapes.
* `RegistrationsSound`. None of the three properties below is inductive about the
  tables alone: a reply that was sent when its node was as it should be is handled
  after other events. `RegistrationInv` therefore makes its promise for every
  registration, in a table or in the n-th answer on its way: the server has it
  armed with the path unchanged, or it is announced, or an event for it follows
  *behind* that answer; every such event is newer than the registration; and the
  answers behind it agree with it on whether the node exists, up to that event.
  `CompatInv`: nobody waits for a node to appear while somebody watches it
  change. That the answers of the server to a set_watches are right needs in
  addition that what a watcher of `active_node_watchers` or
  `active_child_watchers` has not heard of is newer than `last_zxid`
  (`UpToDate`), which is `EventInv` and the growth of zxids when a reply arrives.
* `NoWatchIsEverLost`, `NoChangeIsEverMissed`, `EventsAreAlwaysNews`:
  `Spec => []NoWatchIsLost`, `[]NoChangeIsMissed`, `[]EventsAreNews`; each is what
  `RegistrationInv` says of a watcher in a table.
* `FiresOnlyOncePerRead`: `Spec => []FiresOncePerRead`. `FiresInv` compares the
  tables and deliveries a watcher waits in with what it is owed; an event moves
  it to one list from at least one table, a delivery calls it as often as it
  stands on the list, which is once.

The recursive functions of HashTable and Watches (`moved`, `copied`) and the
concatenation of chains are shown to exist and to have their properties by the
same induction on sets.

`RecordIOProofs`, for any first size of the buffer and any cut, both for `Spec` and for
`AnySpec`, which begins with any record (`AnyRecord`: any fields, any values, vectors
of any length; `InitIsAnyRecord`). Constants are as declared (`LengthAssumption`, `NullAssumption`,
`ChosenAssumption`, `CountAssumption`: the buffer has a first byte, null is not a
value, values have their type, lengths and counts are 32-bit). The
conjuncts of the invariant were checked on `RC_archive` before they were proved.

* `ArchivesStayInside`: `Spec => []StaysInside`. `resize_buffer` ends and makes
  room, whatever the length and the size asked for (`ResizeMakesRoom`); the reader
  looks at what is left before each copy, also when it has lost its place, as
  a length it finds is compared before it is used. `TypeInv` adds what the cells,
  the pending calls and the values read can be.
* `RecordsFreeWhatTheyOwn`: `Spec => []FreesWhatItOwns`. It is not inductive: after
  a failure outside a vector the place of a pointer holds whatever was on the
  stack. `TodoInv` says that the pending calls are a suffix of the record's plan,
  after the elements of at most one vector and its end; `FreeInv` that a pointer
  is one that reading allocated, or that `rc` is a failure with no end of a vector
  to come (`Stuck`), and such a record is not freed.
* `ReadingInvertsWriting`: `Spec => []RoundTrip`. `WireInv`: the buffer holds the
  encoding of the cells written, each at `WireLength` of those before it, and
  the frame is a prefix of it. `SyncInv`: the cells are laid out by the fields
  (`IsLayout`); and either all cells up to here were read as they were
  written and the pending calls are for the next cells (`InStep`), or the reader
  stumbled over a cell that is a null string or not all there (`Stumbled`).
  Each of the readers inverts its writer at the next cell (`ReadersAgree`), with
  `HostIntInverts`, that the four bytes of a 32-bit number give that number
  back, negative ones included.
* `LossIsReported`: `Spec => []OkMeansWhole`, from the same invariant. `Stumbled`
  adds that a reader that stumbled after the last vector is `Stuck`. The case the
  proof turns on is an end of a vector whose elements were cut short: its failure
  is forgotten, and that is harmless to the theorem only because the cell it
  failed at is before the last vector's end (`AfterIs`).

`FlattenSeq`, `resize_buffer` and `WireLength` are recursive functions; that they
exist and what they give is shown by induction on sets as above (`Recursion`).

Only model-checked: liveness (`EveryCallbackRuns`, `EveryCallReturns`, both
`CloseReturns`, `HandleIsFreed`, `BroadcastReturns`, and the liveness of CondVar
in `IsCondVar`), as the prover has no reasoning about fairness. Every invariant
and action property of the runs is proved.

## 7. Not modelled

* Paths and the chroot prefix (`isValidPath`, `prepend_string`, `sub_string`):
  character by character string code without state. A path is valid or not.
* `getaddrs`: parsing and the resolver, before any thread exists.
* `zk_log.c`: output. `cli.c`, `load_gen.c`, `example.cpp`: programs that use the
  library. `st_adaptor.c`: not part of the build (`ZooKeeper.pro`).
* Running out of memory, sizes beyond 2^30, xids (which count up from the time of
  day and are taken to be distinct and not reserved), the collisions of two
  threads inside `QHash`, descriptors as numbers that the system uses again.
* Of the manager: `m_connected`, which only `isConnected` reads, for the
  application; the values and types of nodes; `initialize` with its timer (424)
  and a second `initialize` after `quit`; a chroot in the path of a create reply.

Simplifications that no property tells apart:

* RequestPipeline: a call that `add_completion` refuses does not flush `to_send`
  (2680 does, from the caller's thread; the IO thread would have); a failed
  `socket()` (1592) is reported as a lost connection, not as `ZSYSTEMERROR`; the
  change of `state` (1763, 1773) and the session event (1784) are one step of the
  IO thread; one event is on its way at a time.
* Auth: `free_buffers` (1226) and `get_auth_completions` (1207) are one step,
  which commutes with the call of `zoo_add_auth` that may come in between; the
  handshake that finds the session expired (1762) is left out, and the one that
  is accepted sends the set_watches with it.
* Watches: `Close` drops what waits for delivery in one step; `hashtable_expand`
  has no `realloc` path (hashtable.c:99-122), which is for a failed `malloc`.
* RecordIO: `ia_deserialize_buffer` that fails leaves the cell as it was, where the
  code has set `len` already; the `char` of a bool has no sign.

## 8. Open

Hazards without a property are in `PROJECT.json` with the reason: what the code
does wrong for certain (section 4: 1, 2, 4 and 5), the descriptors a closer and the
IO thread share, the wrap-around of xids, the chroot in create replies, the
`fd_set`s of the Windows loop, the callbacks of `zoo_add_auth` that run with
`zh_lock` held, and `m_connected` of the manager. The chroot is the next to be
modelled.
