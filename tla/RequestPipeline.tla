--------------------------- MODULE RequestPipeline ---------------------------
(***************************************************************************)
(* The life of a request in the ZooKeeper C client (zookeeper.c built with *)
(* mt_adaptor.c): an application thread, or a callback running on the      *)
(* completion thread, puts the request on sent_requests and its packet on  *)
(* to_send; the IO thread (do_io) connects, flushes, reads and matches     *)
(* replies; the completion thread (do_completion) calls the callbacks;     *)
(* handle_error and zookeeper_close fail whatever is outstanding.          *)
(*                                                                         *)
(* The server and the TCP connection are the environment.  A connection is *)
(* two FIFO queues that may break at any time, losing what is in flight.   *)
(*                                                                         *)
(* The step between two labels of ioPc, ctPc, pc or closerPc is what a     *)
(* thread does between two points where another thread can observe it.     *)
(***************************************************************************)
EXTENDS Integers, Sequences, FiniteSets, SequencesExt

CONSTANTS
    Requests,      \* the calls of the zoo_* API that the program ever makes
    Sync,          \* those made with SYNCHRONOUS_MARKER (zoo_get, zoo_set, ...)
    Nested,        \* the synchronous calls made from inside a callback
    NAddrs,        \* zh->addrs_count
    MaxConnects,   \* bound: how many handshakes the servers accept
    Extras,        \* the packets and messages that are not requests, in use
    MayExpire,     \* may a server answer a handshake with another session id?
    ServerFaulty,  \* may a server answer two requests in the wrong order?
    MayClose       \* does the application call zookeeper_close?

(* Packets whose xid is one of the reserved constants of zk_adaptor.h.     *)
Reserved == {"connect", "ping", "auth", "set_watches", "event", "session"}

NoOne == "no one"

ASSUME RequestsAssumption ==
    /\ Sync \subseteq Requests
    /\ Nested \subseteq Sync
    /\ Requests \cap (Reserved \cup {NoOne, "io", "closer"}) = {}

ASSUME BoundsAssumption ==
    /\ NAddrs \in Nat \ {0}
    /\ MaxConnects \in Nat
    /\ Extras \subseteq {"ping", "auth", "set_watches", "event"}
    /\ {MayExpire, ServerFaulty, MayClose} \subseteq BOOLEAN

VARIABLES
    pc,            \* where the call of each request is
    critical,      \* zh_lock: held for a request, by a thread, or by NoOne
    state,         \* zh->state
    fd,            \* zh->fd: none (-1), open, broken (the peer is gone), closed
    connectIndex,  \* zh->connect_index
    hasSession,    \* zh->client_id.client_id # 0
    toSend,        \* zh->to_send
    sentRequests,  \* zh->sent_requests
    toProcess,     \* zh->to_process
    completions,   \* zh->completions_to_process
    doomed,        \* tmp_list of free_completions, run under zh_lock
    ioPc, ioRc,    \* do_io: its control point; the error being handled
    ioHeld,        \* the completion do_io took off sent_requests
    ctPc, ctCall,  \* do_completion; the nested call its callback is in
    closeRequested, closerPc,
    c2s, s2c,      \* the connection
    connects,      \* handshakes accepted so far
    applied,       \* the requests a server executed
    result,        \* what each caller or callback was told
    issued,        \* history: the requests accepted, in sent_requests order
    called,        \* history: the asynchronous requests in callback order
    lastEvent      \* history: the last session event queued

callVars  == <<pc, critical>>
connVars  == <<state, fd, connectIndex, hasSession>>
queueVars == <<toSend, sentRequests, toProcess, completions, doomed>>
ioVars    == <<ioPc, ioRc, ioHeld>>
ctVars    == <<ctPc, ctCall>>
closeVars == <<closeRequested, closerPc>>
netVars   == <<c2s, s2c, connects, applied>>
history   == <<issued, called, lastEvent>>

vars == <<callVars, connVars, queueVars, ioVars, ctVars, closeVars, netVars,
          result, history>>

-----------------------------------------------------------------------------
(* Vocabulary *)

Async == Requests \ Sync

Unrecoverable == {"EXPIRED", "AUTH_FAILED"}
States == {"NOTCONNECTED", "CLOSED", "CONNECTING", "ASSOCIATING", "CONNECTED"}
            \cup Unrecoverable

is_unrecoverable == state \in Unrecoverable

Errors == {"ZCONNECTIONLOSS", "ZOPERATIONTIMEOUT", "ZSESSIONEXPIRED",
           "ZAUTHFAILED", "ZRUNTIMEINCONSISTENCY", "ZCLOSING"}

(* "ANSWERED" stands for whatever code the server put in the reply header. *)
Outcomes == Errors \cup {"ANSWERED"}

Packets    == Requests \cup Reserved
Replies    == [xid : Packets, ok : BOOLEAN]
Completion == [xid : Requests, rc : Outcomes]
                \cup [xid : {"session"}, rc : States]
                \cup [xid : {"event"}, rc : {"ANSWERED"}]

FdOpen == fd \in {"open", "broken"}

XidsOf(q) == [i \in DOMAIN q |-> q[i].xid]

(* dequeue_buffer(&zh->to_process) *)
PeekBuffer     == UNCHANGED toProcess                         \* a mutation
dequeue_buffer == toProcess' = Tail(toProcess)

(* free_completions: take the list, then, entry by entry, tell a waiting   *)
(* caller rc or queue a faked reply for the callback.                      *)
CopySentRequests ==                                           \* a mutation
    /\ doomed' = sentRequests
    /\ UNCHANGED sentRequests
TakeSentRequests ==
    /\ doomed' = sentRequests
    /\ sentRequests' = <<>>

FailAsAnswered(rc) ==                                         \* a mutation
    LET r == Head(doomed)
    IN  /\ doomed # <<>>
        /\ doomed' = Tail(doomed)
        /\ result' = [result EXCEPT ![r] = "ANSWERED"]
        /\ UNCHANGED completions

FailOne(rc) ==
    LET r == Head(doomed)
    IN  /\ doomed # <<>>
        /\ doomed' = Tail(doomed)
        /\ IF r \in Sync
           THEN /\ result' = [result EXCEPT ![r] = rc]
                /\ UNCHANGED completions
           ELSE /\ completions' = Append(completions, [xid |-> r, rc |-> rc])
                /\ UNCHANGED result

(* The connection goes: the server executes what had already reached it,   *)
(* the other packets and all unread replies are lost.                      *)
DropInFlight ==
    /\ \E k \in 0..Len(c2s) :
          applied' = applied \cup (ToSet(SubSeq(c2s, 1, k)) \cap Requests)
    /\ c2s' = <<>>
    /\ UNCHANGED connects

(* queue_session_event *)
SessionEvent(q, st) == Append(q, [xid |-> "session", rc |-> st])

-----------------------------------------------------------------------------
Init ==
    /\ pc = [r \in Requests |-> "idle"]
    /\ critical = NoOne
    /\ state = "NOTCONNECTED"
    /\ fd = "none"
    /\ connectIndex = 0
    \* zookeeper_init may be given a client id; it matters if that has expired.
    /\ hasSession \in IF MayExpire THEN BOOLEAN ELSE {FALSE}
    /\ toSend = <<>> /\ sentRequests = <<>>
    /\ toProcess = <<>> /\ completions = <<>> /\ doomed = <<>>
    /\ ioPc = "loop" /\ ioRc = "ZCONNECTIONLOSS" /\ ioHeld = NoOne
    /\ ctPc = "loop" /\ ctCall = NoOne
    /\ closeRequested = FALSE /\ closerPc = "open"
    /\ c2s = <<>> /\ s2c = <<>> /\ connects = 0
    /\ applied = {}
    /\ result = [r \in Requests |-> NoOne]
    /\ issued = <<>> /\ called = <<>> /\ lastEvent = NoOne

-----------------------------------------------------------------------------
(* A call of the API.  Every zoo_a* function has this shape; the zoo_*     *)
(* functions add the wait.                                                 *)

Check(r) ==
    /\ pc[r] = "idle"
    /\ closerPc # "closed"
    /\ r \in Nested => ctCall = r
    /\ pc' = [pc EXCEPT ![r] =
                 IF is_unrecoverable THEN "rejected" ELSE "checked"]
    /\ UNCHANGED <<critical, connVars, queueVars, ioVars, ctVars, closeVars,
                   netVars, result, history>>

(* add_completion looks at close_requested with sent_requests locked *)
AcceptAlways == TRUE                                          \* a mutation
Accepting    == ~closeRequested

(* enter_critical; add_completion *)
AddCompletion(r) ==
    /\ pc[r] = "checked"
    /\ critical = NoOne
    /\ \/ /\ Accepting
          /\ sentRequests' = Append(sentRequests, r)
          /\ issued' = Append(issued, r)
          /\ critical' = r
          /\ pc' = [pc EXCEPT ![r] = "added"]
       \/ /\ ~Accepting
          /\ pc' = [pc EXCEPT ![r] = "rejected"]
          /\ UNCHANGED <<sentRequests, issued, critical>>
    /\ UNCHANGED <<connVars, toSend, toProcess, completions, doomed, ioVars,
                   ctVars, closeVars, netVars, result, called, lastEvent>>

(* queue_buffer_bytes; leave_critical *)
QueueBuffer(r) ==
    /\ pc[r] = "added"
    /\ toSend' = Append(toSend, r)
    /\ critical' = NoOne
    /\ pc' = [pc EXCEPT ![r] = "queued"]
    /\ UNCHANGED <<connVars, sentRequests, toProcess, completions, doomed,
                   ioVars, ctVars, closeVars, netVars, result, history>>

(* flush_send_queue: k whole packets are written; on a broken connection   *)
(* the kernel may still take them, and they are lost.                      *)
FlushAndKeep(k) ==                                            \* a mutation
    /\ k \in 0..Len(toSend)
    /\ UNCHANGED toSend
    /\ c2s' = IF fd = "open" THEN c2s \o SubSeq(toSend, 1, k) ELSE c2s
flush_send_queue(k) ==
    /\ k \in 0..Len(toSend)
    /\ toSend' = SubSeq(toSend, k + 1, Len(toSend))
    /\ c2s' = IF fd = "open" THEN c2s \o SubSeq(toSend, 1, k) ELSE c2s

(* adaptor_send_queue: wake the IO thread, or write from this thread when  *)
(* the handle is being closed.                                             *)
SendQueue(r) ==
    /\ pc[r] = "queued"
    /\ IF closeRequested /\ state = "CONNECTED" /\ FdOpen
       THEN \E k \in 0..Len(toSend) : flush_send_queue(k)
       ELSE UNCHANGED <<toSend, c2s>>
    /\ pc' = [pc EXCEPT ![r] = IF r \in Sync THEN "waiting" ELSE "returned"]
    /\ UNCHANGED <<critical, connVars, sentRequests, toProcess, completions,
                   doomed, ioVars, ctVars, closeVars, s2c, connects, applied,
                   result, history>>

(* wait_sync_completion *)
WaitSync(r) ==
    /\ pc[r] = "waiting"
    /\ result[r] # NoOne
    /\ pc' = [pc EXCEPT ![r] = "returned"]
    /\ UNCHANGED <<critical, connVars, queueVars, ioVars, ctVars, closeVars,
                   netVars, result, history>>

Call(r) == \/ Check(r) \/ AddCompletion(r) \/ QueueBuffer(r)
           \/ SendQueue(r) \/ WaitSync(r)

-----------------------------------------------------------------------------
(* The IO thread *)

(* The session event handle_error queues when state is st *)
SilentLoss(st) == IF st \in Unrecoverable THEN st ELSE NoOne  \* a mutation
LossEvent(st)  == IF st \in Unrecoverable THEN st
                  ELSE IF st = "CONNECTED" THEN "CONNECTING" ELSE NoOne

(* handle_error(zh, rc) up to cleanup_bufs; st is zh->state on entry.      *)
handle_error(rc, st) ==
    /\ DropInFlight
    /\ s2c' = <<>>
    /\ fd' = "closed"
    /\ state' = st
    /\ ioPc' = "cleanup" /\ ioRc' = rc
    /\ IF LossEvent(st) # NoOne
       THEN /\ completions' = SessionEvent(completions, LossEvent(st))
            /\ lastEvent' = LossEvent(st)
       ELSE UNCHANGED <<completions, lastEvent>>

(* cleanup_bufs(zh, 1, rc), which takes zh_lock for all of it *)
IoCleanup ==
    /\ ioPc = "cleanup"
    /\ critical = NoOne
    /\ critical' = "io"
    /\ toSend' = <<>> /\ toProcess' = <<>>
    /\ TakeSentRequests
    /\ ioPc' = "fail"
    /\ UNCHANGED <<pc, connVars, completions, ioRc, ioHeld, ctVars, closeVars,
                   netVars, result, history>>

IoFailOne ==
    /\ ioPc = "fail"
    /\ FailOne(ioRc)
    /\ UNCHANGED <<callVars, connVars, toSend, sentRequests, toProcess, ioVars,
                   ctVars, closeVars, netVars, history>>

(* leave_critical, and the rest of handle_error *)
IoReset ==
    /\ ioPc = "fail" /\ doomed = <<>>
    /\ critical' = NoOne
    /\ fd' = "none"
    /\ connectIndex' = connectIndex + 1
    /\ state' = IF is_unrecoverable THEN state ELSE "CLOSED"
    /\ ioPc' = "loop"
    /\ UNCHANGED <<pc, hasSession, queueVars, ioRc, ioHeld, ctVars, closeVars,
                   netVars, result, history>>

(* while (!zh->close_requested) ... if (is_unrecoverable(zh)) break; *)
IoExit ==
    /\ ioPc = "loop"
    /\ closeRequested \/ is_unrecoverable
    /\ ioPc' = "exit"
    /\ UNCHANGED <<callVars, connVars, queueVars, ioRc, ioHeld, ctVars,
                   closeVars, netVars, result, history>>

IoLoop == ioPc = "loop" /\ ~closeRequested /\ ~is_unrecoverable

(* zookeeper_interest without a connection: start over, or connect *)
TriedAllAndOne == connectIndex = NAddrs + 1                   \* a mutation
TriedAll       == connectIndex = NAddrs

IoWrap ==
    /\ IoLoop
    /\ fd = "none"
    /\ TriedAll
    /\ connectIndex' = 0
    /\ UNCHANGED <<callVars, state, fd, hasSession, queueVars, ioVars, ctVars,
                   closeVars, netVars, result, history>>

(* prime_connection *)
PrimeConnection == /\ state' = "ASSOCIATING"
                   /\ c2s' = <<"connect">>

IoConnect ==
    /\ IoLoop
    /\ fd = "none"
    /\ ~TriedAll
    /\ \/ /\ PrimeConnection              \* connect() succeeded at once
          /\ fd' = "open" /\ ioPc' = "poll"
          /\ UNCHANGED <<s2c, connects, applied, ioRc, completions, lastEvent>>
       \/ /\ state' = "CONNECTING"        \* EINPROGRESS
          /\ fd' = "open" /\ ioPc' = "poll"
          /\ UNCHANGED <<netVars, ioRc, completions, lastEvent>>
       \/ handle_error("ZCONNECTIONLOSS", state)
    /\ UNCHANGED <<callVars, connectIndex, hasSession, toSend, sentRequests,
                   toProcess, ioHeld, doomed, ctVars, closeVars, result,
                   issued, called>>

(* zookeeper_interest with a connection that is within its deadline: a     *)
(* PING, under zh_lock, if nothing is outstanding; then poll().            *)
IoInterest ==
    /\ IoLoop
    /\ FdOpen
    /\ \/ UNCHANGED toSend
       \/ /\ "ping" \in Extras
          /\ state = "CONNECTED" /\ sentRequests = <<>> /\ critical = NoOne
          /\ "ping" \notin ToSet(toSend \o c2s \o XidsOf(s2c))   \* bound
          /\ toSend' = Append(toSend, "ping")
    /\ ioPc' = "poll"
    /\ UNCHANGED <<callVars, connVars, sentRequests, toProcess, completions,
                   ioRc, ioHeld, doomed, ctVars, closeVars, netVars, result,
                   history>>

(* zookeeper_interest finds that nothing was received for 2/3 of           *)
(* recv_timeout (the poll() before it expired).                            *)
IoTimeout ==
    /\ ioPc = "poll"
    /\ ~closeRequested
    /\ handle_error("ZOPERATIONTIMEOUT", state)
    /\ UNCHANGED <<callVars, connectIndex, hasSession, toSend, sentRequests,
                   toProcess, ioHeld, doomed, ctVars, closeVars, result,
                   issued, called>>

(* poll() returns for the self pipe, which zookeeper_close wrote. *)
IoWake ==
    /\ ioPc = "poll"
    /\ closeRequested
    /\ closerPc = "join io"
    /\ ioPc' = "loop"
    /\ UNCHANGED <<callVars, connVars, queueVars, ioRc, ioHeld, ctVars,
                   closeVars, netVars, result, history>>

(* check_events, a pending connect() is over *)
IoConnected ==
    /\ ioPc = "poll"
    /\ state = "CONNECTING"
    /\ \/ /\ PrimeConnection
          /\ ioPc' = "loop"
          /\ UNCHANGED <<fd, s2c, connects, applied, ioRc, completions,
                         lastEvent>>
       \/ handle_error("ZCONNECTIONLOSS", state)
    /\ UNCHANGED <<callVars, connectIndex, hasSession, toSend, sentRequests,
                   toProcess, ioHeld, doomed, ctVars, closeVars, result,
                   issued, called>>

(* check_events, the connection is writable *)
IoFlush ==
    /\ ioPc = "poll"
    /\ state = "CONNECTED" /\ toSend # <<>>
    /\ \/ /\ \E k \in 1..Len(toSend) : flush_send_queue(k)
          /\ ioPc' = "read"
          /\ UNCHANGED <<state, fd, s2c, connects, applied, ioRc, completions,
                         lastEvent>>
       \/ /\ fd = "broken"
          /\ handle_error("ZCONNECTIONLOSS", state)
          /\ UNCHANGED toSend
    /\ UNCHANGED <<callVars, connectIndex, hasSession, sentRequests, toProcess,
                   ioHeld, doomed, ctVars, closeVars, result, issued, called>>

(* check_events, the connection is readable: a reply goes to to_process *)
IoRead ==
    /\ ioPc \in {"poll", "read"}
    /\ s2c # <<>>
    /\ Head(s2c).xid # "connect"
    /\ toProcess' = Append(toProcess, Head(s2c))
    /\ s2c' = Tail(s2c)
    /\ ioPc' = "dispatch"
    /\ UNCHANGED <<callVars, connVars, toSend, sentRequests, completions, ioRc,
                   ioHeld, doomed, ctVars, closeVars, c2s, connects, applied,
                   result, history>>

(* check_events, the handshake is answered: send_set_watches and then      *)
(* send_auth_info each put their packet in front of to_send.               *)
Greeting == (IF "auth" \in Extras THEN <<"auth">> ELSE <<>>)
            \o (IF "set_watches" \in Extras THEN <<"set_watches">> ELSE <<>>)

IoHandshake ==
    /\ ioPc = "poll"
    /\ s2c # <<>>
    /\ Head(s2c).xid = "connect"
    /\ \/ /\ Head(s2c).ok
          /\ state' = "CONNECTED" /\ hasSession' = TRUE
          /\ toSend' = Greeting \o toSend
          /\ completions' = SessionEvent(completions, "CONNECTED")
          /\ lastEvent' = "CONNECTED"
          /\ s2c' = Tail(s2c)
          /\ ioPc' = "loop"
          /\ UNCHANGED <<fd, ioRc, c2s, connects, applied>>
       \/ /\ ~Head(s2c).ok
          /\ handle_error("ZSESSIONEXPIRED", "EXPIRED")
          /\ UNCHANGED <<hasSession, toSend>>
    /\ UNCHANGED <<callVars, connectIndex, sentRequests, toProcess, ioHeld,
                   doomed, ctVars, closeVars, result, issued, called>>

(* check_events, recv() fails or returns 0 *)
IoReadError ==
    /\ ioPc \in {"poll", "read"}
    /\ s2c = <<>> /\ fd = "broken"
    /\ handle_error("ZCONNECTIONLOSS", state)
    /\ UNCHANGED <<callVars, connectIndex, hasSession, toSend, sentRequests,
                   toProcess, ioHeld, doomed, ctVars, closeVars, result,
                   issued, called>>

(* check_events after a flush with nothing to read *)
IoNothing ==
    /\ ioPc = "read"
    /\ s2c = <<>> /\ fd = "open"
    /\ ioPc' = "loop"
    /\ UNCHANGED <<callVars, connVars, queueVars, ioRc, ioHeld, ctVars,
                   closeVars, netVars, result, history>>

(* zookeeper_process, a message that answers no request *)
IoDispatchReserved ==
    /\ ioPc = "dispatch"
    /\ LET m == Head(toProcess)
       IN  \/ /\ m.xid \in {"ping", "set_watches"} \/ (m.xid = "auth" /\ m.ok)
              /\ ioPc' = "loop"
              /\ UNCHANGED <<state, fd, ioRc, completions, lastEvent, netVars>>
           \/ /\ m.xid = "event"
              /\ completions' = Append(completions,
                                       [xid |-> "event", rc |-> "ANSWERED"])
              /\ ioPc' = "loop"
              /\ UNCHANGED <<state, fd, ioRc, lastEvent, netVars>>
           \/ /\ m.xid = "auth" /\ ~m.ok
              /\ handle_error("ZAUTHFAILED", "AUTH_FAILED")
    /\ dequeue_buffer
    /\ UNCHANGED <<callVars, connectIndex, hasSession, toSend, sentRequests,
                   ioHeld, doomed, ctVars, closeVars, result, issued, called>>

(* zookeeper_process, a reply: take the oldest entry of sent_requests.  An *)
(* empty list is legal only once zookeeper_close has run (ZOOKEEPER-804).  *)
IoDispatchReply ==
    /\ ioPc = "dispatch"
    /\ Head(toProcess).xid \in Requests
    /\ \/ /\ sentRequests # <<>>
          /\ ioHeld' = Head(sentRequests)
          /\ sentRequests' = Tail(sentRequests)
          /\ ioPc' = "match"
          /\ UNCHANGED toProcess
       \/ /\ sentRequests = <<>> /\ closeRequested
          /\ dequeue_buffer
          /\ ioPc' = "loop"
          /\ UNCHANGED <<ioHeld, sentRequests>>
    /\ UNCHANGED <<callVars, connVars, toSend, completions, ioRc, doomed,
                   ctVars, closeVars, netVars, result, history>>

(* zookeeper_process, the entry taken has the reply's xid *)
IoComplete ==
    /\ ioPc = "match"
    /\ Head(toProcess).xid = ioHeld
    /\ \/ /\ ioHeld \in Sync
          /\ result' = [result EXCEPT ![ioHeld] = "ANSWERED"]
          /\ UNCHANGED completions
       \/ /\ ioHeld \in Async
          /\ completions' = Append(completions,
                                   [xid |-> ioHeld, rc |-> "ANSWERED"])
          /\ UNCHANGED result
    /\ ioHeld' = NoOne
    /\ dequeue_buffer
    /\ ioPc' = "loop"
    /\ UNCHANGED <<callVars, connVars, toSend, sentRequests, ioRc, doomed,
                   ctVars, closeVars, netVars, history>>

(* queue_completion(&zh->sent_requests, cptr, 1) *)
PutBackLast == sentRequests' = Append(sentRequests, ioHeld)   \* a mutation
PutBack     == sentRequests' = <<ioHeld>> \o sentRequests

(* zookeeper_process, it has not: put it back and drop the connection *)
IoMismatch ==
    /\ ioPc = "match"
    /\ Head(toProcess).xid # ioHeld
    /\ PutBack
    /\ ioHeld' = NoOne
    /\ dequeue_buffer
    /\ handle_error("ZRUNTIMEINCONSISTENCY", state)
    /\ UNCHANGED <<callVars, connectIndex, hasSession, toSend, doomed, ctVars,
                   closeVars, result, issued, called>>

IoStep == \/ IoCleanup \/ IoFailOne \/ IoReset \/ IoExit \/ IoWrap \/ IoConnect
          \/ IoInterest \/ IoWake \/ IoConnected \/ IoFlush \/ IoRead
          \/ IoHandshake \/ IoReadError \/ IoNothing \/ IoDispatchReserved
          \/ IoDispatchReply \/ IoComplete \/ IoMismatch

-----------------------------------------------------------------------------
(* The completion thread *)

(* while(!zh->close_requested) { while(!head && !close_requested) wait *)
CtLoop ==
    /\ ctPc = "loop"
    /\ ctPc' = IF closeRequested THEN "exit"
               ELSE IF completions = <<>> THEN "wait" ELSE "drain"
    /\ UNCHANGED <<callVars, connVars, queueVars, ioVars, ctCall, closeVars,
                   netVars, result, history>>

(* pthread_cond_wait returns: the list was unlocked with something in it,  *)
(* or adaptor_finish broadcast.                                            *)
SignalledByClose == closerPc = "join ct"                      \* a mutation
SignalledByQueue == completions # <<>>                        \* a mutation
Signalled == completions # <<>> \/ closerPc = "join ct"

CtWake ==
    /\ ctPc = "wait"
    /\ Signalled
    /\ ctPc' = "drain"
    /\ UNCHANGED <<callVars, connVars, queueVars, ioVars, ctCall, closeVars,
                   netVars, result, history>>

(* process_completions: one entry; its callback may make a nested call *)
CtCallback ==
    /\ ctPc = "drain" /\ ctCall = NoOne
    /\ completions # <<>>
    /\ LET c == Head(completions)
       IN  IF c.xid \in Requests
           THEN /\ result' = [result EXCEPT ![c.xid] = c.rc]
                /\ called' = Append(called, c.xid)
           ELSE UNCHANGED <<result, called>>
    /\ completions' = Tail(completions)
    /\ ctCall' \in {NoOne} \cup {n \in Nested : pc[n] = "idle"}
    /\ UNCHANGED <<callVars, connVars, toSend, sentRequests, toProcess, doomed,
                   ioVars, ctPc, closeVars, netVars, issued, lastEvent>>

(* the nested call, and with it the callback, returns *)
CtCallbackEnds ==
    /\ ctCall # NoOne
    /\ pc[ctCall] \in {"returned", "rejected"}
    /\ ctCall' = NoOne
    /\ UNCHANGED <<callVars, connVars, queueVars, ioVars, ctPc, closeVars,
                   netVars, result, history>>

CtDrained ==
    /\ ctPc = "drain" /\ ctCall = NoOne
    /\ completions = <<>>
    /\ ctPc' = "loop"
    /\ UNCHANGED <<callVars, connVars, queueVars, ioVars, ctCall, closeVars,
                   netVars, result, history>>

CtStep == CtLoop \/ CtWake \/ CtCallback \/ CtCallbackEnds \/ CtDrained

-----------------------------------------------------------------------------
(* zookeeper_close, called by an application thread *)

CloseUnannounced == UNCHANGED closeRequested                  \* a mutation
Announce         == closeRequested' = TRUE

CloseRequest ==
    /\ MayClose
    /\ closerPc = "open"
    /\ Announce
    /\ closerPc' = "purge"
    /\ UNCHANGED <<callVars, connVars, queueVars, ioVars, ctVars, netVars,
                   result, history>>

(* free_completions(zh, 1, ZCLOSING) under zh_lock *)
ClosePurge ==
    /\ closerPc = "purge"
    /\ critical = NoOne
    /\ critical' = "closer"
    /\ TakeSentRequests
    /\ closerPc' = "fail"
    /\ UNCHANGED <<pc, connVars, toSend, toProcess, completions, ioVars,
                   ctVars, closeRequested, netVars, result, history>>

CloseFailOne ==
    /\ closerPc \in {"fail", "free"}
    /\ FailOne("ZCLOSING")
    /\ UNCHANGED <<callVars, connVars, toSend, sentRequests, toProcess, ioVars,
                   ctVars, closeVars, netVars, history>>

(* leave_critical, then wakeup_io_thread *)
CloseWakeIo ==
    /\ closerPc = "fail" /\ doomed = <<>>
    /\ critical' = NoOne
    /\ closerPc' = "join io"
    /\ UNCHANGED <<pc, connVars, queueVars, ioVars, ctVars, closeRequested,
                   netVars, result, history>>

(* pthread_join(io), then the broadcast on completions_to_process *)
CloseJoinIo ==
    /\ closerPc = "join io"
    /\ ioPc = "exit"
    /\ closerPc' = "join ct"
    /\ UNCHANGED <<callVars, connVars, queueVars, ioVars, ctVars,
                   closeRequested, netVars, result, history>>

CloseJoinCt ==
    /\ closerPc = "join ct"
    /\ ctPc = "exit"
    /\ closerPc' = "destroy"
    /\ UNCHANGED <<callVars, connVars, queueVars, ioVars, ctVars,
                   closeRequested, netVars, result, history>>

(* The last api_epilog: flush what is left with the CLOSE packet, then     *)
(* destroy.  The application keeps its side of the contract: none of its   *)
(* calls is still on its way into the queues (zookeeper.h:464).            *)
CloseDestroy ==
    /\ closerPc = "destroy"
    /\ \A r \in Requests : pc[r] \notin {"checked", "added", "queued"}
    /\ IF state = "CONNECTED" /\ fd = "open"
       THEN \E k \in 0..Len(toSend) :
               applied' = applied \cup
                          (ToSet(c2s \o SubSeq(toSend, 1, k)) \cap Requests)
       ELSE UNCHANGED applied
    /\ toSend' = <<>> /\ toProcess' = <<>>
    /\ TakeSentRequests
    /\ c2s' = <<>> /\ s2c' = <<>>
    /\ closerPc' = "free"
    /\ UNCHANGED <<callVars, connVars, completions, ioVars, ctVars,
                   closeRequested, connects, result, history>>

CloseFree ==
    /\ closerPc = "free" /\ doomed = <<>>
    /\ IF fd # "none"
       THEN state' = "CLOSED" /\ fd' = "none"
       ELSE UNCHANGED <<state, fd>>
    /\ closerPc' = "closed"
    /\ UNCHANGED <<callVars, connectIndex, hasSession, queueVars, ioVars,
                   ctVars, closeRequested, netVars, result, history>>

CloseStep == \/ ClosePurge \/ CloseFailOne \/ CloseWakeIo \/ CloseJoinIo
             \/ CloseJoinCt \/ CloseDestroy \/ CloseFree

-----------------------------------------------------------------------------
(* The server and the network *)

(* A handshake is accepted, or, if the client names a session the server   *)
(* no longer knows, answered with session id 0.                            *)
ServerHandshake ==
    /\ fd = "open"
    /\ c2s # <<>> /\ Head(c2s) = "connect"
    /\ connects < MaxConnects
    /\ \E ok \in IF hasSession /\ MayExpire THEN BOOLEAN ELSE {TRUE} :
          s2c' = Append(s2c, [xid |-> "connect", ok |-> ok])
    /\ connects' = connects + 1
    /\ c2s' = Tail(c2s)
    /\ UNCHANGED <<callVars, connVars, queueVars, ioVars, ctVars, closeVars,
                   applied, result, history>>

(* Requests of a session are executed and answered in order. *)
ServerAnswer ==
    /\ fd = "open"
    /\ c2s # <<>> /\ Head(c2s) # "connect"
    /\ \E ok \in IF Head(c2s) = "auth" THEN BOOLEAN ELSE {TRUE} :
          s2c' = Append(s2c, [xid |-> Head(c2s), ok |-> ok])
    /\ applied' = applied \cup ({Head(c2s)} \cap Requests)
    /\ c2s' = Tail(c2s)
    /\ UNCHANGED <<callVars, connVars, queueVars, ioVars, ctVars, closeVars,
                   connects, result, history>>

(* A faulty server swaps two requests. *)
ServerReorder ==
    /\ ServerFaulty
    /\ Len(c2s) >= 2 /\ c2s[1] \in Requests /\ c2s[2] \in Requests
    /\ c2s' = <<c2s[2], c2s[1]>> \o SubSeq(c2s, 3, Len(c2s))
    /\ UNCHANGED <<callVars, connVars, queueVars, ioVars, ctVars, closeVars,
                   s2c, connects, applied, result, history>>

(* A watch fires.  At most one notification is on its way (bound). *)
ServerEvent ==
    /\ "event" \in Extras
    /\ fd = "open" /\ state = "CONNECTED"
    /\ "event" \notin ToSet(XidsOf(s2c \o toProcess) \o XidsOf(completions))
    /\ s2c' = Append(s2c, [xid |-> "event", ok |-> TRUE])
    /\ UNCHANGED <<callVars, connVars, queueVars, ioVars, ctVars, closeVars,
                   c2s, connects, applied, result, history>>

(* The connection breaks; replies already received can still be read. *)
NetBreak ==
    /\ fd = "open"
    /\ fd' = "broken"
    /\ DropInFlight
    /\ \E k \in 0..Len(s2c) : s2c' = SubSeq(s2c, 1, k)
    /\ UNCHANGED <<callVars, state, connectIndex, hasSession, queueVars,
                   ioVars, ctVars, closeVars, result, history>>

Environment == \/ ServerHandshake \/ ServerAnswer \/ ServerReorder
               \/ ServerEvent \/ NetBreak

-----------------------------------------------------------------------------
(* Everything is over: the handle is gone with its threads, or the IO      *)
(* thread has given up and no close will come; no call is stuck.           *)
Terminated ==
    /\ closerPc = "closed" \/ (ioPc = "exit" /\ ~MayClose)
    /\ \A r \in Requests : pc[r] \in {"idle", "returned", "rejected"}
    /\ UNCHANGED vars

Next == \/ \E r \in Requests : Call(r)
        \/ IoStep \/ IoTimeout
        \/ CtStep
        \/ CloseRequest \/ CloseStep
        \/ Environment
        \/ Terminated

Spec == Init /\ [][Next]_vars

(* The threads of the process run.  The deadline of a connection that is   *)
(* still being set up, or that owes an answer, passes if nothing arrives:  *)
(* no server goes on for ever sending events, each of which puts it off    *)
(* (zookeeper.c:1751), instead of the answer.  No more is assumed of       *)
(* servers and network.  A caller that wants zh_lock gets it in the end:   *)
(* the IO thread, which takes it each time a connection fails, sleeps in   *)
(* poll() without it whenever it has tried all the addresses (1580).       *)
TimeoutDue == IoTimeout /\ (sentRequests # <<>> \/ state # "CONNECTED")

Fairness ==
    /\ \A r \in Requests :
          /\ WF_vars((pc[r] # "idle" \/ r \in Nested) /\ Call(r))
          /\ SF_vars(AddCompletion(r))
    /\ WF_vars(IoStep \/ TimeoutDue)
    /\ WF_vars(CtStep)
    /\ WF_vars(CloseStep)

FairSpec == Spec /\ Fairness

-----------------------------------------------------------------------------
(* Properties *)

(* Every variable has its type.  do_io handles one message at a time: it   *)
(* has one in to_process exactly while it dispatches it, and holds an      *)
(* entry of sent_requests exactly while it compares the two.               *)
CallTypes ==
    /\ pc \in [Requests -> {"idle", "checked", "added", "queued", "waiting",
                           "returned", "rejected"}]
    /\ critical \in Requests \cup {"io", "closer", NoOne}
    /\ result \in [Requests -> Outcomes \cup {NoOne}]
    /\ ctCall \in Nested \cup {NoOne}

ConnTypes ==
    /\ state \in States
    /\ fd \in {"none", "open", "broken", "closed"}
    /\ connectIndex \in Nat
    /\ hasSession \in BOOLEAN
    /\ connects \in Nat

QueueTypes ==
    /\ toSend \in Seq(Packets) /\ c2s \in Seq(Packets)
    /\ s2c \in Seq(Replies)
    /\ sentRequests \in Seq(Requests) /\ doomed \in Seq(Requests)
    /\ completions \in Seq(Completion)

ThreadTypes ==
    /\ ioPc \in {"loop", "poll", "read", "dispatch", "match", "cleanup",
                 "fail", "exit"}
    /\ ioRc \in Errors
    /\ ioHeld \in IF ioPc = "match" THEN Requests ELSE {NoOne}
    /\ toProcess \in Seq(Replies)
    /\ Len(toProcess) = IF ioPc \in {"dispatch", "match"} THEN 1 ELSE 0
    /\ ctPc \in {"loop", "wait", "drain", "exit"}
    /\ closeRequested \in BOOLEAN
    /\ closerPc \in {"open", "purge", "fail", "join io", "join ct", "destroy",
                     "free", "closed"}

HistoryTypes ==
    /\ applied \subseteq Requests
    /\ issued \in Seq(Requests) /\ called \in Seq(Requests)
    /\ lastEvent \in States \cup {NoOne}

TypeOK == /\ CallTypes /\ ConnTypes /\ QueueTypes /\ ThreadTypes
          /\ HistoryTypes

(* addrs[connect_index] is inside the array whenever the IO thread uses it *)
(* (zookeeper_interest, and the messages of handle_socket_error_msg), over *)
(* any sequence of failed, lost and refused connections.                   *)
AddressInBounds ==
    /\ connectIndex <= NAddrs
    /\ fd # "none" => connectIndex < NAddrs

(* A request accepted by add_completion is at every moment in exactly one  *)
(* place: on sent_requests, in the hands of the IO thread, on the list of  *)
(* free_completions, on completions_to_process, or finished.  It is never  *)
(* lost and never completed twice, whichever of a reply, handle_error and  *)
(* zookeeper_close gets to it first; a rejected request is nowhere.        *)
Occurrences(q, r) == Cardinality({i \in DOMAIN q : q[i] = r})

OnePlace ==
    \A r \in Requests :
       Occurrences(<<ioHeld>> \o doomed \o sentRequests, r)
         + Occurrences(XidsOf(completions), r)
         + (IF result[r] # NoOne THEN 1 ELSE 0)
       = IF pc[r] \in {"idle", "checked", "rejected"} THEN 0 ELSE 1

(* The order in which add_completion accepted the requests; q holds        *)
(* requests in that order, none of them twice.                             *)
Earlier == {p \in Requests \X Requests :
               \E i, j \in DOMAIN issued :
                  i < j /\ issued[i] = p[1] /\ issued[j] = p[2]}

Sorted(q, order) ==
    \A i, j \in DOMAIN q :
       i < j /\ q[i] \in Requests /\ q[j] \in Requests =>
          <<q[i], q[j]>> \in order

RequestsIn(q) == ToSet(q) \cap Requests

(* Until the handle is being closed, callbacks run in the order in which   *)
(* their requests were put on sent_requests, across replies, lost          *)
(* connections and the requests queued for the next one, and none is left  *)
(* out.                                                                    *)
CallbackOrder ==
    ~closeRequested =>
       LET all == called \o XidsOf(completions)
                         \o <<ioHeld>> \o doomed \o sentRequests
       IN  /\ Sorted(all, Earlier)
           /\ RequestsIn(all) \cap Async = ToSet(issued) \cap Async

(* sent_requests lists exactly the requests that are answered but unread,  *)
(* on the wire, or still in to_send, in that order, so that the            *)
(* oldest entry is always the one the next reply is for; on a broken       *)
(* connection those in between are lost.  zookeeper_close empties the list *)
(* but not to_send.                                                        *)
Outstanding == <<ioHeld>> \o sentRequests
OnTheWire   == XidsOf(toProcess) \o XidsOf(s2c) \o c2s
Unsent      == toSend \o <<critical>>
Lost        == RequestsIn(Outstanding) \ RequestsIn(OnTheWire \o Unsent)

PipelineInOrder ==
    ~ServerFaulty /\ ioPc # "cleanup" /\ closerPc \in {"open", "purge"} =>
       /\ Sorted(Outstanding, Earlier)
       /\ Sorted(OnTheWire \o Unsent, Earlier)
       /\ RequestsIn(OnTheWire \o Unsent) \subseteq RequestsIn(Outstanding)
       /\ Lost # {} => fd = "broken"
       /\ RequestsIn(OnTheWire) \X Lost \subseteq Earlier
       /\ Lost \X RequestsIn(Unsent) \subseteq Earlier

(* assert(cptr) in zookeeper_process, and the xid comparison after it: a   *)
(* reply always finds its request, unless zookeeper_close has emptied      *)
(* sent_requests, and then close_requested is already visible.             *)
ReplyFindsRequest ==
    /\ ioPc = "dispatch" /\ Head(toProcess).xid \in Requests =>
          sentRequests # <<>> \/ closeRequested
    /\ ~ServerFaulty /\ ioPc = "match" => Head(toProcess).xid = ioHeld

(* The caller is told the truth: an answer means that a server executed    *)
(* the request, a refused call means that none ever will.                  *)
OutcomeIsTruthful ==
    \A r \in Requests :
       /\ (result[r] = "ANSWERED"
             \/ [xid |-> r, rc |-> "ANSWERED"] \in ToSet(completions))
               => r \in applied
       /\ pc[r] = "rejected" =>
             r \notin applied /\ r \notin ToSet(toSend \o c2s)

(* Once zookeeper_close has emptied sent_requests nothing is put on it any *)
(* more, so no caller can be left waiting there; the only exception is an  *)
(* entry the IO thread already held and is about to fail.                  *)
PurgedStaysEmpty ==
    closerPc \notin {"open", "purge"} =>
       sentRequests = <<>> \/ ioPc = "cleanup"

(* What the session watcher is told agrees with the handle's state: it     *)
(* hears CONNECTED for each handshake, CONNECTING for each connection lost *)
(* after one, and an unrecoverable state exactly when the IO thread gives  *)
(* up.                                                                     *)
SessionEventsTrackState ==
    ioPc \notin {"cleanup", "fail"} /\ closerPc # "closed" =>
       /\ state = "CONNECTED" <=> lastEvent = "CONNECTED"
       /\ is_unrecoverable <=> lastEvent \in Unrecoverable
       /\ lastEvent \in Unrecoverable => lastEvent = state

(* The pipeline is a service of requests (RequestService): each accepted   *)
(* request is told one outcome, once and truthfully, callbacks keep their  *)
(* order, and a refusal means that the session or the handle was at its    *)
(* end and that the request is never executed.                             *)
Service == INSTANCE RequestService WITH
              refused <- {r \in Requests : pc[r] = "rejected"},
              over    <- closeRequested \/ is_unrecoverable,
              closing <- closeRequested
ServiceHolds == Service!Spec

(* Every call returns: a synchronous caller is never left in               *)
(* wait_sync_completion, not even one inside a callback.                   *)
EveryCallReturns ==
    \A r \in Requests :
       pc[r] = "checked" ~> pc[r] \in {"returned", "rejected"}

(* Every accepted asynchronous request gets its callback. *)
EveryCallbackRuns ==
    \A r \in Async : r \in ToSet(sentRequests) ~> result[r] # NoOne

(* zookeeper_close returns: both threads notice and can be joined. *)
CloseReturns == closerPc = "purge" ~> closerPc = "closed"
=============================================================================
