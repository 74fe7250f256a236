------------------------ MODULE RequestPipelineProofs ------------------------
(***************************************************************************)
(* What holds of RequestPipeline for every set of requests, every number   *)
(* of addresses and every bound.                                           *)
(***************************************************************************)
EXTENDS RequestPipeline, SequenceTheorems, FiniteSetTheorems, TLAPS

(* The steps of Next, flat: the case split of every proof below. *)
LEMMA NextCases ==
    ASSUME Next
    PROVE  \/ \E r \in Requests : \/ Check(r) \/ AddCompletion(r)
                                  \/ QueueBuffer(r) \/ SendQueue(r)
                                  \/ WaitSync(r)
           \/ IoCleanup \/ IoFailOne \/ IoReset \/ IoExit \/ IoWrap
           \/ IoConnect \/ IoInterest \/ IoTimeout \/ IoWake \/ IoConnected
           \/ IoFlush \/ IoRead \/ IoHandshake \/ IoReadError \/ IoNothing
           \/ IoDispatchReserved \/ IoDispatchReply \/ IoComplete
           \/ IoMismatch
           \/ CtStep
           \/ CloseRequest \/ ClosePurge \/ CloseFailOne \/ CloseWakeIo
           \/ CloseJoinIo \/ CloseJoinCt \/ CloseDestroy \/ CloseFree
           \/ ServerHandshake \/ ServerAnswer \/ ServerReorder \/ ServerEvent
           \/ NetBreak
           \/ UNCHANGED vars
BY DEF Next, Call, IoStep, CloseStep, Environment, Terminated

-----------------------------------------------------------------------------
(* AddressInBounds is not inductive: IoReset may only add 1 to an index    *)
(* that is in use.  It is in use from connect() until the connection is    *)
(* given up, and nobody but the IO thread gives it up while that runs.     *)
Connecting == ioPc \in {"poll", "read", "dispatch", "match", "cleanup", "fail"}
IoJoined   == closerPc \in {"join ct", "destroy", "free", "closed"}

ConnectionInv ==
    /\ Connecting => fd # "none"
    /\ IoJoined => ioPc = "exit"

AddressInv ==
    /\ connectIndex \in 0..NAddrs
    /\ fd # "none" => connectIndex < NAddrs

LEMMA ConnectionInit == Init => ConnectionInv
BY DEF Init, ConnectionInv, Connecting, IoJoined

LEMMA ConnectionStep == ConnectionInv /\ [Next]_vars => ConnectionInv'
<1> SUFFICES ASSUME ConnectionInv, [Next]_vars PROVE ConnectionInv'
    OBVIOUS
<1> USE DEF ConnectionInv, Connecting, IoJoined
<1>1. CASE UNCHANGED vars
    BY <1>1 DEF vars, connVars, ioVars, closeVars
<1>2. ASSUME NEW r \in Requests,
             Check(r) \/ AddCompletion(r) \/ QueueBuffer(r) \/ SendQueue(r)
                \/ WaitSync(r)
      PROVE  ConnectionInv'
    BY <1>2 DEF Check, AddCompletion, QueueBuffer, SendQueue, WaitSync,
                connVars, ioVars, closeVars
<1>3. CASE IoCleanup \/ IoFailOne \/ IoExit \/ IoWrap \/ IoInterest \/ IoWake
              \/ IoRead \/ IoNothing \/ IoDispatchReply \/ IoComplete
    BY <1>3 DEF IoCleanup, IoFailOne, IoExit, IoWrap, IoInterest, IoWake,
                IoRead, IoNothing, IoDispatchReply, IoComplete, IoLoop,
                FdOpen, connVars, ioVars, closeVars
<1>4. CASE IoReset \/ IoConnect \/ IoTimeout \/ IoConnected \/ IoFlush
              \/ IoHandshake \/ IoReadError \/ IoDispatchReserved
              \/ IoMismatch
    BY <1>4 DEF IoReset, IoConnect, IoLoop, IoTimeout, IoConnected, IoFlush,
                IoHandshake, IoReadError, IoDispatchReserved, IoMismatch,
                handle_error, connVars, ioVars, closeVars
<1>5. CASE CtStep
    BY <1>5 DEF CtStep, CtLoop, CtWake, CtCallback, CtCallbackEnds, CtDrained,
                connVars, ioVars, closeVars
<1>6. CASE CloseRequest \/ ClosePurge \/ CloseFailOne \/ CloseWakeIo
              \/ CloseJoinIo \/ CloseJoinCt \/ CloseDestroy \/ CloseFree
    BY <1>6 DEF CloseRequest, ClosePurge, CloseFailOne, CloseWakeIo,
                CloseJoinIo, CloseJoinCt, CloseDestroy, CloseFree, connVars,
                ioVars, closeVars
<1>7. CASE ServerHandshake \/ ServerAnswer \/ ServerReorder \/ ServerEvent
              \/ NetBreak
    BY <1>7 DEF ServerHandshake, ServerAnswer, ServerReorder, ServerEvent,
                NetBreak, connVars, ioVars, closeVars
<1>8. QED
    BY <1>1, <1>2, <1>3, <1>4, <1>5, <1>6, <1>7, NextCases

LEMMA AddressStep ==
    ConnectionInv /\ AddressInv /\ [Next]_vars => AddressInv'
<1> SUFFICES ASSUME ConnectionInv, AddressInv, [Next]_vars PROVE AddressInv'
    OBVIOUS
<1>1. NAddrs \in Nat
    BY BoundsAssumption
<1>2. ASSUME UNCHANGED <<fd, connectIndex>> PROVE AddressInv'
    BY <1>2 DEF AddressInv
<1>3. CASE UNCHANGED vars
    BY <1>3, <1>2 DEF vars, connVars
<1>4. ASSUME NEW r \in Requests,
             Check(r) \/ AddCompletion(r) \/ QueueBuffer(r) \/ SendQueue(r)
                \/ WaitSync(r)
      PROVE  AddressInv'
    BY <1>2, <1>4 DEF Check, AddCompletion, QueueBuffer, SendQueue, WaitSync,
                      connVars
<1>5. CASE IoCleanup \/ IoFailOne \/ IoExit \/ IoInterest \/ IoWake \/ IoRead
              \/ IoNothing \/ IoDispatchReply \/ IoComplete
    BY <1>2, <1>5 DEF IoCleanup, IoFailOne, IoExit, IoInterest, IoWake,
                      IoRead, IoNothing, IoDispatchReply, IoComplete, connVars
<1>6. CASE CtStep \/ CloseRequest \/ ClosePurge \/ CloseFailOne \/ CloseWakeIo
              \/ CloseJoinIo \/ CloseJoinCt \/ CloseDestroy
    BY <1>2, <1>6 DEF CtStep, CtLoop, CtWake, CtCallback, CtCallbackEnds,
                      CtDrained, CloseRequest, ClosePurge, CloseFailOne,
                      CloseWakeIo, CloseJoinIo, CloseJoinCt, CloseDestroy,
                      connVars
<1>7. CASE ServerHandshake \/ ServerAnswer \/ ServerReorder \/ ServerEvent
    BY <1>2, <1>7 DEF ServerHandshake, ServerAnswer, ServerReorder,
                      ServerEvent, connVars
<1>8. CASE CloseFree \/ NetBreak
    BY <1>1, <1>8 DEF AddressInv, CloseFree, NetBreak
<1>9. CASE IoWrap
    BY <1>1, <1>9 DEF AddressInv, IoWrap
<1>10. CASE IoConnect
    <2>1. connectIndex < NAddrs /\ connectIndex' = connectIndex
        BY <1>1, <1>10 DEF AddressInv, IoConnect, TriedAll
    <2>2. QED
        BY <1>1, <2>1 DEF AddressInv
<1>11. CASE IoReset
    BY <1>1, <1>11 DEF ConnectionInv, Connecting, AddressInv, IoReset
<1>12. CASE IoTimeout \/ IoConnected \/ IoFlush \/ IoHandshake \/ IoReadError
               \/ IoDispatchReserved \/ IoMismatch
    <2>1. fd # "none" /\ connectIndex' = connectIndex
        BY <1>12 DEF ConnectionInv, Connecting, IoTimeout, IoConnected,
                     IoFlush, IoHandshake, IoReadError, IoDispatchReserved,
                     IoMismatch
    <2>2. QED
        BY <1>1, <2>1 DEF AddressInv
<1>13. QED
    BY <1>3, <1>4, <1>5, <1>6, <1>7, <1>8, <1>9, <1>10, <1>11, <1>12,
       NextCases

(* zh->addrs[zh->connect_index] never leaves the array in the IO thread,   *)
(* however many addresses there are and however connections fail.          *)
THEOREM AddressAlwaysInBounds == Spec => []AddressInBounds
<1>1. Init => AddressInv
    BY BoundsAssumption DEF Init, AddressInv
<1>2. AddressInv => AddressInBounds
    BY BoundsAssumption DEF AddressInv, AddressInBounds
<1>3. QED
    BY <1>1, <1>2, ConnectionInit, ConnectionStep, AddressStep, PTL DEF Spec

-----------------------------------------------------------------------------
(* PurgedStaysEmpty is inductive with the order in which zookeeper_close   *)
(* works: the flag that add_completion tests is set before the purge.      *)
PurgeInv ==
    /\ closerPc # "open" => closeRequested
    /\ PurgedStaysEmpty

LEMMA PurgeStep == PurgeInv /\ [Next]_vars => PurgeInv'
<1> SUFFICES ASSUME PurgeInv, [Next]_vars PROVE PurgeInv'
    OBVIOUS
<1> USE DEF PurgeInv, PurgedStaysEmpty
<1>1. CASE UNCHANGED vars
    BY <1>1 DEF vars, ioVars, queueVars, closeVars
<1>2. ASSUME NEW r \in Requests,
             Check(r) \/ AddCompletion(r) \/ QueueBuffer(r) \/ SendQueue(r)
                \/ WaitSync(r)
      PROVE  PurgeInv'
    BY <1>2 DEF Check, AddCompletion, Accepting, QueueBuffer, SendQueue,
                WaitSync, ioVars, queueVars, closeVars
<1>3. CASE IoCleanup \/ IoDispatchReply
    BY <1>3 DEF IoCleanup, IoDispatchReply, TakeSentRequests, closeVars
<1>4. CASE IoFailOne \/ IoReset \/ IoExit \/ IoWrap \/ IoInterest \/ IoWake
              \/ IoRead \/ IoNothing \/ IoComplete
    BY <1>4 DEF IoFailOne, IoReset, IoExit, IoWrap, IoInterest, IoWake,
                IoRead, IoNothing, IoComplete, IoLoop, ioVars, queueVars,
                closeVars
<1>5. CASE IoConnect \/ IoTimeout \/ IoConnected \/ IoFlush \/ IoHandshake
              \/ IoReadError \/ IoDispatchReserved \/ IoMismatch
    BY <1>5 DEF IoConnect, IoLoop, IoTimeout, IoConnected, IoFlush,
                IoHandshake, IoReadError, IoDispatchReserved, IoMismatch,
                handle_error, closeVars
<1>6. CASE CtStep
    BY <1>6 DEF CtStep, CtLoop, CtWake, CtCallback, CtCallbackEnds, CtDrained,
                ioVars, queueVars, closeVars
<1>7. CASE CloseRequest \/ ClosePurge \/ CloseFailOne \/ CloseWakeIo
              \/ CloseJoinIo \/ CloseJoinCt \/ CloseDestroy \/ CloseFree
    BY <1>7 DEF CloseRequest, Announce, ClosePurge, CloseFailOne, CloseWakeIo,
                CloseJoinIo, CloseJoinCt, CloseDestroy, CloseFree,
                TakeSentRequests, ioVars, queueVars, closeVars
<1>8. CASE ServerHandshake \/ ServerAnswer \/ ServerReorder \/ ServerEvent
              \/ NetBreak
    BY <1>8 DEF ServerHandshake, ServerAnswer, ServerReorder, ServerEvent,
                NetBreak, ioVars, queueVars, closeVars
<1>9. QED
    BY <1>1, <1>2, <1>3, <1>4, <1>5, <1>6, <1>7, <1>8, NextCases

(* However many callers race with zookeeper_close, none can put a request  *)
(* on sent_requests once it has been emptied.                              *)
THEOREM PurgeIsFinal == Spec => []PurgedStaysEmpty
<1>1. Init => PurgeInv
    BY DEF Init, PurgeInv, PurgedStaysEmpty
<1>2. PurgeInv => PurgedStaysEmpty
    BY DEF PurgeInv
<1>3. QED
    BY <1>1, <1>2, PurgeStep, PTL DEF Spec

-----------------------------------------------------------------------------
(* While handle_error is under way the watcher already knows what the      *)
(* state will be; a handle without a connection is not CONNECTED.          *)
Settling == ioPc \in {"cleanup", "fail"}

EventInv ==
    /\ fd = "none" => state # "CONNECTED"
    /\ closerPc # "closed" =>
         /\ is_unrecoverable <=> lastEvent \in Unrecoverable
         /\ lastEvent \in Unrecoverable => lastEvent = state
         /\ ~Settling => (state = "CONNECTED" <=> lastEvent = "CONNECTED")
         /\ Settling => lastEvent # "CONNECTED"

SessionInv == ConnectionInv /\ EventInv

(* handle_error from a state the invariant allows, with a state st that is *)
(* the old one or that of a session that is over.                          *)
LEMMA ErrorEvent ==
    ASSUME EventInv, ~Settling, NEW rc, NEW st,
           st = state \/ st \in {"EXPIRED", "AUTH_FAILED"},
           handle_error(rc, st), closerPc' = closerPc
    PROVE  EventInv'
<1> USE DEF EventInv, Settling, is_unrecoverable, Unrecoverable, handle_error,
            NoOne
<1>1. CASE st \in Unrecoverable
    BY <1>1 DEF LossEvent
<1>2. CASE st = "CONNECTED"
    BY <1>2 DEF LossEvent
<1>3. CASE st \notin Unrecoverable \cup {"CONNECTED"}
    <2>1. st = state /\ LossEvent(st) = NoOne
        BY <1>3 DEF LossEvent
    <2>2. /\ UNCHANGED <<state, lastEvent, closerPc>>
          /\ fd' = "closed" /\ ioPc' = "cleanup"
        BY <2>1
    <2>3. QED
        BY <1>3, <2>1, <2>2
<1>4. QED
    BY <1>1, <1>2, <1>3

LEMMA EventStep == SessionInv /\ [Next]_vars => EventInv'
<1> SUFFICES ASSUME SessionInv, [Next]_vars PROVE EventInv'
    OBVIOUS
<1> USE DEF SessionInv
<1>1. ASSUME UNCHANGED <<fd, state, lastEvent, closerPc>>, Settling' <=> Settling
      PROVE  EventInv'
    BY <1>1 DEF EventInv, is_unrecoverable
<1>2. CASE UNCHANGED vars
    BY <1>1, <1>2 DEF vars, connVars, ioVars, closeVars, history, Settling
<1>3. ASSUME NEW r \in Requests,
             Check(r) \/ AddCompletion(r) \/ QueueBuffer(r) \/ SendQueue(r)
                \/ WaitSync(r)
      PROVE  EventInv'
    BY <1>1, <1>3 DEF Check, AddCompletion, QueueBuffer, SendQueue, WaitSync,
                      connVars, ioVars, closeVars, history, Settling
<1>4. CASE IoCleanup \/ IoFailOne \/ IoExit \/ IoWrap \/ IoInterest \/ IoWake
              \/ IoRead \/ IoNothing \/ IoDispatchReply \/ IoComplete
    BY <1>1, <1>4 DEF IoCleanup, IoFailOne, IoExit, IoWrap, IoInterest,
                      IoWake, IoRead, IoNothing, IoDispatchReply, IoComplete,
                      IoLoop, connVars, ioVars, closeVars, history, Settling
<1>5. CASE IoReset
    BY <1>5 DEF IoReset, EventInv, is_unrecoverable, Unrecoverable, Settling,
                closeVars, history
<1>6. CASE IoConnect
    <2>1. ~Settling /\ state # "CONNECTED" /\ ~is_unrecoverable
          /\ closerPc' = closerPc
        BY <1>6 DEF IoConnect, IoLoop, EventInv, Settling, closeVars
    <2>2. CASE handle_error("ZCONNECTIONLOSS", state)
        BY <2>1, <2>2, ErrorEvent
    <2>3. CASE /\ state' \in {"CONNECTING", "ASSOCIATING"} /\ fd' = "open"
               /\ lastEvent' = lastEvent /\ ioPc' = "poll"
        BY <2>1, <2>3 DEF EventInv, is_unrecoverable, Unrecoverable, Settling
    <2>4. QED
        BY <1>6, <2>2, <2>3 DEF IoConnect, PrimeConnection, netVars
<1>7. CASE IoConnected
    <2>1. ~Settling /\ state = "CONNECTING" /\ closerPc' = closerPc
        BY <1>7 DEF IoConnected, Settling, closeVars
    <2>2. CASE handle_error("ZCONNECTIONLOSS", state)
        BY <2>1, <2>2, ErrorEvent
    <2>3. CASE /\ state' = "ASSOCIATING" /\ fd' = fd
               /\ lastEvent' = lastEvent /\ ioPc' = "loop"
        BY <2>1, <2>3 DEF EventInv, is_unrecoverable, Unrecoverable, Settling
    <2>4. QED
        BY <1>7, <2>2, <2>3 DEF IoConnected, PrimeConnection
<1>8. CASE IoHandshake
    <2>1. ~Settling /\ fd # "none" /\ closerPc' = closerPc
        BY <1>8 DEF IoHandshake, Settling, ConnectionInv, Connecting, closeVars
    <2>2. CASE handle_error("ZSESSIONEXPIRED", "EXPIRED")
        BY <2>1, <2>2, ErrorEvent
    <2>3. CASE /\ state' = "CONNECTED" /\ lastEvent' = "CONNECTED"
               /\ fd' = fd /\ ioPc' = "loop"
        BY <2>1, <2>3 DEF EventInv, is_unrecoverable, Unrecoverable, Settling
    <2>4. QED
        BY <1>8, <2>2, <2>3 DEF IoHandshake
<1>9. CASE IoFlush \/ IoDispatchReserved
    <2>1. ~Settling /\ closerPc' = closerPc
        BY <1>9 DEF IoFlush, IoDispatchReserved, Settling, closeVars
    <2>2. CASE handle_error("ZCONNECTIONLOSS", state)
               \/ handle_error("ZAUTHFAILED", "AUTH_FAILED")
        BY <2>1, <2>2, ErrorEvent
    <2>3. CASE UNCHANGED <<state, fd, lastEvent>> /\ ioPc' \in {"read", "loop"}
        BY <1>1, <1>9, <2>1, <2>3
           DEF IoFlush, IoDispatchReserved, closeVars, Settling
    <2>4. QED
        BY <1>9, <2>2, <2>3 DEF IoFlush, IoDispatchReserved
<1>10. CASE IoTimeout \/ IoReadError \/ IoMismatch
    <2>1. ~Settling /\ closerPc' = closerPc
        BY <1>10 DEF IoTimeout, IoReadError, IoMismatch, Settling, closeVars
    <2>2. QED
        BY <1>10, <2>1, ErrorEvent DEF IoTimeout, IoReadError, IoMismatch
<1>11. CASE CtStep
    BY <1>1, <1>11 DEF CtStep, CtLoop, CtWake, CtCallback, CtCallbackEnds,
                       CtDrained, connVars, ioVars, closeVars, history,
                       Settling
<1>12. CASE CloseRequest \/ ClosePurge \/ CloseFailOne \/ CloseWakeIo
               \/ CloseJoinIo \/ CloseJoinCt \/ CloseDestroy
    <2>1. /\ UNCHANGED <<fd, state, lastEvent, ioPc>>
          /\ closerPc # "closed"
        BY <1>12 DEF CloseRequest, ClosePurge, CloseFailOne, CloseWakeIo,
                     CloseJoinIo, CloseJoinCt, CloseDestroy, connVars, ioVars,
                     history
    <2>2. QED
        BY <2>1 DEF EventInv, is_unrecoverable, Settling
<1>13. CASE CloseFree
    BY <1>13 DEF CloseFree, EventInv
<1>14. CASE ServerHandshake \/ ServerAnswer \/ ServerReorder \/ ServerEvent
    BY <1>1, <1>14 DEF ServerHandshake, ServerAnswer, ServerReorder,
                       ServerEvent, connVars, ioVars, closeVars, history,
                       Settling
<1>15. CASE NetBreak
    BY <1>15 DEF NetBreak, EventInv, is_unrecoverable, Settling, ioVars,
                 closeVars, history
<1>16. QED
    BY <1>2, <1>3, <1>4, <1>5, <1>6, <1>7, <1>8, <1>9, <1>10, <1>11, <1>12,
       <1>13, <1>14, <1>15, NextCases

(* Whatever becomes of connections and handshakes, the session events that *)
(* were queued last agree with the state of the handle.                    *)
THEOREM WatcherKnowsTheState == Spec => []SessionEventsTrackState
<1>1. Init => EventInv
    BY DEF Init, EventInv, is_unrecoverable, Unrecoverable, Settling, NoOne
<1>2. EventInv => SessionEventsTrackState
    BY DEF EventInv, SessionEventsTrackState, Settling
<1>3. QED
    BY <1>1, <1>2, ConnectionInit, ConnectionStep, EventStep, PTL
       DEF Spec, SessionInv

-----------------------------------------------------------------------------
(***************************************************************************)
(* The type invariant of RequestPipeline, for every value of its           *)
(* constants.  It is more than a list of types: it says that do_io has a   *)
(* message in to_process exactly while it dispatches one, and an entry of  *)
(* sent_requests in its hands exactly while it compares the two.           *)
(***************************************************************************)

CallStep(r) == \/ Check(r) \/ AddCompletion(r) \/ QueueBuffer(r)
               \/ SendQueue(r) \/ WaitSync(r)

LEMMA PacketTypes ==
    /\ Requests \subseteq Packets /\ Reserved \subseteq Packets
    /\ \A r \in Requests, rc \in Outcomes :
          [xid |-> r, rc |-> rc] \in Completion
    /\ \A st \in States : [xid |-> "session", rc |-> st] \in Completion
    /\ [xid |-> "event", rc |-> "ANSWERED"] \in Completion
    /\ \A x \in Packets, ok \in BOOLEAN : [xid |-> x, ok |-> ok] \in Replies
    /\ \A m \in Replies : m.xid \in Packets /\ m.ok \in BOOLEAN
    /\ \A c \in Completion : c.xid \in Requests => c.rc \in Outcomes
BY RequestsAssumption
   DEF Packets, Completion, Replies, Reserved

(* flush_send_queue moves packets, k of them, from to_send to the wire. *)
LEMMA FlushTypes ==
    ASSUME QueueTypes, NEW k, flush_send_queue(k)
    PROVE  toSend' \in Seq(Packets) /\ c2s' \in Seq(Packets)
BY DEF QueueTypes, flush_send_queue

LEMMA DropTypes ==
    ASSUME HistoryTypes, DropInFlight
    PROVE  /\ c2s' = <<>>
           /\ applied' \subseteq Requests
           /\ connects' = connects
BY DEF HistoryTypes, DropInFlight

LEMMA FailTypes ==
    ASSUME CallTypes, QueueTypes, NEW rc \in Errors, FailOne(rc)
    PROVE  /\ doomed' \in Seq(Requests)
           /\ completions' \in Seq(Completion)
           /\ result' \in [Requests -> Outcomes \cup {NoOne}]
<1>0. doomed \in Seq(Requests) /\ doomed # <<>> /\ doomed' = Tail(doomed)
    BY DEF QueueTypes, FailOne
<1>1. Head(doomed) \in Requests /\ doomed' \in Seq(Requests)
    BY <1>0, HeadTailProperties
<1>2. Append(completions, [xid |-> Head(doomed), rc |-> rc])
         \in Seq(Completion)
    BY <1>1, PacketTypes, AppendProperties DEF QueueTypes, Outcomes
<1>3. completions' \in Seq(Completion)
    BY <1>2 DEF QueueTypes, FailOne
<1>4. result' \in [Requests -> Outcomes \cup {NoOne}]
    BY <1>1 DEF CallTypes, FailOne, Outcomes
<1>5. QED
    BY <1>1, <1>3, <1>4

LEMMA ErrorTypes ==
    ASSUME QueueTypes, HistoryTypes,
           NEW rc \in Errors, NEW st \in States, handle_error(rc, st)
    PROVE  /\ c2s' = <<>> /\ s2c' = <<>>
           /\ completions' \in Seq(Completion)
           /\ applied' \subseteq Requests
           /\ connects' = connects
           /\ lastEvent' \in States \cup {NoOne}
           /\ state' = st /\ fd' = "closed"
           /\ ioPc' = "cleanup" /\ ioRc' = rc
<1>1. LossEvent(st) \in States \cup {NoOne}
    BY DEF LossEvent, States, Unrecoverable
<1>2. ASSUME LossEvent(st) # NoOne
      PROVE  SessionEvent(completions, LossEvent(st)) \in Seq(Completion)
    BY <1>1, <1>2, PacketTypes, AppendProperties DEF SessionEvent, QueueTypes
<1>3. completions' \in Seq(Completion) /\ lastEvent' \in States \cup {NoOne}
    BY <1>1, <1>2 DEF handle_error, QueueTypes, HistoryTypes
<1>4. QED
    BY <1>3, DropTypes DEF handle_error

(* The error codes and states handle_error is called with. *)
LEMMA ErrorCodes ==
    /\ {"ZCONNECTIONLOSS", "ZOPERATIONTIMEOUT", "ZSESSIONEXPIRED",
        "ZAUTHFAILED", "ZRUNTIMEINCONSISTENCY", "ZCLOSING"} \subseteq Errors
    /\ {"EXPIRED", "AUTH_FAILED", "CONNECTING", "ASSOCIATING", "CONNECTED",
        "CLOSED", "NOTCONNECTED"} \subseteq States
BY DEF Errors, States, Unrecoverable

-----------------------------------------------------------------------------
(* One lemma for each group of variables. *)

LEMMA ConnStep == TypeOK /\ [Next]_vars => ConnTypes'
<1> SUFFICES ASSUME TypeOK, [Next]_vars PROVE ConnTypes'
    OBVIOUS
<1> ConnTypes /\ QueueTypes /\ HistoryTypes
    BY DEF TypeOK
<1> USE DEF ConnTypes
<1>1. CASE UNCHANGED vars
    BY <1>1 DEF vars, connVars, netVars
<1>2. ASSUME NEW r \in Requests, CallStep(r) PROVE ConnTypes'
    BY <1>2 DEF CallStep, Check, AddCompletion, QueueBuffer, SendQueue,
                WaitSync, connVars, netVars
<1>3. CASE IoCleanup \/ IoFailOne \/ IoExit \/ IoInterest \/ IoWake \/ IoRead
              \/ IoNothing \/ IoDispatchReply \/ IoComplete
    BY <1>3 DEF IoCleanup, IoFailOne, IoExit, IoInterest, IoWake, IoRead,
                IoNothing, IoDispatchReply, IoComplete, connVars, netVars
<1>4. CASE IoReset \/ IoWrap
    BY <1>4, ErrorCodes DEF IoReset, IoWrap, netVars
<1>5. ASSUME NEW rc \in Errors, NEW st \in States, handle_error(rc, st),
             UNCHANGED <<connectIndex, hasSession>>
      PROVE  ConnTypes'
    BY <1>5, ErrorTypes
<1>6. CASE IoConnect \/ IoTimeout \/ IoConnected
    BY <1>5, <1>6, ErrorCodes DEF IoConnect, IoTimeout, IoConnected,
                                  PrimeConnection, netVars
<1>7. CASE IoFlush \/ IoHandshake
    BY <1>5, <1>7, ErrorCodes DEF IoFlush, IoHandshake
<1>8. CASE IoReadError \/ IoDispatchReserved \/ IoMismatch
    BY <1>5, <1>8, ErrorCodes DEF IoReadError, IoDispatchReserved, IoMismatch,
                                  netVars
<1>9. CASE CtStep
    BY <1>9 DEF CtStep, CtLoop, CtWake, CtCallback, CtCallbackEnds, CtDrained,
                connVars, netVars
<1>10. CASE CloseRequest \/ ClosePurge \/ CloseFailOne \/ CloseWakeIo
               \/ CloseJoinIo \/ CloseJoinCt \/ CloseDestroy \/ CloseFree
    BY <1>10, ErrorCodes
       DEF CloseRequest, ClosePurge, CloseFailOne, CloseWakeIo, CloseJoinIo,
           CloseJoinCt, CloseDestroy, CloseFree, connVars, netVars
<1>11. CASE ServerHandshake \/ ServerAnswer \/ ServerReorder \/ ServerEvent
    <2>1. UNCHANGED connVars /\ connects' \in {connects, connects + 1}
        BY <1>11 DEF ServerHandshake, ServerAnswer, ServerReorder, ServerEvent
    <2>2. QED
        BY <2>1 DEF connVars
<1>12. CASE NetBreak
    BY <1>12, DropTypes DEF NetBreak
<1>13. QED
    BY <1>1, <1>2, <1>3, <1>4, <1>6, <1>7, <1>8, <1>9, <1>10, <1>11, <1>12,
       NextCases DEF CallStep

LEMMA CallTypesStep == TypeOK /\ [Next]_vars => CallTypes'
<1> SUFFICES ASSUME TypeOK, [Next]_vars PROVE CallTypes'
    OBVIOUS
<1> CallTypes /\ QueueTypes /\ ThreadTypes
    BY DEF TypeOK
<1>0. Nested \subseteq Sync /\ Sync \subseteq Requests
    BY RequestsAssumption
<1>1. CASE UNCHANGED vars
    BY <1>1 DEF CallTypes, vars, callVars, ctVars
<1>2. ASSUME NEW r \in Requests, CallStep(r) PROVE CallTypes'
    BY <1>2 DEF CallTypes, CallStep, Check, AddCompletion, QueueBuffer,
                SendQueue, WaitSync, ctVars
<1>3. CASE IoCleanup \/ IoReset \/ ClosePurge \/ CloseWakeIo
    BY <1>3 DEF CallTypes, IoCleanup, IoReset, ClosePurge, CloseWakeIo, ctVars
<1>4. ASSUME NEW rc \in Errors, FailOne(rc), UNCHANGED <<callVars, ctCall>>
      PROVE  CallTypes'
    BY <1>4, FailTypes DEF CallTypes, callVars
<1>5. CASE IoFailOne \/ CloseFailOne
    BY <1>4, <1>5, ErrorCodes DEF IoFailOne, CloseFailOne, ThreadTypes, ctVars
<1>6. CASE IoExit \/ IoWrap \/ IoConnect \/ IoInterest \/ IoTimeout \/ IoWake
              \/ IoConnected \/ IoFlush \/ IoRead \/ IoHandshake
    BY <1>6 DEF CallTypes, IoExit, IoWrap, IoConnect, IoInterest, IoTimeout,
                IoWake, IoConnected, IoFlush, IoRead, IoHandshake, callVars,
                ctVars
<1>7. CASE IoReadError \/ IoNothing \/ IoDispatchReserved \/ IoDispatchReply
              \/ IoMismatch
    BY <1>7 DEF CallTypes, IoReadError, IoNothing, IoDispatchReserved,
                IoDispatchReply, IoMismatch, callVars, ctVars
<1>8. CASE IoComplete
    BY <1>8 DEF CallTypes, IoComplete, Outcomes, callVars, ctVars
<1>9. CASE CtLoop \/ CtWake \/ CtCallbackEnds \/ CtDrained
    BY <1>9 DEF CallTypes, CtLoop, CtWake, CtCallbackEnds, CtDrained, callVars
<1>10. CASE CtCallback
    <2>1. Head(completions) \in Completion
        BY <1>10, HeadTailProperties DEF CtCallback, QueueTypes
    <2>2. Head(completions).xid \in Requests =>
             Head(completions).rc \in Outcomes
        BY <2>1, PacketTypes
    <2>3. result' \in [Requests -> Outcomes \cup {NoOne}]
        BY <1>10, <2>2 DEF CtCallback, CallTypes
    <2>4. ctCall' \in Nested \cup {NoOne} /\ UNCHANGED callVars
        BY <1>10 DEF CtCallback
    <2>5. QED
        BY <2>3, <2>4 DEF CallTypes, callVars
<1>11. CASE CloseRequest \/ CloseJoinIo \/ CloseJoinCt \/ CloseDestroy
               \/ CloseFree
    BY <1>11 DEF CallTypes, CloseRequest, CloseJoinIo, CloseJoinCt,
                 CloseDestroy, CloseFree, callVars, ctVars
<1>12. CASE ServerHandshake \/ ServerAnswer \/ ServerReorder \/ ServerEvent
               \/ NetBreak
    BY <1>12 DEF CallTypes, ServerHandshake, ServerAnswer, ServerReorder,
                 ServerEvent, NetBreak, callVars, ctVars
<1>13. QED
    BY <1>1, <1>2, <1>3, <1>5, <1>6, <1>7, <1>8, <1>9, <1>10, <1>11, <1>12,
       NextCases DEF CallStep, CtStep

LEMMA HistoryStep == TypeOK /\ [Next]_vars => HistoryTypes'
<1> SUFFICES ASSUME TypeOK, [Next]_vars PROVE HistoryTypes'
    OBVIOUS
<1> ConnTypes /\ QueueTypes /\ HistoryTypes
    BY DEF TypeOK
<1>1. CASE UNCHANGED vars
    BY <1>1 DEF HistoryTypes, vars, netVars, history
<1>2. ASSUME NEW r \in Requests, CallStep(r) PROVE HistoryTypes'
    <2>1. CASE AddCompletion(r)
        <3>1. Append(issued, r) \in Seq(Requests)
            BY AppendProperties DEF HistoryTypes
        <3>2. issued' \in {issued, Append(issued, r)}
            BY <2>1 DEF AddCompletion
        <3>3. QED
            BY <2>1, <3>1, <3>2 DEF HistoryTypes, AddCompletion, netVars
    <2>2. QED
        BY <1>2, <2>1 DEF HistoryTypes, CallStep, Check, QueueBuffer,
                          SendQueue, WaitSync, netVars, history
<1>3. CASE IoCleanup \/ IoFailOne \/ IoReset \/ IoExit \/ IoWrap
              \/ IoInterest \/ IoWake \/ IoRead \/ IoNothing
              \/ IoDispatchReply \/ IoComplete
    BY <1>3 DEF HistoryTypes, IoCleanup, IoFailOne, IoReset, IoExit, IoWrap,
                IoInterest, IoWake, IoRead, IoNothing, IoDispatchReply,
                IoComplete, netVars, history
<1>4. ASSUME NEW rc \in Errors, NEW st \in States, handle_error(rc, st),
             UNCHANGED <<issued, called>>
      PROVE  HistoryTypes'
    BY <1>4, ErrorTypes DEF HistoryTypes
<1>5. state \in States
    BY DEF ConnTypes
<1>6. CASE IoConnect \/ IoTimeout \/ IoConnected
    BY <1>4, <1>5, <1>6, ErrorCodes
       DEF HistoryTypes, IoConnect, IoTimeout, IoConnected, netVars
<1>7. CASE IoFlush \/ IoHandshake
    BY <1>4, <1>5, <1>7, ErrorCodes DEF HistoryTypes, IoFlush, IoHandshake
<1>8. CASE IoReadError \/ IoDispatchReserved \/ IoMismatch
    BY <1>4, <1>5, <1>8, ErrorCodes
       DEF HistoryTypes, IoReadError, IoDispatchReserved, IoMismatch, netVars
<1>9. CASE CtLoop \/ CtWake \/ CtCallbackEnds \/ CtDrained
    BY <1>9 DEF HistoryTypes, CtLoop, CtWake, CtCallbackEnds, CtDrained,
                netVars, history
<1>10. CASE CtCallback
    <2>1. Head(completions).xid \in Requests =>
             Append(called, Head(completions).xid) \in Seq(Requests)
        BY AppendProperties DEF HistoryTypes
    <2>2. called' \in Seq(Requests)
        BY <1>10, <2>1 DEF HistoryTypes, CtCallback
    <2>3. UNCHANGED <<applied, issued, lastEvent>>
        BY <1>10 DEF CtCallback, netVars
    <2>4. QED
        BY <2>2, <2>3 DEF HistoryTypes
<1>11. CASE CloseRequest \/ ClosePurge \/ CloseFailOne \/ CloseWakeIo
               \/ CloseJoinIo \/ CloseJoinCt \/ CloseFree
    BY <1>11 DEF HistoryTypes, CloseRequest, ClosePurge, CloseFailOne,
                 CloseWakeIo, CloseJoinIo, CloseJoinCt, CloseFree, netVars,
                 history
<1>12. CASE CloseDestroy
    BY <1>12 DEF HistoryTypes, CloseDestroy, history
<1>13. CASE ServerHandshake \/ ServerReorder \/ ServerEvent
    BY <1>13 DEF HistoryTypes, ServerHandshake, ServerReorder, ServerEvent,
                 netVars, history
<1>14. CASE ServerAnswer
    BY <1>14 DEF HistoryTypes, ServerAnswer, history
<1>15. CASE NetBreak
    BY <1>15, DropTypes DEF HistoryTypes, NetBreak, history
<1>16. QED
    BY <1>1, <1>2, <1>3, <1>6, <1>7, <1>8, <1>9, <1>10, <1>11, <1>12, <1>13,
       <1>14, <1>15, NextCases DEF CallStep, CtStep

LEMMA GreetingType == Greeting \in Seq(Packets)
<1>1. <<"auth">> \in Seq(Packets) /\ <<"set_watches">> \in Seq(Packets)
    BY DEF Packets, Reserved
<1>2. QED
    BY <1>1, EmptySeq, ConcatProperties DEF Greeting

LEMMA QueueCallStep ==
    ASSUME TypeOK, NEW r \in Requests, CallStep(r) PROVE QueueTypes'
<1> QueueTypes
    BY DEF TypeOK
<1>1. CASE AddCompletion(r)
    <2>1. Append(sentRequests, r) \in Seq(Requests)
        BY AppendProperties DEF QueueTypes
    <2>2. sentRequests' \in {sentRequests, Append(sentRequests, r)}
        BY <1>1 DEF AddCompletion
    <2>3. QED
        BY <1>1, <2>1, <2>2 DEF QueueTypes, AddCompletion, netVars
<1>2. CASE QueueBuffer(r)
    <2>1. Append(toSend, r) \in Seq(Packets)
        BY PacketTypes, AppendProperties DEF QueueTypes
    <2>2. QED
        BY <1>2, <2>1 DEF QueueTypes, QueueBuffer, netVars
<1>3. CASE SendQueue(r)
    <2>1. toSend' \in Seq(Packets) /\ c2s' \in Seq(Packets)
        BY <1>3, FlushTypes DEF QueueTypes, SendQueue
    <2>2. QED
        BY <1>3, <2>1 DEF QueueTypes, SendQueue
<1>4. QED
    BY <1>1, <1>2, <1>3 DEF QueueTypes, CallStep, Check, WaitSync, queueVars,
                            netVars

LEMMA QueueIoStep ==
    ASSUME TypeOK, IoStep \/ IoTimeout PROVE QueueTypes'
<1> ConnTypes /\ QueueTypes /\ ThreadTypes /\ HistoryTypes /\ CallTypes
    BY DEF TypeOK
<1>1. CASE IoCleanup
    BY <1>1, EmptySeq DEF QueueTypes, IoCleanup, TakeSentRequests, netVars
<1>2. CASE IoFailOne
    <2>1. ioRc \in Errors
        BY DEF ThreadTypes
    <2>2. QED
        BY <1>2, <2>1, FailTypes DEF QueueTypes, IoFailOne, netVars
<1>3. CASE IoReset \/ IoExit \/ IoWrap \/ IoWake \/ IoNothing
    BY <1>3 DEF QueueTypes, IoReset, IoExit, IoWrap, IoWake, IoNothing,
                queueVars, netVars
<1>4. ASSUME NEW rc \in Errors, NEW st \in States, handle_error(rc, st),
             UNCHANGED <<toSend, doomed>>, sentRequests' \in Seq(Requests)
      PROVE  QueueTypes'
    BY <1>4, ErrorTypes, EmptySeq DEF QueueTypes
<1>5. state \in States
    BY DEF ConnTypes
<1>6. ASSUME PrimeConnection,
             UNCHANGED <<toSend, sentRequests, completions, doomed, s2c>>
      PROVE  QueueTypes'
    BY <1>6 DEF QueueTypes, PrimeConnection, Packets, Reserved
<1>7. CASE IoConnect \/ IoConnected
    <2>1. UNCHANGED <<toSend, sentRequests, doomed>>
        BY <1>7 DEF IoConnect, IoConnected
    <2>2. \/ PrimeConnection /\ UNCHANGED <<completions, s2c>>
          \/ UNCHANGED <<completions, netVars>>
          \/ handle_error("ZCONNECTIONLOSS", state)
        BY <1>7 DEF IoConnect, IoConnected
    <2>3. CASE UNCHANGED <<completions, netVars>>
        BY <2>1, <2>3 DEF QueueTypes, netVars
    <2>4. sentRequests' \in Seq(Requests)
        BY <2>1 DEF QueueTypes
    <2>5. QED
        BY <1>4, <1>5, <1>6, <2>1, <2>2, <2>3, <2>4, ErrorCodes
<1>8. CASE IoTimeout \/ IoReadError
    <2>1. \E rc \in Errors : handle_error(rc, state)
        BY <1>8, ErrorCodes DEF IoTimeout, IoReadError
    <2>2. UNCHANGED <<toSend, sentRequests, doomed>>
        BY <1>8 DEF IoTimeout, IoReadError
    <2>3. QED
        BY <1>4, <1>5, <2>1, <2>2 DEF QueueTypes
<1>9. CASE IoInterest
    <2>1. Append(toSend, "ping") \in Seq(Packets)
        BY PacketTypes, AppendProperties DEF QueueTypes, Reserved
    <2>2. toSend' \in {toSend, Append(toSend, "ping")}
        BY <1>9 DEF IoInterest
    <2>3. QED
        BY <1>9, <2>1, <2>2 DEF QueueTypes, IoInterest, netVars
<1>10. CASE IoFlush
    <2>1. ASSUME NEW k \in 1..Len(toSend), flush_send_queue(k),
                 UNCHANGED <<s2c, completions, sentRequests, doomed>>
          PROVE  QueueTypes'
        BY <2>1, FlushTypes DEF QueueTypes
    <2>2. UNCHANGED <<sentRequests, doomed>> /\ sentRequests' \in Seq(Requests)
        BY <1>10 DEF IoFlush, QueueTypes
    <2>3. QED
        BY <1>4, <1>5, <1>10, <2>1, <2>2, ErrorCodes DEF IoFlush
<1>11. CASE IoRead
    BY <1>11, HeadTailProperties DEF QueueTypes, IoRead
<1>12. CASE IoHandshake
    <2>1. UNCHANGED <<sentRequests, doomed>> /\ sentRequests' \in Seq(Requests)
        BY <1>12 DEF IoHandshake, QueueTypes
    <2>2. CASE Head(s2c).ok
        <3>1. toSend' \in Seq(Packets)
            BY <1>12, <2>2, GreetingType, ConcatProperties
               DEF IoHandshake, QueueTypes
        <3>2. SessionEvent(completions, "CONNECTED") \in Seq(Completion)
            BY PacketTypes, ErrorCodes, AppendProperties
               DEF SessionEvent, QueueTypes
        <3>3. completions' \in Seq(Completion)
            BY <1>12, <2>2, <3>2 DEF IoHandshake
        <3>4. s2c' \in Seq(Replies) /\ UNCHANGED c2s
            BY <1>12, <2>2, HeadTailProperties DEF IoHandshake, QueueTypes
        <3>5. QED
            BY <2>1, <3>1, <3>3, <3>4 DEF QueueTypes
    <2>3. CASE ~Head(s2c).ok
        BY <1>4, <1>12, <2>1, <2>3, ErrorCodes DEF IoHandshake
    <2>4. QED
        BY <2>2, <2>3
<1>13. CASE IoDispatchReserved
    <2>1. UNCHANGED <<toSend, sentRequests, doomed>>
              /\ sentRequests' \in Seq(Requests)
        BY <1>13 DEF IoDispatchReserved, QueueTypes
    <2>2. Append(completions, [xid |-> "event", rc |-> "ANSWERED"])
             \in Seq(Completion)
        BY PacketTypes, AppendProperties DEF QueueTypes
    <2>3. \/ UNCHANGED <<completions, netVars>>
          \/ completions' = Append(completions,
                                   [xid |-> "event", rc |-> "ANSWERED"])
               /\ UNCHANGED netVars
          \/ handle_error("ZAUTHFAILED", "AUTH_FAILED")
        BY <1>13 DEF IoDispatchReserved
    <2>4. CASE UNCHANGED netVars /\ completions' \in Seq(Completion)
        BY <2>1, <2>4 DEF QueueTypes, netVars
    <2>5. QED
        BY <1>4, <2>1, <2>2, <2>3, <2>4, ErrorCodes DEF QueueTypes
<1>14. CASE IoDispatchReply
    <2>1. sentRequests' \in Seq(Requests)
        BY <1>14, HeadTailProperties DEF IoDispatchReply, QueueTypes
    <2>2. QED
        BY <1>14, <2>1 DEF IoDispatchReply, QueueTypes, netVars
<1>15. CASE IoComplete
    <2>1. ioHeld \in Requests
        BY <1>15 DEF IoComplete, ThreadTypes
    <2>2. Append(completions, [xid |-> ioHeld, rc |-> "ANSWERED"])
             \in Seq(Completion)
        BY <2>1, PacketTypes, AppendProperties DEF QueueTypes, Outcomes
    <2>3. completions' \in Seq(Completion)
        BY <1>15, <2>2 DEF IoComplete, QueueTypes
    <2>4. QED
        BY <1>15, <2>3 DEF IoComplete, QueueTypes, netVars
<1>16. CASE IoMismatch
    <2>1. ioHeld \in Requests
        BY <1>16 DEF IoMismatch, ThreadTypes
    <2>2. <<ioHeld>> \o sentRequests \in Seq(Requests)
        BY <2>1, ConcatProperties DEF QueueTypes
    <2>3. QED
        BY <1>4, <1>5, <1>16, <2>2, ErrorCodes DEF IoMismatch, PutBack
<1>17. QED
    BY <1>1, <1>2, <1>3, <1>7, <1>8, <1>9, <1>10, <1>11, <1>12, <1>13, <1>14,
       <1>15, <1>16 DEF IoStep

LEMMA QueueStep == TypeOK /\ [Next]_vars => QueueTypes'
<1> SUFFICES ASSUME TypeOK, [Next]_vars PROVE QueueTypes'
    OBVIOUS
<1> CallTypes /\ QueueTypes /\ HistoryTypes
    BY DEF TypeOK
<1>1. CASE UNCHANGED vars
    BY <1>1 DEF QueueTypes, vars, queueVars, netVars
<1>2. CASE CtLoop \/ CtWake \/ CtCallbackEnds \/ CtDrained
    BY <1>2 DEF QueueTypes, CtLoop, CtWake, CtCallbackEnds, CtDrained,
                queueVars, netVars
<1>3. CASE CtCallback
    <2>1. completions' \in Seq(Completion)
        BY <1>3, HeadTailProperties DEF CtCallback, QueueTypes
    <2>2. QED
        BY <1>3, <2>1 DEF CtCallback, QueueTypes, netVars
<1>4. CASE CloseRequest \/ CloseWakeIo \/ CloseJoinIo \/ CloseJoinCt
              \/ CloseFree
    BY <1>4 DEF QueueTypes, CloseRequest, CloseWakeIo, CloseJoinIo,
                CloseJoinCt, CloseFree, queueVars, netVars
<1>5. CASE ClosePurge \/ CloseDestroy
    BY <1>5, EmptySeq DEF QueueTypes, ClosePurge, CloseDestroy,
                          TakeSentRequests, netVars
<1>6. CASE CloseFailOne
    BY <1>6, FailTypes, ErrorCodes DEF QueueTypes, CloseFailOne, netVars
<1>7. CASE ServerHandshake \/ ServerAnswer
    <2>1. Head(c2s) \in Packets /\ c2s' \in Seq(Packets)
        BY <1>7, HeadTailProperties
           DEF ServerHandshake, ServerAnswer, QueueTypes
    <2>2. PICK ok \in BOOLEAN :
             s2c' = Append(s2c, [xid |-> Head(c2s), ok |-> ok])
        BY <1>7 DEF ServerHandshake, ServerAnswer
    <2>3. [xid |-> Head(c2s), ok |-> ok] \in Replies
        BY <2>1, PacketTypes
    <2>4. s2c' \in Seq(Replies)
        BY <2>2, <2>3, AppendProperties DEF QueueTypes
    <2>5. QED
        BY <1>7, <2>1, <2>4
           DEF QueueTypes, ServerHandshake, ServerAnswer, queueVars
<1>8. CASE ServerReorder
    <2>1. c2s' \in Seq(Packets)
        BY <1>8 DEF ServerReorder, QueueTypes
    <2>2. QED
        BY <1>8, <2>1 DEF QueueTypes, ServerReorder, queueVars
<1>9. CASE ServerEvent
    <2>1. [xid |-> "event", ok |-> TRUE] \in Replies
        BY PacketTypes DEF Reserved
    <2>2. s2c' \in Seq(Replies)
        BY <1>9, <2>1, AppendProperties DEF ServerEvent, QueueTypes
    <2>3. QED
        BY <1>9, <2>2 DEF QueueTypes, ServerEvent, queueVars
<1>10. CASE NetBreak
    <2>1. c2s' = <<>>
        BY <1>10, DropTypes DEF NetBreak
    <2>2. s2c' \in Seq(Replies)
        BY <1>10 DEF NetBreak, QueueTypes
    <2>3. QED
        BY <1>10, <2>1, <2>2, EmptySeq DEF NetBreak, QueueTypes, queueVars
<1>11. QED
    BY <1>1, <1>2, <1>3, <1>4, <1>5, <1>6, <1>7, <1>8, <1>9, <1>10,
       QueueCallStep, QueueIoStep, NextCases DEF CallStep, CtStep, IoStep

(* The IO thread's control points: what handle_error, and each of its      *)
(* other steps, does to the message and the entry it holds.                *)
LEMMA ThreadStep == TypeOK /\ ConnectionInv /\ [Next]_vars => ThreadTypes'
<1> SUFFICES ASSUME TypeOK, ConnectionInv, [Next]_vars PROVE ThreadTypes'
    OBVIOUS
<1> ConnTypes /\ QueueTypes /\ ThreadTypes /\ HistoryTypes
    BY DEF TypeOK
<1>1. CASE UNCHANGED vars
    BY <1>1 DEF ThreadTypes, vars, queueVars, ioVars, ctVars, closeVars
<1>2. ASSUME NEW r \in Requests, CallStep(r) PROVE ThreadTypes'
    BY <1>2 DEF ThreadTypes, CallStep, Check, AddCompletion, QueueBuffer,
                SendQueue, WaitSync, queueVars, ioVars, ctVars, closeVars
<1>3. CASE IoCleanup
    BY <1>3, EmptySeq DEF ThreadTypes, IoCleanup, ctVars, closeVars
<1>4. CASE IoFailOne \/ IoReset \/ IoExit \/ IoWrap \/ IoInterest \/ IoWake
              \/ IoNothing
    BY <1>4 DEF ThreadTypes, IoFailOne, IoReset, IoExit, IoWrap, IoInterest,
                IoWake, IoNothing, IoLoop, ioVars, queueVars, ctVars, closeVars
<1>5. ASSUME NEW rc \in Errors, NEW st \in States, handle_error(rc, st),
             toProcess' \in Seq(Replies), Len(toProcess') = 0,
             ioHeld' = NoOne, UNCHANGED <<ctVars, closeVars>>
      PROVE  ThreadTypes'
    BY <1>5, ErrorTypes DEF ThreadTypes, ctVars, closeVars
<1>6. state \in States
    BY DEF ConnTypes
<1>7. ASSUME ioPc \notin {"dispatch", "match"}, UNCHANGED <<toProcess, ioHeld>>
      PROVE  /\ toProcess' \in Seq(Replies) /\ Len(toProcess') = 0
             /\ ioHeld' = NoOne
    BY <1>7 DEF ThreadTypes
<1>8. ASSUME NEW rc \in Errors, NEW st \in States, handle_error(rc, st),
             ioPc \notin {"dispatch", "match"},
             UNCHANGED <<toProcess, ioHeld, ctVars, closeVars>>
      PROVE  ThreadTypes'
    BY <1>5, <1>7, <1>8
<1>9. ASSUME ioPc \in {"loop", "poll", "read"},
             ioPc' \in {"loop", "poll", "read"},
             UNCHANGED <<ioRc, toProcess, ioHeld, ctVars, closeVars>>
      PROVE  ThreadTypes'
    BY <1>9 DEF ThreadTypes, ctVars, closeVars
<1>10. CASE IoConnect \/ IoConnected
    <2>1. /\ ioPc \in {"loop", "poll"}
          /\ UNCHANGED <<toProcess, ioHeld, ctVars, closeVars>>
          /\ \/ ioPc' \in {"loop", "poll", "read"} /\ UNCHANGED ioRc
             \/ handle_error("ZCONNECTIONLOSS", state)
        BY <1>10 DEF IoConnect, IoConnected, IoLoop
    <2>2. QED
        BY <1>6, <1>8, <1>9, <2>1, ErrorCodes
<1>11. CASE IoTimeout \/ IoReadError
    BY <1>6, <1>8, <1>11, ErrorCodes DEF IoTimeout, IoReadError
<1>12. CASE IoFlush \/ IoHandshake
    BY <1>6, <1>8, <1>9, <1>12, ErrorCodes DEF IoFlush, IoHandshake
<1>13. CASE IoRead
    <2>1. toProcess \in Seq(Replies) /\ Len(toProcess) = 0 /\ ioHeld = NoOne
        BY <1>13 DEF ThreadTypes, IoRead
    <2>2. Head(s2c) \in Replies
        BY <1>13, HeadTailProperties DEF IoRead, QueueTypes
    <2>3. toProcess' \in Seq(Replies) /\ Len(toProcess') = 1
        BY <1>13, <2>1, <2>2, AppendProperties DEF IoRead
    <2>4. QED
        BY <1>13, <2>1, <2>3 DEF ThreadTypes, IoRead, ctVars, closeVars
<1>14. ASSUME ioPc \in {"dispatch", "match"}, dequeue_buffer
       PROVE  toProcess' \in Seq(Replies) /\ Len(toProcess') = 0
    <2>1. toProcess \in Seq(Replies) /\ Len(toProcess) = 1
        BY <1>14 DEF ThreadTypes
    <2>2. toProcess # <<>>
        BY <2>1, EmptySeq
    <2>3. QED
        BY <1>14, <2>1, <2>2, HeadTailProperties DEF dequeue_buffer
<1>15. CASE IoDispatchReserved
    <2>1. /\ toProcess' \in Seq(Replies) /\ Len(toProcess') = 0
          /\ ioHeld = NoOne
        BY <1>14, <1>15 DEF IoDispatchReserved, ThreadTypes
    <2>2. /\ UNCHANGED <<ioHeld, ctVars, closeVars>>
          /\ \/ ioPc' = "loop" /\ UNCHANGED ioRc
             \/ handle_error("ZAUTHFAILED", "AUTH_FAILED")
        BY <1>15 DEF IoDispatchReserved
    <2>3. CASE ioPc' = "loop" /\ UNCHANGED ioRc
        BY <2>1, <2>2, <2>3 DEF ThreadTypes, ctVars, closeVars
    <2>4. QED
        BY <1>5, <2>1, <2>2, <2>3, ErrorCodes
<1>16. CASE IoDispatchReply
    <2>1. CASE sentRequests # <<>> /\ ioHeld' = Head(sentRequests)
                 /\ ioPc' = "match" /\ UNCHANGED toProcess
        <3>1. ioHeld' \in Requests
            BY <2>1, HeadTailProperties DEF QueueTypes
        <3>2. QED
            BY <1>16, <2>1, <3>1
               DEF IoDispatchReply, ThreadTypes, ctVars, closeVars
    <2>2. CASE dequeue_buffer /\ ioPc' = "loop" /\ UNCHANGED ioHeld
        <3>1. toProcess' \in Seq(Replies) /\ Len(toProcess') = 0
            BY <1>14, <1>16, <2>2 DEF IoDispatchReply
        <3>2. QED
            BY <1>16, <2>2, <3>1
               DEF IoDispatchReply, ThreadTypes, ctVars, closeVars
    <2>3. QED
        BY <1>16, <2>1, <2>2 DEF IoDispatchReply
<1>17. CASE IoComplete
    <2>1. toProcess' \in Seq(Replies) /\ Len(toProcess') = 0
        BY <1>14, <1>17 DEF IoComplete
    <2>2. QED
        BY <1>17, <2>1 DEF IoComplete, ThreadTypes, ctVars, closeVars
<1>18. CASE IoMismatch
    <2>1. toProcess' \in Seq(Replies) /\ Len(toProcess') = 0
        BY <1>14, <1>18 DEF IoMismatch
    <2>2. QED
        BY <1>5, <1>6, <1>18, <2>1, ErrorCodes DEF IoMismatch
<1>19. CASE CtStep
    BY <1>19 DEF ThreadTypes, CtStep, CtLoop, CtWake, CtCallback,
                 CtCallbackEnds, CtDrained, queueVars, ioVars, closeVars
<1>20. CASE CloseRequest \/ ClosePurge \/ CloseFailOne \/ CloseWakeIo
               \/ CloseJoinIo \/ CloseJoinCt \/ CloseFree
    BY <1>20 DEF ThreadTypes, CloseRequest, Announce, ClosePurge, CloseFailOne,
                 CloseWakeIo, CloseJoinIo, CloseJoinCt, CloseFree, queueVars,
                 ioVars, ctVars, closeVars
<1>21. CASE CloseDestroy
    BY <1>21, EmptySeq DEF ThreadTypes, CloseDestroy, ConnectionInv, IoJoined,
                           ioVars, ctVars
<1>22. CASE ServerHandshake \/ ServerAnswer \/ ServerReorder \/ ServerEvent
               \/ NetBreak
    BY <1>22 DEF ThreadTypes, ServerHandshake, ServerAnswer, ServerReorder,
                 ServerEvent, NetBreak, queueVars, ioVars, ctVars, closeVars
<1>23. QED
    BY <1>1, <1>2, <1>3, <1>4, <1>10, <1>11, <1>12, <1>13, <1>15, <1>16, <1>17,
       <1>18, <1>19, <1>20, <1>21, <1>22, NextCases DEF CallStep

-----------------------------------------------------------------------------
(* Whatever requests there are and however the threads are scheduled, each *)
(* variable keeps its type, and the IO thread holds what it should hold.   *)
THEOREM TypesAreRight == Spec => []TypeOK
<1>1. Init => TypeOK
    <2> SUFFICES ASSUME Init PROVE TypeOK
        OBVIOUS
    <2>1. CallTypes /\ ConnTypes
        BY DEF Init, CallTypes, ConnTypes, States
    <2>2. QueueTypes /\ ThreadTypes /\ HistoryTypes
        BY EmptySeq DEF Init, QueueTypes, ThreadTypes, HistoryTypes, Errors
    <2>3. QED
        BY <2>1, <2>2 DEF TypeOK
<1>2. TypeOK /\ ConnectionInv /\ [Next]_vars => TypeOK'
    BY CallTypesStep, ConnStep, QueueStep, ThreadStep, HistoryStep DEF TypeOK
<1>3. QED
    BY <1>1, <1>2, ConnectionInit, ConnectionStep, PTL DEF Spec

-----------------------------------------------------------------------------
(***************************************************************************)
(* What the pipeline tells its callers is true, for every value of its     *)
(* constants: an answer is heard of only on the way from a server that     *)
(* executed the request, and what was refused never gets to a server.      *)
(***************************************************************************)

(* The elements of a sequence, through the operators the model uses. *)
LEMMA ElementsEmpty == ToSet(<<>>) = {}
BY DEF ToSet

LEMMA ElementsHead ==
    ASSUME NEW S, NEW s \in Seq(S), s # <<>>
    PROVE  Head(s) \in ToSet(s) /\ ToSet(Tail(s)) \subseteq ToSet(s)
<1>1. ASSUME NEW x \in ToSet(Tail(s)) PROVE x \in ToSet(s)
    <2>1. PICK i \in DOMAIN Tail(s) : x = Tail(s)[i]
        BY <1>1 DEF ToSet
    <2>2. i + 1 \in DOMAIN s /\ x = s[i + 1]
        BY <2>1
    <2>3. QED
        BY <2>2 DEF ToSet
<1>2. Head(s) \in ToSet(s)
    <2>1. 1 \in DOMAIN s /\ Head(s) = s[1]
        OBVIOUS
    <2>2. QED
        BY <2>1 DEF ToSet
<1>3. QED
    BY <1>1, <1>2

LEMMA ElementsAppend ==
    ASSUME NEW S, NEW s \in Seq(S), NEW x \in S
    PROVE  ToSet(Append(s, x)) \subseteq ToSet(s) \cup {x}
<1>1. ASSUME NEW y \in ToSet(Append(s, x)) PROVE y \in ToSet(s) \cup {x}
    <2>1. PICK i \in DOMAIN Append(s, x) : y = Append(s, x)[i]
        BY <1>1 DEF ToSet
    <2>2. y = x \/ (i \in DOMAIN s /\ y = s[i])
        BY <2>1
    <2>3. QED
        BY <2>2 DEF ToSet
<1>2. QED
    BY <1>1

LEMMA ElementsConcat ==
    ASSUME NEW S, NEW s \in Seq(S), NEW t \in Seq(S)
    PROVE  ToSet(s \o t) \subseteq ToSet(s) \cup ToSet(t)
<1>1. ASSUME NEW x \in ToSet(s \o t) PROVE x \in ToSet(s) \cup ToSet(t)
    <2>1. PICK i \in DOMAIN (s \o t) : x = (s \o t)[i]
        BY <1>1 DEF ToSet
    <2>2. \/ i \in DOMAIN s /\ x = s[i]
          \/ i - Len(s) \in DOMAIN t /\ x = t[i - Len(s)]
        BY <2>1
    <2>3. QED
        BY <2>2 DEF ToSet
<1>2. QED
    BY <1>1

LEMMA ElementsSubSeq ==
    ASSUME NEW S, NEW s \in Seq(S), NEW m \in 1..(Len(s) + 1),
           NEW n \in 0..Len(s)
    PROVE  ToSet(SubSeq(s, m, n)) \subseteq ToSet(s)
<1>1. ASSUME NEW x \in ToSet(SubSeq(s, m, n)) PROVE x \in ToSet(s)
    <2>1. PICK i \in DOMAIN SubSeq(s, m, n) : x = SubSeq(s, m, n)[i]
        BY <1>1 DEF ToSet
    <2>2. i + m - 1 \in DOMAIN s /\ x = s[i + m - 1]
        BY <2>1
    <2>3. QED
        BY <2>2 DEF ToSet
<1>2. QED
    BY <1>1

-----------------------------------------------------------------------------
(* The requests on their way to a server, or there. *)
Pushed == ((ToSet(toSend) \cup ToSet(c2s)) \cap Requests) \cup applied

(* The requests of which the client has heard, or will hear, an answer. *)
Answered ==
    {r \in Requests :
        \/ \E m \in ToSet(s2c) \cup ToSet(toProcess) : m.xid = r
        \/ [xid |-> r, rc |-> "ANSWERED"] \in ToSet(completions)
        \/ result[r] = "ANSWERED"}

Through == {"queued", "waiting", "returned"}

OutcomeInv ==
    /\ \A r \in Pushed : pc[r] \in Through
    /\ Answered \subseteq applied

(* A flush moves packets; none is new. *)
LEMMA FlushMoves ==
    ASSUME QueueTypes, NEW k \in 0..Len(toSend), flush_send_queue(k)
    PROVE  /\ ToSet(toSend') \subseteq ToSet(toSend)
           /\ ToSet(c2s') \subseteq ToSet(toSend) \cup ToSet(c2s)
<1>1. toSend \in Seq(Packets) /\ c2s \in Seq(Packets)
    BY DEF QueueTypes
<1>2. SubSeq(toSend, 1, k) \in Seq(Packets)
    BY <1>1
<1>3. /\ ToSet(SubSeq(toSend, 1, k)) \subseteq ToSet(toSend)
      /\ ToSet(SubSeq(toSend, k + 1, Len(toSend))) \subseteq ToSet(toSend)
    <2>1. /\ Len(toSend) \in Nat /\ Len(toSend) \in 0..Len(toSend)
          /\ 1 \in 1..(Len(toSend) + 1) /\ k + 1 \in 1..(Len(toSend) + 1)
        BY <1>1
    <2>2. QED
        BY <1>1, <2>1, ElementsSubSeq
<1>4. ToSet(c2s \o SubSeq(toSend, 1, k))
         \subseteq ToSet(c2s) \cup ToSet(SubSeq(toSend, 1, k))
    BY <1>1, <1>2, ElementsConcat
<1>5. /\ toSend' = SubSeq(toSend, k + 1, Len(toSend))
      /\ c2s' = c2s \/ c2s' = c2s \o SubSeq(toSend, 1, k)
    BY DEF flush_send_queue
<1>6. QED
    BY <1>3, <1>4, <1>5

LEMMA DropPushes ==
    ASSUME QueueTypes, DropInFlight
    PROVE  /\ ToSet(c2s') = {}
           /\ applied \subseteq applied'
           /\ applied' \subseteq applied \cup (ToSet(c2s) \cap Requests)
<1>1. PICK k \in 0..Len(c2s) :
         applied' = applied \cup (ToSet(SubSeq(c2s, 1, k)) \cap Requests)
    BY DEF DropInFlight
<1>2. ToSet(SubSeq(c2s, 1, k)) \subseteq ToSet(c2s)
    <2>1. /\ c2s \in Seq(Packets) /\ Len(c2s) \in Nat
          /\ 1 \in 1..(Len(c2s) + 1)
        BY DEF QueueTypes
    <2>2. QED
        BY <2>1, ElementsSubSeq
<1>3. QED
    BY <1>1, <1>2, ElementsEmpty DEF DropInFlight
-----------------------------------------------------------------------------
(* Nothing gets into Pushed but a request its caller has just queued. *)
LEMMA PushedStep ==
    ASSUME TypeOK, [Next]_vars, NEW r \in Pushed'
    PROVE  r \in Pushed \/ (pc[r] = "added" /\ pc'[r] = "queued")
<1> CallTypes /\ QueueTypes /\ HistoryTypes
    BY DEF TypeOK
<1>0. toSend \in Seq(Packets) /\ c2s \in Seq(Packets)
    BY DEF QueueTypes
<1>a. Reserved \cap Requests = {} /\ Requests \subseteq Packets
    BY RequestsAssumption DEF Packets
<1> USE DEF Pushed
<1>1. ASSUME UNCHANGED <<toSend, c2s, applied>> PROVE r \in Pushed
    BY <1>1
<1>2. CASE UNCHANGED vars
    BY <1>1, <1>2 DEF vars, queueVars, netVars
<1>3. ASSUME NEW q \in Requests,
             Check(q) \/ AddCompletion(q) \/ WaitSync(q)
      PROVE  r \in Pushed
    BY <1>1, <1>3 DEF Check, AddCompletion, WaitSync, queueVars, netVars
<1>4. ASSUME NEW q \in Requests, QueueBuffer(q)
      PROVE  r \in Pushed \/ (pc[r] = "added" /\ pc'[r] = "queued")
    <2>1. /\ toSend' = Append(toSend, q) /\ UNCHANGED <<c2s, applied>>
          /\ pc[q] = "added" /\ pc'[q] = "queued"
        BY <1>4 DEF QueueBuffer, netVars, CallTypes
    <2>2. ToSet(toSend') \subseteq ToSet(toSend) \cup {q}
        BY <1>0, <1>a, <2>1, ElementsAppend
    <2>3. QED
        BY <2>1, <2>2
<1>5. ASSUME NEW k \in 0..Len(toSend), flush_send_queue(k), applied' = applied
      PROVE  r \in Pushed
    BY <1>5, FlushMoves
<1>6. ASSUME NEW q \in Requests, SendQueue(q) PROVE r \in Pushed
    <2>1. applied' = applied
        BY <1>6 DEF SendQueue
    <2>2. \/ \E k \in 0..Len(toSend) : flush_send_queue(k)
          \/ UNCHANGED <<toSend, c2s>>
        BY <1>6 DEF SendQueue
    <2>3. QED
        BY <1>1, <1>5, <2>1, <2>2
<1>7. ASSUME DropInFlight, toSend' = toSend PROVE r \in Pushed
    BY <1>7, DropPushes
<1>8. ASSUME NEW rc, NEW st, handle_error(rc, st), toSend' = toSend
      PROVE  r \in Pushed
    BY <1>7, <1>8 DEF handle_error
<1>9. CASE IoFailOne \/ IoReset \/ IoExit \/ IoWrap \/ IoWake \/ IoRead
              \/ IoNothing \/ IoDispatchReply \/ IoComplete
    BY <1>1, <1>9 DEF IoFailOne, IoReset, IoExit, IoWrap, IoWake, IoRead,
                      IoNothing, IoDispatchReply, IoComplete, queueVars,
                      netVars
<1>10. CASE IoCleanup
    BY <1>10, ElementsEmpty DEF IoCleanup, netVars
<1>11. ASSUME PrimeConnection, UNCHANGED <<toSend, applied>>
       PROVE  r \in Pushed
    <2>1. ToSet(c2s') = {"connect"}
        BY <1>11 DEF PrimeConnection, ToSet
    <2>2. QED
        BY <1>11, <2>1, <1>a DEF Reserved
<1>12. CASE IoConnect \/ IoConnected
    BY <1>1, <1>8, <1>11, <1>12 DEF IoConnect, IoConnected, netVars
<1>13. CASE IoTimeout \/ IoReadError \/ IoMismatch
    BY <1>8, <1>13 DEF IoTimeout, IoReadError, IoMismatch
<1>14. CASE IoInterest
    <2>1. UNCHANGED <<c2s, applied>>
          /\ (toSend' = toSend \/ toSend' = Append(toSend, "ping"))
        BY <1>14 DEF IoInterest, netVars
    <2>2. ToSet(toSend') \subseteq ToSet(toSend) \cup {"ping"}
        <3>1. "ping" \in Packets
            BY DEF Packets, Reserved
        <3>2. ToSet(Append(toSend, "ping"))
                 \subseteq ToSet(toSend) \cup {"ping"}
            BY <1>0, <3>1, ElementsAppend
        <3>3. QED
            BY <2>1, <3>2
    <2>3. "ping" \notin Requests
        BY <1>a DEF Reserved
    <2>4. QED
        BY <2>1, <2>2, <2>3
<1>15. CASE IoFlush
    <2>1. CASE handle_error("ZCONNECTIONLOSS", state) /\ toSend' = toSend
        BY <1>8, <2>1
    <2>2. CASE /\ \E k \in 1..Len(toSend) : flush_send_queue(k)
               /\ applied' = applied
        <3>1. PICK k \in 0..Len(toSend) : flush_send_queue(k)
            BY <2>2
        <3>2. QED
            BY <1>5, <2>2, <3>1
    <2>3. QED
        BY <1>15, <2>1, <2>2 DEF IoFlush
<1>16. CASE IoHandshake
    <2>1. CASE handle_error("ZSESSIONEXPIRED", "EXPIRED") /\ toSend' = toSend
        BY <1>8, <2>1
    <2>2. CASE toSend' = Greeting \o toSend /\ UNCHANGED <<c2s, applied>>
        <3>1. /\ Greeting \in Seq(Packets)
              /\ ToSet(Greeting) \subseteq {"auth", "set_watches"}
            <4> DEFINE First  == IF "auth" \in Extras THEN <<"auth">> ELSE <<>>
                       Second == IF "set_watches" \in Extras
                                 THEN <<"set_watches">> ELSE <<>>
            <4>1. "auth" \in Packets /\ "set_watches" \in Packets
                BY DEF Packets, Reserved
            <4>2. First \in Seq(Packets) /\ ToSet(First) \subseteq {"auth"}
                BY <4>1 DEF ToSet
            <4>3. /\ Second \in Seq(Packets)
                  /\ ToSet(Second) \subseteq {"set_watches"}
                BY <4>1 DEF ToSet
            <4>4. Greeting = First \o Second
                BY DEF Greeting
            <4> HIDE DEF First, Second
            <4>5. First \o Second \in Seq(Packets)
                BY <4>2, <4>3
            <4>6. QED
                BY <4>2, <4>3, <4>4, <4>5, ElementsConcat
        <3>2. ToSet(toSend') \subseteq ToSet(Greeting) \cup ToSet(toSend)
            BY <1>0, <2>2, <3>1, ElementsConcat
        <3>3. QED
            BY <1>a, <2>2, <3>1, <3>2 DEF Reserved
    <2>3. QED
        BY <1>16, <2>1, <2>2 DEF IoHandshake
<1>17. CASE IoDispatchReserved
    BY <1>1, <1>8, <1>17 DEF IoDispatchReserved, netVars
<1>18. CASE CtStep
    BY <1>1, <1>18 DEF CtStep, CtLoop, CtWake, CtCallback, CtCallbackEnds,
                       CtDrained, queueVars, netVars
<1>19. CASE CloseRequest \/ ClosePurge \/ CloseFailOne \/ CloseWakeIo
               \/ CloseJoinIo \/ CloseJoinCt \/ CloseFree
    BY <1>1, <1>19 DEF CloseRequest, ClosePurge, CloseFailOne, CloseWakeIo,
                       CloseJoinIo, CloseJoinCt, CloseFree, queueVars, netVars
<1>20. CASE CloseDestroy
    <2>1. toSend' = <<>> /\ c2s' = <<>>
        BY <1>20 DEF CloseDestroy
    <2>2. CASE applied' = applied
        BY <2>1, <2>2, ElementsEmpty
    <2>3. ASSUME NEW k \in 0..Len(toSend),
                 applied' = applied \cup
                       (ToSet(c2s \o SubSeq(toSend, 1, k)) \cap Requests)
          PROVE  r \in Pushed
        <3>1. SubSeq(toSend, 1, k) \in Seq(Packets)
            BY <1>0
        <3>2. ToSet(c2s \o SubSeq(toSend, 1, k))
                 \subseteq ToSet(c2s) \cup ToSet(SubSeq(toSend, 1, k))
            BY <1>0, <3>1, ElementsConcat
        <3>3. ToSet(SubSeq(toSend, 1, k)) \subseteq ToSet(toSend)
            BY <1>0, ElementsSubSeq
        <3>4. QED
            BY <2>1, <2>3, <3>2, <3>3, ElementsEmpty
    <2>4. QED
        BY <1>20, <2>2, <2>3 DEF CloseDestroy
<1>21. CASE ServerEvent
    BY <1>1, <1>21 DEF ServerEvent, queueVars
<1>22. CASE ServerHandshake \/ ServerAnswer
    <2>1. /\ c2s # <<>> /\ c2s' = Tail(c2s) /\ toSend' = toSend
          /\ applied' \subseteq applied \cup ({Head(c2s)} \cap Requests)
        BY <1>22 DEF ServerHandshake, ServerAnswer, queueVars
    <2>2. QED
        BY <1>0, <2>1, ElementsHead
<1>23. CASE ServerReorder
    <2>1. UNCHANGED <<toSend, applied>>
        BY <1>23 DEF ServerReorder, queueVars
    <2>2. /\ c2s' = <<c2s[2], c2s[1]>> \o SubSeq(c2s, 3, Len(c2s))
          /\ Len(c2s) >= 2
        BY <1>23 DEF ServerReorder
    <2>3. \A i \in DOMAIN c2s' : \E j \in DOMAIN c2s : c2s'[i] = c2s[j]
        <3>1. TAKE i \in DOMAIN c2s'
        <3>2. CASE i = 1
            BY <1>0, <2>2, <3>2
        <3>3. CASE i = 2
            BY <1>0, <2>2, <3>3
        <3>4. CASE i \notin {1, 2}
            <4>1. i \in DOMAIN c2s /\ c2s'[i] = c2s[i]
                BY <1>0, <2>2, <3>4
            <4>2. QED
                BY <4>1
        <3>5. QED
            BY <3>2, <3>3, <3>4
    <2>4. ToSet(c2s') \subseteq ToSet(c2s)
        BY <2>3 DEF ToSet
    <2>5. QED
        BY <2>1, <2>4
<1>24. CASE NetBreak
    BY <1>7, <1>24 DEF NetBreak, queueVars
<1>25. QED
    BY <1>2, <1>3, <1>4, <1>6, <1>9, <1>10, <1>12, <1>13, <1>14, <1>15, <1>16,
       <1>17, <1>18, <1>19, <1>20, <1>21, <1>22, <1>23, <1>24, NextCases
-----------------------------------------------------------------------------
(* A call does not come back from Through. *)
LEMMA ThroughStays ==
    ASSUME TypeOK, [Next]_vars, NEW r \in Requests, pc[r] \in Through
    PROVE  pc'[r] \in Through
<1> USE DEF Through
<1>1. ASSUME UNCHANGED pc PROVE pc'[r] \in Through
    BY <1>1
<1>2. CASE UNCHANGED vars
    BY <1>1, <1>2 DEF vars, callVars
<1>3. ASSUME NEW q \in Requests, CallStep(q) PROVE pc'[r] \in Through
    BY <1>3 DEF CallStep, Check, AddCompletion, QueueBuffer, SendQueue,
                WaitSync, TypeOK, CallTypes
<1>4. CASE IoCleanup \/ IoFailOne \/ IoReset \/ IoExit \/ IoWrap \/ IoConnect
              \/ IoInterest \/ IoTimeout \/ IoWake \/ IoConnected
    BY <1>1, <1>4 DEF IoCleanup, IoFailOne, IoReset, IoExit, IoWrap, IoConnect,
                      IoInterest, IoTimeout, IoWake, IoConnected, callVars
<1>5. CASE IoFlush \/ IoRead \/ IoHandshake \/ IoReadError \/ IoNothing
              \/ IoDispatchReserved \/ IoDispatchReply \/ IoComplete
              \/ IoMismatch
    BY <1>1, <1>5 DEF IoFlush, IoRead, IoHandshake, IoReadError, IoNothing,
                      IoDispatchReserved, IoDispatchReply, IoComplete,
                      IoMismatch, callVars
<1>6. CASE CtStep
    BY <1>1, <1>6 DEF CtStep, CtLoop, CtWake, CtCallback, CtCallbackEnds,
                      CtDrained, callVars
<1>7. CASE CloseRequest \/ ClosePurge \/ CloseFailOne \/ CloseWakeIo
              \/ CloseJoinIo \/ CloseJoinCt \/ CloseDestroy \/ CloseFree
    BY <1>1, <1>7 DEF CloseRequest, ClosePurge, CloseFailOne, CloseWakeIo,
                      CloseJoinIo, CloseJoinCt, CloseDestroy, CloseFree,
                      callVars
<1>8. CASE ServerHandshake \/ ServerAnswer \/ ServerReorder \/ ServerEvent
              \/ NetBreak
    BY <1>1, <1>8 DEF ServerHandshake, ServerAnswer, ServerReorder,
                      ServerEvent, NetBreak, callVars
<1>9. QED
    BY <1>2, <1>3, <1>4, <1>5, <1>6, <1>7, <1>8, NextCases DEF CallStep

(* What a server has executed stays executed. *)
LEMMA AppliedGrows ==
    ASSUME TypeOK, [Next]_vars
    PROVE  applied \subseteq applied'
<1> QueueTypes
    BY DEF TypeOK
<1>1. ASSUME DropInFlight PROVE applied \subseteq applied'
    BY <1>1, DropPushes
<1>2. ASSUME NEW rc, NEW st, handle_error(rc, st)
      PROVE  applied \subseteq applied'
    BY <1>1, <1>2 DEF handle_error
<1>3. CASE UNCHANGED vars
    BY <1>3 DEF vars, netVars
<1>4. ASSUME NEW q \in Requests, CallStep(q)
      PROVE  applied \subseteq applied'
    BY <1>4 DEF CallStep, Check, AddCompletion, QueueBuffer, SendQueue,
                WaitSync, netVars
<1>5. CASE IoCleanup \/ IoFailOne \/ IoReset \/ IoExit \/ IoWrap
              \/ IoInterest \/ IoWake \/ IoRead \/ IoNothing
              \/ IoDispatchReply \/ IoComplete
    BY <1>5 DEF IoCleanup, IoFailOne, IoReset, IoExit, IoWrap, IoInterest,
                IoWake, IoRead, IoNothing, IoDispatchReply, IoComplete, netVars
<1>6. CASE IoConnect \/ IoTimeout \/ IoConnected \/ IoFlush
    BY <1>2, <1>6 DEF IoConnect, IoTimeout, IoConnected, IoFlush, netVars
<1>7. CASE IoHandshake \/ IoReadError \/ IoDispatchReserved \/ IoMismatch
    BY <1>2, <1>7 DEF IoHandshake, IoReadError, IoDispatchReserved, IoMismatch,
                      netVars
<1>8. CASE CtStep
    BY <1>8 DEF CtStep, CtLoop, CtWake, CtCallback, CtCallbackEnds, CtDrained,
                netVars
<1>9. CASE CloseRequest \/ ClosePurge \/ CloseFailOne \/ CloseWakeIo
              \/ CloseJoinIo \/ CloseJoinCt \/ CloseFree
    BY <1>9 DEF CloseRequest, ClosePurge, CloseFailOne, CloseWakeIo,
                CloseJoinIo, CloseJoinCt, CloseFree, netVars
<1>10. CASE CloseDestroy
    BY <1>10 DEF CloseDestroy
<1>11. CASE ServerHandshake \/ ServerAnswer \/ ServerReorder \/ ServerEvent
    BY <1>11 DEF ServerHandshake, ServerAnswer, ServerReorder, ServerEvent
<1>12. CASE NetBreak
    BY <1>1, <1>12 DEF NetBreak
<1>13. QED
    BY <1>3, <1>4, <1>5, <1>6, <1>7, <1>8, <1>9, <1>10, <1>11, <1>12, NextCases
       DEF CallStep
-----------------------------------------------------------------------------
(* Answers are only passed on; a new one comes from the server. *)
LEMMA AnsweredStep ==
    ASSUME TypeOK, [Next]_vars, NEW r \in Answered'
    PROVE  r \in Answered \/ r \in applied'
<1> /\ CallTypes /\ ConnTypes /\ QueueTypes /\ ThreadTypes
    BY DEF TypeOK
<1> USE DEF Answered
<1>1. /\ s2c \in Seq(Replies) /\ toProcess \in Seq(Replies)
      /\ completions \in Seq(Completion) /\ c2s \in Seq(Packets)
    BY DEF QueueTypes, ThreadTypes
<1>2. /\ r \in Requests /\ r \notin {"connect", "event", "session"}
      /\ "ANSWERED" \notin Errors
    BY RequestsAssumption DEF Reserved, Errors
<1>3. ASSUME ToSet(s2c') \subseteq ToSet(s2c) \cup ToSet(toProcess),
             ToSet(toProcess') \subseteq ToSet(s2c) \cup ToSet(toProcess),
             UNCHANGED <<completions, result>>
      PROVE  r \in Answered
    BY <1>3
<1>4. ASSUME UNCHANGED <<s2c, toProcess, completions, result>>
      PROVE  r \in Answered
    BY <1>3, <1>4
<1>5. ASSUME NEW c \in Completion,
             ToSet(s2c') \subseteq ToSet(s2c),
             ToSet(toProcess') \subseteq ToSet(toProcess),
             completions' = Append(completions, c), result' = result
      PROVE  r \in Answered \/ c = [xid |-> r, rc |-> "ANSWERED"]
    <2>1. ToSet(completions') \subseteq ToSet(completions) \cup {c}
        BY <1>1, <1>5, ElementsAppend
    <2>2. QED
        BY <1>5, <2>1
<1>6. ASSUME NEW rc, NEW st \in States, handle_error(rc, st),
             ToSet(toProcess') \subseteq ToSet(toProcess), result' = result
      PROVE  r \in Answered
    <2>1. ToSet(s2c') = {}
        BY <1>6, ElementsEmpty DEF handle_error
    <2>2. CASE completions' = completions
        BY <1>3, <1>6, <2>1, <2>2
    <2>3. CASE LossEvent(st) # NoOne
               /\ completions' = SessionEvent(completions, LossEvent(st))
        <3>1. LossEvent(st) \in States
            BY <2>3 DEF LossEvent, States, Unrecoverable
        <3>2. [xid |-> "session", rc |-> LossEvent(st)] \in Completion
            BY <3>1, PacketTypes
        <3>3. [xid |-> "session", rc |-> LossEvent(st)]
                 # [xid |-> r, rc |-> "ANSWERED"]
            BY <1>2
        <3>4. QED
            BY <1>5, <1>6, <2>1, <2>3, <3>2, <3>3 DEF SessionEvent
    <2>4. QED
        BY <1>6, <2>2, <2>3 DEF handle_error
<1>7. ASSUME NEW rc \in Errors, FailOne(rc), UNCHANGED <<s2c, toProcess>>
      PROVE  r \in Answered
    <2>1. Head(doomed) \in Requests
        BY <1>7, HeadTailProperties DEF FailOne, QueueTypes
    <2>2. CASE result' = [result EXCEPT ![Head(doomed)] = rc]
               /\ completions' = completions
        <3>1. result'[r] = "ANSWERED" => result[r] = "ANSWERED"
            BY <1>2, <1>7, <2>1, <2>2 DEF CallTypes
        <3>2. QED
            BY <1>7, <2>2, <3>1
    <2>3. CASE /\ completions'
                    = Append(completions, [xid |-> Head(doomed), rc |-> rc])
               /\ result' = result
        <3>1. [xid |-> Head(doomed), rc |-> rc] \in Completion
            BY <2>1, PacketTypes DEF Outcomes
        <3>2. [xid |-> Head(doomed), rc |-> rc]
                 # [xid |-> r, rc |-> "ANSWERED"]
            BY <1>2, <1>7
        <3>3. QED
            BY <1>5, <1>7, <2>3, <3>1, <3>2
    <2>4. QED
        BY <1>7, <2>2, <2>3 DEF FailOne
<1>8. state \in States /\ {"EXPIRED", "AUTH_FAILED"} \subseteq States
    BY DEF ConnTypes, States, Unrecoverable
<1>9. ASSUME dequeue_buffer, toProcess # <<>>
      PROVE  ToSet(toProcess') \subseteq ToSet(toProcess)
    BY <1>1, <1>9, ElementsHead DEF dequeue_buffer
<1>10. ioPc \in {"dispatch", "match"} => toProcess # <<>>
    <2>1. ioPc \in {"dispatch", "match"} => Len(toProcess) = 1
        BY DEF ThreadTypes
    <2>2. QED
        BY <2>1
<1>11. CASE UNCHANGED vars
    BY <1>4, <1>11 DEF vars, queueVars, netVars
<1>12. ASSUME NEW q \in Requests, CallStep(q) PROVE r \in Answered
    BY <1>4, <1>12 DEF CallStep, Check, AddCompletion, QueueBuffer, SendQueue,
                       WaitSync, queueVars, netVars
<1>13. CASE IoReset \/ IoExit \/ IoWrap \/ IoInterest \/ IoWake \/ IoNothing
    BY <1>4, <1>13 DEF IoReset, IoExit, IoWrap, IoInterest, IoWake, IoNothing,
                       queueVars, netVars
<1>14. CASE IoCleanup
    BY <1>3, <1>14, ElementsEmpty DEF IoCleanup, netVars
<1>15. CASE IoFailOne
    BY <1>7, <1>15 DEF IoFailOne, ThreadTypes, netVars
<1>16. CASE IoConnect \/ IoTimeout \/ IoConnected \/ IoReadError
    BY <1>4, <1>6, <1>8, <1>16
       DEF IoConnect, IoTimeout, IoConnected, IoReadError, netVars
<1>17. CASE IoFlush
    BY <1>4, <1>6, <1>8, <1>17 DEF IoFlush
<1>18. CASE IoRead
    <2>1. Head(s2c) \in ToSet(s2c) /\ ToSet(Tail(s2c)) \subseteq ToSet(s2c)
        BY <1>1, <1>18, ElementsHead DEF IoRead
    <2>2. Head(s2c) \in Replies
        BY <1>1, <1>18, HeadTailProperties DEF IoRead
    <2>3. ToSet(Append(toProcess, Head(s2c)))
             \subseteq ToSet(toProcess) \cup {Head(s2c)}
        BY <1>1, <2>2, ElementsAppend
    <2>4. QED
        BY <1>3, <1>18, <2>1, <2>3 DEF IoRead
<1>19. CASE IoHandshake
    <2>1. CASE handle_error("ZSESSIONEXPIRED", "EXPIRED")
               /\ UNCHANGED <<toProcess, result>>
        BY <1>6, <1>8, <2>1
    <2>2. CASE /\ completions' = SessionEvent(completions, "CONNECTED")
               /\ s2c # <<>> /\ s2c' = Tail(s2c)
               /\ UNCHANGED <<toProcess, result>>
        <3>1. ToSet(s2c') \subseteq ToSet(s2c)
            BY <1>1, <2>2, ElementsHead
        <3>2. [xid |-> "session", rc |-> "CONNECTED"] \in Completion
            BY PacketTypes DEF States
        <3>3. [xid |-> "session", rc |-> "CONNECTED"]
                 # [xid |-> r, rc |-> "ANSWERED"]
            BY <1>2
        <3>4. QED
            BY <1>5, <2>2, <3>1, <3>2, <3>3 DEF SessionEvent
    <2>3. QED
        BY <1>19, <2>1, <2>2 DEF IoHandshake
<1>20. CASE IoDispatchReserved
    <2>1. ToSet(toProcess') \subseteq ToSet(toProcess) /\ result' = result
        BY <1>9, <1>10, <1>20 DEF IoDispatchReserved
    <2>2. CASE handle_error("ZAUTHFAILED", "AUTH_FAILED")
        BY <1>6, <1>8, <2>1, <2>2
    <2>3. CASE UNCHANGED <<s2c, completions>>
        BY <1>3, <2>1, <2>3
    <2>4. CASE /\ completions' = Append(completions,
                                   [xid |-> "event", rc |-> "ANSWERED"])
               /\ s2c' = s2c
        <3>1. [xid |-> "event", rc |-> "ANSWERED"]
                 # [xid |-> r, rc |-> "ANSWERED"]
            BY <1>2
        <3>2. QED
            BY <1>5, <2>1, <2>4, <3>1, PacketTypes
    <2>5. QED
        BY <1>20, <2>2, <2>3, <2>4 DEF IoDispatchReserved, netVars
<1>21. CASE IoDispatchReply
    <2>1. ToSet(toProcess') \subseteq ToSet(toProcess)
        BY <1>9, <1>10, <1>21 DEF IoDispatchReply
    <2>2. QED
        BY <1>3, <1>21, <2>1 DEF IoDispatchReply, netVars
<1>22. CASE IoComplete
    <2>1. /\ ToSet(toProcess') \subseteq ToSet(toProcess) /\ s2c' = s2c
          /\ Head(toProcess).xid = ioHeld /\ ioHeld \in Requests
        BY <1>9, <1>10, <1>22 DEF IoComplete, netVars, ThreadTypes
    <2>2. r = ioHeld => r \in Answered
        <3>1. Head(toProcess) \in ToSet(toProcess)
            BY <1>1, <1>10, <1>22, ElementsHead DEF IoComplete
        <3>2. QED
            BY <1>2, <2>1, <3>1
    <2>3. CASE /\ result' = [result EXCEPT ![ioHeld] = "ANSWERED"]
               /\ completions' = completions
        <3>1. r # ioHeld => result'[r] = result[r]
            BY <1>2, <2>3 DEF CallTypes
        <3>2. QED
            BY <2>1, <2>2, <2>3, <3>1
    <2>4. CASE /\ completions' = Append(completions,
                                   [xid |-> ioHeld, rc |-> "ANSWERED"])
               /\ result' = result
        <3>1. [xid |-> ioHeld, rc |-> "ANSWERED"] \in Completion
            BY <2>1, PacketTypes DEF Outcomes
        <3>2. [xid |-> ioHeld, rc |-> "ANSWERED"]
                 = [xid |-> r, rc |-> "ANSWERED"] => r = ioHeld
            OBVIOUS
        <3>3. QED
            BY <1>5, <2>1, <2>2, <2>4, <3>1, <3>2
    <2>5. QED
        BY <1>22, <2>3, <2>4 DEF IoComplete
<1>23. CASE IoMismatch
    BY <1>6, <1>8, <1>9, <1>10, <1>23 DEF IoMismatch
<1>24. CASE CtLoop \/ CtWake \/ CtCallbackEnds \/ CtDrained
    BY <1>4, <1>24 DEF CtLoop, CtWake, CtCallbackEnds, CtDrained, queueVars,
                       netVars
<1>25. CASE CtCallback
    <2> DEFINE c == Head(completions)
    <2>1. /\ c \in Completion /\ c \in ToSet(completions)
          /\ ToSet(completions') \subseteq ToSet(completions)
        BY <1>1, <1>25, HeadTailProperties, ElementsHead DEF CtCallback
    <2>2. UNCHANGED <<s2c, toProcess>>
        BY <1>25 DEF CtCallback, netVars
    <2>3. result'[r] = "ANSWERED" =>
             result[r] = "ANSWERED" \/ (c.xid = r /\ c.rc = "ANSWERED")
        BY <1>2, <1>25 DEF CtCallback, CallTypes
    <2>4. c.xid = r /\ c.rc = "ANSWERED" =>
             c = [xid |-> r, rc |-> "ANSWERED"]
        BY <1>2, <2>1 DEF Completion
    <2> HIDE DEF c
    <2>5. QED
        BY <1>2, <2>1, <2>2, <2>3, <2>4
<1>26. CASE CloseRequest \/ ClosePurge \/ CloseWakeIo \/ CloseJoinIo
               \/ CloseJoinCt \/ CloseFree
    BY <1>4, <1>26 DEF CloseRequest, ClosePurge, CloseWakeIo, CloseJoinIo,
                       CloseJoinCt, CloseFree, queueVars, netVars
<1>27. CASE CloseFailOne
    BY <1>7, <1>27, ErrorCodes DEF CloseFailOne, netVars
<1>28. CASE CloseDestroy
    BY <1>3, <1>28, ElementsEmpty DEF CloseDestroy
<1>29. ASSUME NEW m \in Replies, s2c' = Append(s2c, m),
              UNCHANGED <<toProcess, completions, result>>
       PROVE  r \in Answered \/ m.xid = r
    <2>1. ToSet(s2c') \subseteq ToSet(s2c) \cup {m}
        BY <1>1, <1>29, ElementsAppend
    <2>2. QED
        BY <1>29, <2>1
<1>30. CASE ServerHandshake
    <2>1. PICK ok \in BOOLEAN :
             s2c' = Append(s2c, [xid |-> "connect", ok |-> ok])
        BY <1>30 DEF ServerHandshake
    <2>2. [xid |-> "connect", ok |-> ok] \in Replies
        BY PacketTypes DEF Reserved
    <2>3. QED
        BY <1>2, <1>29, <1>30, <2>1, <2>2 DEF ServerHandshake, queueVars
<1>31. CASE ServerAnswer
    <2>1. PICK ok \in BOOLEAN :
             s2c' = Append(s2c, [xid |-> Head(c2s), ok |-> ok])
        BY <1>31 DEF ServerAnswer
    <2>2. [xid |-> Head(c2s), ok |-> ok] \in Replies
        BY <1>1, <1>31, HeadTailProperties, PacketTypes DEF ServerAnswer
    <2>3. Head(c2s) = r => r \in applied'
        BY <1>2, <1>31 DEF ServerAnswer
    <2>4. QED
        BY <1>29, <1>31, <2>1, <2>2, <2>3 DEF ServerAnswer, queueVars
<1>32. CASE ServerReorder
    BY <1>4, <1>32 DEF ServerReorder, queueVars
<1>33. CASE ServerEvent
    BY <1>2, <1>29, <1>33, PacketTypes DEF ServerEvent, queueVars, Reserved
<1>34. CASE NetBreak
    <2>1. PICK k \in 0..Len(s2c) : s2c' = SubSeq(s2c, 1, k)
        BY <1>34 DEF NetBreak
    <2>2. Len(s2c) \in Nat /\ 1 \in 1..(Len(s2c) + 1)
        BY <1>1
    <2>3. ToSet(s2c') \subseteq ToSet(s2c)
        BY <1>1, <2>1, <2>2, ElementsSubSeq
    <2>4. QED
        BY <1>3, <1>34, <2>3 DEF NetBreak, queueVars
<1>35. QED
    BY <1>11, <1>12, <1>13, <1>14, <1>15, <1>16, <1>17, <1>18, <1>19, <1>20,
       <1>21, <1>22, <1>23, <1>24, <1>25, <1>26, <1>27, <1>28, <1>30, <1>31,
       <1>32, <1>33, <1>34, NextCases DEF CallStep, CtStep

-----------------------------------------------------------------------------
LEMMA OutcomeStep ==
    ASSUME TypeOK, OutcomeInv, [Next]_vars
    PROVE  OutcomeInv'
<1>1. Pushed \subseteq Requests
    BY DEF Pushed, TypeOK, HistoryTypes
<1>2. ASSUME NEW r \in Pushed' PROVE pc'[r] \in Through
    <2>1. CASE r \in Pushed
        BY <1>1, <2>1, ThroughStays DEF OutcomeInv
    <2>2. CASE pc'[r] = "queued"
        BY <2>2 DEF Through
    <2>3. QED
        BY <1>2, <2>1, <2>2, PushedStep
<1>3. Answered' \subseteq applied'
    BY AnsweredStep, AppliedGrows DEF OutcomeInv
<1>4. QED
    BY <1>2, <1>3 DEF OutcomeInv

LEMMA OutcomeInit == Init => OutcomeInv
<1> SUFFICES ASSUME Init PROVE OutcomeInv
    OBVIOUS
<1>1. /\ ToSet(toSend) = {} /\ ToSet(c2s) = {} /\ ToSet(s2c) = {}
      /\ ToSet(toProcess) = {} /\ ToSet(completions) = {}
      /\ applied = {}
    BY ElementsEmpty DEF Init
<1>2. \A r \in Requests : result[r] # "ANSWERED"
    BY DEF Init, NoOne
<1>3. QED
    BY <1>1, <1>2 DEF OutcomeInv, Pushed, Answered

(* Whatever connections break and whoever closes the handle: a caller or a *)
(* callback that is told of an answer is told the truth, and a call that   *)
(* was refused has not been sent and never will be.                        *)
THEOREM CallersAreToldTheTruth == Spec => []OutcomeIsTruthful
<1>1. Init => OutcomeInv
    BY OutcomeInit
<1>2. TypeOK /\ OutcomeInv => OutcomeIsTruthful
    <2> SUFFICES ASSUME TypeOK, OutcomeInv, NEW r \in Requests
                 PROVE  /\ (result[r] = "ANSWERED"
                              \/ [xid |-> r, rc |-> "ANSWERED"]
                                    \in ToSet(completions)) => r \in applied
                        /\ pc[r] = "rejected" =>
                              r \notin applied /\ r \notin ToSet(toSend \o c2s)
        BY DEF OutcomeIsTruthful
    <2>1. ToSet(toSend \o c2s) \subseteq ToSet(toSend) \cup ToSet(c2s)
        BY ElementsConcat DEF TypeOK, QueueTypes
    <2>2. QED
        BY <2>1 DEF OutcomeInv, Pushed, Answered, Through
<1>3. TypeOK /\ OutcomeInv /\ [Next]_vars => OutcomeInv'
    BY OutcomeStep
<1>4. QED
    BY <1>1, <1>2, <1>3, TypesAreRight, PTL DEF Spec

-----------------------------------------------------------------------------
(* The order in the queues: each accepted request is in one place, the     *)
(* replies that arrive find their requests at the head of sent_requests,   *)
(* callbacks run in the order of the calls, and RequestService is          *)
(* implemented.                                                            *)

(* Sorted and RequestsIn, through the operators the model uses. *)
LEMMA SortedEmpty ==
    ASSUME NEW T
    PROVE  Sorted(<<>>, T) /\ RequestsIn(<<>>) = {}
BY DEF Sorted, RequestsIn, ToSet

LEMMA SortedAppend ==
    ASSUME NEW S, NEW q \in Seq(S), NEW x \in S, NEW T
    PROVE  /\ RequestsIn(Append(q, x)) = RequestsIn(q) \cup ({x} \cap Requests)
           /\ Sorted(q, T) /\ RequestsIn(q) \X ({x} \cap Requests) \subseteq T
                => Sorted(Append(q, x), T)
<1> DEFINE t == Append(q, x)
<1>1. /\ Len(q) \in Nat /\ DOMAIN q = 1..Len(q)
      /\ t \in Seq(S) /\ DOMAIN t = 1..(Len(q) + 1)
      /\ \A i \in 1..Len(q) : t[i] = q[i]
      /\ t[Len(q) + 1] = x
    OBVIOUS
<1> HIDE DEF t
<1>2. ToSet(t) = ToSet(q) \cup {x}
    <2>1. ToSet(t) \subseteq ToSet(q) \cup {x}
        BY ElementsAppend DEF t
    <2>2. ASSUME NEW y \in ToSet(q) PROVE y \in ToSet(t)
        <3>1. PICK i \in DOMAIN q : y = q[i]
            BY <2>2 DEF ToSet
        <3>2. i \in DOMAIN t /\ t[i] = y
            BY <1>1, <3>1
        <3>3. QED
            BY <3>2 DEF ToSet
    <2>3. x \in ToSet(t)
        <3>1. Len(q) + 1 \in DOMAIN t
            BY <1>1
        <3>2. QED
            BY <1>1, <3>1 DEF ToSet
    <2>4. QED
        BY <2>1, <2>2, <2>3
<1>3. ASSUME Sorted(q, T), RequestsIn(q) \X ({x} \cap Requests) \subseteq T
      PROVE  Sorted(t, T)
    <2> SUFFICES ASSUME NEW i \in DOMAIN t, NEW j \in DOMAIN t, i < j,
                        t[i] \in Requests, t[j] \in Requests
                 PROVE  <<t[i], t[j]>> \in T
        BY DEF Sorted
    <2>1. i \in DOMAIN q /\ t[i] = q[i]
        BY <1>1
    <2>2. CASE j \in DOMAIN q
        BY <1>1, <1>3, <2>1, <2>2 DEF Sorted
    <2>3. CASE j = Len(q) + 1
        <3>1. t[j] = x /\ q[i] \in RequestsIn(q)
            BY <1>1, <2>1, <2>3 DEF RequestsIn, ToSet
        <3>2. QED
            BY <1>3, <2>1, <3>1
    <2>4. QED
        BY <1>1, <2>2, <2>3
<1>4. QED
    BY <1>2, <1>3 DEF t, RequestsIn

LEMMA SortedTail ==
    ASSUME NEW S, NEW q \in Seq(S), q # <<>>, NEW T
    PROVE  /\ RequestsIn(q)
                 = RequestsIn(Tail(q)) \cup ({Head(q)} \cap Requests)
           /\ Sorted(q, T) =>
                 /\ Sorted(Tail(q), T)
                 /\ ({Head(q)} \cap Requests) \X RequestsIn(Tail(q))
                       \subseteq T
<1> DEFINE t == Tail(q)
<1>1. /\ Len(q) \in Nat \ {0} /\ DOMAIN q = 1..Len(q)
      /\ t \in Seq(S) /\ DOMAIN t = 1..(Len(q) - 1)
      /\ \A i \in DOMAIN t : t[i] = q[i + 1]
      /\ Head(q) = q[1]
    OBVIOUS
<1> HIDE DEF t
<1>2. ToSet(q) = ToSet(t) \cup {Head(q)}
    <2>1. Head(q) \in ToSet(q) /\ ToSet(t) \subseteq ToSet(q)
        BY ElementsHead DEF t
    <2>2. ASSUME NEW y \in ToSet(q) PROVE y \in ToSet(t) \cup {Head(q)}
        <3>1. PICK i \in DOMAIN q : y = q[i]
            BY <2>2 DEF ToSet
        <3>2. i = 1 \/ (i - 1 \in DOMAIN t /\ t[i - 1] = y)
            BY <1>1, <3>1
        <3>3. QED
            BY <1>1, <3>1, <3>2 DEF ToSet
    <2>3. QED
        BY <2>1, <2>2
<1>3. ASSUME Sorted(q, T)
      PROVE  /\ Sorted(t, T)
             /\ ({Head(q)} \cap Requests) \X RequestsIn(t) \subseteq T
    <2>1. ASSUME NEW i \in DOMAIN t, NEW j \in DOMAIN t, i < j,
                 t[i] \in Requests, t[j] \in Requests
          PROVE  <<t[i], t[j]>> \in T
        <3>1. /\ i + 1 \in DOMAIN q /\ j + 1 \in DOMAIN q /\ i + 1 < j + 1
              /\ t[i] = q[i + 1] /\ t[j] = q[j + 1]
            BY <1>1, <2>1
        <3>2. QED
            BY <1>3, <2>1, <3>1 DEF Sorted
    <2>2. ASSUME NEW y \in RequestsIn(t), Head(q) \in Requests
          PROVE  <<Head(q), y>> \in T
        <3>1. PICK i \in DOMAIN t : y = t[i]
            BY <2>2 DEF RequestsIn, ToSet
        <3>2. /\ i + 1 \in DOMAIN q /\ 1 \in DOMAIN q /\ 1 < i + 1
              /\ y = q[i + 1] /\ y \in Requests
            BY <1>1, <2>2, <3>1 DEF RequestsIn
        <3>3. QED
            BY <1>1, <1>3, <2>2, <3>2 DEF Sorted
    <2>3. QED
        BY <2>1, <2>2 DEF Sorted
<1>4. QED
    BY <1>2, <1>3 DEF t, RequestsIn

LEMMA SortedCut ==
    ASSUME NEW S, NEW q \in Seq(S), NEW k \in 0..Len(q), NEW T
    PROVE  LET a == SubSeq(q, 1, k)
               b == SubSeq(q, k + 1, Len(q))
           IN  /\ a \in Seq(S) /\ b \in Seq(S)
               /\ RequestsIn(q) = RequestsIn(a) \cup RequestsIn(b)
               /\ Sorted(q, T) =>
                     /\ Sorted(a, T) /\ Sorted(b, T)
                     /\ RequestsIn(a) \X RequestsIn(b) \subseteq T
<1> DEFINE a == SubSeq(q, 1, k)
           b == SubSeq(q, k + 1, Len(q))
<1>1. /\ Len(q) \in Nat /\ k \in Nat /\ DOMAIN q = 1..Len(q) /\ k <= Len(q)
      /\ a \in Seq(S) /\ DOMAIN a = 1..k
      /\ b \in Seq(S) /\ DOMAIN b = 1..(Len(q) - k)
      /\ \A i \in DOMAIN a : a[i] = q[i]
      /\ \A i \in DOMAIN b : b[i] = q[i + k]
    OBVIOUS
<1> HIDE DEF a, b
<1>2. \A i \in DOMAIN a : i \in DOMAIN q
    BY <1>1
<1>3. \A i \in DOMAIN b : i + k \in DOMAIN q
    BY <1>1
<1>4. ToSet(q) = ToSet(a) \cup ToSet(b)
    <2>1. ASSUME NEW y \in ToSet(q) PROVE y \in ToSet(a) \cup ToSet(b)
        <3>1. PICK i \in DOMAIN q : y = q[i]
            BY <2>1 DEF ToSet
        <3>2. \/ i \in DOMAIN a /\ a[i] = y
              \/ i - k \in DOMAIN b /\ b[i - k] = y
            BY <1>1, <3>1
        <3>3. QED
            BY <3>2 DEF ToSet
    <2>2. QED
        BY <1>1, <1>2, <1>3, <2>1 DEF ToSet
<1>5. ASSUME Sorted(q, T)
      PROVE  /\ Sorted(a, T) /\ Sorted(b, T)
             /\ RequestsIn(a) \X RequestsIn(b) \subseteq T
    <2>1. Sorted(a, T)
        BY <1>1, <1>2, <1>5 DEF Sorted
    <2>2. ASSUME NEW i \in DOMAIN b, NEW j \in DOMAIN b, i < j,
                 b[i] \in Requests, b[j] \in Requests
          PROVE  <<b[i], b[j]>> \in T
        <3>1. /\ i + k \in DOMAIN q /\ j + k \in DOMAIN q /\ i + k < j + k
              /\ b[i] = q[i + k] /\ b[j] = q[j + k]
            BY <1>1, <1>3, <2>2
        <3>2. QED
            BY <1>5, <2>2, <3>1 DEF Sorted
    <2>3. ASSUME NEW x \in RequestsIn(a), NEW y \in RequestsIn(b)
          PROVE  <<x, y>> \in T
        <3>1. PICK i \in DOMAIN a : x = a[i]
            BY DEF RequestsIn, ToSet
        <3>2. PICK j \in DOMAIN b : y = b[j]
            BY DEF RequestsIn, ToSet
        <3>3. /\ i \in DOMAIN q /\ j + k \in DOMAIN q /\ i < j + k
              /\ x = q[i] /\ y = q[j + k] /\ x \in Requests /\ y \in Requests
            BY <1>1, <1>2, <1>3, <3>1, <3>2 DEF RequestsIn
        <3>4. QED
            BY <1>5, <3>3 DEF Sorted
    <2>4. QED
        BY <2>1, <2>2, <2>3 DEF Sorted
<1>6. QED
    BY <1>1, <1>4, <1>5 DEF a, b, RequestsIn

LEMMA SortedConcat ==
    ASSUME NEW S, NEW a \in Seq(S), NEW b \in Seq(S), NEW T
    PROVE  /\ a \o b \in Seq(S)
           /\ RequestsIn(a \o b) = RequestsIn(a) \cup RequestsIn(b)
           /\ Sorted(a \o b, T) <=>
                 /\ Sorted(a, T) /\ Sorted(b, T)
                 /\ RequestsIn(a) \X RequestsIn(b) \subseteq T
<1> DEFINE q == a \o b
           k == Len(a)
<1>1. /\ Len(b) \in Nat /\ k \in Nat /\ DOMAIN q = 1..(k + Len(b))
      /\ q \in Seq(S) /\ DOMAIN a = 1..k
      /\ DOMAIN b = 1..Len(b)
      /\ \A i \in DOMAIN a : q[i] = a[i]
      /\ \A i \in DOMAIN b : q[i + k] = b[i]
    OBVIOUS
<1> HIDE DEF q, k
<1>2. \A i \in DOMAIN a : i \in DOMAIN q
    BY <1>1
<1>3. \A i \in DOMAIN b : i + k \in DOMAIN q
    BY <1>1
<1>4. \A i \in DOMAIN q :
         i \in DOMAIN a \/ (i - k \in DOMAIN b /\ q[i] = b[i - k])
    BY <1>1
<1>5. ToSet(q) = ToSet(a) \cup ToSet(b)
    BY <1>1, <1>2, <1>3, <1>4 DEF ToSet
<1>6. ASSUME Sorted(q, T)
      PROVE  /\ Sorted(a, T) /\ Sorted(b, T)
             /\ RequestsIn(a) \X RequestsIn(b) \subseteq T
    <2>1. Sorted(a, T)
        BY <1>1, <1>2, <1>6 DEF Sorted
    <2>2. ASSUME NEW i \in DOMAIN b, NEW j \in DOMAIN b, i < j,
                 b[i] \in Requests, b[j] \in Requests
          PROVE  <<b[i], b[j]>> \in T
        <3>1. /\ i + k \in DOMAIN q /\ j + k \in DOMAIN q /\ i + k < j + k
              /\ b[i] = q[i + k] /\ b[j] = q[j + k]
            BY <1>1, <1>3, <2>2
        <3>2. QED
            BY <1>6, <2>2, <3>1 DEF Sorted
    <2>3. ASSUME NEW x \in RequestsIn(a), NEW y \in RequestsIn(b)
          PROVE  <<x, y>> \in T
        <3>1. PICK i \in DOMAIN a : x = a[i]
            BY DEF RequestsIn, ToSet
        <3>2. PICK j \in DOMAIN b : y = b[j]
            BY DEF RequestsIn, ToSet
        <3>3. /\ i \in DOMAIN q /\ j + k \in DOMAIN q /\ i < j + k
              /\ x = q[i] /\ y = q[j + k] /\ x \in Requests /\ y \in Requests
            BY <1>1, <1>2, <1>3, <3>1, <3>2 DEF RequestsIn
        <3>4. QED
            BY <1>6, <3>3 DEF Sorted
    <2>4. QED
        BY <2>1, <2>2, <2>3 DEF Sorted
<1>7. ASSUME Sorted(a, T), Sorted(b, T),
             RequestsIn(a) \X RequestsIn(b) \subseteq T
      PROVE  Sorted(q, T)
    <2> SUFFICES ASSUME NEW i \in DOMAIN q, NEW j \in DOMAIN q, i < j,
                        q[i] \in Requests, q[j] \in Requests
                 PROVE  <<q[i], q[j]>> \in T
        BY DEF Sorted
    <2>1. CASE i \in DOMAIN a /\ j \in DOMAIN a
        BY <1>1, <1>7, <2>1 DEF Sorted
    <2>2. CASE i \in DOMAIN a /\ j \notin DOMAIN a
        <3>1. q[i] = a[i] /\ j - k \in DOMAIN b /\ q[j] = b[j - k]
            BY <1>1, <1>4, <2>2
        <3>2. q[i] \in RequestsIn(a) /\ q[j] \in RequestsIn(b)
            BY <2>2, <3>1 DEF RequestsIn, ToSet
        <3>3. QED
            BY <1>7, <3>2
    <2>3. CASE i \notin DOMAIN a
        <3>1. /\ i - k \in DOMAIN b /\ q[i] = b[i - k]
              /\ j - k \in DOMAIN b /\ q[j] = b[j - k] /\ i - k < j - k
            BY <1>1, <1>4, <2>3
        <3>2. QED
            BY <1>7, <3>1 DEF Sorted
    <2>4. QED
        BY <2>1, <2>2, <2>3
<1>8. QED
    BY <1>1, <1>5, <1>6, <1>7 DEF q, RequestsIn

(* A list of records and the list of their xids. *)
LEMMA Xids ==
    ASSUME NEW S, NEW X, NEW q \in Seq(S), \A m \in S : m.xid \in X
    PROVE  /\ XidsOf(q) \in Seq(X)
           /\ \A m \in S : XidsOf(Append(q, m)) = Append(XidsOf(q), m.xid)
           /\ q # <<>> => /\ XidsOf(q) # <<>>
                          /\ Head(XidsOf(q)) = Head(q).xid
                          /\ XidsOf(Tail(q)) = Tail(XidsOf(q))
           /\ \A k \in 0..Len(q) :
                 XidsOf(SubSeq(q, 1, k)) = SubSeq(XidsOf(q), 1, k)
<1>1. /\ Len(q) \in Nat /\ DOMAIN q = 1..Len(q)
      /\ \A i \in DOMAIN q : q[i] \in S
    OBVIOUS
<1>2. XidsOf(q) \in Seq(X) /\ Len(XidsOf(q)) = Len(q)
    BY <1>1, IsASeq DEF XidsOf
<1>3. ASSUME NEW m \in S
      PROVE  XidsOf(Append(q, m)) = Append(XidsOf(q), m.xid)
    <2> DEFINE a == XidsOf(Append(q, m))
               b == Append(XidsOf(q), m.xid)
    <2>1. Append(q, m) \in Seq(S) /\ Len(Append(q, m)) = Len(q) + 1
        OBVIOUS
    <2>2. a \in Seq(X) /\ Len(a) = Len(q) + 1
        <3>1. \A i \in 1..(Len(q) + 1) : Append(q, m)[i] \in S
            BY <2>1
        <3>2. DOMAIN Append(q, m) = 1..(Len(q) + 1) /\ Len(q) + 1 \in Nat
            BY <1>1, <2>1
        <3>3. QED
            BY <3>1, <3>2, IsASeq DEF XidsOf
    <2>3. b \in Seq(X) /\ Len(b) = Len(q) + 1
        BY <1>2
    <2>4. \A i \in 1..(Len(q) + 1) : a[i] = b[i]
        BY <1>1, <1>2 DEF XidsOf
    <2>5. QED
        BY <2>2, <2>3, <2>4, SeqEqual
<1>4. ASSUME q # <<>>
      PROVE  /\ XidsOf(q) # <<>> /\ Head(XidsOf(q)) = Head(q).xid
             /\ XidsOf(Tail(q)) = Tail(XidsOf(q))
    <2> DEFINE a == XidsOf(Tail(q))
               b == Tail(XidsOf(q))
    <2>1. Tail(q) \in Seq(S) /\ Len(Tail(q)) = Len(q) - 1 /\ Len(q) - 1 \in Nat
        BY <1>1, <1>4
    <2>2. a \in Seq(X) /\ Len(a) = Len(q) - 1
        <3>1. \A i \in 1..(Len(q) - 1) : Tail(q)[i] \in S
            BY <2>1
        <3>2. DOMAIN Tail(q) = 1..(Len(q) - 1)
            BY <2>1
        <3>3. QED
            BY <2>1, <3>1, <3>2, IsASeq DEF XidsOf
    <2>3. XidsOf(q) # <<>>
        BY <1>2, <1>4
    <2>4. b \in Seq(X) /\ Len(b) = Len(q) - 1
        BY <1>2, <2>3
    <2>5. \A i \in 1..(Len(q) - 1) : a[i] = b[i]
        BY <1>1, <1>2, <1>4 DEF XidsOf
    <2>6. Head(XidsOf(q)) = Head(q).xid
        BY <1>1, <1>2, <1>4, <2>3 DEF XidsOf
    <2>7. a = b
        BY <2>2, <2>4, <2>5, SeqEqual
    <2>8. QED
        BY <2>3, <2>6, <2>7
<1>5. ASSUME NEW k \in 0..Len(q)
      PROVE  XidsOf(SubSeq(q, 1, k)) = SubSeq(XidsOf(q), 1, k)
    <2> DEFINE a == XidsOf(SubSeq(q, 1, k))
               b == SubSeq(XidsOf(q), 1, k)
    <2>1. SubSeq(q, 1, k) \in Seq(S) /\ Len(SubSeq(q, 1, k)) = k /\ k \in Nat
        BY <1>1
    <2>2. a \in Seq(X) /\ Len(a) = k
        <3>1. \A i \in 1..k : SubSeq(q, 1, k)[i] \in S
            BY <2>1
        <3>2. DOMAIN SubSeq(q, 1, k) = 1..k
            BY <2>1
        <3>3. QED
            BY <2>1, <3>1, <3>2, IsASeq DEF XidsOf
    <2>3. b \in Seq(X) /\ Len(b) = k
        BY <1>1, <1>2
    <2>4. \A i \in 1..k : a[i] = b[i]
        BY <1>1, <1>2 DEF XidsOf
    <2>5. QED
        BY <2>2, <2>3, <2>4, SeqEqual
<1>6. QED
    BY <1>2, <1>3, <1>4, <1>5

Different == {p \in Requests \X Requests : p[1] # p[2]}

LEMMA Counting ==
    ASSUME NEW S, NEW q \in Seq(S), Sorted(q, Different), NEW r \in Requests
    PROVE  Occurrences(q, r) = IF r \in RequestsIn(q) THEN 1 ELSE 0
<1> DEFINE at == {i \in DOMAIN q : q[i] = r}
<1>1. DOMAIN q = 1..Len(q) /\ Len(q) \in Nat
    OBVIOUS
<1>2. CASE r \notin RequestsIn(q)
    <2>1. at = {}
        BY <1>2 DEF RequestsIn, ToSet
    <2>2. QED
        BY <1>2, <2>1, FS_EmptySet DEF Occurrences
<1>3. CASE r \in RequestsIn(q)
    <2>1. PICK i \in DOMAIN q : q[i] = r
        BY <1>3 DEF RequestsIn, ToSet
    <2>2. ASSUME NEW j \in DOMAIN q, q[j] = r, j # i PROVE FALSE
        <3>1. i < j \/ j < i
            BY <1>1, <2>2
        <3>2. <<r, r>> \in Different
            BY <2>1, <2>2, <3>1 DEF Sorted
        <3>3. QED
            BY <3>2 DEF Different
    <2>3. at = {i}
        BY <2>1, <2>2
    <2>4. QED
        BY <1>3, <2>3, FS_Singleton DEF Occurrences
<1>4. QED
    BY <1>2, <1>3

-----------------------------------------------------------------------------
(* The order of acceptance.  A request is accepted once. *)
Accepted == {r \in Requests : pc[r] \notin {"idle", "checked", "rejected"}}

IssuedOnce ==
    /\ issued \in Seq(Requests)
    /\ \A i, j \in DOMAIN issued : issued[i] = issued[j] => i = j
    /\ ToSet(issued) = Accepted

LEMMA EarlierFacts ==
    ASSUME IssuedOnce
    PROVE  /\ Earlier \subseteq Different
           /\ Earlier \subseteq Accepted \X Accepted
           /\ \A x, y \in Requests :
                 ~(<<x, y>> \in Earlier /\ <<y, x>> \in Earlier)
<1>1. /\ Len(issued) \in Nat /\ DOMAIN issued = 1..Len(issued)
      /\ \A i \in DOMAIN issued : issued[i] \in Accepted
    BY DEF IssuedOnce, ToSet
<1>2. ASSUME NEW x \in Requests, NEW y \in Requests, <<x, y>> \in Earlier
      PROVE  \E i, j \in DOMAIN issued :
                i < j /\ issued[i] = x /\ issued[j] = y
    BY <1>2 DEF Earlier
<1>3. ASSUME NEW x \in Requests, NEW y \in Requests, <<x, y>> \in Earlier
      PROVE  /\ x # y /\ x \in Accepted /\ y \in Accepted
             /\ <<y, x>> \notin Earlier
    <2>1. PICK i, j \in DOMAIN issued : i < j /\ issued[i] = x /\ issued[j] = y
        BY <1>2, <1>3
    <2>2. x # y
        BY <1>1, <2>1 DEF IssuedOnce
    <2>3. ASSUME <<y, x>> \in Earlier PROVE FALSE
        <3>1. PICK k, l \in DOMAIN issued :
                 k < l /\ issued[k] = y /\ issued[l] = x
            BY <1>2, <2>3
        <3>2. k = j /\ l = i
            BY <2>1, <3>1 DEF IssuedOnce
        <3>3. QED
            BY <1>1, <2>1, <3>1, <3>2
    <2>4. QED
        BY <1>1, <2>1, <2>2, <2>3
<1>4. ASSUME NEW p \in Earlier
      PROVE  p \in Different /\ p \in Accepted \X Accepted
    <2>1. PICK x \in Requests, y \in Requests : p = <<x, y>>
        BY DEF Earlier
    <2>2. x # y /\ x \in Accepted /\ y \in Accepted
        BY <1>3, <2>1
    <2>3. QED
        BY <2>1, <2>2 DEF Different
<1>5. QED
    BY <1>3, <1>4

(* A request that is accepted comes after all others. *)
LEMMA IssueLast ==
    ASSUME IssuedOnce, NEW r \in Requests, issued' = Append(issued, r)
    PROVE  /\ Earlier \subseteq Earlier'
           /\ Accepted \X {r} \subseteq Earlier'
<1>1. /\ Len(issued) \in Nat /\ DOMAIN issued = 1..Len(issued)
      /\ DOMAIN issued' = 1..(Len(issued) + 1)
      /\ \A i \in DOMAIN issued : issued'[i] = issued[i]
      /\ issued'[Len(issued) + 1] = r
    BY DEF IssuedOnce
<1>2. ASSUME NEW p \in Earlier PROVE p \in Earlier'
    <2>1. PICK i, j \in DOMAIN issued :
             i < j /\ issued[i] = p[1] /\ issued[j] = p[2]
        BY <1>2 DEF Earlier
    <2>2. /\ i \in DOMAIN issued' /\ j \in DOMAIN issued' /\ i < j
          /\ issued'[i] = p[1] /\ issued'[j] = p[2]
        BY <1>1, <2>1
    <2>3. p \in Requests \X Requests
        BY <1>2 DEF Earlier
    <2>4. QED
        BY <2>2, <2>3 DEF Earlier
<1>3. ASSUME NEW x \in Accepted PROVE <<x, r>> \in Earlier'
    <2>1. PICK i \in DOMAIN issued : issued[i] = x
        BY <1>3 DEF IssuedOnce, ToSet
    <2>2. /\ i \in DOMAIN issued' /\ Len(issued) + 1 \in DOMAIN issued'
          /\ i < Len(issued) + 1
          /\ issued'[i] = x /\ issued'[Len(issued) + 1] = r
        BY <1>1, <2>1
    <2>3. <<x, r>> \in Requests \X Requests
        BY DEF Accepted
    <2>4. QED
        BY <2>2, <2>3 DEF Earlier
<1>4. QED
    BY <1>2, <1>3

-----------------------------------------------------------------------------
(* Who holds zh_lock, and what that means: the list of free_completions is *)
(* worked through under it, except by the last api_epilog.                 *)
LockInv ==
    /\ critical = "io" <=> ioPc = "fail"
    /\ critical = "closer" <=> closerPc = "fail"
    /\ \A r \in Requests : critical = r <=> pc[r] = "added"
    /\ doomed # <<>> => ioPc = "fail" \/ closerPc \in {"fail", "free"}
    /\ closeRequested <=> closerPc # "open"

LEMMA LockStep ==
    ASSUME TypeOK, ConnectionInv, LockInv, [Next]_vars
    PROVE  LockInv'
<1> CallTypes /\ QueueTypes /\ ThreadTypes
    BY DEF TypeOK
<1>a. "io" \notin Requests /\ "closer" \notin Requests /\ NoOne \notin Requests
      /\ NoOne # "io" /\ NoOne # "closer"
    BY RequestsAssumption DEF NoOne
<1>1. ASSUME UNCHANGED <<pc, critical, closerPc, closeRequested, doomed>>,
             ioPc # "fail", ioPc' # "fail"
      PROVE  LockInv'
    BY <1>1 DEF LockInv
<1>2. ASSUME UNCHANGED <<pc, critical, closerPc, closeRequested, doomed, ioPc>>
      PROVE  LockInv'
    BY <1>2 DEF LockInv
<1>3. CASE UNCHANGED vars
    BY <1>2, <1>3 DEF vars, callVars, queueVars, ioVars, closeVars
<1>4. ASSUME NEW r \in Requests, CallStep(r) PROVE LockInv'
    <2>1. CASE Check(r) \/ SendQueue(r) \/ WaitSync(r)
        <3>1. /\ pc[r] # "added" /\ pc'[r] # "added"
              /\ \A q \in Requests : q # r => pc'[q] = pc[q]
              /\ UNCHANGED <<critical, closerPc, closeRequested, doomed, ioPc>>
            BY <2>1 DEF Check, SendQueue, WaitSync, callVars, queueVars,
                        ioVars, closeVars, CallTypes
        <3>2. QED
            BY <3>1 DEF LockInv
    <2>2. CASE AddCompletion(r)
        <3>1. /\ pc[r] = "checked" /\ critical = NoOne
              /\ \A q \in Requests : q # r => pc'[q] = pc[q]
              /\ UNCHANGED <<closerPc, closeRequested, doomed, ioPc>>
              /\ \/ critical' = r /\ pc'[r] = "added"
                 \/ critical' = NoOne /\ pc'[r] = "rejected"
            BY <2>2 DEF AddCompletion, ioVars, closeVars, CallTypes
        <3>2. QED
            BY <1>a, <3>1 DEF LockInv
    <2>3. CASE QueueBuffer(r)
        <3>1. /\ pc[r] = "added" /\ critical' = NoOne /\ pc'[r] = "queued"
              /\ \A q \in Requests : q # r => pc'[q] = pc[q]
              /\ UNCHANGED <<closerPc, closeRequested, doomed, ioPc>>
            BY <2>3 DEF QueueBuffer, ioVars, closeVars, CallTypes
        <3>2. QED
            BY <1>a, <3>1 DEF LockInv
    <2>4. QED
        BY <1>4, <2>1, <2>2, <2>3 DEF CallStep
<1>5. CASE IoCleanup \/ IoReset
    <2>1. /\ UNCHANGED <<pc, closerPc, closeRequested>>
          /\ \/ critical = NoOne /\ critical' = "io" /\ ioPc' = "fail"
             \/ /\ critical = "io" /\ critical' = NoOne /\ ioPc' = "loop"
                /\ doomed' = <<>>
        BY <1>5 DEF IoCleanup, IoReset, LockInv, closeVars, queueVars
    <2>2. QED
        BY <1>a, <2>1 DEF LockInv
<1>6. CASE IoFailOne \/ CloseFailOne
    <2>1. /\ doomed # <<>>
          /\ UNCHANGED <<pc, critical, closerPc, closeRequested, ioPc>>
        BY <1>6 DEF IoFailOne, CloseFailOne, FailOne, callVars, ioVars,
                    closeVars
    <2>2. QED
        BY <2>1 DEF LockInv
<1>7. CASE IoExit \/ IoWrap \/ IoInterest \/ IoWake \/ IoRead \/ IoNothing
              \/ IoDispatchReply \/ IoComplete
    BY <1>1, <1>7 DEF IoExit, IoWrap, IoInterest, IoWake, IoRead, IoNothing,
                      IoDispatchReply, IoComplete, IoLoop, callVars,
                      closeVars, queueVars, ioVars
<1>8. CASE IoConnect \/ IoTimeout \/ IoConnected \/ IoFlush \/ IoHandshake
              \/ IoReadError \/ IoDispatchReserved \/ IoMismatch
    BY <1>1, <1>8 DEF IoConnect, IoTimeout, IoConnected, IoFlush, IoHandshake,
                      IoReadError, IoDispatchReserved, IoMismatch, IoLoop,
                      handle_error, callVars, closeVars
<1>9. CASE CtStep
    BY <1>2, <1>9 DEF CtStep, CtLoop, CtWake, CtCallback, CtCallbackEnds,
                      CtDrained, callVars, queueVars, ioVars, closeVars
<1>10. CASE CloseRequest \/ ClosePurge \/ CloseWakeIo \/ CloseJoinIo
               \/ CloseJoinCt
    BY <1>10, <1>a DEF CloseRequest, Announce, ClosePurge, CloseWakeIo,
                       CloseJoinIo, CloseJoinCt, LockInv, callVars, queueVars,
                       ioVars
<1>11. CASE CloseDestroy \/ CloseFree
    BY <1>11, <1>a DEF CloseDestroy, CloseFree, LockInv, callVars, queueVars,
                       ioVars
<1>12. CASE ServerHandshake \/ ServerAnswer \/ ServerReorder \/ ServerEvent
               \/ NetBreak
    BY <1>2, <1>12 DEF ServerHandshake, ServerAnswer, ServerReorder,
                       ServerEvent, NetBreak, callVars, queueVars, ioVars,
                       closeVars
<1>13. QED
    BY <1>3, <1>4, <1>5, <1>6, <1>7, <1>8, <1>9, <1>10, <1>11, <1>12,
       NextCases DEF CallStep
-----------------------------------------------------------------------------
(* The places a request can be in. *)
Held       == {ioHeld} \cap Requests
Doomed     == RequestsIn(doomed)
Waiting    == RequestsIn(sentRequests)
Completing == RequestsIn(XidsOf(completions))
Told       == {r \in Requests : result[r] # NoOne}

(* What a step can do to them: the case split of the proofs below. *)
News ==
    \/ completions' = completions
    \/ \E c \in Completion :
          c.xid \notin Requests /\ completions' = Append(completions, c)

Elsewhere == UNCHANGED <<issued, called, result, Accepted>>

Stay   == News /\ Elsewhere /\ UNCHANGED <<ioHeld, doomed, sentRequests>>

Accept(r) ==
    /\ pc[r] = "checked" /\ Accepted' = Accepted \cup {r} /\ ~closeRequested
    /\ issued' = Append(issued, r) /\ sentRequests' = Append(sentRequests, r)
    /\ UNCHANGED <<ioHeld, doomed, completions, result, called>>

Take ==
    /\ TakeSentRequests /\ doomed = <<>>
    /\ Elsewhere /\ UNCHANGED <<ioHeld, completions>>

Fail(rc) ==
    /\ FailOne(rc)
    /\ closeRequested \/ ioPc = "fail"
    /\ UNCHANGED <<issued, called, Accepted, ioHeld, sentRequests>>

Hold ==
    /\ ioHeld \notin Requests /\ ioPc = "dispatch"
    /\ sentRequests # <<>>
    /\ ioHeld' = Head(sentRequests) /\ sentRequests' = Tail(sentRequests)
    /\ Elsewhere /\ UNCHANGED <<doomed, completions>>

Complete ==
    /\ ioHeld \in Requests /\ ioHeld' = NoOne
    /\ \/ /\ ioHeld \in Sync
          /\ result' = [result EXCEPT ![ioHeld] = "ANSWERED"]
          /\ UNCHANGED completions
       \/ /\ ioHeld \in Async
          /\ completions' = Append(completions,
                                   [xid |-> ioHeld, rc |-> "ANSWERED"])
          /\ UNCHANGED result
    /\ UNCHANGED <<issued, called, Accepted, doomed, sentRequests>>

Return ==
    /\ ioHeld \in Requests /\ ioHeld' = NoOne /\ ioPc = "match"
    /\ PutBack
    /\ News /\ Elsewhere /\ UNCHANGED doomed

CallBack ==
    /\ completions # <<>> /\ completions' = Tail(completions)
    /\ LET c == Head(completions)
       IN  IF c.xid \in Requests
           THEN /\ result' = [result EXCEPT ![c.xid] = c.rc]
                /\ called' = Append(called, c.xid)
           ELSE UNCHANGED <<result, called>>
    /\ UNCHANGED <<issued, Accepted, ioHeld, doomed, sentRequests>>

LEMMA PlaceCases ==
    ASSUME TypeOK, ConnectionInv, LockInv, [Next]_vars
    PROVE  \/ Stay \/ Take \/ Hold \/ Complete \/ Return \/ CallBack
           \/ \E r \in Requests : Accept(r)
           \/ \E rc \in Errors : Fail(rc)
<1> /\ CallTypes /\ ConnTypes /\ QueueTypes /\ ThreadTypes
    BY DEF TypeOK
<1>a. {"connect", "event", "session", NoOne} \cap Requests = {}
    BY RequestsAssumption DEF Reserved, NoOne
<1>1. ASSUME UNCHANGED pc PROVE Accepted' = Accepted
    BY <1>1 DEF Accepted
<1>2. ASSUME UNCHANGED <<pc, completions, issued, called, result, ioHeld,
                         doomed, sentRequests>>
      PROVE  Stay
    BY <1>1, <1>2 DEF Stay, News, Elsewhere
<1>3. ASSUME NEW rc, NEW st \in States, handle_error(rc, st) PROVE News
    <2>1. CASE completions' = completions
        BY <2>1 DEF News
    <2>2. CASE completions' = SessionEvent(completions, LossEvent(st))
               /\ LossEvent(st) # NoOne
        <3> DEFINE c == [xid |-> "session", rc |-> LossEvent(st)]
        <3>1. LossEvent(st) \in States
            BY <2>2 DEF LossEvent, States, Unrecoverable
        <3>2. c \in Completion /\ c.xid \notin Requests
            BY <1>a, <3>1, PacketTypes
        <3>3. QED
            BY <2>2, <3>2 DEF News, SessionEvent
    <2>3. QED
        BY <1>3, <2>1, <2>2 DEF handle_error
<1>4. state \in States /\ {"EXPIRED", "AUTH_FAILED"} \subseteq States
    BY DEF ConnTypes, States, Unrecoverable
<1>5. CASE UNCHANGED vars
    BY <1>2, <1>5 DEF vars, callVars, queueVars, ioVars, history
<1>6. ASSUME NEW r \in Requests, CallStep(r)
      PROVE  Stay \/ Accept(r)
    <2>1. CASE Check(r) \/ QueueBuffer(r) \/ SendQueue(r) \/ WaitSync(r)
        <3>1. /\ UNCHANGED <<completions, issued, called, result, ioHeld,
                             doomed, sentRequests>>
              /\ \A q \in Requests : q # r => pc'[q] = pc[q]
              /\ pc[r] \in {"idle", "checked", "rejected"}
                    <=> pc'[r] \in {"idle", "checked", "rejected"}
            BY <2>1 DEF Check, QueueBuffer, SendQueue, WaitSync, queueVars,
                        ioVars, history, CallTypes
        <3>2. Accepted' = Accepted
            BY <3>1 DEF Accepted
        <3>3. QED
            BY <3>1, <3>2 DEF Stay, News, Elsewhere
    <2>2. CASE AddCompletion(r)
        <3>1. /\ UNCHANGED <<completions, called, result, ioHeld, doomed>>
              /\ \A q \in Requests : q # r => pc'[q] = pc[q]
              /\ pc[r] = "checked"
              /\ \/ /\ pc'[r] = "added" /\ issued' = Append(issued, r)
                    /\ sentRequests' = Append(sentRequests, r)
                    /\ ~closeRequested
                 \/ /\ pc'[r] = "rejected"
                    /\ UNCHANGED <<issued, sentRequests>>
            BY <2>2 DEF AddCompletion, Accepting, ioVars, CallTypes
        <3>2. CASE pc'[r] = "added"
            <4>1. Accepted' = Accepted \cup {r}
                BY <3>1, <3>2 DEF Accepted
            <4>2. QED
                BY <3>1, <3>2, <4>1 DEF Accept
        <3>3. CASE pc'[r] = "rejected"
            <4>1. Accepted' = Accepted
                BY <3>1, <3>3 DEF Accepted
            <4>2. QED
                BY <3>1, <3>3, <4>1 DEF Stay, News, Elsewhere
        <3>4. QED
            BY <3>1, <3>2, <3>3
    <2>3. QED
        BY <1>6, <2>1, <2>2 DEF CallStep
<1>7. CASE IoCleanup \/ ClosePurge \/ CloseDestroy
    <2>1. doomed = <<>>
        BY <1>7, <1>a DEF IoCleanup, ClosePurge, CloseDestroy, LockInv,
                          ConnectionInv, IoJoined, NoOne
    <2>2. QED
        BY <1>1, <1>7, <2>1 DEF IoCleanup, ClosePurge, CloseDestroy, callVars,
                                ioVars, history, Take, Elsewhere
<1>8. CASE IoFailOne \/ CloseFailOne
    <2>1. ioRc \in Errors /\ "ZCLOSING" \in Errors
        BY ErrorCodes DEF ThreadTypes
    <2>2. CASE IoFailOne
        <3>1. Fail(ioRc)
            BY <1>1, <2>2 DEF IoFailOne, callVars, ioVars, history, Fail
        <3>2. QED
            BY <2>1, <3>1
    <2>3. CASE CloseFailOne
        <3>1. Fail("ZCLOSING")
            BY <1>1, <2>3 DEF CloseFailOne, LockInv, callVars, ioVars, history,
                              Fail
        <3>2. QED
            BY <2>1, <3>1
    <2>4. QED
        BY <1>8, <2>2, <2>3
<1>9. CASE IoReset \/ IoExit \/ IoWrap \/ IoInterest \/ IoWake \/ IoRead
              \/ IoNothing
    BY <1>2, <1>9 DEF IoReset, IoExit, IoWrap, IoInterest, IoWake, IoRead,
                      IoNothing, callVars, queueVars, ioVars, history
<1>10. CASE IoConnect \/ IoTimeout \/ IoConnected \/ IoFlush \/ IoReadError
    <2>1. /\ UNCHANGED <<pc, issued, called, result, ioHeld, doomed,
                         sentRequests>>
          /\ \/ completions' = completions
             \/ \E rc \in Errors : handle_error(rc, state)
        BY <1>10, ErrorCodes
           DEF IoConnect, IoTimeout, IoConnected, IoFlush, IoReadError,
               callVars
    <2>2. News
        BY <1>3, <1>4, <2>1 DEF News
    <2>3. QED
        BY <1>1, <2>1, <2>2 DEF Stay, Elsewhere
<1>11. CASE IoHandshake
    <2>1. UNCHANGED <<pc, issued, called, result, ioHeld, doomed,
                      sentRequests>>
        BY <1>11 DEF IoHandshake, callVars
    <2>2. CASE completions' = SessionEvent(completions, "CONNECTED")
        <3>1. [xid |-> "session", rc |-> "CONNECTED"] \in Completion
            BY PacketTypes, ErrorCodes
        <3>2. [xid |-> "session", rc |-> "CONNECTED"].xid \notin Requests
            BY <1>a
        <3>3. QED
            BY <1>1, <2>1, <2>2, <3>1, <3>2
               DEF SessionEvent, Stay, News, Elsewhere
    <2>3. CASE handle_error("ZSESSIONEXPIRED", "EXPIRED")
        BY <1>1, <1>3, <1>4, <2>1, <2>3 DEF Stay, Elsewhere
    <2>4. QED
        BY <1>11, <2>2, <2>3 DEF IoHandshake
<1>12. CASE IoDispatchReserved
    <2>1. UNCHANGED <<pc, issued, called, result, ioHeld, doomed,
                      sentRequests>>
        BY <1>12 DEF IoDispatchReserved, callVars
    <2>2. CASE completions' = completions
        BY <1>2, <2>1, <2>2
    <2>3. CASE completions' = Append(completions,
                                     [xid |-> "event", rc |-> "ANSWERED"])
        <3>1. [xid |-> "event", rc |-> "ANSWERED"].xid \notin Requests
            BY <1>a
        <3>2. QED
            BY <1>1, <2>1, <2>3, <3>1, PacketTypes DEF Stay, News, Elsewhere
    <2>4. CASE handle_error("ZAUTHFAILED", "AUTH_FAILED")
        BY <1>1, <1>3, <1>4, <2>1, <2>4 DEF Stay, Elsewhere
    <2>5. QED
        BY <1>12, <2>2, <2>3, <2>4 DEF IoDispatchReserved
<1>13. CASE IoDispatchReply
    <2>1. ioHeld \notin Requests
        BY <1>13, <1>a DEF IoDispatchReply, ThreadTypes
    <2>2. CASE sentRequests = <<>>
        BY <1>2, <1>13, <2>2 DEF IoDispatchReply, callVars, history
    <2>3. CASE sentRequests # <<>>
        BY <1>1, <1>13, <2>1, <2>3
           DEF IoDispatchReply, callVars, history, Hold, Elsewhere
    <2>4. QED
        BY <2>2, <2>3
<1>14. CASE IoComplete
    BY <1>1, <1>14 DEF IoComplete, ThreadTypes, callVars, history, Complete
<1>15. CASE IoMismatch
    BY <1>1, <1>3, <1>4, <1>15
       DEF IoMismatch, ThreadTypes, callVars, Return, Elsewhere
<1>16. CASE CtLoop \/ CtWake \/ CtCallbackEnds \/ CtDrained
    BY <1>2, <1>16 DEF CtLoop, CtWake, CtCallbackEnds, CtDrained, callVars,
                       queueVars, ioVars, history
<1>17. CASE CtCallback
    BY <1>1, <1>17 DEF CtCallback, callVars, ioVars, CallBack
<1>18. CASE CloseRequest \/ CloseWakeIo \/ CloseJoinIo \/ CloseJoinCt
               \/ CloseFree
    BY <1>2, <1>18 DEF CloseRequest, CloseWakeIo, CloseJoinIo, CloseJoinCt,
                       CloseFree, callVars, queueVars, ioVars, history
<1>19. CASE ServerHandshake \/ ServerAnswer \/ ServerReorder \/ ServerEvent
               \/ NetBreak
    BY <1>2, <1>19 DEF ServerHandshake, ServerAnswer, ServerReorder,
                       ServerEvent, NetBreak, callVars, queueVars, ioVars,
                       history
<1>20. QED
    BY <1>5, <1>6, <1>7, <1>8, <1>9, <1>10, <1>11, <1>12, <1>13, <1>14, <1>15,
       <1>16, <1>17, <1>18, <1>19, NextCases DEF CallStep, CtStep
-----------------------------------------------------------------------------
(* What each of these steps does to the places, T being any order. *)
Names == Requests \cup {"session", "event"}

LEMMA CompletionNames ==
    ASSUME TypeOK
    PROVE  /\ completions \in Seq(Completion)
           /\ XidsOf(completions) \in Seq(Names)
           /\ \A c \in Completion : c.xid \in Names
           /\ \A c \in Completion : XidsOf(Append(completions, c))
                                       = Append(XidsOf(completions), c.xid)
           /\ completions # <<>> =>
                 /\ Head(completions) \in Completion
                 /\ XidsOf(completions) # <<>>
                 /\ Head(XidsOf(completions)) = Head(completions).xid
                 /\ XidsOf(Tail(completions)) = Tail(XidsOf(completions))
<1>1. \A c \in Completion : c.xid \in Names
    BY DEF Completion, Names
<1>2. completions \in Seq(Completion)
    BY DEF TypeOK, QueueTypes
<1>3. completions # <<>> => Head(completions) \in Completion
    BY <1>2
<1>4. QED
    BY <1>1, <1>2, <1>3, Xids

LEMMA SortedOne ==
    ASSUME NEW x, NEW T
    PROVE  Sorted(<<x>>, T) /\ RequestsIn(<<x>>) = {x} \cap Requests
BY DEF Sorted, RequestsIn, ToSet

(* An entry appended to completions_to_process. *)
LEMMA QueueCompletion ==
    ASSUME TypeOK, NEW c \in Completion, NEW T,
           completions' = Append(completions, c)
    PROVE  /\ Completing' = Completing \cup ({c.xid} \cap Requests)
           /\ Sorted(XidsOf(completions), T)
                /\ Completing \X ({c.xid} \cap Requests) \subseteq T
                => Sorted(XidsOf(completions'), T)
<1>1. XidsOf(completions') = Append(XidsOf(completions), c.xid)
    BY CompletionNames
<1>2. c.xid \in Names /\ XidsOf(completions) \in Seq(Names)
    BY CompletionNames
<1>3. QED
    BY <1>1, <1>2, SortedAppend DEF Completing

LEMMA NewsPlaces ==
    ASSUME TypeOK, News, NEW T
    PROVE  /\ Completing' = Completing
           /\ Sorted(XidsOf(completions), T) => Sorted(XidsOf(completions'), T)
<1>1. CASE completions' = completions
    BY <1>1 DEF Completing
<1>2. ASSUME NEW c \in Completion, c.xid \notin Requests,
             completions' = Append(completions, c)
      PROVE  /\ Completing' = Completing
             /\ Sorted(XidsOf(completions), T)
                  => Sorted(XidsOf(completions'), T)
    <2>1. {c.xid} \cap Requests = {}
        BY <1>2
    <2>2. QED
        BY <1>2, <2>1, QueueCompletion
<1>3. QED
    BY <1>1, <1>2 DEF News

LEMMA FailPlaces ==
    ASSUME TypeOK, NEW rc \in Errors, Fail(rc), NEW T
    PROVE  LET h == Head(doomed)
           IN  /\ h \in Requests /\ Doomed = Doomed' \cup {h}
               /\ Sorted(doomed, T) =>
                     Sorted(doomed', T) /\ {h} \X Doomed' \subseteq T
               /\ \/ /\ h \in Sync /\ Told' = Told \cup {h}
                     /\ Completing' = Completing
                     /\ Sorted(XidsOf(completions), T)
                          => Sorted(XidsOf(completions'), T)
                  \/ /\ h \in Async /\ Told' = Told
                     /\ Completing' = Completing \cup {h}
                     /\ Sorted(XidsOf(completions), T)
                          /\ Completing \X {h} \subseteq T
                          => Sorted(XidsOf(completions'), T)
<1> DEFINE h == Head(doomed)
<1>1. doomed \in Seq(Requests) /\ doomed # <<>> /\ doomed' = Tail(doomed)
    BY DEF TypeOK, QueueTypes, Fail, FailOne
<1>2. h \in Requests /\ {h} \cap Requests = {h}
    BY <1>1
<1>3. /\ Doomed = Doomed' \cup {h}
      /\ Sorted(doomed, T) => Sorted(doomed', T) /\ {h} \X Doomed' \subseteq T
    BY <1>1, <1>2, SortedTail DEF Doomed
<1>4. CASE h \in Sync
    <2>1. result' = [result EXCEPT ![h] = rc] /\ completions' = completions
        BY <1>4 DEF Fail, FailOne
    <2>2. rc # NoOne
        BY DEF Errors, NoOne
    <2>3. Told' = Told \cup {h}
        BY <1>2, <2>1, <2>2 DEF Told, TypeOK, CallTypes
    <2>4. QED
        BY <1>2, <1>3, <1>4, <2>1, <2>3 DEF Completing
<1>5. CASE h \notin Sync
    <2>1. /\ completions' = Append(completions, [xid |-> h, rc |-> rc])
          /\ result' = result
        BY <1>5 DEF Fail, FailOne
    <2>2. [xid |-> h, rc |-> rc] \in Completion
        BY <1>2, PacketTypes DEF Outcomes
    <2>3. [xid |-> h, rc |-> rc].xid = h
        OBVIOUS
    <2> HIDE DEF h
    <2>4. /\ Completing' = Completing \cup {h}
          /\ Sorted(XidsOf(completions), T) /\ Completing \X {h} \subseteq T
               => Sorted(XidsOf(completions'), T)
        BY <1>2, <2>1, <2>2, <2>3, QueueCompletion
    <2>5. Told' = Told /\ h \in Async
        BY <1>2, <1>5, <2>1 DEF Told, Async
    <2>6. QED
        BY <1>2, <1>3, <2>4, <2>5 DEF h
<1>6. QED
    BY <1>4, <1>5

LEMMA HoldPlaces ==
    ASSUME TypeOK, Hold, NEW T
    PROVE  LET h == Head(sentRequests)
           IN  /\ h \in Requests /\ Held = {} /\ Held' = {h}
               /\ Waiting = Waiting' \cup {h}
               /\ Sorted(sentRequests, T) =>
                     Sorted(sentRequests', T) /\ {h} \X Waiting' \subseteq T
<1> DEFINE h == Head(sentRequests)
<1>1. /\ sentRequests \in Seq(Requests) /\ sentRequests # <<>>
      /\ sentRequests' = Tail(sentRequests) /\ ioHeld' = h
      /\ ioHeld \notin Requests
    BY DEF TypeOK, QueueTypes, Hold
<1>2. h \in Requests /\ {h} \cap Requests = {h}
    BY <1>1
<1>3. /\ Waiting = Waiting' \cup {h}
      /\ Sorted(sentRequests, T) =>
            Sorted(sentRequests', T) /\ {h} \X Waiting' \subseteq T
    BY <1>1, <1>2, SortedTail DEF Waiting
<1>4. QED
    BY <1>1, <1>2, <1>3 DEF Held

LEMMA CompletePlaces ==
    ASSUME TypeOK, Complete, NEW T
    PROVE  /\ ioHeld \in Requests /\ Held = {ioHeld} /\ Held' = {}
           /\ \/ /\ ioHeld \in Sync /\ Told' = Told \cup {ioHeld}
                 /\ Completing' = Completing
                 /\ Sorted(XidsOf(completions), T)
                      => Sorted(XidsOf(completions'), T)
              \/ /\ ioHeld \in Async /\ Told' = Told
                 /\ Completing' = Completing \cup {ioHeld}
                 /\ Sorted(XidsOf(completions), T)
                      /\ Completing \X {ioHeld} \subseteq T
                      => Sorted(XidsOf(completions'), T)
<1>1. ioHeld \in Requests /\ ioHeld' = NoOne
    BY DEF Complete
<1>2. Held = {ioHeld} /\ Held' = {} /\ {ioHeld} \cap Requests = {ioHeld}
    BY <1>1, RequestsAssumption DEF Held
<1>3. CASE /\ ioHeld \in Sync /\ completions' = completions
           /\ result' = [result EXCEPT ![ioHeld] = "ANSWERED"]
    <2>1. Told' = Told \cup {ioHeld}
        BY <1>1, <1>3 DEF Told, TypeOK, CallTypes, NoOne
    <2>2. QED
        BY <1>1, <1>2, <1>3, <2>1 DEF Completing
<1>4. CASE /\ ioHeld \in Async /\ result' = result
           /\ completions' = Append(completions,
                                    [xid |-> ioHeld, rc |-> "ANSWERED"])
    <2>1. [xid |-> ioHeld, rc |-> "ANSWERED"] \in Completion
        BY <1>1, PacketTypes DEF Outcomes
    <2>2. [xid |-> ioHeld, rc |-> "ANSWERED"].xid = ioHeld
        OBVIOUS
    <2>3. /\ Completing' = Completing \cup {ioHeld}
          /\ Sorted(XidsOf(completions), T)
               /\ Completing \X {ioHeld} \subseteq T
               => Sorted(XidsOf(completions'), T)
        BY <1>2, <1>4, <2>1, <2>2, QueueCompletion
    <2>4. QED
        BY <1>1, <1>2, <1>4, <2>3 DEF Told
<1>5. QED
    BY <1>3, <1>4 DEF Complete

LEMMA ReturnPlaces ==
    ASSUME TypeOK, Return, NEW T
    PROVE  /\ ioHeld \in Requests /\ Held = {ioHeld} /\ Held' = {}
           /\ Waiting' = Waiting \cup {ioHeld}
           /\ Sorted(sentRequests, T) /\ {ioHeld} \X Waiting \subseteq T
                => Sorted(sentRequests', T)
<1>1. /\ ioHeld \in Requests /\ ioHeld' = NoOne
      /\ sentRequests' = <<ioHeld>> \o sentRequests
    BY DEF Return, PutBack
<1>2. Held = {ioHeld} /\ Held' = {} /\ {ioHeld} \cap Requests = {ioHeld}
    BY <1>1, RequestsAssumption DEF Held
<1>3. <<ioHeld>> \in Seq(Requests) /\ sentRequests \in Seq(Requests)
    BY <1>1 DEF TypeOK, QueueTypes
<1>4. Sorted(<<ioHeld>>, T) /\ RequestsIn(<<ioHeld>>) = {ioHeld}
    BY <1>2, SortedOne
<1>5. /\ RequestsIn(sentRequests') = {ioHeld} \cup RequestsIn(sentRequests)
      /\ Sorted(sentRequests, T)
           /\ {ioHeld} \X RequestsIn(sentRequests) \subseteq T
           => Sorted(sentRequests', T)
    BY <1>1, <1>3, <1>4, SortedConcat
<1>6. QED
    BY <1>1, <1>2, <1>5 DEF Waiting

LEMMA CallBackPlaces ==
    ASSUME TypeOK, CallBack, NEW T
    PROVE  LET x == Head(completions).xid
           IN  \/ /\ x \in Requests /\ Completing = Completing' \cup {x}
                  /\ Told' = Told \cup {x}
                  /\ RequestsIn(called') = RequestsIn(called) \cup {x}
                  /\ Sorted(XidsOf(completions), T) =>
                        /\ Sorted(XidsOf(completions'), T)
                        /\ {x} \X Completing' \subseteq T
                  /\ Sorted(called, T) /\ RequestsIn(called) \X {x} \subseteq T
                        => Sorted(called', T)
               \/ /\ Completing' = Completing /\ Told' = Told
                  /\ called' = called
                  /\ Sorted(XidsOf(completions), T)
                        => Sorted(XidsOf(completions'), T)
<1> DEFINE c == Head(completions)
           x == c.xid
<1>1. completions # <<>> /\ completions' = Tail(completions)
    BY DEF CallBack
<1>2. /\ c \in Completion
      /\ XidsOf(completions) # <<>> /\ XidsOf(completions) \in Seq(Names)
      /\ Head(XidsOf(completions)) = x
      /\ XidsOf(completions') = Tail(XidsOf(completions))
    BY <1>1, CompletionNames
<1> HIDE DEF c
<1>3. /\ Completing = Completing' \cup ({x} \cap Requests)
      /\ Sorted(XidsOf(completions), T) =>
            /\ Sorted(XidsOf(completions'), T)
            /\ ({x} \cap Requests) \X Completing' \subseteq T
    BY <1>2, SortedTail DEF Completing
<1>4. CASE x \in Requests
    <2>1. /\ result' = [result EXCEPT ![x] = c.rc]
          /\ called' = Append(called, x)
        BY <1>4 DEF CallBack, c
    <2>2. c.rc # NoOne
        BY <1>2, <1>4, PacketTypes DEF Outcomes, Errors, NoOne
    <2>3. Told' = Told \cup {x}
        BY <1>4, <2>1, <2>2 DEF Told, TypeOK, CallTypes
    <2>4. {x} \cap Requests = {x}
        BY <1>4
    <2>5. called \in Seq(Requests)
        BY DEF TypeOK, HistoryTypes
    <2>6. /\ RequestsIn(called') = RequestsIn(called) \cup {x}
          /\ Sorted(called, T) /\ RequestsIn(called) \X {x} \subseteq T
               => Sorted(called', T)
        BY <1>4, <2>1, <2>4, <2>5, SortedAppend
    <2>7. QED
        BY <1>3, <1>4, <2>3, <2>4, <2>6 DEF c
<1>5. CASE x \notin Requests
    <2>1. result' = result /\ called' = called
        BY <1>5 DEF CallBack, c
    <2>2. {x} \cap Requests = {}
        BY <1>5
    <2>3. QED
        BY <1>3, <2>1, <2>2 DEF Told
<1>6. QED
    BY <1>4, <1>5

LEMMA AcceptPlaces ==
    ASSUME TypeOK, IssuedOnce, NEW r \in Requests, Accept(r)
    PROVE  /\ r \notin Accepted /\ Waiting' = Waiting \cup {r}
           /\ Earlier \subseteq Earlier' /\ Accepted \X {r} \subseteq Earlier'
           /\ Sorted(sentRequests, Earlier') /\ Waiting \subseteq Accepted
                => Sorted(sentRequests', Earlier')
           /\ UNCHANGED <<Held, Doomed, Completing, Told>>
<1>1. r \notin Accepted /\ {r} \cap Requests = {r}
    BY DEF Accept, Accepted
<1>2. /\ sentRequests \in Seq(Requests)
      /\ sentRequests' = Append(sentRequests, r)
    BY DEF TypeOK, QueueTypes, Accept
<1>3. /\ Waiting' = Waiting \cup {r}
      /\ Sorted(sentRequests, Earlier') /\ Waiting \X {r} \subseteq Earlier'
            => Sorted(sentRequests', Earlier')
    BY <1>1, <1>2, SortedAppend DEF Waiting
<1>4. Earlier \subseteq Earlier' /\ Accepted \X {r} \subseteq Earlier'
    BY IssueLast DEF Accept
<1>5. UNCHANGED <<Held, Doomed, Completing, Told>>
    BY DEF Accept, Held, Doomed, Completing, Told
<1>6. QED
    BY <1>1, <1>3, <1>4, <1>5

(* An order may be replaced by a larger one. *)
LEMMA SortedWeaken ==
    ASSUME NEW q, NEW T, NEW U, T \subseteq U, Sorted(q, T)
    PROVE  Sorted(q, U)
BY DEF Sorted
-----------------------------------------------------------------------------
(* OnePlace is not inductive: that an entry leaves a list for good when it *)
(* is taken off rests on the order of the list, in which none is twice.    *)
PlaceInv ==
    /\ Sorted(doomed, Earlier) /\ Sorted(sentRequests, Earlier)
    /\ Sorted(XidsOf(completions), Different)
    /\ Held \X Waiting \subseteq Earlier
    /\ Held \cap (Doomed \cup Waiting \cup Completing \cup Told) = {}
    /\ Doomed \cap (Waiting \cup Completing \cup Told) = {}
    /\ Waiting \cap (Completing \cup Told) = {}
    /\ Completing \cap Told = {}
    /\ Accepted = Held \cup Doomed \cup Waiting \cup Completing \cup Told

BaseInv == TypeOK /\ ConnectionInv /\ LockInv /\ PurgeInv

LEMMA IssuedStep ==
    ASSUME BaseInv, IssuedOnce, [Next]_vars
    PROVE  IssuedOnce'
<1>1. ASSUME UNCHANGED <<issued, Accepted>> PROVE IssuedOnce'
    BY <1>1 DEF IssuedOnce
<1>2. ASSUME NEW r \in Requests, Accept(r) PROVE IssuedOnce'
    <2>1. r \notin Accepted /\ Accepted' = Accepted \cup {r}
          /\ issued' = Append(issued, r)
        BY <1>2 DEF Accept, Accepted
    <2>2. /\ Len(issued) \in Nat /\ DOMAIN issued = 1..Len(issued)
          /\ issued' \in Seq(Requests)
          /\ DOMAIN issued' = 1..(Len(issued) + 1)
          /\ \A i \in DOMAIN issued : issued'[i] = issued[i]
          /\ issued'[Len(issued) + 1] = r
        BY <2>1 DEF IssuedOnce
    <2>3. \A i \in DOMAIN issued : issued[i] # r
        BY <2>1 DEF IssuedOnce, ToSet
    <2>4. \A i, j \in DOMAIN issued' : issued'[i] = issued'[j] => i = j
        BY <2>2, <2>3 DEF IssuedOnce
    <2>5. ToSet(issued') = ToSet(issued) \cup {r}
        <3>1. \A i \in DOMAIN issued : i \in DOMAIN issued'
            BY <2>2
        <3>2. Len(issued) + 1 \in DOMAIN issued'
            BY <2>2
        <3>3. \A i \in DOMAIN issued' :
                 i \in DOMAIN issued \/ i = Len(issued) + 1
            BY <2>2
        <3>4. QED
            BY <2>2, <3>1, <3>2, <3>3 DEF ToSet
    <2>6. QED
        BY <2>1, <2>2, <2>4, <2>5 DEF IssuedOnce
<1>3. QED
    BY <1>1, <1>2, PlaceCases
       DEF BaseInv, Stay, Take, Elsewhere, Hold, Complete, Return, CallBack,
           Fail

LEMMA PlaceStep ==
    ASSUME BaseInv, IssuedOnce, PlaceInv, [Next]_vars
    PROVE  PlaceInv'
<1> TypeOK /\ ConnectionInv /\ LockInv
    BY DEF BaseInv
<1>a. ASSUME UNCHANGED issued PROVE UNCHANGED <<Earlier, Different>>
    BY <1>a DEF Earlier, Different
<1>b. Earlier \subseteq Different /\ \A y : <<y, y>> \notin Different
    BY EarlierFacts DEF Different
<1>1. CASE Stay
    <2>1. UNCHANGED <<Held, Doomed, Waiting, Told, Accepted, doomed,
                      sentRequests, issued>>
        BY <1>1 DEF Stay, Elsewhere, Held, Doomed, Waiting, Told
    <2>2. /\ Completing' = Completing
          /\ Sorted(XidsOf(completions'), Different)
        BY <1>1, NewsPlaces DEF Stay, PlaceInv
    <2>3. QED
        BY <1>a, <2>1, <2>2 DEF PlaceInv
<1>2. CASE Take
    <2>1. UNCHANGED <<Held, Completing, Told, Accepted, completions, issued>>
        BY <1>2 DEF Take, Elsewhere, Held, Completing, Told
    <2>2. /\ doomed' = sentRequests /\ Doomed' = Waiting
          /\ Doomed = {} /\ Waiting' = {} /\ Sorted(sentRequests', Earlier)
        BY <1>2, SortedEmpty DEF Take, TakeSentRequests, Doomed, Waiting
    <2>3. QED
        BY <1>a, <2>1, <2>2 DEF PlaceInv
<1>3. ASSUME NEW rc \in Errors, Fail(rc) PROVE PlaceInv'
    <2> DEFINE h == Head(doomed)
    <2>1. UNCHANGED <<Held, Waiting, Accepted, sentRequests, issued>>
        BY <1>3 DEF Fail, Held, Waiting
    <2>2. /\ h \in Requests /\ Doomed = Doomed' \cup {h}
          /\ Sorted(doomed', Earlier) /\ {h} \X Doomed' \subseteq Earlier
        BY <1>3, FailPlaces DEF PlaceInv
    <2>3. h \notin Doomed'
        BY <1>b, <2>2
    <2>4. \/ /\ Told' = Told \cup {h} /\ Completing' = Completing
             /\ Sorted(XidsOf(completions), Different)
                  => Sorted(XidsOf(completions'), Different)
          \/ /\ Told' = Told /\ Completing' = Completing \cup {h}
             /\ Sorted(XidsOf(completions), Different)
                  /\ Completing \X {h} \subseteq Different
                  => Sorted(XidsOf(completions'), Different)
        BY <1>3, FailPlaces
    <2> HIDE DEF h
    <2>5. Completing \X {h} \subseteq Different
        BY <2>2 DEF PlaceInv, Different, Completing, RequestsIn
    <2>6. Sorted(XidsOf(completions'), Different)
        BY <2>4, <2>5 DEF PlaceInv
    <2>7. QED
        BY <1>a, <2>1, <2>2, <2>3, <2>4, <2>6 DEF PlaceInv
<1>4. CASE Hold
    <2> DEFINE h == Head(sentRequests)
    <2>1. UNCHANGED <<Doomed, Completing, Told, Accepted, doomed, completions,
                      issued>>
        BY <1>4 DEF Hold, Elsewhere, Doomed, Completing, Told
    <2>2. /\ h \in Requests /\ Held = {} /\ Held' = {h}
          /\ Waiting = Waiting' \cup {h}
          /\ Sorted(sentRequests', Earlier)
          /\ {h} \X Waiting' \subseteq Earlier
        BY <1>4, HoldPlaces DEF PlaceInv
    <2>3. h \notin Waiting'
        BY <1>b, <2>2
    <2> HIDE DEF h
    <2>4. QED
        BY <1>a, <2>1, <2>2, <2>3 DEF PlaceInv
<1>5. CASE Complete
    <2>1. UNCHANGED <<Doomed, Waiting, Accepted, doomed, sentRequests, issued>>
        BY <1>5 DEF Complete, Doomed, Waiting
    <2>2. /\ ioHeld \in Requests /\ Held = {ioHeld} /\ Held' = {}
          /\ \/ /\ Told' = Told \cup {ioHeld} /\ Completing' = Completing
                /\ Sorted(XidsOf(completions), Different)
                     => Sorted(XidsOf(completions'), Different)
             \/ /\ Told' = Told /\ Completing' = Completing \cup {ioHeld}
                /\ Sorted(XidsOf(completions), Different)
                     /\ Completing \X {ioHeld} \subseteq Different
                     => Sorted(XidsOf(completions'), Different)
        BY <1>5, CompletePlaces
    <2>3. Completing \X {ioHeld} \subseteq Different
        BY <2>2 DEF PlaceInv, Different, Completing, RequestsIn
    <2>4. Sorted(XidsOf(completions'), Different)
        BY <2>2, <2>3 DEF PlaceInv
    <2>5. QED
        BY <1>a, <2>1, <2>2, <2>4 DEF PlaceInv
<1>6. CASE Return
    <2>1. UNCHANGED <<Doomed, Told, Accepted, doomed, issued>>
        BY <1>6 DEF Return, Elsewhere, Doomed, Told
    <2>2. /\ Completing' = Completing
          /\ Sorted(XidsOf(completions'), Different)
        BY <1>6, NewsPlaces DEF Return, PlaceInv
    <2>3. /\ ioHeld \in Requests /\ Held = {ioHeld} /\ Held' = {}
          /\ Waiting' = Waiting \cup {ioHeld}
          /\ Sorted(sentRequests, Earlier)
                /\ {ioHeld} \X Waiting \subseteq Earlier
                => Sorted(sentRequests', Earlier)
        BY <1>6, ReturnPlaces
    <2>4. Sorted(sentRequests', Earlier)
        BY <2>3 DEF PlaceInv
    <2>5. QED
        BY <1>a, <2>1, <2>2, <2>3, <2>4 DEF PlaceInv
<1>7. CASE CallBack
    <2> DEFINE x == Head(completions).xid
    <2>1. UNCHANGED <<Held, Doomed, Waiting, Accepted, doomed, sentRequests,
                      issued>>
        BY <1>7 DEF CallBack, Held, Doomed, Waiting
    <2>2. /\ Sorted(XidsOf(completions'), Different)
          /\ \/ /\ Completing = Completing' \cup {x} /\ Told' = Told \cup {x}
                /\ {x} \X Completing' \subseteq Different
             \/ Completing' = Completing /\ Told' = Told
        BY <1>7, CallBackPlaces DEF PlaceInv
    <2> HIDE DEF x
    <2>3. CASE Completing' = Completing /\ Told' = Told
        BY <1>a, <2>1, <2>2, <2>3 DEF PlaceInv
    <2>4. CASE /\ Completing = Completing' \cup {x} /\ Told' = Told \cup {x}
               /\ {x} \X Completing' \subseteq Different
        <3>1. x \notin Completing'
            BY <1>b, <2>4
        <3>2. QED
            BY <1>a, <2>1, <2>2, <2>4, <3>1 DEF PlaceInv
    <2>5. QED
        BY <2>2, <2>3, <2>4
<1>8. ASSUME NEW r \in Requests, Accept(r) PROVE PlaceInv'
    <2>1. /\ r \notin Accepted /\ Waiting' = Waiting \cup {r}
          /\ Earlier \subseteq Earlier' /\ Accepted \X {r} \subseteq Earlier'
          /\ UNCHANGED <<Held, Doomed, Completing, Told>>
        BY <1>8, AcceptPlaces
    <2>2. /\ Accepted' = Accepted \cup {r} /\ UNCHANGED <<doomed, completions>>
        BY <1>8 DEF Accept
    <2>3. Sorted(sentRequests, Earlier') /\ Sorted(doomed', Earlier')
        BY <2>1, <2>2, SortedWeaken DEF PlaceInv
    <2>4. Sorted(sentRequests', Earlier')
        BY <1>8, <2>3, AcceptPlaces DEF PlaceInv
    <2>5. Sorted(XidsOf(completions'), Different')
        BY <2>2 DEF PlaceInv, Different
    <2>6. Held' \X Waiting' \subseteq Earlier'
        BY <2>1 DEF PlaceInv
    <2>7. QED
        BY <2>1, <2>2, <2>3, <2>4, <2>5, <2>6 DEF PlaceInv
<1>9. QED
    BY <1>1, <1>2, <1>3, <1>4, <1>5, <1>6, <1>7, <1>8, PlaceCases

(* A sequence of requests in places of which no two share a request holds  *)
(* each of them as often as the places do: once or never.                  *)
LEMMA OnePlaceHolds ==
    ASSUME BaseInv, IssuedOnce, PlaceInv
    PROVE  OnePlace
<1> SUFFICES ASSUME NEW r \in Requests
             PROVE  Occurrences(<<ioHeld>> \o doomed \o sentRequests, r)
                       + Occurrences(XidsOf(completions), r)
                       + (IF result[r] # NoOne THEN 1 ELSE 0)
                    = IF pc[r] \in {"idle", "checked", "rejected"}
                      THEN 0 ELSE 1
    BY DEF OnePlace
<1> DEFINE S == Requests \cup {NoOne}
           q == doomed \o sentRequests
           t == <<ioHeld>> \o q
<1>a. TypeOK /\ Earlier \subseteq Different
    BY EarlierFacts DEF BaseInv
<1>1. /\ doomed \in Seq(S) /\ sentRequests \in Seq(S) /\ <<ioHeld>> \in Seq(S)
    <2>1. ioHeld \in S
        BY <1>a DEF TypeOK, ThreadTypes
    <2>2. doomed \in Seq(Requests) /\ sentRequests \in Seq(Requests)
        BY <1>a DEF TypeOK, QueueTypes
    <2>3. QED
        BY <2>1, <2>2
<1> HIDE DEF S
<1>2. /\ Sorted(doomed, Different) /\ Sorted(sentRequests, Different)
      /\ Sorted(<<ioHeld>>, Different) /\ RequestsIn(<<ioHeld>>) = Held
    BY <1>a, SortedWeaken, SortedOne DEF PlaceInv, Held
<1>3. ASSUME NEW A, NEW B, A \subseteq Requests, B \subseteq Requests,
             A \cap B = {}
      PROVE  A \X B \subseteq Different
    BY <1>3 DEF Different
<1>4. /\ Doomed \subseteq Requests /\ Waiting \subseteq Requests
      /\ Held \subseteq Requests
    BY DEF Doomed, Waiting, Held, RequestsIn
<1>5. q \in Seq(S) /\ RequestsIn(q) = Doomed \cup Waiting
      /\ Sorted(q, Different)
    <2>1. Doomed \X Waiting \subseteq Different
        BY <1>3, <1>4 DEF PlaceInv
    <2>2. QED
        BY <1>1, <1>2, <2>1, SortedConcat DEF Doomed, Waiting
<1>6. t \in Seq(S) /\ RequestsIn(t) = Held \cup Doomed \cup Waiting
      /\ Sorted(t, Different)
    <2>1. Held \X (Doomed \cup Waiting) \subseteq Different
        BY <1>3, <1>4 DEF PlaceInv
    <2> HIDE DEF q
    <2> DEFINE one == <<ioHeld>>
    <2>2. one \in Seq(S) /\ RequestsIn(one) = Held /\ Sorted(one, Different)
        BY <1>1, <1>2
    <2>3. t = one \o q
        OBVIOUS
    <2> HIDE DEF one, t
    <2>4. QED
        BY <1>5, <2>1, <2>2, <2>3, SortedConcat
<1>7. t = <<ioHeld>> \o doomed \o sentRequests
    BY <1>1
<1> HIDE DEF t
<1>8. Occurrences(t, r) = IF r \in Held \cup Doomed \cup Waiting THEN 1 ELSE 0
    BY <1>6, Counting
<1>9. Occurrences(XidsOf(completions), r)
         = IF r \in Completing THEN 1 ELSE 0
    <2>1. XidsOf(completions) \in Seq(Names)
        BY <1>a, CompletionNames
    <2>2. QED
        BY <2>1, Counting DEF PlaceInv, Completing
<1>10. /\ result[r] # NoOne <=> r \in Told
       /\ pc[r] \in {"idle", "checked", "rejected"} <=> r \notin Accepted
    BY DEF Told, Accepted
<1>11. Occurrences(<<ioHeld>> \o doomed \o sentRequests, r)
          = IF r \in Held \cup Doomed \cup Waiting THEN 1 ELSE 0
    BY <1>7, <1>8
<1>12. QED
    BY <1>9, <1>10, <1>11 DEF PlaceInv
LEMMA PlaceInit == Init => LockInv /\ PurgeInv /\ IssuedOnce /\ PlaceInv
<1> SUFFICES ASSUME Init PROVE LockInv /\ PurgeInv /\ IssuedOnce /\ PlaceInv
    OBVIOUS
<1>1. NoOne \notin Requests /\ NoOne # "io" /\ NoOne # "closer"
    BY RequestsAssumption DEF NoOne
<1>2. LockInv /\ PurgeInv
    BY <1>1 DEF Init, LockInv, PurgeInv, PurgedStaysEmpty
<1>3. /\ Accepted = {} /\ Held = {} /\ Told = {}
    BY <1>1 DEF Init, Accepted, Held, Told
<1>4. issued = <<>> /\ doomed = <<>> /\ sentRequests = <<>>
      /\ XidsOf(completions) = <<>>
    BY DEF Init, XidsOf
<1>5. /\ Sorted(<<>>, Earlier) /\ Sorted(<<>>, Different)
      /\ RequestsIn(<<>>) = {}
    BY SortedEmpty
<1>6. IssuedOnce
    BY <1>3, <1>4, ElementsEmpty DEF IssuedOnce
<1>7. Doomed = {} /\ Waiting = {} /\ Completing = {}
    BY <1>4, <1>5 DEF Doomed, Waiting, Completing
<1>8. PlaceInv
    BY <1>3, <1>4, <1>5, <1>7 DEF PlaceInv
<1>9. QED
    BY <1>2, <1>6, <1>8

PlacesInv == BaseInv /\ IssuedOnce /\ PlaceInv

LEMMA PlacesAreRight == Spec => []PlacesInv
<1>1. BaseInv /\ [Next]_vars => LockInv' /\ PurgeInv'
    BY LockStep, PurgeStep DEF BaseInv
<1>2. PlacesInv /\ [Next]_vars => IssuedOnce' /\ PlaceInv'
    BY IssuedStep, PlaceStep DEF PlacesInv
<1>3. QED
    BY <1>1, <1>2, PlaceInit, ConnectionInit, ConnectionStep, TypesAreRight,
       PTL DEF Spec, PlacesInv, BaseInv

(* A request, once accepted, is in one place until its caller or callback  *)
(* has been told: none is lost and none is completed twice, whatever the   *)
(* IO thread, the completion thread, the callers and zookeeper_close do.   *)
THEOREM EveryRequestHasOnePlace == Spec => []OnePlace
<1>1. PlacesInv => OnePlace
    BY OnePlaceHolds DEF PlacesInv
<1>2. QED
    BY <1>1, PlacesAreRight, PTL

-----------------------------------------------------------------------------
(* zookeeper_close announces itself once and for all. *)
LEMMA CloseIsAnnounced ==
    ASSUME [Next]_vars
    PROVE  (closeRequested' = closeRequested) \/ closeRequested'
<1>1. CASE UNCHANGED vars
    BY <1>1 DEF vars, closeVars
<1>2. ASSUME NEW r \in Requests, CallStep(r)
      PROVE  closeRequested' = closeRequested
    BY <1>2 DEF CallStep, Check, AddCompletion, QueueBuffer, SendQueue,
                WaitSync, closeVars
<1>3. CASE IoCleanup \/ IoFailOne \/ IoReset \/ IoExit \/ IoWrap \/ IoConnect
              \/ IoInterest \/ IoTimeout \/ IoWake \/ IoConnected
    BY <1>3 DEF IoCleanup, IoFailOne, IoReset, IoExit, IoWrap, IoConnect,
                IoInterest, IoTimeout, IoWake, IoConnected, closeVars
<1>4. CASE IoFlush \/ IoRead \/ IoHandshake \/ IoReadError \/ IoNothing
              \/ IoDispatchReserved \/ IoDispatchReply \/ IoComplete
              \/ IoMismatch
    BY <1>4 DEF IoFlush, IoRead, IoHandshake, IoReadError, IoNothing,
                IoDispatchReserved, IoDispatchReply, IoComplete, IoMismatch,
                closeVars
<1>5. CASE CtStep
    BY <1>5 DEF CtStep, CtLoop, CtWake, CtCallback, CtCallbackEnds, CtDrained,
                closeVars
<1>6. CASE CloseRequest \/ ClosePurge \/ CloseFailOne \/ CloseWakeIo
              \/ CloseJoinIo \/ CloseJoinCt \/ CloseDestroy \/ CloseFree
    BY <1>6 DEF CloseRequest, Announce, ClosePurge, CloseFailOne, CloseWakeIo,
                CloseJoinIo, CloseJoinCt, CloseDestroy, CloseFree, closeVars
<1>7. CASE ServerHandshake \/ ServerAnswer \/ ServerReorder \/ ServerEvent
              \/ NetBreak
    BY <1>7 DEF ServerHandshake, ServerAnswer, ServerReorder, ServerEvent,
                NetBreak, closeVars
<1>8. QED
    BY <1>1, <1>2, <1>3, <1>4, <1>5, <1>6, <1>7, NextCases DEF CallStep

(* The order of callbacks is the order of five places a request passes     *)
(* through, each of them and each before the next in order of acceptance;  *)
(* zookeeper_close may fail the requests of sent_requests before the one   *)
(* the IO thread has in its hands.                                         *)
Heard == RequestsIn(called)

InCallOrder ==
    /\ Sorted(called, Earlier) /\ Sorted(XidsOf(completions), Earlier)
    /\ Heard \X (Completing \cup Held \cup Doomed \cup Waiting)
          \subseteq Earlier
    /\ Completing \X (Held \cup Doomed \cup Waiting) \subseteq Earlier
    /\ Held \X Doomed \subseteq Earlier
    /\ Doomed \X Waiting \subseteq Earlier

CallInv ==
    /\ Completing \subseteq Async
    /\ Heard = Told \cap Async
    /\ ~closeRequested => InCallOrder

LEMMA HeardStep ==
    ASSUME PlacesInv, CallInv, [Next]_vars
    PROVE  Completing' \subseteq Async /\ Heard' = Told' \cap Async
<1> TypeOK /\ ConnectionInv /\ LockInv /\ IssuedOnce
    BY DEF PlacesInv, BaseInv
<1>a. Async = Requests \ Sync /\ UNCHANGED Async
    BY DEF Async
<1>1. CASE Stay \/ Return
    <2>1. Completing' = Completing
        BY <1>1, NewsPlaces DEF Stay, Return
    <2>2. UNCHANGED <<Heard, Told>>
        BY <1>1 DEF Stay, Return, Elsewhere, Heard, Told
    <2>3. QED
        BY <2>1, <2>2 DEF CallInv
<1>2. CASE Take \/ Hold
    BY <1>2 DEF Take, Hold, Elsewhere, Heard, Told, Completing, CallInv
<1>3. ASSUME NEW rc \in Errors, Fail(rc)
      PROVE  Completing' \subseteq Async /\ Heard' = Told' \cap Async
    <2> DEFINE h == Head(doomed)
    <2>1. \/ h \in Sync /\ Told' = Told \cup {h} /\ Completing' = Completing
          \/ h \in Async /\ Told' = Told /\ Completing' = Completing \cup {h}
        BY <1>3, FailPlaces
    <2>2. Heard' = Heard
        BY <1>3 DEF Fail, Heard
    <2> HIDE DEF h
    <2>3. QED
        BY <1>a, <2>1, <2>2 DEF CallInv
<1>4. CASE Complete
    <2>1. \/ ioHeld \in Sync /\ Told' = Told \cup {ioHeld}
             /\ Completing' = Completing
          \/ ioHeld \in Async /\ Told' = Told
             /\ Completing' = Completing \cup {ioHeld}
        BY <1>4, CompletePlaces
    <2>2. Heard' = Heard
        BY <1>4 DEF Complete, Heard
    <2>3. QED
        BY <1>a, <2>1, <2>2 DEF CallInv
<1>5. CASE CallBack
    <2> DEFINE x == Head(completions).xid
    <2>1. \/ /\ Completing = Completing' \cup {x} /\ Told' = Told \cup {x}
             /\ Heard' = Heard \cup {x}
          \/ UNCHANGED <<Completing, Told, Heard>>
        BY <1>5, CallBackPlaces DEF Heard
    <2> HIDE DEF x
    <2>2. QED
        BY <2>1 DEF CallInv
<1>6. ASSUME NEW r \in Requests, Accept(r)
      PROVE  Completing' \subseteq Async /\ Heard' = Told' \cap Async
    BY <1>6, AcceptPlaces DEF Accept, Heard, CallInv
<1>7. QED
    BY <1>1, <1>2, <1>3, <1>4, <1>5, <1>6, PlaceCases DEF PlacesInv, BaseInv

LEMMA CallOrderStep ==
    ASSUME PlacesInv, CallInv, [Next]_vars, ~closeRequested'
    PROVE  InCallOrder'
<1> /\ TypeOK /\ ConnectionInv /\ LockInv /\ IssuedOnce /\ PlaceInv
    BY DEF PlacesInv, BaseInv
<1>a. InCallOrder /\ ~closeRequested
    BY CloseIsAnnounced DEF CallInv
<1>b. ASSUME UNCHANGED issued PROVE Earlier' = Earlier
    BY <1>b DEF Earlier
<1>c. ioPc # "fail" => Doomed = {}
    BY <1>a, SortedEmpty DEF LockInv, Doomed
<1>1. CASE Stay
    <2>1. UNCHANGED <<Held, Doomed, Waiting, Heard, called, issued>>
        BY <1>1 DEF Stay, Elsewhere, Held, Doomed, Waiting, Heard
    <2>2. Completing' = Completing /\ Sorted(XidsOf(completions'), Earlier)
        BY <1>1, <1>a, NewsPlaces DEF Stay, InCallOrder
    <2>3. QED
        BY <1>a, <1>b, <2>1, <2>2 DEF InCallOrder
<1>2. CASE Take
    <2>1. UNCHANGED <<Held, Completing, Heard, called, completions, issued>>
        BY <1>2 DEF Take, Elsewhere, Held, Completing, Heard
    <2>2. Doomed' = Waiting /\ Waiting' = {}
        BY <1>2, SortedEmpty DEF Take, TakeSentRequests, Doomed, Waiting
    <2>3. QED
        BY <1>a, <1>b, <2>1, <2>2 DEF InCallOrder, PlaceInv
<1>3. ASSUME NEW rc \in Errors, Fail(rc) PROVE InCallOrder'
    <2> DEFINE h == Head(doomed)
    <2>1. UNCHANGED <<Held, Waiting, Heard, called, issued>> /\ ioPc = "fail"
        BY <1>3, <1>a DEF Fail, Held, Waiting, Heard
    <2>2. /\ Doomed = Doomed' \cup {h} /\ {h} \X Doomed' \subseteq Earlier
        BY <1>3, FailPlaces DEF PlaceInv
    <2>3. \/ /\ Completing' = Completing
             /\ Sorted(XidsOf(completions), Earlier)
                  => Sorted(XidsOf(completions'), Earlier)
          \/ /\ Completing' = Completing \cup {h}
             /\ Sorted(XidsOf(completions), Earlier)
                  /\ Completing \X {h} \subseteq Earlier
                  => Sorted(XidsOf(completions'), Earlier)
        BY <1>3, FailPlaces
    <2>4. Held = {}
        BY <2>1, RequestsAssumption DEF TypeOK, ThreadTypes, Held
    <2> HIDE DEF h
    <2>5. Completing \X {h} \subseteq Earlier
        BY <1>a, <2>2 DEF InCallOrder
    <2>6. Sorted(XidsOf(completions'), Earlier)
        BY <1>a, <2>3, <2>5 DEF InCallOrder
    <2>7. Completing' \subseteq Completing \cup {h}
        BY <2>3
    <2>8. QED
        BY <1>a, <1>b, <2>1, <2>2, <2>4, <2>6, <2>7 DEF InCallOrder
<1>4. CASE Hold
    <2> DEFINE h == Head(sentRequests)
    <2>1. UNCHANGED <<Doomed, Completing, Heard, called, completions, issued>>
        BY <1>4 DEF Hold, Elsewhere, Doomed, Completing, Heard
    <2>2. Held = {} /\ Held' = {h} /\ Waiting = Waiting' \cup {h}
        BY <1>4, HoldPlaces
    <2>3. Doomed = {}
        BY <1>c, <1>4 DEF Hold
    <2> HIDE DEF h
    <2>4. QED
        BY <1>a, <1>b, <2>1, <2>2, <2>3 DEF InCallOrder
<1>5. CASE Complete
    <2>1. UNCHANGED <<Doomed, Waiting, Heard, called, issued>>
        BY <1>5 DEF Complete, Doomed, Waiting, Heard
    <2>2. /\ Held = {ioHeld} /\ Held' = {}
          /\ \/ /\ Completing' = Completing
                /\ Sorted(XidsOf(completions), Earlier)
                     => Sorted(XidsOf(completions'), Earlier)
             \/ /\ Completing' = Completing \cup {ioHeld}
                /\ Sorted(XidsOf(completions), Earlier)
                     /\ Completing \X {ioHeld} \subseteq Earlier
                     => Sorted(XidsOf(completions'), Earlier)
        BY <1>5, CompletePlaces
    <2>3. Completing \X {ioHeld} \subseteq Earlier
        BY <1>a, <2>2 DEF InCallOrder
    <2>4. Sorted(XidsOf(completions'), Earlier)
        BY <1>a, <2>2, <2>3 DEF InCallOrder
    <2>5. Completing' \subseteq Completing \cup Held
        BY <2>2
    <2>6. QED
        BY <1>a, <1>b, <2>1, <2>2, <2>4, <2>5 DEF InCallOrder, PlaceInv
<1>6. CASE Return
    <2>1. UNCHANGED <<Doomed, Heard, called, issued>>
        BY <1>6 DEF Return, Elsewhere, Doomed, Heard
    <2>2. Completing' = Completing /\ Sorted(XidsOf(completions'), Earlier)
        BY <1>6, <1>a, NewsPlaces DEF Return, InCallOrder
    <2>3. Held' = {} /\ Waiting' = Waiting \cup Held
        BY <1>6, ReturnPlaces
    <2>4. Doomed = {}
        BY <1>6, <1>c DEF Return
    <2>5. QED
        BY <1>a, <1>b, <2>1, <2>2, <2>3, <2>4 DEF InCallOrder
<1>7. CASE CallBack
    <2> DEFINE x == Head(completions).xid
    <2>1. UNCHANGED <<Held, Doomed, Waiting, issued>>
        BY <1>7 DEF CallBack, Held, Doomed, Waiting
    <2>2. /\ Sorted(XidsOf(completions'), Earlier)
          /\ \/ /\ Completing = Completing' \cup {x}
                /\ Heard' = Heard \cup {x}
                /\ {x} \X Completing' \subseteq Earlier
                /\ Sorted(called, Earlier) /\ Heard \X {x} \subseteq Earlier
                      => Sorted(called', Earlier)
             \/ UNCHANGED <<Completing, called, Heard>>
        BY <1>7, <1>a, CallBackPlaces DEF InCallOrder, Heard
    <2> HIDE DEF x
    <2>3. CASE UNCHANGED <<Completing, called, Heard>>
        BY <1>a, <1>b, <2>1, <2>2, <2>3 DEF InCallOrder
    <2>4. CASE /\ Completing = Completing' \cup {x}
               /\ Heard' = Heard \cup {x}
               /\ {x} \X Completing' \subseteq Earlier
               /\ Sorted(called, Earlier) /\ Heard \X {x} \subseteq Earlier
                     => Sorted(called', Earlier)
        <3>1. Heard \X {x} \subseteq Earlier
            BY <1>a, <2>4 DEF InCallOrder
        <3>2. Sorted(called', Earlier)
            BY <1>a, <2>4, <3>1 DEF InCallOrder
        <3>3. QED
            BY <1>a, <1>b, <2>1, <2>2, <2>4, <3>2 DEF InCallOrder
    <2>5. QED
        BY <2>2, <2>3, <2>4
<1>8. ASSUME NEW r \in Requests, Accept(r) PROVE InCallOrder'
    <2>1. /\ Waiting' = Waiting \cup {r}
          /\ Earlier \subseteq Earlier' /\ Accepted \X {r} \subseteq Earlier'
          /\ UNCHANGED <<Held, Doomed, Completing>>
        BY <1>8, AcceptPlaces
    <2>2. UNCHANGED <<called, completions, Heard>>
        BY <1>8 DEF Accept, Heard
    <2>3. Sorted(called', Earlier') /\ Sorted(XidsOf(completions'), Earlier')
        BY <1>a, <2>1, <2>2, SortedWeaken DEF InCallOrder
    <2>4. Heard \subseteq Accepted /\ Completing \subseteq Accepted
          /\ Doomed \subseteq Accepted
        BY DEF PlaceInv, CallInv
    <2>5. QED
        BY <1>a, <2>1, <2>2, <2>3, <2>4 DEF InCallOrder
<1>9. QED
    BY <1>1, <1>2, <1>3, <1>4, <1>5, <1>6, <1>7, <1>8, PlaceCases

LEMMA CallbackOrderHolds ==
    ASSUME PlacesInv, CallInv
    PROVE  CallbackOrder
<1> SUFFICES ASSUME ~closeRequested
             PROVE  LET all == called \o XidsOf(completions)
                                 \o <<ioHeld>> \o doomed \o sentRequests
                    IN  /\ Sorted(all, Earlier)
                        /\ RequestsIn(all) \cap Async
                              = ToSet(issued) \cap Async
    BY DEF CallbackOrder
<1> DEFINE S == Names \cup {NoOne}
           one == <<ioHeld>>
           x == XidsOf(completions)
           q1 == called \o x
           q2 == q1 \o one
           q3 == q2 \o doomed
           q4 == q3 \o sentRequests
<1>1. /\ called \in Seq(S) /\ one \in Seq(S) /\ doomed \in Seq(S)
      /\ sentRequests \in Seq(S) /\ x \in Seq(S)
    <2>1. ioHeld \in S
        BY DEF PlacesInv, BaseInv, TypeOK, ThreadTypes, Names
    <2>2. /\ called \in Seq(Requests) /\ doomed \in Seq(Requests)
          /\ sentRequests \in Seq(Requests)
        BY DEF PlacesInv, BaseInv, TypeOK, QueueTypes, HistoryTypes
    <2>3. x \in Seq(Names)
        BY CompletionNames DEF PlacesInv, BaseInv
    <2>4. Requests \subseteq S /\ Names \subseteq S
        BY DEF Names
    <2> HIDE DEF S, x
    <2>5. QED
        BY <2>1, <2>2, <2>3, <2>4
<1>2. /\ RequestsIn(called) = Heard /\ RequestsIn(x) = Completing
      /\ RequestsIn(one) = Held /\ RequestsIn(doomed) = Doomed
      /\ RequestsIn(sentRequests) = Waiting
    BY SortedOne DEF Heard, Completing, Held, Doomed, Waiting
<1>3. /\ Sorted(called, Earlier) /\ Sorted(x, Earlier) /\ Sorted(one, Earlier)
      /\ Sorted(doomed, Earlier) /\ Sorted(sentRequests, Earlier)
    BY SortedOne DEF PlacesInv, PlaceInv, CallInv, InCallOrder
<1>4. InCallOrder /\ PlaceInv
    BY DEF CallInv, PlacesInv
<1> HIDE DEF S, x, one
<1>5. /\ q1 \in Seq(S) /\ RequestsIn(q1) = Heard \cup Completing
      /\ Sorted(q1, Earlier)
    <2>1. Heard \X Completing \subseteq Earlier
        BY <1>4 DEF InCallOrder
    <2>2. QED
        BY <1>1, <1>2, <1>3, <2>1, SortedConcat
<1> HIDE DEF q1
<1>6. /\ q2 \in Seq(S) /\ RequestsIn(q2) = Heard \cup Completing \cup Held
      /\ Sorted(q2, Earlier)
    <2>1. (Heard \cup Completing) \X Held \subseteq Earlier
        BY <1>4 DEF InCallOrder
    <2>2. QED
        BY <1>1, <1>2, <1>3, <1>5, <2>1, SortedConcat
<1> HIDE DEF q2
<1>7. /\ q3 \in Seq(S) /\ Sorted(q3, Earlier)
      /\ RequestsIn(q3) = Heard \cup Completing \cup Held \cup Doomed
    <2>1. (Heard \cup Completing \cup Held) \X Doomed \subseteq Earlier
        BY <1>4 DEF InCallOrder
    <2>2. QED
        BY <1>1, <1>2, <1>3, <1>6, <2>1, SortedConcat
<1> HIDE DEF q3
<1>8. /\ q4 \in Seq(S) /\ Sorted(q4, Earlier)
      /\ RequestsIn(q4)
            = Heard \cup Completing \cup Held \cup Doomed \cup Waiting
    <2>1. (Heard \cup Completing \cup Held \cup Doomed) \X Waiting
             \subseteq Earlier
        BY <1>4 DEF InCallOrder, PlaceInv
    <2>2. QED
        BY <1>1, <1>2, <1>3, <1>7, <2>1, SortedConcat
<1>9. q4 = called \o XidsOf(completions) \o <<ioHeld>> \o doomed
              \o sentRequests
    BY DEF q1, q2, q3, x, one
<1> HIDE DEF q4
<1>10. RequestsIn(q4) \cap Async = ToSet(issued) \cap Async
    BY <1>8 DEF PlacesInv, PlaceInv, IssuedOnce, CallInv
<1>11. QED
    BY <1>8, <1>9, <1>10

LEMMA CallInit == Init => CallInv
<1> SUFFICES ASSUME Init PROVE CallInv
    OBVIOUS
<1>1. /\ called = <<>> /\ XidsOf(completions) = <<>>
      /\ doomed = <<>> /\ sentRequests = <<>> /\ Told = {}
    BY DEF Init, XidsOf, Told
<1>2. Held = {}
    BY RequestsAssumption DEF Init, Held
<1>3. Heard = {} /\ Completing = {} /\ Doomed = {} /\ Waiting = {}
      /\ Sorted(called, Earlier) /\ Sorted(XidsOf(completions), Earlier)
    BY <1>1, SortedEmpty DEF Heard, Completing, Doomed, Waiting
<1>4. QED
    BY <1>1, <1>2, <1>3 DEF CallInv, InCallOrder

(* Until zookeeper_close is called, callbacks run in the order in which    *)
(* the requests were accepted, and none is left out, however connections   *)
(* fail and whichever entries they fail with.                              *)
THEOREM CallbacksRunInOrder == Spec => []CallbackOrder
<1>1. Init => CallInv
    BY CallInit
<1>2. PlacesInv /\ CallInv /\ [Next]_vars => CallInv'
    BY HeardStep, CallOrderStep DEF CallInv
<1>3. PlacesInv /\ CallInv => CallbackOrder
    BY CallbackOrderHolds
<1>4. QED
    BY <1>1, <1>2, <1>3, PlacesAreRight, PTL DEF Spec
-----------------------------------------------------------------------------
(* The way of a request through the connection: the packet its caller is   *)
(* about to queue, those in to_send, those on the way to the server, the   *)
(* replies on the way back, and the reply that is being dispatched.        *)
Packing == {critical} \cap Requests
Packed  == RequestsIn(toSend)
Going   == RequestsIn(c2s)
Coming  == RequestsIn(XidsOf(s2c))
Arrived == RequestsIn(XidsOf(toProcess))

ToGo   == Packed \cup Packing
OnWire == Arrived \cup Coming \cup Going

LEMMA ReplyNames ==
    ASSUME TypeOK
    PROVE  /\ s2c \in Seq(Replies) /\ XidsOf(s2c) \in Seq(Packets)
           /\ c2s \in Seq(Packets) /\ toSend \in Seq(Packets)
           /\ \A m \in Replies : m.xid \in Packets
           /\ \A m \in Replies : XidsOf(Append(s2c, m))
                                    = Append(XidsOf(s2c), m.xid)
           /\ s2c # <<>> =>
                 /\ Head(s2c) \in Replies
                 /\ XidsOf(s2c) # <<>> /\ Head(XidsOf(s2c)) = Head(s2c).xid
                 /\ XidsOf(Tail(s2c)) = Tail(XidsOf(s2c))
           /\ \A k \in 0..Len(s2c) :
                 XidsOf(SubSeq(s2c, 1, k)) = SubSeq(XidsOf(s2c), 1, k)
           /\ Len(XidsOf(s2c)) = Len(s2c)
<1>1. \A m \in Replies : m.xid \in Packets
    BY PacketTypes
<1>2. s2c \in Seq(Replies) /\ c2s \in Seq(Packets) /\ toSend \in Seq(Packets)
    BY DEF TypeOK, QueueTypes
<1>3. s2c # <<>> => Head(s2c) \in Replies
    BY <1>2
<1>4. Len(XidsOf(s2c)) = Len(s2c)
    <2>1. DOMAIN s2c = 1..Len(s2c) /\ Len(s2c) \in Nat
        BY <1>2
    <2>2. \A i \in 1..Len(s2c) : s2c[i].xid \in Packets
        BY <1>1, <1>2
    <2>3. QED
        BY <2>1, <2>2, IsASeq DEF XidsOf
<1>5. QED
    BY <1>1, <1>2, <1>3, <1>4, Xids

LEMMA NoneLeft ==
    ASSUME NEW S, NEW q \in Seq(S), Len(q) = 0 PROVE q = <<>>
OBVIOUS

(* to_process holds one message while it is dispatched, otherwise none. *)
LEMMA OneReply ==
    ASSUME NEW q \in Seq(Replies), Len(q) \in {0, 1}, NEW T
    PROVE  /\ XidsOf(q) \in Seq(Packets) /\ Sorted(XidsOf(q), T)
           /\ RequestsIn(XidsOf(q))
                 = IF Len(q) = 1 THEN {Head(q).xid} \cap Requests ELSE {}
<1>1. CASE Len(q) = 1
    <2>1. XidsOf(q) = <<Head(q).xid>>
        BY <1>1 DEF XidsOf
    <2>2. Head(q).xid \in Packets
        BY <1>1, PacketTypes
    <2>3. QED
        BY <1>1, <2>1, <2>2, SortedOne
<1>2. CASE Len(q) = 0
    <2>1. q = <<>>
        BY <1>2, NoneLeft
    <2>2. XidsOf(q) = <<>>
        BY <2>1 DEF XidsOf
    <2>3. QED
        BY <1>2, <2>2, SortedEmpty
<1>3. QED
    BY <1>1, <1>2

LEMMA ArrivedOne ==
    ASSUME TypeOK, NEW T
    PROVE  /\ Sorted(XidsOf(toProcess), T)
           /\ XidsOf(toProcess) \in Seq(Packets)
           /\ Arrived = IF ioPc \in {"dispatch", "match"}
                        THEN {Head(toProcess).xid} \cap Requests ELSE {}
<1>1. /\ toProcess \in Seq(Replies)
      /\ Len(toProcess) = IF ioPc \in {"dispatch", "match"} THEN 1 ELSE 0
    BY DEF TypeOK, ThreadTypes
<1>2. QED
    BY <1>1, OneReply DEF Arrived

LEMMA ArrivedNext ==
    ASSUME TypeOK'
    PROVE  Arrived' = IF ioPc' \in {"dispatch", "match"}
                      THEN {Head(toProcess').xid} \cap Requests ELSE {}
<1>1. /\ toProcess' \in Seq(Replies)
      /\ Len(toProcess') = IF ioPc' \in {"dispatch", "match"} THEN 1 ELSE 0
    BY DEF TypeOK, ThreadTypes
<1>2. QED
    BY <1>1, OneReply DEF Arrived

LEMMA ReadPlaces ==
    ASSUME TypeOK, s2c # <<>>, s2c' = Tail(s2c), NEW T
    PROVE  LET X == {Head(s2c).xid} \cap Requests
           IN  /\ Coming = Coming' \cup X
               /\ Sorted(XidsOf(s2c), T) =>
                     Sorted(XidsOf(s2c'), T) /\ X \X Coming' \subseteq T
<1>1. /\ XidsOf(s2c) \in Seq(Packets) /\ XidsOf(s2c) # <<>>
      /\ Head(XidsOf(s2c)) = Head(s2c).xid
      /\ XidsOf(s2c') = Tail(XidsOf(s2c))
    BY ReplyNames
<1>2. QED
    BY <1>1, SortedTail DEF Coming

LEMMA ReplyPlaces ==
    ASSUME TypeOK, NEW m \in Replies, s2c' = Append(s2c, m), NEW T
    PROVE  LET X == {m.xid} \cap Requests
           IN  /\ Coming' = Coming \cup X
               /\ Sorted(XidsOf(s2c), T) /\ Coming \X X \subseteq T
                     => Sorted(XidsOf(s2c'), T)
<1>1. /\ XidsOf(s2c) \in Seq(Packets) /\ m.xid \in Packets
      /\ XidsOf(s2c') = Append(XidsOf(s2c), m.xid)
    BY ReplyNames
<1> DEFINE q == XidsOf(s2c)
           t == XidsOf(s2c')
<1>2. Coming = RequestsIn(q) /\ Coming' = RequestsIn(t)
    BY DEF Coming
<1>3. q \in Seq(Packets) /\ m.xid \in Packets /\ t = Append(q, m.xid)
    BY <1>1
<1> HIDE DEF q, t
<1>4. /\ RequestsIn(t) = RequestsIn(q) \cup ({m.xid} \cap Requests)
      /\ Sorted(q, T) /\ RequestsIn(q) \X ({m.xid} \cap Requests) \subseteq T
            => Sorted(t, T)
    BY <1>3, SortedAppend
<1>5. QED
    BY <1>2, <1>4 DEF q, t

LEMMA ServePlaces ==
    ASSUME TypeOK, c2s # <<>>, c2s' = Tail(c2s), NEW T
    PROVE  LET X == {Head(c2s)} \cap Requests
           IN  /\ Going = Going' \cup X
               /\ Sorted(c2s, T) =>
                     Sorted(c2s', T) /\ X \X Going' \subseteq T
<1>1. c2s \in Seq(Packets)
    BY ReplyNames
<1>2. QED
    BY <1>1, SortedTail DEF Going

LEMMA PackPlaces ==
    ASSUME TypeOK, NEW x \in Packets, toSend' = Append(toSend, x), NEW T
    PROVE  LET X == {x} \cap Requests
           IN  /\ Packed' = Packed \cup X
               /\ Sorted(toSend, T) /\ Packed \X X \subseteq T
                     => Sorted(toSend', T)
<1>1. toSend \in Seq(Packets)
    BY ReplyNames
<1>2. QED
    BY <1>1, SortedAppend DEF Packed

(* A flush moves requests from to_send to the wire; if that is broken they *)
(* are lost.                                                               *)
LEMMA FlushPlaces ==
    ASSUME TypeOK, NEW k \in 0..Len(toSend), flush_send_queue(k), NEW T
    PROVE  LET A == RequestsIn(SubSeq(toSend, 1, k))
           IN  /\ Packed = Packed' \cup A
               /\ Going' = IF fd = "open" THEN Going \cup A ELSE Going
               /\ fd # "open" => c2s' = c2s
               /\ Sorted(toSend, T) =>
                     /\ Sorted(toSend', T) /\ A \X Packed' \subseteq T
                     /\ Sorted(c2s, T) /\ Going \X Packed \subseteq T
                           => Sorted(c2s', T)
<1> DEFINE a == SubSeq(toSend, 1, k)
           A == RequestsIn(a)
<1>1. c2s \in Seq(Packets) /\ toSend \in Seq(Packets)
    BY ReplyNames
<1>2. /\ toSend' = SubSeq(toSend, k + 1, Len(toSend))
      /\ c2s' = IF fd = "open" THEN c2s \o a ELSE c2s
    BY DEF flush_send_queue
<1>3. /\ a \in Seq(Packets)
      /\ Packed = Packed' \cup A
      /\ Sorted(toSend, T) =>
            Sorted(a, T) /\ Sorted(toSend', T) /\ A \X Packed' \subseteq T
    BY <1>1, <1>2, SortedCut DEF Packed
<1> HIDE DEF a
<1>4. CASE fd = "open"
    <2>1. /\ Going' = Going \cup A
          /\ Sorted(c2s, T) /\ Sorted(a, T) /\ Going \X A \subseteq T
                => Sorted(c2s', T)
        BY <1>1, <1>2, <1>3, <1>4, SortedConcat DEF Going
    <2>2. A \subseteq Packed
        BY <1>3
    <2>3. QED
        BY <1>3, <1>4, <2>1, <2>2 DEF a
<1>5. CASE fd # "open"
    BY <1>2, <1>3, <1>5 DEF a, Going
<1>6. QED
    BY <1>4, <1>5

LEMMA BreakPlaces ==
    ASSUME TypeOK, NEW k \in 0..Len(s2c), s2c' = SubSeq(s2c, 1, k),
           c2s' = <<>>, NEW T
    PROVE  /\ Coming' \subseteq Coming /\ Going' = {} /\ Sorted(c2s', T)
           /\ Sorted(XidsOf(s2c), T) =>
                 /\ Sorted(XidsOf(s2c'), T)
                 /\ Coming' \X (Coming \ Coming') \subseteq T
<1>1. /\ XidsOf(s2c) \in Seq(Packets) /\ Len(XidsOf(s2c)) = Len(s2c)
      /\ XidsOf(s2c') = SubSeq(XidsOf(s2c), 1, k)
    BY ReplyNames
<1> DEFINE q == XidsOf(s2c)
           t == XidsOf(s2c')
           b == SubSeq(q, k + 1, Len(q))
<1>a. Coming = RequestsIn(q) /\ Coming' = RequestsIn(t)
    BY DEF Coming
<1>b. q \in Seq(Packets) /\ t = SubSeq(q, 1, k) /\ k \in 0..Len(q)
    BY <1>1
<1> HIDE DEF q, t
<1>2. /\ RequestsIn(q) = RequestsIn(t) \cup RequestsIn(b)
      /\ Sorted(q, T) =>
            Sorted(t, T) /\ RequestsIn(t) \X RequestsIn(b) \subseteq T
    BY <1>b, SortedCut
<1> HIDE DEF b
<1>3. Going' = {} /\ Sorted(c2s', T)
    BY SortedEmpty DEF Going
<1>4. QED
    BY <1>a, <1>2, <1>3 DEF q, t

LEMMA ReorderPlaces ==
    ASSUME TypeOK, ServerReorder
    PROVE  /\ Going' = Going
           /\ Sorted(c2s, Different) => Sorted(c2s', Different)
<1>1. /\ c2s \in Seq(Packets) /\ Len(c2s) \in Nat /\ Len(c2s) >= 2
      /\ c2s' = <<c2s[2], c2s[1]>> \o SubSeq(c2s, 3, Len(c2s))
    BY ReplyNames DEF ServerReorder
<1>2. DOMAIN c2s' = 1..Len(c2s) /\ DOMAIN c2s = 1..Len(c2s)
    BY <1>1
<1>3. c2s'[1] = c2s[2] /\ c2s'[2] = c2s[1]
    BY <1>1
<1>4. \A i \in DOMAIN c2s : i \notin {1, 2} => c2s'[i] = c2s[i]
    BY <1>1
<1>5. 1 \in DOMAIN c2s /\ 2 \in DOMAIN c2s
    BY <1>1
<1>6. ToSet(c2s') = ToSet(c2s)
    <2>1. ASSUME NEW i \in DOMAIN c2s
          PROVE  c2s[i] \in ToSet(c2s') /\ c2s'[i] \in ToSet(c2s)
        BY <1>2, <1>3, <1>4, <1>5 DEF ToSet
    <2>2. QED
        BY <1>2, <2>1 DEF ToSet
<1>7. ASSUME Sorted(c2s, Different) PROVE Sorted(c2s', Different)
    <2> SUFFICES ASSUME NEW i \in DOMAIN c2s, NEW j \in DOMAIN c2s, i < j,
                        c2s'[i] \in Requests, c2s'[j] \in Requests,
                        c2s'[i] = c2s'[j]
                 PROVE  FALSE
        BY <1>2 DEF Sorted, Different
    <2> DEFINE at(l) == IF l = 1 THEN 2 ELSE IF l = 2 THEN 1 ELSE l
    <2>1. ASSUME NEW l \in DOMAIN c2s
          PROVE  at(l) \in DOMAIN c2s /\ c2s'[l] = c2s[at(l)]
        BY <1>2, <1>3, <1>4, <1>5
    <2>2. at(i) # at(j)
        <3>1. i \in Nat /\ j \in Nat /\ i # j
            BY <1>1, <1>2
        <3>2. CASE i \in {1, 2}
            BY <3>1, <3>2
        <3>3. CASE i \notin {1, 2}
            BY <3>1, <3>3
        <3>4. QED
            BY <3>2, <3>3
    <2> DEFINE m == at(i)
               n == at(j)
    <2>3. /\ m \in DOMAIN c2s /\ n \in DOMAIN c2s /\ m # n
          /\ c2s[m] = c2s[n] /\ c2s[m] \in Requests
        BY <2>1, <2>2
    <2> HIDE DEF at, m, n
    <2>4. m < n \/ n < m
        BY <1>1, <1>2, <2>3
    <2>5. QED
        BY <1>7, <2>3, <2>4 DEF Sorted, Different
<1>8. QED
    BY <1>6, <1>7 DEF Going, RequestsIn
-----------------------------------------------------------------------------
(* Before zookeeper_close takes what is on sent_requests. *)
Intact == closerPc \in {"open", "purge"}

LEMMA ClosingIsFinal ==
    ASSUME Intact'
    PROVE  /\ [Next]_vars => Intact
           /\ ~(ClosePurge \/ CloseFailOne \/ CloseWakeIo \/ CloseJoinIo
                  \/ CloseJoinCt \/ CloseDestroy \/ CloseFree)
<1> USE DEF Intact
<1>1. ~(ClosePurge \/ CloseFailOne \/ CloseWakeIo \/ CloseJoinIo
          \/ CloseJoinCt \/ CloseDestroy \/ CloseFree)
    BY DEF ClosePurge, CloseFailOne, CloseWakeIo, CloseJoinIo, CloseJoinCt,
           CloseDestroy, CloseFree, closeVars
<1> SUFFICES ASSUME [Next]_vars PROVE Intact
    BY <1>1
<1>2. CASE UNCHANGED vars
    BY <1>2 DEF vars, closeVars
<1>3. ASSUME NEW r \in Requests, CallStep(r) PROVE Intact
    BY <1>3 DEF CallStep, Check, AddCompletion, QueueBuffer, SendQueue,
                WaitSync, closeVars
<1>4. CASE IoCleanup \/ IoFailOne \/ IoReset \/ IoExit \/ IoWrap \/ IoConnect
              \/ IoInterest \/ IoTimeout \/ IoWake \/ IoConnected
    BY <1>4 DEF IoCleanup, IoFailOne, IoReset, IoExit, IoWrap, IoConnect,
                IoInterest, IoTimeout, IoWake, IoConnected, closeVars
<1>5. CASE IoFlush \/ IoRead \/ IoHandshake \/ IoReadError \/ IoNothing
              \/ IoDispatchReserved \/ IoDispatchReply \/ IoComplete
              \/ IoMismatch
    BY <1>5 DEF IoFlush, IoRead, IoHandshake, IoReadError, IoNothing,
                IoDispatchReserved, IoDispatchReply, IoComplete, IoMismatch,
                closeVars
<1>6. CASE CtStep
    BY <1>6 DEF CtStep, CtLoop, CtWake, CtCallback, CtCallbackEnds, CtDrained,
                closeVars
<1>7. CASE CloseRequest
    BY <1>7 DEF CloseRequest
<1>8. CASE ServerHandshake \/ ServerAnswer \/ ServerReorder \/ ServerEvent
              \/ NetBreak
    BY <1>8 DEF ServerHandshake, ServerAnswer, ServerReorder, ServerEvent,
                NetBreak, closeVars
<1>9. QED
    BY <1>1, <1>2, <1>3, <1>4, <1>5, <1>6, <1>7, <1>8, NextCases DEF CallStep

(* A connection that is not open carries nothing, and one whose handshake  *)
(* is not over carries no request.                                         *)
WireInv ==
    /\ Settling <=> fd = "closed"
    /\ Intact => FdOpen \/ (c2s = <<>> /\ s2c = <<>>)
    /\ Intact => OnWire = {} \/ state = "CONNECTED"

LEMMA ErrorWire ==
    ASSUME TypeOK', NEW rc, NEW st, handle_error(rc, st)
    PROVE  WireInv'
<1>1. /\ fd' = "closed" /\ c2s' = <<>> /\ s2c' = <<>> /\ ioPc' = "cleanup"
    BY DEF handle_error, DropInFlight
<1>2. toProcess' = <<>>
    BY <1>1, NoneLeft DEF TypeOK, ThreadTypes
<1>3. XidsOf(<<>>) = <<>>
    BY DEF XidsOf
<1>4. Arrived' = {} /\ Coming' = {} /\ Going' = {}
    BY <1>1, <1>2, <1>3, SortedEmpty DEF Arrived, Coming, Going
<1>5. QED
    BY <1>1, <1>4 DEF WireInv, OnWire, FdOpen, Settling

LEMMA WireStep ==
    ASSUME BaseInv, TypeOK', WireInv, [Next]_vars
    PROVE  WireInv'
<1> TypeOK /\ ConnectionInv
    BY DEF BaseInv
<1>a. ThreadTypes /\ ThreadTypes' /\ FdOpen = (fd \in {"open", "broken"})
    BY DEF TypeOK, FdOpen
<1>b. /\ Reserved \cap Requests = {} /\ RequestsIn(<<>>) = {}
      /\ XidsOf(<<>>) = <<>>
    BY RequestsAssumption, SortedEmpty DEF XidsOf
<1>c. Len(toProcess) = 0 => toProcess = <<>>
    BY <1>a, NoneLeft DEF ThreadTypes
<1>d. Intact' => Intact
    BY ClosingIsFinal
<1>1. ASSUME UNCHANGED <<fd, state, s2c, c2s, toProcess>>,
             Settling' <=> Settling
      PROVE  WireInv'
    <2>1. OnWire' = OnWire
        BY <1>1 DEF OnWire, Arrived, Coming, Going
    <2>2. QED
        BY <1>1, <1>d, <2>1 DEF WireInv, FdOpen
<1>2. ASSUME UNCHANGED <<fd, state>>, OnWire' \subseteq OnWire, FdOpen,
             ~Settling'
      PROVE  WireInv'
    BY <1>2, <1>d DEF WireInv, FdOpen
<1>3. CASE UNCHANGED vars
    BY <1>1, <1>3 DEF vars, connVars, queueVars, netVars, ioVars,
                      Settling
<1>4. ASSUME NEW k \in 0..Len(toSend), flush_send_queue(k),
             state = "CONNECTED",
             UNCHANGED <<state, fd, s2c>>,
             Settling' <=> Settling
      PROVE  WireInv'
    <2>1. fd # "open" => c2s' = c2s
        BY <1>4 DEF flush_send_queue
    <2>2. QED
        BY <1>4, <1>d, <2>1 DEF WireInv, FdOpen
<1>5. ASSUME NEW r \in Requests, CallStep(r) PROVE WireInv'
    <2>1. CASE Check(r) \/ AddCompletion(r) \/ QueueBuffer(r) \/ WaitSync(r)
        BY <1>1, <2>1 DEF Check, AddCompletion, QueueBuffer, WaitSync,
                          connVars, queueVars, netVars, ioVars,
                          Settling
    <2>2. CASE SendQueue(r)
        <3>1. UNCHANGED <<state, fd, s2c, toProcess, ioPc>>
            BY <2>2 DEF SendQueue, connVars, ioVars
        <3>a. Settling' <=> Settling
            BY <3>1 DEF Settling
        <3>2. \/ /\ state = "CONNECTED"
                 /\ \E k \in 0..Len(toSend) : flush_send_queue(k)
              \/ c2s' = c2s
            BY <2>2 DEF SendQueue
        <3>3. QED
            BY <1>1, <1>4, <3>1, <3>a, <3>2
    <2>3. QED
        BY <1>5, <2>1, <2>2 DEF CallStep
<1>6. CASE IoCleanup
    <2>1. /\ UNCHANGED <<fd, state, s2c, c2s>> /\ ioPc = "cleanup"
          /\ ioPc' = "fail" /\ toProcess' = <<>>
        BY <1>6 DEF IoCleanup, connVars, netVars
    <2>2. OnWire' \subseteq OnWire
        BY <1>b, <2>1 DEF OnWire, Arrived, Coming, Going
    <2>3. QED
        BY <1>d, <2>1, <2>2 DEF WireInv, FdOpen, Settling
<1>7. CASE IoFailOne \/ IoExit \/ IoWrap \/ IoInterest \/ IoWake \/ IoNothing
    BY <1>1, <1>7 DEF IoFailOne, IoExit, IoWrap, IoInterest, IoWake, IoNothing,
                      IoLoop, connVars, queueVars, netVars, ioVars,
                          Settling
<1>8. CASE IoReset
    <2>1. /\ UNCHANGED <<s2c, c2s, closerPc>> /\ ioPc = "fail"
          /\ ioPc' = "loop" /\ fd' = "none"
        BY <1>8 DEF IoReset, netVars, closeVars
    <2>2. fd = "closed" /\ toProcess' = <<>>
        BY <1>a, <2>1, NoneLeft DEF WireInv, ThreadTypes, Settling
    <2>3. Intact' => c2s' = <<>> /\ s2c' = <<>>
        BY <1>a, <1>d, <2>1, <2>2 DEF WireInv
    <2>4. Intact' => OnWire' = {}
        BY <1>b, <2>2, <2>3 DEF OnWire, Arrived, Coming, Going
    <2>5. QED
        BY <2>1, <2>3, <2>4 DEF WireInv, Settling
<1>9. RequestsIn(<<"connect">>) = {}
    BY <1>b, SortedOne DEF Reserved
<1>10. CASE IoConnect
    <2>1. CASE handle_error("ZCONNECTIONLOSS", state)
        BY <2>1, ErrorWire
    <2>2. CASE /\ fd = "none" /\ fd' = "open"
               /\ ioPc = "loop" /\ ioPc' = "poll"
               /\ s2c' = s2c /\ toProcess' = toProcess
               /\ c2s' = c2s \/ c2s' = <<"connect">>
        <3>1. Intact' => c2s = <<>> /\ s2c = <<>>
            BY <1>a, <1>d, <2>2 DEF WireInv
        <3>2. toProcess = <<>>
            BY <1>a, <1>c, <2>2 DEF ThreadTypes
        <3>3. Intact' => OnWire' = {}
            BY <1>b, <1>9, <2>2, <3>1, <3>2
               DEF OnWire, Arrived, Coming, Going
        <3>4. QED
            BY <2>2, <3>3 DEF WireInv, FdOpen, Settling
    <2>3. QED
        BY <1>10, <2>1, <2>2 DEF IoConnect, IoLoop, PrimeConnection, netVars
<1>11. CASE IoConnected
    <2>1. CASE handle_error("ZCONNECTIONLOSS", state)
        BY <2>1, ErrorWire
    <2>2. CASE /\ ioPc = "poll" /\ ioPc' = "loop" /\ state = "CONNECTING"
               /\ fd' = fd /\ s2c' = s2c /\ toProcess' = toProcess
               /\ c2s' = <<"connect">>
        <3>1. Intact' => OnWire = {}
            BY <1>d, <2>2 DEF WireInv
        <3>2. OnWire' \subseteq OnWire
            BY <1>9, <2>2 DEF OnWire, Arrived, Coming, Going
        <3>3. FdOpen
            BY <1>a, <2>2 DEF WireInv, Settling, ConnectionInv, Connecting,
                              TypeOK, ConnTypes
        <3>4. QED
            BY <2>2, <3>1, <3>2, <3>3 DEF WireInv, FdOpen, Settling
    <2>3. QED
        BY <1>11, <2>1, <2>2 DEF IoConnected, PrimeConnection
<1>12. CASE IoTimeout \/ IoReadError \/ IoMismatch
    BY <1>12, ErrorWire DEF IoTimeout, IoReadError, IoMismatch
<1>13. CASE IoFlush
    <2>1. CASE handle_error("ZCONNECTIONLOSS", state)
        BY <2>1, ErrorWire
    <2>2. CASE /\ \E k \in 1..Len(toSend) : flush_send_queue(k)
               /\ UNCHANGED <<state, fd, s2c>> /\ ioPc' = "read"
        <3>1. PICK k \in 0..Len(toSend) : flush_send_queue(k)
            BY <2>2
        <3>2. state = "CONNECTED"
            BY <1>13 DEF IoFlush
        <3>3. ~Settling' /\ ~Settling
            BY <1>13, <2>2 DEF IoFlush, Settling
        <3>4. QED
            BY <1>4, <2>2, <3>1, <3>2, <3>3
    <2>3. QED
        BY <1>13, <2>1, <2>2 DEF IoFlush
<1>14. CASE IoRead
    <2>1. /\ s2c # <<>> /\ s2c' = Tail(s2c) /\ UNCHANGED <<state, fd, c2s>>
          /\ ioPc \in {"poll", "read"} /\ ioPc' = "dispatch"
          /\ toProcess' = Append(toProcess, Head(s2c))
        BY <1>14 DEF IoRead, connVars
    <2>2. toProcess = <<>>
        BY <1>a, <1>c, <2>1 DEF ThreadTypes
    <2>3. Head(toProcess') = Head(s2c)
        BY <2>1, <2>2, ReplyNames
    <2>4. Arrived' = {Head(s2c).xid} \cap Requests
        BY <2>1, <2>3, ArrivedNext
    <2>5. Coming = Coming' \cup ({Head(s2c).xid} \cap Requests)
        BY <2>1, ReadPlaces
    <2>6. OnWire' \subseteq OnWire
        BY <2>1, <2>4, <2>5 DEF OnWire, Going
    <2>7. QED
        BY <1>d, <2>1, <2>6 DEF WireInv, FdOpen, Settling
<1>15. CASE IoHandshake
    <2>1. CASE handle_error("ZSESSIONEXPIRED", "EXPIRED")
        BY <2>1, ErrorWire
    <2>2. CASE /\ state' = "CONNECTED" /\ fd' = fd /\ ioPc' = "loop"
               /\ c2s' = c2s /\ s2c # <<>>
        BY <1>a, <1>d, <1>15, <2>2 DEF IoHandshake, WireInv, FdOpen, Settling
    <2>3. QED
        BY <1>15, <2>1, <2>2 DEF IoHandshake
<1>16. ASSUME ioPc' = "loop", ~Settling, UNCHANGED <<fd, state, s2c, c2s>>
       PROVE  WireInv'
    <2>1. Arrived' = {}
        BY <1>16, ArrivedNext DEF Settling
    <2>2. OnWire' \subseteq OnWire
        BY <1>16, <2>1 DEF OnWire, Coming, Going
    <2>3. QED
        BY <1>d, <1>16, <2>2 DEF WireInv, FdOpen, Settling
<1>17. CASE IoDispatchReserved
    <2>1. CASE handle_error("ZAUTHFAILED", "AUTH_FAILED")
        BY <2>1, ErrorWire
    <2>2. CASE ioPc' = "loop" /\ UNCHANGED <<fd, state, s2c, c2s>>
        BY <1>16, <1>17, <2>2 DEF IoDispatchReserved, Settling
    <2>3. QED
        BY <1>17, <2>1, <2>2 DEF IoDispatchReserved, netVars
<1>18. CASE IoDispatchReply \/ IoComplete
    <2>1. CASE ioPc' = "loop" /\ UNCHANGED <<fd, state, s2c, c2s>>
        BY <1>16, <1>18, <2>1 DEF IoDispatchReply, IoComplete, Settling
    <2>2. CASE UNCHANGED <<fd, state, s2c, c2s, toProcess>> /\ ioPc' = "match"
        BY <1>1, <1>18, <2>2 DEF IoDispatchReply, IoComplete, Settling
    <2>3. QED
        BY <1>18, <2>1, <2>2 DEF IoDispatchReply, IoComplete, connVars, netVars
<1>19. CASE CtStep
    BY <1>1, <1>19 DEF CtStep, CtLoop, CtWake, CtCallback, CtCallbackEnds,
                       CtDrained, connVars, queueVars, netVars, ioVars,
                          Settling
<1>20. CASE CloseRequest
    BY <1>1, <1>20 DEF CloseRequest, connVars, queueVars, netVars, ioVars,
                          Settling
<1>21. CASE ClosePurge \/ CloseFailOne \/ CloseWakeIo \/ CloseJoinIo
               \/ CloseJoinCt \/ CloseDestroy \/ CloseFree
    <2>1. ~Intact'
        BY <1>21, ClosingIsFinal
    <2>2. ioPc' = ioPc /\ (fd' = fd \/ CloseFree)
        BY <1>21 DEF ClosePurge, CloseFailOne, CloseWakeIo, CloseJoinIo,
                     CloseJoinCt, CloseDestroy, CloseFree, connVars, ioVars
    <2>3. CloseFree => ioPc = "exit"
        BY DEF CloseFree, ConnectionInv, IoJoined
    <2>4. CloseFree => fd' # "closed"
        BY <1>a, <2>3 DEF CloseFree, WireInv, Settling
    <2>5. QED
        BY <2>1, <2>2, <2>3, <2>4 DEF WireInv, Settling
<1>22. CASE ServerHandshake \/ ServerAnswer
    <2>1. /\ fd = "open" /\ UNCHANGED <<fd, state, toProcess, ioPc>>
          /\ c2s # <<>> /\ c2s' = Tail(c2s)
        BY <1>22 DEF ServerHandshake, ServerAnswer, connVars, queueVars, ioVars
    <2>2. PICK m \in Replies : m.xid = Head(c2s) /\ s2c' = Append(s2c, m)
        <3>1. Head(c2s) \in Packets
            BY <2>1, ReplyNames
        <3>2. \E ok \in BOOLEAN :
                 s2c' = Append(s2c, [xid |-> Head(c2s), ok |-> ok])
            BY <1>22 DEF ServerHandshake, ServerAnswer
        <3>3. QED
            BY <3>1, <3>2, PacketTypes
    <2>3. /\ Going = Going' \cup ({Head(c2s)} \cap Requests)
          /\ Coming' = Coming \cup ({Head(c2s)} \cap Requests)
        BY <2>1, <2>2, ServePlaces, ReplyPlaces
    <2>4. Arrived' = Arrived
        BY <2>1 DEF Arrived
    <2>5. OnWire' \subseteq OnWire
        BY <2>3, <2>4 DEF OnWire
    <2>6. QED
        BY <1>d, <2>1, <2>5 DEF WireInv, FdOpen, Settling
<1>23. CASE ServerReorder
    <2>1. UNCHANGED <<fd, state, toProcess, s2c, ioPc>> /\ c2s # <<>>
        BY <1>23 DEF ServerReorder, connVars, queueVars, ioVars
    <2>2. OnWire' = OnWire
        BY <1>23, <2>1, ReorderPlaces DEF OnWire, Arrived, Coming
    <2>3. QED
        BY <1>d, <2>1, <2>2 DEF WireInv, FdOpen, Settling
<1>24. CASE ServerEvent
    BY <1>24, <1>d DEF ServerEvent, WireInv, FdOpen, connVars, ioVars,
                            Settling
<1>25. CASE NetBreak
    <2>1. /\ fd = "open" /\ fd' = "broken" /\ c2s' = <<>>
          /\ UNCHANGED <<state, toProcess, ioPc>>
        BY <1>25 DEF NetBreak, DropInFlight, queueVars, ioVars
    <2>2. PICK k \in 0..Len(s2c) : s2c' = SubSeq(s2c, 1, k)
        BY <1>25 DEF NetBreak
    <2>3. Coming' \subseteq Coming /\ Going' = {} /\ Arrived' = Arrived
        BY <2>1, <2>2, BreakPlaces DEF Arrived
    <2>4. OnWire' \subseteq OnWire
        BY <2>3 DEF OnWire
    <2>5. QED
        BY <1>d, <2>1, <2>4 DEF WireInv, FdOpen, Settling
<1>26. QED
    BY <1>3, <1>5, <1>6, <1>7, <1>8, <1>10, <1>11, <1>12, <1>13, <1>14, <1>15,
       <1>17, <1>18, <1>19, <1>20, <1>21, <1>22, <1>23, <1>24, <1>25,
       NextCases DEF CallStep
-----------------------------------------------------------------------------
(* send_auth_info and send_set_watches put no request in front of to_send. *)
LEMMA GreetingPlaces ==
    ASSUME TypeOK, toSend' = Greeting \o toSend, NEW T
    PROVE  /\ Packed' = Packed
           /\ Sorted(toSend, T) => Sorted(toSend', T)
<1> DEFINE g == Greeting
           a == IF "auth" \in Extras THEN <<"auth">> ELSE <<>>
           b == IF "set_watches" \in Extras THEN <<"set_watches">> ELSE <<>>
<1>1. {"auth", "set_watches"} \cap Requests = {}
    BY RequestsAssumption DEF Reserved
<1>2. /\ RequestsIn(<<>>) = {} /\ RequestsIn(<<"auth">>) = {}
      /\ RequestsIn(<<"set_watches">>) = {}
      /\ Sorted(<<>>, T) /\ Sorted(<<"auth">>, T)
      /\ Sorted(<<"set_watches">>, T)
    BY <1>1, SortedOne, SortedEmpty
<1>a. {"auth", "set_watches"} \subseteq Packets
    BY DEF Packets, Reserved
<1>3. /\ a \in Seq(Packets) /\ RequestsIn(a) = {} /\ Sorted(a, T)
      /\ b \in Seq(Packets) /\ RequestsIn(b) = {} /\ Sorted(b, T)
    <2>1. a = <<>> \/ a = <<"auth">>
        OBVIOUS
    <2>2. b = <<>> \/ b = <<"set_watches">>
        OBVIOUS
    <2>3. <<"auth">> \in Seq(Packets) /\ <<"set_watches">> \in Seq(Packets)
          /\ <<>> \in Seq(Packets)
        BY <1>a
    <2> HIDE DEF a, b
    <2>4. QED
        BY <1>2, <2>1, <2>2, <2>3
<1>4. g = a \o b
    BY DEF Greeting
<1> HIDE DEF a, b, g
<1>5. g \in Seq(Packets) /\ RequestsIn(g) = {} /\ Sorted(g, T)
    BY <1>3, <1>4, SortedConcat
<1> DEFINE q == toSend
           t == toSend'
<1>6. q \in Seq(Packets) /\ t = g \o q
    BY ReplyNames DEF g
<1>b. Packed = RequestsIn(q) /\ Packed' = RequestsIn(t)
    BY DEF Packed
<1> HIDE DEF q, t
<1>7. /\ RequestsIn(g \o q) = RequestsIn(g) \cup RequestsIn(q)
      /\ Sorted(g \o q, T) <=> Sorted(g, T) /\ Sorted(q, T)
                                /\ RequestsIn(g) \X RequestsIn(q) \subseteq T
    BY <1>5, <1>6, SortedConcat
<1>c. {} \X RequestsIn(q) = {}
    OBVIOUS
<1>d. RequestsIn(t) = RequestsIn(q) /\ (Sorted(q, T) => Sorted(t, T))
    BY <1>5, <1>6, <1>7, <1>c
<1>8. QED
    BY <1>b, <1>d DEF q, t

(* Only a faulty server answers in another order than that of the calls.   *)
WireOrder == IF ServerFaulty THEN Different ELSE Earlier

InPipe == OnWire \cup ToGo
Gone   == (Held \cup Waiting) \ InPipe

InWireOrder ==
    /\ Sorted(XidsOf(s2c), WireOrder) /\ Sorted(c2s, WireOrder)
    /\ Sorted(toSend, WireOrder)
    /\ Arrived \X (Coming \cup Going \cup Packed \cup Packing)
          \subseteq WireOrder
    /\ Coming \X (Going \cup Packed \cup Packing) \subseteq WireOrder
    /\ Going \X (Packed \cup Packing) \subseteq WireOrder
    /\ Packed \X Packing \subseteq WireOrder

(* What has gone was lost by a broken connection, all at once: it comes    *)
(* after what can still be read and before what is not sent yet.           *)
GoneTogether ==
    /\ Gone # {} => fd = "broken"
    /\ ~ServerFaulty => /\ OnWire \X Gone \subseteq Earlier
                        /\ Gone \X ToGo \subseteq Earlier

PipeInv ==
    Intact /\ ioPc # "cleanup" =>
       InWireOrder /\ InPipe \subseteq Held \cup Waiting /\ GoneTogether

LEMMA WireOrderFacts ==
    ASSUME IssuedOnce
    PROVE  /\ WireOrder \subseteq Different /\ \A y : <<y, y>> \notin WireOrder
           /\ ~ServerFaulty => WireOrder = Earlier
           /\ issued' = issued => WireOrder' = WireOrder /\ Earlier' = Earlier
BY EarlierFacts DEF WireOrder, Different, Earlier

(* The steps by which requests move along the pipe. *)
LEMMA PipeFrame ==
    ASSUME IssuedOnce, InWireOrder, InPipe \subseteq Held \cup Waiting,
           GoneTogether,
           UNCHANGED <<Arrived, Coming, Going, Packed, Packing, issued>>,
           Held' \cup Waiting' = Held \cup Waiting,
           Sorted(XidsOf(s2c'), WireOrder), Sorted(c2s', WireOrder),
           Sorted(toSend', WireOrder),
           fd = "broken" => fd' = "broken"
    PROVE  /\ InWireOrder' /\ GoneTogether'
           /\ (InPipe \subseteq Held \cup Waiting)'
<1>1. WireOrder' = WireOrder /\ Earlier' = Earlier
    BY WireOrderFacts
<1>2. UNCHANGED <<OnWire, ToGo, InPipe, Gone>>
    BY DEF OnWire, ToGo, InPipe, Gone
<1>3. QED
    BY <1>1, <1>2 DEF InWireOrder, GoneTogether

LEMMA PipeAccept ==
    ASSUME PlacesInv, InWireOrder, InPipe \subseteq Held \cup Waiting,
           GoneTogether, NEW r \in Requests, Accept(r),
           critical = NoOne, critical' = r,
           UNCHANGED <<toProcess, s2c, c2s, toSend, fd>>
    PROVE  /\ InWireOrder' /\ GoneTogether'
           /\ (InPipe \subseteq Held \cup Waiting)'
<1>1. TypeOK /\ IssuedOnce /\ PlaceInv
    BY DEF PlacesInv, BaseInv
<1>2. /\ r \notin Accepted /\ Waiting' = Waiting \cup {r} /\ Held' = Held
      /\ Earlier \subseteq Earlier' /\ Accepted \X {r} \subseteq Earlier'
    BY <1>1, AcceptPlaces
<1>3. UNCHANGED <<Arrived, Coming, Going, Packed>>
    BY DEF Arrived, Coming, Going, Packed
<1>4. Packing = {} /\ Packing' = {r}
    BY RequestsAssumption DEF Packing
<1>5. Held \cup Waiting \subseteq Accepted /\ Accepted \subseteq Requests
    BY <1>1 DEF PlaceInv, Accepted
<1>6. WireOrder \subseteq WireOrder' /\ Accepted \X {r} \subseteq WireOrder'
    BY <1>2, <1>5 DEF WireOrder, Different
<1>7. /\ OnWire' = OnWire /\ ToGo' = ToGo \cup {r}
      /\ InPipe' = InPipe \cup {r} /\ Gone' = Gone
    BY <1>2, <1>3, <1>4, <1>5 DEF OnWire, ToGo, InPipe, Gone
<1>8. InWireOrder'
    <2>1. /\ Sorted(XidsOf(s2c'), WireOrder') /\ Sorted(c2s', WireOrder')
          /\ Sorted(toSend', WireOrder')
        BY <1>6, SortedWeaken DEF InWireOrder
    <2>2. /\ Arrived \subseteq Accepted /\ Coming \subseteq Accepted
          /\ Going \subseteq Accepted /\ Packed \subseteq Accepted
        BY <1>5 DEF InPipe, OnWire, ToGo
    <2>3. QED
        BY <1>3, <1>4, <1>6, <2>1, <2>2 DEF InWireOrder
<1>9. GoneTogether'
    <2>1. Gone \subseteq Accepted
        BY <1>5 DEF Gone
    <2>2. QED
        BY <1>2, <1>7, <2>1 DEF GoneTogether
<1>10. QED
    BY <1>2, <1>7, <1>8, <1>9

LEMMA PipeQueue ==
    ASSUME TypeOK, IssuedOnce, InWireOrder, InPipe \subseteq Held \cup Waiting,
           GoneTogether, NEW r \in Requests, critical = r, critical' = NoOne,
           toSend' = Append(toSend, r),
           UNCHANGED <<toProcess, s2c, c2s, ioHeld, sentRequests, fd, issued>>
    PROVE  /\ InWireOrder' /\ GoneTogether'
           /\ (InPipe \subseteq Held \cup Waiting)'
<1>1. UNCHANGED <<Arrived, Coming, Going, Held, Waiting>>
    BY DEF Arrived, Coming, Going, Held, Waiting
<1>2. Packing = {r} /\ Packing' = {} /\ {r} \cap Requests = {r}
    BY RequestsAssumption DEF Packing
<1>3. r \in Packets
    BY PacketTypes
<1>4. /\ Packed' = Packed \cup {r} /\ Sorted(toSend', WireOrder)
    BY <1>2, <1>3, PackPlaces DEF InWireOrder
<1>5. UNCHANGED <<OnWire, ToGo, InPipe, Gone>>
    BY <1>1, <1>2, <1>4 DEF OnWire, ToGo, InPipe, Gone
<1>6. WireOrder' = WireOrder /\ Earlier' = Earlier
    BY WireOrderFacts
<1>7. InWireOrder'
    BY <1>1, <1>2, <1>4, <1>6 DEF InWireOrder
<1>8. QED
    BY <1>1, <1>5, <1>6, <1>7 DEF GoneTogether

LEMMA PipeFlush ==
    ASSUME TypeOK, IssuedOnce, InWireOrder, InPipe \subseteq Held \cup Waiting,
           GoneTogether, FdOpen,
           NEW k \in 0..Len(toSend), flush_send_queue(k),
           UNCHANGED <<toProcess, s2c, critical, ioHeld, sentRequests, fd,
                       issued>>,
           Arrived' = Arrived
    PROVE  /\ InWireOrder' /\ GoneTogether'
           /\ (InPipe \subseteq Held \cup Waiting)'
<1> DEFINE A == RequestsIn(SubSeq(toSend, 1, k))
<1>1. UNCHANGED <<Coming, Packing, Held, Waiting>>
    BY DEF Coming, Packing, Held, Waiting
<1>2. WireOrder' = WireOrder /\ Earlier' = Earlier
      /\ (~ServerFaulty => WireOrder = Earlier)
    BY WireOrderFacts
<1>3. /\ Packed = Packed' \cup A
      /\ Going' = IF fd = "open" THEN Going \cup A ELSE Going
      /\ fd # "open" => c2s' = c2s
      /\ Sorted(toSend', WireOrder) /\ A \X Packed' \subseteq WireOrder
      /\ Sorted(c2s', WireOrder)
    <2>1. Going \X Packed \subseteq WireOrder
        BY DEF InWireOrder
    <2>2. QED
        BY <2>1, FlushPlaces DEF InWireOrder
<1> HIDE DEF A
<1>4. InWireOrder'
    BY <1>1, <1>2, <1>3 DEF InWireOrder
<1>5. CASE fd = "open"
    <2>1. InPipe' = InPipe /\ Gone' = Gone /\ Gone = {}
        BY <1>1, <1>3, <1>5 DEF OnWire, ToGo, InPipe, Gone, GoneTogether
    <2>2. QED
        BY <1>1, <1>4, <2>1 DEF GoneTogether
<1>6. CASE fd = "broken"
    <2>1. /\ OnWire' = OnWire /\ ToGo = ToGo' \cup A
          /\ InPipe' \subseteq InPipe /\ Gone' \subseteq Gone \cup A
        BY <1>1, <1>3, <1>6 DEF OnWire, ToGo, InPipe, Gone
    <2>2. ASSUME ~ServerFaulty
          PROVE  OnWire \X A \subseteq Earlier /\ A \X ToGo' \subseteq Earlier
        BY <1>1, <1>2, <1>3, <2>2 DEF InWireOrder, OnWire, ToGo
    <2>3. ASSUME ~ServerFaulty
          PROVE  /\ OnWire' \X Gone' \subseteq Earlier
                 /\ Gone' \X ToGo' \subseteq Earlier
        BY <2>1, <2>2, <2>3 DEF GoneTogether
    <2>4. QED
        BY <1>1, <1>2, <1>4, <1>6, <2>1, <2>3 DEF GoneTogether
<1>7. QED
    BY <1>5, <1>6 DEF FdOpen

LEMMA PipeRead ==
    ASSUME TypeOK, IssuedOnce, InWireOrder, InPipe \subseteq Held \cup Waiting,
           GoneTogether, s2c # <<>>, s2c' = Tail(s2c),
           Arrived = {}, Arrived' = {Head(s2c).xid} \cap Requests,
           UNCHANGED <<c2s, toSend, critical, ioHeld, sentRequests, fd,
                       issued>>
    PROVE  /\ InWireOrder' /\ GoneTogether'
           /\ (InPipe \subseteq Held \cup Waiting)'
<1>1. UNCHANGED <<Going, Packed, Packing, Held, Waiting>>
    BY DEF Going, Packed, Packing, Held, Waiting
<1>2. WireOrder' = WireOrder /\ Earlier' = Earlier
    BY WireOrderFacts
<1>3. /\ Coming = Coming' \cup Arrived'
      /\ Arrived' \X Coming' \subseteq WireOrder
      /\ Sorted(XidsOf(s2c'), WireOrder)
    BY ReadPlaces DEF InWireOrder
<1>4. UNCHANGED <<OnWire, ToGo, InPipe, Gone>>
    BY <1>1, <1>3 DEF OnWire, ToGo, InPipe, Gone
<1>5. InWireOrder'
    BY <1>1, <1>2, <1>3 DEF InWireOrder
<1>6. QED
    BY <1>1, <1>2, <1>4, <1>5 DEF GoneTogether

LEMMA PipeAnswer ==
    ASSUME TypeOK, IssuedOnce, InWireOrder, InPipe \subseteq Held \cup Waiting,
           GoneTogether, c2s # <<>>, c2s' = Tail(c2s),
           NEW m \in Replies, m.xid = Head(c2s), s2c' = Append(s2c, m),
           UNCHANGED <<toProcess, toSend, critical, ioHeld, sentRequests, fd,
                       issued>>
    PROVE  /\ InWireOrder' /\ GoneTogether'
           /\ (InPipe \subseteq Held \cup Waiting)'
<1> DEFINE X == {Head(c2s)} \cap Requests
<1>1. UNCHANGED <<Arrived, Packed, Packing, Held, Waiting>>
    BY DEF Arrived, Packed, Packing, Held, Waiting
<1>2. WireOrder' = WireOrder /\ Earlier' = Earlier
    BY WireOrderFacts
<1>3. /\ Going = Going' \cup X /\ X \X Going' \subseteq WireOrder
      /\ Sorted(c2s', WireOrder)
    BY ServePlaces DEF InWireOrder
<1>4. Coming \X X \subseteq WireOrder
    BY <1>3 DEF InWireOrder
<1>5. Coming' = Coming \cup X /\ Sorted(XidsOf(s2c'), WireOrder)
    BY <1>4, ReplyPlaces DEF InWireOrder
<1> HIDE DEF X
<1>6. UNCHANGED <<OnWire, ToGo, InPipe, Gone>>
    BY <1>1, <1>3, <1>5 DEF OnWire, ToGo, InPipe, Gone
<1>7. InWireOrder'
    BY <1>1, <1>2, <1>3, <1>5 DEF InWireOrder
<1>8. QED
    BY <1>1, <1>2, <1>6, <1>7 DEF GoneTogether

LEMMA PipeComplete ==
    ASSUME PlacesInv, InWireOrder, InPipe \subseteq Held \cup Waiting,
           GoneTogether, ioHeld \in Requests, ioHeld' = NoOne,
           Arrived = {ioHeld}, Arrived' = {},
           UNCHANGED <<s2c, c2s, toSend, critical, sentRequests, fd, issued>>
    PROVE  /\ InWireOrder' /\ GoneTogether'
           /\ (InPipe \subseteq Held \cup Waiting)'
<1>1. UNCHANGED <<Coming, Going, Packed, Packing, Waiting>>
    BY DEF Coming, Going, Packed, Packing, Waiting
<1>2. /\ WireOrder' = WireOrder /\ Earlier' = Earlier
      /\ <<ioHeld, ioHeld>> \notin WireOrder
    BY WireOrderFacts DEF PlacesInv
<1>3. Held = {ioHeld} /\ Held' = {}
    BY RequestsAssumption DEF Held
<1>4. ioHeld \notin Waiting
    BY <1>3 DEF PlacesInv, PlaceInv
<1>5. ioHeld \notin Coming \cup Going \cup Packed \cup Packing
    BY <1>2 DEF InWireOrder
<1>6. /\ OnWire = OnWire' \cup {ioHeld} /\ ToGo' = ToGo
      /\ InPipe = InPipe' \cup {ioHeld} /\ ioHeld \notin InPipe'
    BY <1>1, <1>5 DEF OnWire, ToGo, InPipe
<1>7. Gone' = Gone /\ InPipe' \subseteq Held' \cup Waiting'
    BY <1>1, <1>3, <1>4, <1>6 DEF Gone
<1>8. InWireOrder'
    BY <1>1, <1>2 DEF InWireOrder
<1>9. QED
    BY <1>2, <1>6, <1>7, <1>8 DEF GoneTogether

LEMMA PipeBreak ==
    ASSUME TypeOK, IssuedOnce, InWireOrder, InPipe \subseteq Held \cup Waiting,
           GoneTogether, fd = "open", fd' = "broken", c2s' = <<>>,
           NEW k \in 0..Len(s2c), s2c' = SubSeq(s2c, 1, k),
           UNCHANGED <<toProcess, toSend, critical, ioHeld, sentRequests,
                       issued>>
    PROVE  /\ InWireOrder' /\ GoneTogether'
           /\ (InPipe \subseteq Held \cup Waiting)'
<1>1. UNCHANGED <<Arrived, Packed, Packing, Held, Waiting>>
    BY DEF Arrived, Packed, Packing, Held, Waiting
<1>2. WireOrder' = WireOrder /\ Earlier' = Earlier
      /\ (~ServerFaulty => WireOrder = Earlier)
    BY WireOrderFacts
<1>3. /\ Coming' \subseteq Coming /\ Going' = {} /\ Sorted(c2s', WireOrder)
      /\ Sorted(XidsOf(s2c'), WireOrder)
      /\ Coming' \X (Coming \ Coming') \subseteq WireOrder
    BY BreakPlaces DEF InWireOrder
<1>4. InWireOrder'
    BY <1>1, <1>2, <1>3 DEF InWireOrder
<1>5. /\ OnWire' = Arrived \cup Coming' /\ ToGo' = ToGo
      /\ InPipe' \subseteq InPipe
      /\ Gone' \subseteq (Coming \ Coming') \cup Going
    BY <1>1, <1>3 DEF OnWire, ToGo, InPipe, Gone, GoneTogether
<1>6. ASSUME ~ServerFaulty
      PROVE  /\ OnWire' \X Gone' \subseteq Earlier
             /\ Gone' \X ToGo' \subseteq Earlier
    <2> DEFINE D == (Coming \ Coming') \cup Going
    <2>1. (Arrived \cup Coming') \X D \subseteq Earlier
        BY <1>2, <1>3, <1>6 DEF InWireOrder
    <2>2. D \X ToGo \subseteq Earlier
        BY <1>2, <1>6 DEF InWireOrder, ToGo
    <2> HIDE DEF D
    <2>3. Gone' \subseteq D
        BY <1>5 DEF D
    <2>4. QED
        BY <1>5, <2>1, <2>2, <2>3
<1>7. QED
    BY <1>1, <1>2, <1>4, <1>5, <1>6 DEF GoneTogether

LEMMA PipeStep ==
    ASSUME PlacesInv, TypeOK', WireInv, PipeInv, [Next]_vars
    PROVE  PipeInv'
<1> /\ TypeOK /\ ConnectionInv /\ LockInv /\ PurgeInv /\ IssuedOnce /\ PlaceInv
    BY DEF PlacesInv, BaseInv
<1> DEFINE Goal ==
        InWireOrder' /\ (InPipe \subseteq Held \cup Waiting)' /\ GoneTogether'
<1> SUFFICES ASSUME Intact', ioPc' # "cleanup" PROVE Goal
    BY DEF PipeInv
<1>a. /\ CallTypes /\ ThreadTypes /\ ThreadTypes'
      /\ FdOpen = (fd \in {"open", "broken"})
    BY DEF TypeOK, FdOpen
<1>b. /\ Reserved \cap Requests = {} /\ RequestsIn(<<>>) = {}
      /\ XidsOf(<<>>) = <<>> /\ {"io", NoOne} \cap Requests = {}
    <2>1. RequestsIn(<<>>) = {} /\ XidsOf(<<>>) = <<>>
        BY SortedEmpty DEF XidsOf
    <2>2. QED
        BY <2>1, RequestsAssumption
<1>c. /\ Intact
      /\ ~(ClosePurge \/ CloseFailOne \/ CloseWakeIo \/ CloseJoinIo
             \/ CloseJoinCt \/ CloseDestroy \/ CloseFree)
    BY ClosingIsFinal
<1>d. ASSUME NEW rc, NEW st, handle_error(rc, st) PROVE FALSE
    BY <1>d DEF handle_error
<1>e. ioPc # "cleanup" =>
         /\ InWireOrder /\ InPipe \subseteq Held \cup Waiting /\ GoneTogether
         /\ Sorted(toSend, WireOrder) /\ Sorted(c2s, WireOrder)
         /\ Sorted(XidsOf(s2c), WireOrder)
    BY <1>c DEF PipeInv, InWireOrder
<1>f. ASSUME ioPc # "cleanup",
             UNCHANGED <<Arrived, Coming, Going, Packed, Packing, issued>>,
             UNCHANGED <<ioHeld, sentRequests>>,
             Sorted(XidsOf(s2c'), WireOrder), Sorted(c2s', WireOrder),
             Sorted(toSend', WireOrder), fd' = fd
      PROVE  Goal
    <2>1. Held' = Held /\ Waiting' = Waiting
        BY <1>f DEF Held, Waiting
    <2>2. QED
        BY <1>e, <1>f, <2>1, PipeFrame
<1>g. ASSUME ioPc # "cleanup",
             UNCHANGED <<toProcess, c2s, s2c, toSend, critical, issued, ioHeld,
                         sentRequests, fd>>
      PROVE  Goal
    <2>1. UNCHANGED <<Arrived, Coming, Going, Packed, Packing>>
        BY <1>g DEF Arrived, Coming, Going, Packed, Packing
    <2>2. QED
        BY <1>e, <1>f, <1>g, <2>1
<1>1. CASE UNCHANGED vars
    BY <1>1, <1>g DEF vars, callVars, connVars, queueVars, ioVars, netVars,
                      history
<1>2. ASSUME NEW r \in Requests, CallStep(r) PROVE Goal
    <2>1. CASE Check(r) \/ WaitSync(r)
        BY <2>1, <1>g DEF Check, WaitSync, connVars, queueVars, ioVars,
                          netVars, history
    <2>2. CASE AddCompletion(r)
        <3>1. /\ UNCHANGED <<toProcess, c2s, s2c, toSend, ioHeld, fd, ioPc,
                             completions, doomed, result, called>>
              /\ pc[r] = "checked" /\ critical = NoOne
              /\ \A q \in Requests : q # r => pc'[q] = pc[q]
              /\ \/ /\ pc'[r] = "added" /\ critical' = r /\ ~closeRequested
                    /\ issued' = Append(issued, r)
                    /\ sentRequests' = Append(sentRequests, r)
                 \/ UNCHANGED <<issued, sentRequests, critical>>
            BY <1>a, <2>2 DEF AddCompletion, Accepting, CallTypes, ioVars,
                              netVars, connVars
        <3>2. ASSUME pc'[r] = "added", critical' = r, ~closeRequested,
                     issued' = Append(issued, r),
                     sentRequests' = Append(sentRequests, r)
              PROVE  Goal
            <4>1. Accepted' = Accepted \cup {r}
                BY <3>1, <3>2 DEF Accepted
            <4>2. Accept(r)
                BY <3>1, <3>2, <4>1 DEF Accept
            <4>3. QED
                BY <1>e, <3>1, <3>2, <4>2, PipeAccept
        <3>3. QED
            BY <1>g, <3>1, <3>2
    <2>3. CASE QueueBuffer(r)
        <3>1. critical = r
            BY <2>3 DEF QueueBuffer, LockInv
        <3>2. /\ critical' = NoOne /\ toSend' = Append(toSend, r)
              /\ UNCHANGED <<toProcess, s2c, c2s, ioHeld, sentRequests, fd,
                             issued, ioPc>>
            BY <2>3 DEF QueueBuffer, connVars, ioVars, netVars, history
        <3>3. QED
            BY <1>e, <3>1, <3>2, PipeQueue
    <2>4. CASE SendQueue(r)
        <3>1. UNCHANGED <<toProcess, s2c, critical, ioHeld, sentRequests, fd,
                          issued, ioPc>>
            BY <2>4 DEF SendQueue, connVars, ioVars, history
        <3>2. \/ FdOpen /\ \E k \in 0..Len(toSend) : flush_send_queue(k)
              \/ UNCHANGED <<toSend, c2s>>
            BY <2>4 DEF SendQueue
        <3>3. Arrived' = Arrived
            BY <3>1 DEF Arrived
        <3>4. QED
            BY <1>e, <1>g, <3>1, <3>2, <3>3, PipeFlush
    <2>5. QED
        BY <1>2, <2>1, <2>2, <2>3, <2>4 DEF CallStep
<1>3. CASE IoCleanup
    <2>1. /\ ioPc = "cleanup" /\ ioPc' = "fail" /\ critical' = "io"
          /\ toSend' = <<>> /\ toProcess' = <<>> /\ sentRequests' = <<>>
          /\ UNCHANGED <<c2s, s2c>>
        BY <1>3 DEF IoCleanup, TakeSentRequests, netVars
    <2>2. fd = "closed"
        BY <2>1 DEF WireInv, Settling
    <2>3. c2s = <<>> /\ s2c = <<>>
        BY <1>a, <1>c, <2>2 DEF WireInv
    <2>4. ioHeld' = NoOne
        BY <1>a, <2>1 DEF ThreadTypes
    <2>5. /\ Arrived' = {} /\ Coming' = {} /\ Going' = {} /\ Packed' = {}
          /\ Packing' = {} /\ Held' = {} /\ Waiting' = {}
        BY <1>b, <2>1, <2>3, <2>4
           DEF Arrived, Coming, Going, Packed, Packing, Held, Waiting
    <2>6. /\ Sorted(XidsOf(s2c'), WireOrder') /\ Sorted(c2s', WireOrder')
          /\ Sorted(toSend', WireOrder')
        BY <1>b, <2>1, <2>3, SortedEmpty
    <2>7. InPipe' = {} /\ Gone' = {} /\ OnWire' = {}
        BY <2>5 DEF InPipe, OnWire, ToGo, Gone
    <2>8. \A S : {} \X S = {} /\ S \X {} = {}
        OBVIOUS
    <2>9. InWireOrder' /\ GoneTogether'
        BY <2>5, <2>6, <2>7, <2>8 DEF InWireOrder, GoneTogether
    <2>10. QED
        BY <2>7, <2>9
<1>4. CASE IoFailOne \/ IoExit \/ IoWrap \/ IoWake \/ IoNothing
    BY <1>4, <1>g DEF IoFailOne, IoExit, IoWrap, IoWake, IoNothing, IoLoop,
                      callVars, connVars, queueVars, ioVars, netVars, history
<1>5. CASE IoReset
    <2>1. /\ ioPc = "fail" /\ critical' = NoOne /\ fd' = "none"
          /\ UNCHANGED <<toProcess, c2s, s2c, toSend, issued, ioHeld,
                         sentRequests>>
        BY <1>5 DEF IoReset, queueVars, netVars, history
    <2>2. critical = "io" /\ fd = "closed"
        BY <2>1 DEF LockInv, WireInv, Settling
    <2>3. UNCHANGED <<Arrived, Coming, Going, Packed, Packing, Held, Waiting>>
        BY <1>b, <2>1, <2>2 DEF Arrived, Coming, Going, Packed, Packing, Held,
                                Waiting
    <2>4. QED
        BY <1>e, <2>1, <2>2, <2>3, PipeFrame
<1>6. CASE IoConnect
    <2>1. /\ ioPc = "loop" /\ fd = "none" /\ fd' = "open"
          /\ UNCHANGED <<toProcess, s2c, toSend, critical, issued, ioHeld,
                         sentRequests>>
          /\ c2s' = c2s \/ c2s' = <<"connect">>
        BY <1>6, <1>d DEF IoConnect, IoLoop, PrimeConnection, callVars, netVars
    <2>2. c2s = <<>>
        BY <1>a, <1>c, <2>1 DEF WireInv
    <2>3. Going = {} /\ Going' = {} /\ Sorted(c2s', WireOrder)
        BY <1>b, <2>1, <2>2, SortedOne, SortedEmpty DEF Going, Reserved
    <2>4. UNCHANGED <<Arrived, Coming, Packed, Packing, Held, Waiting>>
        BY <2>1 DEF Arrived, Coming, Packed, Packing, Held, Waiting
    <2>5. QED
        BY <1>e, <2>1, <2>3, <2>4, PipeFrame
<1>7. CASE IoInterest
    <2>1. /\ ioPc = "loop"
          /\ UNCHANGED <<toProcess, c2s, s2c, critical, issued, ioHeld,
                         sentRequests, fd>>
          /\ toSend' = toSend \/ toSend' = Append(toSend, "ping")
        BY <1>7 DEF IoInterest, IoLoop, callVars, connVars, netVars, history
    <2>2. CASE toSend' = Append(toSend, "ping")
        <3>1. "ping" \in Packets /\ {"ping"} \cap Requests = {}
            BY <1>b DEF Packets, Reserved
        <3>2. Packed \X {} = {}
            OBVIOUS
        <3>3. /\ Packed' = Packed
              /\ Sorted(toSend, WireOrder) => Sorted(toSend', WireOrder)
            BY <2>2, <3>1, <3>2, PackPlaces
        <3>4. UNCHANGED <<Arrived, Coming, Going, Packing>>
            BY <2>1 DEF Arrived, Coming, Going, Packing
        <3>5. QED
            BY <1>e, <1>f, <2>1, <3>3, <3>4
    <2>3. QED
        BY <1>g, <2>1, <2>2
<1>8. CASE IoTimeout \/ IoReadError \/ IoMismatch
    BY <1>8, <1>d DEF IoTimeout, IoReadError, IoMismatch
<1>9. CASE IoConnected
    <2>1. /\ ioPc = "poll" /\ state = "CONNECTING" /\ c2s' = <<"connect">>
          /\ UNCHANGED <<toProcess, s2c, toSend, critical, issued, ioHeld,
                         sentRequests, fd>>
        BY <1>9, <1>d DEF IoConnected, PrimeConnection, callVars
    <2>2. Going = {}
        BY <1>c, <2>1 DEF WireInv, OnWire
    <2>3. Going' = {} /\ Sorted(c2s', WireOrder)
        BY <1>b, <2>1, SortedOne DEF Going, Reserved
    <2>4. UNCHANGED <<Arrived, Coming, Packed, Packing>>
        BY <2>1 DEF Arrived, Coming, Packed, Packing
    <2>5. QED
        BY <1>e, <1>f, <2>1, <2>2, <2>3, <2>4
<1>10. CASE IoFlush
    <2>1. /\ ioPc = "poll"
          /\ UNCHANGED <<toProcess, s2c, critical, ioHeld, sentRequests, fd,
                         issued>>
          /\ \E k \in 1..Len(toSend) : flush_send_queue(k)
        BY <1>10, <1>d DEF IoFlush, callVars
    <2>2. PICK k \in 0..Len(toSend) : flush_send_queue(k)
        BY <2>1
    <2>3. FdOpen
        BY <1>a, <2>1 DEF WireInv, Settling, ConnectionInv, Connecting, TypeOK,
                          ConnTypes
    <2>4. Arrived' = Arrived
        BY <2>1 DEF Arrived
    <2>5. QED
        BY <1>e, <2>1, <2>2, <2>3, <2>4, PipeFlush
<1>11. CASE IoRead
    <2>1. /\ s2c # <<>> /\ s2c' = Tail(s2c)
          /\ ioPc \in {"poll", "read"} /\ ioPc' = "dispatch"
          /\ toProcess' = Append(toProcess, Head(s2c))
          /\ UNCHANGED <<c2s, toSend, critical, ioHeld, sentRequests, fd,
                         issued>>
        BY <1>11 DEF IoRead, callVars, connVars, history
    <2>2. toProcess = <<>>
        BY <1>a, <2>1, NoneLeft DEF ThreadTypes
    <2>3. Head(toProcess') = Head(s2c)
        BY <2>1, <2>2, ReplyNames
    <2>4. Arrived = {} /\ Arrived' = {Head(s2c).xid} \cap Requests
        BY <2>1, <2>3, ArrivedOne, ArrivedNext
    <2>5. QED
        BY <1>e, <2>1, <2>4, PipeRead
<1>12. CASE IoHandshake
    <2>1. /\ ioPc = "poll" /\ s2c # <<>> /\ Head(s2c).xid = "connect"
          /\ toSend' = Greeting \o toSend /\ s2c' = Tail(s2c)
          /\ UNCHANGED <<toProcess, c2s, critical, ioHeld, sentRequests, fd,
                         issued>>
        BY <1>12, <1>d DEF IoHandshake, callVars
    <2>2. {Head(s2c).xid} \cap Requests = {}
        BY <1>b, <2>1 DEF Reserved
    <2>3. Coming' = Coming /\ Sorted(XidsOf(s2c'), WireOrder)
        BY <1>e, <2>1, <2>2, ReadPlaces
    <2>4. Packed' = Packed /\ Sorted(toSend', WireOrder)
        BY <1>e, <2>1, GreetingPlaces
    <2>5. UNCHANGED <<Arrived, Going, Packing>>
        BY <2>1 DEF Arrived, Going, Packing
    <2>6. QED
        BY <1>e, <1>f, <2>1, <2>3, <2>4, <2>5
<1>13. CASE IoDispatchReserved
    <2>1. /\ ioPc = "dispatch" /\ ioPc' = "loop"
          /\ Head(toProcess).xid \in Reserved
          /\ UNCHANGED <<c2s, s2c, toSend, critical, issued, ioHeld,
                         sentRequests, fd>>
        BY <1>13, <1>d DEF IoDispatchReserved, callVars, netVars, Reserved
    <2>2. Arrived = {} /\ Arrived' = {}
        BY <1>b, <2>1, ArrivedOne, ArrivedNext
    <2>3. UNCHANGED <<Coming, Going, Packed, Packing>>
        BY <2>1 DEF Coming, Going, Packed, Packing
    <2>4. QED
        BY <1>e, <1>f, <2>1, <2>2, <2>3
<1>14. CASE IoDispatchReply
    <2>1. /\ ioPc = "dispatch" /\ Head(toProcess).xid \in Requests
          /\ UNCHANGED <<c2s, s2c, toSend, critical, issued, fd>>
        BY <1>14 DEF IoDispatchReply, callVars, connVars, netVars, history
    <2>2. ioHeld \notin Requests /\ Head(toProcess).xid \in Arrived
        BY <1>a, <1>b, <2>1, ArrivedOne DEF ThreadTypes
    <2>3. sentRequests # <<>>
        <3>1. Head(toProcess).xid \in Held \cup Waiting
            BY <1>e, <2>1, <2>2 DEF InPipe, OnWire
        <3>2. QED
            BY <1>b, <2>2, <3>1 DEF Held, Waiting
    <2>4. Hold /\ toProcess' = toProcess
        <3>1. UNCHANGED <<pc, issued, called, result, doomed, completions>>
            BY <1>14 DEF IoDispatchReply, callVars, history
        <3>2. Accepted' = Accepted
            BY <3>1 DEF Accepted
        <3>3. QED
            BY <1>14, <2>1, <2>2, <2>3, <3>1, <3>2
               DEF IoDispatchReply, Hold, Elsewhere
    <2>5. Held' \cup Waiting' = Held \cup Waiting
        BY <2>4, HoldPlaces
    <2>6. UNCHANGED <<Arrived, Coming, Going, Packed, Packing>>
        BY <2>1, <2>4 DEF Arrived, Coming, Going, Packed, Packing
    <2>7. QED
        BY <1>e, <2>1, <2>5, <2>6, PipeFrame
<1>15. CASE IoComplete
    <2>1. /\ ioPc = "match" /\ ioPc' = "loop" /\ ioHeld' = NoOne
          /\ Head(toProcess).xid = ioHeld
          /\ UNCHANGED <<s2c, c2s, toSend, critical, sentRequests, fd, issued>>
        BY <1>15 DEF IoComplete, callVars, connVars, netVars, history
    <2>2. ioHeld \in Requests
        BY <1>a, <2>1 DEF ThreadTypes
    <2>3. Arrived = {ioHeld} /\ Arrived' = {}
        BY <2>1, <2>2, ArrivedOne, ArrivedNext
    <2>4. QED
        BY <1>e, <2>1, <2>2, <2>3, PipeComplete
<1>16. CASE CtStep
    BY <1>16, <1>g DEF CtStep, CtLoop, CtWake, CtCallback, CtCallbackEnds,
                       CtDrained, callVars, connVars, queueVars, ioVars,
                       netVars, history
<1>17. CASE CloseRequest
    BY <1>17, <1>g DEF CloseRequest, callVars, connVars, queueVars, ioVars,
                       netVars, history
<1>18. CASE ServerHandshake \/ ServerAnswer
    <2>1. /\ c2s # <<>> /\ c2s' = Tail(c2s) /\ fd = "open"
          /\ UNCHANGED <<toProcess, toSend, critical, ioHeld, sentRequests, fd,
                         issued, ioPc>>
        BY <1>18 DEF ServerHandshake, ServerAnswer, callVars, connVars,
                     queueVars, ioVars, history
    <2>2. PICK m \in Replies : m.xid = Head(c2s) /\ s2c' = Append(s2c, m)
        <3>1. Head(c2s) \in Packets
            BY <2>1, ReplyNames
        <3>2. \E ok \in BOOLEAN :
                 s2c' = Append(s2c, [xid |-> Head(c2s), ok |-> ok])
            BY <1>18 DEF ServerHandshake, ServerAnswer
        <3>3. QED
            BY <3>1, <3>2, PacketTypes
    <2>3. QED
        BY <1>e, <2>1, <2>2, PipeAnswer
<1>19. CASE ServerReorder
    <2>1. /\ ServerFaulty
          /\ UNCHANGED <<toProcess, s2c, toSend, critical, issued, ioHeld,
                         sentRequests, fd, ioPc>>
        BY <1>19 DEF ServerReorder, callVars, connVars, queueVars, ioVars,
                     history
    <2>2. WireOrder = Different
        BY <2>1 DEF WireOrder
    <2>3. Going' = Going /\ (Sorted(c2s, Different) => Sorted(c2s', Different))
        BY <1>19, ReorderPlaces
    <2>4. UNCHANGED <<Arrived, Coming, Packed, Packing>>
        BY <2>1 DEF Arrived, Coming, Packed, Packing
    <2>5. QED
        BY <1>e, <1>f, <2>1, <2>2, <2>3, <2>4
<1>20. CASE ServerEvent
    <2>1. UNCHANGED <<toProcess, c2s, toSend, critical, issued, ioHeld,
                      sentRequests, fd, ioPc>>
        BY <1>20 DEF ServerEvent, callVars, connVars, queueVars, ioVars,
                     history
    <2>2. PICK m \in Replies : m.xid = "event" /\ s2c' = Append(s2c, m)
        BY <1>20, PacketTypes DEF ServerEvent, Packets, Reserved
    <2>3. {m.xid} \cap Requests = {} /\ Coming \X {} = {}
        BY <1>b, <2>2 DEF Reserved
    <2>4. /\ Coming' = Coming
          /\ Sorted(XidsOf(s2c), WireOrder)
                => Sorted(XidsOf(s2c'), WireOrder)
        BY <2>2, <2>3, ReplyPlaces
    <2>5. UNCHANGED <<Arrived, Going, Packed, Packing>>
        BY <2>1 DEF Arrived, Going, Packed, Packing
    <2>6. QED
        BY <1>e, <1>f, <2>1, <2>4, <2>5
<1>21. CASE NetBreak
    <2>1. /\ fd = "open" /\ fd' = "broken" /\ c2s' = <<>>
          /\ UNCHANGED <<toProcess, toSend, critical, ioHeld, sentRequests,
                         issued, ioPc>>
        BY <1>21 DEF NetBreak, DropInFlight, callVars, queueVars, ioVars,
                     history
    <2>2. PICK k \in 0..Len(s2c) : s2c' = SubSeq(s2c, 1, k)
        BY <1>21 DEF NetBreak
    <2>3. ioPc # "cleanup"
        BY <2>1 DEF WireInv, Settling
    <2>4. QED
        BY <1>e, <2>1, <2>2, <2>3, PipeBreak
<1>22. QED
    BY <1>1, <1>2, <1>3, <1>4, <1>5, <1>6, <1>7, <1>8, <1>9, <1>10, <1>11,
       <1>12, <1>13, <1>14, <1>15, <1>16, <1>17, <1>18, <1>19, <1>20, <1>21,
       <1>c, NextCases DEF CallStep

(* The entry that do_io takes off sent_requests is the one its message is  *)
(* the reply to: that one arrived, so it precedes all that is still on the *)
(* way and all that was lost, and the head of the list precedes it.        *)
MatchInv ==
    ~ServerFaulty /\ ioPc = "match" => Head(toProcess).xid = ioHeld

LEMMA MatchCases ==
    ASSUME ConnectionInv, [Next]_vars, ioPc' = "match"
    PROVE  UNCHANGED <<ioPc, ioHeld, toProcess>> \/ IoDispatchReply
<1>1. CASE UNCHANGED vars
    BY <1>1 DEF vars, ioVars, queueVars
<1>2. ASSUME NEW r \in Requests, CallStep(r)
      PROVE  UNCHANGED <<ioPc, ioHeld, toProcess>>
    BY <1>2 DEF CallStep, Check, AddCompletion, QueueBuffer, SendQueue,
                WaitSync, ioVars, queueVars
<1>3. CASE IoCleanup \/ IoFailOne \/ IoReset \/ IoExit \/ IoWrap \/ IoConnect
              \/ IoInterest \/ IoTimeout \/ IoWake \/ IoConnected
    BY <1>3 DEF IoCleanup, IoFailOne, IoReset, IoExit, IoWrap, IoConnect,
                IoInterest, IoTimeout, IoWake, IoConnected, IoLoop,
                handle_error, ioVars, queueVars
<1>4. CASE IoFlush \/ IoRead \/ IoHandshake \/ IoReadError \/ IoNothing
              \/ IoDispatchReserved \/ IoComplete \/ IoMismatch
    BY <1>4 DEF IoFlush, IoRead, IoHandshake, IoReadError, IoNothing,
                IoDispatchReserved, IoComplete, IoMismatch, handle_error,
                ioVars, queueVars
<1>5. CASE CtStep
    BY <1>5 DEF CtStep, CtLoop, CtWake, CtCallback, CtCallbackEnds, CtDrained,
                ioVars, queueVars
<1>6. CASE CloseRequest \/ ClosePurge \/ CloseFailOne \/ CloseWakeIo
              \/ CloseJoinIo \/ CloseJoinCt \/ CloseDestroy \/ CloseFree
    BY <1>6 DEF CloseRequest, ClosePurge, CloseFailOne, CloseWakeIo,
                CloseJoinIo, CloseJoinCt, CloseDestroy, CloseFree,
                ConnectionInv, IoJoined, ioVars, queueVars
<1>7. CASE ServerHandshake \/ ServerAnswer \/ ServerReorder \/ ServerEvent
              \/ NetBreak
    BY <1>7 DEF ServerHandshake, ServerAnswer, ServerReorder, ServerEvent,
                NetBreak, ioVars, queueVars
<1>8. QED
    BY <1>1, <1>2, <1>3, <1>4, <1>5, <1>6, <1>7, NextCases DEF CallStep

LEMMA MatchStep ==
    ASSUME PlacesInv, PipeInv, MatchInv, [Next]_vars
    PROVE  MatchInv'
<1> /\ TypeOK /\ ConnectionInv /\ LockInv /\ PurgeInv /\ IssuedOnce /\ PlaceInv
    BY DEF PlacesInv, BaseInv
<1> SUFFICES ASSUME ~ServerFaulty, ioPc' = "match"
             PROVE  Head(toProcess').xid = ioHeld'
    BY DEF MatchInv
<1>1. CASE UNCHANGED <<ioPc, ioHeld, toProcess>>
    BY <1>1 DEF MatchInv
<1>2. CASE IoDispatchReply
    <2> DEFINE x == Head(toProcess).xid
               h == Head(sentRequests)
    <2>1. /\ ioPc = "dispatch" /\ x \in Requests /\ sentRequests # <<>>
          /\ ioHeld' = h /\ toProcess' = toProcess
        BY <1>2 DEF IoDispatchReply
    <2>2. ioHeld = NoOne /\ sentRequests \in Seq(Requests)
        BY <2>1 DEF TypeOK, ThreadTypes, QueueTypes
    <2>3. Intact
        BY <2>1 DEF PurgeInv, PurgedStaysEmpty, Intact
    <2>4. InWireOrder /\ InPipe \subseteq Held \cup Waiting /\ GoneTogether
        BY <2>1, <2>3 DEF PipeInv
    <2>5. Held = {} /\ Arrived = {x} /\ WireOrder = Earlier
        BY <2>1, <2>2, ArrivedOne, RequestsAssumption DEF Held, WireOrder
    <2>6. /\ h \in Requests
          /\ Waiting = RequestsIn(Tail(sentRequests)) \cup {h}
          /\ {h} \X RequestsIn(Tail(sentRequests)) \subseteq Earlier
        <3>1. h \in Requests /\ {h} \cap Requests = {h}
            BY <2>1, <2>2
        <3>2. QED
            BY <2>1, <2>2, <3>1, SortedTail DEF Waiting, PlaceInv
    <2> HIDE DEF x, h
    <2>7. SUFFICES ASSUME x # h PROVE FALSE
        BY <2>1 DEF x
    <2>8. <<h, x>> \in Earlier
        BY <2>4, <2>5, <2>6, <2>7 DEF InPipe, OnWire
    <2>9. CASE h \in InPipe
        BY <2>4, <2>5, <2>7, <2>8, <2>9, <2>1, <2>6, EarlierFacts
           DEF InPipe, OnWire, ToGo, InWireOrder
    <2>10. CASE h \notin InPipe
        <3>1. h \in Gone /\ x \in OnWire
            BY <2>5, <2>6, <2>10 DEF Gone, OnWire
        <3>2. QED
            BY <2>1, <2>4, <2>6, <2>8, <3>1, EarlierFacts DEF GoneTogether
    <2>11. QED
        BY <2>9, <2>10
<1>3. QED
    BY <1>1, <1>2, MatchCases

LEMMA PipeInit == Init => WireInv /\ PipeInv /\ MatchInv
<1> SUFFICES ASSUME Init PROVE WireInv /\ PipeInv /\ MatchInv
    OBVIOUS
<1>1. /\ c2s = <<>> /\ s2c = <<>> /\ toSend = <<>> /\ toProcess = <<>>
      /\ sentRequests = <<>> /\ ioPc = "loop" /\ fd = "none"
      /\ XidsOf(s2c) = <<>> /\ XidsOf(toProcess) = <<>>
    BY DEF Init, XidsOf
<1>2. Held = {} /\ Packing = {}
    BY RequestsAssumption DEF Init, Held, Packing
<1>3. /\ Arrived = {} /\ Coming = {} /\ Going = {} /\ Packed = {}
      /\ Waiting = {} /\ Sorted(XidsOf(s2c), WireOrder)
      /\ Sorted(c2s, WireOrder) /\ Sorted(toSend, WireOrder)
    BY <1>1, SortedEmpty DEF Arrived, Coming, Going, Packed, Waiting
<1>4. OnWire = {} /\ InPipe = {} /\ Gone = {}
    BY <1>2, <1>3 DEF OnWire, ToGo, InPipe, Gone
<1>5. WireInv
    BY <1>1, <1>4 DEF WireInv, Settling
<1>6. \A S : {} \X S = {} /\ S \X {} = {}
    OBVIOUS
<1>7. InWireOrder /\ GoneTogether
    BY <1>2, <1>3, <1>4, <1>6 DEF InWireOrder, GoneTogether
<1>8. QED
    BY <1>1, <1>4, <1>5, <1>7 DEF PipeInv, MatchInv

LEMMA PipesAreRight == Spec => [](PlacesInv /\ PipeInv /\ MatchInv)
<1>1. PlacesInv /\ WireInv /\ [Next]_vars /\ PlacesInv' => WireInv'
    BY WireStep DEF PlacesInv, BaseInv
<1>2. PlacesInv /\ WireInv /\ PipeInv /\ [Next]_vars /\ PlacesInv' => PipeInv'
    BY PipeStep DEF PlacesInv, BaseInv
<1>3. PlacesInv /\ PipeInv /\ MatchInv /\ [Next]_vars => MatchInv'
    BY MatchStep
<1>4. QED
    BY <1>1, <1>2, <1>3, PipeInit, PlacesAreRight, PTL DEF Spec

LEMMA PipelineOrderHolds ==
    ASSUME PlacesInv, PipeInv
    PROVE  PipelineInOrder
<1> /\ TypeOK /\ IssuedOnce /\ PlaceInv
    BY DEF PlacesInv, BaseInv
<1> SUFFICES ASSUME ~ServerFaulty, ioPc # "cleanup",
                    closerPc \in {"open", "purge"}
             PROVE  /\ Sorted(Outstanding, Earlier)
                    /\ Sorted(OnTheWire \o Unsent, Earlier)
                    /\ RequestsIn(OnTheWire \o Unsent)
                          \subseteq RequestsIn(Outstanding)
                    /\ Lost # {} => fd = "broken"
                    /\ RequestsIn(OnTheWire) \X Lost \subseteq Earlier
                    /\ Lost \X RequestsIn(Unsent) \subseteq Earlier
    BY DEF PipelineInOrder
<1> DEFINE S == Packets \cup {NoOne, "io", "closer"}
           one == <<ioHeld>>
           lock == <<critical>>
           p == XidsOf(toProcess)
           x == XidsOf(s2c)
           w == p \o x
<1>1. /\ InWireOrder /\ InPipe \subseteq Held \cup Waiting /\ GoneTogether
      /\ WireOrder = Earlier
    BY DEF PipeInv, Intact, WireOrder
<1>2. /\ one \in Seq(S) /\ lock \in Seq(S) /\ sentRequests \in Seq(S)
      /\ p \in Seq(S) /\ x \in Seq(S) /\ c2s \in Seq(S) /\ toSend \in Seq(S)
    <2>1. ioHeld \in S /\ critical \in S
        BY DEF TypeOK, ThreadTypes, CallTypes, Packets
    <2>2. /\ sentRequests \in Seq(Requests) /\ p \in Seq(Packets)
          /\ x \in Seq(Packets) /\ c2s \in Seq(Packets)
          /\ toSend \in Seq(Packets)
        BY ArrivedOne, ReplyNames DEF TypeOK, QueueTypes
    <2>3. Requests \subseteq S /\ Packets \subseteq S
        BY DEF Packets
    <2> HIDE DEF S, p, x
    <2>4. QED
        BY <2>1, <2>2, <2>3
<1>3. /\ RequestsIn(one) = Held /\ RequestsIn(sentRequests) = Waiting
      /\ RequestsIn(p) = Arrived /\ RequestsIn(x) = Coming
      /\ RequestsIn(c2s) = Going /\ RequestsIn(toSend) = Packed
      /\ RequestsIn(lock) = Packing
    BY SortedOne DEF Held, Waiting, Arrived, Coming, Going, Packed, Packing
<1>4. /\ Sorted(one, Earlier) /\ Sorted(lock, Earlier) /\ Sorted(p, Earlier)
      /\ Sorted(sentRequests, Earlier) /\ Sorted(x, Earlier)
      /\ Sorted(c2s, Earlier) /\ Sorted(toSend, Earlier)
    BY <1>1, SortedOne, ArrivedOne DEF InWireOrder, PlaceInv
<1> HIDE DEF S, one, lock, p, x
<1>5. /\ RequestsIn(one \o sentRequests) = Held \cup Waiting
      /\ Sorted(one \o sentRequests, Earlier)
    <2>1. Held \X Waiting \subseteq Earlier
        BY DEF PlaceInv
    <2>2. QED
        BY <1>2, <1>3, <1>4, <2>1, SortedConcat
<1>6. /\ w \in Seq(S) /\ RequestsIn(w) = Arrived \cup Coming
      /\ Sorted(w, Earlier)
    <2>1. Arrived \X Coming \subseteq Earlier
        BY <1>1 DEF InWireOrder
    <2>2. QED
        BY <1>2, <1>3, <1>4, <2>1, SortedConcat
<1> HIDE DEF w
<1> DEFINE r == w \o c2s
           u == toSend \o lock
<1>7. /\ r \in Seq(S) /\ RequestsIn(r) = OnWire /\ Sorted(r, Earlier)
    <2>1. (Arrived \cup Coming) \X Going \subseteq Earlier
        BY <1>1 DEF InWireOrder
    <2>2. QED
        BY <1>2, <1>3, <1>4, <1>6, <2>1, SortedConcat DEF OnWire
<1>8. /\ u \in Seq(S) /\ RequestsIn(u) = ToGo /\ Sorted(u, Earlier)
    <2>1. Packed \X Packing \subseteq Earlier
        BY <1>1 DEF InWireOrder
    <2>2. QED
        BY <1>2, <1>3, <1>4, <2>1, SortedConcat DEF ToGo
<1>9. OnTheWire = r /\ Unsent = u /\ Outstanding = one \o sentRequests
    BY DEF OnTheWire, Unsent, Outstanding, w, p, x, lock, one
<1> HIDE DEF r, u
<1>10. RequestsIn(r \o u) = InPipe /\ Sorted(r \o u, Earlier)
    <2>1. OnWire \X ToGo \subseteq Earlier
        BY <1>1 DEF InWireOrder, OnWire, ToGo
    <2>2. QED
        BY <1>7, <1>8, <2>1, SortedConcat DEF InPipe
<1>11. Lost = Gone
    BY <1>5, <1>9, <1>10 DEF Lost, Gone
<1>12. QED
    BY <1>1, <1>5, <1>7, <1>8, <1>9, <1>10, <1>11 DEF GoneTogether

(* With a server that answers in order, sent_requests lists, in the order  *)
(* of acceptance, what is read, on the wire or still to be sent, and what  *)
(* a broken connection lost in between: nothing on the wire has lost its   *)
(* entry, whatever is flushed, read, broken, reconnected or failed.        *)
THEOREM PipelineStaysInOrder == Spec => []PipelineInOrder
<1>1. PlacesInv /\ PipeInv => PipelineInOrder
    BY PipelineOrderHolds
<1>2. QED
    BY <1>1, PipesAreRight, PTL

(* The assertion of zookeeper_process on an empty sent_requests never      *)
(* fails, even with a server that answers out of order, and with one that  *)
(* answers in order its xid comparison never drops the connection.         *)
THEOREM EveryReplyFindsItsRequest == Spec => []ReplyFindsRequest
<1>1. PlacesInv /\ PipeInv /\ MatchInv => ReplyFindsRequest
    <2> SUFFICES ASSUME PlacesInv, PipeInv, MatchInv,
                        ioPc = "dispatch", Head(toProcess).xid \in Requests,
                        ~closeRequested
                 PROVE  sentRequests # <<>>
        BY DEF ReplyFindsRequest, MatchInv
    <2>1. TypeOK /\ LockInv
        BY DEF PlacesInv, BaseInv
    <2>2. InPipe \subseteq Held \cup Waiting
        BY <2>1 DEF LockInv, PipeInv, Intact
    <2>3. Held = {}
        BY <2>1, RequestsAssumption DEF TypeOK, ThreadTypes, Held
    <2>4. Head(toProcess).xid \in Waiting
        BY <2>1, <2>2, <2>3, ArrivedOne DEF InPipe, OnWire
    <2>5. QED
        BY <2>4, SortedEmpty DEF Waiting
<1>2. QED
    BY <1>1, PipesAreRight, PTL
-----------------------------------------------------------------------------
(* The promise of RequestService *)

Refused == {r \in Requests : pc[r] = "rejected"}
Over    == closeRequested \/ is_unrecoverable

(* The end of a session is final: the IO thread does nothing more with the *)
(* connection once it has found it, nor does anything else revive it.      *)
WorkInv ==
    ioPc \in {"poll", "read", "dispatch", "match"} => ~is_unrecoverable

LEMMA WorkStep ==
    ASSUME ConnectionInv, LockInv, WorkInv, [Next]_vars
    PROVE  WorkInv' /\ (Over => Over')
<1>a. /\ closeRequested <=> closerPc # "open"
      /\ closerPc = "free" => ioPc = "exit"
    BY DEF LockInv, ConnectionInv, IoJoined
<1>b. closeRequested => closeRequested'
    BY CloseIsAnnounced
<1> USE DEF WorkInv, Over, is_unrecoverable, Unrecoverable
<1>1. ASSUME UNCHANGED <<state, ioPc>> PROVE WorkInv' /\ (Over => Over')
    BY <1>1, <1>b
<1>2. CASE UNCHANGED vars
    BY <1>1, <1>2 DEF vars, connVars, ioVars
<1>3. ASSUME NEW r \in Requests, CallStep(r)
      PROVE  WorkInv' /\ (Over => Over')
    BY <1>1, <1>3 DEF CallStep, Check, AddCompletion, QueueBuffer, SendQueue,
                      WaitSync, connVars, ioVars
<1>4. CASE IoCleanup \/ IoFailOne \/ IoReset \/ IoExit \/ IoWrap
              \/ IoInterest \/ IoWake \/ IoRead \/ IoNothing
    BY <1>4, <1>b DEF IoCleanup, IoFailOne, IoReset, IoExit, IoWrap,
                      IoInterest, IoWake, IoRead, IoNothing, IoLoop, connVars,
                      ioVars
<1>5. CASE IoConnect \/ IoTimeout \/ IoConnected \/ IoFlush
    BY <1>5, <1>b DEF IoConnect, IoTimeout, IoConnected, IoFlush, IoLoop,
                      PrimeConnection, handle_error, connVars, ioVars
<1>6. CASE IoHandshake \/ IoReadError \/ IoDispatchReserved \/ IoMismatch
    BY <1>6, <1>b DEF IoHandshake, IoReadError, IoDispatchReserved,
                      IoMismatch, handle_error, connVars, ioVars
<1>7. CASE IoDispatchReply \/ IoComplete
    BY <1>7, <1>b DEF IoDispatchReply, IoComplete, connVars, ioVars
<1>8. CASE CtStep
    BY <1>1, <1>8 DEF CtStep, CtLoop, CtWake, CtCallback, CtCallbackEnds,
                      CtDrained, connVars, ioVars
<1>9. CASE CloseRequest \/ ClosePurge \/ CloseFailOne \/ CloseWakeIo
              \/ CloseJoinIo \/ CloseJoinCt \/ CloseDestroy
    BY <1>1, <1>9 DEF CloseRequest, ClosePurge, CloseFailOne, CloseWakeIo,
                      CloseJoinIo, CloseJoinCt, CloseDestroy, connVars, ioVars
<1>10. CASE CloseFree
    BY <1>10, <1>a, <1>b DEF CloseFree, ioVars
<1>11. CASE ServerHandshake \/ ServerAnswer \/ ServerReorder \/ ServerEvent
              \/ NetBreak
    BY <1>1, <1>11 DEF ServerHandshake, ServerAnswer, ServerReorder,
                       ServerEvent, NetBreak, connVars, ioVars
<1>12. QED
    BY <1>2, <1>3, <1>4, <1>5, <1>6, <1>7, <1>8, <1>9, <1>10, <1>11,
       NextCases DEF CallStep

(* What a step can be to the service: it tells nobody anything, it accepts *)
(* or refuses a request, it fails, completes or calls back one, or it      *)
(* announces the end of the handle.                                        *)
SessionEnds == {"ZSESSIONEXPIRED", "ZAUTHFAILED"}

Silent ==
    /\ News /\ UNCHANGED <<issued, result, Refused, closeRequested>>
    /\ \/ ioRc' = ioRc
       \/ ioRc' # "ZCLOSING" /\ (ioRc' \in SessionEnds => Over')

Join(r) ==
    /\ Accept(r)
    /\ UNCHANGED <<Refused, applied, state, closeRequested, ioRc>>

Reject(r) ==
    /\ pc[r] \in {"idle", "checked"} /\ Over
    /\ Refused' = Refused \cup {r}
    /\ UNCHANGED <<completions, issued, result, applied, state,
                   closeRequested, ioRc>>

Finish ==
    /\ \/ Complete
       \/ CallBack
       \/ Fail(ioRc) /\ ioPc = "fail"
       \/ Fail("ZCLOSING") /\ closeRequested
    /\ UNCHANGED <<Refused, applied, state, closeRequested, ioRc>>

Announced ==
    /\ closeRequested'
    /\ UNCHANGED <<completions, issued, result, Refused, applied, state, ioRc>>

LEMMA ServiceCases ==
    ASSUME TypeOK, ConnectionInv, LockInv, [Next]_vars
    PROVE  \/ Silent \/ Finish \/ Announced
           \/ \E r \in Requests : Join(r) \/ Reject(r)
<1> /\ CallTypes /\ ConnTypes /\ QueueTypes /\ ThreadTypes
    BY DEF TypeOK
<1>a. {"event", "session", NoOne} \cap Requests = {}
    BY RequestsAssumption DEF Reserved, NoOne
<1>b. closeRequested <=> closerPc # "open"
    BY DEF LockInv
<1>1. ASSUME UNCHANGED pc PROVE Refused' = Refused /\ Accepted' = Accepted
    BY <1>1 DEF Refused, Accepted
<1>2. ASSUME UNCHANGED <<pc, completions, issued, result, closeRequested,
                         ioRc>>
      PROVE  Silent
    BY <1>1, <1>2 DEF Silent, News
<1>3. ASSUME NEW rc, NEW st \in States, handle_error(rc, st) PROVE News
    <2>1. CASE completions' = completions
        BY <2>1 DEF News
    <2>2. CASE completions' = SessionEvent(completions, LossEvent(st))
               /\ LossEvent(st) # NoOne
        <3> DEFINE c == [xid |-> "session", rc |-> LossEvent(st)]
        <3>1. LossEvent(st) \in States
            BY <2>2 DEF LossEvent, States, Unrecoverable
        <3>2. c \in Completion /\ c.xid \notin Requests
            BY <1>a, <3>1, PacketTypes
        <3>3. QED
            BY <2>2, <3>2 DEF News, SessionEvent
    <2>3. QED
        BY <1>3, <2>1, <2>2 DEF handle_error
<1>4. state \in States /\ {"EXPIRED", "AUTH_FAILED"} \subseteq States
    BY DEF ConnTypes, States, Unrecoverable
<1>5. ASSUME UNCHANGED <<pc, issued, result, closeRequested>>,
             NEW rc, NEW st \in States, handle_error(rc, st),
             rc # "ZCLOSING",
             rc \in SessionEnds => st \in Unrecoverable
      PROVE  Silent
    <2>1. News /\ Refused' = Refused
        BY <1>1, <1>3, <1>5
    <2>2. ioRc' = rc /\ state' = st
        BY <1>5 DEF handle_error
    <2>3. QED
        BY <1>5, <2>1, <2>2 DEF Silent, Over, is_unrecoverable
<1>6. CASE UNCHANGED vars
    BY <1>2, <1>6 DEF vars, callVars, queueVars, ioVars, closeVars, history
<1>7. ASSUME NEW r \in Requests, CallStep(r)
      PROVE  Silent \/ Join(r) \/ Reject(r)
    <2>0. /\ UNCHANGED <<completions, result, applied, state, closeRequested,
                         ioRc, ioHeld, doomed, called>>
          /\ \A q \in Requests : q # r => pc'[q] = pc[q]
        BY <1>7 DEF CallStep, Check, AddCompletion, QueueBuffer, SendQueue,
                    WaitSync, connVars, queueVars, ioVars, closeVars, netVars,
                    history, CallTypes
    <2>1. CASE pc'[r] = "rejected"
        <3>1. /\ pc[r] \in {"idle", "checked"} /\ Over
              /\ UNCHANGED issued
            BY <1>7, <2>1 DEF CallStep, Check, AddCompletion, QueueBuffer,
                  SendQueue, WaitSync, Accepting, Over, history, CallTypes
        <3>2. Refused' = Refused \cup {r}
            BY <2>0, <2>1 DEF Refused
        <3>3. QED
            BY <2>0, <3>1, <3>2 DEF Reject
    <2>2. CASE pc'[r] # "rejected"
        <3>1. pc[r] # "rejected"
            BY <1>7 DEF CallStep, Check, AddCompletion, QueueBuffer,
                        SendQueue, WaitSync
        <3>2. Refused' = Refused
            BY <2>0, <2>2, <3>1 DEF Refused
        <3>3. CASE UNCHANGED issued
            BY <2>0, <3>2, <3>3 DEF Silent, News
        <3>4. CASE AddCompletion(r)
            <4>1. /\ pc[r] = "checked" /\ pc'[r] = "added" /\ ~closeRequested
                  /\ issued' = Append(issued, r)
                  /\ sentRequests' = Append(sentRequests, r)
                BY <2>2, <3>4 DEF AddCompletion, Accepting, CallTypes
            <4>2. Accepted' = Accepted \cup {r}
                BY <2>0, <4>1 DEF Accepted
            <4>3. QED
                BY <2>0, <3>2, <4>1, <4>2 DEF Join, Accept
        <3>5. QED
            BY <1>7, <3>3, <3>4 DEF CallStep, Check, QueueBuffer, SendQueue,
                                    WaitSync, history
    <2>3. QED
        BY <2>1, <2>2
<1>8. CASE IoCleanup \/ IoReset \/ IoExit \/ IoWrap \/ IoInterest \/ IoWake
              \/ IoRead \/ IoNothing \/ IoDispatchReply
    BY <1>2, <1>8 DEF IoCleanup, IoReset, IoExit, IoWrap, IoInterest, IoWake,
                      IoRead, IoNothing, IoDispatchReply, callVars, queueVars,
                      ioVars, closeVars, history
<1>9. CASE IoConnect \/ IoTimeout \/ IoConnected \/ IoFlush
    <2>1. UNCHANGED <<pc, issued, result, closeRequested>>
        BY <1>9 DEF IoConnect, IoTimeout, IoConnected, IoFlush, callVars,
                    closeVars
    <2>2. \/ UNCHANGED <<completions, ioRc>>
          \/ handle_error("ZCONNECTIONLOSS", state)
          \/ handle_error("ZOPERATIONTIMEOUT", state)
        BY <1>9 DEF IoConnect, IoTimeout, IoConnected, IoFlush
    <2>3. QED
        BY <1>2, <1>4, <1>5, <2>1, <2>2 DEF SessionEnds
<1>10. CASE IoHandshake
    <2>1. UNCHANGED <<pc, issued, result, closeRequested>>
        BY <1>10 DEF IoHandshake, callVars, closeVars
    <2>2. CASE /\ completions' = SessionEvent(completions, "CONNECTED")
               /\ ioRc' = ioRc
        <3>1. [xid |-> "session", rc |-> "CONNECTED"] \in Completion
              /\ [xid |-> "session", rc |-> "CONNECTED"].xid \notin Requests
            BY <1>a, ErrorCodes, PacketTypes
        <3>2. QED
            BY <1>1, <2>1, <2>2, <3>1 DEF Silent, News, SessionEvent
    <2>3. CASE handle_error("ZSESSIONEXPIRED", "EXPIRED")
        BY <1>4, <1>5, <2>1, <2>3 DEF Unrecoverable
    <2>4. QED
        BY <1>10, <2>2, <2>3 DEF IoHandshake
<1>11. CASE IoReadError \/ IoMismatch
    <2>1. UNCHANGED <<pc, issued, result, closeRequested>>
        BY <1>11 DEF IoReadError, IoMismatch, callVars, closeVars
    <2>2. \/ handle_error("ZCONNECTIONLOSS", state)
          \/ handle_error("ZRUNTIMEINCONSISTENCY", state)
        BY <1>11 DEF IoReadError, IoMismatch
    <2>3. QED
        BY <1>4, <1>5, <2>1, <2>2 DEF SessionEnds
<1>12. CASE IoDispatchReserved
    <2>1. UNCHANGED <<pc, issued, result, closeRequested>>
        BY <1>12 DEF IoDispatchReserved, callVars, closeVars
    <2>2. \/ UNCHANGED <<completions, ioRc>>
          \/ /\ completions' = Append(completions,
                                      [xid |-> "event", rc |-> "ANSWERED"])
             /\ ioRc' = ioRc
          \/ handle_error("ZAUTHFAILED", "AUTH_FAILED")
        BY <1>12 DEF IoDispatchReserved
    <2>3. CASE /\ completions' = Append(completions,
                                        [xid |-> "event", rc |-> "ANSWERED"])
               /\ ioRc' = ioRc
        <3>1. [xid |-> "event", rc |-> "ANSWERED"] \in Completion
              /\ [xid |-> "event", rc |-> "ANSWERED"].xid \notin Requests
            BY <1>a, PacketTypes
        <3>2. QED
            BY <1>1, <2>1, <2>3, <3>1 DEF Silent, News
    <2>4. QED
        BY <1>2, <1>4, <1>5, <2>1, <2>2, <2>3 DEF Unrecoverable
<1>13. CASE IoFailOne \/ CloseFailOne
    <2>1. /\ UNCHANGED <<pc, applied, state, closeRequested, ioRc, issued,
                         called, ioHeld, sentRequests>>
          /\ \/ FailOne(ioRc) /\ ioPc = "fail"
             \/ FailOne("ZCLOSING") /\ closeRequested
        BY <1>13, <1>b DEF IoFailOne, CloseFailOne, callVars, connVars,
                           netVars, closeVars, ioVars, history
    <2>2. QED
        BY <1>1, <2>1 DEF Finish, Fail
<1>14. CASE IoComplete
    <2>1. ioHeld \in Requests
        BY <1>14 DEF IoComplete, ThreadTypes
    <2>2. QED
        BY <1>1, <1>14, <2>1 DEF IoComplete, Finish, Complete, callVars,
             connVars, netVars, closeVars, history
<1>15. CASE CtCallback
    <2>1. CallBack
        BY <1>1, <1>15 DEF CtCallback, CallBack, callVars, ioVars
    <2>2. UNCHANGED <<Refused, applied, state, closeRequested, ioRc>>
        BY <1>1, <1>15 DEF CtCallback, callVars, connVars, ioVars, closeVars,
                           netVars
    <2>3. QED
        BY <2>1, <2>2 DEF Finish
<1>16. CASE CtLoop \/ CtWake \/ CtCallbackEnds \/ CtDrained
    BY <1>2, <1>16 DEF CtLoop, CtWake, CtCallbackEnds, CtDrained, callVars,
                       queueVars, ioVars, closeVars, history
<1>17. CASE CloseRequest
    BY <1>1, <1>17 DEF CloseRequest, Announce, Announced, callVars, connVars,
                       queueVars, ioVars, netVars, history
<1>18. CASE ClosePurge \/ CloseWakeIo \/ CloseJoinIo \/ CloseJoinCt
               \/ CloseDestroy \/ CloseFree
    BY <1>2, <1>18 DEF ClosePurge, CloseWakeIo, CloseJoinIo, CloseJoinCt,
                       CloseDestroy, CloseFree, callVars, queueVars, ioVars,
                       history
<1>19. CASE ServerHandshake \/ ServerAnswer \/ ServerReorder \/ ServerEvent
               \/ NetBreak
    BY <1>2, <1>19 DEF ServerHandshake, ServerAnswer, ServerReorder,
                       ServerEvent, NetBreak, callVars, queueVars, ioVars,
                       closeVars, history
<1>20. QED
    BY <1>6, <1>7, <1>8, <1>9, <1>10, <1>11, <1>12, <1>13, <1>14, <1>15,
       <1>16, <1>17, <1>18, <1>19, NextCases DEF CallStep, CtStep

(* A code that stands for an end is not given out before that end.         *)
Due(rc) ==
    /\ rc \in SessionEnds => Over
    /\ rc = "ZCLOSING" => closeRequested

EndInv ==
    /\ ioRc # "ZCLOSING" /\ Due(ioRc)
    /\ \A c \in ToSet(completions) : c.xid \in Requests => Due(c.rc)

LEMMA EndStep ==
    ASSUME TypeOK, ConnectionInv, LockInv, WorkInv, EndInv, [Next]_vars
    PROVE  EndInv'
<1>a. /\ completions \in Seq(Completion)
      /\ \A r \in Requests, rc \in Outcomes :
            [xid |-> r, rc |-> rc] \in Completion
    BY PacketTypes DEF TypeOK, QueueTypes
<1>b. ASSUME NEW rc, Due(rc) PROVE Due(rc)'
    BY <1>b, WorkStep, CloseIsAnnounced DEF Due
<1>c. ASSUME NEW c \in Completion, completions' = Append(completions, c)
      PROVE  ToSet(completions') \subseteq ToSet(completions) \cup {c}
    BY <1>a, <1>c, ElementsAppend
<1>1. ASSUME ioRc' # "ZCLOSING", Due(ioRc)',
             \A c \in ToSet(completions') :
                \/ c \in ToSet(completions)
                \/ c.xid \in Requests => Due(c.rc)
      PROVE  EndInv'
    BY <1>1, <1>b DEF EndInv
<1>2. ASSUME News, ioRc' # "ZCLOSING", Due(ioRc)' PROVE EndInv'
    <2>1. CASE completions' = completions
        BY <1>1, <1>2, <2>1
    <2>2. ASSUME NEW c \in Completion, c.xid \notin Requests,
                 completions' = Append(completions, c)
          PROVE  EndInv'
        BY <1>1, <1>2, <1>c, <2>2
    <2>3. QED
        BY <1>2, <2>1, <2>2 DEF News
<1>3. ASSUME ioRc' = ioRc PROVE ioRc' # "ZCLOSING" /\ Due(ioRc)'
    BY <1>3, <1>b DEF EndInv
<1>4. CASE Silent
    <2>1. ioRc' # "ZCLOSING" /\ Due(ioRc)'
        BY <1>3, <1>4 DEF Silent, Due
    <2>2. QED
        BY <1>2, <1>4, <2>1 DEF Silent
<1>5. CASE Announced
    BY <1>2, <1>3, <1>5 DEF Announced, News
<1>6. ASSUME NEW r \in Requests, Join(r) \/ Reject(r) PROVE EndInv'
    BY <1>2, <1>3, <1>6 DEF Join, Accept, Reject, News
<1>7. CASE Finish
    <2>0. ioRc' # "ZCLOSING" /\ Due(ioRc)'
        BY <1>3, <1>7 DEF Finish
    <2>1. ASSUME NEW r \in Requests, NEW rc \in Outcomes, Due(rc),
                 completions' = Append(completions, [xid |-> r, rc |-> rc])
          PROVE  EndInv'
        <3> DEFINE c == [xid |-> r, rc |-> rc]
        <3>1. c \in Completion /\ c.rc = rc
            BY <1>a
        <3>2. completions' = Append(completions, c)
            BY <2>1
        <3> HIDE DEF c
        <3>3. QED
            BY <1>1, <1>c, <2>0, <2>1, <3>1, <3>2
    <2>2. ASSUME completions' = completions PROVE EndInv'
        BY <1>2, <2>0, <2>2 DEF News
    <2>3. CASE Complete
        <3>1. Due("ANSWERED") /\ "ANSWERED" \in Outcomes
            BY DEF Due, SessionEnds, Outcomes
        <3>2. QED
            BY <2>1, <2>2, <2>3, <3>1 DEF Complete
    <2>4. CASE CallBack
        <3>1. /\ completions # <<>> /\ completions' = Tail(completions)
            BY <2>4 DEF CallBack
        <3>2. ToSet(completions') \subseteq ToSet(completions)
            BY <1>a, <3>1, ElementsHead
        <3>3. QED
            BY <1>1, <2>0, <3>2
    <2>5. ASSUME NEW rc \in Errors, Due(rc), Fail(rc) PROVE EndInv'
        <3>1. /\ Head(doomed) \in Requests /\ rc \in Outcomes
            BY <2>5 DEF TypeOK, QueueTypes, Fail, FailOne, Outcomes
        <3>2. QED
            BY <2>1, <2>2, <2>5, <3>1 DEF Fail, FailOne
    <2>6. /\ ioRc \in Errors /\ Due(ioRc) /\ "ZCLOSING" \in Errors
          /\ closeRequested => Due("ZCLOSING")
        BY ErrorCodes DEF TypeOK, ThreadTypes, EndInv, Due, SessionEnds
    <2>7. QED
        BY <1>7, <2>3, <2>4, <2>5, <2>6 DEF Finish
<1>8. QED
    BY <1>4, <1>5, <1>6, <1>7, ServiceCases

(* The callback that runs is the first that is due. *)
LEMMA CallBackInTurn ==
    ASSUME PlacesInv, CallInv, CallBack, ~closeRequested,
           Head(completions).xid \in Requests,
           NEW i \in DOMAIN issued, NEW j \in DOMAIN issued, i < j,
           issued[j] = Head(completions).xid, issued[i] \notin Sync
    PROVE  result[issued[i]] # NoOne
<1> DEFINE x == Head(completions).xid
           q == issued[i]
<1> TypeOK /\ IssuedOnce /\ PlaceInv /\ InCallOrder
    BY DEF PlacesInv, BaseInv, CallInv
<1>1. q \in Accepted /\ q \in Requests /\ <<q, x>> \in Earlier
    <2>1. q \in ToSet(issued) /\ x \in ToSet(issued)
        BY DEF ToSet
    <2>2. q \in Accepted /\ Accepted \subseteq Requests
        BY <2>1 DEF IssuedOnce, Accepted
    <2>3. QED
        BY <2>2 DEF Earlier
<1>2. <<x, q>> \notin Earlier
    BY <1>1, EarlierFacts
<1>3. /\ x \in Completing
      /\ q \in Completing => q = x \/ <<x, q>> \in Earlier
    <2>1. /\ completions # <<>>
          /\ XidsOf(completions) # <<>> /\ XidsOf(completions) \in Seq(Names)
          /\ Head(XidsOf(completions)) = x
        BY CompletionNames DEF CallBack
    <2>2. /\ Completing = RequestsIn(Tail(XidsOf(completions)))
                             \cup ({x} \cap Requests)
          /\ Sorted(XidsOf(completions), Earlier) =>
                ({x} \cap Requests)
                   \X RequestsIn(Tail(XidsOf(completions))) \subseteq Earlier
        BY <2>1, SortedTail DEF Completing
    <2>3. x \in Requests /\ Sorted(XidsOf(completions), Earlier)
        BY DEF InCallOrder
    <2> HIDE DEF x, q
    <2>4. QED
        BY <2>2, <2>3
<1>4. q # x
    BY <1>1, <1>2
<1> HIDE DEF x, q
<1>5. q \in Told
    BY <1>1, <1>2, <1>3, <1>4 DEF PlaceInv, InCallOrder
<1>6. QED
    BY <1>5 DEF Told, q

ServiceInv == PlacesInv /\ CallInv /\ OutcomeInv /\ WorkInv /\ EndInv

LEMMA SameElements == Service!ToSet(issued) = ToSet(issued)
BY DEF ToSet, Service!ToSet

(* Whoever is told, it is a request accepted and not told before, the news *)
(* is true, and a callback is in turn.                                     *)
LEMMA FinishTells ==
    ASSUME ServiceInv, OutcomeInv', Finish
    PROVE  \/ UNCHANGED <<issued, result>>
           \/ \E r \in Requests, rc \in Outcomes : Service!Tell(r, rc)
<1> /\ PlacesInv /\ CallInv /\ EndInv
    /\ TypeOK /\ IssuedOnce /\ PlaceInv
    BY DEF ServiceInv, PlacesInv, BaseInv
<1>0. result \in [Requests -> Outcomes \cup {NoOne}]
    BY DEF TypeOK, CallTypes
<1>1. /\ UNCHANGED <<issued, applied, closeRequested, Over, Refused>>
    BY DEF Finish, Complete, CallBack, Fail, Over, is_unrecoverable
<1>2. ASSUME NEW r \in Requests, NEW rc \in Outcomes,
             r \in Accepted, r \notin Told, Due(rc),
             r \in Sync \/ closeRequested \/ Service!InTurn(r),
             result' = [result EXCEPT ![r] = rc]
      PROVE  Service!Tell(r, rc)
    <2>1. r \in ToSet(issued) /\ result[r] = NoOne
        BY <1>2 DEF IssuedOnce, Told
    <2>2. rc = "ANSWERED" => r \in applied
        <3>1. result'[r] = rc
            BY <1>0, <1>2
        <3>2. rc = "ANSWERED" => r \in applied'
            BY <3>1 DEF OutcomeInv, Answered
        <3>3. QED
            BY <1>1, <3>2
    <2>3. /\ rc \in {"ZSESSIONEXPIRED", "ZAUTHFAILED"}
                => closeRequested \/ is_unrecoverable
          /\ rc = "ZCLOSING" => closeRequested
        BY <1>2 DEF Due, Over, SessionEnds
    <2>4. UNCHANGED <<issued, {q \in Requests : pc[q] = "rejected"}, applied,
                      closeRequested \/ is_unrecoverable, closeRequested>>
        BY <1>1 DEF Refused, Over
    <2>5. QED
        BY <1>2, <2>1, <2>2, <2>3, <2>4, SameElements
           DEF Service!Tell, Service!Truthful
<1>3. CASE Complete
    <2>1. ioHeld \in Requests /\ ioHeld \in Accepted /\ ioHeld \notin Told
        BY <1>3 DEF Complete, PlaceInv, Held
    <2>2. "ANSWERED" \in Outcomes /\ Due("ANSWERED")
        BY DEF Outcomes, Due, SessionEnds
    <2>3. QED
        BY <1>1, <1>2, <1>3, <2>1, <2>2 DEF Complete
<1>4. ASSUME NEW rc \in Errors, Due(rc), Fail(rc)
      PROVE  \/ UNCHANGED <<issued, result>>
             \/ \E r \in Requests, c \in Outcomes : Service!Tell(r, c)
    <2> DEFINE h == Head(doomed)
    <2>1. h \in Requests /\ h \in Doomed
        BY <1>4, FailPlaces
    <2>2. h \in Accepted /\ h \notin Told /\ rc \in Outcomes
        BY <2>1 DEF PlaceInv, Outcomes
    <2>3. \/ h \in Sync /\ result' = [result EXCEPT ![h] = rc]
          \/ result' = result
        BY <1>4 DEF Fail, FailOne
    <2> HIDE DEF h
    <2>4. QED
        BY <1>1, <1>2, <1>4, <2>1, <2>2, <2>3
<1>5. CASE CallBack
    <2> DEFINE c == Head(completions)
    <2>1. /\ c \in Completion /\ c \in ToSet(completions)
        BY <1>5, CompletionNames, ElementsHead DEF CallBack
    <2>2. CASE c.xid \notin Requests
        BY <1>1, <1>5, <2>2 DEF CallBack
    <2>3. CASE c.xid \in Requests
        <3>1. c.rc \in Outcomes /\ Due(c.rc)
            BY <2>1, <2>3, PacketTypes DEF EndInv
        <3>2. c.xid \in Completing
            <4>1. /\ XidsOf(completions) # <<>>
                  /\ XidsOf(completions) \in Seq(Names)
                  /\ Head(XidsOf(completions)) = c.xid
                BY <1>5, CompletionNames DEF CallBack
            <4>2. QED
                BY <2>3, <4>1, SortedTail DEF Completing
        <3>3. c.xid \in Accepted /\ c.xid \notin Told
            BY <3>2 DEF PlaceInv
        <3>4. closeRequested \/ Service!InTurn(c.xid)
            BY <1>5, <2>3, CallBackInTurn DEF Service!InTurn
        <3>5. result' = [result EXCEPT ![c.xid] = c.rc]
            BY <1>5, <2>3 DEF CallBack
        <3> HIDE DEF c
        <3>6. QED
            BY <1>2, <2>3, <3>1, <3>3, <3>4, <3>5
    <2>4. QED
        BY <2>2, <2>3
<1>6. /\ ioRc \in Errors /\ Due(ioRc) /\ "ZCLOSING" \in Errors
      /\ closeRequested => Due("ZCLOSING")
    BY ErrorCodes DEF TypeOK, ThreadTypes, EndInv, Due, SessionEnds
<1>7. QED
    BY <1>3, <1>4, <1>5, <1>6 DEF Finish

LEMMA ServiceStep ==
    ASSUME ServiceInv, ServiceInv', [Next]_vars
    PROVE  [Service!Next]_<<issued, Refused, applied, result, Over,
                            closeRequested>>
<1> /\ PlacesInv /\ BaseInv /\ TypeOK /\ ConnectionInv /\ LockInv /\ WorkInv
    /\ IssuedOnce /\ OutcomeInv'
    BY DEF ServiceInv, PlacesInv, BaseInv
<1>0. /\ Over => Over'
      /\ Over \in BOOLEAN /\ Over' \in BOOLEAN
      /\ closeRequested \in BOOLEAN /\ closeRequested' \in BOOLEAN
    <2>1. TypeOK'
        BY DEF ServiceInv, PlacesInv, BaseInv
    <2>2. QED
        BY <2>1, WorkStep DEF Over, is_unrecoverable, TypeOK, ThreadTypes
<1>1. CASE Silent
    <2>1. UNCHANGED <<issued, Refused, result, closeRequested>>
        BY <1>1 DEF Silent
    <2>2. applied \subseteq applied'
        BY AppliedGrows
    <2>3. applied' \subseteq ToSet(issued)
        <3>1. applied' \subseteq Pushed'
            BY DEF Pushed
        <3>2. Pushed' \subseteq Accepted'
            BY <3>1 DEF OutcomeInv, Pushed, Through, Accepted, ServiceInv,
                        PlacesInv, BaseInv, TypeOK, HistoryTypes
        <3>3. ToSet(issued)' = Accepted'
            BY DEF ServiceInv, PlacesInv, IssuedOnce
        <3>4. QED
            BY <2>1, <3>1, <3>2, <3>3
    <2>4. \E S \in SUBSET ToSet(issued) : applied' = applied \cup S
        <3>1. applied' \in SUBSET ToSet(issued) /\ applied' = applied \cup applied'
            BY <2>2, <2>3
        <3>2. QED
            BY <3>1
    <2>5. Over' \in {Over, TRUE}
        BY <1>0
    <2>6. Service!Serve
        BY <2>1, <2>4, <2>5, SameElements DEF Service!Serve, Refused, Over
    <2>7. QED
        BY <2>6 DEF Service!Next
<1>2. ASSUME NEW r \in Requests, Join(r) PROVE Service!Next
    <2>1. r \notin Accepted /\ r \notin Refused
        BY <1>2 DEF Join, Accept, Accepted, Refused
    <2>2. Service!New(r)
        BY <2>1, SameElements DEF Service!New, IssuedOnce, Refused
    <2>3. UNCHANGED <<Refused, applied, result, Over, closeRequested>>
        BY <1>2 DEF Join, Accept, Over, is_unrecoverable
    <2>4. Service!Accept(r)
        BY <1>2, <2>2, <2>3 DEF Service!Accept, Join, Accept, Refused, Over
    <2>5. QED
        BY <2>4 DEF Service!Next
<1>3. ASSUME NEW r \in Requests, Reject(r) PROVE Service!Next
    <2>1. r \notin Accepted /\ r \notin Refused
        BY <1>3 DEF Reject, Accepted, Refused
    <2>2. Service!New(r)
        BY <2>1, SameElements DEF Service!New, IssuedOnce, Refused
    <2>3. UNCHANGED <<issued, applied, result, Over, closeRequested>>
        BY <1>3 DEF Reject, Over, is_unrecoverable
    <2>4. Service!Refuse(r)
        BY <1>3, <2>2, <2>3 DEF Service!Refuse, Reject, Refused, Over
    <2>5. QED
        BY <2>4 DEF Service!Next
<1>4. CASE Announced
    <2>1. closeRequested' = TRUE /\ Over' = TRUE
        BY <1>0, <1>4 DEF Announced, Over
    <2>2. Service!Close
        BY <1>4, <2>1 DEF Service!Close, Announced, Refused, Over
    <2>3. QED
        BY <2>2 DEF Service!Next
<1>5. CASE Finish
    <2>1. UNCHANGED <<Refused, applied, Over, closeRequested>>
        BY <1>5 DEF Finish, Over, is_unrecoverable
    <2>2. CASE UNCHANGED <<issued, result>>
        BY <2>1, <2>2
    <2>3. CASE \E r \in Requests, rc \in Outcomes : Service!Tell(r, rc)
        BY <2>3 DEF Service!Next
    <2>4. QED
        BY <1>5, <2>2, <2>3, FinishTells
<1>6. QED
    BY <1>1, <1>2, <1>3, <1>4, <1>5, ServiceCases

(* RequestPipeline implements RequestService: whatever connections break,  *)
(* servers do and whoever closes the handle, each accepted request is told *)
(* one outcome, once, truthfully and, until the close, in the order of the *)
(* calls; a refused one is never executed.                                 *)
THEOREM PipelineIsAService == Spec => ServiceHolds
<1>1. Init => CallInv /\ OutcomeInv /\ WorkInv /\ EndInv /\ Service!Init
    <2> SUFFICES ASSUME Init
                 PROVE  CallInv /\ OutcomeInv /\ WorkInv /\ EndInv
                          /\ Service!Init
        OBVIOUS
    <2>1. WorkInv
        BY DEF Init, WorkInv
    <2>2. EndInv
        BY ElementsEmpty DEF Init, EndInv, Due, SessionEnds
    <2>3. Service!Init
        <3>1. {r \in Requests : pc[r] = "rejected"} = {}
            BY DEF Init
        <3>2. /\ ~closeRequested /\ ~is_unrecoverable
              /\ closeRequested = FALSE
            BY DEF Init, is_unrecoverable, Unrecoverable
        <3>3. QED
            BY <3>1, <3>2 DEF Init, Service!Init
    <2>4. QED
        BY <2>1, <2>2, <2>3, CallInit, OutcomeInit
<1>2. PlacesInv /\ CallInv /\ [Next]_vars => CallInv'
    BY HeardStep, CallOrderStep DEF CallInv
<1>3. TypeOK /\ OutcomeInv /\ [Next]_vars => OutcomeInv'
    BY OutcomeStep
<1>4. PlacesInv /\ WorkInv /\ EndInv /\ [Next]_vars => WorkInv' /\ EndInv'
    BY WorkStep, EndStep DEF PlacesInv, BaseInv
<1>5. PlacesInv => TypeOK
    BY DEF PlacesInv, BaseInv
<1>6. ServiceInv /\ ServiceInv' /\ [Next]_vars
         => [Service!Next]_<<issued, {r \in Requests : pc[r] = "rejected"},
                             applied, result,
                             closeRequested \/ is_unrecoverable,
                             closeRequested>>
    BY ServiceStep DEF Refused, Over
<1>7. QED
    BY <1>1, <1>2, <1>3, <1>4, <1>5, <1>6, PlacesAreRight, PTL
       DEF Spec, ServiceInv, ServiceHolds, Service!Spec, Service!serviceVars
=============================================================================
