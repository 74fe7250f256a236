--------------------------------- MODULE Auth ---------------------------------
(* The authentication list of a handle: zoo_add_auth in any number of          *)
(* application threads, the packets the IO thread and these threads put in     *)
(* front of to_send, and the completions, which whoever fails a connection,    *)
(* reads an answer or closes the handle takes out of the list and calls.       *)
(*                                                                             *)
(* A packet may be sent in two pieces, since the socket does not block.  The   *)
(* server is external.  zookeeper_close is called when no zoo_add_auth is      *)
(* running and none follows: the function takes no reference to the handle.    *)
EXTENDS Naturals, Sequences, FiniteSets, SequencesExt

CONSTANTS
  Auths,        \* the calls of zoo_add_auth
  Requests,     \* packets other calls queue
  Watches,      \* whether the application has left any watch
  MaxConnects,  \* bound on the connections made
  MaxShort      \* bound on the short writes on a connection

Nobody == "nobody"

VARIABLES
  list,         \* auth_h, in the order of the calls
  completion,   \* entries whose completion has not been taken
  toSend,       \* to_send: packets [kind, of, late, begun]
  state,        \* zh->state
  connects,     \* connections made
  wire,         \* what was sent on this connection: packets, with the piece
  answered,     \* authentications on wire whose answer was read
  addPc, ioPc, closerPc,
  taken,        \* completions the IO thread, or the closer, is calling, and with what
  critical,     \* holder of zh_lock
  called,       \* what each completion was called with
  overtaken,    \* entries that were not the last when their caller looked
  queued        \* requests that were queued

vars == <<list, completion, toSend, state, connects, wire, answered, addPc, ioPc,
          closerPc, taken, critical, called, overtaken, queued>>

adder == <<addPc, overtaken>>
online == <<wire, answered, connects>>

States == {"0", "connecting", "associating", "connected", "auth_failed"}

is_unrecoverable == state = "auth_failed"

-------------------------------------------------------------------------------
(* The list                                                                    *)

add_last_auth(a) == list' = Append(list, a)

Nothing == [rc |-> "ok", whom |-> {}]

Collected(who, rc) ==
  [taken EXCEPT ![who] = IF completion = {} THEN Nothing ELSE [rc |-> rc, whom |-> completion]]

(* Mutant: the completions stay in the list.                                   *)
LeaveCompletions(who, rc) == taken' = Collected(who, rc) /\ UNCHANGED completion

get_auth_completions(who, rc) == taken' = Collected(who, rc) /\ completion' = {}

(* The chain of callbacks; they call nothing.                                  *)
CallTaken(who) ==
  /\ called' = [a \in Auths |-> IF a \in taken[who].whom THEN Append(called[a], taken[who].rc)
                                                        ELSE called[a]]
  /\ taken' = [taken EXCEPT ![who] = Nothing]

Packet(kind, of, late) == [kind |-> kind, of |-> of, late |-> late, begun |-> FALSE]

(* Mutant: in the order of the list, behind what is queued.                    *)
QueueBehind(packet, queue) == Append(queue, packet)

queue_front_buffer_bytes(packet, queue) == <<packet>> \o queue

send_info_packet(a, late, queue) == queue_front_buffer_bytes(Packet("auth", a, late), queue)

(* Mutant: the last one only, as zoo_add_auth does.                            *)
SendTheLast(queue) ==
  IF list = <<>> THEN queue ELSE send_info_packet(Last(list), FALSE, queue)

(* One after the other to the front, so that the last goes first.              *)
send_auth_info(queue) ==
  [i \in DOMAIN list |-> Packet("auth", Reverse(list)[i], FALSE)] \o queue

-------------------------------------------------------------------------------
(* zoo_add_auth                                                                *)

Add_check(a) ==
  /\ addPc[a] = "start" /\ closerPc = "open"
  /\ addPc' = [addPc EXCEPT ![a] = IF is_unrecoverable \/ state = "0" THEN "refused" ELSE "checked"]
  /\ UNCHANGED <<list, completion, toSend, state, online, ioPc, closerPc, taken, critical,
                 called, overtaken, queued>>

Add_list(a) ==
  /\ addPc[a] = "checked"
  /\ add_last_auth(a)
  /\ completion' = completion \cup {a}
  /\ addPc' = [addPc EXCEPT ![a] = "listed"]
  /\ UNCHANGED <<toSend, state, online, ioPc, closerPc, taken, critical, called, overtaken,
                 queued>>

Add_look(a) ==
  /\ addPc[a] = "listed"
  /\ addPc' = [addPc EXCEPT ![a] = IF state \in {"connected", "associating"} THEN "send"
                                                                             ELSE "done"]
  /\ UNCHANGED <<list, completion, toSend, state, online, ioPc, closerPc, taken, critical,
                 called, overtaken, queued>>

(* send_last_auth_info: whatever is the last entry by now.                     *)
Add_send(a) ==
  /\ addPc[a] = "send"
  /\ toSend' = send_info_packet(Last(list), TRUE, toSend)
  /\ overtaken' = IF Last(list) = a THEN overtaken ELSE overtaken \cup {a}
  /\ addPc' = [addPc EXCEPT ![a] = "done"]
  /\ UNCHANGED <<list, completion, state, online, ioPc, closerPc, taken, critical, called,
                 queued>>

(* Any other call that queues a packet.                                        *)
Call(r) ==
  /\ r \notin queued /\ closerPc = "open" /\ ~is_unrecoverable
  /\ queued' = queued \cup {r}
  /\ toSend' = Append(toSend, Packet("request", r, FALSE))
  /\ UNCHANGED <<list, completion, state, online, adder, ioPc, closerPc, taken, critical, called>>

-------------------------------------------------------------------------------
(* The IO thread                                                               *)

Online == state \in {"connecting", "associating", "connected"}

(* zookeeper_interest, with the connection made by the system.                 *)
IoConnect ==
  /\ ioPc = "loop" /\ state = "0" /\ closerPc = "open"
  /\ connects < MaxConnects
  /\ connects' = connects + 1
  /\ state' = "connecting"
  /\ UNCHANGED <<list, completion, toSend, wire, answered, adder, ioPc, closerPc, taken, critical, called, queued>>

IoPrime ==
  /\ ioPc = "loop" /\ state = "connecting"
  /\ state' = "associating"
  /\ UNCHANGED <<list, completion, toSend, online, adder, ioPc, closerPc, taken, critical, called,
                 queued>>

send_set_watches(queue) ==
  IF Watches THEN queue_front_buffer_bytes(Packet("set_watches", Nobody, FALSE), queue) ELSE queue

(* check_events, when the server has accepted the session: the state, then the *)
(* watches, then the authentication, all in front.                             *)
IoHandshake ==
  /\ ioPc = "loop" /\ state = "associating"
  /\ state' = "connected"
  /\ toSend' = send_set_watches(toSend)
  /\ ioPc' = "auths"
  /\ UNCHANGED <<list, completion, online, adder, closerPc, taken, critical, called, queued>>

IoSendAuths ==
  /\ ioPc = "auths"
  /\ toSend' = send_auth_info(toSend)
  /\ ioPc' = "loop"
  /\ UNCHANGED <<list, completion, state, online, adder, closerPc, taken, critical, called, queued>>

MayBeShort == Cardinality({i \in DOMAIN wire : wire[i].piece = "begin"}) < MaxShort

(* flush_send_queue: the head, or what the socket takes of it.                 *)
IoFlush ==
  /\ ioPc = "loop" /\ state = "connected" /\ toSend # <<>>
  /\ LET head == toSend[1]
     IN  \/ /\ toSend' = Tail(toSend)
            /\ wire' = Append(wire, [packet |-> head, piece |-> IF head.begun THEN "rest" ELSE "whole"])
         \/ /\ ~head.begun /\ MayBeShort
            /\ toSend' = [toSend EXCEPT ![1].begun = TRUE]
            /\ wire' = Append(wire, [packet |-> head, piece |-> "begin"])
  /\ UNCHANGED <<list, completion, state, answered, connects, adder, ioPc, closerPc, taken,
                 critical, called, queued>>

(* What reached the server: the pieces that end an authentication packet.      *)
Received == SelectSeq(wire, LAMBDA w : w.packet.kind = "auth" /\ w.piece # "begin")

(* auth_completion_func: one answer, for whoever waits.  The server answers    *)
(* each packet in turn, as it likes.                                           *)
IoAnswer ==
  /\ ioPc = "loop" /\ state = "connected" /\ answered < Len(Received)
  /\ answered' = answered + 1
  /\ \E rc \in {"ok", "failed"} :
       /\ state' = IF rc = "ok" THEN state ELSE "auth_failed"
       /\ get_auth_completions("io", rc)
  /\ ioPc' = "answer"
  /\ UNCHANGED <<list, toSend, wire, connects, adder, closerPc, critical, called, queued>>

IoAnswered ==
  /\ ioPc = "answer"
  /\ CallTaken("io")
  /\ ioPc' = IF is_unrecoverable THEN "error" ELSE "loop"
  /\ UNCHANGED <<list, completion, toSend, state, online, adder, closerPc, critical, queued>>

(* The connection is lost, or an answer has made it useless.                   *)
MayFail == ioPc = "error" \/ (ioPc = "loop" /\ Online)

(* Mutant: what was not sent is sent on the next connection.                   *)
KeepUnsent ==
  /\ MayFail /\ critical = Nobody
  /\ critical' = "io"
  /\ wire' = <<>> /\ answered' = 0
  /\ get_auth_completions("io", IF is_unrecoverable THEN "failed" ELSE "lost")
  /\ ioPc' = "failing"
  /\ UNCHANGED <<list, toSend, state, connects, adder, closerPc, called, queued>>

(* handle_error: cleanup_bufs empties to_send, then calls, with zh_lock held.  *)
cleanup_bufs ==
  /\ MayFail /\ critical = Nobody
  /\ critical' = "io"
  /\ toSend' = <<>>
  /\ wire' = <<>> /\ answered' = 0
  /\ get_auth_completions("io", IF is_unrecoverable THEN "failed" ELSE "lost")
  /\ ioPc' = "failing"
  /\ UNCHANGED <<list, state, connects, adder, closerPc, called, queued>>

handle_error ==
  /\ ioPc = "failing"
  /\ CallTaken("io")
  /\ critical' = Nobody
  /\ state' = IF is_unrecoverable THEN state ELSE "0"
  /\ ioPc' = IF is_unrecoverable THEN "end" ELSE "loop"
  /\ UNCHANGED <<list, completion, toSend, online, adder, closerPc, queued>>

IoExit ==
  /\ ioPc = "loop" /\ closerPc # "open"
  /\ ioPc' = "end"
  /\ UNCHANGED <<list, completion, toSend, state, online, adder, closerPc, taken, critical, called,
                 queued>>

-------------------------------------------------------------------------------
(* zookeeper_close: the completions with ZCLOSING, the threads, and once more  *)
(* in destroy.                                                                 *)

CloseCollect ==
  /\ closerPc = "open" /\ critical = Nobody
  /\ \A a \in Auths : addPc[a] \in {"start", "done", "refused"}
  /\ critical' = "closer"
  /\ get_auth_completions("closer", "closing")
  /\ closerPc' = "purge"
  /\ UNCHANGED <<list, toSend, state, online, adder, ioPc, called, queued>>

adaptor_finish ==
  /\ closerPc = "purge"
  /\ CallTaken("closer")
  /\ critical' = Nobody
  /\ closerPc' = "join"
  /\ UNCHANGED <<list, completion, toSend, state, online, adder, ioPc, queued>>

destroy ==
  /\ closerPc = "join" /\ ioPc = "end"
  /\ toSend' = <<>>
  /\ get_auth_completions("closer", "closing")
  /\ closerPc' = "destroy"
  /\ UNCHANGED <<list, state, online, adder, ioPc, critical, called, queued>>

free_auth_info ==
  /\ closerPc = "destroy"
  /\ CallTaken("closer")
  /\ list' = <<>>
  /\ closerPc' = "closed"
  /\ UNCHANGED <<completion, toSend, state, online, adder, ioPc, critical, queued>>

-------------------------------------------------------------------------------
Init ==
  /\ list = <<>> /\ completion = {} /\ toSend = <<>>
  /\ state = "0" /\ connects = 0 /\ wire = <<>> /\ answered = 0
  /\ addPc = [a \in Auths |-> "start"] /\ ioPc = "loop" /\ closerPc = "open"
  /\ taken = [who \in {"io", "closer"} |-> Nothing]
  /\ critical = Nobody
  /\ called = [a \in Auths |-> <<>>]
  /\ overtaken = {} /\ queued = {}

Next ==
  \/ \E a \in Auths : Add_check(a) \/ Add_list(a) \/ Add_look(a) \/ Add_send(a)
  \/ \E r \in Requests : Call(r)
  \/ IoConnect \/ IoPrime \/ IoHandshake \/ IoSendAuths \/ IoFlush
  \/ IoAnswer \/ IoAnswered \/ cleanup_bufs \/ handle_error \/ IoExit
  \/ CloseCollect \/ adaptor_finish \/ destroy \/ free_auth_info

Spec == Init /\ [][Next]_vars

-------------------------------------------------------------------------------
(* Properties                                                                  *)

Results == {"ok", "failed", "lost", "closing"}

TypeOK ==
  /\ list \in Seq(Auths) /\ completion \subseteq Auths
  /\ \A i \in DOMAIN toSend : toSend[i].kind \in {"auth", "set_watches", "request"}
  /\ state \in States
  /\ \A a \in Auths : addPc[a] \in {"start", "refused", "checked", "listed", "send", "done"}
  /\ \A a \in Auths : called[a] \in Seq(Results)
  /\ critical \in {Nobody, "io", "closer"}

(* Every accepted authentication is answered once: by the server's answer, the *)
(* failure of the connection or the close, whichever collects it first; and    *)
(* the close leaves none unanswered.                                           *)
OneAnswerEach ==
  /\ TypeOK
  /\ \A a \in Auths :
       /\ Len(called[a]) <= 1
       /\ closerPc = "closed" /\ addPc[a] = "done" => Len(called[a]) = 1

OnTheWay(a) ==
  \/ \E i \in DOMAIN toSend : toSend[i].kind = "auth" /\ toSend[i].of = a
  \/ \E i \in DOMAIN wire : wire[i].packet.kind = "auth" /\ wire[i].packet.of = a

(* On an established connection every listed authentication has been sent or   *)
(* is about to be, whether zoo_add_auth ran before, during or after the        *)
(* handshake; the exception is one that another call overtook between its two  *)
(* critical sections.                                                          *)
NobodyIsLeftOut ==
  state = "connected" /\ ioPc = "loop" =>
    \A a \in Auths :
      addPc[a] = "done" /\ closerPc = "open" => OnTheWay(a) \/ a \in overtaken

(* "we want the auth to be sent for, but since both call push to front we need *)
(* to call send_watch_set first": what the handshake sends leaves before any   *)
(* request, and the authentication before the watches.                         *)
Rank(packet) == CASE packet.kind = "auth" -> 0 [] packet.kind = "set_watches" -> 1 [] OTHER -> 2

GreetingGoesFirst ==
  \A i, j \in DOMAIN wire :
    i < j /\ ~wire[j].packet.late => Rank(wire[i].packet) <= Rank(wire[j].packet)

(* A packet of which a part was sent is continued on the same connection, and  *)
(* nothing comes in between but the packets zoo_add_auth puts in front.        *)
ContinuedInPlace ==
  \A j \in DOMAIN wire : wire[j].piece = "rest" =>
    \E i \in 1..(j - 1) :
      /\ wire[i].piece = "begin"
      /\ wire[i].packet = [wire[j].packet EXCEPT !.begun = FALSE]
      /\ \A k \in (i + 1)..(j - 1) : wire[k].packet.late
================================================================================
