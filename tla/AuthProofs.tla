------------------------------ MODULE AuthProofs ------------------------------
(* For any number of authentications, connections and short writes: each       *)
(* accepted one is answered exactly once, none is left out of an established   *)
(* connection, the greeting goes first, and a torn packet is put together.     *)
EXTENDS Auth, TLAPS

Packets == [kind : {"auth", "set_watches", "request"}, of : Auths \cup Requests \cup {Nobody},
            late : BOOLEAN, begun : BOOLEAN]

Early == {"start", "refused", "checked"}
Later == {"listed", "send", "done"}

TypeInv ==
  /\ list \in Seq(Auths) /\ completion \in SUBSET Auths /\ toSend \in Seq(Packets)
  /\ state \in States
  /\ addPc \in [Auths -> Early \cup Later]
  /\ called \in [Auths -> Seq(Results)]
  /\ taken \in [{"io", "closer"} -> [rc : Results, whom : SUBSET Auths]]
  /\ critical \in {Nobody, "io", "closer"}
  /\ ioPc \in {"loop", "auths", "answer", "error", "failing", "end"}
  /\ closerPc \in {"open", "purge", "join", "destroy", "closed"}

(* An authentication is in the list, in one thread's hands, or answered, and   *)
(* before it is listed in none of these.                                       *)
Placed(a) ==
  /\ a \in completion => a \notin taken["io"].whom /\ a \notin taken["closer"].whom
  /\ a \in taken["io"].whom => a \notin taken["closer"].whom
  /\ a \in completion \/ a \in taken["io"].whom \/ a \in taken["closer"].whom =>
       called[a] = <<>>
  /\ addPc[a] \in Early =>
       /\ a \notin completion /\ a \notin taken["io"].whom /\ a \notin taken["closer"].whom
       /\ called[a] = <<>>
  /\ addPc[a] \in Later =>
       \/ a \in completion \/ a \in taken["io"].whom \/ a \in taken["closer"].whom
       \/ Len(called[a]) = 1

PlaceInv == \A a \in Auths : Placed(a)

(* Who is about to collect holds nothing, so nothing is overwritten.           *)
HandsInv ==
  /\ ioPc \notin {"answer", "failing"} => taken["io"].whom = {}
  /\ closerPc \notin {"purge", "destroy"} => taken["closer"].whom = {}

(* After the last collection nobody adds.                                      *)
CloseInv ==
  /\ closerPc # "closed" => \A a \in Auths : addPc[a] \in Later => list # <<>>
  /\ closerPc # "open" => \A a \in Auths : addPc[a] \in {"start", "done", "refused"}
  /\ closerPc \in {"destroy", "closed"} => ioPc = "end" /\ completion = {}

IInv == TypeInv /\ PlaceInv /\ HandsInv /\ CloseInv

LEMMA Meaning == IInv => OneAnswerEach
<1> SUFFICES ASSUME IInv PROVE OneAnswerEach
  OBVIOUS
<1>1. TypeOK
  <2>1. \A i \in DOMAIN toSend : toSend[i] \in Packets
    BY DEF IInv, TypeInv
  <2>2. \A i \in DOMAIN toSend : toSend[i].kind \in {"auth", "set_watches", "request"}
    BY <2>1 DEF Packets
  <2> QED BY <2>2 DEF IInv, TypeInv, TypeOK, Early, Later
<1>2. \A a \in Auths : Len(called[a]) <= 1
  <2>1. \A a \in Auths : called[a] = <<>> \/ Len(called[a]) = 1
    BY DEF IInv, TypeInv, PlaceInv, Placed, Early, Later
  <2>2. \A a \in Auths : Len(called[a]) \in {0, 1}
    BY <2>1
  <2>3. \A n \in {0, 1} : n <= 1
    OBVIOUS
  <2> QED BY <2>2, <2>3
<1>3. \A a \in Auths : closerPc = "closed" /\ addPc[a] = "done" => Len(called[a]) = 1
  BY DEF IInv, PlaceInv, Placed, HandsInv, CloseInv, Later
<1> QED BY <1>1, <1>2, <1>3 DEF OneAnswerEach

LEMMA InitOk == Init => IInv
<1> SUFFICES ASSUME Init PROVE IInv
  OBVIOUS
<1> USE DEF Init
<1>1. TypeInv
  <2>1. taken \in [{"io", "closer"} -> [rc : Results, whom : SUBSET Auths]]
    BY DEF Nothing, Results
  <2>2. called \in [Auths -> Seq(Results)] /\ list \in Seq(Auths) /\ toSend \in Seq(Packets)
    OBVIOUS
  <2>3. addPc \in [Auths -> Early \cup Later]
    BY DEF Early
  <2> QED BY <2>1, <2>2, <2>3 DEF TypeInv, States
<1>2. PlaceInv
  BY DEF PlaceInv, Placed, Nothing, Early, Later
<1>3. HandsInv /\ CloseInv
  BY DEF HandsInv, CloseInv, Nothing, Later
<1> QED BY <1>1, <1>2, <1>3 DEF IInv

-------------------------------------------------------------------------------
(* Collecting and calling                                                      *)

Threads == {"io", "closer"}

LEMMA CollectOk ==
  ASSUME TypeInv, PlaceInv, NEW who \in Threads, taken[who].whom = {}, NEW rc \in Results,
         get_auth_completions(who, rc), UNCHANGED <<addPc, called>>
  PROVE  /\ taken' \in [Threads -> [rc : Results, whom : SUBSET Auths]] /\ completion' = {}
         /\ taken'[who].whom = completion
         /\ \A w \in Threads \ {who} : taken'[w] = taken[w]
         /\ PlaceInv'
<1> DEFINE new == IF completion = {} THEN Nothing ELSE [rc |-> rc, whom |-> completion]
<1>1. new \in [rc : Results, whom : SUBSET Auths] /\ new.whom = completion
  BY DEF TypeInv, Nothing, Results
<1>2. taken' = [taken EXCEPT ![who] = new] /\ completion' = {}
  BY DEF get_auth_completions, Collected
<1>3. /\ taken' \in [Threads -> [rc : Results, whom : SUBSET Auths]]
      /\ taken'[who].whom = completion
      /\ \A w \in Threads \ {who} : taken'[w] = taken[w]
  <2> HIDE DEF new
  <2> QED BY <1>1, <1>2 DEF TypeInv, Threads
<1>4. PlaceInv'
  <2> SUFFICES ASSUME NEW a \in Auths PROVE Placed(a)'
    BY DEF PlaceInv
  <2> QED BY <1>2, <1>3 DEF PlaceInv, Placed, Threads
<1> QED BY <1>2, <1>3, <1>4

LEMMA CallOk ==
  ASSUME TypeInv, PlaceInv, NEW who \in Threads, CallTaken(who), UNCHANGED <<addPc, completion>>
  PROVE  /\ taken' \in [Threads -> [rc : Results, whom : SUBSET Auths]]
         /\ called' \in [Auths -> Seq(Results)]
         /\ taken'[who].whom = {}
         /\ \A w \in Threads \ {who} : taken'[w] = taken[w]
         /\ PlaceInv'
<1>1. Nothing \in [rc : Results, whom : SUBSET Auths] /\ Nothing.whom = {}
  BY DEF Nothing, Results
<1>2. taken' = [taken EXCEPT ![who] = Nothing]
  BY DEF CallTaken
<1>3. /\ taken' \in [Threads -> [rc : Results, whom : SUBSET Auths]]
      /\ taken'[who].whom = {}
      /\ \A w \in Threads \ {who} : taken'[w] = taken[w]
  BY <1>1, <1>2 DEF TypeInv, Threads
<1>4. taken[who].rc \in Results
  BY DEF TypeInv, Threads
<1>5. called' \in [Auths -> Seq(Results)]
  BY <1>4 DEF CallTaken, TypeInv
<1>6. \A a \in Auths :
        /\ a \in taken[who].whom => Len(called'[a]) = 1
        /\ a \notin taken[who].whom => called'[a] = called[a]
  <2>1. \A a \in Auths : a \in taken[who].whom => called[a] = <<>>
    BY DEF PlaceInv, Placed, Threads
  <2> QED BY <1>4, <2>1 DEF CallTaken
<1>7. PlaceInv'
  <2> SUFFICES ASSUME NEW a \in Auths PROVE Placed(a)'
    BY DEF PlaceInv
  <2> QED BY <1>3, <1>6 DEF PlaceInv, Placed, Threads, Early, Later
<1> QED BY <1>3, <1>5, <1>7

(* Packets put in front, or behind, are packets.                               *)
LEMMA QueueOk ==
  ASSUME TypeInv
  PROVE  /\ \A a \in Auths, late \in BOOLEAN : send_info_packet(a, late, toSend) \in Seq(Packets)
         /\ \A r \in Requests : Append(toSend, Packet("request", r, FALSE)) \in Seq(Packets)
         /\ send_set_watches(toSend) \in Seq(Packets)
         /\ send_auth_info(toSend) \in Seq(Packets)
<1>1. toSend \in Seq(Packets) /\ list \in Seq(Auths)
  BY DEF TypeInv
<1>2. \A a \in Auths, late \in BOOLEAN : Packet("auth", a, late) \in Packets
  BY DEF Packet, Packets
<1>3. \A r \in Requests : Packet("request", r, FALSE) \in Packets
  BY DEF Packet, Packets
<1>4. Packet("set_watches", Nobody, FALSE) \in Packets
  BY DEF Packet, Packets
<1>5. \A p \in Packets : <<p>> \o toSend \in Seq(Packets) /\ Append(toSend, p) \in Seq(Packets)
  BY <1>1
<1>6. send_auth_info(toSend) \in Seq(Packets)
  <2> DEFINE packet(a) == Packet("auth", a, FALSE)
             news == [i \in 1..Len(list) |-> packet(Reverse(list)[i])]
  <2>1. \A i \in 1..Len(list) : Reverse(list)[i] \in Auths
    BY <1>1 DEF Reverse
  <2>a. \A a \in Auths : packet(a) \in Packets
    BY <1>2
  <2>2. news \in Seq(Packets)
    <3> HIDE DEF packet
    <3>1. Len(list) \in Nat /\ news \in [1..Len(list) -> Packets]
      BY <1>1, <2>1, <2>a
    <3> HIDE DEF news
    <3> QED BY <3>1
  <2>3. news \o toSend \in Seq(Packets)
    <3> HIDE DEF news
    <3> QED BY <1>1, <2>2
  <2>4. DOMAIN list = 1..Len(list)
    BY <1>1
  <2> QED BY <2>3, <2>4 DEF send_auth_info
<1> QED BY <1>1, <1>2, <1>3, <1>4, <1>5, <1>6
        DEF send_info_packet, queue_front_buffer_bytes, send_set_watches

(* A step that touches none of the places, and lists nobody.                   *)
LEMMA StayOk ==
  ASSUME PlaceInv, UNCHANGED <<completion, taken, called>>,
         \A a \in Auths : /\ addPc'[a] \in Early => addPc[a] \in Early
                          /\ addPc'[a] \in Later => addPc[a] \in Later
  PROVE  PlaceInv'
BY DEF PlaceInv, Placed

-------------------------------------------------------------------------------
(* The steps                                                                   *)

LEMMA AddOk ==
  ASSUME IInv, NEW a \in Auths, Add_check(a) \/ Add_list(a) \/ Add_look(a) \/ Add_send(a)
  PROVE  IInv'
<1> USE DEF IInv
<1>1. CASE Add_check(a)
  <2>1. TypeInv'
    BY <1>1 DEF Add_check, TypeInv, Early
  <2>2. PlaceInv'
    BY <1>1, StayOk DEF Add_check, TypeInv, Early, Later
  <2>3. HandsInv' /\ CloseInv'
    BY <1>1 DEF Add_check, HandsInv, CloseInv, TypeInv, Early, Later
  <2> QED BY <2>1, <2>2, <2>3
<1>2. CASE Add_list(a)
  <2>1. TypeInv'
    BY <1>2 DEF Add_list, add_last_auth, TypeInv, Later
  <2>2. PlaceInv'
    <3>1. \A b \in Auths \ {a} : addPc'[b] = addPc[b] /\ (b \in completion' <=> b \in completion)
      BY <1>2 DEF Add_list, TypeInv
    <3>2. addPc[a] \in Early /\ addPc'[a] = "listed" /\ a \in completion'
      BY <1>2 DEF Add_list, TypeInv, Early
    <3>3. taken' = taken /\ called' = called
      BY <1>2 DEF Add_list
    <3> SUFFICES ASSUME NEW b \in Auths PROVE Placed(b)'
      BY DEF PlaceInv
    <3>4. CASE b = a
      BY <3>2, <3>3, <3>4 DEF PlaceInv, Placed, Early
    <3>5. CASE b # a
      BY <3>1, <3>3, <3>5 DEF PlaceInv, Placed
    <3> QED BY <3>4, <3>5
  <2>a. list' # <<>>
    BY <1>2 DEF Add_list, add_last_auth, TypeInv
  <2>3. HandsInv' /\ CloseInv'
    BY <1>2, <2>a DEF Add_list, HandsInv, CloseInv
  <2> QED BY <2>1, <2>2, <2>3
<1>3. CASE Add_look(a)
  <2>1. TypeInv'
    BY <1>3 DEF Add_look, TypeInv, Later
  <2>2. PlaceInv'
    BY <1>3, StayOk DEF Add_look, TypeInv, Early, Later
  <2>3. HandsInv' /\ CloseInv'
    BY <1>3 DEF Add_look, HandsInv, CloseInv, TypeInv, Early, Later
  <2> QED BY <2>1, <2>2, <2>3
<1>4. CASE Add_send(a)
  <2>0. list # <<>>
    BY <1>4 DEF Add_send, CloseInv, Later
  <2>a. Last(list) \in Auths
    BY <2>0 DEF TypeInv, Last
  <2>1. TypeInv'
    BY <1>4, <2>a, QueueOk DEF Add_send, TypeInv, Later
  <2>2. PlaceInv'
    BY <1>4, StayOk DEF Add_send, TypeInv, Early, Later
  <2>3. HandsInv' /\ CloseInv'
    BY <1>4 DEF Add_send, HandsInv, CloseInv, TypeInv, Early, Later
  <2> QED BY <2>1, <2>2, <2>3
<1> QED BY <1>1, <1>2, <1>3, <1>4

(* Steps that leave the places alone: the connection, the queue, the exit.     *)
LEMMA QuietOk ==
  ASSUME IInv, \/ \E r \in Requests : Call(r)
               \/ IoConnect \/ IoPrime \/ IoHandshake \/ IoSendAuths \/ IoFlush \/ IoExit
  PROVE  IInv'
<1> USE DEF IInv
<1>1. toSend' \in Seq(Packets)
  <2>1. ASSUME IoFlush PROVE toSend' \in Seq(Packets)
    <3>1. toSend \in Seq(Packets) /\ toSend # <<>>
      BY <2>1 DEF IoFlush, TypeInv
    <3>2. Tail(toSend) \in Seq(Packets) /\ toSend[1] \in Packets /\ 1 \in 1..Len(toSend)
      BY <3>1
    <3>3. [toSend[1] EXCEPT !.begun = TRUE] \in Packets
      BY <3>2 DEF Packets
    <3>4. [toSend EXCEPT ![1] = [toSend[1] EXCEPT !.begun = TRUE]] \in Seq(Packets)
      BY <3>1, <3>2, <3>3
    <3> QED BY <2>1, <3>2, <3>4 DEF IoFlush
  <2> QED BY <2>1, QueueOk DEF TypeInv, Call, IoConnect, IoPrime, IoHandshake, IoSendAuths, IoExit
<1>2. /\ UNCHANGED <<list, completion, addPc, called, taken, critical, closerPc>>
      /\ \/ ioPc' \in {"loop", "auths", "end"} /\ ioPc \in {"loop", "auths"}
         \/ UNCHANGED <<state, ioPc>>
      /\ state' \in States
  BY DEF TypeInv, States, Call, IoConnect, IoPrime, IoHandshake, IoSendAuths, IoFlush, IoExit,
         adder, online
<1>3. TypeInv'
  BY <1>1, <1>2 DEF TypeInv
<1>4. PlaceInv'
  BY <1>2, StayOk
<1>5. HandsInv' /\ CloseInv'
  BY <1>2 DEF HandsInv, CloseInv
<1> QED BY <1>3, <1>4, <1>5

LEMMA IoCollectOk ==
  ASSUME IInv, IoAnswer \/ cleanup_bufs
  PROVE  IInv'
<1> USE DEF IInv
<1>1. PICK rc \in Results : get_auth_completions("io", rc)
  BY DEF IoAnswer, cleanup_bufs, Results
<1>2. /\ UNCHANGED <<list, addPc, called, closerPc>>
      /\ ioPc \in {"loop", "error"} /\ ioPc' \in {"answer", "failing"}
  BY DEF IoAnswer, cleanup_bufs, MayFail, adder
<1>3. /\ taken' \in [Threads -> [rc : Results, whom : SUBSET Auths]] /\ completion' = {}
      /\ taken'["closer"] = taken["closer"] /\ PlaceInv'
  BY <1>1, <1>2, CollectOk DEF HandsInv, Threads
<1>a. critical' = critical \/ critical' = "io"
  BY DEF IoAnswer, cleanup_bufs
<1>b. toSend' = toSend \/ toSend' = <<>>
  BY DEF IoAnswer, cleanup_bufs
<1>c. state' = state \/ state' = "auth_failed"
  BY DEF IoAnswer, cleanup_bufs
<1>4. /\ toSend' \in Seq(Packets) /\ state' \in States /\ critical' \in {Nobody, "io", "closer"}
  <2>1. /\ toSend \in Seq(Packets) /\ state \in States
        /\ critical \in {Nobody, "io", "closer"}
    BY DEF TypeInv
  <2>a. <<>> \in Seq(Packets)
    OBVIOUS
  <2>2. toSend' \in Seq(Packets)
    BY <1>b, <2>1, <2>a
  <2>3. state' \in States
    BY <1>c, <2>1 DEF States
  <2> QED BY <1>a, <2>1, <2>2, <2>3
<1>5. TypeInv'
  BY <1>2, <1>3, <1>4 DEF TypeInv, Threads
<1>6. HandsInv' /\ CloseInv'
  BY <1>2, <1>3 DEF HandsInv, CloseInv
<1> QED BY <1>3, <1>5, <1>6

LEMMA IoCallOk ==
  ASSUME IInv, IoAnswered \/ handle_error
  PROVE  IInv'
<1> USE DEF IInv
<1>1. /\ UNCHANGED <<list, addPc, completion, closerPc, toSend>> /\ CallTaken("io")
      /\ ioPc \in {"answer", "failing"} /\ ioPc' \in {"loop", "error", "end"}
  BY DEF IoAnswered, handle_error, adder
<1>2. /\ taken' \in [Threads -> [rc : Results, whom : SUBSET Auths]]
      /\ called' \in [Auths -> Seq(Results)]
      /\ taken'["io"].whom = {} /\ taken'["closer"] = taken["closer"] /\ PlaceInv'
  BY <1>1, CallOk DEF Threads
<1>3. state' \in States /\ critical' \in {Nobody, "io", "closer"}
  BY DEF IoAnswered, handle_error, TypeInv, States
<1>4. TypeInv'
  BY <1>1, <1>2, <1>3 DEF TypeInv, Threads
<1>5. HandsInv' /\ CloseInv'
  BY <1>1, <1>2 DEF HandsInv, CloseInv
<1> QED BY <1>2, <1>4, <1>5

LEMMA CloseCollectOk ==
  ASSUME IInv, CloseCollect \/ destroy
  PROVE  IInv'
<1> USE DEF IInv
<1>1. /\ UNCHANGED <<list, addPc, called, ioPc, state>> /\ get_auth_completions("closer", "closing")
      /\ \/ closerPc = "open" /\ closerPc' = "purge"
         \/ closerPc = "join" /\ closerPc' = "destroy" /\ ioPc = "end"
  BY DEF CloseCollect, destroy, adder
<1>2. "closing" \in Results
  BY DEF Results
<1>3. /\ taken' \in [Threads -> [rc : Results, whom : SUBSET Auths]] /\ completion' = {}
      /\ taken'["io"] = taken["io"] /\ PlaceInv'
  BY <1>1, <1>2, CollectOk DEF HandsInv, Threads
<1>a. critical' = critical \/ critical' = "closer"
  BY DEF CloseCollect, destroy
<1>b. toSend' = toSend \/ toSend' = <<>>
  BY DEF CloseCollect, destroy
<1>4. toSend' \in Seq(Packets) /\ critical' \in {Nobody, "io", "closer"}
  <2>1. toSend \in Seq(Packets) /\ critical \in {Nobody, "io", "closer"}
    BY DEF TypeInv
  <2>a. <<>> \in Seq(Packets)
    OBVIOUS
  <2>2. toSend' \in Seq(Packets)
    BY <1>b, <2>1, <2>a
  <2> QED BY <1>a, <2>1, <2>2
<1>5. TypeInv'
  BY <1>1, <1>3, <1>4 DEF TypeInv, Threads
<1>6. \A a \in Auths : addPc[a] \in {"start", "done", "refused"}
  BY <1>1 DEF CloseCollect, CloseInv, destroy
<1>7. HandsInv' /\ CloseInv'
  BY <1>1, <1>3, <1>6 DEF HandsInv, CloseInv
<1> QED BY <1>3, <1>5, <1>7

LEMMA CloseCallOk ==
  ASSUME IInv, adaptor_finish \/ free_auth_info
  PROVE  IInv'
<1> USE DEF IInv
<1>1. /\ UNCHANGED <<addPc, completion, ioPc, toSend, state>> /\ CallTaken("closer")
      /\ \/ closerPc = "purge" /\ closerPc' = "join" /\ list' = list
         \/ closerPc = "destroy" /\ closerPc' = "closed" /\ list' = <<>>
  BY DEF adaptor_finish, free_auth_info, adder
<1>2. /\ taken' \in [Threads -> [rc : Results, whom : SUBSET Auths]]
      /\ called' \in [Auths -> Seq(Results)]
      /\ taken'["closer"].whom = {} /\ taken'["io"] = taken["io"] /\ PlaceInv'
  BY <1>1, CallOk DEF Threads
<1>a. critical' = critical \/ critical' = Nobody
  BY DEF adaptor_finish, free_auth_info
<1>3. critical' \in {Nobody, "io", "closer"} /\ list' \in Seq(Auths)
  <2>1. list \in Seq(Auths) /\ critical \in {Nobody, "io", "closer"}
    BY DEF TypeInv
  <2>a. <<>> \in Seq(Auths)
    OBVIOUS
  <2>2. list' \in Seq(Auths)
    BY <1>1, <2>1, <2>a
  <2> QED BY <1>a, <2>1, <2>2
<1>4. TypeInv'
  BY <1>1, <1>2, <1>3 DEF TypeInv, Threads
<1>5. HandsInv' /\ CloseInv'
  BY <1>1, <1>2 DEF HandsInv, CloseInv
<1> QED BY <1>2, <1>4, <1>5

LEMMA StepOk == IInv /\ [Next]_vars => IInv'
<1> SUFFICES ASSUME IInv, [Next]_vars PROVE IInv'
  OBVIOUS
<1>1. ASSUME NEW a \in Auths, Add_check(a) \/ Add_list(a) \/ Add_look(a) \/ Add_send(a)
      PROVE  IInv'
  BY <1>1, AddOk
<1>2. CASE \/ \E r \in Requests : Call(r)
           \/ IoConnect \/ IoPrime \/ IoHandshake \/ IoSendAuths \/ IoFlush \/ IoExit
  BY <1>2, QuietOk
<1>3. CASE IoAnswer \/ IoAnswered \/ cleanup_bufs \/ handle_error
  BY <1>3, IoCollectOk, IoCallOk
<1>4. CASE CloseCollect \/ adaptor_finish \/ destroy \/ free_auth_info
  BY <1>4, CloseCollectOk, CloseCallOk
<1>5. CASE UNCHANGED vars
  BY <1>5 DEF vars, adder, online, IInv, TypeInv, PlaceInv, Placed, HandsInv, CloseInv
<1> QED BY <1>1, <1>2, <1>3, <1>4, <1>5 DEF Next

(* Whatever the server answers, however often the connection is lost, and      *)
(* whenever the handle is closed: zoo_add_auth's completion is called at most  *)
(* once, and has been called when the close returns.                           *)
THEOREM AnsweredOnce == Spec => []OneAnswerEach
<1>1. Spec => []IInv
  BY InitOk, StepOk, PTL DEF Spec
<1> QED BY <1>1, Meaning, PTL
-------------------------------------------------------------------------------
(* What the connection carries, and in which order                             *)

Pieces == [packet : Packets, piece : {"begin", "rest", "whole"}]

Unsettled == state \in {"0", "connecting", "associating"}

(* Until the handshake, and after a failure, nothing was sent; during it the   *)
(* handle is CONNECTED already.                                                *)
WireInv ==
  /\ wire \in Seq(Pieces)
  /\ Unsettled \/ ioPc \in {"failing", "auths"} => wire = <<>>
  /\ ioPc = "auths" => state = "connected"

(* Whom the close has not freed is listed; and on an established connection    *)
(* who is done is on the way.                                                  *)
ListedInv ==
  /\ closerPc # "closed" =>
       \A a \in Auths : addPc[a] \in Later => \E i \in DOMAIN list : list[i] = a
  /\ state = "connected" /\ ioPc \in {"loop", "answer"} =>
       \A a \in Auths : addPc[a] = "done" => OnTheWay(a) \/ a \in overtaken

(* Nothing of a greeting is queued before the handshake, and no authentication *)
(* but the late ones until it puts them there.                                 *)
FreshInv ==
  /\ Unsettled \/ ioPc = "failing" =>
       \A i \in DOMAIN toSend : toSend[i].kind = "request" \/ toSend[i].late
  /\ ioPc = "auths" => \A i \in DOMAIN toSend : toSend[i].kind = "auth" => toSend[i].late

(* The order of the queue, and of the queue after the wire.                    *)
Ordered(q) ==
  \A i, j \in DOMAIN q : i < j /\ ~q[j].late => Rank(q[i]) <= Rank(q[j])

Follows(w, q) ==
  \A i \in DOMAIN w : \A j \in DOMAIN q :
    ~q[j].late => Rank(w[i].packet) <= Rank(q[j])

OrderInv == Ordered(toSend) /\ Follows(wire, toSend) /\ GreetingGoesFirst

(* The rest of a packet waits behind late ones only, and its beginning is on   *)
(* the wire with late ones only behind it.                                     *)
BegunBy(w, i, p) ==
  /\ w[i].piece = "begin" /\ w[i].packet = [p EXCEPT !.begun = FALSE]
  /\ \A k \in (i + 1)..Len(w) : w[k].packet.late

Torn(w, q) ==
  \A n \in DOMAIN q : q[n].begun =>
    /\ \A m \in 1..(n - 1) : q[m].late
    /\ \E i \in DOMAIN w : BegunBy(w, i, q[n])

TornInv == Torn(wire, toSend) /\ ContinuedInPlace

CourseInv == WireInv /\ ListedInv /\ FreshInv /\ OrderInv /\ TornInv

LEMMA RankFacts ==
  ASSUME NEW p \in Packets
  PROVE  /\ Rank(p) \in 0..2
         /\ p.kind = "auth" => Rank(p) = 0
         /\ p.kind = "set_watches" => Rank(p) = 1
         /\ p.kind = "request" => Rank(p) = 2
<1>1. p.kind \in {"auth", "set_watches", "request"}
  BY DEF Packets
<1> QED BY <1>1 DEF Rank

(* A packet begun and one not begun rank alike, and are told apart by it only. *)
LEMMA BegunFacts ==
  ASSUME NEW p \in Packets, ~p.begun, NEW b, b = [p EXCEPT !.begun = TRUE]
  PROVE  /\ b \in Packets /\ b.begun /\ b.late = p.late /\ Rank(b) = Rank(p)
         /\ p = [b EXCEPT !.begun = FALSE] /\ b.kind = p.kind /\ b.of = p.of
<1>1. /\ b \in Packets /\ b.begun /\ b.late = p.late /\ b.kind = p.kind
      /\ b.of = p.of /\ p.begun = FALSE
  BY DEF Packets
<1>2. p = [b EXCEPT !.begun = FALSE]
  BY <1>1 DEF Packets
<1>3. Rank(b) = Rank(p)
  BY <1>1 DEF Rank
<1> QED BY <1>1, <1>2, <1>3

-------------------------------------------------------------------------------
(* What a packet in front changes: a late one, or a greeting of a new          *)
(* connection.                                                                 *)
LEMMA InFront ==
  ASSUME NEW w \in Seq(Pieces), NEW q \in Seq(Packets), NEW p \in Packets, ~p.begun,
         p.late \/ w = <<>>, NEW f, f = <<p>> \o q,
         \A j \in DOMAIN q : ~q[j].late => Rank(p) <= Rank(q[j]),
         Ordered(q), Follows(w, q), Torn(w, q)
  PROVE  Ordered(f) /\ Follows(w, f) /\ Torn(w, f)
<1>1. /\ f \in Seq(Packets) /\ Len(f) = Len(q) + 1 /\ f[1] = p
      /\ \A i \in 2..Len(f) : f[i] = q[i - 1]
  OBVIOUS
<1>2. DOMAIN f = 1..Len(f) /\ DOMAIN q = 1..Len(q) /\ DOMAIN w = 1..Len(w)
      /\ Len(q) \in Nat /\ Len(w) \in Nat
  BY <1>1
<1>3. \A i \in DOMAIN f : i = 1 \/ (i - 1 \in DOMAIN q /\ f[i] = q[i - 1] /\ i >= 2)
  BY <1>1, <1>2
<1>4. Ordered(f)
  <2> SUFFICES ASSUME NEW i \in DOMAIN f, NEW j \in DOMAIN f, i < j, ~f[j].late
               PROVE  Rank(f[i]) <= Rank(f[j])
    BY DEF Ordered
  <2>1. j - 1 \in DOMAIN q /\ f[j] = q[j - 1]
    BY <1>2, <1>3
  <2>2. CASE i = 1
    BY <1>1, <2>1, <2>2
  <2>3. CASE i # 1
    <3>1. i - 1 \in DOMAIN q /\ f[i] = q[i - 1] /\ i - 1 < j - 1
      BY <1>2, <1>3, <2>3
    <3> QED BY <2>1, <3>1 DEF Ordered
  <2> QED BY <2>2, <2>3
<1>5. Follows(w, f)
  BY <1>1, <1>2, <1>3 DEF Follows
<1>6. Torn(w, f)
  <2> SUFFICES ASSUME NEW n \in DOMAIN f, f[n].begun
               PROVE  /\ \A m \in 1..(n - 1) : f[m].late
                      /\ \E i \in DOMAIN w : BegunBy(w, i, f[n])
    BY DEF Torn
  <2>1. n - 1 \in DOMAIN q /\ f[n] = q[n - 1] /\ n >= 2
    BY <1>1, <1>3
  <2>2. /\ \A m \in 1..(n - 2) : q[m].late
        /\ \E i \in DOMAIN w : BegunBy(w, i, q[n - 1])
    <3>1. n - 1 - 1 = n - 2
      BY <1>2, <2>1
    <3> QED BY <2>1, <3>1 DEF Torn
  <2>3. w # <<>>
    BY <2>2
  <2>4. ASSUME NEW m \in 1..(n - 1) PROVE f[m].late
    <3>1. CASE m = 1
      BY <1>1, <2>3, <3>1
    <3>2. CASE m # 1
      <4>1. m - 1 \in 1..(n - 2) /\ m \in 2..Len(f)
        BY <1>2, <2>1, <3>2
      <4> QED BY <1>1, <2>2, <4>1
    <3> QED BY <3>1, <3>2
  <2> QED BY <2>1, <2>2, <2>4
<1> QED BY <1>4, <1>5, <1>6

(* Behind the queue anything may be put that is a request.                     *)
LEMMA Behind ==
  ASSUME NEW w \in Seq(Pieces), NEW q \in Seq(Packets), NEW p \in Packets, ~p.begun,
         p.kind = "request", NEW f, f = Append(q, p),
         Ordered(q), Follows(w, q), Torn(w, q)
  PROVE  Ordered(f) /\ Follows(w, f) /\ Torn(w, f)
<1>1. /\ f \in Seq(Packets) /\ Len(f) = Len(q) + 1 /\ f[Len(f)] = p
      /\ \A i \in 1..Len(q) : f[i] = q[i]
  OBVIOUS
<1>2. DOMAIN f = 1..Len(f) /\ DOMAIN q = 1..Len(q) /\ DOMAIN w = 1..Len(w)
      /\ Len(q) \in Nat /\ Len(w) \in Nat
  BY <1>1
<1>3. Rank(p) = 2 /\ \A i \in DOMAIN f : Rank(f[i]) \in 0..2
  BY <1>1, <1>2, RankFacts
<1>4. \A i \in DOMAIN w : Rank(w[i].packet) \in 0..2
  <2>1. \A i \in DOMAIN w : w[i] \in Pieces
    OBVIOUS
  <2>2. \A i \in DOMAIN w : w[i].packet \in Packets
    BY <2>1 DEF Pieces
  <2> QED BY <2>2, RankFacts
<1>5. Ordered(f)
  BY <1>1, <1>2, <1>3 DEF Ordered
<1>6. Follows(w, f)
  BY <1>1, <1>2, <1>3, <1>4 DEF Follows
<1>7. Torn(w, f)
  <2> SUFFICES ASSUME NEW n \in DOMAIN f, f[n].begun
               PROVE  /\ \A m \in 1..(n - 1) : f[m].late
                      /\ \E i \in DOMAIN w : BegunBy(w, i, f[n])
    BY DEF Torn
  <2>1. n \in DOMAIN q /\ f[n] = q[n]
    BY <1>1, <1>2
  <2>2. \A m \in 1..(n - 1) : f[m] = q[m]
    BY <1>1, <1>2, <2>1
  <2> QED BY <2>1, <2>2 DEF Torn
<1> QED BY <1>5, <1>6, <1>7

LEMMA Joined ==
  ASSUME NEW S, NEW a \in Seq(S), NEW b \in Seq(S)
  PROVE  /\ a \o b \in Seq(S) /\ Len(a \o b) = Len(a) + Len(b)
         /\ \A i \in 1..Len(a) : (a \o b)[i] = a[i]
         /\ \A i \in (Len(a) + 1)..(Len(a) + Len(b)) : (a \o b)[i] = b[i - Len(a)]
OBVIOUS

(* The authentications of a new connection, all in front.                      *)
LEMMA GreetingFacts ==
  ASSUME TypeInv, NEW f, f = send_auth_info(toSend)
  PROVE  \E n \in Nat :
           /\ Len(f) = n + Len(toSend) /\ f \in Seq(Packets)
           /\ \A i \in 1..n : f[i].kind = "auth" /\ ~f[i].begun
           /\ \A i \in (n + 1)..Len(f) : f[i] = toSend[i - n]
           /\ \A k \in DOMAIN list : \E i \in 1..n : f[i].of = list[k]
<1> DEFINE n == Len(list)
           packet(a) == Packet("auth", a, FALSE)
           news == [i \in 1..n |-> packet(Reverse(list)[i])]
<1>1. toSend \in Seq(Packets) /\ list \in Seq(Auths) /\ n \in Nat /\ DOMAIN list = 1..n
  BY DEF TypeInv
<1>2. /\ \A i \in 1..n : Reverse(list)[i] \in Auths
      /\ \A k \in 1..n : n - k + 1 \in 1..n /\ Reverse(list)[n - k + 1] = list[k]
  BY <1>1 DEF Reverse
<1>3. \A a \in Auths : /\ packet(a) \in Packets /\ packet(a).kind = "auth"
                       /\ packet(a).of = a /\ ~packet(a).begun
  BY DEF Packet, Packets
<1>4. f = news \o toSend
  BY <1>1 DEF send_auth_info
<1> HIDE DEF packet
<1>5. news \in Seq(Packets) /\ Len(news) = n /\ \A i \in 1..n : news[i] = packet(Reverse(list)[i])
  <2>1. news \in [1..n -> Packets]
    BY <1>2, <1>3
  <2> QED BY <1>1, <2>1
<1> HIDE DEF news
<1>6. /\ f \in Seq(Packets) /\ Len(f) = n + Len(toSend)
      /\ \A i \in 1..n : f[i] = news[i]
      /\ \A i \in (n + 1)..Len(f) : f[i] = toSend[i - n]
  <2>1. news \in Seq(Packets) /\ Len(news) = n /\ toSend \in Seq(Packets)
    BY <1>1, <1>5
  <2> HIDE DEF n
  <2>2. /\ news \o toSend \in Seq(Packets)
        /\ Len(news \o toSend) = Len(news) + Len(toSend)
        /\ \A i \in 1..Len(news) : (news \o toSend)[i] = news[i]
        /\ \A i \in (Len(news) + 1)..(Len(news) + Len(toSend)) :
             (news \o toSend)[i] = toSend[i - Len(news)]
    BY <2>1, Joined, Zenon
  <2> QED BY <2>1, <2>2, <1>4, Zenon
<1>7. \A i \in 1..n : f[i].kind = "auth" /\ ~f[i].begun
  BY <1>2, <1>3, <1>5, <1>6
<1>8. ASSUME NEW k \in DOMAIN list PROVE \E i \in 1..n : f[i].of = list[k]
  <2>1. n - k + 1 \in 1..n /\ Reverse(list)[n - k + 1] = list[k] /\ list[k] \in Auths
    BY <1>1, <1>2
  <2>2. f[n - k + 1].of = list[k]
    BY <1>3, <1>5, <1>6, <2>1
  <2> QED BY <2>1, <2>2
<1> QED BY <1>1, <1>6, <1>7, <1>8

-------------------------------------------------------------------------------
(* flush_send_queue                                                            *)
LEMMA FlushOk ==
  ASSUME TypeInv, WireInv, OrderInv, TornInv, IoFlush
  PROVE  WireInv' /\ OrderInv' /\ TornInv'
<1> DEFINE head == toSend[1]
           n == Len(wire)
           l == Len(toSend)
<1>1. /\ toSend \in Seq(Packets) /\ wire \in Seq(Pieces) /\ n \in Nat /\ l \in Nat /\ l >= 1
      /\ DOMAIN toSend = 1..l /\ DOMAIN wire = 1..n
  <2>1. toSend # <<>>
    BY DEF IoFlush
  <2> QED BY <2>1 DEF TypeInv, WireInv
<1>2. head \in Packets /\ \A i \in 1..l : toSend[i] \in Packets
  BY <1>1
<1>3. /\ state = "connected" /\ ioPc = "loop" /\ UNCHANGED <<state, ioPc>>
  BY DEF IoFlush
<1>4. /\ Ordered(toSend) /\ Follows(wire, toSend) /\ GreetingGoesFirst
      /\ Torn(wire, toSend) /\ ContinuedInPlace
  BY DEF OrderInv, TornInv
<1>5. PICK e \in Pieces :
        /\ wire' = Append(wire, e) /\ e.packet = head
        /\ \/ /\ toSend' = Tail(toSend)
              /\ e.piece = IF head.begun THEN "rest" ELSE "whole"
           \/ /\ toSend' = [toSend EXCEPT ![1].begun = TRUE]
              /\ e.piece = "begin" /\ ~head.begun
  <2> DEFINE end == [packet |-> head, piece |-> IF head.begun THEN "rest" ELSE "whole"]
             begin == [packet |-> head, piece |-> "begin"]
  <2>1. end \in Pieces /\ begin \in Pieces
    BY <1>2 DEF Pieces
  <2>2. CASE toSend' = Tail(toSend) /\ wire' = Append(wire, end)
    BY <2>1, <2>2
  <2>3. CASE toSend' = [toSend EXCEPT ![1].begun = TRUE] /\ wire' = Append(wire, begin)
             /\ ~head.begun
    BY <2>1, <2>3
  <2> QED BY <2>2, <2>3 DEF IoFlush
<1>6. /\ wire' \in Seq(Pieces) /\ Len(wire') = n + 1 /\ DOMAIN wire' = 1..(n + 1)
      /\ wire'[n + 1] = e /\ \A i \in 1..n : wire'[i] = wire[i]
  BY <1>1, <1>5
<1>7. WireInv'
  BY <1>3, <1>6 DEF WireInv, Unsettled
<1> HIDE DEF head, n, l
<1>8. GreetingGoesFirst'
  <2> SUFFICES ASSUME NEW i \in 1..(n + 1), NEW j \in 1..(n + 1), i < j,
                      ~wire'[j].packet.late
               PROVE  Rank(wire'[i].packet) <= Rank(wire'[j].packet)
    BY <1>6 DEF GreetingGoesFirst
  <2>1. i \in 1..n /\ wire'[i] = wire[i]
    BY <1>1, <1>6
  <2>2. CASE j = n + 1
    BY <1>1, <1>4, <1>5, <1>6, <2>1, <2>2 DEF Follows, head
  <2>3. CASE j # n + 1
    <3>1. j \in 1..n /\ wire'[j] = wire[j]
      BY <1>1, <1>6, <2>3
    <3> QED BY <1>1, <1>4, <2>1, <3>1 DEF GreetingGoesFirst
  <2> QED BY <2>2, <2>3
<1>9. ContinuedInPlace'
  <2> SUFFICES ASSUME NEW j \in 1..(n + 1), wire'[j].piece = "rest"
               PROVE  \E i \in 1..(j - 1) :
                        /\ wire'[i].piece = "begin"
                        /\ wire'[i].packet = [wire'[j].packet EXCEPT !.begun = FALSE]
                        /\ \A k \in (i + 1)..(j - 1) : wire'[k].packet.late
    BY <1>6 DEF ContinuedInPlace
  <2>1. CASE j = n + 1
    <3>1. e.piece = "rest" /\ head.begun
      BY <1>5, <1>6, <2>1
    <3>2. PICK i \in 1..n : BegunBy(wire, i, head)
      BY <1>1, <1>4, <3>1 DEF Torn, head
    <3>3. /\ i \in 1..(j - 1) /\ wire'[i] = wire[i]
          /\ \A k \in (i + 1)..(j - 1) : wire'[k] = wire[k] /\ k \in (i + 1)..n
      BY <1>1, <1>6, <2>1
    <3>4. /\ wire[i].piece = "begin" /\ wire[i].packet = [head EXCEPT !.begun = FALSE]
          /\ \A k \in (i + 1)..n : wire[k].packet.late
      BY <3>2 DEF BegunBy, n
    <3>5. wire'[j].packet = head
      BY <1>5, <1>6, <2>1
    <3>6. \A k \in (i + 1)..(j - 1) : wire'[k].packet.late
      BY <3>3, <3>4
    <3> QED BY <3>3, <3>4, <3>5, <3>6
  <2>2. CASE j # n + 1
    <3>1. j \in 1..n /\ wire'[j] = wire[j]
      BY <1>1, <1>6, <2>2
    <3>2. PICK i \in 1..(j - 1) :
             /\ wire[i].piece = "begin"
             /\ wire[i].packet = [wire[j].packet EXCEPT !.begun = FALSE]
             /\ \A k \in (i + 1)..(j - 1) : wire[k].packet.late
      BY <1>1, <1>4, <3>1 DEF ContinuedInPlace
    <3>3. wire'[i] = wire[i] /\ \A k \in (i + 1)..(j - 1) : wire'[k] = wire[k]
      BY <1>1, <1>6, <3>1
    <3> QED BY <3>1, <3>2, <3>3
  <2> QED BY <2>1, <2>2
(* who was begun still is, if only late ones were before it                    *)
<1>10. ASSUME NEW p, head.late, NEW i \in 1..n, BegunBy(wire, i, p)
       PROVE  BegunBy(wire', i, p)
  <2>1. wire'[i] = wire[i]
    BY <1>6
  <2>2. ASSUME NEW k \in (i + 1)..(n + 1) PROVE wire'[k].packet.late
    <3>1. CASE k = n + 1
      BY <1>5, <1>6, <1>10, <3>1
    <3>2. CASE k # n + 1
      <4>1. k \in (i + 1)..n /\ wire'[k] = wire[k]
        BY <1>1, <1>6, <3>2
      <4> QED BY <1>10, <4>1 DEF BegunBy, n
    <3> QED BY <3>1, <3>2
  <2> QED BY <1>6, <1>10, <2>1, <2>2 DEF BegunBy
<1>11. CASE toSend' = Tail(toSend)
  <2>1. /\ Len(toSend') = l - 1 /\ DOMAIN toSend' = 1..(l - 1)
        /\ \A i \in 1..(l - 1) : toSend'[i] = toSend[i + 1] /\ i + 1 \in 1..l
    BY <1>1, <1>11 DEF l
  <2>2. Ordered(toSend')
    <3> SUFFICES ASSUME NEW i \in 1..(l - 1), NEW j \in 1..(l - 1), i < j, ~toSend'[j].late
                 PROVE  Rank(toSend'[i]) <= Rank(toSend'[j])
      BY <2>1 DEF Ordered
    <3>1. i + 1 < j + 1
      OBVIOUS
    <3> QED BY <1>1, <1>4, <2>1, <3>1 DEF Ordered
  <2>3. Follows(wire', toSend')
    <3> SUFFICES ASSUME NEW i \in 1..(n + 1), NEW j \in 1..(l - 1), ~toSend'[j].late
                 PROVE  Rank(wire'[i].packet) <= Rank(toSend'[j])
      BY <1>6, <2>1 DEF Follows
    <3>1. CASE i = n + 1
      <4>1. 1 < j + 1 /\ 1 \in 1..l /\ j + 1 \in 1..l
        BY <1>1, <2>1
      <4> QED BY <1>1, <1>4, <1>5, <1>6, <2>1, <3>1, <4>1 DEF Ordered, head
    <3>2. CASE i # n + 1
      <4>1. i \in 1..n /\ wire'[i] = wire[i]
        BY <1>1, <1>6, <3>2
      <4> QED BY <1>1, <1>4, <2>1, <4>1 DEF Follows
    <3> QED BY <3>1, <3>2
  <2>4. Torn(wire', toSend')
    <3> SUFFICES ASSUME NEW m \in 1..(l - 1), toSend'[m].begun
                 PROVE  /\ \A k \in 1..(m - 1) : toSend'[k].late
                        /\ \E i \in 1..(n + 1) : BegunBy(wire', i, toSend'[m])
      BY <1>6, <2>1 DEF Torn
    <3>1. m + 1 \in 1..l /\ toSend'[m] = toSend[m + 1] /\ (m + 1) - 1 = m
      BY <1>1, <2>1
    <3>2. /\ \A k \in 1..m : toSend[k].late
          /\ \E i \in 1..n : BegunBy(wire, i, toSend[m + 1])
      BY <1>1, <1>4, <3>1 DEF Torn
    <3>3. ASSUME NEW k \in 1..(m - 1) PROVE toSend'[k].late
      <4>1. k \in 1..(l - 1) /\ k + 1 \in 1..m
        BY <1>1
      <4> QED BY <2>1, <3>2, <4>1
    <3>4. head.late
      <4>1. 1 \in 1..m
        OBVIOUS
      <4> QED BY <3>2, <4>1 DEF head
    <3>5. \E i \in 1..(n + 1) : BegunBy(wire', i, toSend'[m])
      <4>1. PICK i \in 1..n : BegunBy(wire, i, toSend[m + 1])
        BY <3>2
      <4>2. i \in 1..(n + 1)
        BY <1>1
      <4> QED BY <1>10, <3>1, <3>4, <4>1, <4>2
    <3> QED BY <3>3, <3>5
  <2> QED BY <1>7, <1>8, <1>9, <2>2, <2>3, <2>4 DEF OrderInv, TornInv
<1>12. CASE toSend' = [toSend EXCEPT ![1].begun = TRUE] /\ e.piece = "begin" /\ ~head.begun
  <2> DEFINE b == [head EXCEPT !.begun = TRUE]
  <2>1. /\ b \in Packets /\ b.begun /\ b.late = head.late /\ Rank(b) = Rank(head)
        /\ head = [b EXCEPT !.begun = FALSE]
    <3> HIDE DEF head
    <3> QED BY <1>2, <1>12, BegunFacts
  <2>2. /\ DOMAIN toSend' = 1..l /\ toSend'[1] = b /\ 1 \in 1..l
        /\ \A i \in 2..l : toSend'[i] = toSend[i] /\ i \in 1..l
    BY <1>1, <1>12 DEF head
  <2> HIDE DEF b
  <2>3. /\ \A i \in 1..l : toSend'[i].late = toSend[i].late /\ Rank(toSend'[i]) = Rank(toSend[i])
    <3> SUFFICES ASSUME NEW i \in 1..l
                 PROVE  toSend'[i].late = toSend[i].late /\ Rank(toSend'[i]) = Rank(toSend[i])
      OBVIOUS
    <3>1. CASE i = 1
      BY <2>1, <2>2, <3>1 DEF head
    <3>2. CASE i # 1
      <4>1. i \in 2..l
        BY <1>1, <3>2
      <4> QED BY <2>2, <4>1
    <3> QED BY <3>1, <3>2
  <2>4. Ordered(toSend')
    BY <1>1, <1>4, <2>2, <2>3 DEF Ordered
  <2>5. Follows(wire', toSend')
    <3> SUFFICES ASSUME NEW i \in 1..(n + 1), NEW j \in 1..l, ~toSend'[j].late
                 PROVE  Rank(wire'[i].packet) <= Rank(toSend'[j])
      BY <1>6, <2>2 DEF Follows
    <3>1. CASE i = n + 1
      <4>1. Rank(head) \in 0..2
        BY <1>2, RankFacts
      <4>2. j = 1 => Rank(toSend'[j]) = Rank(head)
        BY <2>3 DEF head
      <4>3. j # 1 => Rank(head) <= Rank(toSend[j])
        BY <1>1, <1>4, <2>2, <2>3 DEF Ordered, head
      <4> QED BY <1>5, <1>6, <2>3, <3>1, <4>1, <4>2, <4>3
    <3>2. CASE i # n + 1
      <4>1. i \in 1..n /\ wire'[i] = wire[i]
        BY <1>1, <1>6, <3>2
      <4> QED BY <1>1, <1>4, <2>3, <4>1 DEF Follows
    <3> QED BY <3>1, <3>2
  <2>6. Torn(wire', toSend')
    <3> SUFFICES ASSUME NEW m \in 1..l, toSend'[m].begun
                 PROVE  /\ \A k \in 1..(m - 1) : toSend'[k].late
                        /\ \E i \in 1..(n + 1) : BegunBy(wire', i, toSend'[m])
      BY <1>6, <2>2 DEF Torn
    <3>1. CASE m = 1
      <4>1. BegunBy(wire', n + 1, b)
        <5>1. ~ \E k \in (n + 1 + 1)..(n + 1) : TRUE
          BY <1>1
        <5> QED BY <1>5, <1>6, <1>12, <2>1, <5>1 DEF BegunBy
      <4>2. n + 1 \in 1..(n + 1) /\ ~ \E k \in 1..(m - 1) : TRUE
        BY <1>1, <3>1
      <4> QED BY <2>2, <3>1, <4>1, <4>2
    <3>2. CASE m # 1
      <4>1. m \in 2..l /\ toSend'[m] = toSend[m] /\ 1 \in 1..(m - 1)
        BY <1>1, <2>2, <3>2
      <4>2. /\ \A k \in 1..(m - 1) : toSend[k].late
            /\ \E i \in 1..n : BegunBy(wire, i, toSend[m])
        BY <1>1, <1>4, <4>1 DEF Torn
      <4>3. ASSUME NEW k \in 1..(m - 1) PROVE toSend'[k].late
        <5>1. k \in 1..l
          BY <1>1
        <5> QED BY <2>3, <4>2, <5>1
      <4>4. head.late
        BY <4>1, <4>2 DEF head
      <4>5. PICK i \in 1..n : BegunBy(wire, i, toSend[m])
        BY <4>2
      <4>6. i \in 1..(n + 1) /\ BegunBy(wire', i, toSend[m])
        BY <1>1, <1>10, <4>4, <4>5
      <4> QED BY <4>1, <4>3, <4>6
    <3> QED BY <3>1, <3>2
  <2> QED BY <1>7, <1>8, <1>9, <2>4, <2>5, <2>6 DEF OrderInv, TornInv
<1> QED BY <1>5, <1>11, <1>12

-------------------------------------------------------------------------------
(* Each part is kept                                                           *)

LEMMA OrderStep ==
  ASSUME TypeInv, CloseInv, WireInv, FreshInv, OrderInv, TornInv, Next
  PROVE  OrderInv' /\ TornInv'
<1>a. /\ toSend \in Seq(Packets) /\ wire \in Seq(Pieces) /\ list \in Seq(Auths)
      /\ DOMAIN toSend = 1..Len(toSend)
  BY DEF TypeInv, WireInv
<1>b. /\ Ordered(toSend) /\ Follows(wire, toSend) /\ GreetingGoesFirst
      /\ Torn(wire, toSend) /\ ContinuedInPlace
  BY DEF OrderInv, TornInv
<1>c. \A j \in DOMAIN toSend : toSend[j] \in Packets
  BY <1>a
<1>d. ASSUME UNCHANGED wire, Ordered(toSend'), Follows(wire, toSend'), Torn(wire, toSend')
      PROVE  OrderInv' /\ TornInv'
  BY <1>b, <1>d DEF OrderInv, TornInv, GreetingGoesFirst, ContinuedInPlace
<1>1. ASSUME UNCHANGED <<wire, toSend>> PROVE OrderInv' /\ TornInv'
  BY <1>b, <1>d, <1>1
<1>2. ASSUME NEW a \in Auths, Add_send(a) PROVE OrderInv' /\ TornInv'
  <2> DEFINE p == Packet("auth", Last(list), TRUE)
  <2>1. list # <<>>
    BY <1>2 DEF CloseInv, Add_send, Later
  <2>2. Last(list) \in Auths
    BY <1>a, <2>1 DEF Last
  <2>3. p \in Packets /\ ~p.begun /\ p.late /\ p.kind = "auth"
    BY <2>2 DEF Packet, Packets
  <2>4. toSend' = <<p>> \o toSend /\ UNCHANGED wire
    BY <1>2 DEF Add_send, send_info_packet, queue_front_buffer_bytes, online
  <2> HIDE DEF p
  <2>5. \A j \in DOMAIN toSend : Rank(p) <= Rank(toSend[j])
    BY <1>c, <2>3, RankFacts
  <2>6. Ordered(toSend') /\ Follows(wire, toSend') /\ Torn(wire, toSend')
    BY <1>a, <1>b, <2>3, <2>4, <2>5, InFront
  <2> QED BY <1>d, <2>4, <2>6
<1>3. ASSUME NEW r \in Requests, Call(r) PROVE OrderInv' /\ TornInv'
  <2> DEFINE p == Packet("request", r, FALSE)
  <2>1. p \in Packets /\ ~p.begun /\ p.kind = "request"
    BY DEF Packet, Packets
  <2>2. toSend' = Append(toSend, p) /\ UNCHANGED wire
    BY <1>3 DEF Call, online
  <2> HIDE DEF p
  <2>3. Ordered(toSend') /\ Follows(wire, toSend') /\ Torn(wire, toSend')
    BY <1>a, <1>b, <2>1, <2>2, Behind
  <2> QED BY <1>d, <2>2, <2>3
<1>4. CASE IoHandshake
  <2> DEFINE p == Packet("set_watches", Nobody, FALSE)
  <2>1. p \in Packets /\ ~p.begun /\ p.kind = "set_watches"
    BY DEF Packet, Packets
  <2>2. toSend' \in {toSend, <<p>> \o toSend} /\ UNCHANGED wire
    BY <1>4 DEF IoHandshake, send_set_watches, queue_front_buffer_bytes, online
  <2> HIDE DEF p
  <2>3. /\ wire = <<>>
        /\ \A j \in DOMAIN toSend : toSend[j].kind = "request" \/ toSend[j].late
    BY <1>4 DEF IoHandshake, WireInv, FreshInv, Unsettled
  <2>4. \A j \in DOMAIN toSend : ~toSend[j].late => Rank(p) <= Rank(toSend[j])
    BY <1>c, <2>1, <2>3, RankFacts
  <2>5. CASE toSend' = toSend
    BY <1>1, <2>2, <2>5
  <2>6. CASE toSend' = <<p>> \o toSend
    <3>1. Ordered(toSend') /\ Follows(wire, toSend') /\ Torn(wire, toSend')
      BY <1>a, <1>b, <2>1, <2>3, <2>4, <2>6, InFront
    <3> QED BY <1>d, <2>2, <3>1
  <2> QED BY <2>2, <2>5, <2>6
<1>5. CASE IoSendAuths
  <2>1. wire = <<>> /\ UNCHANGED wire /\ toSend' = send_auth_info(toSend)
    BY <1>5 DEF IoSendAuths, WireInv, online
  <2>2. PICK n \in Nat :
           /\ Len(toSend') = n + Len(toSend) /\ toSend' \in Seq(Packets)
           /\ \A i \in 1..n : toSend'[i].kind = "auth" /\ ~toSend'[i].begun
           /\ \A i \in (n + 1)..Len(toSend') : toSend'[i] = toSend[i - n]
    BY <2>1, GreetingFacts
  <2>3. /\ DOMAIN toSend' = 1..Len(toSend') /\ Len(toSend) \in Nat
        /\ \A i \in DOMAIN toSend' : toSend'[i] \in Packets
    BY <1>a, <2>2
  <2>4. \A i \in DOMAIN toSend' :
          i \in 1..n \/ (i - n \in DOMAIN toSend /\ toSend'[i] = toSend[i - n])
    BY <1>a, <2>2, <2>3
  <2>5. /\ \A i \in 1..n : i \in DOMAIN toSend' => Rank(toSend'[i]) = 0
        /\ \A i \in DOMAIN toSend' : Rank(toSend'[i]) \in 0..2
    BY <2>2, <2>3, RankFacts
  <2>6. Ordered(toSend')
    <3> SUFFICES ASSUME NEW i \in DOMAIN toSend', NEW j \in DOMAIN toSend', i < j,
                        ~toSend'[j].late
                 PROVE  Rank(toSend'[i]) <= Rank(toSend'[j])
      BY DEF Ordered
    <3>1. CASE i \in 1..n
      BY <2>5, <3>1
    <3>2. CASE i \notin 1..n
      <4>1. i - n \in DOMAIN toSend /\ toSend'[i] = toSend[i - n]
        BY <2>4, <3>2
      <4>2. j \notin 1..n
        BY <2>3, <3>2
      <4>3. j - n \in DOMAIN toSend /\ toSend'[j] = toSend[j - n] /\ i - n < j - n
        BY <2>3, <2>4, <4>2
      <4> QED BY <1>b, <4>1, <4>3 DEF Ordered
    <3> QED BY <3>1, <3>2
  <2>7. Follows(wire, toSend')
    BY <2>1 DEF Follows
  <2>8. Torn(wire, toSend')
    <3>1. \A j \in DOMAIN toSend : ~toSend[j].begun
      BY <1>b, <2>1 DEF Torn
    <3>2. \A i \in DOMAIN toSend' : ~toSend'[i].begun
      BY <2>2, <2>4, <3>1
    <3> QED BY <3>2 DEF Torn
  <2> QED BY <1>d, <2>1, <2>6, <2>7, <2>8
<1>6. CASE cleanup_bufs
  BY <1>6 DEF cleanup_bufs, OrderInv, TornInv, Ordered, Follows, Torn, GreetingGoesFirst,
              ContinuedInPlace
<1>7. CASE destroy
  <2>1. Ordered(<<>>) /\ Follows(wire, <<>>) /\ Torn(wire, <<>>)
    BY DEF Ordered, Follows, Torn
  <2> QED BY <1>7, <1>d, <2>1 DEF destroy, online
<1>8. CASE IoFlush
  BY <1>8, FlushOk
<1> QED BY <1>1, <1>2, <1>3, <1>4, <1>5, <1>6, <1>7, <1>8
        DEF Next, Add_check, Add_list, Add_look, IoConnect, IoPrime, IoAnswer, IoAnswered,
            handle_error, IoExit, CloseCollect, adaptor_finish, free_auth_info, online

LEMMA WireStep ==
  ASSUME TypeInv, WireInv, OrderInv, TornInv, Next
  PROVE  WireInv'
<1>1. CASE IoFlush
  BY <1>1, FlushOk
<1>2. CASE cleanup_bufs
  <2>1. wire' = <<>> /\ ioPc' = "failing" /\ <<>> \in Seq(Pieces)
    BY <1>2 DEF cleanup_bufs
  <2> QED BY <2>1 DEF WireInv
<1>3. CASE IoSendAuths \/ IoHandshake \/ IoConnect \/ IoPrime \/ handle_error
  BY <1>3 DEF IoSendAuths, IoHandshake, IoConnect, IoPrime, handle_error, online, WireInv,
              Unsettled, is_unrecoverable
<1>4. CASE \/ \E a \in Auths : Add_check(a) \/ Add_list(a) \/ Add_look(a) \/ Add_send(a)
           \/ \E r \in Requests : Call(r)
           \/ CloseCollect \/ adaptor_finish \/ destroy \/ free_auth_info
  <2>1. UNCHANGED <<wire, state, ioPc>>
    BY <1>4 DEF Add_check, Add_list, Add_look, Add_send, Call, CloseCollect, adaptor_finish,
                destroy, free_auth_info, online
  <2> QED BY <2>1 DEF WireInv, Unsettled
<1>5. CASE IoAnswer \/ IoAnswered \/ IoExit
  <2>1. /\ wire' = wire /\ state' \in {state, "auth_failed"}
        /\ ioPc' \in {"answer", "error", "loop", "end"}
    BY <1>5 DEF IoAnswer, IoAnswered, IoExit, online
  <2> QED BY <2>1 DEF WireInv, Unsettled
<1> QED BY <1>1, <1>2, <1>3, <1>4, <1>5 DEF Next

(* What is in a queue that grew by a packet                                    *)
LEMMA Members ==
  ASSUME NEW q \in Seq(Packets), NEW p \in Packets,
         NEW f, f = <<p>> \o q \/ f = Append(q, p)
  PROVE  /\ \A i \in DOMAIN f : f[i] = p \/ \E j \in DOMAIN q : f[i] = q[j]
         /\ \A j \in DOMAIN q : \E i \in DOMAIN f : f[i] = q[j]
<1>1. CASE f = <<p>> \o q
  <2>1. /\ DOMAIN f = 1..(Len(q) + 1) /\ f[1] = p /\ DOMAIN q = 1..Len(q) /\ Len(q) \in Nat
        /\ \A i \in 2..(Len(q) + 1) : f[i] = q[i - 1]
    BY <1>1
  <2>2. ASSUME NEW i \in DOMAIN f PROVE f[i] = p \/ \E j \in DOMAIN q : f[i] = q[j]
    <3>1. i = 1 \/ (i \in 2..(Len(q) + 1) /\ i - 1 \in DOMAIN q)
      BY <2>1
    <3> QED BY <2>1, <3>1
  <2>3. ASSUME NEW j \in DOMAIN q PROVE \E i \in DOMAIN f : f[i] = q[j]
    <3>1. j + 1 \in DOMAIN f /\ f[j + 1] = q[j]
      BY <2>1
    <3> QED BY <3>1
  <2> QED BY <2>2, <2>3
<1>2. CASE f = Append(q, p)
  <2>1. /\ DOMAIN f = 1..(Len(q) + 1) /\ f[Len(q) + 1] = p /\ DOMAIN q = 1..Len(q)
        /\ Len(q) \in Nat /\ \A i \in 1..Len(q) : f[i] = q[i]
    BY <1>2
  <2>2. ASSUME NEW i \in DOMAIN f PROVE f[i] = p \/ \E j \in DOMAIN q : f[i] = q[j]
    <3>1. i = Len(q) + 1 \/ i \in DOMAIN q
      BY <2>1
    <3> QED BY <2>1, <3>1
  <2>3. ASSUME NEW j \in DOMAIN q PROVE \E i \in DOMAIN f : f[i] = q[j]
    <3>1. j \in DOMAIN f /\ f[j] = q[j]
      BY <2>1
    <3> QED BY <3>1
  <2> QED BY <2>2, <2>3
<1> QED BY <1>1, <1>2

LEMMA FreshStep ==
  ASSUME TypeInv, CloseInv, WireInv, FreshInv, Next
  PROVE  FreshInv'
<1>a. toSend \in Seq(Packets) /\ list \in Seq(Auths)
  BY DEF TypeInv
<1>1. ASSUME NEW a \in Auths, Add_send(a) PROVE FreshInv'
  <2> DEFINE p == Packet("auth", Last(list), TRUE)
  <2>1. list # <<>>
    BY <1>1 DEF CloseInv, Add_send, Later
  <2>2. Last(list) \in Auths
    BY <1>a, <2>1 DEF Last
  <2>3. p \in Packets /\ p.late
    BY <2>2 DEF Packet, Packets
  <2>4. toSend' = <<p>> \o toSend /\ UNCHANGED <<state, ioPc>>
    BY <1>1 DEF Add_send, send_info_packet, queue_front_buffer_bytes
  <2> HIDE DEF p
  <2>5. \A i \in DOMAIN toSend' :
          toSend'[i] = p \/ \E j \in DOMAIN toSend : toSend'[i] = toSend[j]
    BY <1>a, <2>3, <2>4, Members
  <2> QED BY <2>3, <2>4, <2>5 DEF FreshInv, Unsettled
<1>2. ASSUME NEW r \in Requests, Call(r) PROVE FreshInv'
  <2> DEFINE p == Packet("request", r, FALSE)
  <2>1. p \in Packets /\ p.kind = "request"
    BY DEF Packet, Packets
  <2>2. toSend' = Append(toSend, p) /\ UNCHANGED <<state, ioPc>>
    BY <1>2 DEF Call
  <2> HIDE DEF p
  <2>3. \A i \in DOMAIN toSend' :
          toSend'[i] = p \/ \E j \in DOMAIN toSend : toSend'[i] = toSend[j]
    BY <1>a, <2>1, <2>2, Members
  <2> QED BY <2>1, <2>2, <2>3 DEF FreshInv, Unsettled
<1>3. CASE IoHandshake
  <2> DEFINE p == Packet("set_watches", Nobody, FALSE)
  <2>1. p \in Packets /\ p.kind = "set_watches"
    BY DEF Packet, Packets
  <2>2. /\ toSend' \in {toSend, <<p>> \o toSend} /\ ioPc' = "auths" /\ state' = "connected"
        /\ Unsettled
    BY <1>3 DEF IoHandshake, send_set_watches, queue_front_buffer_bytes, Unsettled
  <2> HIDE DEF p
  <2>3. \A i \in DOMAIN toSend' :
          toSend'[i] = p \/ \E j \in DOMAIN toSend : toSend'[i] = toSend[j]
    <3>1. CASE toSend' = toSend
      BY <3>1
    <3>2. CASE toSend' = <<p>> \o toSend
      BY <1>a, <2>1, <3>2, Members
    <3> QED BY <2>2, <3>1, <3>2
  <2>4. \A j \in DOMAIN toSend : toSend[j].kind = "request" \/ toSend[j].late
    BY <2>2 DEF FreshInv
  <2>5. \A i \in DOMAIN toSend' : toSend'[i].kind = "auth" => toSend'[i].late
    BY <2>1, <2>3, <2>4
  <2> QED BY <2>2, <2>5 DEF FreshInv, Unsettled
<1>4. CASE IoSendAuths \/ IoFlush
  <2>1. state = "connected" /\ UNCHANGED state /\ ioPc' = "loop"
    BY <1>4 DEF IoSendAuths, IoFlush, WireInv
  <2> QED BY <2>1 DEF FreshInv, Unsettled
<1>5. CASE cleanup_bufs \/ destroy
  BY <1>5 DEF cleanup_bufs, destroy, FreshInv
<1>6. CASE IoConnect \/ IoPrime \/ handle_error \/ IoAnswer \/ IoAnswered \/ IoExit
  BY <1>6 DEF IoConnect, IoPrime, handle_error, IoAnswer, IoAnswered, IoExit, FreshInv,
              Unsettled, is_unrecoverable
<1>7. CASE \/ \E a \in Auths : Add_check(a) \/ Add_list(a) \/ Add_look(a)
           \/ CloseCollect \/ adaptor_finish \/ free_auth_info
  <2>1. UNCHANGED <<toSend, state, ioPc>>
    BY <1>7 DEF Add_check, Add_list, Add_look, CloseCollect, adaptor_finish, free_auth_info
  <2> QED BY <2>1 DEF FreshInv, Unsettled
<1> QED BY <1>1, <1>2, <1>3, <1>4, <1>5, <1>6, <1>7 DEF Next

(* Who is listed stays listed until the list is freed.                         *)
Listed == closerPc # "closed" =>
            \A a \in Auths : addPc[a] \in Later => \E i \in DOMAIN list : list[i] = a

LEMMA ListStep ==
  ASSUME TypeInv, Listed, Next
  PROVE  Listed'
<1>a. list \in Seq(Auths) /\ addPc \in [Auths -> Early \cup Later] /\ DOMAIN list = 1..Len(list)
  BY DEF TypeInv
<1>1. ASSUME NEW a \in Auths, Add_list(a) PROVE Listed'
  <2>1. list' = Append(list, a) /\ UNCHANGED closerPc
        /\ addPc' = [addPc EXCEPT ![a] = "listed"]
    BY <1>1 DEF Add_list, add_last_auth
  <2>2. /\ DOMAIN list' = 1..(Len(list) + 1) /\ Len(list) \in Nat /\ list'[Len(list) + 1] = a
        /\ \A i \in DOMAIN list : i \in DOMAIN list' /\ list'[i] = list[i]
    BY <1>a, <2>1
  <2> SUFFICES ASSUME NEW b \in Auths, addPc'[b] \in Later, closerPc # "closed"
               PROVE  \E i \in DOMAIN list' : list'[i] = b
    BY <2>1 DEF Listed
  <2>3. CASE b = a
    <3>1. Len(list) + 1 \in DOMAIN list'
      BY <2>2
    <3> QED BY <2>2, <2>3, <3>1
  <2>4. CASE b # a
    <3>1. addPc[b] \in Later
      BY <1>a, <2>1, <2>4
    <3>2. PICK i \in DOMAIN list : list[i] = b
      BY <3>1 DEF Listed
    <3> QED BY <2>2, <3>2
  <2> QED BY <2>3, <2>4
<1>2. ASSUME NEW a \in Auths, Add_check(a) \/ Add_look(a) \/ Add_send(a) PROVE Listed'
  <2>1. UNCHANGED <<list, closerPc>>
    BY <1>2 DEF Add_check, Add_look, Add_send
  <2>2. \A b \in Auths : addPc'[b] \in Later => addPc[b] \in Later
    BY <1>2, <1>a DEF Add_check, Add_look, Add_send, Later
  <2> QED BY <2>1, <2>2 DEF Listed
<1>3. CASE free_auth_info
  BY <1>3 DEF free_auth_info, Listed
<1>4. CASE \/ \E r \in Requests : Call(r)
           \/ IoConnect \/ IoPrime \/ IoHandshake \/ IoSendAuths \/ IoFlush
           \/ IoAnswer \/ IoAnswered \/ cleanup_bufs \/ handle_error \/ IoExit
           \/ CloseCollect \/ adaptor_finish \/ destroy
  <2>1. UNCHANGED <<list, addPc>> /\ (closerPc' # "closed" => closerPc # "closed")
    BY <1>4 DEF Call, IoConnect, IoPrime, IoHandshake, IoSendAuths, IoFlush, IoAnswer,
                IoAnswered, cleanup_bufs, handle_error, IoExit, CloseCollect, adaptor_finish,
                destroy, adder
  <2> QED BY <2>1 DEF Listed
<1> QED BY <1>1, <1>2, <1>3, <1>4 DEF Next

Reached == state = "connected" /\ ioPc \in {"loop", "answer"} =>
             \A a \in Auths : addPc[a] = "done" => OnTheWay(a) \/ a \in overtaken

LEMMA ReachStep ==
  ASSUME TypeInv, CloseInv, WireInv, Listed, Reached, Next
  PROVE  Reached'
<1>a. /\ toSend \in Seq(Packets) /\ list \in Seq(Auths) /\ wire \in Seq(Pieces)
      /\ addPc \in [Auths -> Early \cup Later]
  BY DEF TypeInv, WireInv
<1>1. ASSUME NEW a \in Auths, Add_send(a) PROVE Reached'
  <2> DEFINE p == Packet("auth", Last(list), TRUE)
  <2>1. list # <<>>
    BY <1>1 DEF CloseInv, Add_send, Later
  <2>2. Last(list) \in Auths
    BY <1>a, <2>1 DEF Last
  <2>3. p \in Packets /\ p.kind = "auth" /\ p.of = Last(list)
    BY <2>2 DEF Packet, Packets
  <2>4. /\ toSend' = <<p>> \o toSend /\ UNCHANGED <<state, ioPc, wire>>
        /\ addPc' = [addPc EXCEPT ![a] = "done"]
        /\ overtaken' = IF Last(list) = a THEN overtaken ELSE overtaken \cup {a}
    BY <1>1 DEF Add_send, send_info_packet, queue_front_buffer_bytes, online
  <2>a. toSend' = <<p>> \o toSend
    BY <2>4
  <2> HIDE DEF p
  <2>b. p \in Packets /\ toSend \in Seq(Packets)
    BY <1>a, <2>3
  <2>5. /\ \E i \in DOMAIN toSend' : toSend'[i] = p
        /\ \A j \in DOMAIN toSend : \E i \in DOMAIN toSend' : toSend'[i] = toSend[j]
    <3> DEFINE f == toSend'
    <3>1. f = <<p>> \o toSend
      BY <2>a
    <3> HIDE DEF f
    <3>2. /\ 1 \in DOMAIN f /\ f[1] = p
          /\ \A j \in DOMAIN toSend : j + 1 \in DOMAIN f /\ f[j + 1] = toSend[j]
      BY <2>b, <3>1
    <3>3. \A j \in DOMAIN toSend : \E i \in DOMAIN f : f[i] = toSend[j]
      BY <3>2
    <3> QED BY <3>2, <3>3 DEF f
  <2>6. \A b \in Auths : OnTheWay(b) => OnTheWay(b)'
    BY <2>4, <2>5 DEF OnTheWay
  <2>7. OnTheWay(a)' \/ a \in overtaken'
    BY <2>3, <2>4, <2>5 DEF OnTheWay
  <2>8. \A b \in Auths \ {a} : addPc'[b] = addPc[b] /\ (b \in overtaken => b \in overtaken')
    BY <1>a, <2>4
  <2> QED BY <2>4, <2>6, <2>7, <2>8 DEF Reached
<1>2. ASSUME NEW r \in Requests, Call(r) PROVE Reached'
  <2> DEFINE p == Packet("request", r, FALSE)
  <2>1. p \in Packets
    BY DEF Packet, Packets
  <2>2. toSend' = Append(toSend, p) /\ UNCHANGED <<state, ioPc, wire, addPc, overtaken>>
    BY <1>2 DEF Call, online, adder
  <2> HIDE DEF p
  <2>3. \A j \in DOMAIN toSend : \E i \in DOMAIN toSend' : toSend'[i] = toSend[j]
    BY <1>a, <2>1, <2>2, Members
  <2>4. \A b \in Auths : OnTheWay(b) => OnTheWay(b)'
    BY <2>2, <2>3 DEF OnTheWay
  <2> QED BY <2>2, <2>4 DEF Reached
<1>3. CASE IoSendAuths
  <2>1. toSend' = send_auth_info(toSend) /\ UNCHANGED <<addPc, closerPc>>
    BY <1>3 DEF IoSendAuths, adder
  <2>2. closerPc # "closed"
    BY <1>3 DEF IoSendAuths, CloseInv
  <2>3. PICK n \in Nat :
           /\ Len(toSend') = n + Len(toSend) /\ toSend' \in Seq(Packets)
           /\ \A i \in 1..n : toSend'[i].kind = "auth"
           /\ \A k \in DOMAIN list : \E i \in 1..n : toSend'[i].of = list[k]
    BY <2>1, GreetingFacts
  <2>4. \A i \in 1..n : i \in DOMAIN toSend'
    BY <1>a, <2>3
  <2>5. ASSUME NEW a \in Auths, addPc[a] = "done" PROVE OnTheWay(a)'
    <3>1. PICK k \in DOMAIN list : list[k] = a
      BY <2>2, <2>5 DEF Listed, Later
    <3>2. PICK i \in 1..n : toSend'[i].of = a
      BY <2>3, <3>1
    <3>3. i \in DOMAIN toSend' /\ toSend'[i].kind = "auth" /\ toSend'[i].of = a
      BY <2>3, <2>4, <3>2
    <3> QED BY <3>3 DEF OnTheWay
  <2> QED BY <2>1, <2>5 DEF Reached
<1>4. CASE IoFlush
  <2>1. /\ UNCHANGED <<state, ioPc, addPc, overtaken>> /\ toSend # <<>>
        /\ ioPc = "loop"
    BY <1>4 DEF IoFlush, adder
  <2>2. PICK e :
          /\ wire' = Append(wire, e) /\ e.packet = toSend[1]
          /\ toSend' = Tail(toSend) \/ toSend' = [toSend EXCEPT ![1].begun = TRUE]
    <3> DEFINE end == [packet |-> toSend[1],
                       piece |-> IF toSend[1].begun THEN "rest" ELSE "whole"]
               begin == [packet |-> toSend[1], piece |-> "begin"]
    <3>1. end.packet = toSend[1] /\ begin.packet = toSend[1]
      OBVIOUS
    <3>2. CASE toSend' = Tail(toSend) /\ wire' = Append(wire, end)
      BY <3>1, <3>2
    <3>3. CASE toSend' = [toSend EXCEPT ![1].begun = TRUE] /\ wire' = Append(wire, begin)
      BY <3>1, <3>3
    <3> QED BY <1>4, <3>2, <3>3 DEF IoFlush
  <2>3. /\ Len(wire) + 1 \in DOMAIN wire' /\ wire'[Len(wire) + 1] = e
        /\ \A i \in DOMAIN wire : i \in DOMAIN wire' /\ wire'[i] = wire[i]
    BY <1>a, <2>2
  <2>4. ASSUME NEW i \in DOMAIN toSend
        PROVE  i = 1 \/ \E j \in DOMAIN toSend' : toSend'[j] = toSend[i]
    <3>1. CASE i # 1 /\ toSend' = Tail(toSend)
      <4>1. i - 1 \in DOMAIN toSend' /\ toSend'[i - 1] = toSend[i]
        BY <1>a, <2>1, <3>1
      <4> QED BY <4>1
    <3>2. CASE i # 1 /\ toSend' = [toSend EXCEPT ![1].begun = TRUE]
      <4>1. i \in DOMAIN toSend' /\ toSend'[i] = toSend[i]
        BY <1>a, <2>1, <3>2
      <4> QED BY <4>1
    <3> QED BY <2>2, <3>1, <3>2
  <2>5. ASSUME NEW a \in Auths, OnTheWay(a) PROVE OnTheWay(a)'
    <3>1. ASSUME NEW i \in DOMAIN toSend, toSend[i].kind = "auth", toSend[i].of = a
          PROVE  OnTheWay(a)'
      <4>1. CASE i = 1
        BY <2>2, <2>3, <3>1, <4>1 DEF OnTheWay
      <4>2. CASE \E j \in DOMAIN toSend' : toSend'[j] = toSend[i]
        BY <3>1, <4>2 DEF OnTheWay
      <4> QED BY <2>4, <4>1, <4>2
    <3>2. ASSUME NEW i \in DOMAIN wire, wire[i].packet.kind = "auth", wire[i].packet.of = a
          PROVE  OnTheWay(a)'
      BY <2>3, <3>2 DEF OnTheWay
    <3> QED BY <2>5, <3>1, <3>2 DEF OnTheWay
  <2> QED BY <2>1, <2>5 DEF Reached
<1>5. ASSUME NEW a \in Auths, Add_check(a) \/ Add_list(a) \/ Add_look(a) PROVE Reached'
  <2>1. UNCHANGED <<toSend, wire, state, ioPc, overtaken>>
    BY <1>5 DEF Add_check, Add_list, Add_look, online
  <2>2. \A b \in Auths : state = "connected" /\ addPc'[b] = "done" => addPc[b] = "done"
    BY <1>5, <1>a DEF Add_check, Add_list, Add_look
  <2> QED BY <2>1, <2>2 DEF Reached, OnTheWay
<1>6. CASE \/ IoConnect \/ IoPrime \/ IoHandshake \/ cleanup_bufs \/ handle_error \/ IoExit
           \/ destroy
  BY <1>6 DEF IoConnect, IoPrime, IoHandshake, cleanup_bufs, handle_error, IoExit, destroy,
              is_unrecoverable, Reached
<1>7. CASE IoAnswer \/ IoAnswered \/ CloseCollect \/ adaptor_finish \/ free_auth_info
  <2>1. /\ UNCHANGED <<toSend, wire, addPc, overtaken>>
        /\ state' = "connected" /\ ioPc' \in {"loop", "answer"} =>
             state = "connected" /\ ioPc \in {"loop", "answer"}
    BY <1>7 DEF IoAnswer, IoAnswered, CloseCollect, adaptor_finish, free_auth_info, online,
                adder
  <2> QED BY <2>1 DEF Reached, OnTheWay
<1> QED BY <1>1, <1>2, <1>3, <1>4, <1>5, <1>6, <1>7 DEF Next

-------------------------------------------------------------------------------
LEMMA CourseInit == Init => CourseInv
<1> SUFFICES ASSUME Init PROVE CourseInv
  OBVIOUS
<1>1. toSend = <<>> /\ wire = <<>> /\ ioPc = "loop" /\ state = "0"
  BY DEF Init
<1>2. WireInv /\ FreshInv /\ OrderInv /\ TornInv
  BY <1>1 DEF WireInv, FreshInv, OrderInv, TornInv, Ordered, Follows, Torn,
              GreetingGoesFirst, ContinuedInPlace
<1>3. ListedInv
  BY <1>1 DEF Init, ListedInv, Later
<1> QED BY <1>2, <1>3 DEF CourseInv

LEMMA CourseStep == IInv /\ CourseInv /\ [Next]_vars => CourseInv'
<1> SUFFICES ASSUME IInv, CourseInv, [Next]_vars PROVE CourseInv'
  OBVIOUS
<1>1. CASE UNCHANGED vars
  BY <1>1 DEF vars, adder, online, CourseInv, WireInv, Unsettled, ListedInv, OnTheWay,
              FreshInv, OrderInv, TornInv, GreetingGoesFirst, ContinuedInPlace
<1>2. CASE Next
  <2>1. /\ TypeInv /\ CloseInv /\ WireInv /\ FreshInv /\ OrderInv /\ TornInv
        /\ Listed /\ Reached
    BY DEF IInv, CourseInv, ListedInv, Listed, Reached
  <2>2. OrderInv' /\ TornInv'
    BY <1>2, <2>1, OrderStep
  <2>3. WireInv' /\ FreshInv'
    BY <1>2, <2>1, WireStep, FreshStep
  <2>4. Listed' /\ Reached'
    BY <1>2, <2>1, ListStep, ReachStep
  <2> QED BY <2>2, <2>3, <2>4 DEF CourseInv, ListedInv, Listed, Reached
<1> QED BY <1>1, <1>2

LEMMA CourseHolds == Spec => []CourseInv
<1>1. Spec => []IInv
  BY InitOk, StepOk, PTL DEF Spec
<1> QED BY <1>1, CourseInit, CourseStep, PTL DEF Spec

(* On an established connection every authentication that was accepted has     *)
(* been sent or will be, however zoo_add_auth, the handshake and the failures  *)
(* interleave, unless another call overtook it.                                *)
THEOREM NobodyIsForgotten == Spec => []NobodyIsLeftOut
<1>1. CourseInv => NobodyIsLeftOut
  BY DEF CourseInv, ListedInv, NobodyIsLeftOut
<1> QED BY <1>1, CourseHolds, PTL

(* On every connection the authentication leaves before the watches, and both  *)
(* before any request, for any list and any number of short writes.            *)
THEOREM GreetingIsFirst == Spec => []GreetingGoesFirst
<1>1. CourseInv => GreetingGoesFirst
  BY DEF CourseInv, OrderInv
<1> QED BY <1>1, CourseHolds, PTL

(* A packet that was sent in part is continued where it was left, but for late *)
(* authentications that come in between.                                       *)
THEOREM RestComesNext == Spec => []ContinuedInPlace
<1>1. CourseInv => ContinuedInPlace
  BY DEF CourseInv, TornInv
<1> QED BY <1>1, CourseHolds, PTL
===============================================================================
