------------------------------ MODULE Watches ------------------------------
(***************************************************************************)
(* Watches: a read carries a watcher; when its reply arrives the IO thread *)
(* puts the watcher in one of three tables (activateWatcher); an event     *)
(* moves the watchers of its path to a delivery list (collectWatchers)     *)
(* that the completion thread runs through (deliverWatchers); after a      *)
(* reconnect the tables are announced to the server (send_set_watches).    *)
(*                                                                         *)
(* Only the IO thread touches the tables, and each of its steps here is    *)
(* the handling of one message.  The server and the connection, two FIFO   *)
(* queues that may break, are the environment: the server keeps its half   *)
(* of the watches per connection and sends an event in the order of the    *)
(* replies around it.                                                      *)
(***************************************************************************)
EXTENDS Integers, Sequences, FiniteSets, SequencesExt

CONSTANTS
    Paths,
    Watchers,        \* pairs of a watcher function and its context
    DefaultWatcher,  \* zh->watcher, zh->context
    HashOf, Primes,  \* see HashTable
    Changing,        \* bound: the paths that ever change
    MaxCalls,        \* bound: reads with a watcher
    MaxChanges,      \* bound: changes of the data tree
    MaxConnects      \* bound: handshakes

INSTANCE HashTable WITH Keys <- Paths

ASSUME WatchesAssumption ==
    /\ DefaultWatcher \notin Watchers
    /\ Changing \subseteq Paths
    /\ HashOf \in [Paths -> Nat]
    /\ Primes \in Seq(Nat \ {0}) /\ Primes # <<>>
    /\ {MaxCalls, MaxChanges, MaxConnects} \subseteq Nat

VARIABLES
    connected,     \* is the handshake done?
    toSend, sent,  \* zh->to_send; zh->sent_requests
    c2s, s2c,      \* the connection
    active,        \* the three tables
    lastZxid,      \* zh->last_zxid
    completions,   \* the delivery lists on completions_to_process
    phase,         \* open; cleaning (destroy); gone
    exists, mzxid, pzxid,   \* the data tree: is there a node; last changes
    zxid,          \* the server's last transaction
    armed,         \* the server's half: paths, per kind of watch
    calls, connects,        \* how many so far
    since,         \* history: zxid of the reply that activated a watcher
    owed           \* history: activations less notifications

clientVars == <<connected, toSend, sent, active, lastZxid, completions, phase>>
serverVars == <<exists, mzxid, pzxid, zxid, armed>>
history    == <<since, owed>>
vars == <<clientVars, c2s, s2c, serverVars, calls, connects, history>>

-----------------------------------------------------------------------------
(* zk_hashtable.c *)

Tables == {"node", "exist", "child"}

(* exists_result_checker, data_result_checker, child_result_checker: the   *)
(* table a reply's code selects, if any.                                   *)
ExistsMeansNode(kind, rc) ==                                  \* a mutation
    CASE kind = "children" /\ rc = "ZOK"     -> {"child"}
      [] kind = "get" /\ rc = "ZOK"          -> {"node"}
      [] kind = "exists"                     -> {"node"}
      [] OTHER                               -> {}
checker(kind, rc) ==
    CASE kind = "exists" /\ rc = "ZOK"       -> {"node"}
      [] kind = "exists" /\ rc = "ZNONODE"   -> {"exist"}
      [] kind = "get" /\ rc = "ZOK"          -> {"node"}
      [] kind = "children" /\ rc = "ZOK"     -> {"child"}
      [] OTHER                               -> {}

add_to_list(list, w) ==
    IF w \in ToSet(list) THEN list ELSE <<w>> \o list

copy_watchers(from, to) ==
    LET copied[n \in 0..Len(from)] ==
            IF n = 0 THEN to ELSE add_to_list(copied[n - 1], from[n])
    IN  copied[Len(from)]

(* copy_watchers for one list after another *)
copy_lists(lists, to) ==
    LET copied[n \in 0..Len(lists)] ==
            IF n = 0 THEN to ELSE copy_watchers(lists[n], copied[n - 1])
    IN  copied[Len(lists)]

copy_table(h, to) ==
    copy_lists([n \in DOMAIN Iterate(h) |-> Iterate(h)[n].v], to)

do_insert_watcher_object(h, p, w) ==
    LET wl == hashtable_search(h, p)
    IN  IF wl = Null THEN hashtable_insert(h, p, <<w>>)
        ELSE hashtable_update(h, p, add_to_list(wl, w))

collect_keys(h) == {e.k : e \in ToSet(SubSeq(Iterate(h), 1, hashtable_count(h)))}

(* collectWatchers: the tables an event of each type looks in, and empties *)
(* for its path.                                                           *)
TablesOf(type) ==
    CASE type \in {"CREATED", "CHANGED"} -> <<"node", "exist">>
      [] type = "CHILD"                  -> <<"child">>
      [] type = "DELETED"                -> <<"node", "exist", "child">>

Collected(type, p) ==
    LET from == TablesOf(type)
    IN  copy_lists([n \in DOMAIN from |-> hashtable_search(active[from[n]], p)],
                   <<>>)

LeaveThem(type, p) == active                                  \* a mutation
Remaining(type, p) ==
    [t \in Tables |-> IF t \in ToSet(TablesOf(type))
                      THEN hashtable_remove(active[t], p) ELSE active[t]]

SessionWatchers ==
    copy_table(active.child, copy_table(active.exist,
        copy_table(active.node, <<DefaultWatcher>>)))

SessionEvent == [type |-> "SESSION", path |-> Null, list |-> SessionWatchers]

ActiveOn(t, p) == ToSet(hashtable_search(active[t], p))

-----------------------------------------------------------------------------
Init ==
    /\ connected = FALSE /\ phase = "open"
    /\ toSend = <<>> /\ sent = <<>> /\ c2s = <<>> /\ s2c = <<>>
    /\ active = [t \in Tables |-> create_hashtable]
    /\ lastZxid = 0 /\ completions = <<>>
    /\ exists \in [Paths -> BOOLEAN] /\ \A p \in Paths \ Changing : exists[p]
    /\ mzxid = [p \in Paths |-> 1] /\ pzxid = [p \in Paths |-> 1]
    /\ zxid = 1
    /\ armed = [t \in {"data", "child"} |-> {}]
    /\ calls = 0 /\ connects = 0
    /\ since = [t \in Tables |-> [p \in Paths |-> [w \in Watchers |-> 0]]]
    /\ owed = [p \in Paths |-> [w \in Watchers |-> 0]]

(* zoo_awget, zoo_awexists, zoo_awget_children: the registration travels   *)
(* with the request.  get_xid counts; the reserved numbers are negative.   *)
SET_WATCHES_XID   == -8
WATCHER_EVENT_XID == -1

Read(kind, p, w) ==
    LET r == [op |-> kind, path |-> p, watcher |-> w, xid |-> calls']
    IN  /\ phase = "open" /\ calls < MaxCalls
        /\ calls' = calls + 1
        /\ sent' = Append(sent, r)
        /\ toSend' = Append(toSend, r)
        /\ UNCHANGED <<connected, active, lastZxid, completions, phase, c2s,
                       s2c, serverVars, connects, history>>

(* send_set_watches, put in front of the queue *)
NoSetWatches(queue) == queue                                  \* a mutation
UnsetZxid(queue) ==                                           \* a mutation
    LET keys == [t \in Tables |-> collect_keys(active[t])]
    IN  IF \A t \in Tables : keys[t] = {} THEN queue
        ELSE <<[op |-> "setWatches", xid |-> SET_WATCHES_XID,
                zxid |-> MaxChanges + 1, keys |-> keys]>> \o queue
send_set_watches(queue) ==
    LET keys == [t \in Tables |-> collect_keys(active[t])]
    IN  IF \A t \in Tables : keys[t] = {} THEN queue
        ELSE <<[op |-> "setWatches", xid |-> SET_WATCHES_XID,
                zxid |-> lastZxid, keys |-> keys]>> \o queue

(* The handshake is over (check_events). *)
Connect ==
    /\ phase = "open" /\ ~connected
    /\ connects < MaxConnects
    /\ connects' = connects + 1
    /\ connected' = TRUE
    /\ toSend' = send_set_watches(toSend)
    /\ completions' = Append(completions, SessionEvent)
    /\ UNCHANGED <<sent, active, lastZxid, phase, c2s, s2c, serverVars, calls,
                   history>>

Flush ==
    /\ connected /\ toSend # <<>>
    /\ c2s' = c2s \o toSend
    /\ toSend' = <<>>
    /\ UNCHANGED <<connected, sent, active, lastZxid, completions, phase, s2c,
                   serverVars, calls, connects, history>>

(* handle_error: whatever was asked fails, the registrations with it; the  *)
(* server forgets this connection's watches.                               *)
Disconnect ==
    /\ phase = "open" /\ connected
    /\ connected' = FALSE
    /\ completions' = Append(completions, SessionEvent)
    /\ toSend' = <<>> /\ sent' = <<>> /\ c2s' = <<>> /\ s2c' = <<>>
    /\ armed' = [t \in {"data", "child"} |-> {}]
    /\ UNCHANGED <<active, lastZxid, phase, exists, mzxid, pzxid, zxid, calls,
                   connects, history>>

(* zookeeper_process takes hdr.zxid from every message that has one; an    *)
(* event has none.                                                         *)
TakeZxid(m) == lastZxid' = IF m.zxid > 0 THEN m.zxid ELSE lastZxid

(* activateWatcher, when a reply has been matched.  The xids are those of  *)
(* the head of the list: the server answers in order (RequestPipeline has  *)
(* the comparison, and a server that does not).                            *)
activateWatcher(r, rc, z) ==
    IF checker(r.op, rc) = {} THEN UNCHANGED <<active, since, owed>>
    ELSE LET t == CHOOSE x \in checker(r.op, rc) : TRUE
         IN  /\ active' = [active EXCEPT ![t] =
                    do_insert_watcher_object(@, r.path, r.watcher)]
             /\ since' = [since EXCEPT ![t][r.path][r.watcher] = z]
             /\ owed' = [owed EXCEPT ![r.path][r.watcher] = @ + 1]

IoReply ==
    /\ s2c # <<>> /\ Head(s2c).msg = "reply"
    /\ LET m == Head(s2c)
       IN  /\ TakeZxid(m)
           /\ IF m.xid = SET_WATCHES_XID
              THEN UNCHANGED <<sent, active, since, owed>>
              ELSE /\ sent' = Tail(sent)
                   /\ activateWatcher(Head(sent), m.rc, m.zxid)
    /\ s2c' = Tail(s2c)
    /\ UNCHANGED <<connected, toSend, completions, phase, c2s, serverVars,
                   calls, connects>>

IoEvent ==
    /\ s2c # <<>> /\ Head(s2c).msg = "event"
    /\ LET m == Head(s2c)
       IN  /\ TakeZxid(m)
           /\ completions' = Append(completions,
                 [type |-> m.type, path |-> m.path,
                  list |-> Collected(m.type, m.path)])
           /\ active' = Remaining(m.type, m.path)
    /\ s2c' = Tail(s2c)
    /\ UNCHANGED <<connected, toSend, sent, phase, c2s, serverVars, calls,
                   connects, history>>

(* process_completions: deliverWatchers calls everyone on the list *)
Deliver ==
    /\ completions # <<>> /\ phase = "open"
    /\ LET c == Head(completions)
       IN  owed' = IF c.type = "SESSION" THEN owed
                   ELSE [owed EXCEPT ![c.path] = [w \in Watchers |->
                            @[w] - Cardinality({i \in DOMAIN c.list :
                                                    c.list[i] = w})]]
    /\ completions' = Tail(completions)
    /\ UNCHANGED <<connected, toSend, sent, active, lastZxid, phase, c2s, s2c,
                   serverVars, calls, connects, since>>

(* zookeeper_close; then destroy, after the threads have ended:            *)
(* do_clean_hashtable empties the tables entry by entry.  What the server  *)
(* does from here on is left out.                                          *)
Close ==
    /\ phase = "open"
    /\ phase' = "cleaning"
    /\ connected' = FALSE
    /\ toSend' = <<>> /\ sent' = <<>> /\ c2s' = <<>> /\ s2c' = <<>>
    /\ completions' = <<>>
    /\ UNCHANGED <<active, lastZxid, serverVars, calls, connects, history>>

CleanOne ==
    /\ phase = "cleaning"
    /\ \/ \E t \in Tables :
             /\ hashtable_count(active[t]) > 0
             /\ active' = [active EXCEPT ![t] = hashtable_iterator_remove(@)]
             /\ UNCHANGED phase
       \/ /\ \A t \in Tables : hashtable_count(active[t]) = 0
          /\ phase' = "gone"
          /\ UNCHANGED active
    /\ UNCHANGED <<connected, toSend, sent, lastZxid, completions, c2s, s2c,
                   serverVars, calls, connects, history>>

ClientStep == Flush \/ IoReply \/ IoEvent \/ Deliver

-----------------------------------------------------------------------------
(* The server *)

Event(type, p, z) == [msg |-> "event", xid |-> WATCHER_EVENT_XID, zxid |-> -1,
                      type |-> type, path |-> p, news |-> z]
Reply(xid, rc)    == [msg |-> "reply", xid |-> xid, rc |-> rc, zxid |-> zxid]

ServerRead ==
    /\ c2s # <<>> /\ Head(c2s).op # "setWatches"
    /\ LET r    == Head(c2s)
           rc   == IF exists[r.path] THEN "ZOK" ELSE "ZNONODE"
           half == IF r.op = "children" THEN "child" ELSE "data"
       IN  /\ s2c' = Append(s2c, Reply(r.xid, rc))
           /\ armed' = IF rc = "ZOK" \/ r.op = "exists"
                       THEN [armed EXCEPT ![half] = @ \cup {r.path}]
                       ELSE armed
    /\ c2s' = Tail(c2s)
    /\ UNCHANGED <<clientVars, exists, mzxid, pzxid, zxid, calls, connects,
                   history>>

(* The event, if any, that a watch announced after a reconnect is due.     *)
Overdue(t, p, z) ==
    CASE t = "node"  -> IF ~exists[p] THEN {"DELETED"}
                        ELSE IF mzxid[p] > z THEN {"CHANGED"} ELSE {}
      [] t = "exist" -> IF exists[p] THEN {"CREATED"} ELSE {}
      [] t = "child" -> IF ~exists[p] THEN {"DELETED"}
                        ELSE IF pzxid[p] > z THEN {"CHILD"} ELSE {}

ServerSetWatches ==
    /\ c2s # <<>> /\ Head(c2s).op = "setWatches"
    /\ LET m == Head(c2s)
           watched == {x \in Tables \X Paths : x[2] \in m.keys[x[1]]}
           due(x) == Overdue(x[1], x[2], m.zxid)
           events == UNION {{Event(e, x[2], IF e = "CHILD" THEN pzxid[x[2]]
                                            ELSE mzxid[x[2]]) : e \in due(x)} :
                            x \in watched}
           quiet(T) == {x[2] : x \in {y \in watched : y[1] \in T /\ due(y) = {}}}
       IN  /\ s2c' = s2c \o SetToSeq(events) \o <<Reply(m.xid, "ZOK")>>
           /\ armed' = [data  |-> armed.data \cup quiet({"node", "exist"}),
                        child |-> armed.child \cup quiet({"child"})]
    /\ c2s' = Tail(c2s)
    /\ UNCHANGED <<clientVars, exists, mzxid, pzxid, zxid, calls, connects,
                   history>>

(* Somebody creates, deletes or sets p, or a child of it. *)
ServerChange(type, p) ==
    /\ zxid <= MaxChanges
    /\ type = "CREATED" <=> ~exists[p]
    /\ zxid' = zxid + 1
    /\ exists' = [exists EXCEPT ![p] = type # "DELETED"]
    /\ mzxid' = IF type = "CHILD" THEN mzxid ELSE [mzxid EXCEPT ![p] = zxid']
    /\ pzxid' = IF type \in {"CHILD", "CREATED"}
                THEN [pzxid EXCEPT ![p] = zxid'] ELSE pzxid
    /\ LET halves == CASE type \in {"CREATED", "CHANGED"} -> {"data"}
                       [] type = "CHILD"   -> {"child"}
                       [] type = "DELETED" -> {"data", "child"}
       IN  /\ s2c' = IF \E h \in halves : p \in armed[h]
                     THEN Append(s2c, Event(type, p, zxid')) ELSE s2c
           /\ armed' = [h \in {"data", "child"} |->
                           IF h \in halves THEN armed[h] \ {p} ELSE armed[h]]
    /\ UNCHANGED <<clientVars, c2s, calls, connects, history>>

Server == \/ ServerRead \/ ServerSetWatches
          \/ \E type \in {"CREATED", "CHANGED", "CHILD", "DELETED"},
                p \in Changing : ServerChange(type, p)

Next ==
    \/ \E kind \in {"get", "exists", "children"}, p \in Paths, w \in Watchers :
          Read(kind, p, w)
    \/ Connect \/ Disconnect \/ ClientStep \/ Close \/ CleanOne
    \/ phase = "open" /\ Server
    \/ phase = "gone" /\ UNCHANGED vars

Spec == Init /\ [][Next]_vars

-----------------------------------------------------------------------------
(* The shapes of the queues and tables.                                    *)
TypeOK ==
    /\ connected \in BOOLEAN /\ phase \in {"open", "cleaning", "gone"}
    /\ \A t \in Tables : \A e \in ToSet(Iterate(active[t])) :
          e.k \in Paths /\ ToSet(e.v) \subseteq Watchers /\ e.v # Null
    /\ \A c \in ToSet(completions) :
          ToSet(c.list) \subseteq Watchers \cup {DefaultWatcher}
    /\ lastZxid \in 0..zxid
    /\ Len(sent) <= MaxCalls

(* The hash tables stay maps through growth, removal and iteration:        *)
(* an entry in the wrong bucket is a watcher no event would find.          *)
TablesWellFormed == TypeOK /\ \A t \in Tables : WellFormed(active[t])

(* While connected, a watcher in a table is known to the server, or is     *)
(* about to be announced to it, or its event is on the way: no watcher     *)
(* sits in a table that nothing will ever take out (activateWatcher        *)
(* against collectWatchers and send_set_watches).                          *)
Half(t) == IF t = "child" THEN "child" ELSE "data"

OnTheWay(t, p) ==
    \E m \in ToSet(s2c) : /\ m.msg = "event" /\ m.path = p
                          /\ t \in ToSet(TablesOf(m.type))

Announced(t, p) == \E m \in ToSet(toSend \o c2s) :
                       m.op = "setWatches" /\ p \in m.keys[t]

NoWatchIsLost ==
    connected => \A t \in Tables, p \in Paths :
        ActiveOn(t, p) # {} =>
            p \in armed[Half(t)] \/ OnTheWay(t, p) \/ Announced(t, p)

(* A watch the server has armed has missed nothing: its path has not       *)
(* changed since the read that set it, across any number of reconnects     *)
(* (relativeZxid of send_set_watches, last_zxid of zookeeper_process).  A  *)
(* watch for a node to appear is judged by the node's absence alone: one   *)
(* created and deleted while the client was away goes unnoticed.           *)
Unchanged(t, p, z) == CASE t = "node"  -> exists[p] /\ mzxid[p] <= z
                        [] t = "child" -> exists[p] /\ pzxid[p] <= z
                        [] t = "exist" -> ~exists[p]

NoChangeIsMissed ==
    connected => \A t \in Tables, p \in Paths : \A w \in ActiveOn(t, p) :
        p \in armed[Half(t)] /\ ~OnTheWay(t, p) /\ ~Announced(t, p)
            => Unchanged(t, p, since[t][p][w])

(* An event finds only watchers set before the change it reports: one left *)
(* in a table by an earlier event would fire for a change it was not set   *)
(* for.                                                                    *)
EventsAreNews ==
    \A m \in ToSet(s2c) : m.msg = "event" =>
        \A t \in ToSet(TablesOf(m.type)) : \A w \in ActiveOn(t, m.path) :
            since[t][m.path][w] < m.news

(* Where w waits for p: tables, and places on delivery lists. *)
Pending(p, w) ==
    Cardinality({t \in Tables : w \in ActiveOn(t, p)})
    + Cardinality({i \in DOMAIN completions :
                      /\ completions[i].type # "SESSION" /\ completions[i].path = p
                      /\ w \in ToSet(completions[i].list)})

(* A watcher is called at most once for each read that set it, however     *)
(* many tables and deliveries it passes through, and once for a session    *)
(* event, whose list is collected from all three tables.                   *)
FiresOncePerRead ==
    /\ \A p \in Paths, w \in Watchers : Pending(p, w) <= owed[p][w]
    /\ \A c \in ToSet(completions) : Cardinality(ToSet(c.list)) = Len(c.list)

=============================================================================
