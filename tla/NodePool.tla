-------------------------------- MODULE NodePool -------------------------------
(* ZooKeeperManager, the Qt wrapper: the hash m_nodePool from paths to         *)
(* ZooKeeperNode objects.  Two threads use it without a lock: the application  *)
(* in the functions of ZooKeeperManager, the completion thread of the client   *)
(* in the completions and the session watcher.  deleteLater leaves a node to   *)
(* the event loop of the application's thread.                                 *)
(*                                                                             *)
(* Each contains(), operator[], remove(), clear() and each step of an iterator *)
(* is a step of its own, and so is each call of the client: the other thread   *)
(* may come in between any two of them.  That two accesses may collide inside  *)
(* QHash is not modelled.  The client and the server are external: requests    *)
(* are answered in order, and any answer is possible, since other clients      *)
(* change the tree as well.  Values, types and setExists() are left out: all   *)
(* that matters of them is that the node is used; so is m_connected, which     *)
(* only the application reads.                                                 *)
EXTENDS Naturals, Sequences, FiniteSets

CONSTANTS
  Paths,       \* the paths used
  Numbered,    \* those the server may give to a sequence node
  Nodes,       \* the ZooKeeperNode objects that can be made (a bound)
  Absent,      \* the hash has no such key
  Null,        \* the hash has the key, with a null pointer
  MaxRequests  \* bound on the requests made

ASSUME NumberedAssumption == Numbered \subseteq Paths
ASSUME PointersAreDistinct == Absent \notin Nodes /\ Null \notin Nodes /\ Absent # Null

Types == {"plain", "sequence"}
Styles == {"async", "sync"}

VARIABLES
  pool,       \* m_nodePool
  node,       \* the objects: [where, path]
  queue,      \* requests whose completion has not started: [op, path, how, excused]
  app,        \* the call the application's thread is in, as a frame
  comp,       \* the completion the completion thread is in
  sweep,      \* the paths the iterator of processDisconnected has still to visit
  session,    \* "open", "closing" in quit, "quit"; "ended" by the watcher, and "left"
              \* after a quit that came through
  crashed,    \* "no", or what was used: "null", "freed", "stranger", "closed"
  made,       \* requests made
  struck      \* history: the nodes deleted in the middle of their renaming

vars == <<pool, node, queue, app, comp, sweep, session, crashed, made, struck>>

(* A frame: the step that comes next, the path it is for, and another path     *)
(* where two are involved; the type, style or code of the call; whether the    *)
(* node may be missing (excused); the node held.                               *)
Frame(op, p, how, excused) ==
  [op |-> op, path |-> p, other |-> p, how |-> how, excused |-> excused, node |-> Null]

Idle == Frame("idle", Absent, "plain", FALSE)

(* The next step of a thread, as long as the program has not crashed.          *)
At(thread, op) == crashed = "no" /\ thread.op = op

-------------------------------------------------------------------------------
(* The hash                                                                    *)

Contains(p) == pool[p] # Absent

(* operator[]: a missing key is inserted, with a null pointer.                 *)
Found(p) == IF Contains(p) THEN pool[p] ELSE Null

Looked(p) == [pool EXCEPT ![p] = Found(p)]

(* Whoever removes a key excuses what is under way for it.                     *)
ExcuseOne(p, r) == IF r.path = p THEN [r EXCEPT !.excused = TRUE] ELSE r

Excuse(p, requests) == [i \in DOMAIN requests |-> ExcuseOne(p, requests[i])]

(* remove()                                                                    *)
Erase(p) ==
  /\ pool' = [pool EXCEPT ![p] = Absent]
  /\ queue' = Excuse(p, queue)
  /\ sweep' = sweep \ {p}

(* The objects                                                                 *)

Usable(n) == n \in Nodes /\ node[n].where # "freed"

Follow(n) == crashed' = IF Usable(n) THEN "no" ELSE IF n \in Nodes THEN "freed" ELSE "null"

deleteLater(n) == IF Usable(n) THEN [node EXCEPT ![n].where = "dying"] ELSE node

(* A new node under path p of the hash.                                        *)
Insert(p) ==
  \E n \in Nodes :
    /\ node[n].where = "unused"
    /\ node' = [node EXCEPT ![n] = [where |-> "live", path |-> p]]
    /\ pool' = [pool EXCEPT ![p] = n]

(* acreateCompletion is between 225 and 228 with this node.                    *)
Renames == {"rekey", "reinsert", "unkey"}

Renaming(n) == comp.op \in Renames /\ comp.node = n

-------------------------------------------------------------------------------
(* The application's thread                                                    *)

(* The functions begin with contains().  Whoever asks for a path with a null   *)
(* pointer is excused from the start.                                          *)
Enter(p, how, present, absent) ==
  /\ At(app, "idle")
  /\ app' = Frame(IF Contains(p) THEN present ELSE absent, p, how, pool[p] = Null)
  /\ UNCHANGED <<pool, node, queue, comp, sweep, session, crashed, made, struck>>

createNode(p, type) == Enter(p, type, "found", "acreate")

createNodeSync(p, type) == Enter(p, type, "found", "create")

deleteNode(p) == Enter(p, "plain", "strike", "ask to delete")

getNodeValue(p, style) == Enter(p, style, "lookup", "make")

findNode(p) == Contains(p) /\ Enter(p, "plain", "found", "idle")

(* The second access of createNode, createNodeSync and findNode.               *)
ReturnsFound ==
  /\ At(app, "found")
  /\ pool' = Looked(app.path)
  /\ app' = Idle
  /\ UNCHANGED <<node, queue, comp, sweep, session, crashed, made, struck>>

(* A call of the client: it may be refused, and after quit it is.  The session *)
(* watcher closes the handle and leaves the pointer to it: then the call still *)
(* finds the handle closing, or it finds it freed.                             *)
Refused == UNCHANGED <<queue, crashed, made>>

OnClosedHandle == session = "ended" /\ crashed' = "closed" /\ UNCHANGED <<queue, made>>

Accepted(op, p, how, excused) ==
  /\ session = "open" /\ made < MaxRequests
  /\ made' = made + 1
  /\ queue' = Append(queue, [op |-> op, path |-> p, how |-> how, excused |-> excused])
  /\ UNCHANGED crashed

(* createNode: zoo_acreate first, the pool afterwards.  Until then the request *)
(* is excused: its completion may be there before the node.                    *)
createNodeAsks ==
  /\ At(app, "acreate")
  /\ \/ Accepted("create", app.path, app.how, TRUE) /\ app' = [app EXCEPT !.op = "insert"]
     \/ (Refused \/ OnClosedHandle) /\ app' = Idle
  /\ UNCHANGED <<pool, node, comp, sweep, session, struck>>

createNodeInserts ==
  /\ At(app, "insert")
  /\ Insert(app.path)
  /\ queue' = [i \in DOMAIN queue |->
                 IF queue[i].op = "create" /\ queue[i].path = app.path
                   THEN [queue[i] EXCEPT !.excused = FALSE] ELSE queue[i]]
  /\ app' = Idle
  /\ UNCHANGED <<comp, sweep, session, crashed, made, struck>>

GivenPaths(p, type) == IF type = "sequence" THEN Numbered \ {p} ELSE {p}

(* createNodeSync: the node goes under the path the server gave, then the path *)
(* asked for is removed, also when the two are the same.                       *)
createNodeSyncAsks ==
  /\ At(app, "create")
  /\ \/ /\ session = "open" /\ UNCHANGED <<queue, crashed, made>>
        /\ \E newPath \in GivenPaths(app.path, app.how) :
             app' = [app EXCEPT !.op = "insert sync", !.other = newPath]
     \/ (Refused \/ OnClosedHandle) /\ app' = Idle
  /\ UNCHANGED <<pool, node, comp, sweep, session, struck>>

createNodeSyncInserts ==
  /\ At(app, "insert sync")
  /\ Insert(app.other)
  /\ app' = [app EXCEPT !.op = "remove sync"]
  /\ UNCHANGED <<queue, comp, sweep, session, crashed, made, struck>>

createNodeSyncRemoves ==
  /\ At(app, "remove sync")
  /\ Erase(app.path)
  /\ comp' = ExcuseOne(app.path, comp)
  /\ app' = Idle
  /\ UNCHANGED <<node, session, crashed, made, struck>>

(* deleteNode: the node first, then its key, whatever the server will say.     *)
(* For the pool deleteNodeSync is one whose request was refused.               *)
deleteNodeStrikes ==
  /\ At(app, "strike")
  /\ LET n == Found(app.path)
     IN  /\ Follow(n)
         /\ node' = deleteLater(n)
         /\ struck' = struck \cup {m \in Nodes : m = n /\ Renaming(m)}
  /\ pool' = Looked(app.path)
  /\ app' = [app EXCEPT !.op = "remove"]
  /\ UNCHANGED <<queue, comp, sweep, session, made>>

(* Mutant: the node goes and its key stays.                                    *)
KeyStays ==
  /\ At(app, "remove")
  /\ app' = [app EXCEPT !.op = "ask to delete"]
  /\ UNCHANGED <<pool, node, queue, comp, sweep, session, crashed, made, struck>>

deleteNodeRemoves ==
  /\ At(app, "remove")
  /\ Erase(app.path)
  /\ comp' = ExcuseOne(app.path, comp)
  /\ app' = [app EXCEPT !.op = "ask to delete"]
  /\ UNCHANGED <<node, session, crashed, made, struck>>

deleteNodeAsks ==
  /\ At(app, "ask to delete")
  /\ Accepted("signal", app.path, "plain", FALSE) \/ Refused \/ OnClosedHandle
  /\ app' = Idle
  /\ UNCHANGED <<pool, node, comp, sweep, session, struck>>

(* existsNode, setNodeValue and getChildrenNode do not look at the pool; the   *)
(* completions of the last two only emit signals.                              *)
AskOnly(op, p) ==
  /\ At(app, "idle")
  /\ Accepted(op, p, "plain", FALSE) \/ OnClosedHandle
  /\ UNCHANGED <<pool, node, app, comp, sweep, session, struck>>

existsNode(p) == AskOnly("exists", p)

setNodeValue(p) == AskOnly("signal", p)

(* getNodeValue, getNodeValueSync, wgetNodeValue: the node the value is for.   *)
(* While all nodes are being deleted the call is excused: it may be freed.     *)
getNodeValueLooksUp ==
  /\ At(app, "lookup")
  /\ pool' = Looked(app.path)
  /\ app' = [app EXCEPT !.op = "ask for value", !.node = Found(app.path),
                        !.excused = app.excused \/ comp.op = "sweep"]
  /\ UNCHANGED <<node, queue, comp, sweep, session, crashed, made, struck>>

(* Mutant: the node is made when the value arrives, not when it is asked for.  *)
LeaveToCompletion ==
  /\ At(app, "make") /\ app.how = "async"
  /\ app' = [app EXCEPT !.op = "ask for value"]
  /\ UNCHANGED <<pool, node, queue, comp, sweep, session, crashed, made, struck>>

getNodeValueMakes ==
  /\ At(app, "make")
  /\ Insert(app.path)
  /\ app' = [app EXCEPT !.op = "ask for value", !.node = pool'[app.path]]
  /\ UNCHANGED <<queue, comp, sweep, session, crashed, made, struck>>

getNodeValueAsks ==
  /\ At(app, "ask for value")
  /\ \/ app.how = "async" /\ Accepted("get", app.path, "plain", app.excused)
     \/ Refused \/ OnClosedHandle
  /\ app' = IF app.how = "sync" THEN [app EXCEPT !.op = "value"] ELSE Idle
  /\ UNCHANGED <<pool, node, comp, sweep, session, struck>>

(* Whatever the answer was, the node's value is logged.                        *)
getNodeValueSyncReturns ==
  /\ At(app, "value")
  /\ Follow(app.node)
  /\ app' = Idle
  /\ UNCHANGED <<pool, node, queue, comp, sweep, session, made, struck>>

(* The event loop frees what deleteLater() was called for.                     *)
EventLoop ==
  /\ At(app, "idle")
  /\ \E n \in Nodes :
       /\ node[n].where = "dying"
       /\ node' = [node EXCEPT ![n].where = "freed"]
  /\ UNCHANGED <<pool, queue, app, comp, sweep, session, crashed, made, struck>>

(* quit: zookeeper_close, which waits for the completion thread and calls no   *)
(* completion afterwards; after the watcher's, it finds the handle closing or  *)
(* freed, and waits for nobody.                                                *)
quit ==
  /\ At(app, "idle") /\ session \in {"open", "ended"}
  /\ app' = Frame("close", Absent, "plain", FALSE)
  /\ UNCHANGED <<pool, node, queue, comp, sweep, session, crashed, made, struck>>

quitCloses ==
  /\ At(app, "close")
  /\ \/ session = "open" /\ session' = "closing" /\ UNCHANGED <<app, crashed>>
     \/ session = "ended" /\ session' = "left" /\ app' = Idle /\ UNCHANGED crashed
     \/ session = "ended" /\ crashed' = "closed" /\ UNCHANGED <<app, session>>
  /\ UNCHANGED <<pool, node, queue, comp, sweep, made, struck>>

quitReturns ==
  /\ At(app, "close") /\ session = "closing" /\ comp = Idle
  /\ session' = "quit"
  /\ queue' = <<>>
  /\ app' = Idle
  /\ UNCHANGED <<pool, node, comp, sweep, crashed, made, struck>>

-------------------------------------------------------------------------------
(* The completion thread: it goes on with the queue in zookeeper_close, and    *)
(* after the watcher called that.                                              *)

Taken(op) ==
  /\ At(comp, "idle") /\ session # "quit"
  /\ queue # <<>> /\ Head(queue).op = op
  /\ queue' = Tail(queue)

(* acreateCompletion: contains(), then the node, renamed if the server         *)
(* numbered it: other is the new path and, from 227 on, the old one.           *)
Verdict(code) == IF code = "other" THEN "drop" ELSE "tell"

acreateCompletion ==
  /\ Taken("create")
  /\ LET r == Head(queue)
     IN  \E code \in {"ok", "node exists", "other"} :
         \E path \in IF code = "ok" THEN GivenPaths(r.path, r.how) ELSE {r.path} :
           comp' = IF Contains(r.path)
                     THEN [Frame("lookup", r.path, code, r.excused) EXCEPT !.other = path]
                     ELSE Frame(Verdict(code), path, code, r.excused)
  /\ UNCHANGED <<pool, node, app, sweep, session, crashed, made, struck>>

acreateLooksUp ==
  /\ At(comp, "lookup")
  /\ LET n       == Found(comp.path)
         renamed == comp.other # comp.path
     IN  /\ comp' = [comp EXCEPT !.op = IF renamed THEN "rekey" ELSE Verdict(comp.how),
                                 !.node = n]
         /\ struck' = struck \cup {m \in Nodes \cap {n} : renamed /\ node[m].where = "dying"}
  /\ pool' = Looked(comp.path)
  /\ UNCHANGED <<node, queue, app, sweep, session, crashed, made>>

acreateRekeys ==
  /\ At(comp, "rekey")
  /\ Follow(comp.node)
  /\ node' = IF comp.node \in Nodes THEN [node EXCEPT ![comp.node].path = comp.other]
                                  ELSE node
  /\ comp' = [comp EXCEPT !.op = "reinsert"]
  /\ UNCHANGED <<pool, queue, app, sweep, session, made, struck>>

acreateReinserts ==
  /\ At(comp, "reinsert")
  /\ pool' = [pool EXCEPT ![comp.other] = comp.node]
  /\ comp' = [comp EXCEPT !.op = "unkey", !.path = comp.other, !.other = comp.path]
  /\ UNCHANGED <<node, queue, app, sweep, session, crashed, made, struck>>

acreateUnkeys ==
  /\ At(comp, "unkey")
  /\ Erase(comp.other)
  /\ app' = ExcuseOne(comp.other, app)
  /\ comp' = [comp EXCEPT !.op = "tell", !.other = comp.path]
  /\ UNCHANGED <<node, session, crashed, made, struck>>

(* It exists, or it is taken out of the pool and deleted.                      *)
acreateTells ==
  /\ At(comp, "tell")
  /\ Follow(comp.node)
  /\ comp' = Idle
  /\ UNCHANGED <<pool, node, queue, app, sweep, session, made, struck>>

acreateDrops ==
  /\ At(comp, "drop")
  /\ Erase(comp.path)
  /\ app' = ExcuseOne(comp.path, app)
  /\ comp' = [comp EXCEPT !.op = "delete"]
  /\ UNCHANGED <<node, session, crashed, made, struck>>

acreateDeletes ==
  /\ At(comp, "delete")
  /\ Follow(comp.node)
  /\ node' = deleteLater(comp.node)
  /\ comp' = Idle
  /\ UNCHANGED <<pool, queue, app, sweep, session, made, struck>>

(* agetCompletion: the node, by operator[]; the application's callback runs    *)
(* before the pointer is used.                                                 *)
agetCompletion ==
  /\ Taken("get")
  /\ LET r == Head(queue)
     IN  /\ pool' = Looked(r.path)
         /\ comp' = [Frame("value", r.path, "plain", r.excused) EXCEPT !.node = Found(r.path)]
  /\ UNCHANGED <<node, app, sweep, session, crashed, made, struck>>

(* Codes other than NoError and NoNode do not touch the node.                  *)
agetCompletionEnds ==
  /\ At(comp, "value")
  /\ UNCHANGED crashed \/ Follow(comp.node)
  /\ comp' = Idle
  /\ UNCHANGED <<pool, node, queue, app, sweep, session, made, struck>>

(* adeleteCompletion, asetCompletion and agetChildrenCompletion emit a signal. *)
SignalCompletion ==
  /\ Taken("signal")
  /\ UNCHANGED <<pool, node, app, comp, sweep, session, crashed, made, struck>>

(* aexistsCompletion takes its data, a QString, for the manager and emits the  *)
(* signal on it: the outcome is undefined.                                     *)
aexistsCompletion ==
  /\ Taken("exists")
  /\ crashed' \in {"no", "stranger"}
  /\ UNCHANGED <<pool, node, app, comp, sweep, session, made, struck>>

(* watcher, for a session that cannot go on: zookeeper_close, from which quit  *)
(* may have come first, and processDisconnected.                               *)
watcherEnds ==
  /\ At(comp, "idle")
  /\ \/ session = "open" /\ session' = "ended" /\ UNCHANGED crashed
     \/ session = "closing" /\ crashed' \in {"no", "closed"} /\ UNCHANGED session
  /\ comp' = Frame("disconnect", Absent, "plain", FALSE)
  /\ UNCHANGED <<pool, node, queue, app, sweep, made, struck>>

processDisconnected ==
  /\ At(comp, "disconnect")
  /\ comp' = [comp EXCEPT !.op = "sweep"]
  /\ sweep' = {p \in Paths : Contains(p)}
  /\ UNCHANGED <<pool, node, queue, app, session, crashed, made, struck>>

(* The iterator meets every key that stays, and may meet a new one.            *)
SweepOne ==
  /\ At(comp, "sweep")
  /\ \E p \in Paths :
       /\ Contains(p)
       /\ Follow(pool[p])
       /\ node' = deleteLater(pool[p])
       /\ sweep' = sweep \ {p}
  /\ UNCHANGED <<pool, queue, app, comp, session, made, struck>>

SweepEnds ==
  /\ At(comp, "sweep") /\ sweep = {}
  /\ pool' = [p \in Paths |-> Absent]
  /\ queue' = [i \in DOMAIN queue |-> [queue[i] EXCEPT !.excused = TRUE]]
  /\ app' = IF app = Idle THEN Idle ELSE [app EXCEPT !.excused = TRUE]
  /\ comp' = Idle
  /\ UNCHANGED <<node, sweep, session, crashed, made, struck>>

-------------------------------------------------------------------------------
Init ==
  /\ pool = [p \in Paths |-> Absent]
  /\ node = [n \in Nodes |-> [where |-> "unused", path |-> Absent]]
  /\ queue = <<>> /\ app = Idle /\ comp = Idle /\ sweep = {}
  /\ session = "open"
  /\ crashed = "no" /\ made = 0 /\ struck = {}

Application ==
  \/ \E p \in Paths :
       \/ \E type \in Types : createNode(p, type) \/ createNodeSync(p, type)
       \/ \E style \in Styles : getNodeValue(p, style)
       \/ deleteNode(p) \/ findNode(p) \/ existsNode(p) \/ setNodeValue(p)
  \/ ReturnsFound \/ createNodeAsks \/ createNodeInserts
  \/ createNodeSyncAsks \/ createNodeSyncInserts \/ createNodeSyncRemoves
  \/ deleteNodeStrikes \/ deleteNodeRemoves \/ deleteNodeAsks
  \/ getNodeValueLooksUp \/ getNodeValueMakes \/ getNodeValueAsks
  \/ getNodeValueSyncReturns \/ EventLoop \/ quit \/ quitCloses \/ quitReturns

Completion ==
  \/ acreateCompletion \/ acreateLooksUp \/ acreateRekeys \/ acreateReinserts
  \/ acreateUnkeys \/ acreateTells \/ acreateDrops \/ acreateDeletes
  \/ agetCompletion \/ agetCompletionEnds \/ SignalCompletion \/ aexistsCompletion
  \/ watcherEnds \/ processDisconnected \/ SweepOne \/ SweepEnds

Next == Application \/ Completion

Spec == Init /\ [][Next]_vars

-------------------------------------------------------------------------------
(* Properties                                                                  *)

Objects == [where : {"unused", "live", "dying", "freed"}, path : Paths \cup {Absent}]

TypeOK ==
  /\ pool \in [Paths -> Nodes \cup {Absent, Null}]
  /\ node \in [Nodes -> Objects]
  /\ \A n \in Nodes : node[n].where # "unused" => node[n].path \in Paths
  /\ sweep \subseteq Paths /\ struck \subseteq Nodes
  /\ session \in {"open", "closing", "quit", "ended", "left"}
  /\ crashed \in {"no", "null", "freed", "stranger", "closed"}

(* What the pool holds is alive, but for the key deleteNode is about to        *)
(* remove, the nodes processDisconnected is deleting, and a node that a        *)
(* deleteNode met in the middle of its renaming: that one stays, freed, under  *)
(* its new path.  And it is there under the path it has, but for the two paths *)
(* of a node that is being renamed.                                            *)
PoolIsSound ==
  /\ TypeOK
  /\ \A p \in Paths : pool[p] \in Nodes =>
       /\ \/ node[pool[p]].where = "live"
          \/ app.op = "remove" /\ app.path = p
          \/ comp.op = "sweep"
          \/ pool[p] \in struck
       /\ node[pool[p]].path = p \/ (Renaming(pool[p]) /\ p \in {comp.path, comp.other})

(* A thread that is about to take one of these steps holds a node.             *)
Holding ==
  {"rekey", "reinsert", "unkey", "tell", "drop", "delete", "ask for value", "value"}

(* A request that comes back and a function that saw its key find a node in    *)
(* the pool, and the pointer a thread holds over a callback, a synchronous     *)
(* call or the steps of a completion stays usable, unless: the pool lost the   *)
(* path after the request was made or the key was seen - by a deletion, a      *)
(* failed or a numbered creation, the end of the session -; or the answer      *)
(* overtook createNode, which inserts the node after it has sent the request;  *)
(* or the node was deleted in the middle of its renaming.  Nothing else loses  *)
(* a node.                                                                     *)
MissingOnlyWhenLost ==
  /\ \A i \in DOMAIN queue :
       queue[i].op \in {"get", "create"} /\ ~queue[i].excused => pool[queue[i].path] \in Nodes
  /\ \A f \in {app, comp} :
       /\ f.op \in {"found", "strike", "lookup"} /\ ~f.excused => pool[f.path] \in Nodes
       /\ f.op \in Holding /\ ~f.excused => Usable(f.node) \/ f.node \in struck

================================================================================
