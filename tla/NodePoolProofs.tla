---------------------------- MODULE NodePoolProofs ----------------------------
(* For any paths and nodes and any number of requests: what the pool holds is  *)
(* alive, and a node is missing, only with the exceptions NodePool names.  The *)
(* parts of the invariant are operators on the pool P, the objects N, the      *)
(* queue q, the call a, the completion c and the struck nodes S, so that the   *)
(* lemmas can speak of each update.                                            *)
EXTENDS NodePool, TLAPS

(* What the pool holds.                                                        *)
Sound(P, N, a, c, S) ==
  \A p \in Paths : P[p] \in Nodes =>
    /\ N[P[p]].where # "unused"
    /\ \/ N[P[p]].where = "live"
       \/ a.op = "remove" /\ a.path = p /\ N[P[p]].where = "dying"
       \/ c.op = "sweep"
       \/ P[p] \in S
    /\ N[P[p]].path = p \/ (c.op \in Renames /\ c.node = P[p] /\ p \in {c.path, c.other})

(* A request, and a call that is about to look its node up, finds it.          *)
Finds(q, P) ==
  \A i \in DOMAIN q : q[i].op \in {"get", "create"} /\ ~q[i].excused => P[q[i].path] \in Nodes

Sees(f, P) ==
  f.op \in {"found", "strike", "lookup", "ask for value"} /\ ~f.excused => P[f.path] \in Nodes

(* The node a call of the application holds is not freed: the event loop is    *)
(* the application's, and waits.                                               *)
CallHolds(a, N, S) ==
  a.op \in Holding /\ ~a.excused => a.node \in Nodes /\ (N[a.node].where # "freed" \/ a.node \in S)

(* A completion knows its node's path; while it renames the node, whoever      *)
(* deletes it is in S; otherwise who takes the path out of the pool excuses    *)
(* the completion, and has not let the event loop run before.                  *)
CompletionHolds(P, N, a, c, S) ==
  c.op \in Holding =>
    /\ c.node \in Nodes =>
         /\ N[c.node].where # "unused"
         /\ N[c.node].path = IF c.op = "reinsert" THEN c.other ELSE c.path
         /\ c.op \in Renames => N[c.node].where = "live" \/ c.node \in S
         /\ c.op = "delete" => P[c.path] # c.node
    /\ ~c.excused =>
         /\ c.node \in Nodes
         /\ \/ N[c.node].where = "live"
            \/ a.op = "remove" /\ a.path = c.path /\ N[c.node].where = "dying"
            \/ c.node \in S

Hows == Types \cup Styles \cup {"ok", "node exists", "other"}

Asked == [op : {"create", "get", "exists", "signal"}, path : Paths, how : Hows,
          excused : BOOLEAN]

CallOps == {"idle", "found", "acreate", "insert", "create", "insert sync", "remove sync",
            "strike", "remove", "ask to delete", "lookup", "make", "ask for value", "value",
            "close"}

CompletionOps == {"idle", "lookup", "rekey", "reinsert", "unkey", "tell", "drop", "delete",
                  "value", "disconnect", "sweep"}

Frames(ops) == [op : ops, path : Paths \cup {Absent}, other : Paths \cup {Absent},
                how : Hows, excused : BOOLEAN, node : Nodes \cup {Null}]

Placed(f) ==
  f.op \notin {"idle", "close", "disconnect", "sweep"} => f.path \in Paths /\ f.other \in Paths

TypeInv ==
  /\ TypeOK
  /\ queue \in Seq(Asked)
  /\ app \in Frames(CallOps) /\ Placed(app)
  /\ comp \in Frames(CompletionOps) /\ Placed(comp)

IInv ==
  /\ TypeInv
  /\ Sound(pool, node, app, comp, struck)
  /\ Finds(queue, pool) /\ Sees(app, pool) /\ Sees(comp, pool)
  /\ CallHolds(app, node, struck)
  /\ CompletionHolds(pool, node, app, comp, struck)
  /\ comp.op = "reinsert" /\ crashed = "no" => comp.node \in Nodes

LEMMA Meaning == IInv => PoolIsSound /\ MissingOnlyWhenLost
<1> SUFFICES ASSUME IInv PROVE PoolIsSound /\ MissingOnlyWhenLost
  OBVIOUS
<1>1. PoolIsSound
  BY DEF IInv, TypeInv, Sound, PoolIsSound, Renaming
<1>2. \A f \in {app, comp} :
        f.op \in {"found", "strike", "lookup"} /\ ~f.excused => pool[f.path] \in Nodes
  BY DEF IInv, Sees
<1>3. app.op \in Holding /\ ~app.excused => Usable(app.node) \/ app.node \in struck
  BY DEF IInv, CallHolds, Usable
<1>4. comp.op \in Holding /\ ~comp.excused => Usable(comp.node) \/ comp.node \in struck
  BY DEF IInv, CompletionHolds, Usable
<1> QED BY <1>1, <1>2, <1>3, <1>4 DEF IInv, Finds, MissingOnlyWhenLost

-------------------------------------------------------------------------------
(* Frames                                                                      *)

LEMMA Idling ==
  /\ Idle \in Frames(CallOps) /\ Idle \in Frames(CompletionOps)
  /\ Placed(Idle) /\ Idle.op = "idle"
BY DEF Idle, Frame, Frames, CallOps, CompletionOps, Hows, Types, Placed

LEMMA Excusing ==
  ASSUME NEW ops, NEW f \in Frames(ops), NEW p
  PROVE  /\ ExcuseOne(p, f) \in Frames(ops)
         /\ ExcuseOne(p, f).op = f.op /\ ExcuseOne(p, f).path = f.path
         /\ ExcuseOne(p, f).other = f.other /\ ExcuseOne(p, f).node = f.node
         /\ ~ExcuseOne(p, f).excused => ~f.excused /\ f.path # p
         /\ Placed(f) => Placed(ExcuseOne(p, f))
<1>1. f.excused \in BOOLEAN
  BY DEF Frames
<1> QED BY <1>1 DEF ExcuseOne, Frames, Placed

-------------------------------------------------------------------------------
(* The queue                                                                   *)

LEMMA Listed ==
  ASSUME NEW q \in Seq(Asked)
  PROVE  \A i \in DOMAIN q : /\ q[i] \in Asked /\ q[i].path \in Paths
                             /\ q[i].excused \in BOOLEAN
<1>1. \A i \in DOMAIN q : q[i] \in Asked
  OBVIOUS
<1> QED BY <1>1 DEF Asked

LEMMA FindsAfterTail ==
  ASSUME NEW q \in Seq(Asked), NEW P, q # <<>>, Finds(q, P)
  PROVE  /\ Tail(q) \in Seq(Asked) /\ Finds(Tail(q), P)
         /\ Head(q) \in Asked /\ Head(q).path \in Paths /\ Head(q).excused \in BOOLEAN
         /\ Head(q).op \in {"get", "create"} /\ ~Head(q).excused => P[Head(q).path] \in Nodes
<1>1. Tail(q) \in Seq(Asked) /\ Len(Tail(q)) = Len(q) - 1 /\ Head(q) = q[1] /\ 1 \in DOMAIN q
  OBVIOUS
<1>2. \A i \in DOMAIN Tail(q) : i + 1 \in DOMAIN q /\ Tail(q)[i] = q[i + 1]
  BY <1>1
<1> QED BY <1>1, <1>2, Listed DEF Finds

LEMMA FindsAfterAppend ==
  ASSUME NEW q \in Seq(Asked), NEW P, NEW r \in Asked, Finds(q, P),
         r.op \in {"get", "create"} /\ ~r.excused => P[r.path] \in Nodes
  PROVE  Append(q, r) \in Seq(Asked) /\ Finds(Append(q, r), P)
<1>1. Append(q, r) \in Seq(Asked) /\ Len(Append(q, r)) = Len(q) + 1
  OBVIOUS
<1>2. \A i \in DOMAIN Append(q, r) :
        (i \in DOMAIN q /\ Append(q, r)[i] = q[i]) \/ Append(q, r)[i] = r
  BY <1>1
<1> QED BY <1>1, <1>2 DEF Finds

(* Whatever becomes of a path, the requests for it are excused.                *)
LEMMA FindsAfterExcuse ==
  ASSUME NEW q \in Seq(Asked), NEW P \in [Paths -> Nodes \cup {Absent, Null}],
         NEW p, NEW v, Finds(q, P)
  PROVE  Excuse(p, q) \in Seq(Asked) /\ Finds(Excuse(p, q), [P EXCEPT ![p] = v])
<1>0. \A r \in Asked :
        /\ ExcuseOne(p, r) \in Asked
        /\ ExcuseOne(p, r).op = r.op /\ ExcuseOne(p, r).path = r.path
        /\ ~ExcuseOne(p, r).excused => r.path # p /\ ~r.excused
  BY DEF ExcuseOne, Asked
<1>1. /\ DOMAIN Excuse(p, q) = DOMAIN q
      /\ \A i \in DOMAIN q :
           /\ Excuse(p, q)[i] \in Asked
           /\ Excuse(p, q)[i].op = q[i].op /\ Excuse(p, q)[i].path = q[i].path
           /\ ~Excuse(p, q)[i].excused => q[i].path # p /\ ~q[i].excused
  BY <1>0, Listed DEF Excuse
<1>2. Excuse(p, q) \in Seq(Asked)
  BY <1>1 DEF Excuse
<1> QED BY <1>1, <1>2, Listed DEF Finds

LEMMA FindsStill ==
  ASSUME NEW q \in Seq(Asked), NEW P, NEW R, Finds(q, P),
         \A p \in Paths : P[p] \in Nodes => R[p] \in Nodes
  PROVE  Finds(q, R)
BY Listed DEF Finds

(* A call of the client leaves the queue as it is, or adds a request to it.    *)
LEMMA Asking ==
  ASSUME IInv, NEW op \in {"create", "get", "exists", "signal"}, NEW p \in Paths,
         NEW how \in Hows, NEW e \in BOOLEAN,
         op \in {"get", "create"} /\ ~e => pool[p] \in Nodes,
         Accepted(op, p, how, e) \/ Refused \/ OnClosedHandle
  PROVE  queue' \in Seq(Asked) /\ Finds(queue', pool) /\ crashed' \in {crashed, "closed"}
<1>1. queue \in Seq(Asked) /\ Finds(queue, pool)
  BY DEF IInv, TypeInv
<1>2. CASE Accepted(op, p, how, e)
  <2> DEFINE r == [op |-> op, path |-> p, how |-> how, excused |-> e]
  <2>1. r \in Asked
    BY DEF Asked
  <2>2. queue' = Append(queue, r) /\ crashed' = crashed
    BY <1>2 DEF Accepted
  <2> QED BY <1>1, <2>1, <2>2, FindsAfterAppend
<1>3. CASE Refused \/ OnClosedHandle
  BY <1>1, <1>3 DEF Refused, OnClosedHandle
<1> QED BY <1>2, <1>3

-------------------------------------------------------------------------------
(* The objects                                                                 *)

(* Only the node n dies.                                                       *)
Dies(n, N, M) ==
  /\ M \in [Nodes -> Objects]
  /\ \A m \in Nodes :
       /\ M[m].path = N[m].path
       /\ m # n => M[m].where = N[m].where
       /\ m = n => M[m].where = IF N[m].where = "freed" THEN "freed" ELSE "dying"

LEMMA Dying ==
  ASSUME node \in [Nodes -> Objects], NEW n
  PROVE  Dies(n, node, deleteLater(n))
BY DEF deleteLater, Usable, Objects, Dies

(* Only the path of the node n changes.                                        *)
Renamed(n, new, N, M) ==
  /\ M \in [Nodes -> Objects]
  /\ \A m \in Nodes : /\ M[m].where = N[m].where
                      /\ M[m].path = IF m = n THEN new ELSE N[m].path

LEMMA Repathing ==
  ASSUME NEW N \in [Nodes -> Objects], NEW n \in Nodes, NEW new \in Paths
  PROVE  Renamed(n, new, N, [N EXCEPT ![n].path = new])
BY DEF Objects, Renamed

(* A new node n under a path p.                                                *)
Made(n, p, N, M) ==
  /\ M \in [Nodes -> Objects]
  /\ N[n].where = "unused" /\ M[n].where = "live" /\ M[n].path = p
  /\ \A m \in Nodes \ {n} : M[m] = N[m]

LEMMA Making ==
  ASSUME TypeInv, NEW p \in Paths, Insert(p)
  PROVE  \E n \in Nodes : Made(n, p, node, node') /\ pool' = [pool EXCEPT ![p] = n]
<1>1. PICK n \in Nodes : /\ node[n].where = "unused"
                         /\ node' = [node EXCEPT ![n] = [where |-> "live", path |-> p]]
                         /\ pool' = [pool EXCEPT ![p] = n]
  BY DEF Insert
<1>2. [where |-> "live", path |-> p] \in Objects /\ node \in [Nodes -> Objects]
  BY DEF Objects, TypeInv, TypeOK
<1>3. node' \in [Nodes -> Objects] /\ \A m \in Nodes \ {n} : node'[m] = node[m]
  BY <1>1, <1>2
<1>4. node'[n].where = "live" /\ node'[n].path = p
  BY <1>1, <1>2
<1> QED BY <1>1, <1>3, <1>4 DEF Made

LEMMA Inserting ==
  ASSUME IInv, NEW p \in Paths, Insert(p)
  PROVE  /\ pool' \in [Paths -> Nodes \cup {Absent, Null}]
         /\ node' \in [Nodes -> Objects]
         /\ \A n \in Nodes : node'[n].where # "unused" => node'[n].path \in Paths
         /\ pool'[p] \in Nodes /\ node'[pool'[p]].where = "live"
         /\ Sound(pool', node', app, comp, struck)
         /\ Finds(queue, pool') /\ Sees(app, pool') /\ Sees(comp, pool')
         /\ CallHolds(app, node', struck)
         /\ CompletionHolds(pool', node', app, comp, struck)
<1>1. PICK n \in Nodes : Made(n, p, node, node') /\ pool' = [pool EXCEPT ![p] = n]
  BY Making DEF IInv
<1>2. pool \in [Paths -> Nodes \cup {Absent, Null}] /\ queue \in Seq(Asked)
      /\ Placed(app) /\ Placed(comp)
      /\ \A m \in Nodes : node[m].where # "unused" => node[m].path \in Paths
  BY DEF IInv, TypeInv, TypeOK
<1>3. pool'[p] = n /\ \A q \in Paths \ {p} : pool'[q] = pool[q]
  BY <1>1, <1>2
<1>4. /\ pool' \in [Paths -> Nodes \cup {Absent, Null}]
      /\ node' \in [Nodes -> Objects]
      /\ \A m \in Nodes : node'[m].where # "unused" => node'[m].path \in Paths
  BY <1>1, <1>2 DEF Made
<1>5. Sound(pool', node', app, comp, struck)
  BY <1>1, <1>3 DEF IInv, Sound, Made
<1>a. \A q \in Paths : pool[q] \in Nodes => pool'[q] \in Nodes
  BY <1>3
<1>b. Finds(queue, pool')
  BY <1>2, <1>a, FindsStill DEF IInv
<1>c. Sees(app, pool') /\ Sees(comp, pool')
  BY <1>2, <1>a DEF IInv, Sees, Placed
<1>7. CallHolds(app, node', struck)
  BY <1>1 DEF IInv, CallHolds, Made
<1>8. CompletionHolds(pool', node', app, comp, struck)
  BY <1>1, <1>2, <1>3 DEF IInv, CompletionHolds, Made, Holding, Placed
<1> QED BY <1>1, <1>3, <1>4, <1>5, <1>b, <1>c, <1>7, <1>8 DEF Made

(* operator[] changes nothing for who looks for nodes.                         *)
LEMMA Looking ==
  ASSUME IInv, NEW p \in Paths
  PROVE  /\ Looked(p) \in [Paths -> Nodes \cup {Absent, Null}]
         /\ Found(p) \in Nodes \cup {Null} /\ (pool[p] \in Nodes => Found(p) = pool[p])
         /\ Found(p) \in Nodes => pool[p] = Found(p)
         /\ \A q \in Paths : pool[q] \in Nodes \/ Looked(p)[q] \in Nodes => Looked(p)[q] = pool[q]
         /\ Sound(Looked(p), node, app, comp, struck)
         /\ Finds(queue, Looked(p)) /\ Sees(app, Looked(p)) /\ Sees(comp, Looked(p))
         /\ CompletionHolds(Looked(p), node, app, comp, struck)
<1>1. pool \in [Paths -> Nodes \cup {Absent, Null}] /\ queue \in Seq(Asked)
      /\ Placed(app) /\ Placed(comp)
  BY DEF IInv, TypeInv, TypeOK
<1>2. Found(p) \in Nodes \cup {Null} /\ (pool[p] \in Nodes => Found(p) = pool[p])
      /\ (Found(p) \in Nodes => pool[p] = Found(p))
  BY <1>1, PointersAreDistinct DEF Found, Contains
<1>3. Looked(p) \in [Paths -> Nodes \cup {Absent, Null}] /\ Looked(p)[p] = Found(p)
      /\ \A q \in Paths \ {p} : Looked(p)[q] = pool[q]
  BY <1>1, <1>2 DEF Looked
<1>4. \A q \in Paths : pool[q] \in Nodes \/ Looked(p)[q] \in Nodes => Looked(p)[q] = pool[q]
  BY <1>2, <1>3
<1>5. Sound(Looked(p), node, app, comp, struck)
  BY <1>4 DEF IInv, Sound
<1>6. Finds(queue, Looked(p)) /\ Sees(app, Looked(p)) /\ Sees(comp, Looked(p))
  <2>1. \A q \in Paths : pool[q] \in Nodes => Looked(p)[q] \in Nodes
    BY <1>4
  <2>2. Finds(queue, Looked(p))
    BY <1>1, <2>1, FindsStill DEF IInv
  <2>3. Sees(app, Looked(p)) /\ Sees(comp, Looked(p))
    BY <1>1, <2>1 DEF IInv, Sees, Placed
  <2> QED BY <2>2, <2>3
<1>7. CompletionHolds(Looked(p), node, app, comp, struck)
  BY <1>1, <1>4 DEF IInv, CompletionHolds, Placed, Holding
<1> QED BY <1>2, <1>3, <1>4, <1>5, <1>6, <1>7

(* A call that is not about to remove a key is not spoken of.                  *)
LEMMA NotRemoving ==
  ASSUME NEW P, NEW N, NEW a, NEW b, NEW c, NEW S, a.op # "remove"
  PROVE  /\ Sound(P, N, a, c, S) => Sound(P, N, b, c, S)
         /\ CompletionHolds(P, N, a, c, S) => CompletionHolds(P, N, b, c, S)
BY DEF Sound, CompletionHolds

-------------------------------------------------------------------------------
LEMMA InitOk == Init => IInv
<1> SUFFICES ASSUME Init PROVE IInv
  OBVIOUS
<1>1. app = Idle /\ comp = Idle /\ queue = <<>> /\ Idle.op = "idle"
  BY Idling DEF Init
<1>2. TypeInv
  BY <1>1, Idling DEF Init, TypeInv, TypeOK, Objects
<1>3. Sound(pool, node, app, comp, struck) /\ Finds(queue, pool)
  BY <1>1, PointersAreDistinct DEF Init, Sound, Finds
<1>4. /\ Sees(app, pool) /\ Sees(comp, pool) /\ CallHolds(app, node, struck)
      /\ CompletionHolds(pool, node, app, comp, struck)
  BY <1>1 DEF Sees, CallHolds, CompletionHolds, Holding
<1> QED BY <1>1, <1>2, <1>3, <1>4 DEF IInv

-------------------------------------------------------------------------------
(* Steps of a call that leave the pool and the nodes alone.                    *)
LEMMA CallGoesOn ==
  ASSUME IInv, crashed = "no", app.op # "remove",
         UNCHANGED <<pool, node, comp, sweep, struck>>,
         session' \in {"open", "closing", "quit", "ended", "left"},
         crashed' \in {"no", "null", "freed", "stranger", "closed"},
         queue' \in Seq(Asked), Finds(queue', pool),
         app' \in Frames(CallOps), Placed(app'), Sees(app', pool),
         CallHolds(app', node, struck)
  PROVE  IInv'
<1>1. TypeInv'
  BY DEF IInv, TypeInv, TypeOK
<1>2. /\ Sound(pool, node, app', comp, struck)
      /\ CompletionHolds(pool, node, app', comp, struck)
  BY NotRemoving DEF IInv
<1> QED BY <1>1, <1>2 DEF IInv

(* Steps of a completion that leave the pool and the nodes alone.              *)
LEMMA CompletionGoesOn ==
  ASSUME IInv, comp.op \notin Renames \cup {"sweep"},
         UNCHANGED <<pool, node, app, struck>>,
         sweep' \subseteq Paths, session' \in {"open", "closing", "quit", "ended", "left"},
         crashed' \in {"no", "null", "freed", "stranger", "closed"},
         queue' \in Seq(Asked), Finds(queue', pool),
         comp' \in Frames(CompletionOps), Placed(comp'), Sees(comp', pool),
         CompletionHolds(pool, node, app, comp', struck), comp'.op # "reinsert"
  PROVE  IInv'
<1>1. TypeInv'
  BY DEF IInv, TypeInv, TypeOK
<1>2. Sound(pool, node, app, comp', struck)
  BY DEF IInv, Sound
<1> QED BY <1>1, <1>2 DEF IInv

-------------------------------------------------------------------------------
(* The application's steps                                                     *)

LEMMA Ops ==
  /\ "insert" \in CallOps /\ "insert sync" \in CallOps /\ "remove sync" \in CallOps
  /\ "remove" \in CallOps /\ "ask to delete" \in CallOps /\ "ask for value" \in CallOps
  /\ "value" \in CallOps /\ "close" \in CallOps
BY DEF CallOps

LEMMA Parts ==
  ASSUME IInv
  PROVE  /\ pool \in [Paths -> Nodes \cup {Absent, Null}]
         /\ node \in [Nodes -> Objects]
         /\ \A n \in Nodes : node[n].where # "unused" => node[n].path \in Paths
         /\ sweep \subseteq Paths /\ struck \subseteq Nodes
         /\ session \in {"open", "closing", "quit", "ended", "left"}
         /\ crashed \in {"no", "null", "freed", "stranger", "closed"}
         /\ queue \in Seq(Asked) /\ Finds(queue, pool)
         /\ app \in Frames(CallOps) /\ Placed(app) /\ Sees(app, pool)
         /\ comp \in Frames(CompletionOps) /\ Placed(comp) /\ Sees(comp, pool)
         /\ CallHolds(app, node, struck)
         /\ Sound(pool, node, app, comp, struck)
         /\ CompletionHolds(pool, node, app, comp, struck)
         /\ comp.op = "reinsert" /\ crashed = "no" => comp.node \in Nodes
BY DEF IInv, TypeInv, TypeOK

LEMMA EnterOk ==
  ASSUME IInv, NEW p \in Paths, NEW how \in Types \cup Styles,
         NEW present \in {"found", "strike", "lookup"},
         NEW absent \in {"acreate", "create", "ask to delete", "make"},
         Enter(p, how, present, absent)
  PROVE  IInv'
<1> DEFINE op == IF Contains(p) THEN present ELSE absent
<1>1. op \in CallOps /\ op \notin Holding
  BY DEF CallOps, Holding
<1>2. app' = Frame(op, p, how, pool[p] = Null)
  BY DEF Enter
<1>3. /\ app' \in Frames(CallOps) /\ app'.op = op /\ app'.path = p /\ app'.other = p
      /\ app'.excused = (pool[p] = Null)
  <2> DEFINE e == pool[p] = Null
  <2>1. e \in BOOLEAN
    OBVIOUS
  <2>2. app' = Frame(op, p, how, e)
    BY <1>2
  <2> HIDE DEF op, e
  <2>3. /\ app' \in Frames(CallOps) /\ app'.op = op /\ app'.path = p /\ app'.other = p
        /\ app'.excused = e
    BY <1>1, <2>1, <2>2 DEF Frame, Frames, Hows
  <2> QED BY <2>3 DEF e
<1>4. Placed(app') /\ CallHolds(app', node, struck)
  BY <1>1, <1>3 DEF Placed, CallHolds
<1>5. Sees(app', pool)
  BY <1>3, Parts DEF Sees, Contains
<1> QED BY <1>3, <1>4, <1>5, Parts, CallGoesOn DEF Enter, At

LEMMA AskOnlyOk ==
  ASSUME IInv, NEW op \in {"exists", "signal"}, NEW p \in Paths, AskOnly(op, p)
  PROVE  IInv'
<1>1. queue' \in Seq(Asked) /\ Finds(queue', pool) /\ crashed' \in {crashed, "closed"}
  BY Asking DEF AskOnly, Hows, Types
<1> QED BY <1>1, Parts, CallGoesOn DEF AskOnly, At

LEMMA FunctionsOk ==
  ASSUME IInv, NEW p \in Paths
  PROVE  /\ \A type \in Types : createNode(p, type) \/ createNodeSync(p, type) => IInv'
         /\ \A style \in Styles : getNodeValue(p, style) => IInv'
         /\ deleteNode(p) \/ findNode(p) \/ existsNode(p) \/ setNodeValue(p) => IInv'
<1>1. ASSUME NEW type \in Types, createNode(p, type) \/ createNodeSync(p, type) PROVE IInv'
  BY <1>1, EnterOk DEF createNode, createNodeSync
<1>2. ASSUME NEW style \in Styles, getNodeValue(p, style) PROVE IInv'
  BY <1>2, EnterOk DEF getNodeValue
<1>3. CASE deleteNode(p)
  BY <1>3, EnterOk DEF deleteNode, Types
<1>4. CASE findNode(p)
  <2>1. Enter(p, "plain", "found", "make")
    BY <1>4 DEF findNode, Enter
  <2> QED BY <2>1, EnterOk DEF Types
<1>5. CASE existsNode(p) \/ setNodeValue(p)
  BY <1>5, AskOnlyOk DEF existsNode, setNodeValue
<1> QED BY <1>1, <1>2, <1>3, <1>4, <1>5

(* The call is over.                                                           *)
LEMMA Over ==
  /\ Idle \in Frames(CallOps) /\ Placed(Idle)
  /\ \A P : Sees(Idle, P)
  /\ \A N, S : CallHolds(Idle, N, S)
  /\ \A P, N, a, S : CompletionHolds(P, N, a, Idle, S)
BY Idling DEF Sees, CallHolds, CompletionHolds, Holding

LEMMA ReturnsFoundOk ==
  ASSUME IInv, ReturnsFound
  PROVE  IInv'
<1>1. app.op = "found" /\ app.path \in Paths
  BY Parts DEF ReturnsFound, At, Placed
<1>2. TypeInv'
  BY <1>1, Parts, Looking, Over DEF ReturnsFound, TypeInv, TypeOK
<1>3. /\ Sound(pool', node, app', comp, struck)
      /\ CompletionHolds(pool', node, app', comp, struck)
  BY <1>1, Looking, NotRemoving DEF ReturnsFound
<1> QED BY <1>1, <1>2, <1>3, Parts, Looking, Over DEF ReturnsFound, IInv

(* The steps that call the client.                                             *)
LEMMA AsksOk ==
  ASSUME IInv,
         createNodeAsks \/ createNodeSyncAsks \/ deleteNodeAsks \/ getNodeValueAsks
  PROVE  IInv'
<1>0. app.how \in Hows /\ app.excused \in BOOLEAN
  BY Parts DEF Frames
<1>1. CASE createNodeAsks
  <2>0. app.op = "acreate" /\ app.path \in Paths /\ app.other \in Paths
    BY <1>1, Parts DEF createNodeAsks, At, Placed
  <2> DEFINE g == [app EXCEPT !.op = "insert"]
  <2>1. g \in Frames(CallOps) /\ g.op = "insert" /\ g.path = app.path /\ g.other = app.other
    BY Parts, Ops DEF Frames
  <2>2. app' \in {g, Idle}
    BY <1>1 DEF createNodeAsks
  <2>3. /\ app' \in Frames(CallOps) /\ Placed(app') /\ Sees(app', pool)
        /\ CallHolds(app', node, struck)
    BY <2>0, <2>1, <2>2, Over DEF Placed, Sees, CallHolds, Holding
  <2>4. queue' \in Seq(Asked) /\ Finds(queue', pool) /\ crashed' \in {crashed, "closed"}
    BY <1>0, <1>1, <2>0, Asking DEF createNodeAsks
  <2> QED BY <1>1, <2>0, <2>3, <2>4, Parts, CallGoesOn DEF createNodeAsks, At
<1>2. CASE createNodeSyncAsks
  <2>0. app.op = "create" /\ app.path \in Paths
    BY <1>2, Parts DEF createNodeSyncAsks, At, Placed
  <2>1. \/ app' = Idle
        \/ \E q \in Paths : app' = [app EXCEPT !.op = "insert sync", !.other = q]
    BY <1>2, <2>0, NumberedAssumption DEF createNodeSyncAsks, GivenPaths
  <2>2. CASE \E q \in Paths : app' = [app EXCEPT !.op = "insert sync", !.other = q]
    <3>1. /\ app' \in Frames(CallOps) /\ app'.op = "insert sync" /\ app'.path \in Paths
          /\ app'.other \in Paths
      BY <2>0, <2>2, Parts, Ops DEF Frames
    <3>2. Placed(app') /\ Sees(app', pool) /\ CallHolds(app', node, struck)
      BY <3>1 DEF Placed, Sees, CallHolds, Holding
    <3>3. queue' = queue /\ crashed' \in {crashed, "closed"}
      BY <1>2 DEF createNodeSyncAsks, Refused, OnClosedHandle
    <3> QED BY <1>2, <2>0, <3>1, <3>2, <3>3, Parts, CallGoesOn DEF createNodeSyncAsks, At
  <2>3. CASE app' = Idle
    <3>1. queue' = queue /\ crashed' \in {crashed, "closed"}
      BY <1>2 DEF createNodeSyncAsks, Refused, OnClosedHandle
    <3> QED BY <1>2, <2>0, <2>3, <3>1, Over, Parts, CallGoesOn DEF createNodeSyncAsks, At
  <2> QED BY <2>1, <2>2, <2>3
<1>3. CASE deleteNodeAsks
  <2>0. app.op = "ask to delete" /\ app.path \in Paths
    BY <1>3, Parts DEF deleteNodeAsks, At, Placed
  <2>1. queue' \in Seq(Asked) /\ Finds(queue', pool) /\ crashed' \in {crashed, "closed"}
    BY <1>3, <2>0, Asking DEF deleteNodeAsks, Hows, Types
  <2> QED BY <1>3, <2>0, <2>1, Over, Parts, CallGoesOn DEF deleteNodeAsks, At
<1>4. CASE getNodeValueAsks
  <2>0. app.op = "ask for value" /\ app.path \in Paths /\ app.other \in Paths
    BY <1>4, Parts DEF getNodeValueAsks, At, Placed
  <2>1. ~app.excused => pool[app.path] \in Nodes
    BY <2>0, Parts DEF Sees
  <2>2. queue' \in Seq(Asked) /\ Finds(queue', pool) /\ crashed' \in {crashed, "closed"}
    <3>1. Accepted("get", app.path, "plain", app.excused) \/ Refused \/ OnClosedHandle
      BY <1>4 DEF getNodeValueAsks
    <3> QED BY <1>0, <2>0, <2>1, <3>1, Asking DEF Hows, Types
  <2> DEFINE g == [app EXCEPT !.op = "value"]
  <2>3. /\ g \in Frames(CallOps) /\ g.op = "value" /\ g.path = app.path /\ g.other = app.other
        /\ g.node = app.node /\ g.excused = app.excused
    BY Parts, Ops DEF Frames
  <2>4. app' \in {g, Idle}
    BY <1>4 DEF getNodeValueAsks
  <2>5. /\ app' \in Frames(CallOps) /\ Placed(app') /\ Sees(app', pool)
        /\ CallHolds(app', node, struck)
    BY <2>0, <2>3, <2>4, Over, Parts DEF Placed, Sees, CallHolds, Holding
  <2> QED BY <1>4, <2>0, <2>2, <2>5, Parts, CallGoesOn DEF getNodeValueAsks, At
<1> QED BY <1>1, <1>2, <1>3, <1>4

LEMMA createNodeInsertsOk ==
  ASSUME IInv, createNodeInserts
  PROVE  IInv'
<1>1. app.op = "insert" /\ app.path \in Paths /\ Insert(app.path)
  BY Parts DEF createNodeInserts, At, Placed
<1>2. /\ DOMAIN queue' = DOMAIN queue
      /\ \A i \in DOMAIN queue :
           /\ queue'[i] \in Asked
           /\ queue'[i].op = queue[i].op /\ queue'[i].path = queue[i].path
           /\ queue'[i].excused = queue[i].excused \/ queue[i].path = app.path
  <2>1. \A r \in Asked : LET s == [r EXCEPT !.excused = FALSE]
                        IN  s \in Asked /\ s.op = r.op /\ s.path = r.path
    BY DEF Asked
  <2> QED BY <2>1, Parts, Listed DEF createNodeInserts
<1>3. queue' \in Seq(Asked)
  <2>1. queue' = [i \in DOMAIN queue |-> queue'[i]]
    BY DEF createNodeInserts
  <2>2. \E k \in Nat : DOMAIN queue = 1..k
    BY Parts
  <2> QED BY <1>2, <2>1, <2>2
<1>4. Finds(queue', pool')
  BY <1>1, <1>2, Inserting DEF Finds
<1>5. TypeInv'
  BY <1>1, <1>3, Parts, Inserting, Over DEF createNodeInserts, TypeInv, TypeOK
<1>6. /\ Sound(pool', node', app', comp, struck)
      /\ CompletionHolds(pool', node', app', comp, struck)
  BY <1>1, Inserting, NotRemoving
<1> QED BY <1>1, <1>4, <1>5, <1>6, Parts, Inserting, Over DEF createNodeInserts, IInv

LEMMA createNodeSyncInsertsOk ==
  ASSUME IInv, createNodeSyncInserts
  PROVE  IInv'
<1>1. app.op = "insert sync" /\ app.path \in Paths /\ app.other \in Paths /\ Insert(app.other)
  BY Parts DEF createNodeSyncInserts, At, Placed
<1>2. /\ app' \in Frames(CallOps) /\ app'.op = "remove sync" /\ app'.path = app.path
      /\ app'.other = app.other
  BY Parts, Ops DEF createNodeSyncInserts, Frames
<1>3. Placed(app') /\ Sees(app', pool') /\ CallHolds(app', node', struck)
  BY <1>1, <1>2 DEF Placed, Sees, CallHolds, Holding
<1>4. TypeInv'
  BY <1>1, <1>2, <1>3, Parts, Inserting DEF createNodeSyncInserts, TypeInv, TypeOK
<1>5. /\ Sound(pool', node', app', comp, struck)
      /\ CompletionHolds(pool', node', app', comp, struck)
  BY <1>1, Inserting, NotRemoving
<1> QED BY <1>1, <1>3, <1>4, <1>5, Parts, Inserting DEF createNodeSyncInserts, IInv

LEMMA getNodeValueMakesOk ==
  ASSUME IInv, getNodeValueMakes
  PROVE  IInv'
<1>1. app.op = "make" /\ app.path \in Paths /\ app.other \in Paths /\ Insert(app.path)
  BY Parts DEF getNodeValueMakes, At, Placed
<1> DEFINE n == pool'[app.path]
<1>2. n \in Nodes /\ node'[n].where = "live"
  BY <1>1, Inserting
<1>3. /\ app' \in Frames(CallOps) /\ app'.op = "ask for value" /\ app'.path = app.path
      /\ app'.other = app.other /\ app'.node = n
  <2>1. app' = [app EXCEPT !.op = "ask for value", !.node = n]
    BY DEF getNodeValueMakes, n
  <2> HIDE DEF n
  <2> QED BY <1>2, <2>1, Parts, Ops DEF Frames
<1>4. Placed(app') /\ Sees(app', pool') /\ CallHolds(app', node', struck)
  BY <1>1, <1>2, <1>3 DEF Placed, Sees, CallHolds
<1>5. TypeInv'
  BY <1>1, <1>3, <1>4, Parts, Inserting DEF getNodeValueMakes, TypeInv, TypeOK
<1>6. /\ Sound(pool', node', app', comp, struck)
      /\ CompletionHolds(pool', node', app', comp, struck)
  BY <1>1, Inserting, NotRemoving
<1> QED BY <1>1, <1>4, <1>5, <1>6, Parts, Inserting DEF getNodeValueMakes, IInv

LEMMA getNodeValueLooksUpOk ==
  ASSUME IInv, getNodeValueLooksUp
  PROVE  IInv'
<1>1. app.op = "lookup" /\ app.path \in Paths /\ app.other \in Paths
  BY Parts DEF getNodeValueLooksUp, At, Placed
<1> DEFINE n == Found(app.path)
<1>2. n \in Nodes \cup {Null} /\ (n \in Nodes => pool[app.path] = n)
      /\ (pool[app.path] \in Nodes => n = pool[app.path])
  BY <1>1, Looking
<1>3. /\ app' \in Frames(CallOps) /\ app'.op = "ask for value" /\ app'.path = app.path
      /\ app'.other = app.other /\ app'.node = n
      /\ app'.excused = (app.excused \/ comp.op = "sweep")
  <2>1. app' = [app EXCEPT !.op = "ask for value", !.node = n,
                           !.excused = app.excused \/ comp.op = "sweep"]
    BY DEF getNodeValueLooksUp
  <2> HIDE DEF n
  <2> QED BY <1>2, <2>1, Parts, Ops DEF Frames
<1>4. pool' = Looked(app.path) /\ Sees(app, pool')
  BY <1>1, Looking DEF getNodeValueLooksUp
<1>5. Placed(app') /\ Sees(app', pool')
  BY <1>1, <1>3, <1>4 DEF Placed, Sees
<1>6. CallHolds(app', node, struck)
  BY <1>1, <1>2, <1>3, Parts DEF CallHolds, Sees, Sound
<1>7. TypeInv'
  BY <1>1, <1>3, <1>4, <1>5, Parts, Looking DEF getNodeValueLooksUp, TypeInv, TypeOK
<1>8. /\ Sound(pool', node, app', comp, struck)
      /\ CompletionHolds(pool', node, app', comp, struck)
  BY <1>1, <1>4, Looking, NotRemoving
<1> QED BY <1>1, <1>4, <1>5, <1>6, <1>7, <1>8, Parts, Looking DEF getNodeValueLooksUp, IInv

LEMMA createNodeSyncRemovesOk ==
  ASSUME IInv, createNodeSyncRemoves
  PROVE  IInv'
<1>1. app.op = "remove sync" /\ app.path \in Paths
  BY Parts DEF createNodeSyncRemoves, At, Placed
<1>2. /\ pool' = [pool EXCEPT ![app.path] = Absent] /\ queue' = Excuse(app.path, queue)
      /\ comp' = ExcuseOne(app.path, comp) /\ app' = Idle
      /\ UNCHANGED <<node, session, crashed, struck>> /\ sweep' \subseteq sweep
  BY DEF createNodeSyncRemoves, Erase
<1>3. /\ queue' \in Seq(Asked) /\ Finds(queue', pool')
      /\ comp' \in Frames(CompletionOps) /\ Placed(comp')
  BY <1>2, Parts, FindsAfterExcuse, Excusing
<1>4. TypeInv'
  BY <1>1, <1>2, <1>3, Parts, Over DEF TypeInv, TypeOK
<1>5. comp'.op = comp.op /\ comp'.path = comp.path /\ comp'.other = comp.other
      /\ comp'.node = comp.node /\ (~comp'.excused => ~comp.excused /\ comp.path # app.path)
  BY <1>2, Parts, Excusing
<1>6. \A p \in Paths : pool'[p] \in Nodes => pool'[p] = pool[p]
  BY <1>1, <1>2, Parts, PointersAreDistinct
<1>7. \A p \in Paths \ {app.path} : pool'[p] = pool[p]
  BY <1>2, Parts
<1>8. Sound(pool', node, app', comp', struck)
  BY <1>1, <1>5, <1>6, Parts DEF Sound
<1>9. Sees(comp', pool')
  BY <1>5, <1>7, Parts DEF Sees, Placed
<1>10. CompletionHolds(pool', node, app', comp', struck)
  BY <1>1, <1>5, <1>6, Parts DEF CompletionHolds, Placed, Holding
<1> QED BY <1>2, <1>3, <1>4, <1>5, <1>8, <1>9, <1>10, Parts, Over DEF IInv

LEMMA deleteNodeStrikesOk ==
  ASSUME IInv, deleteNodeStrikes
  PROVE  IInv'
<1>1. app.op = "strike" /\ app.path \in Paths /\ app.other \in Paths
  BY Parts DEF deleteNodeStrikes, At, Placed
<1> DEFINE n == Found(app.path)
<1>2. n \in Nodes \cup {Null} /\ (n \in Nodes => pool[app.path] = n)
  BY <1>1, Looking
<1>3. /\ app' \in Frames(CallOps) /\ app'.op = "remove" /\ app'.path = app.path
      /\ app'.other = app.other
  BY Parts, Ops DEF deleteNodeStrikes, Frames
<1>4. /\ pool' = Looked(app.path) /\ Dies(n, node, node')
      /\ struck \subseteq struck' /\ struck' \subseteq Nodes
      /\ \A m \in Nodes : m = n /\ Renaming(m) => m \in struck'
      /\ UNCHANGED <<queue, comp, sweep, session>>
      /\ crashed' \in {"no", "freed", "null"}
  BY Parts, Dying DEF deleteNodeStrikes, Follow
<1>5. Placed(app') /\ Sees(app', pool') /\ CallHolds(app', node', struck')
  BY <1>1, <1>3 DEF Placed, Sees, CallHolds, Holding
<1>6. /\ \A p \in Paths : pool'[p] \in Nodes => pool'[p] = pool[p]
      /\ Sound(pool', node, app, comp, struck)
      /\ CompletionHolds(pool', node, app, comp, struck)
      /\ Finds(queue, pool') /\ Sees(comp, pool')
      /\ pool' \in [Paths -> Nodes \cup {Absent, Null}]
  BY <1>1, <1>4, Looking
<1>7. n \in Nodes => node[n].where # "unused"
  BY <1>1, <1>2, Parts DEF Sound
<1>8. TypeInv'
  BY <1>2, <1>3, <1>4, <1>5, <1>6, <1>7, Parts DEF TypeInv, TypeOK, Dies
<1> HIDE DEF n
<1>9. ASSUME NEW p \in Paths, pool'[p] = n, n \in Nodes, ~Renaming(n)
      PROVE  p = app.path
  BY <1>1, <1>2, <1>6, <1>9, Parts DEF Sound, Renaming
<1>10. Sound(pool', node', app', comp, struck')
  <2> SUFFICES ASSUME NEW p \in Paths, pool'[p] \in Nodes
               PROVE  /\ node'[pool'[p]].where # "unused"
                      /\ \/ node'[pool'[p]].where = "live"
                         \/ app'.op = "remove" /\ app'.path = p /\ node'[pool'[p]].where = "dying"
                         \/ comp.op = "sweep"
                         \/ pool'[p] \in struck'
                      /\ node'[pool'[p]].path = p
                         \/ (comp.op \in Renames /\ comp.node = pool'[p]
                             /\ p \in {comp.path, comp.other})
    BY DEF Sound
  <2>1. CASE pool'[p] # n
    BY <1>1, <1>4, <1>6, <2>1 DEF Sound, Dies
  <2>2. CASE pool'[p] = n
    <3>1. p = app.path \/ n \in struck'
      BY <1>4, <1>9, <2>2
    <3> QED BY <1>1, <1>3, <1>4, <1>6, <1>7, <2>2, <3>1 DEF Sound, Dies
  <2> QED BY <2>1, <2>2
<1>11. CompletionHolds(pool', node', app', comp, struck')
  <2>1. CASE comp.node # n
    BY <1>1, <1>4, <1>6, <2>1 DEF CompletionHolds, Dies
  <2>2. CASE comp.node = n /\ n \in Nodes /\ comp.op \in Holding
    <3>1. node'[n].where # "unused" /\ node'[n].path = node[n].path
      BY <1>4, <2>2, Parts DEF Dies
    <3>2. comp.op \in Renames => n \in struck'
      BY <1>4, <2>2 DEF Renaming
    <3>3. comp.op \notin Renames => app.path = comp.path
      <4>1. comp.op \notin Renames => node[n].path = comp.path
        BY <2>2, Parts DEF CompletionHolds, Renames
      <4>2. comp.op \notin Renames => node[n].path = app.path
        BY <1>1, <1>2, <2>2, Parts DEF Sound
      <4> QED BY <4>1, <4>2
    <3>4. ~comp.excused => node[n].where # "freed" \/ n \in struck'
      BY <1>1, <1>4, <2>2, Parts DEF CompletionHolds
    <3> QED BY <1>1, <1>3, <1>4, <1>6, <2>2, <3>1, <3>2, <3>3, <3>4 DEF CompletionHolds, Dies
  <2>3. CASE comp.node = n /\ n \notin Nodes
    BY <1>6, <2>3 DEF CompletionHolds
  <2> QED BY <2>1, <2>2, <2>3 DEF CompletionHolds
<1>12. comp'.op = "reinsert" /\ crashed' = "no" => comp'.node \in Nodes
  BY <1>4, Parts DEF deleteNodeStrikes, At
<1> QED BY <1>4, <1>5, <1>6, <1>8, <1>10, <1>11, <1>12, Parts DEF IInv

LEMMA deleteNodeRemovesOk ==
  ASSUME IInv, deleteNodeRemoves
  PROVE  IInv'
<1>1. app.op = "remove" /\ app.path \in Paths /\ app.other \in Paths
  BY Parts DEF deleteNodeRemoves, At, Placed
<1>2. /\ pool' = [pool EXCEPT ![app.path] = Absent] /\ queue' = Excuse(app.path, queue)
      /\ comp' = ExcuseOne(app.path, comp)
      /\ UNCHANGED <<node, session, crashed, struck>> /\ sweep' \subseteq sweep
  BY DEF deleteNodeRemoves, Erase
<1>3. /\ queue' \in Seq(Asked) /\ Finds(queue', pool')
      /\ comp' \in Frames(CompletionOps) /\ Placed(comp')
  BY <1>2, Parts, FindsAfterExcuse, Excusing
<1>a. /\ app' \in Frames(CallOps) /\ app'.op = "ask to delete" /\ app'.path = app.path
      /\ app'.other = app.other
  BY Parts, Ops DEF deleteNodeRemoves, Frames
<1>b. Placed(app') /\ Sees(app', pool') /\ CallHolds(app', node, struck)
  BY <1>1, <1>a DEF Placed, Sees, CallHolds, Holding
<1>4. TypeInv'
  BY <1>1, <1>2, <1>3, <1>a, <1>b, Parts DEF TypeInv, TypeOK
<1>5. comp'.op = comp.op /\ comp'.path = comp.path /\ comp'.other = comp.other
      /\ comp'.node = comp.node /\ (~comp'.excused => ~comp.excused /\ comp.path # app.path)
  BY <1>2, Parts, Excusing
<1>6. \A p \in Paths : pool'[p] \in Nodes => pool'[p] = pool[p] /\ p # app.path
  BY <1>1, <1>2, Parts, PointersAreDistinct
<1>7. \A p \in Paths \ {app.path} : pool'[p] = pool[p]
  BY <1>2, Parts
<1>8. Sound(pool', node, app', comp', struck)
  BY <1>1, <1>5, <1>6, Parts DEF Sound
<1>9. Sees(comp', pool')
  BY <1>5, <1>7, Parts DEF Sees, Placed
<1>10. CompletionHolds(pool', node, app', comp', struck)
  BY <1>1, <1>5, <1>6, Parts DEF CompletionHolds, Placed, Holding
<1> QED BY <1>2, <1>3, <1>4, <1>5, <1>8, <1>9, <1>10, <1>b, Parts DEF IInv

LEMMA getNodeValueSyncReturnsOk ==
  ASSUME IInv, getNodeValueSyncReturns
  PROVE  IInv'
<1>1. app.op = "value" /\ crashed' \in {"no", "null", "freed"}
  BY DEF getNodeValueSyncReturns, At, Follow
<1> QED BY <1>1, Parts, Over, CallGoesOn DEF getNodeValueSyncReturns, At

LEMMA EventLoopOk ==
  ASSUME IInv, EventLoop
  PROVE  IInv'
<1>1. PICK n \in Nodes : /\ node[n].where = "dying"
                         /\ node' = [node EXCEPT ![n].where = "freed"]
  BY DEF EventLoop
<1>2. /\ node' \in [Nodes -> Objects] /\ app.op = "idle"
      /\ \A m \in Nodes : /\ node'[m].path = node[m].path
                          /\ m # n => node'[m].where = node[m].where
      /\ node'[n].where = "freed"
  BY <1>1, Parts DEF EventLoop, At, Objects
<1>3. TypeInv'
  BY <1>1, <1>2, Parts DEF EventLoop, TypeInv, TypeOK
<1>4. Sound(pool, node', app, comp, struck)
  BY <1>1, <1>2, Parts DEF Sound
<1>5. CompletionHolds(pool, node', app, comp, struck)
  <2>1. CASE comp.node # n
    BY <1>2, <2>1, Parts DEF CompletionHolds
  <2>2. CASE comp.node = n
    BY <1>1, <1>2, <2>2, Parts DEF CompletionHolds
  <2> QED BY <2>1, <2>2
<1>6. CallHolds(app, node', struck)
  BY <1>2 DEF CallHolds, Holding
<1> QED BY <1>3, <1>4, <1>5, <1>6, Parts DEF EventLoop, IInv

LEMMA quitOk ==
  ASSUME IInv, quit \/ quitCloses \/ quitReturns
  PROVE  IInv'
<1>1. CASE quit
  <2>1. /\ app' \in Frames(CallOps) /\ app'.op = "close" /\ app.op = "idle"
    BY <1>1, Ops DEF quit, At, Frame, Frames, Hows, Types
  <2>2. Placed(app') /\ Sees(app', pool) /\ CallHolds(app', node, struck)
    BY <2>1 DEF Placed, Sees, CallHolds, Holding
  <2> QED BY <1>1, <2>1, <2>2, Parts, CallGoesOn DEF quit, At
<1>2. CASE quitCloses
  <2>1. /\ app' \in {app, Idle} /\ app.op = "close" /\ crashed = "no"
        /\ crashed' \in {"no", "closed"}
        /\ session' \in {"open", "closing", "quit", "ended", "left"}
        /\ UNCHANGED <<pool, node, queue, comp, sweep, made, struck>>
    BY <1>2, Parts DEF quitCloses, At
  <2>2. /\ app' \in Frames(CallOps) /\ Placed(app') /\ Sees(app', pool)
        /\ CallHolds(app', node, struck)
    BY <2>1, Over, Parts
  <2> QED BY <2>1, <2>2, Parts, CallGoesOn
<1>3. CASE quitReturns
  <2>1. queue' \in Seq(Asked) /\ Finds(queue', pool)
    BY <1>3 DEF quitReturns, Finds
  <2> QED BY <1>3, <2>1, Over, Parts, CallGoesOn DEF quitReturns, At
<1> QED BY <1>1, <1>2, <1>3

-------------------------------------------------------------------------------
(* The completion thread's steps                                               *)

LEMMA CompOps ==
  /\ {"lookup", "tell", "drop", "rekey", "reinsert", "unkey", "delete", "value"}
       \subseteq CompletionOps
  /\ {"disconnect", "sweep"} \subseteq CompletionOps
  /\ Idle \in Frames(CompletionOps)
BY Idling DEF CompletionOps

(* A completion that starts takes the first request.                           *)
LEMMA Taking ==
  ASSUME IInv, NEW op, Taken(op)
  PROVE  /\ comp.op = "idle" /\ Head(queue).op = op
         /\ queue' \in Seq(Asked) /\ Finds(queue', pool)
         /\ Head(queue) \in Asked /\ Head(queue).path \in Paths /\ Head(queue).excused \in BOOLEAN
         /\ op \in {"get", "create"} /\ ~Head(queue).excused => pool[Head(queue).path] \in Nodes
<1>1. comp.op = "idle" /\ Head(queue).op = op /\ queue # <<>> /\ queue' = Tail(queue)
  BY DEF Taken, At
<1>2. queue \in Seq(Asked) /\ Finds(queue, pool)
  BY Parts
<1>3. /\ Tail(queue) \in Seq(Asked) /\ Finds(Tail(queue), pool)
      /\ Head(queue) \in Asked /\ Head(queue).path \in Paths /\ Head(queue).excused \in BOOLEAN
      /\ Head(queue).op \in {"get", "create"} /\ ~Head(queue).excused
           => pool[Head(queue).path] \in Nodes
  BY <1>1, <1>2, FindsAfterTail
<1> QED BY <1>1, <1>3

(* A thread that renames no node and deletes none is not spoken of.            *)
LEMMA NotRenaming ==
  ASSUME NEW P, NEW N, NEW a, NEW c, NEW d, NEW S, c.op \notin Renames \cup {"sweep"},
         Sound(P, N, a, c, S)
  PROVE  Sound(P, N, a, d, S)
BY DEF Sound

LEMMA acreateCompletionOk ==
  ASSUME IInv, acreateCompletion
  PROVE  IInv'
<1> DEFINE r == Head(queue)
<1>1. /\ comp.op = "idle" /\ queue' \in Seq(Asked) /\ Finds(queue', pool)
      /\ r.path \in Paths /\ r.excused \in BOOLEAN /\ (~r.excused => pool[r.path] \in Nodes)
  BY Taking DEF acreateCompletion
<1>2. PICK code \in {"ok", "node exists", "other"} :
      \E path \in IF code = "ok" THEN GivenPaths(r.path, r.how) ELSE {r.path} :
        comp' = IF Contains(r.path)
                  THEN [Frame("lookup", r.path, code, r.excused) EXCEPT !.other = path]
                  ELSE Frame(Verdict(code), path, code, r.excused)
  BY DEF acreateCompletion
<1>3. PICK path \in Paths :
        comp' = IF Contains(r.path)
                  THEN [Frame("lookup", r.path, code, r.excused) EXCEPT !.other = path]
                  ELSE Frame(Verdict(code), path, code, r.excused)
  BY <1>1, <1>2, NumberedAssumption DEF GivenPaths
<1>4. code \in Hows /\ Verdict(code) \in {"tell", "drop"}
  BY DEF Hows, Verdict
<1> HIDE DEF r
<1>5. CASE Contains(r.path)
  <2>1. /\ comp' \in Frames(CompletionOps) /\ comp'.op = "lookup" /\ comp'.path = r.path
        /\ comp'.other = path /\ comp'.excused = r.excused
    BY <1>1, <1>3, <1>4, <1>5, CompOps DEF Frame, Frames
  <2>2. Placed(comp') /\ Sees(comp', pool) /\ CompletionHolds(pool, node, app, comp', struck)
    BY <1>1, <2>1 DEF Placed, Sees, CompletionHolds, Holding
  <2> QED BY <1>1, <2>1, <2>2, Parts, CompletionGoesOn DEF acreateCompletion, Renames
<1>6. CASE ~Contains(r.path)
  <2>1. r.excused
    BY <1>1, <1>6, PointersAreDistinct DEF Contains
  <2>2. comp' = Frame(Verdict(code), path, code, r.excused)
    BY <1>3, <1>6
  <2>3. /\ comp' \in Frames(CompletionOps) /\ comp'.op \in {"tell", "drop"} /\ comp'.path = path
        /\ comp'.other = path /\ comp'.excused /\ comp'.node = Null
    <3>1. /\ comp'.op = Verdict(code) /\ comp'.path = path /\ comp'.other = path
          /\ comp'.excused = r.excused /\ comp'.node = Null
      BY <2>2 DEF Frame
    <3>2. Verdict(code) \in CompletionOps
      BY <1>4, CompOps
    <3>3. comp' \in Frames(CompletionOps)
      BY <1>1, <1>4, <2>2, <3>2 DEF Frame, Frames
    <3> QED BY <1>4, <2>1, <3>1, <3>3
  <2>4. Placed(comp') /\ Sees(comp', pool) /\ CompletionHolds(pool, node, app, comp', struck)
    BY <2>3, PointersAreDistinct DEF Placed, Sees, CompletionHolds
  <2> QED BY <1>1, <2>3, <2>4, Parts, CompletionGoesOn DEF acreateCompletion, Renames
<1> QED BY <1>5, <1>6

LEMMA acreateLooksUpOk ==
  ASSUME IInv, acreateLooksUp
  PROVE  IInv'
<1>1. comp.op = "lookup" /\ comp.path \in Paths /\ comp.other \in Paths
  BY Parts DEF acreateLooksUp, At, Placed
<1> DEFINE n  == Found(comp.path)
           op == IF comp.other # comp.path THEN "rekey" ELSE Verdict(comp.how)
<1>2. n \in Nodes \cup {Null} /\ (n \in Nodes => pool[comp.path] = n)
      /\ (pool[comp.path] \in Nodes => n = pool[comp.path])
  BY <1>1, Looking
<1>3. op \in {"rekey", "tell", "drop"} /\ (op = "rekey" <=> comp.other # comp.path)
  BY DEF Verdict
<1>4. /\ comp' \in Frames(CompletionOps) /\ comp'.op = op /\ comp'.path = comp.path
      /\ comp'.other = comp.other /\ comp'.node = n /\ comp'.excused = comp.excused
  <2>1. comp' = [comp EXCEPT !.op = op, !.node = n]
    BY DEF acreateLooksUp
  <2> HIDE DEF n, op
  <2> QED BY <1>2, <1>3, <2>1, Parts, CompOps DEF Frames
<1>5. /\ pool' = Looked(comp.path)
      /\ struck \subseteq struck' /\ struck' \subseteq Nodes
      /\ n \in Nodes /\ comp.other # comp.path /\ node[n].where = "dying" => n \in struck'
      /\ UNCHANGED <<node, queue, app, sweep, session, crashed>>
  BY Parts DEF acreateLooksUp
<1> HIDE DEF n, op
<1>6. TypeInv' /\ Placed(comp') /\ Sees(comp', pool')
  BY <1>1, <1>3, <1>4, <1>5, Parts, Looking DEF TypeInv, TypeOK, Placed, Sees
<1>7. /\ Sound(pool', node, app, comp, struck) /\ Finds(queue, pool') /\ Sees(app, pool')
  BY <1>1, <1>5, Looking
<1>8. Sound(pool', node, app, comp', struck')
  BY <1>1, <1>5, <1>7 DEF Sound, Renames
<1>9. CallHolds(app, node, struck')
  BY <1>5, Parts DEF CallHolds
<1>10. n \in Nodes => /\ node[n].where # "unused" /\ node[n].path = comp.path
                      /\ \/ node[n].where = "live"
                         \/ app.op = "remove" /\ app.path = comp.path /\ node[n].where = "dying"
                         \/ n \in struck
  BY <1>1, <1>2, Parts DEF Sound, Renames
<1>11. ~comp.excused => n \in Nodes
  BY <1>1, <1>2, Parts DEF Sees
<1>12. CompletionHolds(pool', node, app, comp', struck')
  BY <1>3, <1>4, <1>5, <1>10, <1>11 DEF CompletionHolds, Renames
<1> QED BY <1>3, <1>4, <1>5, <1>6, <1>7, <1>8, <1>9, <1>12, Parts DEF IInv

LEMMA acreateRekeysOk ==
  ASSUME IInv, acreateRekeys
  PROVE  IInv'
<1>1. comp.op = "rekey" /\ comp.path \in Paths /\ comp.other \in Paths /\ comp.op \in Renames
  BY Parts DEF acreateRekeys, At, Placed, Renames
<1> DEFINE n == comp.node
<1>2. /\ comp' \in Frames(CompletionOps) /\ comp'.op = "reinsert" /\ comp'.path = comp.path
      /\ comp'.other = comp.other /\ comp'.node = n /\ comp'.excused = comp.excused
  BY Parts, CompOps DEF acreateRekeys, Frames
<1>3. /\ UNCHANGED <<pool, queue, app, sweep, session, struck>>
      /\ crashed' \in {"no", "freed", "null"} /\ (crashed' = "no" => n \in Nodes)
  BY DEF acreateRekeys, Follow, Usable
<1>4. /\ node' \in [Nodes -> Objects]
      /\ \A m \in Nodes : /\ node'[m].where = node[m].where
                          /\ node'[m].path = IF m = n THEN comp.other ELSE node[m].path
  <2>1. CASE n \in Nodes
    <3>1. Renamed(n, comp.other, node, node')
      BY <1>1, <2>1, Parts, Repathing DEF acreateRekeys
    <3> QED BY <3>1 DEF Renamed
  <2>2. CASE n \notin Nodes
    BY <2>2, Parts DEF acreateRekeys
  <2> QED BY <2>1, <2>2
<1>5. TypeInv' /\ Placed(comp') /\ Sees(comp', pool)
  BY <1>1, <1>2, <1>3, <1>4, Parts DEF TypeInv, TypeOK, Placed, Sees
<1>6. comp'.op \in Renames
  BY <1>2 DEF Renames
<1>7. Sound(pool, node', app, comp', struck)
  <2> SUFFICES ASSUME NEW p \in Paths, pool[p] \in Nodes
               PROVE  /\ node'[pool[p]].where # "unused"
                      /\ \/ node'[pool[p]].where = "live"
                         \/ app.op = "remove" /\ app.path = p /\ node'[pool[p]].where = "dying"
                         \/ comp'.op = "sweep"
                         \/ pool[p] \in struck
                      /\ node'[pool[p]].path = p
                         \/ (comp'.op \in Renames /\ comp'.node = pool[p]
                             /\ p \in {comp'.path, comp'.other})
    BY DEF Sound
  <2>1. /\ node[pool[p]].where # "unused"
        /\ \/ node[pool[p]].where = "live"
           \/ app.op = "remove" /\ app.path = p /\ node[pool[p]].where = "dying"
           \/ pool[p] \in struck
        /\ node[pool[p]].path = p \/ (comp.node = pool[p] /\ p \in {comp.path, comp.other})
    BY <1>1, Parts DEF Sound
  <2>2. CASE pool[p] # n
    BY <1>4, <2>1, <2>2
  <2>3. CASE pool[p] = n
    <3>1. node[n].path = comp.path
      BY <1>1, <2>3, Parts DEF CompletionHolds, Holding
    <3> QED BY <1>2, <1>4, <1>6, <2>1, <2>3, <3>1
  <2> QED BY <2>2, <2>3
<1>8. CallHolds(app, node', struck)
  BY <1>4, Parts DEF CallHolds
<1>9. CompletionHolds(pool, node', app, comp', struck)
  BY <1>1, <1>2, <1>4, <1>6, Parts DEF CompletionHolds, Holding
<1> QED BY <1>2, <1>3, <1>5, <1>7, <1>8, <1>9, Parts DEF IInv

LEMMA acreateReinsertsOk ==
  ASSUME IInv, acreateReinserts
  PROVE  IInv'
<1>1. /\ comp.op = "reinsert" /\ comp.path \in Paths /\ comp.other \in Paths
      /\ comp.op \in Renames /\ comp.op \in Holding /\ comp.node \in Nodes
  BY Parts DEF acreateReinserts, At, Placed, Renames, Holding
<1> DEFINE n == comp.node
<1>2. /\ comp' \in Frames(CompletionOps) /\ comp'.op = "unkey" /\ comp'.path = comp.other
      /\ comp'.other = comp.path /\ comp'.node = n /\ comp'.excused = comp.excused
  BY <1>1, Parts, CompOps DEF acreateReinserts, Frames
<1>3. /\ UNCHANGED <<node, queue, app, sweep, session, crashed, struck>>
      /\ pool' = [pool EXCEPT ![comp.other] = n]
  BY DEF acreateReinserts
<1>4. pool' \in [Paths -> Nodes \cup {Absent, Null}] /\ pool'[comp.other] = n
      /\ \A p \in Paths \ {comp.other} : pool'[p] = pool[p]
  BY <1>1, <1>3, Parts
<1>5. TypeInv' /\ Placed(comp') /\ Sees(comp', pool')
  BY <1>1, <1>2, <1>3, <1>4, Parts DEF TypeInv, TypeOK, Placed, Sees
<1>6. comp'.op \in Renames /\ comp'.op \in Holding
  BY <1>2 DEF Renames, Holding
<1>7. /\ node[n].where # "unused" /\ node[n].path = comp.other
      /\ node[n].where = "live" \/ n \in struck
  BY <1>1, Parts DEF CompletionHolds
<1>8. Sound(pool', node, app, comp', struck)
  BY <1>1, <1>2, <1>4, <1>6, <1>7, Parts DEF Sound
<1>9. \A p \in Paths : pool[p] \in Nodes => pool'[p] \in Nodes
  BY <1>1, <1>4
<1>10. Finds(queue, pool') /\ Sees(app, pool')
  <2>1. Finds(queue, pool')
    BY <1>9, Parts, FindsStill
  <2> QED BY <1>9, <2>1, Parts DEF Sees, Placed
<1>11. CompletionHolds(pool', node, app, comp', struck)
  BY <1>1, <1>2, <1>7, Parts DEF CompletionHolds
<1> QED BY <1>2, <1>3, <1>5, <1>8, <1>10, <1>11, Parts DEF IInv

LEMMA acreateUnkeysOk ==
  ASSUME IInv, acreateUnkeys
  PROVE  IInv'
<1>1. /\ comp.op = "unkey" /\ comp.path \in Paths /\ comp.other \in Paths
      /\ comp.op \in Renames /\ comp.op \in Holding
  BY Parts DEF acreateUnkeys, At, Placed, Renames, Holding
<1> DEFINE n == comp.node
<1>2. /\ comp' \in Frames(CompletionOps) /\ comp'.op = "tell" /\ comp'.path = comp.path
      /\ comp'.other = comp.path /\ comp'.node = n /\ comp'.excused = comp.excused
  BY Parts, CompOps DEF acreateUnkeys, Frames
<1>3. /\ pool' = [pool EXCEPT ![comp.other] = Absent] /\ queue' = Excuse(comp.other, queue)
      /\ app' = ExcuseOne(comp.other, app)
      /\ UNCHANGED <<node, session, crashed, struck>> /\ sweep' \subseteq sweep
  BY DEF acreateUnkeys, Erase
<1>4. /\ queue' \in Seq(Asked) /\ Finds(queue', pool')
      /\ app' \in Frames(CallOps) /\ Placed(app')
  BY <1>3, Parts, FindsAfterExcuse, Excusing
<1>5. TypeInv' /\ Placed(comp') /\ Sees(comp', pool')
  BY <1>1, <1>2, <1>3, <1>4, Parts DEF TypeInv, TypeOK, Placed, Sees
<1>6. app'.op = app.op /\ app'.path = app.path /\ app'.node = app.node
      /\ (~app'.excused => ~app.excused /\ app.path # comp.other)
  BY <1>3, Parts, Excusing
<1>7. \A p \in Paths : pool'[p] \in Nodes => pool'[p] = pool[p] /\ p # comp.other
  BY <1>1, <1>3, Parts, PointersAreDistinct
<1>8. \A p \in Paths \ {comp.other} : pool'[p] = pool[p]
  BY <1>3, Parts
<1>9. n \in Nodes => /\ node[n].where # "unused" /\ node[n].path = comp.path
                     /\ node[n].where = "live" \/ n \in struck
  BY <1>1, Parts DEF CompletionHolds
<1>10. Sound(pool', node, app', comp', struck)
  BY <1>1, <1>2, <1>6, <1>7, <1>9, Parts DEF Sound
<1>11. Sees(app', pool') /\ CallHolds(app', node, struck)
  BY <1>6, <1>8, Parts DEF Sees, Placed, CallHolds
<1>12. CompletionHolds(pool', node, app', comp', struck)
  BY <1>1, <1>2, <1>6, <1>9, Parts DEF CompletionHolds, Renames
<1> QED BY <1>2, <1>3, <1>4, <1>5, <1>10, <1>11, <1>12, Parts DEF IInv

LEMMA acreateDropsOk ==
  ASSUME IInv, acreateDrops
  PROVE  IInv'
<1>1. comp.op = "drop" /\ comp.path \in Paths /\ comp.other \in Paths /\ comp.op \in Holding
  BY Parts DEF acreateDrops, At, Placed, Holding
<1> DEFINE n == comp.node
<1>2. /\ comp' \in Frames(CompletionOps) /\ comp'.op = "delete" /\ comp'.path = comp.path
      /\ comp'.other = comp.other /\ comp'.node = n /\ comp'.excused = comp.excused
  BY Parts, CompOps DEF acreateDrops, Frames
<1>3. /\ pool' = [pool EXCEPT ![comp.path] = Absent] /\ queue' = Excuse(comp.path, queue)
      /\ app' = ExcuseOne(comp.path, app)
      /\ UNCHANGED <<node, session, crashed, struck>> /\ sweep' \subseteq sweep
  BY DEF acreateDrops, Erase
<1>4. /\ queue' \in Seq(Asked) /\ Finds(queue', pool')
      /\ app' \in Frames(CallOps) /\ Placed(app')
  BY <1>3, Parts, FindsAfterExcuse, Excusing
<1>5. TypeInv' /\ Placed(comp') /\ Sees(comp', pool')
  BY <1>1, <1>2, <1>3, <1>4, Parts DEF TypeInv, TypeOK, Placed, Sees
<1>6. app'.op = app.op /\ app'.path = app.path /\ app'.node = app.node
      /\ (~app'.excused => ~app.excused /\ app.path # comp.path)
  BY <1>3, Parts, Excusing
<1>7. \A p \in Paths : pool'[p] \in Nodes => pool'[p] = pool[p] /\ p # comp.path
  BY <1>1, <1>3, Parts, PointersAreDistinct
<1>8. pool'[comp.path] = Absent /\ \A p \in Paths \ {comp.path} : pool'[p] = pool[p]
  BY <1>1, <1>3, Parts
<1>9. Sound(pool', node, app', comp', struck)
  BY <1>1, <1>6, <1>7, Parts DEF Sound, Renames
<1>10. Sees(app', pool') /\ CallHolds(app', node, struck)
  BY <1>6, <1>8, Parts DEF Sees, Placed, CallHolds
<1>11. CompletionHolds(pool', node, app', comp', struck)
  BY <1>1, <1>2, <1>6, <1>8, Parts, PointersAreDistinct DEF CompletionHolds, Renames
<1> QED BY <1>2, <1>3, <1>4, <1>5, <1>9, <1>10, <1>11, Parts DEF IInv

LEMMA acreateDeletesOk ==
  ASSUME IInv, acreateDeletes
  PROVE  IInv'
<1>1. comp.op = "delete" /\ comp.path \in Paths /\ comp.op \in Holding
  BY Parts DEF acreateDeletes, At, Placed, Holding
<1> DEFINE n == comp.node
<1>2. /\ comp' = Idle /\ Dies(n, node, node') /\ crashed' \in {"no", "freed", "null"}
      /\ UNCHANGED <<pool, queue, app, sweep, session, struck>>
  BY Parts, Dying DEF acreateDeletes, Follow
<1>3. n \in Nodes => /\ node[n].where # "unused" /\ node[n].path = comp.path
                     /\ pool[comp.path] # n
  BY <1>1, Parts DEF CompletionHolds
<1>4. TypeInv'
  BY <1>2, <1>3, Parts, CompOps, Over DEF TypeInv, TypeOK, Dies
<1>5. \A p \in Paths : pool[p] \in Nodes => pool[p] # n
  BY <1>1, <1>3, Parts DEF Sound, Renames
<1>6. Sound(pool, node', app, comp', struck)
  BY <1>1, <1>2, <1>5, Parts DEF Sound, Dies, Renames
<1>7. CallHolds(app, node', struck)
  BY <1>2, Parts DEF CallHolds, Dies
<1>8. Idle.op # "reinsert"
  BY Idling
<1> QED BY <1>2, <1>4, <1>6, <1>7, <1>8, Parts, Over DEF IInv

LEMMA agetCompletionOk ==
  ASSUME IInv, agetCompletion
  PROVE  IInv'
<1> DEFINE r == Head(queue)
           n == Found(r.path)
<1>1. /\ comp.op = "idle" /\ queue' \in Seq(Asked) /\ queue' = Tail(queue) /\ queue # <<>>
      /\ r.path \in Paths /\ r.excused \in BOOLEAN /\ (~r.excused => pool[r.path] \in Nodes)
  BY Taking DEF agetCompletion, Taken
<1>2. n \in Nodes \cup {Null} /\ (n \in Nodes => pool[r.path] = n)
      /\ (pool[r.path] \in Nodes => n = pool[r.path])
  BY <1>1, Looking
<1>3. /\ comp' \in Frames(CompletionOps) /\ comp'.op = "value" /\ comp'.path = r.path
      /\ comp'.other = r.path /\ comp'.node = n /\ comp'.excused = r.excused
  <2>1. comp' = [Frame("value", r.path, "plain", r.excused) EXCEPT !.node = n]
    BY DEF agetCompletion
  <2> HIDE DEF n, r
  <2> QED BY <1>1, <1>2, <2>1, CompOps DEF Frame, Frames, Hows, Types
<1>4. /\ pool' = Looked(r.path)
      /\ UNCHANGED <<node, app, sweep, session, crashed, struck>>
  BY DEF agetCompletion
<1> HIDE DEF n
<1>5. TypeInv' /\ Placed(comp') /\ Sees(comp', pool')
  BY <1>1, <1>3, <1>4, Parts, Looking DEF TypeInv, TypeOK, Placed, Sees
<1>6. /\ Sound(pool', node, app, comp, struck) /\ Finds(queue, pool') /\ Sees(app, pool')
  BY <1>1, <1>4, Looking
<1>7. Finds(queue', pool')
  BY <1>1, <1>6, Parts, FindsAfterTail
<1>8. Sound(pool', node, app, comp', struck)
  BY <1>1, <1>6, NotRenaming DEF Renames
<1>9. n \in Nodes => /\ node[n].where # "unused" /\ node[n].path = r.path
                     /\ \/ node[n].where = "live"
                        \/ app.op = "remove" /\ app.path = r.path /\ node[n].where = "dying"
                        \/ n \in struck
  BY <1>1, <1>2, Parts DEF Sound, Renames
<1>10. CompletionHolds(pool', node, app, comp', struck)
  BY <1>1, <1>2, <1>3, <1>9 DEF CompletionHolds, Renames
<1> QED BY <1>3, <1>4, <1>5, <1>6, <1>7, <1>8, <1>10, Parts DEF IInv

(* The ends of completions, the signals and the session watcher.               *)
LEMMA CompletionEndsOk ==
  ASSUME IInv,
         \/ acreateTells \/ agetCompletionEnds \/ SignalCompletion \/ aexistsCompletion
         \/ watcherEnds \/ processDisconnected
  PROVE  IInv'
<1>0. Idle.op = "idle"
  BY Idling
<1>1. CASE acreateTells \/ agetCompletionEnds
  <2>1. comp.op \in {"tell", "value"} /\ comp' = Idle /\ crashed' \in {"no", "freed", "null"}
        /\ UNCHANGED <<pool, node, queue, app, sweep, session, struck>>
    BY <1>1 DEF acreateTells, agetCompletionEnds, At, Follow
  <2> QED BY <1>0, <2>1, CompOps, Over, Parts, CompletionGoesOn DEF Renames
<1>2. CASE SignalCompletion \/ aexistsCompletion
  <2>1. /\ comp.op = "idle" /\ queue' \in Seq(Asked) /\ Finds(queue', pool)
        /\ UNCHANGED <<pool, node, app, comp, sweep, session, struck>>
        /\ crashed' \in {crashed, "no", "stranger"}
    BY <1>2, Taking DEF SignalCompletion, aexistsCompletion
  <2> QED BY <2>1, Parts, CompletionGoesOn DEF Renames
<1>3. CASE watcherEnds
  <2>1. comp.op = "idle" /\ comp' = Frame("disconnect", Absent, "plain", FALSE)
        /\ session' \in {"open", "closing", "quit", "ended", "left"} /\ crashed' \in {crashed, "closed"}
        /\ UNCHANGED <<pool, node, queue, app, sweep, struck>>
    BY <1>3, Parts DEF watcherEnds, At
  <2>2. comp' \in Frames(CompletionOps) /\ comp'.op = "disconnect"
    BY <2>1, CompOps DEF Frame, Frames, Hows, Types
  <2>3. Placed(comp') /\ Sees(comp', pool) /\ CompletionHolds(pool, node, app, comp', struck)
    BY <2>2 DEF Placed, Sees, CompletionHolds, Holding
  <2> QED BY <2>1, <2>2, <2>3, Parts, CompletionGoesOn DEF Renames
<1>4. CASE processDisconnected
  <2>1. comp.op = "disconnect" /\ sweep' \subseteq Paths
        /\ UNCHANGED <<pool, node, queue, app, session, crashed, struck>>
    BY <1>4 DEF processDisconnected, At
  <2>2. comp' \in Frames(CompletionOps) /\ comp'.op = "sweep"
    BY <1>4, Parts, CompOps DEF processDisconnected, Frames
  <2>3. Placed(comp') /\ Sees(comp', pool) /\ CompletionHolds(pool, node, app, comp', struck)
    BY <2>2 DEF Placed, Sees, CompletionHolds, Holding
  <2> QED BY <2>1, <2>2, <2>3, Parts, CompletionGoesOn DEF Renames
<1> QED BY <1>1, <1>2, <1>3, <1>4

LEMMA SweepOneOk ==
  ASSUME IInv, SweepOne
  PROVE  IInv'
<1>1. PICK p \in Paths : /\ comp.op = "sweep" /\ node' = deleteLater(pool[p])
                         /\ sweep' = sweep \ {p} /\ crashed' \in {"no", "freed", "null"}
                         /\ UNCHANGED <<pool, queue, app, comp, session, struck>>
  BY DEF SweepOne, At, Follow
<1> DEFINE n == pool[p]
<1>2. Dies(n, node, node') /\ (n \in Nodes => node[n].where # "unused")
  BY <1>1, Parts, Dying DEF Sound
<1>3. TypeInv'
  BY <1>1, <1>2, Parts DEF TypeInv, TypeOK, Dies
<1>4. Sound(pool, node', app, comp, struck)
  BY <1>1, <1>2, Parts DEF Sound, Dies
<1>5. CallHolds(app, node', struck)
  BY <1>2, Parts DEF CallHolds, Dies
<1>6. CompletionHolds(pool, node', app, comp, struck)
  BY <1>1 DEF CompletionHolds, Holding
<1> QED BY <1>1, <1>3, <1>4, <1>5, <1>6, Parts DEF IInv

LEMMA SweepEndsOk ==
  ASSUME IInv, SweepEnds
  PROVE  IInv'
<1>1. /\ pool' = [p \in Paths |-> Absent] /\ comp' = Idle
      /\ UNCHANGED <<node, sweep, session, crashed, struck>>
  BY DEF SweepEnds
<1>2. queue' \in Seq(Asked) /\ \A i \in DOMAIN queue' : queue'[i].excused
  <2>1. \A r \in Asked : [r EXCEPT !.excused = TRUE] \in Asked /\ [r EXCEPT !.excused = TRUE].excused
    BY DEF Asked
  <2>2. /\ queue' = [i \in DOMAIN queue |-> queue'[i]]
        /\ \A i \in DOMAIN queue : queue'[i] = [queue[i] EXCEPT !.excused = TRUE]
    BY DEF SweepEnds
  <2>3. \A i \in DOMAIN queue : queue'[i] \in Asked /\ queue'[i].excused
    <3>1. \A i \in DOMAIN queue : queue[i] \in Asked
      BY Parts, Listed
    <3> QED BY <2>1, <2>2, <3>1
  <2>4. \E k \in Nat : DOMAIN queue = 1..k
    BY Parts
  <2> QED BY <2>2, <2>3, <2>4
<1>3. /\ app' \in Frames(CallOps) /\ Placed(app')
      /\ app' = Idle \/ (app'.excused /\ app'.op = app.op)
  <2> DEFINE g == [app EXCEPT !.excused = TRUE]
  <2>1. /\ g \in Frames(CallOps) /\ g.excused /\ g.op = app.op
        /\ g.path = app.path /\ g.other = app.other
    BY Parts DEF Frames
  <2>2. app' \in {g, Idle}
    BY DEF SweepEnds
  <2> QED BY <2>1, <2>2, Parts, Over DEF Placed
<1>4. TypeInv'
  BY <1>1, <1>2, <1>3, Parts, Over, CompOps DEF TypeInv, TypeOK
<1>5. Finds(queue', pool') /\ Sees(app', pool') /\ CallHolds(app', node, struck)
  BY <1>2, <1>3, Over DEF Finds, Sees, CallHolds
<1>6. Sound(pool', node, app', comp', struck)
  BY <1>1, PointersAreDistinct DEF Sound
<1>7. Idle.op # "reinsert"
  BY Idling
<1> QED BY <1>1, <1>4, <1>5, <1>6, <1>7, Over DEF IInv

-------------------------------------------------------------------------------
LEMMA StepOk == IInv /\ [Next]_vars => IInv'
<1> SUFFICES ASSUME IInv, [Next]_vars PROVE IInv'
  OBVIOUS
<1>1. CASE UNCHANGED vars
  BY <1>1 DEF vars, IInv, TypeInv, TypeOK
<1>2. CASE Application
  BY <1>2, FunctionsOk, ReturnsFoundOk, AsksOk, createNodeInsertsOk, createNodeSyncInsertsOk,
     createNodeSyncRemovesOk, deleteNodeStrikesOk, deleteNodeRemovesOk, getNodeValueLooksUpOk,
     getNodeValueMakesOk, getNodeValueSyncReturnsOk, EventLoopOk, quitOk
     DEF Application
<1>3. CASE Completion
  BY <1>3, acreateCompletionOk, acreateLooksUpOk, acreateRekeysOk, acreateReinsertsOk,
     acreateUnkeysOk, acreateDropsOk, acreateDeletesOk, agetCompletionOk, CompletionEndsOk,
     SweepOneOk, SweepEndsOk
     DEF Completion
<1> QED BY <1>1, <1>2, <1>3 DEF Next

LEMMA Invariance == Spec => []IInv
BY InitOk, StepOk, PTL DEF Spec

(* However the application and the completion thread interleave, what the pool *)
(* of ZooKeeperManager holds is alive and under its own path, but for a key    *)
(* that is being removed, a pool that is being emptied, a node that is being   *)
(* renamed, and a node that was deleted while it was renamed.                  *)
THEOREM PoolStaysSound == Spec => []PoolIsSound
BY Invariance, Meaning, PTL

(* A completion or a call of the application misses its node, or holds one     *)
(* that was freed, only when the pool lost its path in the meantime, when the  *)
(* answer was faster than createNode, or when the node was deleted while it    *)
(* was renamed.                                                                *)
THEOREM NothingElseIsMissing == Spec => []MissingOnlyWhenLost
BY Invariance, Meaning, PTL

================================================================================
