---------------------------- MODULE RequestService ----------------------------
(***************************************************************************)
(* What the calls of zookeeper.h promise of the requests they accept,      *)
(* without queues, threads or connections.  Each accepted request is told  *)
(* its outcome at most once and for good, an answer only if a server       *)
(* executed it, the end of the session or of the handle only if that has   *)
(* come; nothing that was refused is ever executed; and until the handle   *)
(* is closed callbacks come in the order of acceptance, none skipped.      *)
(***************************************************************************)
EXTENDS Sequences, SequencesExt

CONSTANTS
    Requests,   \* the calls that are ever made
    Sync,       \* those whose caller waits; the others have a callback
    Outcomes,   \* what a caller or a callback may be told
    NoOne       \* not told yet

VARIABLES
    issued,     \* the requests accepted, in order
    refused,    \* the requests refused
    applied,    \* the requests that a server executed
    result,     \* what was told of each request
    over,       \* the session or the handle has come to its end
    closing     \* the handle has

(* Neither accepted nor refused yet *)
New(r) == r \in Requests /\ r \notin ToSet(issued) \cup refused

Init ==
    /\ issued = <<>> /\ refused = {} /\ applied = {}
    /\ result = [r \in Requests |-> NoOne]
    /\ over = FALSE /\ closing = FALSE

Accept(r) ==
    /\ New(r)
    /\ ~closing
    /\ issued' = Append(issued, r)
    /\ UNCHANGED <<refused, applied, result, over, closing>>

Refuse(r) ==
    /\ New(r)
    /\ over
    /\ refused' = refused \cup {r}
    /\ UNCHANGED <<issued, applied, result, over, closing>>

(* Servers execute requests, also after their callers have been told that  *)
(* the connection was lost; they may find the session to be at its end.    *)
Serve ==
    /\ \E S \in SUBSET ToSet(issued) : applied' = applied \cup S
    /\ over' \in {over, TRUE}
    /\ UNCHANGED <<issued, refused, result, closing>>

Truthful(r, rc) ==
    /\ rc = "ANSWERED" => r \in applied
    /\ rc \in {"ZSESSIONEXPIRED", "ZAUTHFAILED"} => over
    /\ rc = "ZCLOSING" => closing

(* Every callback that was to come before that of r has come. *)
InTurn(r) ==
    \A i, j \in DOMAIN issued :
       i < j /\ issued[j] = r /\ issued[i] \notin Sync =>
          result[issued[i]] # NoOne

Tell(r, rc) ==
    /\ r \in ToSet(issued) /\ result[r] = NoOne
    /\ Truthful(r, rc)
    /\ r \in Sync \/ closing \/ InTurn(r)
    /\ result' = [result EXCEPT ![r] = rc]
    /\ UNCHANGED <<issued, refused, applied, over, closing>>

Close ==
    /\ closing' = TRUE /\ over' = TRUE
    /\ UNCHANGED <<issued, refused, applied, result>>

Next == \/ \E r \in Requests : \/ Accept(r) \/ Refuse(r)
                               \/ \E rc \in Outcomes : Tell(r, rc)
        \/ Serve \/ Close

serviceVars == <<issued, refused, applied, result, over, closing>>

Spec == Init /\ [][Next]_serviceVars
===============================================================================
