-------------------------------- MODULE MultiOp --------------------------------
(* zoo_amulti and zoo_multi: several operations in one request.  The call      *)
(* encodes its operations and keeps one completion entry per operation in the  *)
(* list clist; the reply is decoded by walking that list and the body of the   *)
(* reply together, one MultiHeader per operation, until a header says done.    *)
(* A synchronous call is decoded by the IO thread, an asynchronous one by the  *)
(* completion thread, which also decodes the reply that free_completions fakes *)
(* when the connection is lost or the handle closed: a header and no body.     *)
(*                                                                             *)
(* The transport is what RequestPipeline shows of it: requests are answered in *)
(* the order in which they were sent, or failed together.                      *)
EXTENDS Integers, Sequences, SequencesExt

CONSTANTS
  Calls,      \* the calls made
  Requests,   \* the sequences of operations they may carry
  Chrooted,   \* whether the handle has a chroot
  MaxLost     \* bound on the number of lost connections

ASSUME ChrootAssumption == Chrooted \in BOOLEAN

Kinds == {"create", "delete", "set", "check", "other"}   \* other: not implemented
Ops   == [kind : Kinds, path : {"valid", "invalid"}]

ASSUME RequestsAssumption == Requests \subseteq Seq(Ops)

Ok           == "ok"
Refused      == "no node"    \* whatever the server says of an operation it cannot do
Inconsistent == "runtime inconsistency"
Gone         == "connection loss or closing"

Threads == {"io", "completion"}

VARIABLES
  ops,        \* the operations of a call
  sync,       \* the calls made by zoo_multi
  state,      \* of a call: "new", "refused", "pending", "ended"
  result,     \* what a call returned, or what its completion was called with
  clist,      \* the completion entries of a call that were not used yet
  results,    \* the zoo_op_result_t of each operation
  sent,       \* sent_requests
  served,     \* what the server did: -1 nothing, 0 committed, k refused at operation k
  replies,    \* replies on their way: [call, body]
  toProcess,  \* completions_to_process: [call, body]
  reader,     \* per thread: the reply it decodes, <<>> or <<reply>>
  failed,     \* "no", "assert" (the assertion on entry), "crash"
  lost        \* connections lost so far

vars == <<ops, sync, state, result, clist, results, sent, served, replies, toProcess,
          reader, failed, lost>>

Running == failed = "no"

-------------------------------------------------------------------------------
(* The call                                                                    *)

(* Mutant: the entry of a check expects a Stat, as that of a set does.         *)
CheckExpectsStat(kind) ==
  CASE kind = "create"         -> "STRING"
    [] kind \in {"set", "check"} -> "STAT"
    [] OTHER                   -> "VOID"

(* The completion entry of each kind of operation.                             *)
Entry(kind) ==
  CASE kind = "create" -> "STRING"
    [] kind = "set"    -> "STAT"
    [] OTHER           -> "VOID"

FirstWith(os, test(_)) ==
  LET those == {i \in DOMAIN os : test(os[i])}
  IN  IF those = {} THEN Len(os) + 1 ELSE CHOOSE i \in those : \A j \in those : i <= j

FirstInvalid(os) == FirstWith(os, LAMBDA op : op.path = "invalid")
FirstOther(os)   == FirstWith(os, LAMBDA op : op.kind = "other")

(* free_duplicate_path frees whatever req.path holds.  From the operation      *)
(* after an invalid path on, the requests are not initialised any more, so     *)
(* that is a pointer nobody assigned; the invalid path itself, when a chroot   *)
(* was prepended to it, was freed by Request_path_init already.                *)
FreesWrongly(os) ==
  \E i \in 1..(FirstOther(os) - 1) :
    i > FirstInvalid(os) \/ (i = FirstInvalid(os) /\ Chrooted)

(* The code guards add_multi_completion and queue_buffer_bytes, and is what    *)
(* zoo_amulti returns: every failure to encode is a marshalling error.         *)
Code(os) == IF FirstOther(os) <= Len(os) THEN "unimplemented"
            ELSE IF FirstInvalid(os) <= Len(os) THEN "marshalling error"
            ELSE Ok

Queued(os) == Code(os) = Ok

zoo_amulti(m) ==
  /\ Running /\ state[m] = "new"
  /\ \E os \in Requests, isSync \in BOOLEAN :
       /\ ops' = [ops EXCEPT ![m] = os]
       /\ sync' = IF isSync THEN sync \cup {m} ELSE sync
       /\ results' = [results EXCEPT ![m] = [i \in DOMAIN os |-> [err |-> "unset", value |-> "unset"]]]
       /\ IF Queued(os)
            THEN /\ clist' = [clist EXCEPT ![m] = [i \in DOMAIN os |-> Entry(os[i].kind)]]
                 /\ sent' = Append(sent, m)
            ELSE UNCHANGED <<clist, sent>>
       /\ IF Code(os) = Ok
            THEN state' = [state EXCEPT ![m] = "pending"] /\ UNCHANGED result
            ELSE /\ state' = [state EXCEPT ![m] = "refused"]
                 /\ result' = [result EXCEPT ![m] = Code(os)]
       /\ failed' \in IF FreesWrongly(os) THEN {"no", "crash"} ELSE {"no"}
  /\ UNCHANGED <<served, replies, toProcess, reader, lost>>

-------------------------------------------------------------------------------
(* The server (external): a transaction, all of it or nothing.                 *)

Token(tok, type, err) == [tok |-> tok, type |-> type, err |-> err]
Done == Token("head", "done", Ok)

ServerError(k, i) == CASE k = 0 \/ i < k -> Ok
                       [] i = k          -> Refused
                       [] OTHER          -> Inconsistent

(* One operation in the reply: its header, and what follows it.                *)
Payload(m, k, i) ==
  IF k # 0 THEN <<Token("error", "", ServerError(k, i))>>
  ELSE CASE ops[m][i].kind = "create" -> <<Token("path", "", Ok)>>
         [] ops[m][i].kind = "set"    -> <<Token("stat", "", Ok)>>
         [] OTHER                     -> <<>>

Header(m, k, i) == IF k # 0 THEN Token("head", "error", ServerError(k, i))
                            ELSE Token("head", ops[m][i].kind, Ok)

BodyFrom(m, k, j) ==
  FlattenSeq([i \in 1..(Len(ops[m]) - j + 1) |->
     <<Header(m, k, i + j - 1)>> \o Payload(m, k, i + j - 1)]) \o <<Done>>

ServerAnswers ==
  /\ Running
  /\ \E i \in DOMAIN sent :
       LET m == sent[i]
       IN  /\ served[m] = -1
           /\ \A j \in 1..(i - 1) : served[sent[j]] # -1
           /\ \E k \in 0..Len(ops[m]) :
                /\ served' = [served EXCEPT ![m] = k]
                /\ replies' = Append(replies, [call |-> m, body |-> BodyFrom(m, k, 1)])
  /\ UNCHANGED <<ops, sync, state, result, clist, results, sent, toProcess, reader, failed, lost>>

-------------------------------------------------------------------------------
(* Decoding                                                                    *)

(* deserialize_MultiHeader leaves the header as it was when the bytes are out. *)
deserialize_MultiHeader(r) ==
  IF r.body = <<>> THEN r
  ELSE [r EXCEPT !.type = Head(r.body).type, !.err = Head(r.body).err, !.body = Tail(@)]

Begin(reply) ==
  deserialize_MultiHeader(
    [call |-> reply.call, body |-> reply.body, type |-> "", err |-> Ok, rc |-> Ok])

(* Mutant: the request stays in sent_requests when its reply is taken.         *)
ReplyPeeks ==
  /\ Running /\ reader["io"] = <<>> /\ replies # <<>>
  /\ LET m == Head(replies).call
     IN  IF m \in sync
           THEN /\ reader' = [reader EXCEPT !["io"] = <<Begin(Head(replies))>>]
                /\ UNCHANGED toProcess
           ELSE /\ toProcess' = Append(toProcess, Head(replies))
                /\ UNCHANGED reader
  /\ replies' = Tail(replies)
  /\ UNCHANGED <<ops, sync, state, result, clist, results, sent, served, failed, lost>>

(* zookeeper_process: the reply belongs to the first of sent_requests.         *)
IoReply ==
  /\ Running /\ reader["io"] = <<>> /\ replies # <<>>
  /\ LET m == Head(sent)
     IN  IF m \in sync
           THEN /\ reader' = [reader EXCEPT !["io"] = <<Begin(Head(replies))>>]
                /\ UNCHANGED toProcess
           ELSE /\ toProcess' = Append(toProcess, Head(replies))
                /\ UNCHANGED reader
  /\ replies' = Tail(replies)
  /\ sent' = Tail(sent)
  /\ UNCHANGED <<ops, sync, state, result, clist, results, served, failed, lost>>

(* process_completions                                                         *)
CompletionTakes ==
  /\ Running /\ reader["completion"] = <<>> /\ toProcess # <<>>
  /\ reader' = [reader EXCEPT !["completion"] = <<Begin(Head(toProcess))>>]
  /\ toProcess' = Tail(toProcess)
  /\ UNCHANGED <<ops, sync, state, result, clist, results, sent, served, replies, failed, lost>>

(* Mutant: the transaction's code is that of its last operation.               *)
LastError(rc, err) == err

(* The transaction's code is the first that names a cause.                     *)
FirstCause(rc, err) == IF rc = Ok /\ err \notin {Ok, Inconsistent} THEN err ELSE rc

(* The header of a refused operation is followed by its ErrorResponse.         *)
ReadError(r) ==
  IF r.type # "error" THEN r
  ELSE [r EXCEPT !.err = Head(r.body).err, !.rc = FirstCause(@, Head(r.body).err),
                 !.body = Tail(@)]

(* op_result_string_completion, op_result_stat_completion and                  *)
(* op_result_void_completion, called by deserialize_response: a value only of  *)
(* an operation that succeeded; from a body that is not there it is whatever   *)
(* the memory held.                                                            *)
Value(entry, r) == IF entry = "VOID" \/ r.type = "error" THEN "none"
                   ELSE IF r.body = <<>> THEN "garbage" ELSE Head(r.body).tok

AfterValue(entry, r) ==
  IF entry = "VOID" \/ r.type = "error" \/ r.body = <<>> THEN r
  ELSE [r EXCEPT !.body = Tail(@)]

(* One turn of the loop of deserialize_multi.  A path that was never read is   *)
(* used and freed.                                                             *)
DecodeOne(t) ==
  /\ Running /\ reader[t] # <<>>
  /\ LET r == reader[t][1]
         m == r.call
         i == Len(ops[m]) - Len(clist[m]) + 1
     IN  /\ r.type # "done"
         /\ clist[m] # <<>>
         /\ LET entry == Head(clist[m])
                e     == ReadError(r)
            IN  /\ results' = [results EXCEPT ![m][i] = [err |-> e.err, value |-> Value(entry, e)]]
                /\ reader' = [reader EXCEPT ![t] = <<deserialize_MultiHeader(AfterValue(entry, e))>>]
                /\ failed' \in IF entry = "STRING" /\ Value(entry, e) = "garbage"
                                 THEN {"no", "crash"} ELSE {"no"}
         /\ clist' = [clist EXCEPT ![m] = Tail(@)]
  /\ UNCHANGED <<ops, sync, state, result, sent, served, replies, toProcess, lost>>

(* assert(entry)                                                               *)
NoEntryLeft(t) ==
  /\ Running /\ reader[t] # <<>>
  /\ reader[t][1].type # "done" /\ clist[reader[t][1].call] = <<>>
  /\ failed' = "assert"
  /\ UNCHANGED <<ops, sync, state, result, clist, results, sent, served, replies, toProcess,
                 reader, lost>>

(* notify_sync_completion, upon which zoo_multi returns, or void_result.       *)
End(t) ==
  /\ Running /\ reader[t] # <<>>
  /\ reader[t][1].type = "done"
  /\ LET m == reader[t][1].call
     IN  /\ state' = [state EXCEPT ![m] = "ended"]
         /\ result' = [result EXCEPT ![m] = reader[t][1].rc]
  /\ reader' = [reader EXCEPT ![t] = <<>>]
  /\ UNCHANGED <<ops, sync, clist, results, sent, served, replies, toProcess, failed, lost>>

(* The loop of free_completions: what it queues of the first n entries.        *)
FakedReplies[n \in 0..Len(sent)] ==
  IF n = 0 THEN <<>>
  ELSE IF sent[n] \in sync THEN FakedReplies[n - 1]
  ELSE Append(FakedReplies[n - 1], [call |-> sent[n], body |-> <<>>])

(* free_completions: the synchronous calls get their code, the others a reply  *)
(* made of a header.                                                           *)
free_completions ==
  /\ Running /\ reader["io"] = <<>> /\ sent # <<>> /\ lost < MaxLost
  /\ lost' = lost + 1
  /\ state' = [m \in Calls |-> IF m \in ToSet(sent) \cap sync THEN "ended" ELSE state[m]]
  /\ result' = [m \in Calls |-> IF m \in ToSet(sent) \cap sync THEN Gone ELSE result[m]]
  /\ toProcess' = toProcess \o FakedReplies[Len(sent)]
  /\ sent' = <<>> /\ replies' = <<>>
  /\ UNCHANGED <<ops, sync, clist, results, served, reader, failed>>

Init ==
  /\ ops = [m \in Calls |-> <<>>] /\ sync = {}
  /\ state = [m \in Calls |-> "new"] /\ result = [m \in Calls |-> Ok]
  /\ clist = [m \in Calls |-> <<>>] /\ results = [m \in Calls |-> <<>>]
  /\ sent = <<>> /\ served = [m \in Calls |-> -1]
  /\ replies = <<>> /\ toProcess = <<>>
  /\ reader = [t \in Threads |-> <<>>]
  /\ failed = "no" /\ lost = 0

Next ==
  \/ \E m \in Calls : zoo_amulti(m)
  \/ ServerAnswers \/ IoReply \/ CompletionTakes \/ free_completions
  \/ \E t \in Threads : DecodeOne(t) \/ NoEntryLeft(t) \/ End(t)

Spec == Init /\ [][Next]_vars

-------------------------------------------------------------------------------
(* Properties                                                                  *)

TypeOK ==
  /\ ops \in [Calls -> {<<>>} \cup Requests]
  /\ sync \subseteq Calls
  /\ state \in [Calls -> {"new", "refused", "pending", "ended"}]
  /\ result \in [Calls -> {Ok, Refused, Inconsistent, Gone, "unimplemented", "marshalling error"}]
  /\ \A m \in Calls : Len(clist[m]) <= Len(ops[m]) /\ Len(results[m]) = Len(ops[m])
  /\ ToSet(sent) \subseteq {m \in Calls : state[m] = "pending"}
  /\ served \in [Calls -> Int]
  /\ failed \in {"no", "assert", "crash"}

(* The list of entries and the body of the reply stay in step: what is left of *)
(* the body is what the server wrote for the entries that are left, to the     *)
(* header that says done.                                                      *)
InStep ==
  /\ TypeOK
  /\ \A t \in Threads : reader[t] # <<>> =>
       LET r == reader[t][1]
           m == r.call
           j == Len(ops[m]) - Len(clist[m]) + 1
       IN  \/ r.type = "done" /\ clist[m] = <<>> /\ r.body = <<>>
           \/ r.type \notin {"done", ""} /\ clist[m] # <<>>
                /\ r.body = Tail(BodyFrom(m, served[m], j))
           \/ r.type = "" /\ r.body = <<>>    \* a faked reply

(* A call that ends with a code of the server reports one transaction: success *)
(* if and only if the server committed, every operation then with its value;   *)
(* otherwise the cause, each operation with the error the server gave it.  One *)
(* that was refused when it was made never reaches the server.                 *)
ResultsAreTheServers ==
  /\ \A m \in Calls : state[m] = "refused" => m \notin ToSet(sent) /\ served[m] = -1
  /\ \A m \in Calls : state[m] = "ended" /\ result[m] # Gone =>
       /\ served[m] # -1
       /\ result[m] = (IF served[m] = 0 THEN Ok ELSE Refused)
       /\ \A i \in DOMAIN ops[m] :
            /\ results[m][i].err = ServerError(served[m], i)
            /\ results[m][i].value =
                 (CASE served[m] = 0 /\ ops[m][i].kind = "create" -> "path"
                    [] served[m] = 0 /\ ops[m][i].kind = "set"    -> "stat"
                    [] OTHER                                      -> "none")

(* The results and the code of a call belong to the application once the call  *)
(* ended: no thread writes them any more, so that it ends once.                *)
EndedIsFinal ==
  [][\A m \in Calls : state[m] = "ended" =>
       /\ state'[m] = "ended" /\ result'[m] = result[m] /\ results'[m] = results[m]
       /\ \A t \in Threads : reader'[t] # <<>> => reader'[t][1].call # m]_vars

(* assert(entry) of deserialize_multi: there is an entry for every operation   *)
(* of the reply.                                                               *)
EntryIsThere == failed # "assert"
================================================================================
