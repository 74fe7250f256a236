------------------------------ MODULE JuteRecords ------------------------------
(* The records of the wire protocol, as the generated code of                 *)
(* zookeeper.jute.c writes, reads and frees them.  serialize_X,               *)
(* deserialize_X and deallocate_X walk the same fields in the same order, so  *)
(* one definition per record stands for the three: the sequence of its        *)
(* fields.  A field is a primitive or a vector of records made of primitives; *)
(* a record inside a record (an Id in an ACL, a Stat in a reply) adds its own *)
(* fields in place, since start_record and end_record write nothing.          *)
EXTENDS Sequences

Field(primitive) == [vector |-> FALSE, of |-> <<primitive>>]

AnInt   == Field("int")
ALong   == Field("long")
ABool   == Field("bool")
ABuffer == Field("buffer")
AString == Field("string")

(* X_vector: a count and that many elements.                                  *)
VectorOf(record) == [vector |-> TRUE, of |-> [i \in DOMAIN record |-> record[i].of[1]]]

Id == <<AString, AString>>
ACL == <<AnInt>> \o Id
Stat == <<ALong, ALong, ALong, ALong, AnInt, AnInt, AnInt, ALong, AnInt, AnInt, ALong>>
StatPersisted == <<ALong, ALong, ALong, ALong, AnInt, AnInt, AnInt, ALong, ALong>>
StatPersistedV1 == <<ALong, ALong, ALong, ALong, AnInt, AnInt, AnInt, ALong>>
ConnectRequest == <<AnInt, ALong, AnInt, ALong, ABuffer>>
ConnectResponse == <<AnInt, AnInt, ALong, ABuffer>>
String_vector == VectorOf(<<AString>>)
SetWatches == <<ALong, String_vector, String_vector, String_vector>>
RequestHeader == <<AnInt, AnInt>>
MultiHeader == <<AnInt, ABool, AnInt>>
AuthPacket == <<AnInt, AString, ABuffer>>
ReplyHeader == <<AnInt, ALong, AnInt>>
GetDataRequest == <<AString, ABool>>
SetDataRequest == <<AString, ABuffer, AnInt>>
SetDataResponse == Stat
GetSASLRequest == <<ABuffer>>
SetSASLRequest == <<ABuffer>>
SetSASLResponse == <<ABuffer>>
ACL_vector == VectorOf(ACL)
CreateRequest == <<AString, ABuffer, ACL_vector, AnInt>>
DeleteRequest == <<AString, AnInt>>
GetChildrenRequest == <<AString, ABool>>
GetChildren2Request == <<AString, ABool>>
CheckVersionRequest == <<AString, AnInt>>
GetMaxChildrenRequest == <<AString>>
GetMaxChildrenResponse == <<AnInt>>
SetMaxChildrenRequest == <<AString, AnInt>>
SyncRequest == <<AString>>
SyncResponse == <<AString>>
GetACLRequest == <<AString>>
SetACLRequest == <<AString, ACL_vector, AnInt>>
SetACLResponse == Stat
WatcherEvent == <<AnInt, AnInt, AString>>
ErrorResponse == <<AnInt>>
CreateResponse == <<AString>>
ExistsRequest == <<AString, ABool>>
ExistsResponse == Stat
GetDataResponse == <<ABuffer>> \o Stat
GetChildrenResponse == <<String_vector>>
GetChildren2Response == <<String_vector>> \o Stat
GetACLResponse == <<ACL_vector>> \o Stat
LearnerInfo == <<ALong, AnInt>>
Id_vector == VectorOf(Id)
QuorumPacket == <<AnInt, ALong, ABuffer, Id_vector>>
FileHeader == <<AnInt, AnInt, ALong>>
TxnHeader == <<ALong, AnInt, ALong, ALong, AnInt>>
CreateTxnV0 == <<AString, ABuffer, ACL_vector, ABool>>
CreateTxn == <<AString, ABuffer, ACL_vector, ABool, AnInt>>
DeleteTxn == <<AString>>
SetDataTxn == <<AString, ABuffer, AnInt>>
CheckVersionTxn == <<AString, AnInt>>
SetACLTxn == <<AString, ACL_vector, AnInt>>
SetMaxChildrenTxn == <<AString, AnInt>>
CreateSessionTxn == <<AnInt>>
ErrorTxn == <<AnInt>>
Txn == <<AnInt, ABuffer>>
Txn_vector == VectorOf(Txn)
MultiTxn == <<Txn_vector>>

(* Every record; those with the same fields are one element of the set.       *)
Records ==
  { Id, ACL, Stat, StatPersisted, StatPersistedV1, ConnectRequest,
    ConnectResponse, SetWatches, RequestHeader, MultiHeader, AuthPacket,
    ReplyHeader, GetDataRequest, SetDataRequest, SetDataResponse,
    GetSASLRequest, SetSASLRequest, SetSASLResponse, CreateRequest,
    DeleteRequest, GetChildrenRequest, GetChildren2Request,
    CheckVersionRequest, GetMaxChildrenRequest, GetMaxChildrenResponse,
    SetMaxChildrenRequest, SyncRequest, SyncResponse, GetACLRequest,
    SetACLRequest, SetACLResponse, WatcherEvent, ErrorResponse,
    CreateResponse, ExistsRequest, ExistsResponse, GetDataResponse,
    GetChildrenResponse, GetChildren2Response, GetACLResponse, LearnerInfo,
    QuorumPacket, FileHeader, TxnHeader, CreateTxnV0, CreateTxn, DeleteTxn,
    SetDataTxn, CheckVersionTxn, SetACLTxn, SetMaxChildrenTxn,
    CreateSessionTxn, ErrorTxn, Txn, MultiTxn }
================================================================================
