------------------------------- MODULE RecordIO -------------------------------
(* The archives of recordio.c: a record is written primitive by primitive into *)
(* a buffer that grows, its bytes travel (perhaps not all of them), and it is  *)
(* read back primitive by primitive and freed.                                 *)
(*                                                                             *)
(* Every value is a sequence of integers: an int <<n>>, a long <<high, low>>,  *)
(* a bool <<b>>, a string or a buffer its bytes.  The null pointer is Null;    *)
(* memory the reader never assigned is Unset.                                  *)
EXTENDS JuteRecords, Integers, SequencesExt

CONSTANTS
  InitialLength,    \* the buffer's first size: 128 in create_buffer_oarchive
  Null, Unset,      \* a null pointer; memory left as it was
  Chosen(_),        \* the values a primitive may have, the plain one first (a bound)
  MaxElements,      \* bound on the elements of a vector
  Leftover          \* what an uninitialised count may happen to hold

Int32 == {n \in Int : -2147483647 - 1 <= n /\ n <= 2147483647}
Byte  == {n \in Nat : n <= 255}

(* What a primitive of a record can hold.  A long is its two halves; only a    *)
(* string or a buffer can be absent.                                           *)
Values(type) == CASE type \in {"int", "bool"} -> [1..1 -> Int32]
                  [] type = "long"            -> [1..2 -> Int32]
                  [] OTHER                    -> Seq(Byte) \cup {Null}

Primitives == {"int", "long", "bool", "buffer", "string"}

ASSUME LengthAssumption == InitialLength \in Nat \ {0}

ASSUME NullAssumption == Null # Unset /\ Null \notin Seq(Int) /\ Unset \notin Seq(Int)

ASSUME ChosenAssumption ==
  \A type \in Primitives :
    /\ Chosen(type) \in Seq(Values(type)) /\ Chosen(type) # <<>>
    /\ \A v \in ToSet(Chosen(type)) : v # Null => Len(v) \in Int32

ASSUME CountAssumption == MaxElements \in Nat /\ MaxElements \in Int32 /\ Leftover \subseteq Int32

VARIABLES
  phase,    \* "write", "read", "free", "done"
  cells,    \* the record: its primitives with their values, in wire order
  shape,    \* its fields
  oa,       \* [len, off, bytes]: the output buffer and what has been copied to it
  left,     \* the number of cells still to write
  ia,       \* [len, off, bytes]: the input buffer
  todo,     \* the primitives still to read
  rc,       \* what the chain of calls has returned so far
  got,      \* the cells read: [type, val, mine], mine iff this read allocated it
  freed     \* the positions of got that were freed

vars == <<phase, cells, shape, oa, left, ia, todo, rc, got, freed>>

-------------------------------------------------------------------------------
(* Bytes.  htonl and zoo_htonll store the most significant byte first.         *)

BigEndian(n) == <<(n \div 16777216) % 256, (n \div 65536) % 256, (n \div 256) % 256, n % 256>>

HostInt(b) == (IF b[1] < 128 THEN b[1] ELSE b[1] - 256) * 16777216
                + b[2] * 65536 + b[3] * 256 + b[4]

(* Mutant: the buffer doubles once.                                            *)
DoubleOnce(len, newlen) == len * 2

(* The buffer doubles until it is as long as asked for.                        *)
resize_buffer(len, newlen) ==
  LET doubled[k \in Nat] == IF k = 0 THEN len ELSE 2 * doubled[k - 1]
  IN  doubled[CHOOSE k \in 0..newlen :
                doubled[k] >= newlen /\ \A j \in 0..(k - 1) : doubled[j] < newlen]

(* memcpy at off, after making room when there is too little.                  *)
AppendBytes(a, bytes) ==
  [len   |-> IF a.len - a.off < Len(bytes)
               THEN resize_buffer(a.len, a.len + Len(bytes)) ELSE a.len,
   off   |-> a.off + Len(bytes),
   bytes |-> a.bytes \o bytes]

-------------------------------------------------------------------------------
(* Writing                                                                     *)

Cell(type, val) == [type |-> type, val |-> val]

(* Mutant: the two halves of a long stay in the order of the host.             *)
LowHalfFirst(a, v) == AppendBytes(a, BigEndian(v[2]) \o BigEndian(v[1]))

oa_serialize_int(a, v)  == AppendBytes(a, BigEndian(v[1]))
oa_serialize_long(a, v) == AppendBytes(a, BigEndian(v[1]) \o BigEndian(v[2]))
oa_serialize_bool(a, v) == AppendBytes(a, <<IF v[1] = 0 THEN 0 ELSE 1>>)

oa_serialize_buffer(a, v) ==
  IF v = Null THEN oa_serialize_int(a, <<-1>>)
              ELSE AppendBytes(oa_serialize_int(a, <<Len(v)>>), v)

oa_serialize_string(a, v) ==
  IF v = Null THEN oa_serialize_int(a, <<-1>>)
              ELSE AppendBytes(oa_serialize_int(a, <<Len(v)>>), v)

NextCell == cells[Len(cells) - left + 1]

Serialize(type, archive) ==
  /\ phase = "write" /\ left > 0
  /\ NextCell.type = type
  /\ oa' = archive
  /\ left' = left - 1
  /\ UNCHANGED <<phase, cells, shape, ia, todo, rc, got, freed>>

SerializeInt    == Serialize("int",    oa_serialize_int(oa, NextCell.val))
SerializeLong   == Serialize("long",   oa_serialize_long(oa, NextCell.val))
SerializeBool   == Serialize("bool",   oa_serialize_bool(oa, NextCell.val))
SerializeBuffer == Serialize("buffer", oa_serialize_buffer(oa, NextCell.val))
SerializeString == Serialize("string", oa_serialize_string(oa, NextCell.val))
oa_start_vector == Serialize("count",  oa_serialize_int(oa, NextCell.val))

-------------------------------------------------------------------------------
(* Between the two: get_buffer and get_buffer_len hand the bytes over, the     *)
(* frame that arrives may be short, and create_buffer_iarchive wraps it.       *)

Step(primitive, zeroed) == [op |-> primitive, zeroed |-> zeroed]

Plan(fields) ==
  [i \in DOMAIN fields |->
     IF fields[i].vector THEN [op |-> "count", zeroed |-> FALSE, of |-> fields[i].of]
                         ELSE Step(fields[i].of[1], FALSE)]

(* The primitives of n elements, one after the other.                          *)
Repeated(record, n) == [i \in 1..(n * Len(record)) |-> record[((i - 1) % Len(record)) + 1]]

Travel ==
  /\ phase = "write" /\ left = 0
  /\ \E n \in 0..oa.off : ia' = [len |-> n, off |-> 0, bytes |-> SubSeq(oa.bytes, 1, n)]
  /\ phase' = "read"
  /\ todo' = Plan(shape)
  /\ UNCHANGED <<cells, shape, oa, left, rc, got, freed>>

-------------------------------------------------------------------------------
(* Reading.  A primitive is read only while nothing has failed; otherwise its  *)
(* place keeps what the memory held: nothing known in a record on the stack,   *)
(* zeros in the elements of a vector, which calloc provides.                   *)

Room(n)     == ia.len - ia.off >= n
At(from, n) == SubSeq(ia.bytes, from + 1, from + n)
Length      == HostInt(At(ia.off, 4))    \* the length or count read next

Zero(type) == CASE type \in {"int", "bool"} -> <<0>>
                [] type = "long"            -> <<0, 0>>
                [] OTHER                    -> Null

Untouched == IF Head(todo).zeroed THEN Zero(Head(todo).op) ELSE Unset

Got(val, mine) == got' = Append(got, [type |-> Head(todo).op, val |-> val, mine |-> mine])

Reading(op) ==
  /\ phase = "read" /\ todo # <<>>
  /\ Head(todo).op = op
  /\ UNCHANGED <<phase, cells, shape, oa, left, freed>>

Moved(n) == ia' = [ia EXCEPT !.off = @ + n]

Fails(code, n) ==
  /\ rc' = code
  /\ Moved(n)
  /\ Got(Untouched, FALSE)

Reads(val, n, mine) ==
  /\ Moved(n)
  /\ Got(val, mine)
  /\ UNCHANGED rc

(* rc = rc ? rc : in->deserialize_...: nothing is called after a failure.      *)
Skip ==
  /\ phase = "read" /\ todo # <<>>
  /\ rc # "ok" /\ Head(todo).op # "end"
  /\ Got(Untouched, FALSE)
  /\ todo' = Tail(todo)
  /\ UNCHANGED <<phase, cells, shape, oa, left, ia, rc, freed>>

ia_deserialize_int ==
  /\ Reading("int") /\ rc = "ok"
  /\ todo' = Tail(todo)
  /\ IF Room(4) THEN Reads(<<Length>>, 4, FALSE) ELSE Fails("E2BIG", 0)

ia_deserialize_long ==
  /\ Reading("long") /\ rc = "ok"
  /\ todo' = Tail(todo)
  /\ IF Room(8) THEN Reads(<<Length, HostInt(At(ia.off + 4, 4))>>, 8, FALSE)
                ELSE Fails("E2BIG", 0)

ia_deserialize_bool ==
  /\ Reading("bool") /\ rc = "ok"
  /\ todo' = Tail(todo)
  /\ IF Room(1) THEN Reads(At(ia.off, 1), 1, FALSE) ELSE Fails("E2BIG", 0)

(* A buffer of length -1 is the null buffer.                                   *)
ia_deserialize_buffer ==
  /\ Reading("buffer") /\ rc = "ok"
  /\ todo' = Tail(todo)
  /\ IF ~Room(4) THEN Fails("E2BIG", 0)
     ELSE IF ia.len - ia.off - 4 < Length THEN Fails("E2BIG", 4)
     ELSE IF Length = -1 THEN Reads(Null, 4, FALSE)
     ELSE IF Length < 0 THEN Fails("ENOMEM", 4)
     ELSE Reads(At(ia.off + 4, Length), 4 + Length, TRUE)

(* Mutant: a string of length -1 is the null string.                          *)
NullStringAccepted ==
  /\ Reading("string") /\ rc = "ok"
  /\ todo' = Tail(todo)
  /\ IF ~Room(4) THEN Fails("E2BIG", 0)
     ELSE IF ia.len - ia.off - 4 < Length THEN Fails("E2BIG", 4)
     ELSE IF Length < 0 THEN Reads(Null, 4, FALSE)
     ELSE Reads(At(ia.off + 4, Length), 4 + Length, TRUE)

(* A string has no null form: a negative length is refused.                    *)
ia_deserialize_string ==
  /\ Reading("string") /\ rc = "ok"
  /\ todo' = Tail(todo)
  /\ IF ~Room(4) THEN Fails("E2BIG", 0)
     ELSE IF ia.len - ia.off - 4 < Length THEN Fails("E2BIG", 4)
     ELSE IF Length < 0 THEN Fails("EINVAL", 4)
     ELSE Reads(At(ia.off + 4, Length), 4 + Length, TRUE)

(* deserialize_X_vector: the elements are allocated whether or not the count   *)
(* could be read; if not, it is whatever the caller's memory held.  An element *)
(* takes a byte or more, so that a wrong count, however large, changes nothing *)
(* after the first element the bytes do not hold: those are left out.          *)
Reached(n) == IF n <= ia.len - ia.off THEN n ELSE ia.len - ia.off + 1

EndOfVector == Step("end", FALSE)

(* Mutant: the elements come from malloc, which leaves them as they are.       *)
ElementsFromMalloc(n) ==
  LET each == Repeated(Head(todo).of, Reached(n))
  IN  [i \in DOMAIN each |-> Step(each[i], FALSE)] \o <<EndOfVector>>

Elements(n) ==
  LET each == Repeated(Head(todo).of, Reached(n))
  IN  [i \in DOMAIN each |-> Step(each[i], TRUE)] \o <<EndOfVector>>

ia_start_vector ==
  /\ Reading("count") /\ rc = "ok"
  /\ \E n \in IF Room(4) THEN {Length} ELSE Leftover :
       /\ todo' = Elements(n) \o Tail(todo)
       /\ Got(<<n>>, n >= 0)
  /\ IF Room(4) THEN Moved(4) /\ UNCHANGED rc
                ELSE rc' = "E2BIG" /\ UNCHANGED ia

(* rc = in->end_vector(in, tag): the result of the elements is overwritten.    *)
ia_end_vector ==
  /\ Reading("end")
  /\ rc' = "ok"
  /\ todo' = Tail(todo)
  /\ UNCHANGED <<ia, got>>

EndRead ==
  /\ phase = "read" /\ todo = <<>>
  /\ phase' = IF rc = "ok" THEN "free" ELSE "done"
  /\ UNCHANGED <<cells, shape, oa, left, ia, todo, rc, got, freed>>

(* deallocate_X: every string, buffer and array that is not the null pointer.  *)
Pointer(c) == \/ c.type \in {"string", "buffer"} /\ c.val # Null
              \/ c.type = "count" /\ (c.val = Unset \/ c.val[1] >= 0)

Deallocate ==
  /\ phase = "free"
  /\ freed' = {i \in DOMAIN got : Pointer(got[i])}
  /\ phase' = "done"
  /\ UNCHANGED <<cells, shape, oa, left, ia, todo, rc, got>>

-------------------------------------------------------------------------------
(* A record is one of Records; all its primitives hold the first of their      *)
(* values but one, which holds any, and its vectors have as many elements.     *)

Plain(type) == Head(Chosen(type))

PlainCell(type) == Cell(type, Plain(type))

FieldCells(field, n) ==
  IF field.vector
    THEN LET each == Repeated(field.of, n)
         IN  <<Cell("count", <<n>>)>> \o [i \in DOMAIN each |-> PlainCell(each[i])]
    ELSE <<PlainCell(field.of[1])>>

PlainCells(fields, n) == FlattenSeq([i \in DOMAIN fields |-> FieldCells(fields[i], n)])

Init ==
  /\ shape \in Records
  /\ \E n \in 0..MaxElements :
       LET plain == PlainCells(shape, n)
       IN  cells \in {plain} \cup
             UNION {{[plain EXCEPT ![i].val = v] : v \in ToSet(Chosen(plain[i].type))}
                      : i \in {j \in DOMAIN plain : plain[j].type # "count"}}
  /\ phase = "write"
  /\ oa = [len |-> InitialLength, off |-> 0, bytes |-> <<>>]
  /\ left = Len(cells)
  /\ ia = [len |-> 0, off |-> 0, bytes |-> <<>>]
  /\ todo = <<>> /\ rc = "ok" /\ got = <<>> /\ freed = {}

Next ==
  \/ SerializeInt \/ SerializeLong \/ SerializeBool
  \/ SerializeBuffer \/ SerializeString \/ oa_start_vector
  \/ Travel
  \/ ia_deserialize_int \/ ia_deserialize_long \/ ia_deserialize_bool
  \/ ia_deserialize_buffer \/ ia_deserialize_string
  \/ ia_start_vector \/ ia_end_vector \/ Skip
  \/ EndRead \/ Deallocate
  \/ phase = "done" /\ UNCHANGED vars

Spec == Init /\ [][Next]_vars

-------------------------------------------------------------------------------
(* Properties                                                                  *)

TypeOK ==
  /\ phase \in {"write", "read", "free", "done"}
  /\ oa.len \in Nat /\ oa.off = Len(oa.bytes)
  /\ ia.len = Len(ia.bytes) /\ ia.off \in Nat
  /\ left \in 0..Len(cells)
  /\ rc \in {"ok", "E2BIG", "EINVAL", "ENOMEM"}
  /\ freed \subseteq DOMAIN got

(* Neither archive is ever used past its end: the room is made before each     *)
(* copy, whatever the size the buffer had, and the reader checks what is left  *)
(* also when it has lost its place in the bytes.                               *)
StaysInside ==
  /\ TypeOK
  /\ oa.off <= oa.len
  /\ ia.off <= ia.len

Whole       == ia.len = oa.off
NullStrings == {i \in DOMAIN cells : cells[i].type = "string" /\ cells[i].val = Null}
HasVector   == \E i \in DOMAIN shape : shape[i].vector
Normal(c)   == IF c.type = "bool" /\ c.val # <<0>> THEN <<1>> ELSE c.val
Ended       == phase = "done"

(* What was written is what is read, to the last byte, for every record: the   *)
(* two generated functions agree and so do the primitives, null buffers,       *)
(* negative numbers and empty vectors included.                                *)
RoundTrip ==
  Ended /\ Whole /\ NullStrings = {} =>
    /\ rc = "ok"
    /\ ia.off = ia.len
    /\ [i \in DOMAIN got |-> got[i].val] = [i \in DOMAIN cells |-> Normal(cells[i])]

BytesOf(c) == CASE c.type \in {"int", "count"} -> 4
                [] c.type = "long" -> 8
                [] c.type = "bool" -> 1
                [] OTHER           -> IF c.val = Null THEN 4 ELSE 4 + Len(c.val)

(* The bytes of the first i cells.                                             *)
WireLength[i \in 0..Len(cells)] ==
  IF i = 0 THEN 0 ELSE WireLength[i - 1] + BytesOf(cells[i])

(* The fields after the last vector, a cell each.                              *)
AfterVectors ==
  IF HasVector THEN Len(shape) - (CHOOSE i \in DOMAIN shape :
                        /\ shape[i].vector
                        /\ \A j \in DOMAIN shape : shape[j].vector => j <= i)
               ELSE Len(cells)

(* A record without vectors that is reported as read is the one written: a     *)
(* null string, which is written as a length of -1, does not get through, nor  *)
(* does a frame that lost its end.  With vectors the loss is reported when the *)
(* cut is in the fields after the last of them; before that the end of the     *)
(* vector overwrites the failure, and the record is reported as read.          *)
OkMeansWhole ==
  /\ Ended /\ ~HasVector => (rc = "ok" <=> Whole /\ NullStrings = {})
  /\ Ended /\ ~Whole /\ NullStrings = {}
     /\ ia.len >= WireLength[Len(cells) - AfterVectors]
       => rc = "E2BIG"

(* Freeing a record that was reported as read gives back exactly what reading  *)
(* allocated, and touches no pointer that was never assigned: also after a     *)
(* vector hid a failure, when some of its elements were never reached.         *)
FreesWhatItOwns ==
  Ended /\ rc = "ok" => freed = {i \in DOMAIN got : got[i].mine}
===============================================================================
