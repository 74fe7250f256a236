----------------------------- MODULE RecordIOProofs -----------------------------
(* For any first size of the buffer, any record and any cut: no archive is     *)
(* used past its end, what was written is what is read, what is reported as    *)
(* read was there, and what was allocated is freed.  The theorems are about    *)
(* Spec, and about AnySpec, which begins with any record whatever.             *)
EXTENDS RecordIO, SequenceTheorems, WellFoundedInduction, TLAPS

-------------------------------------------------------------------------------
(* Induction over sets of numbers, and the recursive functions of the model    *)

LEMMA LessIsWellFounded == IsWellFoundedOn({p \in Nat \X Nat : p[1] < p[2]}, Nat)
BY NatLessThanWellFounded DEF OpToRel

LEMMA LeastNumber ==
  ASSUME NEW T \in SUBSET Nat, T # {}
  PROVE  \E x \in T : \A y \in T : x <= y
<1> DEFINE less == {p \in Nat \X Nat : p[1] < p[2]}
<1>1. PICK x \in T : \A y \in T : <<y, x>> \notin less
  <2> HIDE DEF less
  <2> QED BY LessIsWellFounded, WFMin DEF less
<1>2. ASSUME NEW y \in T PROVE x <= y
  <2>1. x \in Nat /\ y \in Nat
    OBVIOUS
  <2>2. y < x => <<y, x>> \in less
    BY <2>1
  <2> HIDE DEF less
  <2>3. ~(y < x)
    BY <1>1, <2>2
  <2> QED BY <2>1, <2>3
<1> QED BY <1>2

LEMMA Induction ==
  ASSUME NEW S, 0 \in S, \A n \in Nat : n \in S => n + 1 \in S
  PROVE  Nat \subseteq S
<1> SUFFICES ASSUME Nat \ S # {} PROVE FALSE
  OBVIOUS
<1>1. PICK x \in Nat \ S : \A y \in Nat \ S : x <= y
  BY LeastNumber
<1>2. x # 0 /\ x - 1 \in Nat
  BY <1>1
<1>3. x - 1 \in S
  BY <1>1, <1>2
<1>4. (x - 1) + 1 \in S
  BY <1>2, <1>3
<1> QED BY <1>1, <1>4

(* A sequence of values, each made of the one before, exists.                  *)
Chain(f, D, d0, step) ==
  f \in [Nat -> D] /\ f[0] = d0 /\ \A i \in Nat : f[i + 1] = step[<<i, f[i]>>]

LEMMA Recursion ==
  ASSUME NEW D, NEW d0 \in D, NEW step, \A i \in Nat : \A d \in D : step[<<i, d>>] \in D
  PROVE  \E f : Chain(f, D, d0, step)
<1> DEFINE Good(n, f) == f[0] = d0 /\ \A i \in 0..(n - 1) : f[i + 1] = step[<<i, f[i]>>]
           S == {n \in Nat : \E f \in [0..n -> D] : Good(n, f)}
<1>1. 0 \in S
  <2>1. [i \in 0..0 |-> d0] \in [0..0 -> D] /\ Good(0, [i \in 0..0 |-> d0])
    OBVIOUS
  <2> QED BY <2>1
<1>2. ASSUME NEW n \in Nat, n \in S PROVE n + 1 \in S
  <2>1. PICK f \in [0..n -> D] : Good(n, f)
    BY <1>2
  <2> DEFINE g == [i \in 0..(n + 1) |-> IF i = n + 1 THEN step[<<n, f[n]>>] ELSE f[i]]
  <2>2. g \in [0..(n + 1) -> D]
    <3>1. n + 1 \in Nat /\ f[n] \in D
      OBVIOUS
    <3>2. ASSUME NEW i \in 0..(n + 1) PROVE g[i] \in D
      BY <3>1
    <3> QED BY <3>2
  <2>3. g[0] = d0
    BY <2>1
  <2>4. ASSUME NEW i \in 0..n PROVE g[i + 1] = step[<<i, g[i]>>]
    <3>1. g[i] = f[i]
      OBVIOUS
    <3>2. CASE i = n
      <4>1. g[i + 1] = step[<<n, f[n]>>]
        BY <3>2
      <4> QED BY <3>1, <3>2, <4>1
    <3>3. CASE i # n
      <4>1. i \in 0..(n - 1) /\ i + 1 # n + 1 /\ i + 1 \in 0..(n + 1)
        BY <3>3
      <4>2. g[i + 1] = f[i + 1]
        BY <4>1
      <4>3. f[i + 1] = step[<<i, f[i]>>]
        BY <2>1, <4>1
      <4> QED BY <3>1, <4>2, <4>3
    <3> QED BY <3>2, <3>3
  <2>5. (n + 1) - 1 = n
    OBVIOUS
  <2> HIDE DEF g
  <2>6. Good(n + 1, g)
    BY <2>3, <2>4, <2>5
  <2> HIDE DEF Good
  <2> QED BY <2>2, <2>6
<1>3. Nat \subseteq S
  <2> HIDE DEF S
  <2> QED BY <1>1, <1>2, Induction
<1>4. ASSUME NEW n \in Nat PROVE \E f \in [0..n -> D] : Good(n, f)
  BY <1>3
<1> DEFINE part == [n \in Nat |-> CHOOSE f \in [0..n -> D] : Good(n, f)]
<1>5. ASSUME NEW n \in Nat PROVE part[n] \in [0..n -> D] /\ Good(n, part[n])
  <2> HIDE DEF Good
  <2> QED BY <1>4
<1> HIDE DEF part, S
<1>6. ASSUME NEW n \in Nat PROVE part[n + 1][n] = part[n][n]
  <2> DEFINE T == {i \in Nat : i <= n => part[n + 1][i] = part[n][i]}
  <2>1. Good(n, part[n]) /\ Good(n + 1, part[n + 1])
    BY <1>5
  <2>2. 0 \in T
    BY <2>1
  <2>3. ASSUME NEW i \in Nat, i \in T PROVE i + 1 \in T
    <3> SUFFICES ASSUME i + 1 <= n PROVE part[n + 1][i + 1] = part[n][i + 1]
      OBVIOUS
    <3>1. i \in 0..(n - 1) /\ i \in 0..((n + 1) - 1) /\ i <= n
      OBVIOUS
    <3>2. part[n + 1][i] = part[n][i]
      BY <2>3, <3>1
    <3>3. part[n + 1][i + 1] = step[<<i, part[n + 1][i]>>]
      BY <2>1, <3>1
    <3>4. part[n][i + 1] = step[<<i, part[n][i]>>]
      BY <2>1, <3>1
    <3> QED BY <3>2, <3>3, <3>4
  <2>4. Nat \subseteq T
    <3> HIDE DEF T
    <3> QED BY <2>2, <2>3, Induction
  <2> QED BY <2>4
<1> DEFINE f == [n \in Nat |-> part[n][n]]
<1>7. ASSUME NEW n \in Nat PROVE f[n] \in D
  <2>1. part[n] \in [0..n -> D] /\ n \in 0..n
    BY <1>5
  <2> QED BY <2>1
<1>8. f[0] = d0
  BY <1>5
<1>9. ASSUME NEW n \in Nat PROVE f[n + 1] = step[<<n, f[n]>>]
  <2>1. f[n + 1] = part[n + 1][n + 1] /\ f[n] = part[n][n]
    OBVIOUS
  <2>2. n \in 0..((n + 1) - 1)
    OBVIOUS
  <2>3. part[n + 1][n + 1] = step[<<n, part[n + 1][n]>>]
    BY <1>5, <2>2
  <2> QED BY <1>6, <2>1, <2>3
<1>10. Chain(f, D, d0, step)
  <2>1. f \in [Nat -> D]
    BY <1>7
  <2> HIDE DEF f
  <2> QED BY <1>8, <1>9, <2>1 DEF Chain
<1> QED BY <1>10

-------------------------------------------------------------------------------
(* The output buffer                                                           *)

(* The function resize_buffer counts with: its length after k doublings.       *)
Doubled(len) == CHOOSE d : d = [k \in Nat |-> IF k = 0 THEN len ELSE 2 * d[k - 1]]

LEMMA DoubledIs ==
  ASSUME NEW len \in Nat, len >= 1
  PROVE  \A k \in Nat : Doubled(len)[k] \in Nat /\ Doubled(len)[k] > k
<1> DEFINE step == [p \in Nat \X Nat |-> 2 * p[2]]
           Is(d) == d = [k \in Nat |-> IF k = 0 THEN len ELSE 2 * d[k - 1]]
           d == Doubled(len)
<1>1. ASSUME NEW i \in Nat, NEW n \in Nat PROVE step[<<i, n>>] = 2 * n
  <2>1. <<i, n>> \in Nat \X Nat /\ <<i, n>>[2] = n
    OBVIOUS
  <2> QED BY <2>1
<1> HIDE DEF step
<1>2. \A i \in Nat : \A n \in Nat : step[<<i, n>>] \in Nat
  <2> SUFFICES ASSUME NEW i \in Nat, NEW n \in Nat PROVE step[<<i, n>>] \in Nat
    OBVIOUS
  <2>1. step[<<i, n>>] = 2 * n
    BY <1>1
  <2> QED BY <2>1
<1>3. PICK f : Chain(f, Nat, len, step)
  BY <1>2, Recursion
<1>4. Is(f)
  <2>1. ASSUME NEW k \in Nat PROVE f[k] = IF k = 0 THEN len ELSE 2 * f[k - 1]
    <3>1. CASE k = 0
      BY <1>3, <3>1 DEF Chain
    <3>2. CASE k # 0
      <4>1. k - 1 \in Nat /\ (k - 1) + 1 = k
        BY <3>2
      <4>2. f[(k - 1) + 1] = step[<<k - 1, f[k - 1]>>] /\ f[k - 1] \in Nat
        BY <1>3, <4>1 DEF Chain
      <4>3. step[<<k - 1, f[k - 1]>>] = 2 * f[k - 1]
        BY <1>1, <4>1, <4>2
      <4> QED BY <3>2, <4>1, <4>2, <4>3
    <3> QED BY <3>1, <3>2
  <2>2. f = [k \in Nat |-> f[k]]
    BY <1>3 DEF Chain
  <2> QED BY <2>1, <2>2
<1>5. Is(d)
  <2> HIDE DEF Is
  <2>1. d = CHOOSE e : Is(e)
    BY DEF Doubled, Is
  <2> HIDE DEF d
  <2> QED BY <1>4, <2>1
<1> HIDE DEF d
<1>6. \A k \in Nat : d[k] = IF k = 0 THEN len ELSE 2 * d[k - 1]
  BY <1>5
<1> DEFINE S == {k \in Nat : d[k] \in Nat /\ d[k] > k}
<1>7. 0 \in S
  BY <1>6
<1>8. ASSUME NEW k \in Nat, k \in S PROVE k + 1 \in S
  <2>1. d[k + 1] = 2 * d[k]
    BY <1>6
  <2> QED BY <1>8, <2>1
<1>9. Nat \subseteq S
  <2> HIDE DEF S
  <2> QED BY <1>7, <1>8, Induction
<1> QED BY <1>9 DEF d

(* The loop ends with room for what was asked for, whatever the sizes.         *)
LEMMA ResizeMakesRoom ==
  ASSUME NEW len \in Nat, len >= 1, NEW newlen \in Nat
  PROVE  resize_buffer(len, newlen) \in Nat /\ resize_buffer(len, newlen) >= newlen
<1> DEFINE d == Doubled(len)
           Fits(k) == d[k] >= newlen /\ \A j \in 0..(k - 1) : d[j] < newlen
<1>1. \A k \in Nat : d[k] \in Nat /\ d[k] > k
  BY DoubledIs
<1>2. resize_buffer(len, newlen) = d[CHOOSE k \in 0..newlen : Fits(k)]
  BY DEF resize_buffer, Doubled
<1> HIDE DEF d
<1> DEFINE T == {k \in Nat : d[k] >= newlen}
<1>3. newlen \in T
  BY <1>1
<1>4. PICK k \in T : \A j \in T : k <= j
  <2>1. T \in SUBSET Nat /\ T # {}
    BY <1>3
  <2> HIDE DEF T
  <2> QED BY <2>1, LeastNumber
<1>5. k \in 0..newlen
  BY <1>3, <1>4
<1>6. Fits(k)
  <2>1. d[k] >= newlen
    BY <1>4
  <2>2. ASSUME NEW j \in 0..(k - 1) PROVE d[j] < newlen
    <3>1. j \in Nat /\ ~(k <= j)
      BY <1>5
    <3>2. j \notin T
      BY <1>4, <3>1
    <3> QED BY <1>1, <3>1, <3>2
  <2> QED BY <2>1, <2>2
<1> DEFINE c == CHOOSE j \in 0..newlen : Fits(j)
<1>7. c \in 0..newlen /\ Fits(c)
  <2> HIDE DEF Fits
  <2> QED BY <1>5, <1>6
<1> QED BY <1>1, <1>2, <1>7

LEMMA AppendIsInside ==
  ASSUME NEW a \in [len : Nat, off : Nat, bytes : Seq(Byte)],
         a.len >= 1, a.off <= a.len, a.off = Len(a.bytes),
         NEW b \in Seq(Byte)
  PROVE  /\ AppendBytes(a, b) \in [len : Nat, off : Nat, bytes : Seq(Byte)]
         /\ AppendBytes(a, b).off = a.off + Len(b)
         /\ AppendBytes(a, b).bytes = a.bytes \o b
         /\ AppendBytes(a, b).off = Len(AppendBytes(a, b).bytes)
         /\ AppendBytes(a, b).off <= AppendBytes(a, b).len
         /\ AppendBytes(a, b).len >= 1
<1> DEFINE z == AppendBytes(a, b)
<1>1. a.len \in Nat /\ a.off \in Nat /\ a.bytes \in Seq(Byte) /\ Len(b) \in Nat
  OBVIOUS
<1>2. /\ z.len = IF a.len - a.off < Len(b) THEN resize_buffer(a.len, a.len + Len(b)) ELSE a.len
      /\ z.off = a.off + Len(b) /\ z.bytes = a.bytes \o b
      /\ z = [len |-> z.len, off |-> z.off, bytes |-> z.bytes]
  BY DEF AppendBytes
<1> HIDE DEF z
<1>3. a.bytes \o b \in Seq(Byte) /\ Len(a.bytes \o b) = Len(a.bytes) + Len(b)
  BY <1>1, ConcatProperties
<1>4. /\ resize_buffer(a.len, a.len + Len(b)) \in Nat
      /\ resize_buffer(a.len, a.len + Len(b)) >= a.len + Len(b)
  <2>1. a.len + Len(b) \in Nat
    BY <1>1
  <2> QED BY <1>1, <2>1, ResizeMakesRoom
<1>5. z.len \in Nat /\ z.off <= z.len /\ z.len >= 1
  BY <1>1, <1>2, <1>4
<1>6. z \in [len : Nat, off : Nat, bytes : Seq(Byte)]
  <2>1. z.off \in Nat /\ z.bytes \in Seq(Byte)
    BY <1>1, <1>2, <1>3
  <2> QED BY <1>2, <1>5, <2>1
<1> QED BY <1>1, <1>2, <1>3, <1>5, <1>6 DEF z

-------------------------------------------------------------------------------
(* Types                                                                       *)

Fields == {AnInt, ALong, ABool, ABuffer, AString, String_vector, ACL_vector, Id_vector, Txn_vector}

IsField(f) == /\ f.vector \in BOOLEAN
              /\ f.of \in Seq(Primitives) /\ Len(f.of) >= 1

AllValues == Seq(Int) \cup {Null}

(* A cell of a record: a primitive, or the count before the elements of a      *)
(* vector.                                                                     *)
IsCell(c) ==
  /\ c.type = "count" => c.val \in [1..1 -> Int32] /\ c.val[1] >= 0
  /\ c.type # "count" => c.val \in Values(c.type) /\ (c.val # Null => Len(c.val) \in Int32)

Cells == {c \in [type : Primitives \cup {"count"}, val : AllValues] : IsCell(c)}

Buffers == [len : Nat, off : Nat, bytes : Seq(Byte)]


LEMMA RecordsAreFields == Records \subseteq Seq(Fields)
<1> DEFINE S == Seq(Fields)
<1>1. /\ AnInt \in Fields /\ ALong \in Fields /\ ABool \in Fields /\ ABuffer \in Fields
      /\ AString \in Fields /\ String_vector \in Fields /\ ACL_vector \in Fields
      /\ Id_vector \in Fields /\ Txn_vector \in Fields
  BY DEF Fields
<1>2. ASSUME NEW s \in S, NEW t \in S PROVE s \o t \in S
  BY ConcatProperties
<1>3. /\ \A a \in Fields : <<a>> \in S
      /\ \A a, b \in Fields : <<a, b>> \in S
      /\ \A a, b, c \in Fields : <<a, b, c>> \in S
      /\ \A a, b, c, d \in Fields : <<a, b, c, d>> \in S
      /\ \A a, b, c, d, e \in Fields : <<a, b, c, d, e>> \in S
  OBVIOUS
<1>4. /\ Id \in S /\ RequestHeader \in S /\ MultiHeader \in S /\ AuthPacket \in S
      /\ ReplyHeader \in S /\ GetDataRequest \in S /\ SetDataRequest \in S
      /\ GetSASLRequest \in S /\ SetSASLRequest \in S /\ SetSASLResponse \in S
  BY <1>1, <1>3 DEF Id, RequestHeader, MultiHeader, AuthPacket, ReplyHeader, GetDataRequest,
                    SetDataRequest, GetSASLRequest, SetSASLRequest, SetSASLResponse
<1>5. /\ CreateRequest \in S /\ DeleteRequest \in S /\ GetChildrenRequest \in S
      /\ GetChildren2Request \in S /\ CheckVersionRequest \in S /\ GetMaxChildrenRequest \in S
      /\ GetMaxChildrenResponse \in S /\ SetMaxChildrenRequest \in S /\ SyncRequest \in S
      /\ SyncResponse \in S /\ GetACLRequest \in S /\ SetACLRequest \in S
  BY <1>1, <1>3 DEF CreateRequest, DeleteRequest, GetChildrenRequest, GetChildren2Request,
                    CheckVersionRequest, GetMaxChildrenRequest, GetMaxChildrenResponse,
                    SetMaxChildrenRequest, SyncRequest, SyncResponse, GetACLRequest, SetACLRequest
<1>6. /\ WatcherEvent \in S /\ ErrorResponse \in S /\ CreateResponse \in S /\ ExistsRequest \in S
      /\ GetChildrenResponse \in S /\ LearnerInfo \in S /\ QuorumPacket \in S /\ FileHeader \in S
      /\ TxnHeader \in S /\ CreateTxnV0 \in S /\ CreateTxn \in S /\ DeleteTxn \in S
  BY <1>1, <1>3 DEF WatcherEvent, ErrorResponse, CreateResponse, ExistsRequest,
                    GetChildrenResponse, LearnerInfo, QuorumPacket, FileHeader, TxnHeader,
                    CreateTxnV0, CreateTxn, DeleteTxn
<1>7. /\ SetDataTxn \in S /\ CheckVersionTxn \in S /\ SetACLTxn \in S /\ SetMaxChildrenTxn \in S
      /\ CreateSessionTxn \in S /\ ErrorTxn \in S /\ Txn \in S /\ MultiTxn \in S
      /\ ConnectRequest \in S /\ ConnectResponse \in S /\ SetWatches \in S
  BY <1>1, <1>3 DEF SetDataTxn, CheckVersionTxn, SetACLTxn, SetMaxChildrenTxn, CreateSessionTxn,
                    ErrorTxn, Txn, MultiTxn, ConnectRequest, ConnectResponse, SetWatches
<1>8. Stat \in S /\ StatPersisted \in S /\ StatPersistedV1 \in S
  BY <1>1 DEF Stat, StatPersisted, StatPersistedV1
<1>9. ACL \in S
  BY <1>1, <1>2, <1>3, <1>4 DEF ACL
<1>10. GetDataResponse \in S /\ GetChildren2Response \in S /\ GetACLResponse \in S
  BY <1>1, <1>2, <1>3, <1>8 DEF GetDataResponse, GetChildren2Response, GetACLResponse
<1>11. SetDataResponse \in S /\ SetACLResponse \in S /\ ExistsResponse \in S
  BY <1>8 DEF SetDataResponse, SetACLResponse, ExistsResponse
<1> HIDE DEF S
<1>12. Records \subseteq S
  BY <1>4, <1>5, <1>6, <1>7, <1>8, <1>9, <1>10, <1>11 DEF Records
<1> QED BY <1>12 DEF S

LEMMA FieldsAreSound == \A f \in Fields : IsField(f)
<1>1. ASSUME NEW p \in Primitives
      PROVE  IsField(Field(p)) /\ Field(p).of[1] \in Primitives
  <2>1. <<p>> \in Seq(Primitives) /\ Len(<<p>>) = 1 /\ <<p>>[1] = p
    OBVIOUS
  <2> QED BY <2>1 DEF IsField, Field
<1> DEFINE Simple == {f \in {AnInt, ALong, ABool, ABuffer, AString} : f.of[1] \in Primitives}
<1>2. /\ IsField(AnInt) /\ IsField(ALong) /\ IsField(ABool) /\ IsField(ABuffer) /\ IsField(AString)
      /\ AnInt \in Simple /\ ALong \in Simple /\ ABool \in Simple /\ ABuffer \in Simple
      /\ AString \in Simple
  <2>1. /\ "int" \in Primitives /\ "long" \in Primitives /\ "bool" \in Primitives
        /\ "buffer" \in Primitives /\ "string" \in Primitives
    BY DEF Primitives
  <2> QED BY <1>1, <2>1 DEF AnInt, ALong, ABool, ABuffer, AString
<1>3. ASSUME NEW r \in Seq(Simple), Len(r) >= 1 PROVE IsField(VectorOf(r))
  <2>1. DOMAIN r = 1..Len(r) /\ Len(r) \in Nat /\ \A i \in 1..Len(r) : r[i] \in Simple
    OBVIOUS
  <2>2. \A i \in 1..Len(r) : r[i].of[1] \in Primitives
    BY <2>1
  <2> DEFINE of == [i \in DOMAIN r |-> r[i].of[1]]
  <2>3. of \in Seq(Primitives) /\ Len(of) = Len(r)
    BY <2>1, <2>2
  <2>4. VectorOf(r).vector = TRUE /\ VectorOf(r).of = of
    BY DEF VectorOf
  <2> HIDE DEF of
  <2> QED BY <1>3, <2>3, <2>4 DEF IsField
<1> HIDE DEF Simple
<1>4. \A a, b \in Simple : <<a>> \in Seq(Simple) /\ <<a, b>> \in Seq(Simple)
                           /\ Len(<<a>>) >= 1 /\ Len(<<a, b>>) >= 1
  OBVIOUS
<1>5. <<AnInt>> \o <<AString, AString>> \in Seq(Simple)
      /\ Len(<<AnInt>> \o <<AString, AString>>) >= 1
  BY <1>2, <1>4
<1>6. IsField(String_vector) /\ IsField(ACL_vector) /\ IsField(Id_vector) /\ IsField(Txn_vector)
  BY <1>2, <1>3, <1>4, <1>5 DEF String_vector, ACL_vector, Id_vector, Txn_vector, ACL, Id, Txn
<1> QED BY <1>2, <1>6 DEF Fields

-------------------------------------------------------------------------------
(* FlattenSeq puts each part behind the ones before it                         *)

(* The recursive function of FlattenSeq: the first i elements of s, joined.    *)
Joined(s) == CHOOSE h : h = [i \in 1..Len(s) |-> IF i = 1 THEN s[i] ELSE h[i - 1] \o s[i]]

LEMMA JoinedIs ==
  ASSUME NEW T, NEW s \in Seq(Seq(T)), s # <<>>
  PROVE  /\ Joined(s) \in [1..Len(s) -> Seq(T)] /\ Joined(s)[1] = s[1]
         /\ \A i \in 1..(Len(s) - 1) : Joined(s)[i + 1] = Joined(s)[i] \o s[i + 1]
<1> DEFINE D == Seq(T)
           n == Len(s)
           step == [p \in Nat \X D |-> IF p[1] + 2 \in 1..n THEN p[2] \o s[p[1] + 2] ELSE p[2]]
           Is(h) == h = [i \in 1..n |-> IF i = 1 THEN s[i] ELSE h[i - 1] \o s[i]]
<1>1. n \in Nat /\ n >= 1 /\ \A i \in 1..n : s[i] \in D
  OBVIOUS
<1>2. ASSUME NEW i \in Nat, NEW d \in D
      PROVE  step[<<i, d>>] = IF i + 2 \in 1..n THEN d \o s[i + 2] ELSE d
  <2>1. <<i, d>> \in Nat \X D /\ <<i, d>>[1] = i /\ <<i, d>>[2] = d
    OBVIOUS
  <2> QED BY <2>1
<1> HIDE DEF step, n
<1>3. \A i \in Nat : \A d \in D : step[<<i, d>>] \in D
  <2> SUFFICES ASSUME NEW i \in Nat, NEW d \in D PROVE step[<<i, d>>] \in D
    OBVIOUS
  <2>1. i + 2 \in 1..n => d \o s[i + 2] \in D
    BY <1>1, ConcatProperties
  <2> QED BY <1>2, <2>1
<1>4. s[1] \in D
  BY <1>1
<1> HIDE DEF D
<1>5. PICK f : Chain(f, D, s[1], step)
  BY <1>3, <1>4, Recursion
<1> DEFINE g == [i \in 1..n |-> f[i - 1]]
<1>6. Is(g)
  <2>1. ASSUME NEW i \in 1..n PROVE g[i] = IF i = 1 THEN s[i] ELSE g[i - 1] \o s[i]
    <3>1. CASE i = 1
      BY <1>5, <3>1 DEF Chain
    <3>2. CASE i # 1
      <4>1. i - 2 \in Nat /\ (i - 2) + 1 = i - 1 /\ (i - 2) + 2 = i /\ i - 1 \in 1..n
            /\ (i - 1) - 1 = i - 2
        BY <1>1, <3>2
      <4>2. f[(i - 2) + 1] = step[<<i - 2, f[i - 2]>>] /\ f[i - 2] \in D
        BY <1>5, <4>1 DEF Chain
      <4>3. step[<<i - 2, f[i - 2]>>] = f[i - 2] \o s[i]
        BY <1>2, <4>1, <4>2
      <4>4. g[i] = f[i - 1] /\ g[i - 1] = f[i - 2]
        BY <4>1
      <4> QED BY <3>2, <4>1, <4>2, <4>3, <4>4
    <3> QED BY <3>1, <3>2
  <2> QED BY <2>1
<1> DEFINE h == CHOOSE e : Is(e)
<1>7. Is(h)
  <2> HIDE DEF Is, g
  <2> QED BY <1>6
<1>8. h = Joined(s)
  BY DEF Joined, n
<1> HIDE DEF h, g
<1>9. \A i \in 1..n : h[i] = IF i = 1 THEN s[i] ELSE h[i - 1] \o s[i]
  BY <1>7
<1>10. h[1] = s[1] /\ \A i \in 1..(n - 1) : h[i + 1] = h[i] \o s[i + 1]
  <2>1. h[1] = s[1]
    BY <1>1, <1>9
  <2>2. ASSUME NEW i \in 1..(n - 1) PROVE h[i + 1] = h[i] \o s[i + 1]
    <3>1. i + 1 \in 1..n /\ i + 1 # 1 /\ (i + 1) - 1 = i
      BY <1>1
    <3> QED BY <1>9, <3>1
  <2> QED BY <2>1, <2>2
<1>11. ASSUME NEW i \in 1..n PROVE h[i] \in D
  <2> DEFINE S == {j \in Nat : j + 1 \in 1..n => h[j + 1] \in D}
  <2>1. 0 \in S
    BY <1>4, <1>10
  <2>2. ASSUME NEW j \in Nat, j \in S PROVE j + 1 \in S
    <3> SUFFICES ASSUME (j + 1) + 1 \in 1..n PROVE h[(j + 1) + 1] \in D
      OBVIOUS
    <3>1. j + 1 \in 1..(n - 1) /\ j + 1 \in 1..n
      BY <1>1
    <3>2. h[j + 1] \in D /\ s[(j + 1) + 1] \in D
      BY <1>1, <2>2, <3>1
    <3>3. h[j + 1] \o s[(j + 1) + 1] \in D
      BY <3>2, ConcatProperties DEF D
    <3> QED BY <1>10, <3>1, <3>3
  <2>3. Nat \subseteq S
    <3> HIDE DEF S
    <3> QED BY <2>1, <2>2, Induction
  <2>4. i - 1 \in Nat /\ (i - 1) + 1 = i
    BY <1>1
  <2>5. i - 1 \in S
    BY <2>3, <2>4
  <2> QED BY <2>4, <2>5
<1>12. h \in [1..n -> D]
  <2>1. h = [i \in 1..n |-> h[i]]
    BY <1>7
  <2> QED BY <1>11, <2>1
<1> QED BY <1>8, <1>10, <1>12 DEF D, n

(* Part p of s begins behind at[p] elements of the whole.                      *)
IsPlaced(at, s, whole) ==
  /\ at \in [1..(Len(s) + 1) -> Nat] /\ at[1] = 0 /\ at[Len(s) + 1] = Len(whole)
  /\ \A p \in 1..Len(s) :
       /\ at[p + 1] = at[p] + Len(s[p])
       /\ \A j \in 1..Len(s[p]) : whole[at[p] + j] = s[p][j]

LEMMA FlattenPlaces ==
  ASSUME NEW T, NEW s \in Seq(Seq(T))
  PROVE  FlattenSeq(s) \in Seq(T) /\ \E at : IsPlaced(at, s, FlattenSeq(s))
<1>1. CASE s = <<>>
  <2>1. FlattenSeq(s) = <<>> /\ Len(s) = 0
    BY <1>1 DEF FlattenSeq
  <2>2. IsPlaced([p \in 1..1 |-> 0], s, <<>>)
    BY <2>1 DEF IsPlaced
  <2> QED BY <2>1, <2>2
<1>2. CASE s # <<>>
  <2> DEFINE n == Len(s)
             h == Joined(s)
             at == [p \in 1..(n + 1) |-> IF p = 1 THEN 0 ELSE Len(h[p - 1])]
             P(i) == \A p \in 1..i : \A j \in 1..Len(s[p]) :
                       at[p] + j <= Len(h[i]) /\ h[i][at[p] + j] = s[p][j]
             S == {i \in Nat : i + 1 <= n => P(i + 1)}
  <2>1. n \in Nat /\ n >= 1 /\ \A i \in 1..n : s[i] \in Seq(T) /\ Len(s[i]) \in Nat
    BY <1>2
  <2>2. /\ h \in [1..n -> Seq(T)] /\ h[1] = s[1]
        /\ \A i \in 1..(n - 1) : h[i + 1] = h[i] \o s[i + 1]
    BY <1>2, JoinedIs
  <2>3. FlattenSeq(s) = h[n]
    BY <2>1 DEF FlattenSeq, Joined
  <2> HIDE DEF h, n
  <2>4. \A i \in 1..n : h[i] \in Seq(T) /\ Len(h[i]) \in Nat
    BY <2>2
  <2>5. /\ at \in [1..(n + 1) -> Nat] /\ at[1] = 0
        /\ \A i \in 1..n : at[i + 1] = Len(h[i])
    <3>1. ASSUME NEW p \in 1..(n + 1), p # 1 PROVE p - 1 \in 1..n
      BY <2>1, <3>1
    <3>2. ASSUME NEW p \in 1..(n + 1) PROVE at[p] \in Nat
      BY <2>4, <3>1
    <3>3. \A i \in 1..n : i + 1 \in 1..(n + 1) /\ i + 1 # 1 /\ (i + 1) - 1 = i /\ 1 \in 1..(n + 1)
      BY <2>1
    <3>4. at[1] = 0
      BY <2>1
    <3> QED BY <3>2, <3>3, <3>4
  <2> HIDE DEF at
  <2>6. ASSUME NEW p \in 1..n PROVE at[p + 1] = at[p] + Len(s[p])
    <3>1. CASE p = 1
      BY <2>1, <2>2, <2>5, <3>1
    <3>2. CASE p # 1
      <4>1. p - 1 \in 1..(n - 1) /\ (p - 1) + 1 = p /\ p - 1 \in 1..n
        BY <2>1, <3>2
      <4>2. h[p] = h[p - 1] \o s[p]
        BY <2>2, <4>1
      <4>3. Len(h[p]) = Len(h[p - 1]) + Len(s[p])
        BY <2>1, <2>4, <4>1, <4>2, ConcatProperties
      <4>4. at[p + 1] = Len(h[p]) /\ at[(p - 1) + 1] = Len(h[p - 1])
        BY <2>5, <4>1
      <4> QED BY <4>1, <4>3, <4>4
    <3> QED BY <3>1, <3>2
  <2>7. P(1)
    <3>1. ASSUME NEW p \in 1..1, NEW j \in 1..Len(s[p])
          PROVE  at[p] + j <= Len(h[1]) /\ h[1][at[p] + j] = s[p][j]
      <4>1. p = 1
        OBVIOUS
      <4>2. at[1] = 0 /\ h[1] = s[1] /\ Len(s[1]) \in Nat /\ j \in 1..Len(s[1])
        BY <2>1, <2>2, <2>5, <4>1
      <4>3. 0 + j = j /\ j <= Len(s[1])
        BY <4>2
      <4> QED BY <4>1, <4>2, <4>3
    <3> QED BY <3>1
  <2>8. ASSUME NEW i \in 1..(n - 1), P(i) PROVE P(i + 1)
    <3>1. i \in 1..n /\ i + 1 \in 1..n
      BY <2>1
    <3> DEFINE a == h[i]
               b == s[i + 1]
    <3>2. a \in Seq(T) /\ b \in Seq(T) /\ Len(a) \in Nat /\ Len(b) \in Nat
      BY <2>1, <2>4, <3>1
    <3>3. h[i + 1] = a \o b /\ at[i + 1] = Len(a)
      BY <2>2, <2>5, <3>1
    <3> HIDE DEF a, b
    <3>4. /\ Len(a \o b) = Len(a) + Len(b)
          /\ \A k \in 1..(Len(a) + Len(b)) :
               (a \o b)[k] = IF k <= Len(a) THEN a[k] ELSE b[k - Len(a)]
      BY <3>2, ConcatProperties
    <3>5. ASSUME NEW p \in 1..(i + 1), NEW j \in 1..Len(s[p])
          PROVE  at[p] + j <= Len(a \o b) /\ (a \o b)[at[p] + j] = s[p][j]
      <4>1. p \in 1..n /\ p \in 1..(n + 1)
        BY <2>1, <3>1
      <4>2. Len(s[p]) \in Nat /\ at[p] \in Nat /\ j \in Nat /\ j >= 1 /\ j <= Len(s[p])
        BY <2>1, <2>5, <4>1
      <4>3. CASE p = i + 1
        <5>1. s[p] = b /\ at[p] = Len(a)
          BY <3>3, <4>3 DEF b
        <5>2. j <= Len(b) /\ Len(a) + j \in 1..(Len(a) + Len(b)) /\ ~(Len(a) + j <= Len(a))
              /\ (Len(a) + j) - Len(a) = j
          BY <3>2, <4>2, <5>1
        <5>3. (a \o b)[Len(a) + j] = b[j]
          BY <3>4, <5>2
        <5> QED BY <3>4, <5>1, <5>2, <5>3
      <4>4. CASE p # i + 1
        <5>1. p \in 1..i
          BY <3>1, <4>4
        <5>2. at[p] + j <= Len(a) /\ a[at[p] + j] = s[p][j]
          BY <2>8, <5>1 DEF a
        <5>3. at[p] + j \in 1..(Len(a) + Len(b)) /\ at[p] + j <= Len(a) + Len(b)
          BY <3>2, <4>2, <5>2
        <5> QED BY <3>4, <5>2, <5>3
      <4> QED BY <4>3, <4>4
    <3>6. \A p \in 1..(i + 1) : \A j \in 1..Len(s[p]) :
            at[p] + j <= Len(h[i + 1]) /\ h[i + 1][at[p] + j] = s[p][j]
      BY <3>3, <3>5
    <3> QED BY <3>6
  <2> HIDE DEF P
  <2>9. 0 \in S
    BY <2>7
  <2>10. ASSUME NEW i \in Nat, i \in S PROVE i + 1 \in S
    <3> SUFFICES ASSUME (i + 1) + 1 <= n PROVE P((i + 1) + 1)
      OBVIOUS
    <3>1. i + 1 \in 1..(n - 1) /\ i + 1 <= n
      BY <2>1
    <3> QED BY <2>8, <2>10, <3>1
  <2>11. Nat \subseteq S
    <3> HIDE DEF S
    <3> QED BY <2>9, <2>10, Induction
  <2>12. n - 1 \in S /\ (n - 1) + 1 = n /\ n \in 1..n
    <3> HIDE DEF S
    <3>1. n - 1 \in Nat /\ (n - 1) + 1 = n /\ n \in 1..n
      BY <2>1
    <3> QED BY <2>11, <3>1
  <2>13. P(n)
    BY <2>1, <2>12
  <2>14. \A p \in 1..n : \A j \in 1..Len(s[p]) : h[n][at[p] + j] = s[p][j]
    BY <2>13 DEF P
  <2>15. IsPlaced(at, s, h[n])
    BY <2>5, <2>6, <2>12, <2>14 DEF IsPlaced, n
  <2>16. h[n] \in Seq(T)
    BY <2>4, <2>12
  <2> QED BY <2>3, <2>15, <2>16
<1> QED BY <1>1, <1>2

-------------------------------------------------------------------------------
(* The cells of a record: those of field p begin behind start[p] others        *)

Counts == {n \in Int32 : n >= 0}

(* Before field p there are start[p] cells; a vector has some number of        *)
(* elements after its count.                                                   *)
IsVectorAt(cs, from, to, record, n) ==
  /\ to = from + n * Len(record) + 1
  /\ cs[from + 1] = Cell("count", <<n>>)
  /\ \A j \in 1..(n * Len(record)) : cs[from + 1 + j].type = Repeated(record, n)[j]

IsFieldAt(cs, from, to, f) ==
  IF f.vector THEN \E n \in Counts : IsVectorAt(cs, from, to, f.of, n)
              ELSE to = from + 1 /\ cs[from + 1].type = f.of[1]

IsLayout(cs, start) ==
  /\ start \in [1..(Len(shape) + 1) -> Nat]
  /\ start[1] = 0 /\ start[Len(shape) + 1] = Len(cs)
  /\ \A p \in 1..Len(shape) : IsFieldAt(cs, start[p], start[p + 1], shape[p])

(* How many cells a field has when vectors have n elements.                    *)
Width(p, n) == IF shape[p].vector THEN n * Len(shape[p].of) + 1 ELSE 1

(* The layout when all vectors have n.                                         *)
IsEvenLayout(cs, start, n) ==
  /\ start \in [1..(Len(shape) + 1) -> Nat]
  /\ start[1] = 0 /\ start[Len(shape) + 1] = Len(cs)
  /\ \A p \in 1..Len(shape) :
       /\ start[p + 1] = start[p] + Width(p, n)
       /\ shape[p].vector =>
            /\ cs[start[p] + 1] = Cell("count", <<n>>)
            /\ \A j \in 1..(n * Len(shape[p].of)) :
                 cs[start[p] + 1 + j].type = Repeated(shape[p].of, n)[j]
       /\ ~shape[p].vector => cs[start[p] + 1].type = shape[p].of[1]

LEMMA Int32IsInt == Int32 \subseteq Int
BY DEF Int32

LEMMA ValuesAre ==
  ASSUME NEW p \in Primitives
  PROVE  /\ Chosen(p) \in Seq(Values(p)) /\ Chosen(p) # <<>>
         /\ \A v \in Values(p) : (v # Null => Len(v) \in Int32) => Cell(p, v) \in Cells
         /\ \A v \in ToSet(Chosen(p)) : Cell(p, v) \in Cells
         /\ PlainCell(p) \in Cells /\ PlainCell(p).type = p /\ p # "count"
<1>1. /\ Chosen(p) \in Seq(Values(p)) /\ Chosen(p) # <<>>
      /\ \A v \in ToSet(Chosen(p)) : v # Null => Len(v) \in Int32
  BY ChosenAssumption
<1>2. p # "count"
  BY DEF Primitives
<1>3. Values(p) \subseteq AllValues
  <2>1. [1..1 -> Int32] \subseteq Seq(Int) /\ [1..2 -> Int32] \subseteq Seq(Int)
    <3>1. Int32 \subseteq Int
      BY Int32IsInt
    <3>2. \A n \in Nat : [1..n -> Int] \subseteq Seq(Int)
      BY SeqDef
    <3>3. \A n \in Nat : [1..n -> Int32] \subseteq [1..n -> Int]
      BY <3>1
    <3> QED BY <3>2, <3>3
  <2>2. Seq(Byte) \subseteq Seq(Int)
    <3>1. Byte \subseteq Int
      BY DEF Byte
    <3>2. \A b \in Seq(Byte) : b \in Seq(Int)
      BY <3>1, SeqMonotonic
    <3> QED BY <3>2
  <2> QED BY <2>1, <2>2 DEF Values, AllValues
<1>4. ASSUME NEW v \in Values(p), v # Null => Len(v) \in Int32 PROVE Cell(p, v) \in Cells
  BY <1>2, <1>3, <1>4 DEF Cells, IsCell, Cell
<1>5. ToSet(Chosen(p)) \subseteq Values(p)
  BY <1>1 DEF ToSet
<1>6. Head(Chosen(p)) \in ToSet(Chosen(p))
  BY <1>1 DEF ToSet
<1>7. PlainCell(p) = Cell(p, Head(Chosen(p))) /\ PlainCell(p).type = p
  BY DEF PlainCell, Plain, Cell
<1> QED BY <1>1, <1>2, <1>4, <1>5, <1>6, <1>7

LEMMA RepeatedIs ==
  ASSUME NEW r \in Seq(Primitives), Len(r) >= 1, NEW n \in Int
  PROVE  /\ Repeated(r, n) \in Seq(Primitives)
         /\ n >= 0 => n * Len(r) \in Nat /\ n * Len(r) >= n /\ Len(Repeated(r, n)) = n * Len(r)
         /\ n < 0 => Len(Repeated(r, n)) = 0
<1>1. PICK k \in Nat : k = Len(r) /\ k >= 1
  OBVIOUS
<1>2. PICK m \in Int : m = n * k
  OBVIOUS
<1>3. n >= 0 => m \in Nat /\ m >= n
  BY <1>1, <1>2
<1>4. n < 0 => m < 0
  BY <1>1, <1>2
<1> DEFINE e(i) == r[((i - 1) % k) + 1]
<1>5. ASSUME NEW i \in 1..m PROVE e(i) \in Primitives
  <2>1. ((i - 1) % k) + 1 \in 1..k
    BY <1>1
  <2> QED BY <1>1, <2>1
<1>6. Repeated(r, n) = [i \in 1..m |-> e(i)]
  BY <1>1, <1>2 DEF Repeated
<1> HIDE DEF e
<1>7. CASE n >= 0
  <2>1. m \in Nat
    BY <1>3, <1>7
  <2>2. Repeated(r, n) \in Seq(Primitives) /\ Len(Repeated(r, n)) = m
    BY <1>5, <1>6, <2>1
  <2> QED BY <1>1, <1>2, <1>3, <1>7, <2>2
<1>8. CASE n < 0
  <2>1. 1..m = {} /\ 1..0 = {}
    BY <1>4, <1>8
  <2>2. Repeated(r, n) = [i \in 1..0 |-> e(i)]
    BY <1>6, <2>1
  <2>3. Repeated(r, n) \in Seq(Primitives) /\ Len(Repeated(r, n)) = 0
    BY <2>1, <2>2
  <2> QED BY <1>8, <2>3
<1> QED BY <1>7, <1>8

LEMMA FieldCellsAre ==
  ASSUME NEW f \in Fields, NEW n \in Int32, n >= 0
  PROVE  /\ FieldCells(f, n) \in Seq(Cells)
         /\ f.vector =>
              /\ Len(FieldCells(f, n)) = n * Len(f.of) + 1
              /\ n * Len(f.of) \in Nat
              /\ FieldCells(f, n)[1] = Cell("count", <<n>>)
              /\ \A j \in 1..(n * Len(f.of)) :
                   FieldCells(f, n)[1 + j].type = Repeated(f.of, n)[j]
         /\ ~f.vector =>
              Len(FieldCells(f, n)) = 1 /\ FieldCells(f, n)[1].type = f.of[1]
<1>1. f.vector \in BOOLEAN /\ f.of \in Seq(Primitives) /\ Len(f.of) >= 1
  BY FieldsAreSound DEF IsField
<1>2. CASE ~f.vector
  <2>1. FieldCells(f, n) = <<PlainCell(f.of[1])>> /\ f.of[1] \in Primitives
    BY <1>1, <1>2 DEF FieldCells
  <2>2. PlainCell(f.of[1]) \in Cells /\ PlainCell(f.of[1]).type = f.of[1]
    BY <2>1, ValuesAre
  <2> QED BY <1>2, <2>1, <2>2
<1>3. CASE f.vector
  <2> DEFINE each == Repeated(f.of, n)
             m == n * Len(f.of)
             t == [i \in DOMAIN each |-> PlainCell(each[i])]
             c == Cell("count", <<n>>)
  <2>1. n \in Int /\ each \in Seq(Primitives) /\ m \in Nat /\ Len(each) = m
    <3>1. n \in Int
      BY Int32IsInt
    <3> QED BY <1>1, <3>1, RepeatedIs
  <2>2. c \in Cells
    <3>1. <<n>> \in [1..1 -> Int32] /\ <<n>>[1] = n /\ <<n>> \in Seq(Int)
      BY Int32IsInt
    <3> QED BY <3>1 DEF Cells, IsCell, Cell, AllValues
  <2>3. FieldCells(f, n) = <<c>> \o t
    BY <1>3 DEF FieldCells
  <2> HIDE DEF each, m, c
  <2>4. ASSUME NEW i \in 1..m PROVE PlainCell(each[i]) \in Cells /\ PlainCell(each[i]).type = each[i]
    <3>1. each[i] \in Primitives
      BY <2>1
    <3> QED BY <3>1, ValuesAre
  <2>5. t \in Seq(Cells) /\ Len(t) = m /\ \A i \in 1..m : t[i] = PlainCell(each[i])
    BY <2>1, <2>4
  <2> HIDE DEF t
  <2>6. <<c>> \in Seq(Cells) /\ Len(<<c>>) = 1 /\ <<c>>[1] = c
    BY <2>2
  <2>7. /\ <<c>> \o t \in Seq(Cells) /\ Len(<<c>> \o t) = 1 + m
        /\ \A i \in 1..(1 + m) : (<<c>> \o t)[i] = IF i <= 1 THEN c ELSE t[i - 1]
    BY <2>5, <2>6, ConcatProperties
  <2>8. ASSUME NEW j \in 1..m PROVE (<<c>> \o t)[1 + j].type = each[j]
    <3>1. 1 + j \in 1..(1 + m) /\ ~(1 + j <= 1) /\ (1 + j) - 1 = j
      BY <2>1
    <3> QED BY <2>4, <2>5, <2>7, <3>1
  <2>9. (<<c>> \o t)[1] = c /\ 1 + m = m + 1
    BY <2>1, <2>7
  <2> QED BY <1>3, <2>1, <2>3, <2>7, <2>8, <2>9 DEF c, m, each
<1> QED BY <1>1, <1>2, <1>3

LEMMA PlainLayout ==
  ASSUME shape \in Seq(Fields), NEW n \in Int32, n >= 0
  PROVE  /\ PlainCells(shape, n) \in Seq(Cells)
         /\ \E start : IsEvenLayout(PlainCells(shape, n), start, n)
<1> DEFINE s == [i \in DOMAIN shape |-> FieldCells(shape[i], n)]
           whole == PlainCells(shape, n)
<1>1. Len(shape) \in Nat /\ DOMAIN shape = 1..Len(shape) /\ \A i \in 1..Len(shape) : shape[i] \in Fields
  OBVIOUS
<1>2. ASSUME NEW i \in 1..Len(shape) PROVE FieldCells(shape[i], n) \in Seq(Cells)
  BY <1>1, FieldCellsAre
<1>3. s \in Seq(Seq(Cells)) /\ Len(s) = Len(shape)
      /\ \A i \in 1..Len(shape) : s[i] = FieldCells(shape[i], n)
  BY <1>1, <1>2
<1>4. whole = FlattenSeq(s)
  BY DEF PlainCells
<1> HIDE DEF s, whole
<1>5. whole \in Seq(Cells) /\ \E at : IsPlaced(at, s, whole)
  BY <1>3, <1>4, FlattenPlaces
<1>6. PICK start : IsPlaced(start, s, whole)
  BY <1>5
<1>7. /\ start \in [1..(Len(shape) + 1) -> Nat]
      /\ start[1] = 0 /\ start[Len(shape) + 1] = Len(whole)
  <2>1. /\ start \in [1..(Len(s) + 1) -> Nat]
        /\ start[1] = 0 /\ start[Len(s) + 1] = Len(whole)
    BY <1>6 DEF IsPlaced
  <2> QED BY <1>3, <2>1
<1>8. ASSUME NEW p \in 1..Len(shape)
      PROVE  /\ start[p + 1] = start[p] + Width(p, n)
             /\ shape[p].vector =>
                  /\ whole[start[p] + 1] = Cell("count", <<n>>)
                  /\ \A j \in 1..(n * Len(shape[p].of)) :
                       whole[start[p] + 1 + j].type = Repeated(shape[p].of, n)[j]
             /\ ~shape[p].vector => whole[start[p] + 1].type = shape[p].of[1]
  <2> DEFINE f == shape[p]
             w == FieldCells(f, n)
  <2>1. f \in Fields
    BY <1>1
  <2>2. /\ start[p + 1] = start[p] + Len(w) /\ start[p] \in Nat
        /\ \A j \in 1..Len(w) : whole[start[p] + j] = w[j]
    <3>1. p \in 1..Len(s) /\ s[p] = w /\ p \in 1..(Len(shape) + 1)
      BY <1>1, <1>3
    <3>2. start[p] \in Nat
      BY <1>7, <3>1
    <3> HIDE DEF w
    <3> QED BY <1>6, <3>1, <3>2 DEF IsPlaced
  <2>3. Width(p, n) = IF f.vector THEN n * Len(f.of) + 1 ELSE 1
    BY DEF Width
  <2> HIDE DEF f, w
  <2>4. CASE f.vector
    <3>1. PICK m \in Nat : m = n * Len(f.of)
      BY <2>1, <2>4, FieldCellsAre
    <3>2. /\ Len(w) = m + 1 /\ w[1] = Cell("count", <<n>>)
          /\ \A j \in 1..m : w[1 + j].type = Repeated(f.of, n)[j]
      BY <2>1, <2>4, <3>1, FieldCellsAre DEF w
    <3>3. whole[start[p] + 1] = w[1]
      <4>1. 1 \in 1..Len(w)
        BY <3>2
      <4> QED BY <2>2, <4>1
    <3>4. ASSUME NEW j \in 1..m PROVE whole[start[p] + 1 + j] = w[1 + j]
      <4>1. 1 + j \in 1..Len(w) /\ start[p] + 1 + j = start[p] + (1 + j)
        <5>1. start[p] \in Nat /\ j \in Nat /\ j >= 1 /\ j <= m /\ Len(w) = m + 1
          BY <2>2, <3>2
        <5> QED BY <5>1
      <4> QED BY <2>2, <4>1
    <3>5. Width(p, n) = m + 1
      BY <2>3, <2>4, <3>1
    <3> QED BY <2>2, <2>4, <3>1, <3>2, <3>3, <3>4, <3>5 DEF f
  <2>5. CASE ~f.vector
    <3>1. Len(w) = 1 /\ w[1].type = f.of[1]
      BY <2>1, <2>5, FieldCellsAre DEF w
    <3>2. whole[start[p] + 1] = w[1]
      BY <2>2, <3>1
    <3> QED BY <2>2, <2>3, <2>5, <3>1, <3>2 DEF f
  <2> QED BY <2>4, <2>5
<1>9. IsEvenLayout(whole, start, n)
  BY <1>7, <1>8 DEF IsEvenLayout
<1> QED BY <1>5, <1>9 DEF whole

LEMMA WidthIs ==
  ASSUME shape \in Seq(Fields), NEW n \in Int32, n >= 0, NEW p \in 1..Len(shape)
  PROVE  /\ Width(p, n) \in Nat /\ Width(p, n) >= 1
         /\ shape[p].of \in Seq(Primitives) /\ Len(shape[p].of) >= 1 /\ shape[p].of[1] \in Primitives
         /\ shape[p].vector \in BOOLEAN
         /\ n * Len(shape[p].of) \in Nat /\ n * Len(shape[p].of) >= n
         /\ shape[p].vector => Width(p, n) = n * Len(shape[p].of) + 1
<1>1. shape[p] \in Fields
  OBVIOUS
<1>2. shape[p].vector \in BOOLEAN /\ shape[p].of \in Seq(Primitives) /\ Len(shape[p].of) >= 1
  BY <1>1, FieldsAreSound DEF IsField
<1>3. n \in Int
  BY Int32IsInt
<1>4. n * Len(shape[p].of) \in Nat /\ n * Len(shape[p].of) >= n
  BY <1>2, <1>3, RepeatedIs
<1>5. shape[p].of[1] \in Primitives
  BY <1>2
<1> QED BY <1>2, <1>3, <1>4, <1>5 DEF Width

LEMMA FieldIs ==
  ASSUME shape \in Seq(Fields), NEW p \in 1..Len(shape)
  PROVE  /\ shape[p].of \in Seq(Primitives) /\ Len(shape[p].of) >= 1 /\ shape[p].of[1] \in Primitives
         /\ shape[p].vector \in BOOLEAN
<1>1. shape[p] \in Fields
  OBVIOUS
<1>2. shape[p].vector \in BOOLEAN /\ shape[p].of \in Seq(Primitives) /\ Len(shape[p].of) >= 1
  BY <1>1, FieldsAreSound DEF IsField
<1> QED BY <1>2

LEMMA EvenIsLayout ==
  ASSUME shape \in Seq(Fields), NEW n \in Int32, n >= 0, NEW cs, NEW start, IsEvenLayout(cs, start, n)
  PROVE  IsLayout(cs, start)
<1>1. ASSUME NEW p \in 1..Len(shape) PROVE IsFieldAt(cs, start[p], start[p + 1], shape[p])
  <2>1. /\ start[p + 1] = start[p] + Width(p, n)
        /\ shape[p].vector =>
             /\ cs[start[p] + 1] = Cell("count", <<n>>)
             /\ \A j \in 1..(n * Len(shape[p].of)) :
                  cs[start[p] + 1 + j].type = Repeated(shape[p].of, n)[j]
        /\ ~shape[p].vector => cs[start[p] + 1].type = shape[p].of[1]
    BY DEF IsEvenLayout
  <2>2. CASE ~shape[p].vector
    <3>1. Width(p, n) = 1
      BY <2>2 DEF Width
    <3> QED BY <2>1, <2>2, <3>1 DEF IsFieldAt
  <2>3. CASE shape[p].vector
    <3>1. PICK m \in Nat : m = n * Len(shape[p].of) /\ Width(p, n) = m + 1
      BY <2>3, WidthIs
    <3>2. start[p] \in Nat
      <4>1. p \in 1..(Len(shape) + 1)
        OBVIOUS
      <4> QED BY <4>1 DEF IsEvenLayout
    <3>3. start[p + 1] = start[p] + m + 1
      BY <2>1, <3>1, <3>2
    <3>4. IsVectorAt(cs, start[p], start[p + 1], shape[p].of, n)
      BY <2>1, <2>3, <3>1, <3>3 DEF IsVectorAt
    <3>5. n \in Counts
      BY DEF Counts
    <3> QED BY <2>3, <3>4, <3>5 DEF IsFieldAt
  <2> QED BY <2>2, <2>3
<1> QED BY <1>1 DEF IsLayout, IsEvenLayout

LEMMA CountsAre == \A n \in Counts : n \in Int32 /\ n \in Int /\ n \in Nat /\ n >= 0
BY Int32IsInt DEF Counts

LEMMA FieldTakesRoom ==
  ASSUME shape \in Seq(Fields), NEW cs, NEW start, IsLayout(cs, start), NEW p \in 1..Len(shape)
  PROVE  /\ start[p] \in Nat /\ start[p + 1] \in Nat /\ start[p + 1] >= start[p] + 1
         /\ shape[p].vector =>
              \E n \in Counts :
                /\ IsVectorAt(cs, start[p], start[p + 1], shape[p].of, n)
                /\ n * Len(shape[p].of) \in Nat
         /\ ~shape[p].vector => start[p + 1] = start[p] + 1 /\ cs[start[p] + 1].type = shape[p].of[1]
<1>1. p \in 1..(Len(shape) + 1) /\ p + 1 \in 1..(Len(shape) + 1)
  OBVIOUS
<1>2. start[p] \in Nat /\ start[p + 1] \in Nat
  BY <1>1 DEF IsLayout
<1>3. IsFieldAt(cs, start[p], start[p + 1], shape[p])
  BY DEF IsLayout
<1>4. CASE ~shape[p].vector
  BY <1>2, <1>3, <1>4 DEF IsFieldAt
<1>5. CASE shape[p].vector
  <2>1. PICK n \in Counts : IsVectorAt(cs, start[p], start[p + 1], shape[p].of, n)
    BY <1>3, <1>5 DEF IsFieldAt
  <2>2. PICK m \in Nat : m = n * Len(shape[p].of)
    BY CountsAre, WidthIs
  <2>3. start[p + 1] = start[p] + m + 1
    BY <2>1, <2>2 DEF IsVectorAt
  <2> QED BY <1>2, <1>5, <2>1, <2>2, <2>3
<1> QED BY <1>4, <1>5

(* Fields have cells, and those after a field are behind its cells.            *)
LEMMA LayoutOrder ==
  ASSUME shape \in Seq(Fields), NEW cs, NEW start, IsLayout(cs, start),
         NEW p \in 1..(Len(shape) + 1)
  PROVE  /\ start[p] \in Nat
         /\ Len(cs) \in Nat /\ Len(cs) - start[p] >= Len(shape) + 1 - p
<1>1. PICK k \in Nat : k = Len(shape)
  OBVIOUS
<1>2. start \in [1..(k + 1) -> Nat] /\ start[k + 1] = Len(cs)
  BY <1>1 DEF IsLayout
<1>3. \A q \in 1..(k + 1) : start[q] \in Nat
  BY <1>2
<1>4. \A q \in 1..k : start[q + 1] >= start[q] + 1
  BY <1>1, FieldTakesRoom
<1>5. Len(cs) \in Nat
  BY <1>1, <1>2
<1> DEFINE S == {i \in Nat : i <= k => Len(cs) - start[k + 1 - i] >= i}
<1>6. 0 \in S
  <2>1. k + 1 - 0 = k + 1
    BY <1>1
  <2> QED BY <1>2, <1>5, <2>1
<1>7. ASSUME NEW i \in Nat, i \in S PROVE i + 1 \in S
  <2> SUFFICES ASSUME i + 1 <= k PROVE Len(cs) - start[k + 1 - (i + 1)] >= i + 1
    OBVIOUS
  <2> DEFINE q == k - i
  <2>1. q \in 1..k /\ k + 1 - (i + 1) = q /\ k + 1 - i = q + 1 /\ i <= k /\ q \in 1..(k + 1)
        /\ q + 1 \in 1..(k + 1)
    BY <1>1
  <2>2. Len(cs) - start[k + 1 - i] >= i
    BY <1>7, <2>1
  <2> HIDE DEF q
  <2>3. start[q + 1] >= start[q] + 1
    BY <1>4, <2>1
  <2>4. start[q] \in Nat /\ start[q + 1] \in Nat
    BY <1>3, <2>1
  <2>5. Len(cs) - start[q + 1] >= i
    BY <2>1, <2>2
  <2>6. Len(cs) - start[q] >= i + 1
    BY <1>5, <2>3, <2>4, <2>5
  <2> QED BY <2>1, <2>6
<1>8. Nat \subseteq S
  <2> HIDE DEF S
  <2> QED BY <1>6, <1>7, Induction
<1>9. k + 1 - p \in Nat /\ k + 1 - p <= k /\ k + 1 - (k + 1 - p) = p
  BY <1>1
<1>10. k + 1 - p \in S
  BY <1>8, <1>9
<1>11. Len(cs) - start[p] >= k + 1 - p
  BY <1>9, <1>10
<1> QED BY <1>1, <1>3, <1>5, <1>11

LEMMA LayoutBounds ==
  ASSUME shape \in Seq(Fields), NEW cs, NEW start, IsLayout(cs, start), NEW p \in 1..Len(shape)
  PROVE  start[p] \in Nat /\ start[p + 1] \in Nat /\ start[p + 1] <= Len(cs)
<1>1. Len(shape) \in Nat /\ p \in 1..(Len(shape) + 1) /\ p + 1 \in 1..(Len(shape) + 1)
  OBVIOUS
<1>2. start[p] \in Nat /\ start[p + 1] \in Nat /\ Len(cs) \in Nat
      /\ Len(cs) - start[p + 1] >= Len(shape) + 1 - (p + 1)
  BY <1>1, LayoutOrder
<1> QED BY <1>1, <1>2

(* The cells a behaviour begins with are a record's, with one value changed.   *)
LEMMA InitEvenLayout ==
  ASSUME Init
  PROVE  /\ shape \in Seq(Fields) /\ cells \in Seq(Cells)
         /\ \E start, n : n \in Int32 /\ n >= 0 /\ IsEvenLayout(cells, start, n)
<1>1. shape \in Seq(Fields)
  BY RecordsAreFields DEF Init
<1>2. PICK n \in 0..MaxElements :
        LET plain == PlainCells(shape, n)
        IN  cells \in {plain} \cup
              UNION {{[plain EXCEPT ![i].val = v] : v \in ToSet(Chosen(plain[i].type))}
                       : i \in {j \in DOMAIN plain : plain[j].type # "count"}}
  BY DEF Init
<1> DEFINE plain == PlainCells(shape, n)
<1>3. n \in Int32 /\ n >= 0
  BY CountAssumption DEF Int32
<1>4. plain \in Seq(Cells) /\ \E start : IsEvenLayout(plain, start, n)
  BY <1>1, <1>3, PlainLayout
<1> HIDE DEF plain
<1>5. PICK start : IsEvenLayout(plain, start, n)
  BY <1>4
<1>6. CASE cells = plain
  BY <1>1, <1>3, <1>4, <1>5, <1>6
<1>7. CASE cells # plain
  <2> DEFINE others == {j \in DOMAIN plain : plain[j].type # "count"}
  <2>0. PICK i \in others :
          \E v \in ToSet(Chosen(plain[i].type)) : cells = [plain EXCEPT ![i].val = v]
    BY <1>2, <1>7 DEF plain
  <2>1. PICK v \in ToSet(Chosen(plain[i].type)) : cells = [plain EXCEPT ![i].val = v]
    BY <2>0
  <2> DEFINE t == plain[i].type
  <2>2. i \in 1..Len(plain) /\ t # "count" /\ Len(plain) \in Nat
    BY <1>4
  <2>3. plain[i] \in Cells
    BY <1>4, <2>2
  <2>4. plain[i] = Cell(t, plain[i].val) /\ t \in Primitives
    BY <2>2, <2>3 DEF Cells, Cell
  <2>5. Cell(t, v) \in Cells
    <3>1. v \in ToSet(Chosen(t))
      BY <2>1
    <3> QED BY <2>4, <3>1, ValuesAre
  <2>6. [plain[i] EXCEPT !.val = v] = Cell(t, v)
    BY <2>4 DEF Cell
  <2>7. cells = [plain EXCEPT ![i] = Cell(t, v)]
    BY <1>4, <2>1, <2>2, <2>6
  <2>8. /\ cells \in Seq(Cells) /\ Len(cells) = Len(plain)
        /\ \A j \in 1..Len(plain) : cells[j] = IF j = i THEN Cell(t, v) ELSE plain[j]
    BY <1>4, <2>2, <2>5, <2>7, ExceptSeq
  <2>9. ASSUME NEW j \in 1..Len(plain)
        PROVE  /\ cells[j].type = plain[j].type
               /\ plain[j].type = "count" => cells[j] = plain[j]
    BY <2>2, <2>8 DEF Cell
  <2>10. IsEvenLayout(cells, start, n)
    <3>1. /\ start \in [1..(Len(shape) + 1) -> Nat] /\ start[1] = 0
          /\ start[Len(shape) + 1] = Len(cells)
      BY <1>5, <2>8 DEF IsEvenLayout
    <3>2. ASSUME NEW p \in 1..Len(shape)
          PROVE  /\ start[p + 1] = start[p] + Width(p, n)
                 /\ shape[p].vector =>
                      /\ cells[start[p] + 1] = Cell("count", <<n>>)
                      /\ \A j \in 1..(n * Len(shape[p].of)) :
                           cells[start[p] + 1 + j].type = Repeated(shape[p].of, n)[j]
                 /\ ~shape[p].vector => cells[start[p] + 1].type = shape[p].of[1]
      <4>1. /\ start[p + 1] = start[p] + Width(p, n)
            /\ shape[p].vector =>
                 /\ plain[start[p] + 1] = Cell("count", <<n>>)
                 /\ \A j \in 1..(n * Len(shape[p].of)) :
                      plain[start[p] + 1 + j].type = Repeated(shape[p].of, n)[j]
            /\ ~shape[p].vector => plain[start[p] + 1].type = shape[p].of[1]
        BY <1>5 DEF IsEvenLayout
      <4>2. start[p] + Width(p, n) <= Len(plain) /\ start[p] \in Nat
        <5>1. start[p] \in Nat /\ start[p + 1] <= Len(plain)
          BY <1>1, <1>3, <1>5, EvenIsLayout, LayoutBounds
        <5> QED BY <4>1, <5>1
      <4>3. ASSUME NEW k \in 1..Width(p, n)
            PROVE  /\ cells[start[p] + k].type = plain[start[p] + k].type
                   /\ plain[start[p] + k].type = "count" =>
                        cells[start[p] + k] = plain[start[p] + k]
        <5>1. start[p] + k \in 1..Len(plain)
          BY <2>2, <4>2, WidthIs, <1>1, <1>3
        <5> QED BY <2>9, <5>1
      <4>4. CASE shape[p].vector
        <5>1. PICK m \in Nat : m = n * Len(shape[p].of) /\ Width(p, n) = m + 1
          BY <1>1, <1>3, <4>4, WidthIs
        <5>2. cells[start[p] + 1] = Cell("count", <<n>>)
          <6>1. 1 \in 1..Width(p, n)
            BY <5>1
          <6> QED BY <4>1, <4>3, <4>4, <6>1 DEF Cell
        <5>3. ASSUME NEW j \in 1..m
              PROVE  cells[start[p] + 1 + j].type = plain[start[p] + 1 + j].type
          <6>1. 1 + j \in 1..(m + 1) /\ start[p] + 1 + j = start[p] + (1 + j)
            <7>1. start[p] \in Nat /\ j \in Nat /\ j >= 1 /\ j <= m
              BY <4>2
            <7> QED BY <7>1
          <6> QED BY <4>3, <5>1, <6>1
        <5> QED BY <4>1, <4>4, <5>1, <5>2, <5>3
      <4>5. CASE ~shape[p].vector
        <5>1. 1 \in 1..Width(p, n)
          BY <4>5 DEF Width
        <5> QED BY <4>1, <4>3, <4>5, <5>1
      <4> QED BY <4>4, <4>5
    <3> QED BY <3>1, <3>2 DEF IsEvenLayout
  <2> QED BY <1>1, <1>3, <2>8, <2>10
<1> QED BY <1>6, <1>7

(* A record: any fields, any values, each vector with elements of its own      *)
(* number.                                                                     *)
AnyRecord ==
  /\ shape \in Seq(Fields) /\ cells \in Seq(Cells)
  /\ \E start : IsLayout(cells, start)
  /\ phase = "write"
  /\ oa = [len |-> InitialLength, off |-> 0, bytes |-> <<>>]
  /\ left = Len(cells)
  /\ ia = [len |-> 0, off |-> 0, bytes |-> <<>>]
  /\ todo = <<>> /\ rc = "ok" /\ got = <<>> /\ freed = {}

AnySpec == AnyRecord /\ [][Next]_vars

LEMMA InitIsAnyRecord == Init => AnyRecord
<1> SUFFICES ASSUME Init PROVE AnyRecord
  OBVIOUS
<1>1. PICK start, n : n \in Int32 /\ n >= 0 /\ IsEvenLayout(cells, start, n)
  BY InitEvenLayout
<1>2. shape \in Seq(Fields) /\ cells \in Seq(Cells)
  BY InitEvenLayout
<1>3. IsLayout(cells, start)
  BY <1>1, <1>2, EvenIsLayout
<1> QED BY <1>2, <1>3 DEF Init, AnyRecord

LEMMA SpecIsAnySpec == Spec => AnySpec
BY InitIsAnyRecord, PTL DEF Spec, AnySpec

-------------------------------------------------------------------------------
(* Bytes                                                                       *)

LEMMA BigEndianIs ==
  ASSUME NEW n \in Int
  PROVE  BigEndian(n) \in Seq(Byte) /\ Len(BigEndian(n)) = 4
<1>1. \A k \in Int : k % 256 \in Byte
  BY DEF Byte
<1>2. /\ n \div 16777216 \in Int /\ n \div 65536 \in Int /\ n \div 256 \in Int
  OBVIOUS
<1> QED BY <1>1, <1>2 DEF BigEndian

(* ntohl undoes htonl, also for negative numbers.                              *)
LEMMA HostIntInverts ==
  ASSUME NEW n \in Int32
  PROVE  HostInt(BigEndian(n)) = n
<1>1. n \in Int /\ -2147483648 <= n /\ n <= 2147483647
  BY SMT DEF Int32
<1> DEFINE a == n \div 16777216
           b == n \div 65536
           c == n \div 256
<1>2. a \in Int /\ b \in Int /\ c \in Int
  BY <1>1
<1>3. n = 256 * c + (n % 256) /\ c = 256 * b + (c % 256) /\ b = 256 * a + (b % 256)
  <2>1. n = 256 * c + (n % 256)
    BY <1>1, SMT
  <2>2. c \div 256 = b
    BY <1>1, SMT
  <2>3. b \div 256 = a
    BY <1>1, SMT
  <2> HIDE DEF a, b, c
  <2>4. c = 256 * (c \div 256) + (c % 256) /\ b = 256 * (b \div 256) + (b % 256)
    BY <1>2, SMT
  <2> QED BY <2>1, <2>2, <2>3, <2>4
<1>4. (IF a % 256 < 128 THEN a % 256 ELSE (a % 256) - 256) = a
  BY <1>1, SMT
<1>5. HostInt(BigEndian(n)) = (IF a % 256 < 128 THEN a % 256 ELSE (a % 256) - 256) * 16777216
                                + (b % 256) * 65536 + (c % 256) * 256 + (n % 256)
  <2>1. BigEndian(n) = <<a % 256, b % 256, c % 256, n % 256>>
    BY DEF BigEndian
  <2> DEFINE w == a % 256
             x == b % 256
             y == c % 256
             z == n % 256
  <2>3. w \in Int /\ x \in Int /\ y \in Int /\ z \in Int
    BY <1>1, <1>2
  <2> HIDE DEF w, x, y, z
  <2> DEFINE t == <<w, x, y, z>>
  <2>4. HostInt(<<w, x, y, z>>) =
          (IF w < 128 THEN w ELSE w - 256) * 16777216 + x * 65536 + y * 256 + z
    <3>1. t[1] = w /\ t[2] = x /\ t[3] = y /\ t[4] = z
      OBVIOUS
    <3> HIDE DEF t
    <3>2. HostInt(t) = (IF t[1] < 128 THEN t[1] ELSE t[1] - 256) * 16777216
                         + t[2] * 65536 + t[3] * 256 + t[4]
      BY SMT DEF HostInt
    <3> QED BY <2>3, <3>1, <3>2, SMT DEF t
  <2> QED BY <2>1, <2>4 DEF w, x, y, z
<1> HIDE DEF a, b, c
<1>6. b % 256 \in Int /\ c % 256 \in Int /\ n % 256 \in Int
  BY <1>1, <1>2
<1> QED BY <1>1, <1>2, <1>3, <1>4, <1>5, <1>6, SMT

(* The bytes of a cell.                                                        *)
Encoded(c) ==
  CASE c.type \in {"int", "count"} -> BigEndian(c.val[1])
    [] c.type = "long" -> BigEndian(c.val[1]) \o BigEndian(c.val[2])
    [] c.type = "bool" -> <<IF c.val[1] = 0 THEN 0 ELSE 1>>
    [] OTHER           -> IF c.val = Null THEN BigEndian(-1) ELSE BigEndian(Len(c.val)) \o c.val

(* What a cell of each type holds.                                             *)
LEMMA CellsHold ==
  ASSUME NEW c \in Cells
  PROVE  /\ c.type \in Primitives \cup {"count"}
         /\ c.type \in {"int", "count", "bool"} =>
              c.val \in [1..1 -> Int32] /\ c.val[1] \in Int32 /\ c.val = <<c.val[1]>> /\ c.val # Null
         /\ c.type = "count" => c.val[1] >= 0
         /\ c.type = "long" => /\ c.val \in [1..2 -> Int32] /\ c.val[1] \in Int32
                               /\ c.val[2] \in Int32 /\ c.val = <<c.val[1], c.val[2]>> /\ c.val # Null
         /\ c.type \in {"buffer", "string"} =>
              /\ c.val = Null \/ c.val \in Seq(Byte)
              /\ c.val # Null => Len(c.val) \in Int32 /\ Len(c.val) \in Nat
<1>1. c.type \in Primitives \cup {"count"} /\ IsCell(c) /\ c.val \in AllValues
  BY DEF Cells
<1>2. ASSUME NEW v \in [1..1 -> Int32] PROVE v[1] \in Int32 /\ v = <<v[1]>> /\ v # Null
  <2>1. v[1] \in Int32
    OBVIOUS
  <2>2. v = <<v[1]>>
    OBVIOUS
  <2>3. v[1] \in Int
    BY <2>1, Int32IsInt
  <2>4. <<v[1]>> \in Seq(Int)
    BY <2>3
  <2> QED BY <2>1, <2>2, <2>4, NullAssumption
<1>3. ASSUME NEW v \in [1..2 -> Int32]
      PROVE  v[1] \in Int32 /\ v[2] \in Int32 /\ v = <<v[1], v[2]>> /\ v # Null
  <2>1. v[1] \in Int32 /\ v[2] \in Int32
    OBVIOUS
  <2>2. v = <<v[1], v[2]>>
    OBVIOUS
  <2>3. v[1] \in Int /\ v[2] \in Int
    BY <2>1, Int32IsInt
  <2>4. <<v[1], v[2]>> \in Seq(Int)
    BY <2>3
  <2> QED BY <2>1, <2>2, <2>4, NullAssumption
<1>4. c.type \in {"int", "count", "bool"} => c.val \in [1..1 -> Int32]
  BY <1>1 DEF IsCell, Values
<1>5. c.type = "long" => c.val \in [1..2 -> Int32]
  BY <1>1 DEF IsCell, Values
<1>6. c.type \in {"buffer", "string"} =>
        /\ c.val = Null \/ c.val \in Seq(Byte)
        /\ c.val # Null => Len(c.val) \in Int32 /\ Len(c.val) \in Nat
  BY <1>1 DEF IsCell, Values
<1>7. c.type = "count" => c.val[1] >= 0
  BY <1>1 DEF IsCell
<1> QED BY <1>1, <1>2, <1>3, <1>4, <1>5, <1>6, <1>7

LEMMA ByteStrings ==
  ASSUME NEW s \in Seq(Byte), NEW t \in Seq(Byte)
  PROVE  /\ s \o t \in Seq(Byte) /\ Len(s \o t) = Len(s) + Len(t)
         /\ \A i \in 1..Len(s) : (s \o t)[i] = s[i]
         /\ \A i \in 1..Len(t) : (s \o t)[Len(s) + i] = t[i]
<1>1. Len(s) \in Nat /\ Len(t) \in Nat
  OBVIOUS
<1>2. /\ s \o t \in Seq(Byte) /\ Len(s \o t) = Len(s) + Len(t)
      /\ \A i \in 1..(Len(s) + Len(t)) : (s \o t)[i] = IF i <= Len(s) THEN s[i] ELSE t[i - Len(s)]
  BY ConcatProperties
<1>3. \A i \in 1..Len(s) : i \in 1..(Len(s) + Len(t)) /\ i <= Len(s)
  BY <1>1
<1>4. \A i \in 1..Len(t) : /\ Len(s) + i \in 1..(Len(s) + Len(t)) /\ ~(Len(s) + i <= Len(s))
                           /\ (Len(s) + i) - Len(s) = i
  BY <1>1
<1> QED BY <1>2, <1>3, <1>4

(* A cell takes the bytes it is counted for, and one at least.                 *)
LEMMA EncodedIs ==
  ASSUME NEW c \in Cells
  PROVE  /\ Encoded(c) \in Seq(Byte) /\ Len(Encoded(c)) = BytesOf(c)
         /\ BytesOf(c) \in Nat /\ BytesOf(c) >= 1
<1>1. c.type \in Primitives \cup {"count"}
  BY CellsHold
<1>2. CASE c.type \in {"int", "count"}
  <2>1. c.val[1] \in Int
    BY <1>2, CellsHold, Int32IsInt
  <2>2. Encoded(c) = BigEndian(c.val[1]) /\ BytesOf(c) = 4
    BY <1>2 DEF Encoded, BytesOf
  <2> QED BY <2>1, <2>2, BigEndianIs
<1>3. CASE c.type = "long"
  <2>1. c.val[1] \in Int /\ c.val[2] \in Int
    BY <1>3, CellsHold, Int32IsInt
  <2>2. Encoded(c) = BigEndian(c.val[1]) \o BigEndian(c.val[2]) /\ BytesOf(c) = 8
    BY <1>3 DEF Encoded, BytesOf
  <2> DEFINE s == BigEndian(c.val[1])
             t == BigEndian(c.val[2])
  <2>3. s \in Seq(Byte) /\ Len(s) = 4 /\ t \in Seq(Byte) /\ Len(t) = 4
    BY <2>1, BigEndianIs
  <2> HIDE DEF s, t
  <2>4. s \o t \in Seq(Byte) /\ Len(s \o t) = 4 + 4
    BY <2>3, ByteStrings
  <2> QED BY <2>2, <2>4 DEF s, t
<1>4. CASE c.type = "bool"
  <2>1. 0 \in Byte /\ 1 \in Byte
    BY DEF Byte
  <2>2. Encoded(c) = <<IF c.val[1] = 0 THEN 0 ELSE 1>> /\ BytesOf(c) = 1
    BY <1>4 DEF Encoded, BytesOf
  <2> QED BY <2>1, <2>2
<1>5. CASE c.type \in {"buffer", "string"}
  <2>1. CASE c.val = Null
    <3>1. Encoded(c) = BigEndian(-1) /\ BytesOf(c) = 4
      BY <1>5, <2>1 DEF Encoded, BytesOf
    <3>2. -1 \in Int
      OBVIOUS
    <3>3. BigEndian(-1) \in Seq(Byte) /\ Len(BigEndian(-1)) = 4
      BY <3>2, BigEndianIs
    <3> QED BY <3>1, <3>3
  <2>2. CASE c.val # Null
    <3>1. Encoded(c) = BigEndian(Len(c.val)) \o c.val /\ BytesOf(c) = 4 + Len(c.val)
      BY <1>5, <2>2 DEF Encoded, BytesOf
    <3>2. c.val \in Seq(Byte) /\ Len(c.val) \in Nat
      BY <1>5, <2>2, CellsHold
    <3>3. BigEndian(Len(c.val)) \in Seq(Byte) /\ Len(BigEndian(Len(c.val))) = 4
      BY <3>2, BigEndianIs
    <3> DEFINE s == BigEndian(Len(c.val))
               t == c.val
    <3>4. s \in Seq(Byte) /\ t \in Seq(Byte) /\ Len(s) = 4 /\ Len(t) \in Nat
      BY <3>2, <3>3
    <3> HIDE DEF s, t
    <3>5. s \o t \in Seq(Byte) /\ Len(s \o t) = 4 + Len(t)
      <4>1. s \o t \in Seq(Byte) /\ Len(s \o t) = Len(s) + Len(t)
        BY <3>4, ByteStrings, Zenon
      <4> QED BY <3>4, <4>1
    <3> QED BY <3>1, <3>2, <3>5 DEF s, t
  <2> QED BY <2>1, <2>2
<1> QED BY <1>1, <1>2, <1>3, <1>4, <1>5 DEF Primitives

-------------------------------------------------------------------------------
(* Writing                                                                     *)

IsOut(a) == /\ a \in Buffers /\ a.off = Len(a.bytes) /\ a.off <= a.len /\ a.len >= 1

Appended(a, b, z) == IsOut(z) /\ z.off = a.off + Len(b) /\ z.bytes = a.bytes \o b

LEMMA AppendAppends ==
  ASSUME NEW a, IsOut(a), NEW b \in Seq(Byte)
  PROVE  Appended(a, b, AppendBytes(a, b))
<1>1. /\ a \in [len : Nat, off : Nat, bytes : Seq(Byte)]
      /\ a.len >= 1 /\ a.off <= a.len /\ a.off = Len(a.bytes)
  BY DEF IsOut, Buffers
<1> DEFINE z == AppendBytes(a, b)
<1>2. /\ z \in [len : Nat, off : Nat, bytes : Seq(Byte)]
      /\ z.off = a.off + Len(b) /\ z.bytes = a.bytes \o b
      /\ z.off = Len(z.bytes) /\ z.off <= z.len /\ z.len >= 1
  BY <1>1, AppendIsInside
<1> HIDE DEF z
<1>3. Appended(a, b, z)
  BY <1>2 DEF Appended, IsOut, Buffers
<1> QED BY <1>3 DEF z

LEMMA AppendedTwice ==
  ASSUME NEW a, IsOut(a), NEW b \in Seq(Byte), NEW c \in Seq(Byte),
         NEW y, Appended(a, b, y), NEW z, Appended(y, c, z)
  PROVE  Appended(a, b \o c, z)
<1>1. a.bytes \in Seq(Byte) /\ a.off \in Nat
  BY DEF IsOut, Buffers
<1>2. (a.bytes \o b) \o c = a.bytes \o (b \o c)
  <2> DEFINE d == a.bytes
  <2>1. d \in Seq(Byte)
    BY <1>1
  <2> HIDE DEF d
  <2>2. (d \o b) \o c = d \o (b \o c)
    BY <2>1, ConcatAssociative
  <2> QED BY <2>2 DEF d
<1>3. Len(b \o c) = Len(b) + Len(c) /\ Len(b) \in Nat /\ Len(c) \in Nat
  BY ByteStrings
<1>4. z.off = (a.off + Len(b)) + Len(c) /\ z.bytes = (a.bytes \o b) \o c /\ IsOut(z)
  BY DEF Appended
<1>5. (a.off + Len(b)) + Len(c) = a.off + Len(b \o c)
  BY <1>1, <1>3
<1> QED BY <1>2, <1>4, <1>5 DEF Appended

(* Each primitive appends the bytes of its cell.                               *)
LEMMA WritersAppend ==
  ASSUME NEW a, IsOut(a), NEW c \in Cells
  PROVE  /\ c.type \in {"int", "count"} => Appended(a, Encoded(c), oa_serialize_int(a, c.val))
         /\ c.type = "long"   => Appended(a, Encoded(c), oa_serialize_long(a, c.val))
         /\ c.type = "bool"   => Appended(a, Encoded(c), oa_serialize_bool(a, c.val))
         /\ c.type = "buffer" => Appended(a, Encoded(c), oa_serialize_buffer(a, c.val))
         /\ c.type = "string" => Appended(a, Encoded(c), oa_serialize_string(a, c.val))
<1>1. Encoded(c) \in Seq(Byte)
  BY EncodedIs
<1>2. ASSUME c.type \in {"int", "count"}
      PROVE  Appended(a, Encoded(c), oa_serialize_int(a, c.val))
  <2>1. oa_serialize_int(a, c.val) = AppendBytes(a, Encoded(c))
    BY <1>2 DEF Encoded, oa_serialize_int
  <2> QED BY <1>1, <2>1, AppendAppends
<1>3. ASSUME c.type = "long"
      PROVE  Appended(a, Encoded(c), oa_serialize_long(a, c.val))
  <2>1. oa_serialize_long(a, c.val) = AppendBytes(a, Encoded(c))
    BY <1>3 DEF Encoded, oa_serialize_long
  <2> QED BY <1>1, <2>1, AppendAppends
<1>4. ASSUME c.type = "bool"
      PROVE  Appended(a, Encoded(c), oa_serialize_bool(a, c.val))
  <2>1. oa_serialize_bool(a, c.val) = AppendBytes(a, Encoded(c))
    BY <1>4 DEF Encoded, oa_serialize_bool
  <2> QED BY <1>1, <2>1, AppendAppends
<1>5. ASSUME c.type \in {"buffer", "string"}
      PROVE  /\ Appended(a, Encoded(c), oa_serialize_buffer(a, c.val))
             /\ Appended(a, Encoded(c), oa_serialize_string(a, c.val))
  <2>0. ASSUME NEW n \in Int
        PROVE  /\ BigEndian(n) \in Seq(Byte)
               /\ Appended(a, BigEndian(n), oa_serialize_int(a, <<n>>))
    <3>1. oa_serialize_int(a, <<n>>) = AppendBytes(a, BigEndian(n))
      BY DEF oa_serialize_int
    <3>2. BigEndian(n) \in Seq(Byte)
      BY BigEndianIs
    <3> QED BY <3>1, <3>2, AppendAppends
  <2>1. CASE c.val = Null
    <3>1. Encoded(c) = BigEndian(-1)
      BY <1>5, <2>1 DEF Encoded
    <3>2. /\ oa_serialize_buffer(a, c.val) = oa_serialize_int(a, <<-1>>)
          /\ oa_serialize_string(a, c.val) = oa_serialize_int(a, <<-1>>)
      BY <2>1 DEF oa_serialize_buffer, oa_serialize_string
    <3>3. -1 \in Int
      OBVIOUS
    <3>4. Appended(a, BigEndian(-1), oa_serialize_int(a, <<-1>>))
      BY <2>0, <3>3
    <3> QED BY <3>1, <3>2, <3>4
  <2>2. CASE c.val # Null
    <3> DEFINE n == Len(c.val)
               y == oa_serialize_int(a, <<n>>)
               z == AppendBytes(y, c.val)
    <3>1. Encoded(c) = BigEndian(n) \o c.val
      BY <1>5, <2>2 DEF Encoded
    <3>2. c.val \in Seq(Byte) /\ n \in Int
      BY <1>5, <2>2, CellsHold, Int32IsInt
    <3>3. oa_serialize_buffer(a, c.val) = z /\ oa_serialize_string(a, c.val) = z
      BY <2>2 DEF oa_serialize_buffer, oa_serialize_string
    <3> HIDE DEF n
    <3>4. BigEndian(n) \in Seq(Byte) /\ Appended(a, BigEndian(n), y)
      BY <2>0, <3>2
    <3> HIDE DEF y
    <3>5. IsOut(y)
      BY <3>4 DEF Appended
    <3>6. Appended(y, c.val, z)
      BY <3>2, <3>5, AppendAppends
    <3> HIDE DEF z
    <3>7. Appended(a, BigEndian(n) \o c.val, z)
      BY <3>2, <3>4, <3>6, AppendedTwice
    <3> QED BY <3>1, <3>3, <3>7
  <2> QED BY <2>1, <2>2
<1> QED BY <1>2, <1>3, <1>4, <1>5

-------------------------------------------------------------------------------
(* Types of the state                                                          *)

Pieces == [op : Primitives, zeroed : BOOLEAN]
            \cup {c \in [op : {"count"}, zeroed : {FALSE}, of : Seq(Primitives)] : Len(c.of) >= 1}
            \cup {EndOfVector}

Gots == [type : Primitives \cup {"count"}, val : AllValues \cup {Unset}, mine : BOOLEAN]

TypeInv ==
  /\ phase \in {"write", "read", "free", "done"}
  /\ shape \in Seq(Fields)
  /\ cells \in Seq(Cells)
  /\ left \in 0..Len(cells)
  /\ IsOut(oa)
  /\ ia \in Buffers /\ ia.len = Len(ia.bytes) /\ ia.off <= ia.len
  /\ todo \in Seq(Pieces)
  /\ rc \in {"ok", "E2BIG", "EINVAL", "ENOMEM"}
  /\ got \in Seq(Gots)
  /\ freed \subseteq DOMAIN got
  /\ phase # "done" => freed = {}

Writing == \/ SerializeInt \/ SerializeLong \/ SerializeBool
           \/ SerializeBuffer \/ SerializeString \/ oa_start_vector

(* What the six writers do.                                                    *)
Wrote ==
  /\ phase = "write" /\ left > 0
  /\ NextCell \in Cells
  /\ Appended(oa, Encoded(NextCell), oa')
  /\ left' = left - 1
  /\ UNCHANGED <<phase, cells, shape, ia, todo, rc, got, freed>>

LEMMA WritersWrite ==
  ASSUME TypeInv, Writing
  PROVE  Wrote
<1>1. phase = "write" /\ left > 0 /\ left' = left - 1
      /\ UNCHANGED <<phase, cells, shape, ia, todo, rc, got, freed>>
  BY DEF Writing, SerializeInt, SerializeLong, SerializeBool, SerializeBuffer, SerializeString,
         oa_start_vector, Serialize
<1>2. NextCell \in Cells
  <2>1. Len(cells) - left + 1 \in 1..Len(cells)
    BY <1>1 DEF TypeInv
  <2>2. cells \in Seq(Cells)
    BY DEF TypeInv
  <2> QED BY <2>1, <2>2 DEF NextCell
<1>3. IsOut(oa)
  BY DEF TypeInv
<1>4. Appended(oa, Encoded(NextCell), oa')
  <2> DEFINE c == NextCell
  <2>1. c \in Cells
    BY <1>2
  <2>2. \/ c.type \in {"int", "count"} /\ oa' = oa_serialize_int(oa, c.val)
        \/ c.type = "long" /\ oa' = oa_serialize_long(oa, c.val)
        \/ c.type = "bool" /\ oa' = oa_serialize_bool(oa, c.val)
        \/ c.type = "buffer" /\ oa' = oa_serialize_buffer(oa, c.val)
        \/ c.type = "string" /\ oa' = oa_serialize_string(oa, c.val)
    BY DEF Writing, SerializeInt, SerializeLong, SerializeBool, SerializeBuffer, SerializeString,
           oa_start_vector, Serialize
  <2> HIDE DEF c
  <2>3. Appended(oa, Encoded(c), oa')
    BY <1>3, <2>1, <2>2, WritersAppend
  <2> QED BY <2>3 DEF c
<1> QED BY <1>1, <1>2, <1>4 DEF Wrote

-------------------------------------------------------------------------------
(* Reading                                                                     *)

LEMMA BytesAt ==
  ASSUME TypeInv, NEW from \in Nat, NEW n \in Nat, from + n <= ia.len
  PROVE  /\ At(from, n) \in Seq(Byte) /\ Len(At(from, n)) = n
         /\ \A j \in 1..n : At(from, n)[j] = ia.bytes[from + j]
<1> DEFINE b == ia.bytes
<1>1. b \in Seq(Byte) /\ Len(b) \in Nat /\ from + n <= Len(b)
  BY DEF TypeInv, Buffers
<1> HIDE DEF b
<1>2. ASSUME NEW i \in (from + 1)..(from + n) PROVE b[i] \in Byte
  BY <1>1
<1>3. /\ SubSeq(b, from + 1, from + n) \in Seq(Byte)
      /\ Len(SubSeq(b, from + 1, from + n)) =
           IF from + 1 <= from + n THEN (from + n) - (from + 1) + 1 ELSE 0
      /\ \A j \in 1..((from + n) - (from + 1) + 1) :
           SubSeq(b, from + 1, from + n)[j] = b[(from + 1) + j - 1]
  <2>1. from + 1 \in Int /\ from + n \in Int
    OBVIOUS
  <2> QED BY <1>2, <2>1, SubSeqProperties
<1>4. /\ (from + n) - (from + 1) + 1 = n
      /\ (IF from + 1 <= from + n THEN (from + n) - (from + 1) + 1 ELSE 0) = n
      /\ \A j \in 1..n : (from + 1) + j - 1 = from + j
  OBVIOUS
<1>5. At(from, n) = SubSeq(b, from + 1, from + n)
  BY DEF At, b
<1> QED BY <1>3, <1>4, <1>5 DEF b

LEMMA HostIntIsInt ==
  ASSUME NEW b \in Seq(Byte), Len(b) = 4
  PROVE  HostInt(b) \in Int
<1>1. b[1] \in Int /\ b[2] \in Int /\ b[3] \in Int /\ b[4] \in Int
  <2>1. b[1] \in Byte /\ b[2] \in Byte /\ b[3] \in Byte /\ b[4] \in Byte
    <3>1. \A i \in 1..Len(b) : b[i] \in Byte
      OBVIOUS
    <3>2. 1 \in 1..Len(b) /\ 2 \in 1..Len(b) /\ 3 \in 1..Len(b) /\ 4 \in 1..Len(b)
      OBVIOUS
    <3> QED BY <3>1, <3>2
  <2>2. Byte \subseteq Int
    BY DEF Byte
  <2> QED BY <2>1, <2>2
<1> QED BY <1>1, SMT DEF HostInt

(* What is left of the input.                                                  *)
LEMMA Remaining ==
  ASSUME TypeInv
  PROVE  /\ ia.len \in Nat /\ ia.off \in Nat /\ ia.off <= ia.len
         /\ \A n \in Int : Room(n) <=> ia.off + n <= ia.len
BY DEF TypeInv, Buffers, Room

LEMMA LengthIsInt ==
  ASSUME TypeInv, Room(4)
  PROVE  Length \in Int
<1>1. ia.off \in Nat /\ ia.off + 4 <= ia.len
  BY Remaining
<1>2. At(ia.off, 4) \in Seq(Byte) /\ Len(At(ia.off, 4)) = 4
  BY <1>1, BytesAt
<1> QED BY <1>2, HostIntIsInt DEF Length

(* One primitive is dealt with: n bytes are used, and code is returned.        *)
Took(n, val, mine, code) ==
  /\ phase = "read" /\ todo # <<>>
  /\ n \in Nat /\ ia.off + n <= ia.len
  /\ ia' = [ia EXCEPT !.off = @ + n]
  /\ todo' = Tail(todo)
  /\ got' = Append(got, [type |-> Head(todo).op, val |-> val, mine |-> mine])
  /\ rc' = code
  /\ UNCHANGED <<phase, cells, shape, oa, left, freed>>

(* A place that is read has a pointer exactly if it was allocated; one that    *)
(* is not keeps what it was.                                                   *)
Settled(val, mine, code) ==
  /\ val \in AllValues \cup {Unset} /\ mine \in BOOLEAN
  /\ code \in {"ok", "E2BIG", "EINVAL", "ENOMEM"}
  /\ code = "ok" => (mine <=> Head(todo).op \in {"string", "buffer"} /\ val # Null)
  /\ code # "ok" => val = Untouched /\ ~mine

Reader == \/ ia_deserialize_int \/ ia_deserialize_long \/ ia_deserialize_bool
          \/ ia_deserialize_buffer \/ ia_deserialize_string

LEMMA UntouchedIs ==
  ASSUME TypeInv, todo # <<>>, Head(todo).op # "end"
  PROVE  /\ Head(todo) \in Pieces
         /\ Head(todo).op \in Primitives \cup {"count"}
         /\ Head(todo).zeroed \in BOOLEAN
         /\ Untouched \in AllValues \cup {Unset}
<1>1. Head(todo) \in Pieces
  <2>1. todo \in Seq(Pieces)
    BY DEF TypeInv
  <2> QED BY <2>1, HeadTailProperties
<1>2. Head(todo).op \in Primitives \cup {"count"} /\ Head(todo).zeroed \in BOOLEAN
  <2> DEFINE p == Head(todo)
  <2>1. p \in Pieces /\ p.op # "end"
    BY <1>1
  <2> HIDE DEF p
  <2>2. EndOfVector.op = "end"
    BY DEF EndOfVector, Step
  <2>3. p # EndOfVector
    BY <2>1, <2>2
  <2>4. CASE p \in [op : Primitives, zeroed : BOOLEAN]
    BY <2>4 DEF p
  <2>5. CASE p \in [op : {"count"}, zeroed : {FALSE}, of : Seq(Primitives)]
    BY <2>5 DEF p
  <2> QED BY <2>1, <2>3, <2>4, <2>5 DEF Pieces
<1>3. <<0>> \in Seq(Int) /\ <<0, 0>> \in Seq(Int)
  OBVIOUS
<1> QED BY <1>1, <1>2, <1>3 DEF Untouched, Zero, AllValues

LEMMA BytesAreValues == Seq(Byte) \subseteq Seq(Int)
<1>1. Byte \subseteq Int
  BY DEF Byte
<1>2. \A b \in Seq(Byte) : b \in Seq(Int)
  BY <1>1, SeqMonotonic
<1> QED BY <1>2

(* Both ways a primitive ends.                                                 *)
LEMMA FailureTakes ==
  ASSUME TypeInv, NEW op \in Primitives, Reading(op), todo' = Tail(todo),
         NEW code \in {"E2BIG", "EINVAL", "ENOMEM"}, NEW n \in Nat, Room(n), Fails(code, n)
  PROVE  Took(n, Untouched, FALSE, code) /\ Settled(Untouched, FALSE, code)
<1>1. phase = "read" /\ todo # <<>> /\ Head(todo).op = op
  BY DEF Reading
<1>2. op # "end"
  BY DEF Primitives
<1>3. Untouched \in AllValues \cup {Unset}
  BY <1>1, <1>2, UntouchedIs
<1>4. ia.off + n <= ia.len
  BY Remaining
<1>5. Took(n, Untouched, FALSE, code)
  BY <1>1, <1>4 DEF Fails, Moved, Got, Took, Reading
<1> QED BY <1>3, <1>5 DEF Settled

LEMMA SuccessTakes ==
  ASSUME TypeInv, NEW op \in Primitives, Reading(op), rc = "ok", todo' = Tail(todo),
         NEW n \in Nat, Room(n), NEW val \in AllValues, NEW mine \in BOOLEAN, Reads(val, n, mine),
         mine <=> op \in {"string", "buffer"} /\ val # Null
  PROVE  Took(n, val, mine, "ok") /\ Settled(val, mine, "ok")
<1>1. phase = "read" /\ todo # <<>> /\ Head(todo).op = op
  BY DEF Reading
<1>2. ia.off + n <= ia.len
  BY Remaining
<1>3. Took(n, val, mine, "ok")
  BY <1>1, <1>2 DEF Reads, Moved, Got, Took, Reading
<1> QED BY <1>1, <1>3 DEF Settled

LEMMA ReadersTake ==
  ASSUME TypeInv, Reader
  PROVE  /\ rc = "ok" /\ todo # <<>> /\ Head(todo).op \in Primitives
         /\ \E n, val, mine, code : Took(n, val, mine, code) /\ Settled(val, mine, code)
<1> DEFINE Goal == /\ rc = "ok" /\ todo # <<>> /\ Head(todo).op \in Primitives
                   /\ \E n, val, mine, code : Took(n, val, mine, code) /\ Settled(val, mine, code)
<1>1. /\ "int" \in Primitives /\ "long" \in Primitives /\ "bool" \in Primitives
      /\ "buffer" \in Primitives /\ "string" \in Primitives
  BY DEF Primitives
<1>2. ASSUME NEW op \in Primitives, Reading(op), rc = "ok", todo' = Tail(todo),
             NEW code \in {"E2BIG", "EINVAL", "ENOMEM"}, NEW n \in Nat, Room(n), Fails(code, n)
      PROVE  Goal
  BY <1>2, FailureTakes DEF Reading
<1>3. ASSUME NEW op \in Primitives, Reading(op), rc = "ok", todo' = Tail(todo),
             NEW n \in Nat, Room(n), NEW val \in AllValues, NEW mine \in BOOLEAN,
             Reads(val, n, mine), mine <=> op \in {"string", "buffer"} /\ val # Null
      PROVE  Goal
  BY <1>3, SuccessTakes DEF Reading
<1> HIDE DEF Goal
<1>4. Room(0) /\ (Room(8) => Room(4))
  BY Remaining
<1>5. ASSUME ia_deserialize_int PROVE Goal
  <2>1. Reading("int") /\ rc = "ok" /\ todo' = Tail(todo)
    BY <1>5 DEF ia_deserialize_int
  <2>2. CASE Room(4)
    <3>1. Reads(<<Length>>, 4, FALSE)
      BY <1>5, <2>2 DEF ia_deserialize_int
    <3>2. <<Length>> \in AllValues
      BY <2>2, LengthIsInt DEF AllValues
    <3> QED BY <1>1, <1>3, <2>1, <2>2, <3>1, <3>2
  <2>3. CASE ~Room(4)
    <3>1. Fails("E2BIG", 0)
      BY <1>5, <2>3 DEF ia_deserialize_int
    <3> QED BY <1>1, <1>2, <1>4, <2>1, <3>1
  <2> QED BY <2>2, <2>3
<1>6. ASSUME ia_deserialize_long PROVE Goal
  <2>1. Reading("long") /\ rc = "ok" /\ todo' = Tail(todo)
    BY <1>6 DEF ia_deserialize_long
  <2>2. CASE Room(8)
    <3> DEFINE low == HostInt(At(ia.off + 4, 4))
    <3>1. Reads(<<Length, low>>, 8, FALSE)
      BY <1>6, <2>2 DEF ia_deserialize_long
    <3>2. low \in Int
      <4>1. ia.off + 4 \in Nat /\ (ia.off + 4) + 4 <= ia.len
        BY <2>2, Remaining
      <4>2. At(ia.off + 4, 4) \in Seq(Byte) /\ Len(At(ia.off + 4, 4)) = 4
        BY <4>1, BytesAt
      <4> QED BY <4>2, HostIntIsInt
    <3>3. Length \in Int
      BY <1>4, <2>2, LengthIsInt
    <3> HIDE DEF low
    <3>4. <<Length, low>> \in AllValues
      BY <3>2, <3>3 DEF AllValues
    <3> QED BY <1>1, <1>3, <2>1, <2>2, <3>1, <3>4
  <2>3. CASE ~Room(8)
    <3>1. Fails("E2BIG", 0)
      BY <1>6, <2>3 DEF ia_deserialize_long
    <3> QED BY <1>1, <1>2, <1>4, <2>1, <3>1
  <2> QED BY <2>2, <2>3
<1>7. ASSUME ia_deserialize_bool PROVE Goal
  <2>1. Reading("bool") /\ rc = "ok" /\ todo' = Tail(todo)
    BY <1>7 DEF ia_deserialize_bool
  <2>2. CASE Room(1)
    <3>1. Reads(At(ia.off, 1), 1, FALSE)
      BY <1>7, <2>2 DEF ia_deserialize_bool
    <3>2. At(ia.off, 1) \in Seq(Byte)
      <4>1. ia.off \in Nat /\ ia.off + 1 <= ia.len
        BY <2>2, Remaining
      <4>2. 1 \in Nat
        OBVIOUS
      <4> QED BY <4>1, <4>2, BytesAt
    <3>3. At(ia.off, 1) \in AllValues
      BY <3>2, BytesAreValues DEF AllValues
    <3> QED BY <1>1, <1>3, <2>1, <2>2, <3>1, <3>3
  <2>3. CASE ~Room(1)
    <3>1. Fails("E2BIG", 0)
      BY <1>7, <2>3 DEF ia_deserialize_bool
    <3> QED BY <1>1, <1>2, <1>4, <2>1, <3>1
  <2> QED BY <2>2, <2>3
<1>8. ASSUME Room(4), ~(ia.len - ia.off - 4 < Length), ~(Length < 0)
      PROVE  /\ 4 + Length \in Nat /\ Room(4 + Length)
             /\ At(ia.off + 4, Length) \in AllValues /\ At(ia.off + 4, Length) # Null
  <2>1. Length \in Nat
    BY <1>8, LengthIsInt
  <2>2. ia.off + 4 \in Nat /\ (ia.off + 4) + Length <= ia.len
    BY <1>8, <2>1, Remaining
  <2>3. At(ia.off + 4, Length) \in Seq(Byte)
    BY <2>1, <2>2, BytesAt
  <2>4. 4 + Length \in Nat /\ Room(4 + Length)
    BY <2>1, <2>2, Remaining
  <2>5. At(ia.off + 4, Length) \in Seq(Int)
    BY <2>3, BytesAreValues
  <2> QED BY <2>4, <2>5, NullAssumption DEF AllValues
<1>9. Null \in AllValues
  BY DEF AllValues
<1>10. ASSUME ia_deserialize_buffer PROVE Goal
  <2>1. Reading("buffer") /\ rc = "ok" /\ todo' = Tail(todo)
    BY <1>10 DEF ia_deserialize_buffer
  <2>2. CASE ~Room(4)
    <3>1. Fails("E2BIG", 0)
      BY <1>10, <2>2 DEF ia_deserialize_buffer
    <3> QED BY <1>1, <1>2, <1>4, <2>1, <3>1
  <2>3. CASE Room(4) /\ ia.len - ia.off - 4 < Length
    <3>1. Fails("E2BIG", 4)
      BY <1>10, <2>3 DEF ia_deserialize_buffer
    <3> QED BY <1>1, <1>2, <2>1, <2>3, <3>1
  <2>4. CASE Room(4) /\ ~(ia.len - ia.off - 4 < Length) /\ Length = -1
    <3>1. Reads(Null, 4, FALSE)
      BY <1>10, <2>4 DEF ia_deserialize_buffer
    <3> QED BY <1>1, <1>3, <1>9, <2>1, <2>4, <3>1
  <2>5. CASE Room(4) /\ ~(ia.len - ia.off - 4 < Length) /\ Length # -1 /\ Length < 0
    <3>1. Fails("ENOMEM", 4)
      BY <1>10, <2>5 DEF ia_deserialize_buffer
    <3> QED BY <1>1, <1>2, <2>1, <2>5, <3>1
  <2>6. CASE Room(4) /\ ~(ia.len - ia.off - 4 < Length) /\ Length # -1 /\ ~(Length < 0)
    <3>1. Reads(At(ia.off + 4, Length), 4 + Length, TRUE)
      BY <1>10, <2>6 DEF ia_deserialize_buffer
    <3> QED BY <1>1, <1>3, <1>8, <2>1, <2>6, <3>1
  <2> QED BY <2>2, <2>3, <2>4, <2>5, <2>6
<1>11. ASSUME ia_deserialize_string PROVE Goal
  <2>1. Reading("string") /\ rc = "ok" /\ todo' = Tail(todo)
    BY <1>11 DEF ia_deserialize_string
  <2>2. CASE ~Room(4)
    <3>1. Fails("E2BIG", 0)
      BY <1>11, <2>2 DEF ia_deserialize_string
    <3> QED BY <1>1, <1>2, <1>4, <2>1, <3>1
  <2>3. CASE Room(4) /\ ia.len - ia.off - 4 < Length
    <3>1. Fails("E2BIG", 4)
      BY <1>11, <2>3 DEF ia_deserialize_string
    <3> QED BY <1>1, <1>2, <2>1, <2>3, <3>1
  <2>4. CASE Room(4) /\ ~(ia.len - ia.off - 4 < Length) /\ Length < 0
    <3>1. Fails("EINVAL", 4)
      BY <1>11, <2>4 DEF ia_deserialize_string
    <3> QED BY <1>1, <1>2, <2>1, <2>4, <3>1
  <2>5. CASE Room(4) /\ ~(ia.len - ia.off - 4 < Length) /\ ~(Length < 0)
    <3>1. Reads(At(ia.off + 4, Length), 4 + Length, TRUE)
      BY <1>11, <2>5 DEF ia_deserialize_string
    <3> QED BY <1>1, <1>3, <1>8, <2>1, <2>5, <3>1
  <2> QED BY <2>2, <2>3, <2>4, <2>5
<1>12. Goal
  BY <1>5, <1>6, <1>7, <1>10, <1>11 DEF Reader
<1> QED BY <1>12 DEF Goal

(* A vector about to be read knows of what its elements are.                   *)
LEMMA CountPiece ==
  ASSUME NEW p \in Pieces, p.op = "count"
  PROVE  p.of \in Seq(Primitives) /\ Len(p.of) >= 1 /\ p.zeroed = FALSE
<1>1. "count" \notin Primitives
  BY DEF Primitives
<1>2. p # EndOfVector
  BY DEF EndOfVector, Step
<1>3. p \notin [op : Primitives, zeroed : BOOLEAN]
  BY <1>1
<1>4. p \in {c \in [op : {"count"}, zeroed : {FALSE}, of : Seq(Primitives)] : Len(c.of) >= 1}
  BY <1>2, <1>3 DEF Pieces
<1> QED BY <1>4

LEMMA PrimitivePieces == \A p \in Primitives, z \in BOOLEAN : Step(p, z) \in Pieces
BY DEF Step, Pieces

LEMMA ElementsAre ==
  ASSUME TypeInv, todo # <<>>, Head(todo).op = "count", NEW n \in Int
  PROVE  /\ Head(todo).of \in Seq(Primitives) /\ Len(Head(todo).of) >= 1
         /\ Reached(n) \in Int
         /\ Repeated(Head(todo).of, Reached(n)) \in Seq(Primitives)
         /\ Elements(n) \in Seq(Pieces)
         /\ Len(Elements(n)) = Len(Repeated(Head(todo).of, Reached(n))) + 1
         /\ \A i \in 1..Len(Repeated(Head(todo).of, Reached(n))) :
              Elements(n)[i] = Step(Repeated(Head(todo).of, Reached(n))[i], TRUE)
         /\ Elements(n)[Len(Repeated(Head(todo).of, Reached(n))) + 1] = EndOfVector
<1> DEFINE each == Repeated(Head(todo).of, Reached(n))
           k == Len(each)
           t == [i \in DOMAIN each |-> Step(each[i], TRUE)]
<1>1. Head(todo).of \in Seq(Primitives) /\ Len(Head(todo).of) >= 1
  <2>1. Head(todo) \in Pieces
    BY UntouchedIs
  <2> QED BY <2>1, CountPiece
<1>2. Reached(n) \in Int
  BY Remaining DEF Reached
<1>3. each \in Seq(Primitives)
  BY <1>1, <1>2, RepeatedIs
<1>4. Elements(n) = t \o <<EndOfVector>>
  BY DEF Elements
<1> HIDE DEF each
<1>5. k \in Nat /\ DOMAIN each = 1..k
  BY <1>3
<1>6. ASSUME NEW i \in 1..k PROVE Step(each[i], TRUE) \in Pieces
  <2>1. each[i] \in Primitives
    BY <1>3
  <2> QED BY <2>1, PrimitivePieces
<1>7. t \in Seq(Pieces) /\ Len(t) = k /\ \A i \in 1..k : t[i] = Step(each[i], TRUE)
  <2>1. t = [i \in 1..k |-> Step(each[i], TRUE)]
    BY <1>5
  <2> DEFINE piece(i) == Step(each[i], TRUE)
  <2>2. t = [i \in 1..k |-> piece(i)] /\ \A i \in 1..k : piece(i) \in Pieces
    BY <1>6, <2>1
  <2> HIDE DEF t, k, piece
  <2>3. t \in Seq(Pieces) /\ Len(t) = k /\ \A i \in 1..k : t[i] = piece(i)
    BY <1>5, <2>2
  <2> QED BY <2>3 DEF piece
<1> HIDE DEF t, k
<1>8. <<EndOfVector>> \in Seq(Pieces) /\ Len(<<EndOfVector>>) = 1
      /\ <<EndOfVector>>[1] = EndOfVector
  BY DEF Pieces
<1> DEFINE e == <<EndOfVector>>
<1>9. e \in Seq(Pieces) /\ Len(e) = 1 /\ e[1] = EndOfVector
  BY <1>8
<1> HIDE DEF e
<1>10. /\ t \o e \in Seq(Pieces) /\ Len(t \o e) = Len(t) + Len(e)
       /\ \A i \in 1..(Len(t) + Len(e)) : (t \o e)[i] = IF i <= Len(t) THEN t[i] ELSE e[i - Len(t)]
  BY <1>7, <1>9, ConcatProperties
<1>11. /\ \A i \in 1..k : i \in 1..(Len(t) + Len(e)) /\ i <= Len(t)
       /\ k + 1 \in 1..(Len(t) + Len(e)) /\ ~(k + 1 <= Len(t)) /\ (k + 1) - Len(t) = 1
  BY <1>5, <1>7, <1>9
<1>12. Elements(n) = t \o e
  BY <1>4 DEF e
<1>13. \A i \in 1..k : Elements(n)[i] = Step(each[i], TRUE)
  BY <1>7, <1>10, <1>11, <1>12
<1>14. Elements(n)[k + 1] = EndOfVector
  BY <1>9, <1>10, <1>11, <1>12
<1>15. Elements(n) \in Seq(Pieces) /\ Len(Elements(n)) = k + 1
  BY <1>7, <1>9, <1>10, <1>12
<1> QED BY <1>1, <1>2, <1>3, <1>13, <1>14, <1>15 DEF k, each

LEMMA PlanIs ==
  ASSUME shape \in Seq(Fields)
  PROVE  /\ Plan(shape) \in Seq(Pieces) /\ Len(Plan(shape)) = Len(shape)
         /\ \A p \in 1..Len(shape) :
              Plan(shape)[p] =
                IF shape[p].vector THEN [op |-> "count", zeroed |-> FALSE, of |-> shape[p].of]
                                   ELSE Step(shape[p].of[1], FALSE)
<1>1. Len(shape) \in Nat /\ DOMAIN shape = 1..Len(shape)
  OBVIOUS
<1> DEFINE piece(p) == IF shape[p].vector THEN [op |-> "count", zeroed |-> FALSE, of |-> shape[p].of]
                                          ELSE Step(shape[p].of[1], FALSE)
<1>2. ASSUME NEW p \in 1..Len(shape) PROVE piece(p) \in Pieces
  <2>1. shape[p] \in Fields
    OBVIOUS
  <2>2. shape[p].of \in Seq(Primitives) /\ Len(shape[p].of) >= 1
    BY <2>1, FieldsAreSound DEF IsField
  <2>3. shape[p].of[1] \in Primitives
    BY <2>2
  <2>4. Step(shape[p].of[1], FALSE) \in Pieces
    BY <2>3, PrimitivePieces
  <2>5. [op |-> "count", zeroed |-> FALSE, of |-> shape[p].of] \in Pieces
    BY <2>2 DEF Pieces
  <2> QED BY <2>4, <2>5
<1>3. Plan(shape) = [p \in 1..Len(shape) |-> piece(p)]
  BY <1>1 DEF Plan
<1> HIDE DEF piece
<1>4. /\ Plan(shape) \in Seq(Pieces) /\ Len(Plan(shape)) = Len(shape)
      /\ \A p \in 1..Len(shape) : Plan(shape)[p] = piece(p)
  BY <1>1, <1>2, <1>3
<1> QED BY <1>4 DEF piece

(* The count of a vector is read, or whatever the memory held is used.         *)
LEMMA StartOfVector ==
  ASSUME TypeInv, ia_start_vector
  PROVE  /\ phase = "read" /\ todo # <<>> /\ Head(todo).op = "count" /\ rc = "ok"
         /\ \E n \in Int :
              /\ todo' = Elements(n) \o Tail(todo)
              /\ got' = Append(got, [type |-> "count", val |-> <<n>>, mine |-> n >= 0])
              /\ Room(4) => n = Length
         /\ Room(4) => ia' = [ia EXCEPT !.off = @ + 4] /\ rc' = "ok"
         /\ ~Room(4) => rc' = "E2BIG" /\ UNCHANGED ia
         /\ UNCHANGED <<phase, cells, shape, oa, left, freed>>
<1>1. /\ phase = "read" /\ todo # <<>> /\ Head(todo).op = "count" /\ rc = "ok"
      /\ UNCHANGED <<phase, cells, shape, oa, left, freed>>
  BY DEF ia_start_vector, Reading
<1>2. PICK n \in IF Room(4) THEN {Length} ELSE Leftover :
        todo' = Elements(n) \o Tail(todo) /\ Got(<<n>>, n >= 0)
  BY DEF ia_start_vector
<1>3. n \in Int
  <2>1. CASE Room(4)
    BY <2>1, LengthIsInt
  <2>2. CASE ~Room(4)
    BY <2>2, CountAssumption, Int32IsInt
  <2> QED BY <2>1, <2>2
<1>4. Room(4) => n = Length
  OBVIOUS
<1>5. got' = Append(got, [type |-> "count", val |-> <<n>>, mine |-> n >= 0])
  BY <1>1, <1>2 DEF Got
<1>6. /\ Room(4) => ia' = [ia EXCEPT !.off = @ + 4] /\ rc' = "ok"
      /\ ~Room(4) => rc' = "E2BIG" /\ UNCHANGED ia
  BY <1>1 DEF ia_start_vector, Moved
<1> QED BY <1>1, <1>2, <1>3, <1>4, <1>5, <1>6

-------------------------------------------------------------------------------
(* The types are kept                                                          *)

LEMMA TypeInit == AnyRecord => TypeInv
<1> SUFFICES ASSUME AnyRecord PROVE TypeInv
  OBVIOUS
<1>1. shape \in Seq(Fields) /\ cells \in Seq(Cells)
  BY DEF AnyRecord
<1>2. /\ phase = "write" /\ left = Len(cells) /\ rc = "ok" /\ got = <<>> /\ freed = {} /\ todo = <<>>
      /\ oa = [len |-> InitialLength, off |-> 0, bytes |-> <<>>]
      /\ ia = [len |-> 0, off |-> 0, bytes |-> <<>>]
  BY DEF AnyRecord
<1>3. <<>> \in Seq(Byte) /\ Len(<<>>) = 0 /\ <<>> \in Seq(Pieces) /\ <<>> \in Seq(Gots)
  OBVIOUS
<1>4. IsOut(oa)
  BY <1>2, <1>3, LengthAssumption DEF IsOut, Buffers
<1>5. ia \in Buffers /\ ia.len = Len(ia.bytes) /\ ia.off <= ia.len
  BY <1>2, <1>3 DEF Buffers
<1>6. left \in 0..Len(cells)
  BY <1>1, <1>2
<1> QED BY <1>1, <1>2, <1>3, <1>4, <1>5, <1>6 DEF TypeInv

(* One more place, and what is left of the steps.                              *)
LEMMA OneMore ==
  ASSUME TypeInv, todo # <<>>, NEW g \in Gots, got' = Append(got, g), UNCHANGED freed
  PROVE  /\ got' \in Seq(Gots) /\ freed' \subseteq DOMAIN got'
         /\ Len(got') = Len(got) + 1 /\ got'[Len(got) + 1] = g
         /\ \A i \in 1..Len(got) : got'[i] = got[i]
         /\ Tail(todo) \in Seq(Pieces)
<1>1. got \in Seq(Gots) /\ todo \in Seq(Pieces) /\ freed \subseteq DOMAIN got
  BY DEF TypeInv
<1>2. /\ Append(got, g) \in Seq(Gots) /\ Len(Append(got, g)) = Len(got) + 1
      /\ Append(got, g)[Len(got) + 1] = g
      /\ \A i \in 1..Len(got) : Append(got, g)[i] = got[i]
  BY <1>1, AppendProperties
<1>3. DOMAIN got = 1..Len(got) /\ DOMAIN got' = 1..(Len(got) + 1) /\ Len(got) \in Nat
  BY <1>1, <1>2
<1>4. Tail(todo) \in Seq(Pieces)
  BY <1>1, HeadTailProperties
<1> QED BY <1>1, <1>2, <1>3, <1>4

LEMMA InputMoves ==
  ASSUME TypeInv, NEW n \in Nat, ia.off + n <= ia.len, ia' = [ia EXCEPT !.off = @ + n]
  PROVE  /\ ia' \in Buffers /\ ia'.len = Len(ia'.bytes) /\ ia'.off <= ia'.len
         /\ ia'.off = ia.off + n /\ ia'.len = ia.len /\ ia'.bytes = ia.bytes
<1>1. ia \in [len : Nat, off : Nat, bytes : Seq(Byte)] /\ ia.len = Len(ia.bytes)
  BY DEF TypeInv, Buffers
<1>2. ia'.off = ia.off + n /\ ia'.len = ia.len /\ ia'.bytes = ia.bytes
  BY <1>1
<1>3. ia' \in [len : Nat, off : Nat, bytes : Seq(Byte)]
  BY <1>1
<1> QED BY <1>1, <1>2, <1>3 DEF Buffers

LEMMA TypeStep == TypeInv /\ [Next]_vars => TypeInv'
<1> SUFFICES ASSUME TypeInv, [Next]_vars PROVE TypeInv'
  OBVIOUS
<1>1. CASE Writing
  <2>1. Wrote
    BY <1>1, WritersWrite
  <2>2. IsOut(oa)' /\ left' = left - 1 /\ left > 0
        /\ UNCHANGED <<phase, cells, shape, ia, todo, rc, got, freed>>
    BY <2>1 DEF Wrote, Appended, IsOut
  <2>3. left' \in 0..Len(cells)
    BY <2>2 DEF TypeInv
  <2> QED BY <2>2, <2>3 DEF TypeInv
<1>2. CASE Travel
  <2>1. PICK n \in 0..oa.off : ia' = [len |-> n, off |-> 0, bytes |-> SubSeq(oa.bytes, 1, n)]
    BY <1>2 DEF Travel
  <2>2. phase' = "read" /\ phase = "write" /\ todo' = Plan(shape)
        /\ UNCHANGED <<cells, shape, oa, left, rc, got, freed>>
    BY <1>2 DEF Travel
  <2>3. todo' \in Seq(Pieces)
    BY <2>2, PlanIs DEF TypeInv
  <2>4. SubSeq(oa.bytes, 1, n) \in Seq(Byte) /\ Len(SubSeq(oa.bytes, 1, n)) = n /\ n \in Nat
    <3> DEFINE b == oa.bytes
    <3>1. b \in Seq(Byte) /\ n \in Nat /\ n <= Len(b)
      BY DEF TypeInv, IsOut, Buffers
    <3> HIDE DEF b
    <3>2. \A i \in 1..n : b[i] \in Byte
      BY <3>1
    <3>3. SubSeq(b, 1, n) \in Seq(Byte) /\ Len(SubSeq(b, 1, n)) = IF 1 <= n THEN n - 1 + 1 ELSE 0
      <4>1. 1 \in Int /\ n \in Int
        BY <3>1
      <4> QED BY <3>2, <4>1, SubSeqProperties
    <3>4. (IF 1 <= n THEN n - 1 + 1 ELSE 0) = n
      BY <3>1
    <3> QED BY <3>1, <3>3, <3>4 DEF b
  <2>5. ia' \in Buffers /\ ia'.len = Len(ia'.bytes) /\ ia'.off <= ia'.len
    BY <2>1, <2>4 DEF Buffers
  <2>6. IsOut(oa)'
    BY <2>2 DEF TypeInv, IsOut
  <2>7. left' \in 0..Len(cells') /\ shape' \in Seq(Fields) /\ cells' \in Seq(Cells)
        /\ rc' \in {"ok", "E2BIG", "EINVAL", "ENOMEM"} /\ got' \in Seq(Gots)
        /\ freed' \subseteq DOMAIN got' /\ freed' = {}
    BY <2>2 DEF TypeInv
  <2> QED BY <2>2, <2>3, <2>5, <2>6, <2>7 DEF TypeInv
<1>3. ASSUME NEW g \in Gots, todo # <<>>, got' = Append(got, g), todo' \in Seq(Pieces), phase = "read",
             rc' \in {"ok", "E2BIG", "EINVAL", "ENOMEM"},
             ia' \in Buffers /\ ia'.len = Len(ia'.bytes) /\ ia'.off <= ia'.len,
             UNCHANGED <<phase, cells, shape, oa, left, freed>>
      PROVE  TypeInv'
  <2>1. got' \in Seq(Gots) /\ freed' \subseteq DOMAIN got'
    BY <1>3, OneMore
  <2>2. IsOut(oa)' /\ left' \in 0..Len(cells') /\ shape' \in Seq(Fields) /\ cells' \in Seq(Cells)
        /\ phase' = "read" /\ freed' = {}
    BY <1>3 DEF TypeInv, IsOut
  <2> QED BY <1>3, <2>1, <2>2 DEF TypeInv
<1>4. CASE Reader
  <2>1. PICK n, val, mine, code : Took(n, val, mine, code) /\ Settled(val, mine, code)
    BY <1>4, ReadersTake
  <2> DEFINE g == [type |-> Head(todo).op, val |-> val, mine |-> mine]
  <2>2. g \in Gots
    <3>1. Head(todo).op \in Primitives
      BY <1>4, ReadersTake
    <3> QED BY <2>1, <3>1 DEF Settled, Gots
  <2>3. todo # <<>> /\ got' = Append(got, g) /\ phase = "read" /\ rc' = code
        /\ UNCHANGED <<phase, cells, shape, oa, left, freed>> /\ todo' = Tail(todo)
    BY <2>1 DEF Took
  <2>4. ia' \in Buffers /\ ia'.len = Len(ia'.bytes) /\ ia'.off <= ia'.len
    BY <2>1, InputMoves DEF Took
  <2>5. todo' \in Seq(Pieces)
    BY <2>3, HeadTailProperties DEF TypeInv
  <2>6. rc' \in {"ok", "E2BIG", "EINVAL", "ENOMEM"}
    BY <2>1, <2>3 DEF Settled
  <2> HIDE DEF g
  <2> QED BY <1>3, <2>2, <2>3, <2>4, <2>5, <2>6
<1>5. CASE Skip
  <2> DEFINE g == [type |-> Head(todo).op, val |-> Untouched, mine |-> FALSE]
  <2>1. /\ todo # <<>> /\ got' = Append(got, g) /\ phase = "read" /\ todo' = Tail(todo)
        /\ UNCHANGED <<phase, cells, shape, oa, left, ia, rc, freed>> /\ Head(todo).op # "end"
    BY <1>5 DEF Skip, Got
  <2>2. g \in Gots
    BY <2>1, UntouchedIs DEF Gots
  <2>3. todo' \in Seq(Pieces)
    BY <2>1, HeadTailProperties DEF TypeInv
  <2>4. /\ ia' \in Buffers /\ ia'.len = Len(ia'.bytes) /\ ia'.off <= ia'.len
        /\ rc' \in {"ok", "E2BIG", "EINVAL", "ENOMEM"}
    BY <2>1 DEF TypeInv
  <2> HIDE DEF g
  <2> QED BY <1>3, <2>1, <2>2, <2>3, <2>4
<1>6. CASE ia_start_vector
  <2>1. PICK n \in Int :
              /\ todo' = Elements(n) \o Tail(todo)
              /\ got' = Append(got, [type |-> "count", val |-> <<n>>, mine |-> n >= 0])
    BY <1>6, StartOfVector
  <2>2. /\ phase = "read" /\ todo # <<>> /\ Head(todo).op = "count"
        /\ Room(4) => ia' = [ia EXCEPT !.off = @ + 4] /\ rc' = "ok"
        /\ ~Room(4) => rc' = "E2BIG" /\ UNCHANGED ia
        /\ UNCHANGED <<phase, cells, shape, oa, left, freed>>
    BY <1>6, StartOfVector
  <2> DEFINE g == [type |-> "count", val |-> <<n>>, mine |-> n >= 0]
  <2>3. g \in Gots
    <3>1. <<n>> \in Seq(Int)
      OBVIOUS
    <3> QED BY <3>1 DEF Gots, AllValues
  <2>4. todo' \in Seq(Pieces)
    <3>1. Elements(n) \in Seq(Pieces)
      BY <2>2, ElementsAre
    <3>2. Tail(todo) \in Seq(Pieces)
      BY <2>2, HeadTailProperties DEF TypeInv
    <3>3. Elements(n) \o Tail(todo) \in Seq(Pieces)
      BY <3>1, <3>2, ConcatProperties
    <3> QED BY <2>1, <3>3
  <2>5. ia' \in Buffers /\ ia'.len = Len(ia'.bytes) /\ ia'.off <= ia'.len
    <3>1. CASE Room(4)
      <4>1. ia.off + 4 <= ia.len
        BY <3>1, Remaining
      <4>2. 4 \in Nat
        OBVIOUS
      <4> QED BY <2>2, <3>1, <4>1, <4>2, InputMoves
    <3>2. CASE ~Room(4)
      BY <2>2, <3>2 DEF TypeInv
    <3> QED BY <3>1, <3>2
  <2>6. rc' \in {"ok", "E2BIG", "EINVAL", "ENOMEM"}
    BY <2>2
  <2>7. got' = Append(got, g)
    BY <2>1
  <2> HIDE DEF g
  <2> QED BY <1>3, <2>2, <2>3, <2>4, <2>5, <2>6, <2>7
<1>7. CASE ia_end_vector
  <2>1. todo # <<>> /\ todo' = Tail(todo) /\ rc' = "ok"
        /\ UNCHANGED <<phase, cells, shape, oa, left, ia, got, freed>>
    BY <1>7 DEF ia_end_vector, Reading
  <2>2. todo' \in Seq(Pieces)
    BY <2>1, HeadTailProperties DEF TypeInv
  <2> QED BY <2>1, <2>2 DEF TypeInv, IsOut
<1>8. CASE EndRead
  <2>1. phase = "read" /\ phase' \in {"free", "done"}
        /\ UNCHANGED <<cells, shape, oa, left, ia, todo, rc, got, freed>>
    BY <1>8 DEF EndRead
  <2> QED BY <2>1 DEF TypeInv, IsOut
<1>9. CASE Deallocate
  <2>1. phase = "free" /\ phase' = "done" /\ freed' \subseteq DOMAIN got
        /\ UNCHANGED <<cells, shape, oa, left, ia, todo, rc, got>>
    BY <1>9 DEF Deallocate
  <2> QED BY <2>1 DEF TypeInv, IsOut
<1>10. CASE UNCHANGED vars
  BY <1>10 DEF TypeInv, IsOut, vars
<1> QED BY <1>1, <1>2, <1>4, <1>5, <1>6, <1>7, <1>8, <1>9, <1>10 DEF Next, Writing, Reader

LEMMA TypesAreKept == AnySpec => []TypeInv
<1>1. AnyRecord => TypeInv
  BY TypeInit
<1>2. TypeInv /\ [Next]_vars => TypeInv'
  BY TypeStep
<1> QED BY <1>1, <1>2, PTL DEF AnySpec

(* Neither archive is used past its end, whatever is written, however the      *)
(* frame is cut and wherever the reader believes itself to be.                 *)
THEOREM ArchivesStayInside == (Spec => []StaysInside) /\ (AnySpec => []StaysInside)
<1>1. TypeInv => StaysInside
  BY DEF TypeInv, StaysInside, TypeOK, IsOut, Buffers
<1> QED BY <1>1, SpecIsAnySpec, TypesAreKept, PTL

-------------------------------------------------------------------------------
(* What is left to read                                                        *)

(* The first m steps are of a vector: its elements, and its end.  The others   *)
(* are the last of the record's plan.                                          *)
Pending(m) ==
  /\ Len(todo) - m <= Len(shape)
  /\ \A j \in 1..(m - 1) : todo[j].op \in Primitives /\ todo[j].zeroed
  /\ m > 0 => todo[m] = EndOfVector
  /\ \A j \in (m + 1)..Len(todo) : todo[j] = Plan(shape)[Len(shape) - Len(todo) + j]

TodoInv == \E m \in 0..Len(todo) : Pending(m)

(* A step of the plan is no end of a vector, and finds memory as it was.       *)
LEMMA PlanSteps ==
  ASSUME TypeInv, NEW p \in 1..Len(shape)
  PROVE  Plan(shape)[p] \in Pieces /\ Plan(shape)[p].op # "end" /\ Plan(shape)[p].zeroed = FALSE
<1>1. shape \in Seq(Fields)
  BY DEF TypeInv
<1>2. Plan(shape) \in Seq(Pieces) /\ Len(Plan(shape)) = Len(shape)
  BY <1>1, PlanIs
<1>3. Plan(shape)[p] \in Pieces
  BY <1>2
<1>4. shape[p].of[1] \in Primitives
  <2>1. shape[p] \in Fields
    BY <1>1
  <2> QED BY <2>1, FieldsAreSound DEF IsField
<1>5. "end" \notin Primitives
  BY DEF Primitives
<1>6. CASE shape[p].vector
  <2>1. Plan(shape)[p] = [op |-> "count", zeroed |-> FALSE, of |-> shape[p].of]
    BY <1>1, <1>6, PlanIs
  <2> QED BY <1>3, <2>1
<1>7. CASE ~shape[p].vector
  <2>1. Plan(shape)[p] = [op |-> shape[p].of[1], zeroed |-> FALSE]
    BY <1>1, <1>7, PlanIs DEF Step
  <2> QED BY <1>3, <1>4, <1>5, <2>1
<1> QED BY <1>6, <1>7

(* The step at the head says whether a vector is being read.                   *)
LEMMA HeadTells ==
  ASSUME TypeInv, todo # <<>>, NEW m \in 0..Len(todo), Pending(m)
  PROVE  /\ Head(todo) = todo[1] /\ Len(todo) \in Nat /\ Len(todo) >= 1
         /\ m = 0 => /\ Head(todo).op # "end" /\ Head(todo).zeroed = FALSE
                     /\ Len(shape) - Len(todo) + 1 \in 1..Len(shape)
                     /\ Head(todo) = Plan(shape)[Len(shape) - Len(todo) + 1]
         /\ m = 1 => Head(todo) = EndOfVector /\ Head(todo).op = "end"
         /\ m > 1 => Head(todo).op \in Primitives /\ Head(todo).zeroed /\ Head(todo).op # "end"
                     /\ Head(todo).op # "count"
<1>1. todo \in Seq(Pieces) /\ shape \in Seq(Fields)
  BY DEF TypeInv
<1>2. Head(todo) = todo[1] /\ Len(todo) \in Nat /\ Len(todo) >= 1 /\ Len(shape) \in Nat
  BY <1>1
<1>3. CASE m = 0
  <2>1. Len(todo) <= Len(shape)
    BY <1>2, <1>3 DEF Pending
  <2>2. Len(shape) - Len(todo) + 1 \in 1..Len(shape)
    BY <1>2, <2>1
  <2>3. 1 \in (m + 1)..Len(todo)
    BY <1>2, <1>3
  <2>4. todo[1] = Plan(shape)[Len(shape) - Len(todo) + 1]
    BY <2>3 DEF Pending
  <2> DEFINE q == Plan(shape)[Len(shape) - Len(todo) + 1]
  <2>5. q.op # "end" /\ q.zeroed = FALSE
    BY <2>2, PlanSteps
  <2>6. Head(todo) = q
    BY <1>2, <2>4
  <2> HIDE DEF q
  <2>7. Head(todo).op # "end" /\ Head(todo).zeroed = FALSE
    BY <2>5, <2>6
  <2> QED BY <1>2, <1>3, <2>2, <2>6, <2>7 DEF q
<1>4. CASE m = 1
  <2>1. todo[1] = EndOfVector
    BY <1>4 DEF Pending
  <2> QED BY <1>2, <1>4, <2>1 DEF EndOfVector, Step
<1>5. CASE m > 1
  <2>1. 1 \in 1..(m - 1)
    BY <1>5
  <2>2. todo[1].op \in Primitives /\ todo[1].zeroed
    BY <2>1 DEF Pending
  <2> QED BY <1>2, <1>5, <2>2 DEF Primitives
<1> QED BY <1>2, <1>3, <1>4, <1>5

(* One step less.                                                              *)
LEMMA TailPending ==
  ASSUME TypeInv, todo # <<>>, NEW m \in 0..Len(todo), Pending(m),
         todo' = Tail(todo), shape' = shape
  PROVE  /\ Len(todo') = Len(todo) - 1
         /\ \A j \in 1..(Len(todo) - 1) : todo'[j] = todo[j + 1]
         /\ m = 0 => 0 \in 0..Len(todo') /\ Pending(0)'
         /\ m > 0 => m - 1 \in 0..Len(todo') /\ Pending(m - 1)'
<1> DEFINE n == Len(todo)
           l == Len(shape)
           plan == Plan(shape)
<1>1. todo \in Seq(Pieces) /\ shape \in Seq(Fields)
  BY DEF TypeInv
<1>2. n \in Nat /\ n >= 1 /\ l \in Nat
  BY <1>1
<1>3. Len(todo') = n - 1 /\ \A j \in 1..(n - 1) : todo'[j] = todo[j + 1]
  BY <1>1, HeadTailProperties
<1>4. /\ n - m <= l
      /\ \A j \in 1..(m - 1) : todo[j].op \in Primitives /\ todo[j].zeroed
      /\ m > 0 => todo[m] = EndOfVector
      /\ \A j \in (m + 1)..n : todo[j] = plan[l - n + j]
  BY DEF Pending
<1>5. l = Len(shape') /\ plan = Plan(shape')
  OBVIOUS
<1> HIDE DEF n, l, plan
<1>6. CASE m = 0
  <2>1. ASSUME NEW j \in (0 + 1)..(n - 1) PROVE todo'[j] = plan[l - (n - 1) + j]
    <3>1. j \in 1..(n - 1) /\ j + 1 \in (m + 1)..n /\ l - (n - 1) + j = l - n + (j + 1)
      BY <1>2, <1>6
    <3> QED BY <1>3, <1>4, <3>1
  <2>2. (n - 1) - 0 <= l /\ 0 \in 0..(n - 1) /\ 1..(0 - 1) = {} /\ ~(0 > 0)
    BY <1>2, <1>4, <1>6
  <2>3. Pending(0)'
    BY <1>3, <1>5, <2>1, <2>2 DEF Pending
  <2> QED BY <1>3, <1>6, <2>2, <2>3 DEF n
<1>7. CASE m > 0
  <2>1. ASSUME NEW j \in ((m - 1) + 1)..(n - 1) PROVE todo'[j] = plan[l - (n - 1) + j]
    <3>1. j \in 1..(n - 1) /\ j + 1 \in (m + 1)..n /\ l - (n - 1) + j = l - n + (j + 1)
      BY <1>2, <1>7
    <3> QED BY <1>3, <1>4, <3>1
  <2>2. ASSUME NEW j \in 1..((m - 1) - 1)
        PROVE  todo'[j].op \in Primitives /\ todo'[j].zeroed
    <3>1. j \in 1..(n - 1) /\ j + 1 \in 1..(m - 1)
      BY <1>2, <1>7 DEF n
    <3> QED BY <1>3, <1>4, <3>1
  <2>3. (n - 1) - (m - 1) <= l /\ m - 1 \in 0..(n - 1)
    BY <1>2, <1>4, <1>7 DEF n
  <2>4. m - 1 > 0 => todo'[m - 1] = EndOfVector
    <3> SUFFICES ASSUME m - 1 > 0 PROVE todo'[m - 1] = EndOfVector
      OBVIOUS
    <3>1. m - 1 \in 1..(n - 1) /\ (m - 1) + 1 = m
      BY <1>2 DEF n
    <3> QED BY <1>3, <1>4, <1>7, <3>1
  <2>5. Pending(m - 1)'
    BY <1>3, <1>5, <2>1, <2>2, <2>3, <2>4 DEF Pending
  <2> QED BY <1>3, <1>7, <2>3, <2>5 DEF n
<1> QED BY <1>6, <1>7

(* A vector begins: its elements, its end, and the rest.                       *)
LEMMA ElementsPending ==
  ASSUME TypeInv, todo # <<>>, NEW m \in 0..Len(todo), Pending(m), Head(todo).op = "count",
         NEW n \in Int, todo' = Elements(n) \o Tail(todo), shape' = shape
  PROVE  /\ m = 0
         /\ \E k \in Nat :
              /\ k = Len(Repeated(Head(todo).of, Reached(n)))
              /\ k + 1 \in 0..Len(todo') /\ Pending(k + 1)'
              /\ Len(todo') = k + Len(todo)
              /\ \A j \in 1..k : todo'[j].op = Repeated(Head(todo).of, Reached(n))[j]
<1> DEFINE each == Repeated(Head(todo).of, Reached(n))
           e == Elements(n)
           t == Tail(todo)
           d == Len(todo)
           l == Len(shape)
           plan == Plan(shape)
<1>1. m = 0
  <2>1. ~(m = 1) /\ ~(m > 1)
    BY HeadTells
  <2> QED BY <2>1
<1>2. todo \in Seq(Pieces) /\ shape \in Seq(Fields) /\ d \in Nat /\ d >= 1 /\ l \in Nat
  BY DEF TypeInv
<1>8. PICK k \in Nat : k = Len(each)
  <2>1. each \in Seq(Primitives)
    BY ElementsAre
  <2> QED BY <2>1
<1>3. /\ e \in Seq(Pieces) /\ Len(e) = k + 1 /\ each \in Seq(Primitives)
      /\ \A i \in 1..k : e[i] = Step(each[i], TRUE)
      /\ e[k + 1] = EndOfVector
  BY <1>8, ElementsAre
<1>4. t \in Seq(Pieces) /\ Len(t) = d - 1 /\ \A i \in 1..(d - 1) : t[i] = todo[i + 1]
  BY <1>2, HeadTailProperties
<1>5. d <= l /\ \A j \in 1..d : todo[j] = plan[l - d + j]
  <2>1. /\ Len(todo) - 0 <= Len(shape)
        /\ \A j \in (0 + 1)..Len(todo) : todo[j] = Plan(shape)[Len(shape) - Len(todo) + j]
    BY <1>1 DEF Pending
  <2> QED BY <1>2, <2>1
<1>6. todo' = e \o t /\ shape' = shape
  OBVIOUS
<1>7. l = Len(shape') /\ plan = Plan(shape')
  OBVIOUS
<1> HIDE DEF e, t, each, d, l, plan
<1>9. /\ Len(e \o t) = Len(e) + Len(t)
      /\ \A i \in 1..(Len(e) + Len(t)) : (e \o t)[i] = IF i <= Len(e) THEN e[i] ELSE t[i - Len(e)]
  BY <1>3, <1>4, ConcatProperties
<1>10. Len(todo') = k + d
  <2>1. Len(todo') = (k + 1) + (d - 1)
    BY <1>3, <1>4, <1>6, <1>9
  <2> QED BY <1>2, <1>8, <2>1
<1>11. \A i \in 1..(k + 1) : todo'[i] = e[i]
  <2>1. ASSUME NEW i \in 1..(k + 1) PROVE i \in 1..(Len(e) + Len(t)) /\ i <= Len(e)
    BY <1>2, <1>3, <1>4, <1>8
  <2> QED BY <1>6, <1>9, <2>1
<1>12. ASSUME NEW i \in (k + 1 + 1)..(k + d) PROVE todo'[i] = plan[l - (k + d) + i]
  <2>1. /\ i \in 1..(Len(e) + Len(t)) /\ ~(i <= Len(e)) /\ i - Len(e) \in 1..(d - 1)
        /\ (i - Len(e)) + 1 = i - k /\ i - k \in 1..d /\ l - d + (i - k) = l - (k + d) + i
    BY <1>2, <1>3, <1>4, <1>8
  <2>2. todo'[i] = t[i - Len(e)]
    BY <1>6, <1>9, <2>1
  <2>3. t[i - Len(e)] = todo[i - k]
    BY <1>4, <2>1
  <2> QED BY <1>5, <2>1, <2>2, <2>3
<1>13. ASSUME NEW j \in 1..k
       PROVE  /\ todo'[j] = Step(each[j], TRUE) /\ todo'[j].op = each[j]
              /\ todo'[j].op \in Primitives /\ todo'[j].zeroed
  <2>1. j \in 1..(k + 1) /\ each[j] \in Primitives
    BY <1>3, <1>8
  <2>2. todo'[j] = Step(each[j], TRUE)
    BY <1>3, <1>11, <2>1
  <2> DEFINE s == Step(each[j], TRUE)
  <2>3. s.op = each[j] /\ s.zeroed
    BY DEF Step
  <2>4. todo'[j] = s
    BY <2>2
  <2> HIDE DEF s
  <2>5. todo'[j].op = each[j] /\ todo'[j].zeroed
    BY <2>3, <2>4
  <2> QED BY <2>1, <2>2, <2>5
<1>14. todo'[k + 1] = EndOfVector
  <2>1. k + 1 \in 1..(k + 1)
    BY <1>8
  <2> QED BY <1>3, <1>11, <2>1
<1>15. (k + d) - (k + 1) <= l /\ (k + 1) - 1 = k /\ k + 1 \in 0..(k + d)
  BY <1>2, <1>5, <1>8
<1>16. Pending(k + 1)'
  <2> DEFINE w == k + 1
  <2>1. w \in Nat /\ w - 1 = k /\ (k + d) - w <= l /\ w > 0
    BY <1>8, <1>15
  <2>2. todo'[w] = EndOfVector /\ \A i \in (w + 1)..(k + d) : todo'[i] = plan[l - (k + d) + i]
    BY <1>12, <1>14
  <2> HIDE DEF w
  <2>3. \A j \in 1..(w - 1) : todo'[j].op \in Primitives /\ todo'[j].zeroed
    BY <1>13, <2>1
  <2>4. /\ Len(todo') - w <= Len(shape')
        /\ \A j \in (w + 1)..Len(todo') :
             todo'[j] = Plan(shape')[Len(shape') - Len(todo') + j]
    BY <1>7, <1>10, <2>1, <2>2
  <2>5. Pending(w)'
    BY <2>2, <2>3, <2>4 DEF Pending
  <2> QED BY <2>5 DEF w
<1> QED BY <1>1, <1>8, <1>10, <1>13, <1>15, <1>16 DEF each, d

LEMMA TodoStep == TypeInv /\ TodoInv /\ [Next]_vars => TodoInv'
<1> SUFFICES ASSUME TypeInv, TodoInv, [Next]_vars PROVE TodoInv'
  OBVIOUS
<1>1. PICK m \in 0..Len(todo) : Pending(m)
  BY DEF TodoInv
<1>2. CASE UNCHANGED <<todo, shape>>
  BY <1>1, <1>2 DEF TodoInv, Pending
<1>3. CASE todo # <<>> /\ todo' = Tail(todo) /\ shape' = shape
  <2>1. (m = 0 \/ m > 0) /\ 0 \in 0..0
    OBVIOUS
  <2> QED BY <1>1, <1>3, <2>1, TailPending DEF TodoInv
<1>4. CASE Travel
  <2>1. todo' = Plan(shape) /\ shape' = shape
    BY <1>4 DEF Travel
  <2>2. Len(Plan(shape)) = Len(shape) /\ Len(shape) \in Nat
    BY PlanIs DEF TypeInv
  <2>3. Len(todo') = Len(shape) /\ 0 \in 0..Len(todo') /\ Len(todo') - 0 <= Len(shape')
        /\ 1..(0 - 1) = {} /\ ~(0 > 0)
    BY <2>1, <2>2
  <2>4. ASSUME NEW j \in (0 + 1)..Len(todo')
        PROVE  todo'[j] = Plan(shape')[Len(shape') - Len(todo') + j]
    <3>1. Len(shape') - Len(todo') + j = j
      BY <2>1, <2>2, <2>3
    <3> QED BY <2>1, <3>1
  <2>5. Pending(0)'
    BY <2>3, <2>4 DEF Pending
  <2> QED BY <2>3, <2>5 DEF TodoInv
<1>5. CASE ia_start_vector
  <2>1. PICK n \in Int : todo' = Elements(n) \o Tail(todo)
    BY <1>5, StartOfVector
  <2>2. todo # <<>> /\ Head(todo).op = "count" /\ shape' = shape
    BY <1>5, StartOfVector
  <2>3. PICK k \in Nat : k + 1 \in 0..Len(todo') /\ Pending(k + 1)'
    BY <1>1, <2>1, <2>2, ElementsPending
  <2> DEFINE w == k + 1
  <2>4. w \in 0..Len(todo') /\ Pending(w)'
    BY <2>3
  <2> HIDE DEF w
  <2> QED BY <2>4 DEF TodoInv
<1>6. CASE Reader \/ Skip \/ ia_end_vector
  <2>1. todo # <<>> /\ todo' = Tail(todo) /\ shape' = shape
    BY <1>6 DEF Reader, Skip, ia_end_vector, Reading, ia_deserialize_int, ia_deserialize_long,
                ia_deserialize_bool, ia_deserialize_buffer, ia_deserialize_string
  <2> QED BY <1>3, <2>1
<1>7. CASE Writing
  <2>1. UNCHANGED <<todo, shape>>
    BY <1>7, WritersWrite DEF Wrote
  <2> QED BY <1>2, <2>1
<1>8. CASE EndRead \/ Deallocate \/ UNCHANGED vars
  <2>1. UNCHANGED <<todo, shape>>
    BY <1>8 DEF EndRead, Deallocate, vars
  <2> QED BY <1>2, <2>1
<1> QED BY <1>4, <1>5, <1>6, <1>7, <1>8 DEF Next, Writing, Reader

-------------------------------------------------------------------------------
(* What is freed is what was allocated                                         *)

(* A failure that no end of a vector will hide.                                *)
Stuck == rc # "ok" /\ \A j \in 1..Len(todo) : todo[j].op # "end"

Owned == \A i \in 1..Len(got) : Pointer(got[i]) <=> got[i].mine

FreeInv ==
  /\ Owned \/ Stuck
  /\ phase # "read" => todo = <<>>
  /\ phase = "write" => got = <<>> /\ rc = "ok"
  /\ phase = "free" => rc = "ok"
  /\ phase = "done" /\ rc = "ok" => freed = {i \in DOMAIN got : Pointer(got[i])}

(* Once the plan alone is left, no end of a vector follows.                    *)
LEMMA NoEndFollows ==
  ASSUME TypeInv, Pending(0)
  PROVE  \A j \in 1..Len(todo) : todo[j].op # "end"
<1>1. Len(todo) \in Nat /\ Len(shape) \in Nat
  BY DEF TypeInv
<1>2. /\ Len(todo) - 0 <= Len(shape)
      /\ \A j \in (0 + 1)..Len(todo) : todo[j] = Plan(shape)[Len(shape) - Len(todo) + j]
  BY DEF Pending
<1>3. ASSUME NEW j \in 1..Len(todo) PROVE todo[j].op # "end"
  <2>1. Len(shape) - Len(todo) + j \in 1..Len(shape) /\ j \in (0 + 1)..Len(todo)
    BY <1>1, <1>2
  <2>2. todo[j] = Plan(shape)[Len(shape) - Len(todo) + j]
    BY <1>2, <2>1
  <2> QED BY <2>1, <2>2, PlanSteps
<1> QED BY <1>3

(* A place that was skipped holds no pointer if its memory was zeroed.         *)
LEMMA ZeroedIsNoPointer ==
  ASSUME TypeInv, todo # <<>>, Head(todo).op \in Primitives, Head(todo).zeroed,
         NEW g, g = [type |-> Head(todo).op, val |-> Untouched, mine |-> FALSE]
  PROVE  Pointer(g) <=> g.mine
<1>1. Untouched = Zero(Head(todo).op)
  BY DEF Untouched
<1>2. Head(todo).op \in {"string", "buffer"} => Untouched = Null
  BY <1>1 DEF Zero
<1>3. Head(todo).op # "count"
  BY DEF Primitives
<1>4. g.type = Head(todo).op /\ g.val = Untouched /\ ~g.mine
  OBVIOUS
<1>5. ~Pointer(g)
  BY <1>2, <1>3, <1>4 DEF Pointer
<1> QED BY <1>4, <1>5

LEMMA OwnedGrows ==
  ASSUME TypeInv, Owned, todo # <<>>, NEW g \in Gots, got' = Append(got, g), UNCHANGED freed,
         Pointer(g) <=> g.mine
  PROVE  Owned'
<1>1. /\ Len(got') = Len(got) + 1 /\ got'[Len(got) + 1] = g
      /\ \A i \in 1..Len(got) : got'[i] = got[i]
  BY OneMore
<1>2. Len(got) \in Nat
  BY DEF TypeInv
<1>3. ASSUME NEW i \in 1..Len(got') PROVE Pointer(got'[i]) <=> got'[i].mine
  <2>1. CASE i = Len(got) + 1
    <3>1. got'[i] = g
      BY <1>1, <2>1
    <3> QED BY <3>1
  <2>2. CASE i # Len(got) + 1
    <3>1. i \in 1..Len(got)
      BY <1>1, <1>2, <2>2
    <3>2. got'[i] = got[i]
      BY <1>1, <3>1
    <3>3. Pointer(got[i]) <=> got[i].mine
      BY <3>1 DEF Owned
    <3> QED BY <3>2, <3>3
  <2> QED BY <2>1, <2>2
<1>4. \A i \in 1..Len(got') : Pointer(got'[i]) <=> got'[i].mine
  BY <1>3
<1> QED BY <1>4 DEF Owned, Pointer

(* A primitive or a count that was not read: either the memory was zeroed, or  *)
(* it is a field of the record, and the failure stays.                         *)
LEMMA UnreadIsHarmless ==
  ASSUME TypeInv, TodoInv, Owned \/ Stuck, todo # <<>>, Head(todo).op # "end",
         got' = Append(got, [type |-> Head(todo).op, val |-> Untouched, mine |-> FALSE]),
         todo' = Tail(todo), UNCHANGED <<shape, freed>>, rc' # "ok"
  PROVE  Owned' \/ Stuck'
<1>1. PICK m \in 0..Len(todo) : Pending(m)
  BY DEF TodoInv
<1>5. ASSUME \A j \in 1..Len(todo) : todo[j].op # "end"
      PROVE  \A j \in 1..Len(todo') : todo'[j].op # "end"
  <2>1. /\ Len(todo') = Len(todo) - 1 /\ Len(todo) \in Nat
        /\ \A j \in 1..(Len(todo) - 1) : todo'[j] = todo[j + 1]
    BY <1>1, TailPending DEF TypeInv
  <2>2. ASSUME NEW j \in 1..Len(todo') PROVE todo'[j].op # "end"
    <3>1. j \in 1..(Len(todo) - 1) /\ j + 1 \in 1..Len(todo)
      BY <2>1
    <3> QED BY <1>5, <2>1, <3>1
  <2> QED BY <2>2
<1>2. CASE m = 0
  <2>1. \A j \in 1..Len(todo) : todo[j].op # "end"
    BY <1>1, <1>2, NoEndFollows
  <2> QED BY <1>5, <2>1 DEF Stuck
<1>3. CASE m # 0 /\ Owned
  <2>0. ~(m = 1)
    BY <1>1, HeadTells
  <2>1. m > 1
    BY <1>3, <2>0
  <2>2. Head(todo).op \in Primitives /\ Head(todo).zeroed
    BY <1>1, <2>1, HeadTells
  <2> DEFINE g == [type |-> Head(todo).op, val |-> Untouched, mine |-> FALSE]
  <2>3. g \in Gots
    BY UntouchedIs DEF Gots
  <2>4. got' = Append(got, g)
    OBVIOUS
  <2>5. g = [type |-> Head(todo).op, val |-> Untouched, mine |-> FALSE]
    OBVIOUS
  <2> HIDE DEF g
  <2>6. Pointer(g) <=> g.mine
    BY <2>2, <2>5, ZeroedIsNoPointer
  <2> QED BY <1>3, <2>3, <2>4, <2>6, OwnedGrows
<1>4. CASE Stuck
  BY <1>4, <1>5 DEF Stuck
<1> QED BY <1>2, <1>3, <1>4

LEMMA FreeStep == TypeInv /\ TodoInv /\ FreeInv /\ TypeInv' /\ [Next]_vars => FreeInv'
<1> SUFFICES ASSUME TypeInv, TodoInv, FreeInv, TypeInv', [Next]_vars PROVE FreeInv'
  OBVIOUS
<1>1. ASSUME phase = "read", phase' = "read", Owned' \/ Stuck' PROVE FreeInv'
  BY <1>1 DEF FreeInv
<1>2. ASSUME UNCHANGED <<got, rc, todo>>, Owned \/ Stuck PROVE Owned' \/ Stuck'
  BY <1>2 DEF Owned, Stuck, Pointer
<1>3. Owned \/ Stuck
  BY DEF FreeInv
<1>4. CASE Writing
  <2>1. phase = "write" /\ UNCHANGED <<phase, got, rc, todo, freed>>
    BY <1>4, WritersWrite DEF Wrote
  <2> QED BY <1>2, <1>3, <2>1 DEF FreeInv
<1>5. CASE Travel
  <2>1. phase = "write" /\ phase' = "read" /\ got' = got
    BY <1>5 DEF Travel
  <2>2. got' = <<>>
    BY <2>1 DEF FreeInv
  <2>3. 1..Len(got') = {}
    BY <2>2
  <2>4. Owned'
    BY <2>3 DEF Owned
  <2> QED BY <2>1, <2>4 DEF FreeInv
<1>6. CASE Reader
  <2>1. PICK n, val, mine, code : Took(n, val, mine, code) /\ Settled(val, mine, code)
    BY <1>6, ReadersTake
  <2>2. rc = "ok" /\ todo # <<>> /\ Head(todo).op \in Primitives
    BY <1>6, ReadersTake
  <2>3. Head(todo).op # "end" /\ Head(todo).op # "count"
    BY <2>2 DEF Primitives
  <2>4. Owned
    BY <1>3, <2>2 DEF Stuck
  <2> DEFINE g == [type |-> Head(todo).op, val |-> val, mine |-> mine]
  <2>5. phase = "read" /\ todo' = Tail(todo) /\ rc' = code /\ got' = Append(got, g)
        /\ UNCHANGED <<phase, shape, freed>>
    BY <2>1 DEF Took
  <2>6. CASE code = "ok"
    <3>1. mine <=> Head(todo).op \in {"string", "buffer"} /\ val # Null
      BY <2>1, <2>6 DEF Settled
    <3>2. g \in Gots
      BY <2>1, <2>2 DEF Settled, Gots
    <3>3. g.type = Head(todo).op /\ g.val = val /\ (g.mine <=> mine)
      OBVIOUS
    <3> HIDE DEF g
    <3>4. Pointer(g) <=> g.mine
      BY <2>3, <3>1, <3>3 DEF Pointer
    <3>5. Owned'
      BY <2>2, <2>4, <2>5, <3>2, <3>4, OwnedGrows
    <3> QED BY <1>1, <2>5, <3>5
  <2>7. CASE code # "ok"
    <3>1. val = Untouched /\ mine = FALSE
      BY <2>1, <2>7 DEF Settled
    <3>2. got' = Append(got, [type |-> Head(todo).op, val |-> Untouched, mine |-> FALSE])
      BY <2>5, <3>1
    <3>3. rc' # "ok" /\ UNCHANGED <<shape, freed>>
      BY <2>5, <2>7
    <3>4. Owned' \/ Stuck'
      BY <1>3, <2>2, <2>3, <2>5, <3>2, <3>3, UnreadIsHarmless
    <3> QED BY <1>1, <2>5, <3>4
  <2> QED BY <2>6, <2>7
<1>7. CASE Skip
  <2>1. /\ phase = "read" /\ todo # <<>> /\ rc # "ok" /\ Head(todo).op # "end"
        /\ got' = Append(got, [type |-> Head(todo).op, val |-> Untouched, mine |-> FALSE])
        /\ todo' = Tail(todo) /\ UNCHANGED <<phase, shape, rc, freed>>
    BY <1>7 DEF Skip, Got
  <2>2. Owned' \/ Stuck'
    BY <1>3, <2>1, UnreadIsHarmless
  <2> QED BY <1>1, <2>1, <2>2
<1>8. CASE ia_start_vector
  <2>1. /\ phase = "read" /\ todo # <<>> /\ Head(todo).op = "count" /\ rc = "ok"
        /\ UNCHANGED <<phase, freed>>
    BY <1>8, StartOfVector
  <2>2. PICK n \in Int : got' = Append(got, [type |-> "count", val |-> <<n>>, mine |-> n >= 0])
    BY <1>8, StartOfVector
  <2> DEFINE g == [type |-> "count", val |-> <<n>>, mine |-> n >= 0]
  <2>3. <<n>> \in Seq(Int) /\ <<n>>[1] = n
    OBVIOUS
  <2>4. g \in Gots
    BY <2>3 DEF Gots, AllValues
  <2>5. g.type = "count" /\ g.val = <<n>> /\ (g.mine <=> n >= 0) /\ got' = Append(got, g)
    BY <2>2
  <2> HIDE DEF g
  <2>6. Pointer(g) <=> g.mine
    BY <2>3, <2>5, NullAssumption DEF Pointer
  <2>7. Owned
    BY <1>3, <2>1 DEF Stuck
  <2>8. Owned'
    BY <2>1, <2>4, <2>5, <2>6, <2>7, OwnedGrows
  <2> QED BY <1>1, <2>1, <2>8
<1>9. CASE ia_end_vector
  <2>1. phase = "read" /\ todo # <<>> /\ Head(todo).op = "end" /\ UNCHANGED <<phase, got>>
    BY <1>9 DEF ia_end_vector, Reading
  <2>2. 1 \in 1..Len(todo) /\ todo[1].op = "end"
    BY <2>1 DEF TypeInv
  <2>3. Owned
    BY <1>3, <2>2 DEF Stuck
  <2>4. Owned'
    BY <2>1, <2>3 DEF Owned, Pointer
  <2> QED BY <1>1, <2>1, <2>4
<1>10. CASE EndRead
  <2>1. /\ phase = "read" /\ todo = <<>> /\ phase' = IF rc = "ok" THEN "free" ELSE "done"
        /\ UNCHANGED <<todo, rc, got>>
    BY <1>10 DEF EndRead
  <2> QED BY <1>2, <1>3, <2>1 DEF FreeInv
<1>11. CASE Deallocate
  <2>1. /\ phase = "free" /\ phase' = "done" /\ freed' = {i \in DOMAIN got : Pointer(got[i])}
        /\ UNCHANGED <<todo, rc, got>>
    BY <1>11 DEF Deallocate
  <2>2. freed' = {i \in DOMAIN got' : Pointer(got[i])'}
    BY <2>1 DEF Pointer
  <2>3. todo' = <<>>
    BY <2>1 DEF FreeInv
  <2>4. Owned' \/ Stuck'
    BY <1>2, <1>3, <2>1
  <2> QED BY <2>1, <2>2, <2>3, <2>4 DEF FreeInv
<1>12. CASE UNCHANGED vars
  <2>1. UNCHANGED <<phase, got, rc, todo, freed>>
    BY <1>12 DEF vars
  <2>2. Owned' \/ Stuck'
    BY <1>2, <1>3, <2>1
  <2>3. {i \in DOMAIN got : Pointer(got[i])}' = {i \in DOMAIN got : Pointer(got[i])}
    BY <2>1 DEF Pointer
  <2> QED BY <2>1, <2>2, <2>3 DEF FreeInv
<1> QED BY <1>4, <1>5, <1>6, <1>7, <1>8, <1>9, <1>10, <1>11, <1>12 DEF Next, Writing, Reader

LEMMA FreeInit == AnyRecord => TodoInv /\ FreeInv
<1> SUFFICES ASSUME AnyRecord PROVE TodoInv /\ FreeInv
  OBVIOUS
<1>1. todo = <<>> /\ got = <<>> /\ rc = "ok" /\ phase = "write"
  BY DEF AnyRecord
<1>2. Len(todo) = 0 /\ 1..Len(got) = {} /\ Len(shape) \in Nat
  BY <1>1 DEF AnyRecord
<1>3. 0 \in 0..Len(todo) /\ 1..(0 - 1) = {} /\ (0 + 1)..Len(todo) = {} /\ Len(todo) - 0 <= Len(shape)
      /\ ~(0 > 0)
  BY <1>2
<1>4. Pending(0)
  BY <1>3 DEF Pending
<1>5. Owned
  BY <1>2 DEF Owned
<1> QED BY <1>1, <1>3, <1>4, <1>5 DEF TodoInv, FreeInv

LEMMA OwnershipIsKept == AnySpec => [](TypeInv /\ TodoInv /\ FreeInv)
<1>1. AnyRecord => TypeInv /\ TodoInv /\ FreeInv
  BY TypeInit, FreeInit
<1>2. TypeInv /\ TodoInv /\ FreeInv /\ [Next]_vars => (TypeInv /\ TodoInv /\ FreeInv)'
  BY TypeStep, TodoStep, FreeStep
<1> QED BY <1>1, <1>2, PTL DEF AnySpec

(* Freeing a record that was reported as read gives back exactly what reading  *)
(* allocated.                                                                  *)
THEOREM RecordsFreeWhatTheyOwn == (Spec => []FreesWhatItOwns) /\ (AnySpec => []FreesWhatItOwns)
<1>1. TypeInv /\ FreeInv => FreesWhatItOwns
  <2> SUFFICES ASSUME TypeInv, FreeInv, phase = "done", rc = "ok"
               PROVE  freed = {i \in DOMAIN got : got[i].mine}
    BY DEF FreesWhatItOwns, Ended
  <2>1. Owned /\ DOMAIN got = 1..Len(got)
    BY DEF FreeInv, Stuck, TypeInv
  <2>2. \A i \in DOMAIN got : Pointer(got[i]) <=> got[i].mine
    BY <2>1 DEF Owned
  <2>3. freed = {i \in DOMAIN got : Pointer(got[i])}
    BY DEF FreeInv
  <2> QED BY <2>2, <2>3
<1> QED BY <1>1, SpecIsAnySpec, OwnershipIsKept, PTL

-------------------------------------------------------------------------------
(* Where the cells are                                                         *)

(* The function of WireLength, for any cells.                                  *)
Lengths(cs) ==
  CHOOSE h : h = [i \in 0..Len(cs) |-> IF i = 0 THEN 0 ELSE h[i - 1] + BytesOf(cs[i])]

LEMMA LengthsAre ==
  ASSUME NEW cs \in Seq(Cells)
  PROVE  /\ Lengths(cs)[0] = 0
         /\ \A i \in 0..Len(cs) : Lengths(cs)[i] \in Nat
         /\ \A i \in 0..(Len(cs) - 1) : Lengths(cs)[i + 1] = Lengths(cs)[i] + BytesOf(cs[i + 1])
<1> DEFINE n == Len(cs)
           step == [p \in Nat \X Nat |-> IF p[1] + 1 \in 1..n THEN p[2] + BytesOf(cs[p[1] + 1]) ELSE p[2]]
           Is(h) == h = [i \in 0..n |-> IF i = 0 THEN 0 ELSE h[i - 1] + BytesOf(cs[i])]
<1>1. n \in Nat /\ \A i \in 1..n : BytesOf(cs[i]) \in Nat
  <2>1. \A i \in 1..n : cs[i] \in Cells
    OBVIOUS
  <2> QED BY <2>1, EncodedIs
<1>2. ASSUME NEW i \in Nat, NEW d \in Nat
      PROVE  step[<<i, d>>] = IF i + 1 \in 1..n THEN d + BytesOf(cs[i + 1]) ELSE d
  <2>1. <<i, d>> \in Nat \X Nat /\ <<i, d>>[1] = i /\ <<i, d>>[2] = d
    OBVIOUS
  <2> QED BY <2>1
<1> HIDE DEF step, n
<1>3. \A i \in Nat : \A d \in Nat : step[<<i, d>>] \in Nat
  <2> SUFFICES ASSUME NEW i \in Nat, NEW d \in Nat PROVE step[<<i, d>>] \in Nat
    OBVIOUS
  <2>1. i + 1 \in 1..n => d + BytesOf(cs[i + 1]) \in Nat
    <3>1. i + 1 \in 1..n => BytesOf(cs[i + 1]) \in Nat
      BY <1>1
    <3> QED BY <3>1
  <2> QED BY <1>2, <2>1
<1>4. PICK f : Chain(f, Nat, 0, step)
  BY <1>3, Recursion
<1> DEFINE g == [i \in 0..n |-> f[i]]
<1>5. Is(g)
  <2>1. ASSUME NEW i \in 0..n PROVE g[i] = IF i = 0 THEN 0 ELSE g[i - 1] + BytesOf(cs[i])
    <3>1. CASE i = 0
      BY <1>4, <3>1 DEF Chain
    <3>2. CASE i # 0
      <4>1. i - 1 \in Nat /\ (i - 1) + 1 = i /\ i \in 1..n /\ i - 1 \in 0..n
        BY <1>1, <3>2
      <4>2. f[(i - 1) + 1] = step[<<i - 1, f[i - 1]>>] /\ f[i - 1] \in Nat
        BY <1>4, <4>1 DEF Chain
      <4>3. step[<<i - 1, f[i - 1]>>] = f[i - 1] + BytesOf(cs[i])
        BY <1>2, <4>1, <4>2
      <4>4. g[i] = f[i] /\ g[i - 1] = f[i - 1]
        BY <4>1
      <4> QED BY <3>2, <4>1, <4>2, <4>3, <4>4
    <3> QED BY <3>1, <3>2
  <2> QED BY <2>1
<1> DEFINE h == CHOOSE e : Is(e)
<1>6. Is(h)
  <2> HIDE DEF Is, g
  <2> QED BY <1>5
<1>7. h = Lengths(cs)
  BY DEF Lengths, n
<1> HIDE DEF h, g
<1>8. \A i \in 0..n : h[i] = IF i = 0 THEN 0 ELSE h[i - 1] + BytesOf(cs[i])
  BY <1>6
<1>9. h[0] = 0
  BY <1>1, <1>8
<1>10. ASSUME NEW i \in 0..(n - 1) PROVE h[i + 1] = h[i] + BytesOf(cs[i + 1])
  <2>1. i + 1 \in 0..n /\ i + 1 # 0 /\ (i + 1) - 1 = i
    BY <1>1
  <2> QED BY <1>8, <2>1
<1> DEFINE S == {i \in Nat : i <= n => h[i] \in Nat}
<1>11. 0 \in S
  BY <1>9
<1>12. ASSUME NEW i \in Nat, i \in S PROVE i + 1 \in S
  <2> SUFFICES ASSUME i + 1 <= n PROVE h[i + 1] \in Nat
    OBVIOUS
  <2>1. i \in 0..(n - 1) /\ i <= n /\ i + 1 \in 1..n
    BY <1>1
  <2>2. h[i] \in Nat /\ BytesOf(cs[i + 1]) \in Nat
    BY <1>1, <1>12, <2>1
  <2>3. h[i + 1] = h[i] + BytesOf(cs[i + 1])
    BY <1>10, <2>1
  <2> QED BY <2>2, <2>3
<1>13. Nat \subseteq S
  <2> HIDE DEF S
  <2> QED BY <1>11, <1>12, Induction
<1>14. \A i \in 0..n : h[i] \in Nat
  BY <1>1, <1>13
<1> QED BY <1>7, <1>9, <1>10, <1>14 DEF n

LEMMA WireLengthIsLengths ==
  /\ WireLength = Lengths(cells)
  /\ cells' = cells => WireLength' = WireLength
<1>1. WireLength = Lengths(cells)
  BY DEF WireLength, Lengths
<1>2. WireLength' = Lengths(cells')
  BY DEF WireLength, Lengths, BytesOf
<1> QED BY <1>1, <1>2

(* The lengths add up, and grow by one or more with every cell.                *)
LEMMA WireLengthIs ==
  ASSUME TypeInv
  PROVE  /\ WireLength[0] = 0
         /\ \A i \in 0..Len(cells) : WireLength[i] \in Nat
         /\ \A i \in 0..(Len(cells) - 1) :
              WireLength[i + 1] = WireLength[i] + BytesOf(cells[i + 1])
BY WireLengthIsLengths, LengthsAre DEF TypeInv

LEMMA WireLengthGrows ==
  ASSUME TypeInv, NEW i \in 0..Len(cells), NEW j \in i..Len(cells)
  PROVE  WireLength[j] - WireLength[i] >= j - i
<1>1. PICK n \in Nat : n = Len(cells)
  BY DEF TypeInv
<1>2. /\ \A k \in 0..n : WireLength[k] \in Nat
      /\ \A k \in 0..(n - 1) : WireLength[k + 1] = WireLength[k] + BytesOf(cells[k + 1])
  BY <1>1, WireLengthIs
<1>3. \A k \in 1..n : BytesOf(cells[k]) \in Nat /\ BytesOf(cells[k]) >= 1
  <2>1. \A k \in 1..n : cells[k] \in Cells
    BY <1>1 DEF TypeInv
  <2> QED BY <2>1, EncodedIs
<1>4. i \in 0..n /\ j \in i..n /\ i \in Nat
  BY <1>1
<1> DEFINE S == {d \in Nat : i + d <= n => WireLength[i + d] - WireLength[i] >= d}
<1>5. 0 \in S
  <2>1. i + 0 = i /\ WireLength[i] \in Nat
    BY <1>2, <1>4
  <2> QED BY <2>1
<1>6. ASSUME NEW d \in Nat, d \in S PROVE d + 1 \in S
  <2> SUFFICES ASSUME i + (d + 1) <= n
               PROVE  WireLength[i + (d + 1)] - WireLength[i] >= d + 1
    OBVIOUS
  <2> DEFINE k == i + d
  <2>1. k \in 0..(n - 1) /\ k \in 0..n /\ k + 1 \in 1..n /\ i + (d + 1) = k + 1 /\ k <= n
    BY <1>4
  <2>2. WireLength[i + d] - WireLength[i] >= d
    BY <1>6, <2>1
  <2>3. WireLength[k] - WireLength[i] >= d
    BY <2>2
  <2> HIDE DEF k
  <2>4. WireLength[k + 1] = WireLength[k] + BytesOf(cells[k + 1])
    BY <1>2, <2>1
  <2>5. WireLength[k] \in Nat /\ WireLength[i] \in Nat
    BY <1>2, <1>4, <2>1
  <2>6. BytesOf(cells[k + 1]) \in Nat /\ BytesOf(cells[k + 1]) >= 1
    BY <1>3, <2>1
  <2>7. WireLength[k + 1] - WireLength[i] >= d + 1
    BY <2>3, <2>4, <2>5, <2>6
  <2> QED BY <2>1, <2>7
<1>7. Nat \subseteq S
  <2> HIDE DEF S
  <2> QED BY <1>5, <1>6, Induction
<1>8. j - i \in Nat /\ i + (j - i) = j /\ j <= n
  BY <1>4
<1>9. j - i \in S
  BY <1>7, <1>8
<1> QED BY <1>8, <1>9

(* The first n cells are in the buffer, each in its place.                     *)
Holds(n) ==
  /\ oa.off = WireLength[n]
  /\ \A i \in 0..(n - 1) : \A j \in 1..BytesOf(cells[i + 1]) :
       oa.bytes[WireLength[i] + j] = Encoded(cells[i + 1])[j]

WireInv ==
  /\ Holds(Len(cells) - left)
  /\ phase # "write" => /\ left = 0
                        /\ ia.len <= oa.off
                        /\ \A k \in 1..ia.len : ia.bytes[k] = oa.bytes[k]

LEMMA WireInit == AnyRecord => WireInv
<1> SUFFICES ASSUME AnyRecord PROVE WireInv
  OBVIOUS
<1>1. TypeInv
  BY TypeInit
<1>2. /\ phase = "write" /\ left = Len(cells)
      /\ oa = [len |-> InitialLength, off |-> 0, bytes |-> <<>>]
  BY DEF AnyRecord
<1>3. Len(cells) - left = 0 /\ 0..(0 - 1) = {}
  BY <1>1, <1>2 DEF TypeInv
<1>4. oa.off = WireLength[0]
  BY <1>1, <1>2, WireLengthIs
<1>5. Holds(0)
  BY <1>3, <1>4 DEF Holds
<1> QED BY <1>2, <1>3, <1>5 DEF WireInv

LEMMA WireStep == TypeInv /\ WireInv /\ [Next]_vars => WireInv'
<1> SUFFICES ASSUME TypeInv, WireInv, [Next]_vars PROVE WireInv'
  OBVIOUS
<1> DEFINE wire == WireLength
           n == Len(cells) - left
<1>1. /\ cells \in Seq(Cells) /\ left \in 0..Len(cells) /\ Len(cells) \in Nat
      /\ oa.bytes \in Seq(Byte) /\ oa.off = Len(oa.bytes) /\ oa.off \in Nat
  BY DEF TypeInv, IsOut, Buffers
<1>2. ASSUME cells' = cells, UNCHANGED <<oa, left>>,
             phase' # "write" =>
               /\ left = 0 /\ ia'.len <= oa.off
               /\ \A k \in 1..ia'.len : ia'.bytes[k] = oa.bytes[k]
      PROVE  WireInv'
  <2>1. WireLength' = WireLength
    BY <1>2, WireLengthIsLengths
  <2>2. PICK d \in Nat : d = Len(cells) - left
    BY <1>1
  <2>3. /\ oa.off = wire[d]
        /\ \A i \in 0..(d - 1) : \A j \in 1..BytesOf(cells[i + 1]) :
             oa.bytes[wire[i] + j] = Encoded(cells[i + 1])[j]
    BY <2>2 DEF WireInv, Holds
  <2>4. /\ oa'.off = wire'[d]
        /\ \A i \in 0..(d - 1) : \A j \in 1..BytesOf(cells'[i + 1]) :
             oa'.bytes[wire'[i] + j] = Encoded(cells'[i + 1])[j]
    BY <1>2, <2>1, <2>3
  <2>5. Holds(d)'
    BY <2>4 DEF Holds, BytesOf, Encoded
  <2>6. Len(cells') - left' = d
    BY <1>2, <2>2
  <2> QED BY <1>2, <2>5, <2>6 DEF WireInv
<1>3. CASE Writing
  <2> DEFINE c == NextCell
             b == Encoded(c)
             i0 == Len(cells) - left
  <2>1. /\ phase = "write" /\ left > 0 /\ c \in Cells /\ Appended(oa, b, oa') /\ left' = left - 1
        /\ UNCHANGED <<phase, cells>>
    BY <1>3, WritersWrite DEF Wrote
  <2>2. PICK i \in 0..(Len(cells) - 1) : i = Len(cells) - left /\ Len(cells) - (left - 1) = i + 1
    BY <1>1, <2>1
  <2>3. c = cells[i + 1]
    BY <2>2 DEF NextCell
  <2>4. b \in Seq(Byte) /\ Len(b) = BytesOf(c) /\ BytesOf(c) \in Nat
    BY <2>1, EncodedIs
  <2>5. oa'.off = oa.off + Len(b) /\ oa'.bytes = oa.bytes \o b
    BY <2>1 DEF Appended
  <2>6. /\ oa.off = wire[i]
        /\ \A k \in 0..(i - 1) : \A j \in 1..BytesOf(cells[k + 1]) :
             oa.bytes[wire[k] + j] = Encoded(cells[k + 1])[j]
    BY <2>2 DEF WireInv, Holds
  <2>7. wire[i + 1] = wire[i] + BytesOf(c) /\ \A k \in 0..Len(cells) : wire[k] \in Nat
    BY <2>2, <2>3, WireLengthIs
  <2> DEFINE t == oa.bytes
  <2> HIDE DEF b, c
  <2>8. /\ \A k \in 1..Len(t) : (t \o b)[k] = t[k]
        /\ \A k \in 1..Len(b) : (t \o b)[Len(t) + k] = b[k]
    BY <1>1, <2>4, ByteStrings
  <2>9. ASSUME NEW k \in 0..i, NEW j \in 1..BytesOf(cells[k + 1])
        PROVE  (t \o b)[wire[k] + j] = Encoded(cells[k + 1])[j]
    <3>1. CASE k = i
      <4>1. cells[k + 1] = c /\ wire[k] = Len(t) /\ j \in 1..Len(b)
        BY <1>1, <2>3, <2>4, <2>6, <3>1
      <4> QED BY <2>8, <4>1 DEF b
    <3>2. CASE k # i
      <4>1. k \in 0..(i - 1) /\ k + 1 \in 1..Len(cells) /\ k \in 0..Len(cells) /\ i \in 0..Len(cells)
            /\ k \in 0..(Len(cells) - 1) /\ i \in (k + 1)..Len(cells) /\ k + 1 \in 0..Len(cells)
        BY <1>1, <3>2
      <4>2. t[wire[k] + j] = Encoded(cells[k + 1])[j]
        BY <2>6, <4>1
      <4>3. wire[k + 1] = wire[k] + BytesOf(cells[k + 1])
        BY <4>1, WireLengthIs
      <4>4. wire[i] - wire[k + 1] >= i - (k + 1)
        BY <4>1, WireLengthGrows
      <4>5. BytesOf(cells[k + 1]) \in Nat
        <5>1. cells[k + 1] \in Cells
          BY <1>1, <4>1
        <5> QED BY <5>1, EncodedIs
      <4>6. wire[k] \in Nat /\ wire[i] \in Nat /\ wire[k + 1] \in Nat
        BY <2>7, <4>1
      <4>7. i - (k + 1) >= 0 /\ wire[i] = Len(t)
        BY <1>1, <2>6, <4>1
      <4> HIDE DEF t
      <4>8. wire[k] + j \in 1..Len(t)
        <5> HIDE DEF wire
        <5>1. wire[k] + BytesOf(cells[k + 1]) <= wire[i]
          BY <4>1, <4>3, <4>4, <4>6, <4>7
        <5> QED BY <4>5, <4>6, <4>7, <5>1
      <4> QED BY <2>8, <4>2, <4>8
    <3> QED BY <3>1, <3>2
  <2>10. wire' = wire
    BY <2>1, WireLengthIsLengths
  <2>11. /\ oa'.off = wire'[i + 1]
         /\ \A k \in 0..((i + 1) - 1) : \A j \in 1..BytesOf(cells'[k + 1]) :
              oa'.bytes[wire'[k] + j] = Encoded(cells'[k + 1])[j]
    <3>1. (i + 1) - 1 = i
      BY <2>2
    <3>2. oa'.off = wire[i + 1]
      BY <2>4, <2>5, <2>6, <2>7
    <3> QED BY <2>1, <2>5, <2>9, <2>10, <3>1, <3>2
  <2>12. Holds(i + 1)'
    BY <2>11 DEF Holds, BytesOf, Encoded
  <2>13. Len(cells') - left' = i + 1
    BY <2>1, <2>2
  <2> QED BY <2>1, <2>12, <2>13 DEF WireInv
<1>4. CASE Travel
  <2>1. left = 0 /\ UNCHANGED <<cells, oa, left>>
    BY <1>4 DEF Travel
  <2>2. PICK k \in 0..oa.off : ia' = [len |-> k, off |-> 0, bytes |-> SubSeq(oa.bytes, 1, k)]
    BY <1>4 DEF Travel
  <2>3. ia'.len = k /\ k \in Nat /\ k <= oa.off
    BY <1>1, <2>2
  <2>4. \A j \in 1..k : SubSeq(oa.bytes, 1, k)[j] = oa.bytes[j]
    <3> DEFINE b == oa.bytes
    <3>1. b \in Seq(Byte) /\ k <= Len(b) /\ k \in Nat /\ Len(b) \in Nat
      BY <1>1, <2>3
    <3> HIDE DEF b
    <3>2. \A j \in 1..k : b[j] \in Byte
      BY <3>1
    <3>3. \A j \in 1..(k - 1 + 1) : SubSeq(b, 1, k)[j] = b[1 + j - 1]
      <4>1. 1 \in Int /\ k \in Int
        BY <3>1
      <4> QED BY <3>2, <4>1, SubSeqProperties
    <3>4. k - 1 + 1 = k /\ \A j \in 1..k : 1 + j - 1 = j
      BY <3>1
    <3>5. \A j \in 1..k : SubSeq(b, 1, k)[j] = b[j]
      BY <3>3, <3>4
    <3> QED BY <3>5 DEF b
  <2>5. \A j \in 1..k : ia'.bytes[j] = oa.bytes[j]
    BY <2>2, <2>4
  <2> QED BY <1>2, <2>1, <2>3, <2>5
<1>5. CASE Reader \/ Skip \/ ia_start_vector \/ ia_end_vector
  <2>1. phase = "read" /\ UNCHANGED <<phase, cells, oa, left>> /\ ia'.len = ia.len /\ ia'.bytes = ia.bytes
    <3>1. CASE Reader
      BY <3>1, ReadersTake, InputMoves DEF Took
    <3>2. CASE Skip
      BY <3>2 DEF Skip
    <3>3. CASE ia_start_vector
      <4>1. /\ Room(4) => ia' = [ia EXCEPT !.off = @ + 4]
            /\ ~Room(4) => UNCHANGED ia
            /\ phase = "read" /\ UNCHANGED <<phase, cells, oa, left>>
        BY <3>3, StartOfVector
      <4>2. CASE Room(4)
        <5>1. ia.off + 4 <= ia.len /\ 4 \in Nat
          BY <4>2, Remaining
        <5>2. ia' = [ia EXCEPT !.off = @ + 4]
          BY <4>1, <4>2
        <5>3. ia'.len = ia.len /\ ia'.bytes = ia.bytes
          BY <5>1, <5>2, InputMoves
        <5> QED BY <4>1, <5>3
      <4> QED BY <4>1, <4>2
    <3>4. CASE ia_end_vector
      BY <3>4 DEF ia_end_vector, Reading
    <3> QED BY <1>5, <3>1, <3>2, <3>3, <3>4
  <2>2. /\ left = 0 /\ ia.len <= oa.off
        /\ \A k \in 1..ia.len : ia.bytes[k] = oa.bytes[k]
    BY <2>1 DEF WireInv
  <2> QED BY <1>2, <2>1, <2>2
<1>6. CASE EndRead \/ Deallocate \/ UNCHANGED vars
  <2>1. UNCHANGED <<cells, oa, left, ia>> /\ (phase' # "write" => phase # "write")
    BY <1>6 DEF EndRead, Deallocate, vars
  <2>2. phase # "write" =>
        /\ left = 0 /\ ia.len <= oa.off
        /\ \A k \in 1..ia.len : ia.bytes[k] = oa.bytes[k]
    BY DEF WireInv
  <2> QED BY <1>2, <2>1, <2>2
<1> QED BY <1>3, <1>4, <1>5, <1>6 DEF Next, Writing, Reader

(* What the reader finds where cell i + 1 begins: its bytes, as far as they    *)
(* have come.                                                                  *)
LEMMA Faces ==
  ASSUME TypeInv, WireInv, phase # "write", NEW i \in 0..(Len(cells) - 1), ia.off = WireLength[i],
         NEW j \in 1..BytesOf(cells[i + 1]), ia.off + j <= ia.len
  PROVE  ia.bytes[ia.off + j] = Encoded(cells[i + 1])[j]
<1>1. Len(cells) - left = Len(cells) /\ Len(cells) \in Nat
  BY DEF WireInv, TypeInv
<1>2. oa.bytes[WireLength[i] + j] = Encoded(cells[i + 1])[j]
  BY <1>1 DEF WireInv, Holds
<1>3. BytesOf(cells[i + 1]) \in Nat
  <2>1. cells[i + 1] \in Cells
    BY <1>1 DEF TypeInv
  <2> QED BY <2>1, EncodedIs
<1>4. ia.off + j \in 1..ia.len
  <2>1. j \in Nat /\ j >= 1
    BY <1>3
  <2>2. ia.off \in Nat /\ ia.len \in Nat
    BY Remaining
  <2> QED BY <2>1, <2>2
<1>5. ia.bytes[ia.off + j] = oa.bytes[ia.off + j]
  BY <1>4 DEF WireInv
<1> QED BY <1>2, <1>5

-------------------------------------------------------------------------------
(* The reader reads what was written                                           *)

(* The reader is where cell i + 1 begins.                                      *)
AtCell(i) == phase = "read" /\ i \in 0..(Len(cells) - 1) /\ ia.off = WireLength[i]

(* The bytes b, which the cell has behind d others, are there.                 *)
LEMMA Found ==
  ASSUME TypeInv, WireInv, NEW i, AtCell(i), NEW d \in Nat, NEW b \in Seq(Byte), NEW c,
         c = cells[i + 1], d + Len(b) <= BytesOf(c),
         \A j \in 1..Len(b) : Encoded(c)[d + j] = b[j],
         ia.off + d + Len(b) <= ia.len
  PROVE  At(ia.off + d, Len(b)) = b
<1>1. PICK k \in Nat : k = Len(b)
  OBVIOUS
<1>2. c \in Cells /\ i \in 0..(Len(cells) - 1) /\ ia.off = WireLength[i] /\ phase # "write"
  <2>1. i + 1 \in 1..Len(cells)
    BY DEF AtCell, TypeInv
  <2> QED BY <2>1 DEF TypeInv, AtCell
<1>3. BytesOf(c) \in Nat /\ ia.off \in Nat /\ ia.len \in Nat
  BY <1>2, EncodedIs, Remaining
<1>4. ia.off + d \in Nat /\ (ia.off + d) + k <= ia.len
  BY <1>1, <1>3
<1> DEFINE a == At(ia.off + d, k)
<1>5. a \in Seq(Byte) /\ Len(a) = k /\ \A j \in 1..k : a[j] = ia.bytes[(ia.off + d) + j]
  BY <1>4, BytesAt
<1> HIDE DEF a
<1>6. ASSUME NEW j \in 1..k PROVE a[j] = b[j]
  <2>1. d + j \in 1..BytesOf(c) /\ ia.off + (d + j) <= ia.len /\ (ia.off + d) + j = ia.off + (d + j)
    BY <1>1, <1>3
  <2>2. ia.bytes[ia.off + (d + j)] = Encoded(c)[d + j]
    BY <1>2, <2>1, Faces
  <2> QED BY <1>1, <1>5, <2>1, <2>2
<1>7. a = b
  BY <1>1, <1>5, <1>6, SeqEqual
<1> QED BY <1>1, <1>7 DEF a

LEMMA FoundInt ==
  ASSUME TypeInv, WireInv, NEW i, AtCell(i), NEW d \in Nat, NEW c, c = cells[i + 1],
         NEW n \in Int32, d + 4 <= BytesOf(c), ia.off + d + 4 <= ia.len,
         \A j \in 1..4 : Encoded(c)[d + j] = BigEndian(n)[j]
  PROVE  HostInt(At(ia.off + d, 4)) = n
<1> DEFINE b == BigEndian(n)
<1>1. b \in Seq(Byte) /\ Len(b) = 4
  BY BigEndianIs, Int32IsInt
<1>2. HostInt(b) = n
  BY HostIntInverts
<1>3. \A j \in 1..4 : Encoded(c)[d + j] = b[j]
  OBVIOUS
<1> HIDE DEF b
<1>4. /\ d + Len(b) <= BytesOf(c) /\ ia.off + d + Len(b) <= ia.len
      /\ \A j \in 1..Len(b) : Encoded(c)[d + j] = b[j]
  BY <1>1, <1>3
<1>5. At(ia.off + d, Len(b)) = b
  BY <1>1, <1>4, Found
<1> QED BY <1>1, <1>2, <1>5

(* The first four bytes of a cell, if they have come, are its number or its    *)
(* length.                                                                     *)
LEMMA FoundLength ==
  ASSUME TypeInv, WireInv, NEW i, AtCell(i), NEW c, c = cells[i + 1], Room(4), c.type # "bool"
  PROVE  Length = IF c.type \in {"int", "count", "long"} THEN c.val[1]
                  ELSE IF c.val = Null THEN -1 ELSE Len(c.val)
<1>1. c \in Cells
  <2>1. i + 1 \in 1..Len(cells)
    BY DEF AtCell, TypeInv
  <2> QED BY <2>1 DEF TypeInv
<1>2. ia.off \in Nat /\ ia.off + 4 <= ia.len /\ ia.off + 0 = ia.off
  BY Remaining
<1>3. ASSUME NEW n \in Int32, BytesOf(c) >= 4, \A j \in 1..4 : Encoded(c)[j] = BigEndian(n)[j]
      PROVE  Length = n
  <2>1. \A j \in 1..4 : Encoded(c)[0 + j] = BigEndian(n)[j]
    BY <1>3
  <2>2. 0 + 4 <= BytesOf(c) /\ ia.off + 0 + 4 <= ia.len /\ 0 \in Nat
    BY <1>1, <1>2, <1>3, EncodedIs
  <2>3. HostInt(At(ia.off + 0, 4)) = n
    BY <2>1, <2>2, FoundInt
  <2> QED BY <1>2, <2>3 DEF Length
<1>4. c.type \in Primitives \cup {"count"}
  BY <1>1, CellsHold
<1>5. CASE c.type \in {"int", "count"}
  <2>1. c.val[1] \in Int32
    BY <1>1, <1>5, CellsHold
  <2>2. Encoded(c) = BigEndian(c.val[1]) /\ BytesOf(c) = 4
    BY <1>5 DEF Encoded, BytesOf
  <2>3. Length = c.val[1]
    BY <1>3, <2>1, <2>2
  <2> QED BY <1>5, <2>3
<1>6. CASE c.type = "long"
  <2>1. c.val[1] \in Int32 /\ c.val[2] \in Int32
    BY <1>1, <1>6, CellsHold
  <2> DEFINE s == BigEndian(c.val[1])
             t == BigEndian(c.val[2])
  <2>2. Encoded(c) = s \o t /\ BytesOf(c) = 8
    BY <1>6 DEF Encoded, BytesOf
  <2>3. s \in Seq(Byte) /\ Len(s) = 4 /\ t \in Seq(Byte)
    BY <2>1, BigEndianIs, Int32IsInt
  <2> HIDE DEF s, t
  <2>4. \A j \in 1..Len(s) : (s \o t)[j] = s[j]
    BY <2>3, ByteStrings
  <2>5. \A j \in 1..4 : Encoded(c)[j] = s[j]
    BY <2>2, <2>3, <2>4
  <2>6. Length = c.val[1]
    <3>1. \A j \in 1..4 : Encoded(c)[j] = BigEndian(c.val[1])[j]
      BY <2>5 DEF s
    <3>2. BytesOf(c) >= 4
      BY <2>2
    <3> QED BY <1>3, <2>1, <3>1, <3>2
  <2> QED BY <1>6, <2>6
<1>7. CASE c.type \in {"buffer", "string"} /\ c.val = Null
  <2>1. -1 \in Int32
    BY SMT DEF Int32
  <2>2. Encoded(c) = BigEndian(-1) /\ BytesOf(c) = 4
    BY <1>7 DEF Encoded, BytesOf
  <2>3. Length = -1
    BY <1>3, <2>1, <2>2
  <2> QED BY <1>7, <2>3
<1>8. CASE c.type \in {"buffer", "string"} /\ c.val # Null
  <2>1. c.val \in Seq(Byte) /\ Len(c.val) \in Int32 /\ Len(c.val) \in Nat
    BY <1>1, <1>8, CellsHold
  <2> DEFINE n == Len(c.val)
             s == BigEndian(n)
             t == c.val
  <2>2. Encoded(c) = s \o t /\ BytesOf(c) = 4 + n
    BY <1>8 DEF Encoded, BytesOf
  <2>3. s \in Seq(Byte) /\ Len(s) = 4 /\ t \in Seq(Byte)
    BY <2>1, BigEndianIs
  <2> HIDE DEF s, t, n
  <2>4. \A j \in 1..Len(s) : (s \o t)[j] = s[j]
    BY <2>3, ByteStrings
  <2>5. \A j \in 1..4 : Encoded(c)[j] = s[j]
    BY <2>2, <2>3, <2>4
  <2>6. n \in Int32 /\ BytesOf(c) >= 4
    BY <2>1, <2>2 DEF n
  <2>7. Length = n
    BY <1>3, <2>5, <2>6 DEF s
  <2> QED BY <1>8, <2>7 DEF n
<1> QED BY <1>4, <1>5, <1>6, <1>7, <1>8 DEF Primitives

Absent(c) == c.type = "string" /\ c.val = Null

Here == Len(got)

(* The reader reads cell i + 1, or fails: because the cell is a null string or *)
(* because its bytes have not all come.                                        *)
Agrees(i) ==
  /\ todo' = Tail(todo) /\ UNCHANGED <<phase, cells, shape, oa, left, freed>>
  /\ Len(got') = Len(got) + 1 /\ \A k \in 1..Len(got) : got'[k] = got[k]
  /\ ia'.len = ia.len
  /\ \/ /\ rc' = "ok" /\ ia'.off = WireLength[i + 1] /\ WireLength[i + 1] <= ia.len
        /\ ~Absent(cells[i + 1]) /\ got'[Len(got) + 1].val = Normal(cells[i + 1])
     \/ /\ rc' # "ok"
        /\ Absent(cells[i + 1]) \/ WireLength[i + 1] > ia.len
        /\ ~Absent(cells[i + 1]) => rc' = "E2BIG"

LEMMA AgreesByReading ==
  ASSUME TypeInv, NEW i, AtCell(i), NEW c, c = cells[i + 1], ~Absent(c),
         Reader, NEW mine, Reads(Normal(c), BytesOf(c), mine), rc = "ok",
         ia.off + BytesOf(c) <= ia.len
  PROVE  Agrees(i)
<1>1. PICK n, val, me, code : Took(n, val, me, code) /\ Settled(val, me, code)
  BY ReadersTake
<1> DEFINE g == [type |-> Head(todo).op, val |-> val, mine |-> me]
<1>2. Head(todo).op \in Primitives /\ todo # <<>>
  BY ReadersTake
<1>3. g \in Gots
  BY <1>1, <1>2 DEF Settled, Gots
<1>4. got' = Append(got, g) /\ todo' = Tail(todo)
      /\ UNCHANGED <<phase, cells, shape, oa, left, freed>>
  BY <1>1 DEF Took
<1> HIDE DEF g
<1>5. /\ Len(got') = Len(got) + 1 /\ got'[Len(got) + 1] = g
      /\ \A k \in 1..Len(got) : got'[k] = got[k]
  BY <1>2, <1>3, <1>4, OneMore
<1> DEFINE h == [type |-> Head(todo).op, val |-> Normal(c), mine |-> mine]
<1>6. got' = Append(got, h) /\ rc' = "ok" /\ ia' = [ia EXCEPT !.off = @ + BytesOf(c)]
  BY DEF Reads, Got, Moved
<1>7. Append(got, h)[Len(got) + 1] = h /\ h.val = Normal(c)
  BY DEF TypeInv
<1> HIDE DEF h
<1>8. got'[Len(got) + 1].val = Normal(c)
  BY <1>6, <1>7
<1>9. c \in Cells /\ i \in 0..(Len(cells) - 1) /\ ia.off = WireLength[i]
  <2>1. i + 1 \in 1..Len(cells)
    BY DEF AtCell, TypeInv
  <2> QED BY <2>1 DEF TypeInv, AtCell
<1>10. BytesOf(c) \in Nat
  BY <1>9, EncodedIs
<1>11. ia'.off = ia.off + BytesOf(c) /\ ia'.len = ia.len
  BY <1>6, <1>10, InputMoves
<1>12. WireLength[i + 1] = WireLength[i] + BytesOf(c)
  BY <1>9, WireLengthIs
<1> QED BY <1>4, <1>5, <1>6, <1>8, <1>9, <1>11, <1>12 DEF Agrees

LEMMA AgreesByFailing ==
  ASSUME TypeInv, NEW i, AtCell(i), NEW c, c = cells[i + 1],
         Absent(c) \/ ia.off + BytesOf(c) > ia.len,
         Reader, NEW code, NEW n, Fails(code, n), code # "ok", ~Absent(c) => code = "E2BIG"
  PROVE  Agrees(i)
<1>1. PICK k, val, me, cd : Took(k, val, me, cd) /\ Settled(val, me, cd)
  BY ReadersTake
<1> DEFINE g == [type |-> Head(todo).op, val |-> val, mine |-> me]
<1>2. Head(todo).op \in Primitives /\ todo # <<>>
  BY ReadersTake
<1>3. g \in Gots
  BY <1>1, <1>2 DEF Settled, Gots
<1>4. got' = Append(got, g) /\ todo' = Tail(todo)
      /\ UNCHANGED <<phase, cells, shape, oa, left, freed>>
  BY <1>1 DEF Took
<1> HIDE DEF g
<1>5. /\ Len(got') = Len(got) + 1
      /\ \A j \in 1..Len(got) : got'[j] = got[j]
  BY <1>2, <1>3, <1>4, OneMore
<1>6. rc' = code
  BY DEF Fails
<1>7. c \in Cells /\ i \in 0..(Len(cells) - 1) /\ ia.off = WireLength[i]
  <2>1. i + 1 \in 1..Len(cells)
    BY DEF AtCell, TypeInv
  <2> QED BY <2>1 DEF TypeInv, AtCell
<1>8. ia'.len = ia.len
  BY <1>1, InputMoves DEF Took
<1>9. WireLength[i + 1] = WireLength[i] + BytesOf(c)
  BY <1>7, WireLengthIs
<1> QED BY <1>4, <1>5, <1>6, <1>7, <1>8, <1>9 DEF Agrees

LEMMA ReadersAgree ==
  ASSUME TypeInv, WireInv, Reader, NEW i, AtCell(i), cells[i + 1].type = Head(todo).op
  PROVE  Agrees(i)
<1> DEFINE c == cells[i + 1]
<1>1. c \in Cells
  <2>1. i + 1 \in 1..Len(cells)
    BY DEF AtCell, TypeInv
  <2> QED BY <2>1 DEF TypeInv
<1>2. rc = "ok" /\ c = cells[i + 1] /\ ia.off \in Nat /\ ia.len \in Nat /\ BytesOf(c) \in Nat
  BY <1>1, ReadersTake, Remaining, EncodedIs
<1>3. c.type = Head(todo).op
  OBVIOUS
<1> HIDE DEF c
<1>4. \A n \in Nat : (Room(n) <=> ia.off + n <= ia.len) /\ (~Room(n) <=> ia.off + n > ia.len)
  BY <1>2, Remaining
<1>5. ASSUME ~Absent(c), NEW mine, Reads(Normal(c), BytesOf(c), mine), ia.off + BytesOf(c) <= ia.len
      PROVE  Agrees(i)
  BY <1>2, <1>5, AgreesByReading
<1>6. ASSUME Absent(c) \/ ia.off + BytesOf(c) > ia.len, NEW code, NEW n, Fails(code, n), code # "ok",
             ~Absent(c) => code = "E2BIG"
      PROVE  Agrees(i)
  BY <1>2, <1>6, AgreesByFailing
<1>7. ASSUME ia_deserialize_int PROVE Agrees(i)
  <2>1. c.type = "int"
    BY <1>3, <1>7 DEF ia_deserialize_int, Reading
  <2>2. BytesOf(c) = 4 /\ Normal(c) = c.val /\ ~Absent(c) /\ c.val = <<c.val[1]>>
    BY <1>1, <2>1, CellsHold DEF BytesOf, Normal, Absent
  <2>3. CASE Room(4)
    <3>1. Reads(<<Length>>, 4, FALSE)
      BY <1>7, <2>3 DEF ia_deserialize_int
    <3>2. Length = c.val[1]
      BY <1>2, <2>1, <2>3, FoundLength
    <3>3. <<Length>> = Normal(c) /\ ia.off + BytesOf(c) <= ia.len
      BY <1>4, <2>2, <2>3, <3>2
    <3> QED BY <1>5, <2>2, <3>1, <3>3
  <2>4. CASE ~Room(4)
    <3>1. Fails("E2BIG", 0) /\ ia.off + BytesOf(c) > ia.len
      BY <1>4, <1>7, <2>2, <2>4 DEF ia_deserialize_int
    <3> QED BY <1>6, <3>1
  <2> QED BY <2>3, <2>4
<1>8. ASSUME ia_deserialize_long PROVE Agrees(i)
  <2>1. c.type = "long"
    BY <1>3, <1>8 DEF ia_deserialize_long, Reading
  <2>2. BytesOf(c) = 8 /\ Normal(c) = c.val /\ ~Absent(c) /\ c.val = <<c.val[1], c.val[2]>>
        /\ c.val[1] \in Int32 /\ c.val[2] \in Int32
    BY <1>1, <2>1, CellsHold DEF BytesOf, Normal, Absent
  <2>3. CASE Room(8)
    <3> DEFINE low == HostInt(At(ia.off + 4, 4))
               s == BigEndian(c.val[1])
               t == BigEndian(c.val[2])
    <3>1. Reads(<<Length, low>>, 8, FALSE)
      BY <1>8, <2>3 DEF ia_deserialize_long
    <3>2. Room(4) /\ ia.off + 8 <= ia.len /\ ia.off + 4 + 4 <= ia.len
      BY <1>2, <1>4, <2>3
    <3>3. Length = c.val[1]
      BY <1>2, <2>1, <3>2, FoundLength
    <3>4. Encoded(c) = s \o t
      BY <2>1 DEF Encoded
    <3>5. s \in Seq(Byte) /\ Len(s) = 4 /\ t \in Seq(Byte) /\ Len(t) = 4
      BY <2>2, BigEndianIs, Int32IsInt
    <3>6. \A j \in 1..4 : Encoded(c)[4 + j] = t[j]
      <4> HIDE DEF s, t
      <4>1. \A j \in 1..Len(t) : (s \o t)[Len(s) + j] = t[j]
        BY <3>5, ByteStrings
      <4> QED BY <3>4, <3>5, <4>1
    <3>7. low = c.val[2]
      <4>1. 4 + 4 <= BytesOf(c) /\ 4 \in Nat
        BY <2>2
      <4> QED BY <1>2, <2>2, <3>2, <3>6, <4>1, FoundInt
    <3>8. <<Length, low>> = Normal(c) /\ ia.off + BytesOf(c) <= ia.len
      <4> HIDE DEF low
      <4> QED BY <2>2, <3>2, <3>3, <3>7
    <3> QED BY <1>5, <2>2, <3>1, <3>8
  <2>4. CASE ~Room(8)
    <3>1. Fails("E2BIG", 0) /\ ia.off + BytesOf(c) > ia.len
      BY <1>4, <1>8, <2>2, <2>4 DEF ia_deserialize_long
    <3> QED BY <1>6, <3>1
  <2> QED BY <2>3, <2>4
<1>9. ASSUME ia_deserialize_bool PROVE Agrees(i)
  <2>1. c.type = "bool"
    BY <1>3, <1>9 DEF ia_deserialize_bool, Reading
  <2>2. BytesOf(c) = 1 /\ ~Absent(c) /\ c.val = <<c.val[1]>>
    BY <1>1, <2>1, CellsHold DEF BytesOf, Absent
  <2> DEFINE b == <<IF c.val[1] = 0 THEN 0 ELSE 1>>
  <2>3. Encoded(c) = b
    BY <2>1 DEF Encoded
  <2>4. Normal(c) = b
    <3>1. c.val = <<0>> <=> c.val[1] = 0
      BY <2>2
    <3> QED BY <2>1, <3>1 DEF Normal
  <2>5. CASE Room(1)
    <3>1. Reads(At(ia.off, 1), 1, FALSE)
      BY <1>9, <2>5 DEF ia_deserialize_bool
    <3>2. b \in Seq(Byte) /\ Len(b) = 1
      BY <1>1, <2>2, <2>3, EncodedIs
    <3> HIDE DEF b
    <3>3. 0 + Len(b) <= BytesOf(c) /\ ia.off + 0 + Len(b) <= ia.len /\ 0 \in Nat /\ ia.off + 0 = ia.off
      BY <1>2, <1>4, <2>2, <2>5, <3>2
    <3>4. \A j \in 1..Len(b) : Encoded(c)[0 + j] = b[j]
      BY <2>3, <3>2
    <3>5. At(ia.off + 0, Len(b)) = b
      BY <1>2, <3>2, <3>3, <3>4, Found
    <3>6. At(ia.off, 1) = Normal(c) /\ ia.off + BytesOf(c) <= ia.len
      BY <1>4, <2>2, <2>4, <2>5, <3>2, <3>3, <3>5
    <3> QED BY <1>5, <2>2, <3>1, <3>6
  <2>6. CASE ~Room(1)
    <3>1. Fails("E2BIG", 0) /\ ia.off + BytesOf(c) > ia.len
      BY <1>4, <1>9, <2>2, <2>6 DEF ia_deserialize_bool
    <3> QED BY <1>6, <3>1
  <2> QED BY <2>5, <2>6
<1>10. ASSUME c.type \in {"buffer", "string"}, c.val # Null
       PROVE  /\ BytesOf(c) = 4 + Len(c.val) /\ Normal(c) = c.val /\ ~Absent(c) /\ Len(c.val) \in Nat
              /\ Room(4) => Length = Len(c.val)
              /\ Room(4) /\ ~(ia.len - ia.off - 4 < Length) =>
                   At(ia.off + 4, Length) = c.val /\ ia.off + BytesOf(c) <= ia.len
              /\ Room(4) /\ ia.len - ia.off - 4 < Length => ia.off + BytesOf(c) > ia.len
              /\ ~Room(4) => ia.off + BytesOf(c) > ia.len
  <2> DEFINE n == Len(c.val)
             s == BigEndian(n)
             t == c.val
  <2>1. t \in Seq(Byte) /\ n \in Int32 /\ n \in Nat /\ n = Len(t)
    BY <1>1, <1>10, CellsHold
  <2>2. BytesOf(c) = 4 + n /\ Normal(c) = t /\ ~Absent(c) /\ Encoded(c) = s \o t
    BY <1>10 DEF BytesOf, Normal, Absent, Encoded
  <2>3. Room(4) => Length = n
    BY <1>2, <1>10, FoundLength
  <2>4. s \in Seq(Byte) /\ Len(s) = 4
    BY <2>1, BigEndianIs
  <2>5. ASSUME Room(4), ~(ia.len - ia.off - 4 < Length) PROVE At(ia.off + 4, Length) = t
    <3> HIDE DEF s, t, n
    <3>1. \A j \in 1..Len(t) : (s \o t)[Len(s) + j] = t[j]
      BY <2>1, <2>4, ByteStrings
    <3>2. \A j \in 1..Len(t) : Encoded(c)[4 + j] = t[j]
      BY <2>2, <2>4, <3>1
    <3>3. 4 + Len(t) <= BytesOf(c) /\ ia.off + 4 + Len(t) <= ia.len /\ 4 \in Nat
      BY <1>2, <2>1, <2>2, <2>3, <2>5
    <3>4. At(ia.off + 4, Len(t)) = t
      BY <1>2, <2>1, <3>2, <3>3, Found
    <3> QED BY <2>1, <2>3, <2>5, <3>4
  <2> HIDE DEF s, t, n
  <2>6. Room(4) /\ ~(ia.len - ia.off - 4 < Length) => ia.off + BytesOf(c) <= ia.len
    BY <1>2, <2>1, <2>2, <2>3
  <2>7. Room(4) /\ ia.len - ia.off - 4 < Length => ia.off + BytesOf(c) > ia.len
    BY <1>2, <2>1, <2>2, <2>3
  <2>8. ~Room(4) => ia.off + BytesOf(c) > ia.len
    <3>1. ~Room(4) => ~(ia.off + 4 <= ia.len)
      BY <1>4
    <3> QED BY <1>2, <2>1, <2>2, <3>1
  <2> QED BY <2>1, <2>2, <2>3, <2>5, <2>6, <2>7, <2>8 DEF t, n
<1>11. ASSUME c.type \in {"buffer", "string"}, c.val = Null
       PROVE  /\ BytesOf(c) = 4 /\ Normal(c) = Null
              /\ Room(4) => Length = -1 /\ ~(ia.len - ia.off - 4 < Length)
              /\ Room(4) => ia.off + BytesOf(c) <= ia.len
              /\ ~Room(4) => ia.off + BytesOf(c) > ia.len
  <2>1. BytesOf(c) = 4 /\ Normal(c) = Null
    BY <1>11 DEF BytesOf, Normal
  <2>2. Room(4) => Length = -1
    BY <1>2, <1>11, FoundLength
  <2>3. Room(4) => ia.off + 4 <= ia.len
    BY <1>4
  <2>4. Room(4) => ~(ia.len - ia.off - 4 < Length)
    BY <1>2, <2>2, <2>3
  <2>5. ~Room(4) => ia.off + BytesOf(c) > ia.len
    BY <1>4, <2>1
  <2> QED BY <2>1, <2>2, <2>3, <2>4, <2>5
<1>12. ASSUME ia_deserialize_buffer PROVE Agrees(i)
  <2>1. c.type = "buffer"
    BY <1>3, <1>12 DEF ia_deserialize_buffer, Reading
  <2>2. ~Absent(c) /\ c.type \in {"buffer", "string"}
    BY <2>1 DEF Absent
  <2>3. CASE ~Room(4)
    <3>1. Fails("E2BIG", 0)
      BY <1>12, <2>3 DEF ia_deserialize_buffer
    <3>2. ia.off + BytesOf(c) > ia.len
      BY <1>10, <1>11, <2>2, <2>3
    <3> QED BY <1>6, <3>1, <3>2
  <2>4. CASE Room(4) /\ c.val = Null
    <3>1. Length = -1 /\ ~(ia.len - ia.off - 4 < Length)
      BY <1>11, <2>2, <2>4
    <3>2. Reads(Null, 4, FALSE)
      BY <1>12, <2>4, <3>1 DEF ia_deserialize_buffer
    <3> QED BY <1>5, <1>11, <2>2, <2>4, <3>2
  <2>5. CASE Room(4) /\ c.val # Null
    <3>1. Length = Len(c.val) /\ Len(c.val) \in Nat
      BY <1>10, <2>2, <2>5
    <3>2. Length # -1 /\ ~(Length < 0)
      BY <3>1
    <3>3. CASE ia.len - ia.off - 4 < Length
      <4>1. Fails("E2BIG", 4)
        BY <1>12, <2>5, <3>3 DEF ia_deserialize_buffer
      <4>2. ia.off + BytesOf(c) > ia.len
        BY <1>10, <2>2, <2>5, <3>3
      <4> QED BY <1>6, <4>1, <4>2
    <3>4. CASE ~(ia.len - ia.off - 4 < Length)
      <4>1. Reads(At(ia.off + 4, Length), 4 + Length, TRUE)
        BY <1>12, <2>5, <3>2, <3>4 DEF ia_deserialize_buffer
      <4>2. At(ia.off + 4, Length) = Normal(c) /\ 4 + Length = BytesOf(c)
            /\ ia.off + BytesOf(c) <= ia.len
        BY <1>10, <2>2, <2>5, <3>1, <3>4
      <4> QED BY <1>5, <2>2, <4>1, <4>2
    <3> QED BY <3>3, <3>4
  <2> QED BY <2>3, <2>4, <2>5
<1>13. ASSUME ia_deserialize_string PROVE Agrees(i)
  <2>1. c.type = "string"
    BY <1>3, <1>13 DEF ia_deserialize_string, Reading
  <2>2. (Absent(c) <=> c.val = Null) /\ c.type \in {"buffer", "string"}
    BY <2>1 DEF Absent
  <2>3. CASE ~Room(4)
    <3>1. Fails("E2BIG", 0)
      BY <1>13, <2>3 DEF ia_deserialize_string
    <3>2. ia.off + BytesOf(c) > ia.len
      BY <1>10, <1>11, <2>2, <2>3
    <3> QED BY <1>6, <3>1, <3>2
  <2>4. CASE Room(4) /\ c.val = Null
    <3>1. Length = -1 /\ ~(ia.len - ia.off - 4 < Length) /\ Length < 0
      BY <1>11, <2>2, <2>4
    <3>2. Fails("EINVAL", 4)
      BY <1>13, <2>4, <3>1 DEF ia_deserialize_string
    <3> QED BY <1>6, <2>2, <2>4, <3>2
  <2>5. CASE Room(4) /\ c.val # Null
    <3>1. Length = Len(c.val) /\ Len(c.val) \in Nat
      BY <1>10, <2>2, <2>5
    <3>2. ~(Length < 0)
      BY <3>1
    <3>3. CASE ia.len - ia.off - 4 < Length
      <4>1. Fails("E2BIG", 4)
        BY <1>13, <2>5, <3>3 DEF ia_deserialize_string
      <4>2. ia.off + BytesOf(c) > ia.len
        BY <1>10, <2>2, <2>5, <3>3
      <4> QED BY <1>6, <4>1, <4>2
    <3>4. CASE ~(ia.len - ia.off - 4 < Length)
      <4>1. Reads(At(ia.off + 4, Length), 4 + Length, TRUE)
        BY <1>13, <2>5, <3>2, <3>4 DEF ia_deserialize_string
      <4>2. At(ia.off + 4, Length) = Normal(c) /\ 4 + Length = BytesOf(c)
            /\ ia.off + BytesOf(c) <= ia.len
        BY <1>10, <2>2, <2>5, <3>1, <3>4
      <4> QED BY <1>5, <2>2, <2>5, <4>1, <4>2
    <3> QED BY <3>3, <3>4
  <2> QED BY <2>3, <2>4, <2>5
<1> QED BY <1>7, <1>8, <1>9, <1>12, <1>13 DEF Reader

-------------------------------------------------------------------------------
(* Reader and record agree                                                     *)

(* The first of the fields that are left.                                      *)
Ahead(m) == Len(shape) - (Len(todo) - m) + 1

(* All the cells up to here were read, and are what was written.               *)
Faithful ==
  /\ rc = "ok"
  /\ Here <= Len(cells) /\ ia.off = WireLength[Here]
  /\ \A i \in 1..Here : got[i].val = Normal(cells[i]) /\ ~Absent(cells[i])

(* The pending steps are for the next cells.  Of the elements of a vector only *)
(* those may be left out that the bytes do not hold.                           *)
Placed(start, m) ==
  IF m = 0 THEN Here = start[Ahead(m)]
  ELSE /\ Ahead(m) > 1 /\ shape[Ahead(m) - 1].vector
       /\ Here >= start[Ahead(m) - 1] + 1
       /\ Here + m - 1 <= start[Ahead(m)]
       /\ \A j \in 1..(m - 1) : cells[Here + j].type = todo[j].op
       /\ Here + m - 1 < start[Ahead(m)] => WireLength[Here + m - 1] > ia.len

InStep(start, m) == Faithful /\ Pending(m) /\ Placed(start, m)

(* The reader stumbled over a cell: a null string, or one whose bytes have not *)
(* all come.  After the last vector nothing hides that.                        *)
Stumbled ==
  \E f \in 1..Len(cells) :
    /\ Absent(cells[f]) \/ WireLength[f] > ia.len
    /\ f > Len(cells) - AfterVectors => Stuck /\ (NullStrings = {} => rc = "E2BIG")

ReadInv(start) ==
  phase # "write" => (\E m \in 0..Len(todo) : InStep(start, m)) \/ Stumbled

SyncInv == \E start : IsLayout(cells, start) /\ ReadInv(start)

(* The cells of a vector are before the cells after the last vector.           *)
LEMMA AfterIs ==
  ASSUME shape \in Seq(Fields), NEW start, IsLayout(cells, start)
  PROVE  /\ AfterVectors \in Nat /\ AfterVectors <= Len(cells) /\ Len(cells) \in Nat
         /\ ~HasVector => AfterVectors = Len(cells)
         /\ \A p \in 1..Len(shape) : shape[p].vector => start[p + 1] <= Len(cells) - AfterVectors
<1> DEFINE l == Len(shape)
<1>1. l \in Nat /\ DOMAIN shape = 1..l
  OBVIOUS
<1>2. \A p \in 1..(l + 1) : /\ start[p] \in Nat
                            /\ Len(cells) \in Nat /\ Len(cells) - start[p] >= l + 1 - p
  BY LayoutOrder
<1>3. Len(cells) \in Nat
  <2>1. 1 \in 1..(l + 1)
    BY <1>1
  <2> QED BY <1>2, <2>1
<1>4. CASE ~HasVector
  BY <1>1, <1>3, <1>4 DEF AfterVectors, HasVector
<1>5. CASE HasVector
  <2> DEFINE IsLast(v) == shape[v].vector /\ \A j \in DOMAIN shape : shape[j].vector => j <= v
             T == {d \in Nat : d <= l - 1 /\ shape[l - d].vector}
  <2>1. T \in SUBSET Nat /\ T # {}
    <3>1. PICK i \in 1..l : shape[i].vector
      BY <1>1, <1>5 DEF HasVector
    <3> HIDE DEF l
    <3>2. l - i \in Nat /\ l - i <= l - 1 /\ l - (l - i) = i
      BY <1>1
    <3>3. l - i \in T
      BY <3>1, <3>2
    <3> QED BY <3>3
  <2>2. PICK d \in T : \A y \in T : d <= y
    BY <2>1, LeastNumber
  <2> HIDE DEF l
  <2>3. l - d \in 1..l /\ shape[l - d].vector
    BY <1>1
  <2>4. ASSUME NEW j \in 1..l, shape[j].vector PROVE j <= l - d
    <3>1. l - j \in Nat /\ l - j <= l - 1 /\ l - (l - j) = j
      BY <1>1
    <3>2. d <= l - j
      BY <2>2, <2>4, <3>1
    <3> QED BY <1>1, <3>2
  <2>5. \E v \in DOMAIN shape : IsLast(v)
    BY <1>1, <2>3, <2>4
  <2> DEFINE v == CHOOSE i \in DOMAIN shape : IsLast(i)
  <2>6. v \in 1..l /\ \A j \in 1..l : shape[j].vector => j <= v
    BY <1>1, <2>5
  <2>7. AfterVectors = l - v
    BY <1>5 DEF AfterVectors, l
  <2> HIDE DEF v, IsLast, T
  <2>8. v + 1 \in 1..(l + 1) /\ AfterVectors \in Nat
    BY <1>1, <2>6, <2>7
  <2>9. start[v + 1] \in Nat /\ Len(cells) - start[v + 1] >= l + 1 - (v + 1)
    BY <1>2, <2>8
  <2>10. AfterVectors <= Len(cells)
    BY <1>1, <1>3, <2>6, <2>7, <2>9
  <2>11. ASSUME NEW p \in 1..l, shape[p].vector PROVE start[p + 1] <= Len(cells) - AfterVectors
    <3>1. p <= v /\ p + 1 \in 1..(l + 1)
      BY <1>1, <2>6, <2>11
    <3>2. start[p + 1] \in Nat /\ Len(cells) - start[p + 1] >= l + 1 - (p + 1)
      BY <1>2, <3>1
    <3> QED BY <1>1, <1>3, <2>6, <2>7, <3>1, <3>2
  <2> QED BY <1>3, <1>5, <2>8, <2>10, <2>11 DEF l
<1> QED BY <1>4, <1>5

LEMMA RecordStays ==
  ASSUME UNCHANGED <<cells, shape>>
  PROVE  /\ AfterVectors' = AfterVectors /\ NullStrings' = NullStrings /\ WireLength' = WireLength
         /\ HasVector' <=> HasVector
         /\ \A start : IsLayout(cells, start) => IsLayout(cells, start)'
<1>1. AfterVectors' = AfterVectors /\ (HasVector' <=> HasVector)
  BY DEF AfterVectors, HasVector
<1>2. NullStrings' = NullStrings
  BY DEF NullStrings
<1>3. WireLength' = WireLength
  BY WireLengthIsLengths
<1>4. ASSUME NEW start, IsLayout(cells, start) PROVE IsLayout(cells, start)'
  <2>1. ASSUME NEW p \in 1..Len(shape)
        PROVE  IsFieldAt(cells', start[p], start[p + 1], shape'[p])
    BY <1>4 DEF IsLayout
  <2> QED BY <1>4, <2>1 DEF IsLayout, IsFieldAt, IsVectorAt, Repeated, Cell
<1> QED BY <1>1, <1>2, <1>3, <1>4

LEMMA OneFurther ==
  ASSUME TypeInv, Faithful, AtCell(Here), Agrees(Here), rc' = "ok"
  PROVE  Faithful' /\ Here' = Here + 1 /\ UNCHANGED <<cells, shape>> /\ ia'.len = ia.len
<1>1. Here \in Nat /\ Len(cells) \in Nat /\ Here <= Len(cells) - 1
  BY DEF Here, TypeInv, AtCell
<1>2. UNCHANGED <<cells, shape>> /\ Here' = Here + 1 /\ ia'.len = ia.len
  BY DEF Agrees, Here
<1>3. /\ \A k \in 1..Here : got'[k] = got[k]
      /\ ia'.off = WireLength[Here + 1]
      /\ ~Absent(cells[Here + 1]) /\ got'[Here + 1].val = Normal(cells[Here + 1])
  BY DEF Agrees, Here
<1>4. Here' <= Len(cells')
  BY <1>1, <1>2
<1>5. ia'.off = WireLength'[Here']
  BY <1>2, <1>3, RecordStays
<1>6. ASSUME NEW i \in 1..Here'
      PROVE  got'[i].val = Normal(cells[i]) /\ ~Absent(cells[i])
  <2>1. i \in 1..Here \/ i = Here + 1
    BY <1>1, <1>2
  <2>2. CASE i \in 1..Here
    BY <1>3, <2>2 DEF Faithful
  <2>3. CASE i = Here + 1
    BY <1>3, <2>3
  <2> QED BY <2>1, <2>2, <2>3
<1>7. \A i \in 1..Here' : got'[i].val = Normal(cells'[i]) /\ ~Absent(cells'[i])
  BY <1>2, <1>6
<1>8. \A c : Normal(c)' = Normal(c) /\ (Absent(c)' <=> Absent(c))
  BY DEF Normal, Absent
<1> QED BY <1>2, <1>4, <1>5, <1>7 DEF Faithful

LEMMA StumblesHere ==
  ASSUME TypeInv, AtCell(Here), UNCHANGED <<cells, shape>>, ia'.len = ia.len,
         Absent(cells[Here + 1]) \/ WireLength[Here + 1] > ia.len,
         Here + 1 > Len(cells) - AfterVectors => Stuck' /\ (NullStrings = {} => rc' = "E2BIG")
  PROVE  Stumbled'
<1>1. Here + 1 \in 1..Len(cells)
  BY DEF Here, TypeInv, AtCell
<1>2. AfterVectors' = AfterVectors /\ NullStrings' = NullStrings /\ WireLength' = WireLength
  BY RecordStays
<1> DEFINE f == Here + 1
<1> HIDE DEF f
<1>3. PICK g : g = f
  OBVIOUS
<1>4. g \in 1..Len(cells') /\ (Absent(cells'[g]) \/ WireLength'[g] > ia'.len)
  BY <1>1, <1>2, <1>3 DEF f
<1>5. g > Len(cells') - AfterVectors' => Stuck' /\ (NullStrings' = {} => rc' = "E2BIG")
  BY <1>2, <1>3 DEF f
<1> QED BY <1>4, <1>5 DEF Stumbled, Absent

(* A primitive of a field that is no vector.                                   *)
LEMMA FieldRead ==
  ASSUME TypeInv, WireInv, NEW start, IsLayout(cells, start),
         phase = "read", InStep(start, 0), Reader
  PROVE  \/ InStep(start, 0)' /\ 0 \in 0..Len(todo')
         \/ Stumbled'
<1> DEFINE p == Len(shape) - Len(todo) + 1
<1>1. /\ Head(todo).op \in Primitives /\ todo # <<>> /\ rc = "ok"
  BY ReadersTake
<1>2. 0 \in 0..Len(todo) /\ Len(todo) \in Nat /\ Len(shape) \in Nat /\ shape \in Seq(Fields)
      /\ cells \in Seq(Cells) /\ ia.len \in Nat
  BY DEF TypeInv, Buffers
<1>3. Pending(0) /\ Faithful /\ Placed(start, 0)
  BY DEF InStep
<1>4. p \in 1..Len(shape) /\ Head(todo) = Plan(shape)[p] /\ Len(todo) >= 1
  BY <1>1, <1>2, <1>3, HeadTells
<1>5. Ahead(0) = p /\ Here = start[p]
  BY <1>2, <1>3 DEF Ahead, Placed
<1> HIDE DEF p
<1>6. ~shape[p].vector /\ Head(todo).op = shape[p].of[1]
  <2>1. CASE shape[p].vector
    <3>1. Head(todo) = [op |-> "count", zeroed |-> FALSE, of |-> shape[p].of]
      BY <1>2, <1>4, <2>1, PlanIs
    <3>2. Head(todo).op = "count"
      BY <3>1
    <3> QED BY <1>1, <3>2 DEF Primitives
  <2>2. CASE ~shape[p].vector
    <3>1. Head(todo) = Step(shape[p].of[1], FALSE)
      BY <1>2, <1>4, <2>2, PlanIs
    <3> QED BY <2>2, <3>1 DEF Step
  <2> QED BY <2>1, <2>2
<1>7. start[p + 1] = start[p] + 1 /\ cells[start[p] + 1].type = shape[p].of[1]
      /\ start[p] \in Nat /\ start[p] + 1 <= Len(cells)
  BY <1>2, <1>4, <1>6, FieldTakesRoom, LayoutBounds
<1>8. AtCell(Here)
  BY <1>2, <1>3, <1>5, <1>7 DEF AtCell, Faithful
<1>9. Agrees(Here)
  BY <1>5, <1>6, <1>7, <1>8, ReadersAgree
<1>10. todo' = Tail(todo) /\ UNCHANGED <<cells, shape>> /\ ia'.len = ia.len
  BY <1>9 DEF Agrees
<1>11. /\ Len(todo') = Len(todo) - 1 /\ \A j \in 1..(Len(todo) - 1) : todo'[j] = todo[j + 1]
       /\ 0 \in 0..Len(todo') /\ Pending(0)'
  BY <1>1, <1>2, <1>3, <1>10, TailPending
<1>12. CASE rc' = "ok"
  <2>1. Faithful' /\ Here' = Here + 1
    BY <1>3, <1>8, <1>9, <1>12, OneFurther
  <2>2. Ahead(0)' = p + 1
    <3>1. Len(shape') = Len(shape) /\ Len(todo') = Len(todo) - 1
      BY <1>10, <1>11
    <3>2. Ahead(0)' = Len(shape') - (Len(todo') - 0) + 1
      BY DEF Ahead
    <3> QED BY <1>2, <3>1, <3>2 DEF p
  <2>3. Here' = start[p + 1]
    BY <1>5, <1>7, <2>1
  <2>4. Placed(start, 0)'
    BY <2>2, <2>3 DEF Placed
  <2> QED BY <1>11, <2>1, <2>4 DEF InStep
<1>13. CASE rc' # "ok"
  <2>1. Absent(cells[Here + 1]) \/ WireLength[Here + 1] > ia.len
    BY <1>9, <1>13 DEF Agrees
  <2>2. ~Absent(cells[Here + 1]) => rc' = "E2BIG"
    BY <1>9, <1>13 DEF Agrees
  <2>3. NullStrings = {} => rc' = "E2BIG"
    <3>1. Here + 1 \in DOMAIN cells
      BY <1>2, <1>5, <1>7
    <3>2. Absent(cells[Here + 1]) => Here + 1 \in NullStrings
      BY <3>1 DEF Absent, NullStrings
    <3> QED BY <2>2, <3>2
  <2>4. Stuck'
    <3>1. \A j \in 1..Len(todo) : todo[j].op # "end"
      BY <1>3, NoEndFollows
    <3>2. ASSUME NEW j \in 1..Len(todo') PROVE todo'[j].op # "end"
      <4>1. j \in 1..(Len(todo) - 1) /\ j + 1 \in 1..Len(todo)
        BY <1>2, <1>11
      <4> QED BY <1>11, <3>1, <4>1
    <3> QED BY <1>13, <3>2 DEF Stuck
  <2>5. Stumbled'
    BY <1>8, <1>10, <2>1, <2>3, <2>4, StumblesHere
  <2> QED BY <2>5
<1> QED BY <1>12, <1>13

(* A primitive of an element.                                                  *)
LEMMA ElementRead ==
  ASSUME TypeInv, WireInv, NEW start, IsLayout(cells, start),
         phase = "read", NEW m \in 0..Len(todo), m > 0, InStep(start, m), Reader
  PROVE  \/ InStep(start, m - 1)' /\ m - 1 \in 0..Len(todo')
         \/ Stumbled'
<1> DEFINE a == Ahead(m)
<1>1. /\ Head(todo).op \in Primitives /\ todo # <<>> /\ rc = "ok"
  BY ReadersTake
<1>2. Len(todo) \in Nat /\ Len(shape) \in Nat /\ shape \in Seq(Fields)
      /\ cells \in Seq(Cells) /\ ia.len \in Nat /\ m \in Nat /\ Here \in Nat /\ m <= Len(todo)
  BY DEF TypeInv, Buffers, Here
<1>3. Pending(m) /\ Faithful /\ Placed(start, m)
  BY DEF InStep
<1>4. Head(todo) = todo[1] /\ m # 1
  <2>1. m = 1 => Head(todo).op = "end"
    BY <1>1, <1>3, HeadTells
  <2>2. "end" \notin Primitives
    BY DEF Primitives
  <2> QED BY <1>1, <1>3, <2>1, <2>2, HeadTells
<1>5. m - 1 \in Nat /\ m - 1 >= 1
  BY <1>2, <1>4
<1>6. /\ a > 1 /\ shape[a - 1].vector /\ Here >= start[a - 1] + 1
      /\ Here + m - 1 <= start[a]
      /\ \A j \in 1..(m - 1) : cells[Here + j].type = todo[j].op
      /\ Here + m - 1 < start[a] => WireLength[Here + m - 1] > ia.len
  BY <1>2, <1>3 DEF Placed
<1>7. Len(todo) - m <= Len(shape)
  BY <1>3 DEF Pending
<1>8. a \in 2..(Len(shape) + 1) /\ a - 1 \in 1..Len(shape) /\ a \in 1..(Len(shape) + 1)
      /\ (a - 1) + 1 = a
  BY <1>2, <1>6, <1>7 DEF Ahead
<1> HIDE DEF a
<1>9. start[a] \in Nat /\ Len(cells) \in Nat /\ start[a] <= Len(cells) - AfterVectors
      /\ AfterVectors \in Nat
  <2>1. start[a] \in Nat
    BY <1>2, <1>8, LayoutOrder
  <2>2. start[(a - 1) + 1] <= Len(cells) - AfterVectors /\ AfterVectors \in Nat
    BY <1>2, <1>6, <1>8, AfterIs
  <2> QED BY <1>2, <1>8, <2>1, <2>2
<1>10. Here + 1 <= start[a] /\ Here + 1 <= Len(cells)
  BY <1>2, <1>5, <1>6, <1>9
<1>11. AtCell(Here)
  BY <1>2, <1>3, <1>10 DEF AtCell, Faithful
<1>12. cells[Here + 1].type = Head(todo).op
  BY <1>4, <1>5, <1>6
<1>13. Agrees(Here)
  BY <1>11, <1>12, ReadersAgree
<1>14. todo' = Tail(todo) /\ UNCHANGED <<cells, shape>> /\ ia'.len = ia.len
  BY <1>13 DEF Agrees
<1>15. /\ Len(todo') = Len(todo) - 1 /\ \A j \in 1..(Len(todo) - 1) : todo'[j] = todo[j + 1]
       /\ m - 1 \in 0..Len(todo') /\ Pending(m - 1)'
  BY <1>1, <1>2, <1>3, <1>14, TailPending
<1>16. CASE rc' = "ok"
  <2>1. Faithful' /\ Here' = Here + 1
    BY <1>3, <1>11, <1>13, <1>16, OneFurther
  <2>2. Ahead(m - 1)' = a
    <3>1. Len(shape') = Len(shape) /\ Len(todo') = Len(todo) - 1
      BY <1>14, <1>15
    <3>2. Ahead(m - 1)' = Len(shape') - (Len(todo') - (m - 1)) + 1
      BY DEF Ahead
    <3>3. a = Len(shape) - (Len(todo) - m) + 1
      BY DEF Ahead, a
    <3> QED BY <1>2, <3>1, <3>2, <3>3
  <2>3. Here' >= start[a - 1] + 1
    <3>1. start[a - 1] \in Nat
      BY <1>2, <1>8, LayoutOrder
    <3> QED BY <1>2, <1>6, <2>1, <3>1
  <2>4. Here' + (m - 1) - 1 = Here + m - 1
    BY <1>2, <2>1
  <2>5. ASSUME NEW j \in 1..((m - 1) - 1) PROVE cells'[Here' + j].type = todo'[j].op
    <3>1. j + 1 \in 1..(m - 1) /\ j \in 1..(Len(todo) - 1) /\ Here' + j = Here + (j + 1)
      BY <1>2, <2>1
    <3> QED BY <1>6, <1>14, <1>15, <3>1
  <2>6. WireLength' = WireLength
    BY <1>14, RecordStays
  <2>7. Here' + (m - 1) - 1 < start[a] => WireLength'[Here' + (m - 1) - 1] > ia'.len
    BY <1>6, <1>14, <2>4, <2>6
  <2>8. a > 1 /\ shape'[a - 1].vector /\ Here' + (m - 1) - 1 <= start[a] /\ m - 1 # 0
    BY <1>5, <1>6, <1>14, <2>4
  <2> DEFINE k == m - 1
  <2> HIDE DEF k
  <2>9. PICK i : i = k
    OBVIOUS
  <2>10. Ahead(i)' = a /\ i # 0 /\ i \in 0..Len(todo') /\ Pending(i)'
    BY <1>15, <2>2, <2>8, <2>9 DEF k
  <2>11. /\ a > 1 /\ shape'[a - 1].vector
         /\ Here' >= start[a - 1] + 1
         /\ Here' + i - 1 <= start[a]
         /\ \A j \in 1..(i - 1) : cells'[Here' + j].type = todo'[j].op
         /\ Here' + i - 1 < start[a] => WireLength'[Here' + i - 1] > ia'.len
    BY <2>3, <2>5, <2>7, <2>8, <2>9 DEF k
  <2>12. Placed(start, i)'
    BY <2>10, <2>11 DEF Placed
  <2>13. InStep(start, i)'
    BY <2>1, <2>10, <2>12 DEF InStep
  <2> QED BY <2>9, <2>10, <2>13 DEF k
<1>17. CASE rc' # "ok"
  <2>1. Absent(cells[Here + 1]) \/ WireLength[Here + 1] > ia.len
    BY <1>13, <1>17 DEF Agrees
  <2>2. ~(Here + 1 > Len(cells) - AfterVectors)
    BY <1>2, <1>9, <1>10
  <2>3. Stumbled'
    BY <1>11, <1>14, <2>1, <2>2, StumblesHere
  <2> QED BY <2>3
<1> QED BY <1>16, <1>17

(* The end of a vector: had elements been left out, a cell would have been     *)
(* read that the bytes do not hold.                                            *)
LEMMA EndPassed ==
  ASSUME TypeInv, NEW start, IsLayout(cells, start),
         phase = "read", NEW m \in 0..Len(todo), InStep(start, m), ia_end_vector
  PROVE  InStep(start, 0)' /\ 0 \in 0..Len(todo')
<1>1. /\ todo # <<>> /\ Head(todo).op = "end" /\ rc' = "ok" /\ todo' = Tail(todo)
      /\ UNCHANGED <<ia, got, cells, shape>>
  BY DEF ia_end_vector, Reading
<1>2. Len(todo) \in Nat /\ Len(shape) \in Nat /\ shape \in Seq(Fields)
      /\ cells \in Seq(Cells) /\ ia.len \in Nat /\ m \in Nat /\ Here \in Nat /\ m <= Len(todo)
  BY DEF TypeInv, Buffers, Here
<1>3. Pending(m) /\ Faithful /\ Placed(start, m)
  BY DEF InStep
<1>4. m = 1
  <2>1. m # 0
    BY <1>1, <1>3, HeadTells
  <2>2. "end" \notin Primitives
    BY DEF Primitives
  <2>3. ASSUME m > 1 PROVE FALSE
    <3>1. 1 \in 1..(m - 1) /\ Head(todo) = todo[1]
      BY <1>1, <1>2, <1>3, <2>3, HeadTells
    <3>2. todo[1].op \in Primitives
      BY <1>3, <3>1 DEF Pending
    <3> QED BY <1>1, <2>2, <3>1, <3>2
  <2> QED BY <1>2, <2>1, <2>3
<1>5. /\ Len(todo') = Len(todo) - 1 /\ 0 \in 0..Len(todo') /\ Pending(0)'
  <2>1. Len(todo') = Len(todo) - 1 /\ m - 1 \in 0..Len(todo') /\ Pending(m - 1)'
    BY <1>1, <1>2, <1>3, <1>4, TailPending
  <2>2. m - 1 = 0
    BY <1>4
  <2> QED BY <2>1, <2>2
<1>6. Faithful'
  <2>1. WireLength' = WireLength /\ Here' = Here
    BY <1>1, RecordStays DEF Here
  <2>2. \A c : Normal(c)' = Normal(c) /\ (Absent(c)' <=> Absent(c))
    BY DEF Normal, Absent
  <2> QED BY <1>1, <1>3, <2>1 DEF Faithful
<1>7. Here = start[Ahead(m)]
  <2>1. /\ Ahead(m) > 1 /\ Here + m - 1 <= start[Ahead(m)]
        /\ Here + m - 1 < start[Ahead(m)] => WireLength[Here + m - 1] > ia.len
    BY <1>3, <1>4 DEF Placed
  <2>2. Here + m - 1 = Here
    BY <1>2, <1>4
  <2>3. ia.off = WireLength[Here] /\ ia.off \in Nat /\ ia.off <= ia.len
    BY <1>3, Remaining DEF Faithful
  <2>4. Ahead(m) \in 1..(Len(shape) + 1)
    <3>1. Len(todo) - m <= Len(shape)
      BY <1>3 DEF Pending
    <3> QED BY <1>2, <2>1, <3>1 DEF Ahead
  <2>5. start[Ahead(m)] \in Nat
    BY <1>2, <2>4, LayoutOrder
  <2> QED BY <1>2, <2>1, <2>2, <2>3, <2>5
<1>8. Ahead(0)' = Ahead(m) /\ Here' = Here
  BY <1>1, <1>2, <1>4, <1>5 DEF Ahead, Here
<1>9. Placed(start, 0)'
  BY <1>7, <1>8 DEF Placed
<1> QED BY <1>5, <1>6, <1>9 DEF InStep

LEMMA MoreTakesMore ==
  ASSUME NEW q \in Nat, NEW n \in Nat, q <= n, NEW l \in Nat
  PROVE  q * l <= n * l
<1>1. n = q + (n - q) /\ n - q \in Nat
  OBVIOUS
<1> DEFINE d == n - q
<1> HIDE DEF d
<1>2. d \in Nat /\ n = q + d
  BY <1>1 DEF d
<1>3. (q + d) * l = q * l + d * l
  BY <1>2
<1>4. d * l \in Nat /\ q * l \in Nat
  BY <1>2
<1> QED BY <1>2, <1>3, <1>4

(* The elements the reader goes on with, of the n there are.                  *)
LEMMA ElementsReached ==
  ASSUME TypeInv, NEW n \in Counts, NEW record \in Seq(Primitives), Len(record) >= 1,
         NEW k, k = Len(Repeated(record, Reached(n)))
  PROVE  /\ k \in Nat /\ n * Len(record) \in Nat /\ k <= n * Len(record)
         /\ k < n * Len(record) => k >= ia.len - ia.off + 1
         /\ \A j \in 1..k : Repeated(record, Reached(n))[j] = Repeated(record, n)[j]
<1> DEFINE q == Reached(n)
           l == Len(record)
<1>1. n \in Nat /\ ia.len \in Nat /\ ia.off \in Nat /\ ia.off <= ia.len /\ l \in Nat /\ l >= 1
  BY CountsAre, Remaining
<1>2. q \in Nat /\ q <= n /\ (q = n \/ q = ia.len - ia.off + 1)
  BY <1>1 DEF Reached
<1> HIDE DEF q
<1>3. k = q * l /\ q * l \in Nat /\ q * l >= q
  <2>1. q \in Int /\ q >= 0
    BY <1>2
  <2>2. q * Len(record) \in Nat /\ q * Len(record) >= q /\ Len(Repeated(record, q)) = q * Len(record)
    BY <2>1, RepeatedIs
  <2> QED BY <2>2 DEF q
<1>4. n * l \in Nat /\ Len(Repeated(record, n)) = n * l
  BY <1>1, RepeatedIs
<1>5. q * l <= n * l
  BY <1>1, <1>2, MoreTakesMore
<1>6. k < n * l => q = ia.len - ia.off + 1
  BY <1>2, <1>3, <1>4
<1>7. k < n * l => k >= ia.len - ia.off + 1
  BY <1>3, <1>6
<1>8. ASSUME NEW j \in 1..k PROVE Repeated(record, q)[j] = Repeated(record, n)[j]
  <2>1. j \in 1..(q * l) /\ j \in 1..(n * l)
    BY <1>3, <1>4, <1>5
  <2>2. Repeated(record, q)[j] = record[((j - 1) % l) + 1]
    BY <2>1 DEF Repeated
  <2>3. Repeated(record, n)[j] = record[((j - 1) % l) + 1]
    BY <2>1 DEF Repeated
  <2> QED BY <2>2, <2>3
<1> QED BY <1>3, <1>4, <1>5, <1>7, <1>8 DEF q

LEMMA ElementsSteps ==
  ASSUME TypeInv, todo # <<>>, Head(todo).op = "count", NEW n \in Int,
         todo' = Elements(n) \o Tail(todo),
         NEW j \in 1..Len(Repeated(Head(todo).of, Reached(n)))
  PROVE  todo'[j].op = Repeated(Head(todo).of, Reached(n))[j]
<1> DEFINE e == Elements(n)
           t == Tail(todo)
           r == Repeated(Head(todo).of, Reached(n))
<1>1. /\ e \in Seq(Pieces) /\ Len(e) = Len(r) + 1 /\ \A i \in 1..Len(r) : e[i] = Step(r[i], TRUE)
      /\ r \in Seq(Primitives)
  BY ElementsAre
<1>2. t \in Seq(Pieces)
  BY DEF TypeInv
<1>3. j \in 1..Len(r)
  OBVIOUS
<1>4. e[j].op = r[j]
  <2>1. e[j] = Step(r[j], TRUE)
    BY <1>1, <1>3
  <2>2. Step(r[j], TRUE).op = r[j]
    BY DEF Step
  <2> QED BY <2>1, <2>2
<1>5. todo' = e \o t
  OBVIOUS
<1> HIDE DEF e, t, r
<1>6. j \in 1..Len(e)
  BY <1>1, <1>3
<1>7. (e \o t)[j] = e[j]
  BY <1>1, <1>2, <1>6
<1>8. todo'[j].op = r[j]
  BY <1>4, <1>5, <1>7
<1> QED BY <1>8 DEF r

(* The count of a vector.                                                      *)
LEMMA CountRead ==
  ASSUME TypeInv, WireInv, NEW start, IsLayout(cells, start),
         phase = "read", NEW m \in 0..Len(todo), InStep(start, m), ia_start_vector
  PROVE  (\E i \in 0..Len(todo') : InStep(start, i)') \/ Stumbled'
<1> DEFINE p == Len(shape) - Len(todo) + 1
           a == p + 1
<1>1. PICK count \in Int :
        /\ todo' = Elements(count) \o Tail(todo)
        /\ got' = Append(got, [type |-> "count", val |-> <<count>>, mine |-> count >= 0])
        /\ Room(4) => count = Length
  BY StartOfVector
<1>2. /\ todo # <<>> /\ Head(todo).op = "count" /\ rc = "ok" /\ UNCHANGED <<cells, shape, freed>>
      /\ Room(4) => ia' = [ia EXCEPT !.off = @ + 4] /\ rc' = "ok"
      /\ ~Room(4) => rc' = "E2BIG" /\ UNCHANGED ia
  BY StartOfVector
<1>3. Len(todo) \in Nat /\ Len(shape) \in Nat /\ shape \in Seq(Fields) /\ 0 \in 0..Len(todo)
      /\ cells \in Seq(Cells) /\ ia.len \in Nat /\ ia.off \in Nat /\ Here \in Nat
  BY DEF TypeInv, Buffers, Here
<1>4. Pending(m) /\ Faithful /\ Placed(start, m)
  BY DEF InStep
<1>5. PICK k \in Nat :
        /\ k = Len(Repeated(Head(todo).of, Reached(count)))
        /\ k + 1 \in 0..Len(todo') /\ Pending(k + 1)'
        /\ Len(todo') = k + Len(todo)
  BY <1>1, <1>2, <1>4, ElementsPending
<1>6. m = 0
  BY <1>1, <1>2, <1>4, ElementsPending
<1>7. p \in 1..Len(shape) /\ Head(todo) = Plan(shape)[p] /\ Len(todo) >= 1
  BY <1>2, <1>3, <1>4, <1>6, HeadTells
<1>8. Here = start[p]
  <2>1. Ahead(0) = p
    BY <1>3 DEF Ahead
  <2> QED BY <1>4, <1>6, <2>1 DEF Placed
<1> HIDE DEF p
<1> DEFINE record == shape[p].of
<1>9. shape[p].vector /\ Head(todo).of = record
  <2>1. CASE shape[p].vector
    <3>1. Head(todo) = [op |-> "count", zeroed |-> FALSE, of |-> shape[p].of]
      BY <1>3, <1>7, <2>1, PlanIs
    <3> QED BY <2>1, <3>1
  <2>2. CASE ~shape[p].vector
    <3>1. Head(todo) = Step(shape[p].of[1], FALSE)
      BY <1>3, <1>7, <2>2, PlanIs
    <3>2. Head(todo).op = shape[p].of[1] /\ shape[p].of[1] \in Primitives
      BY <1>3, <1>7, <3>1, FieldIs DEF Step
    <3> QED BY <1>2, <3>2 DEF Primitives
  <2> QED BY <2>1, <2>2
<1>10. record \in Seq(Primitives) /\ Len(record) >= 1
  BY <1>3, <1>7, <1>9, FieldIs
<1>11. PICK n \in Counts : /\ IsVectorAt(cells, start[p], start[a], record, n)
                          /\ n * Len(record) \in Nat
  BY <1>3, <1>7, <1>9, FieldTakesRoom
<1>12. /\ start[a] = start[p] + n * Len(record) + 1
       /\ start[p] \in Nat /\ start[a] \in Nat /\ start[a] <= Len(cells)
       /\ cells[start[p] + 1] = Cell("count", <<n>>)
       /\ \A j \in 1..(n * Len(record)) : cells[start[p] + 1 + j].type = Repeated(record, n)[j]
       /\ n \in Int32 /\ n \in Nat /\ n * Len(record) \in Nat
  BY <1>3, <1>7, <1>11, LayoutBounds, CountsAre DEF IsVectorAt
<1> HIDE DEF record
<1>13. start[a] <= Len(cells) - AfterVectors /\ AfterVectors \in Nat
  BY <1>3, <1>7, <1>9, AfterIs
<1>14. AtCell(Here) /\ Here + 1 <= start[a] /\ Here + 1 <= Len(cells)
  BY <1>3, <1>4, <1>8, <1>10, <1>12 DEF AtCell, Faithful
<1> DEFINE c == cells[Here + 1]
<1>15. c = Cell("count", <<n>>)
  BY <1>8, <1>12
<1>16. c.type = "count" /\ c.val = <<n>> /\ c.val[1] = n
  BY <1>15 DEF Cell
<1>17. BytesOf(c) = 4 /\ ~Absent(c) /\ Normal(c) = <<n>>
  BY <1>16 DEF BytesOf, Absent, Normal
<1>18. WireLength[Here + 1] = ia.off + 4
  <2>1. Here \in 0..(Len(cells) - 1)
    BY <1>3, <1>14
  <2>2. WireLength[Here + 1] = WireLength[Here] + BytesOf(c)
    BY <2>1, WireLengthIs
  <2> QED BY <1>4, <1>17, <2>2 DEF Faithful
<1>19. Room(4) <=> ia.off + 4 <= ia.len
  BY Remaining
<1> HIDE DEF c, a
<1>20. CASE ~Room(4)
  <2>1. WireLength[Here + 1] > ia.len /\ ia'.len = ia.len
    <3>1. ia' = ia /\ ~(ia.off + 4 <= ia.len)
      BY <1>2, <1>19, <1>20
    <3> QED BY <1>3, <1>18, <3>1
  <2>2. ~(Here + 1 > Len(cells) - AfterVectors)
    <3>1. Len(cells) \in Nat /\ start[a] \in Nat
      BY <1>3, <1>12
    <3> QED BY <1>3, <1>13, <1>14, <3>1
  <2>3. Stumbled'
    BY <1>2, <1>14, <2>1, <2>2, StumblesHere
  <2> QED BY <2>3
<1>21. CASE Room(4)
  <2>1. count = n /\ rc' = "ok"
    <3>1. c = cells[Here + 1] /\ c.type # "bool" /\ c.type \in {"int", "count", "long"}
      BY <1>16 DEF c
    <3>2. Length = c.val[1]
      BY <1>14, <1>21, <3>1, FoundLength
    <3> QED BY <1>1, <1>2, <1>16, <1>21, <3>2
  <2>2. ia'.off = ia.off + 4 /\ ia'.len = ia.len
    BY <1>2, <1>19, <1>21, InputMoves
  <2> DEFINE g == [type |-> "count", val |-> <<count>>, mine |-> count >= 0]
  <2>3. /\ Len(got') = Len(got) + 1 /\ got'[Len(got) + 1].val = <<count>>
        /\ \A i \in 1..Len(got) : got'[i] = got[i]
    <3>1. g.val = <<count>> /\ got' = Append(got, g)
      BY <1>1
    <3> HIDE DEF g
    <3> QED BY <3>1 DEF TypeInv
  <2>4. Faithful'
    <3>1. WireLength' = WireLength /\ Here' = Here + 1
      BY <1>2, <2>3, RecordStays DEF Here
    <3>2. Here' <= Len(cells') /\ ia'.off = WireLength'[Here']
      BY <1>2, <1>14, <1>18, <2>2, <3>1
    <3>3. ASSUME NEW i \in 1..Here' PROVE got'[i].val = Normal(cells[i]) /\ ~Absent(cells[i])
      <4>1. i \in 1..Here \/ i = Here + 1
        BY <1>3, <3>1
      <4>2. CASE i \in 1..Here
        BY <1>4, <2>3, <4>2 DEF Faithful, Here
      <4>3. CASE i = Here + 1
        BY <1>17, <2>1, <2>3, <4>3 DEF c, Here
      <4> QED BY <4>1, <4>2, <4>3
    <3>4. \A x : Normal(x)' = Normal(x) /\ (Absent(x)' <=> Absent(x))
      BY DEF Normal, Absent
    <3>5. \A i \in 1..Here' : got'[i].val = Normal(cells'[i]) /\ ~Absent(cells'[i])
      BY <1>2, <3>3
    <3> QED BY <2>1, <3>2, <3>5 DEF Faithful
  <2>5. Here' = start[p] + 1 /\ k = Len(Repeated(record, Reached(n)))
    BY <1>5, <1>8, <1>9, <2>1, <2>3 DEF Here
  <2>6. /\ k <= n * Len(record)
        /\ k < n * Len(record) => k >= ia.len - ia.off + 1
        /\ \A j \in 1..k : Repeated(record, Reached(n))[j] = Repeated(record, n)[j]
    BY <1>10, <2>5, ElementsReached
  <2>7. Ahead(k + 1)' = a
    BY <1>2, <1>3, <1>5 DEF Ahead, a, p
  <2>8. a > 1 /\ a - 1 = p
    BY <1>7 DEF a
  <2>9. Here' + (k + 1) - 1 <= start[a]
    BY <1>10, <1>12, <2>5, <2>6
  <2>10. ASSUME NEW j \in 1..((k + 1) - 1) PROVE cells'[Here' + j].type = todo'[j].op
    <3>1. j \in 1..k /\ j \in 1..(n * Len(record))
      BY <1>12, <2>6
    <3>2. cells[start[p] + 1 + j].type = Repeated(record, n)[j]
      BY <1>12, <3>1
    <3>3. todo'[j].op = Repeated(record, Reached(n))[j]
      BY <1>1, <1>2, <1>9, <2>1, <2>5, <3>1, ElementsSteps
    <3> QED BY <1>2, <2>5, <2>6, <3>1, <3>2, <3>3
  <2>11. ASSUME Here' + (k + 1) - 1 < start[a] PROVE WireLength'[Here' + (k + 1) - 1] > ia'.len
    <3>1. k >= ia.len - ia.off + 1
      BY <1>10, <1>12, <2>5, <2>6, <2>11
    <3> DEFINE i == Here + 1
               j == Here + 1 + k
    <3>2. i \in 0..Len(cells) /\ j \in i..Len(cells) /\ j - i = k
      <4>1. Len(cells) \in Nat /\ Here + 1 + k <= Len(cells)
        <5>1. PICK w \in Nat : w = n * Len(record)
          BY <1>12
        <5>2. start[a] = start[p] + w + 1 /\ start[p] \in Nat /\ start[a] <= Len(cells) /\ k <= w
          BY <1>12, <2>6, <5>1
        <5>3. Len(cells) \in Nat /\ Here \in Nat /\ Here = start[p]
          BY <1>3, <1>8
        <5> QED BY <5>2, <5>3
      <4> QED BY <1>3, <4>1
    <3> HIDE DEF i, j
    <3>3. WireLength[j] - WireLength[i] >= k
      BY <3>2, WireLengthGrows
    <3>4. WireLength[i] = ia.off + 4 /\ WireLength[j] \in Nat
      <4>1. j \in 0..Len(cells)
        BY <3>2
      <4> QED BY <1>18, <4>1, WireLengthIs DEF i
    <3>5. WireLength[j] > ia.len
      <4>1. ia.len \in Nat /\ ia.off \in Nat /\ k \in Nat
        BY <1>3
      <4> QED BY <3>1, <3>3, <3>4, <4>1
    <3>6. Here' + (k + 1) - 1 = j
      BY <1>3, <1>8, <2>5 DEF j
    <3>7. WireLength' = WireLength
      BY <1>2, RecordStays
    <3> QED BY <2>2, <3>5, <3>6, <3>7
  <2>12. PICK i : i = k + 1
    OBVIOUS
  <2>13. Ahead(i)' = a /\ i # 0 /\ i \in 0..Len(todo') /\ Pending(i)'
    BY <1>5, <2>7, <2>12
  <2>14. /\ a > 1 /\ shape'[a - 1].vector
         /\ Here' >= start[a - 1] + 1
         /\ Here' + i - 1 <= start[a]
         /\ \A j \in 1..(i - 1) : cells'[Here' + j].type = todo'[j].op
         /\ Here' + i - 1 < start[a] => WireLength'[Here' + i - 1] > ia'.len
    <3>1. shape'[a - 1].vector /\ Here' >= start[a - 1] + 1
      BY <1>2, <1>9, <1>12, <2>5, <2>8
    <3> QED BY <2>8, <2>9, <2>10, <2>11, <2>12, <3>1
  <2>15. Placed(start, i)'
    BY <2>13, <2>14 DEF Placed
  <2>16. InStep(start, i)'
    BY <2>4, <2>13, <2>15 DEF InStep
  <2> QED BY <2>13, <2>16
<1> QED BY <1>20, <1>21

(* What stays while nothing is read.                                           *)
LEMMA NothingRead ==
  ASSUME NEW start, UNCHANGED <<cells, shape, ia, todo, rc, got>>
  PROVE  /\ \A m : InStep(start, m) => InStep(start, m)'
         /\ Stumbled => Stumbled'
<1>1. WireLength' = WireLength /\ AfterVectors' = AfterVectors /\ NullStrings' = NullStrings
      /\ Here' = Here
  BY RecordStays DEF Here
<1>2. Faithful => Faithful'
  BY <1>1 DEF Faithful, Normal, Absent
<1>3. ASSUME NEW m PROVE (Pending(m) => Pending(m)') /\ (Placed(start, m) => Placed(start, m)')
  <2>1. Pending(m) => Pending(m)'
    BY DEF Pending, Plan, EndOfVector, Step
  <2>2. Ahead(m)' = Ahead(m)
    BY DEF Ahead
  <2> DEFINE a == Ahead(m)
  <2> HIDE DEF a
  <2>3. Placed(start, m) => Placed(start, m)'
    BY <1>1, <2>2 DEF Placed
  <2> QED BY <2>1, <2>3
<1>4. Stuck => Stuck'
  BY DEF Stuck
<1>5. Stumbled => Stumbled'
  BY <1>1, <1>4 DEF Stumbled, Absent
<1> QED BY <1>2, <1>3, <1>5 DEF InStep

(* A failure is forgotten only at the end of a vector.                         *)
LEMMA StumbledStays ==
  ASSUME TypeInv, Stumbled, UNCHANGED <<cells, shape>>, ia'.len = ia.len,
         Stuck => Stuck' /\ rc' = rc
  PROVE  Stumbled'
<1>1. WireLength' = WireLength /\ AfterVectors' = AfterVectors /\ NullStrings' = NullStrings
  BY RecordStays
<1>2. PICK f \in 1..Len(cells) :
        /\ Absent(cells[f]) \/ WireLength[f] > ia.len
        /\ f > Len(cells) - AfterVectors => Stuck /\ (NullStrings = {} => rc = "E2BIG")
  BY DEF Stumbled
<1>3. Absent(cells[f]) \/ WireLength'[f] > ia'.len
  BY <1>1, <1>2
<1>4. f > Len(cells) - AfterVectors' => Stuck' /\ (NullStrings' = {} => rc' = "E2BIG")
  BY <1>1, <1>2
<1> QED BY <1>2, <1>3, <1>4 DEF Stumbled, Absent

LEMMA StumbledStep ==
  ASSUME TypeInv, Stumbled, phase = "read",
         Reader \/ ia_start_vector \/ ia_end_vector \/ Skip
  PROVE  Stumbled'
<1>1. CASE Reader
  <2>1. PICK n, val, mine, code : Took(n, val, mine, code)
    BY <1>1, ReadersTake
  <2>2. UNCHANGED <<cells, shape>> /\ ia'.len = ia.len /\ rc = "ok"
    BY <1>1, <2>1, ReadersTake DEF Took
  <2> QED BY <2>2, StumbledStays DEF Stuck
<1>2. CASE ia_start_vector
  <2>1. UNCHANGED <<cells, shape>> /\ rc = "ok"
    BY <1>2, StartOfVector
  <2>2. ia'.len = ia.len
    <3>1. CASE Room(4)
      <4>1. ia' = [ia EXCEPT !.off = @ + 4]
        BY <1>2, <3>1, StartOfVector
      <4>2. ia.off + 4 <= ia.len
        BY <3>1, Remaining
      <4> QED BY <4>1, <4>2, InputMoves
    <3>2. CASE ~Room(4)
      BY <1>2, <3>2, StartOfVector
    <3> QED BY <3>1, <3>2
  <2> QED BY <2>1, <2>2, StumbledStays DEF Stuck
<1>3. CASE ia_end_vector
  <2>1. UNCHANGED <<cells, shape, ia>> /\ todo # <<>> /\ Head(todo).op = "end"
    BY <1>3 DEF ia_end_vector, Reading
  <2>2. ~Stuck
    <3>1. 1 \in 1..Len(todo) /\ Head(todo) = todo[1]
      BY <2>1 DEF TypeInv
    <3> QED BY <2>1, <3>1 DEF Stuck
  <2> QED BY <2>1, <2>2, StumbledStays
<1>4. CASE Skip
  <2>1. UNCHANGED <<cells, shape, ia, rc>> /\ todo # <<>> /\ todo' = Tail(todo)
    BY <1>4 DEF Skip
  <2>2. Stuck => Stuck'
    <3>1. Len(todo') = Len(todo) - 1 /\ \A j \in 1..(Len(todo) - 1) : todo'[j] = todo[j + 1]
      BY <2>1 DEF TypeInv
    <3>2. \A j \in 1..Len(todo') : j \in 1..(Len(todo) - 1) /\ j + 1 \in 1..Len(todo)
      BY <3>1 DEF TypeInv
    <3> QED BY <2>1, <3>1, <3>2 DEF Stuck
  <2> QED BY <2>1, <2>2, StumbledStays
<1> QED BY <1>1, <1>2, <1>3, <1>4

LEMMA TravelInStep ==
  ASSUME TypeInv, FreeInv, NEW start, IsLayout(cells, start), Travel
  PROVE  InStep(start, 0)' /\ 0 \in 0..Len(todo')
<1>1. /\ phase = "write" /\ todo' = Plan(shape) /\ UNCHANGED <<cells, shape, rc, got>>
      /\ ia'.off = 0
  BY DEF Travel
<1>2. got = <<>> /\ rc = "ok" /\ shape \in Seq(Fields) /\ cells \in Seq(Cells)
  BY <1>1 DEF FreeInv, TypeInv
<1>3. Plan(shape) \in Seq(Pieces) /\ Len(Plan(shape)) = Len(shape) /\ Len(shape) \in Nat
  BY <1>2, PlanIs
<1>4. Len(todo') = Len(shape) /\ Here' = 0 /\ 0 \in 0..Len(todo')
  BY <1>1, <1>2, <1>3 DEF Here
<1>5. Faithful'
  <2>1. WireLength' = WireLength /\ WireLength[0] = 0 /\ Len(cells) \in Nat
    BY <1>1, <1>2, RecordStays, WireLengthIs
  <2>2. Here' <= Len(cells') /\ ia'.off = WireLength'[Here'] /\ rc' = "ok"
    BY <1>1, <1>2, <1>4, <2>1
  <2>3. 1..Here' = {}
    BY <1>4
  <2> QED BY <2>2, <2>3 DEF Faithful
<1>6. Pending(0)'
  <2>1. Plan(shape)' = Plan(shape)
    BY <1>1 DEF Plan, Step
  <2>2. \A j \in (0 + 1)..Len(todo') : todo'[j] = Plan(shape)'[Len(shape') - Len(todo') + j]
    <3>1. \A j \in 1..Len(todo') : Len(shape) - Len(todo') + j = j
      BY <1>3, <1>4
    <3> QED BY <1>1, <2>1, <3>1
  <2>3. Len(todo') - 0 <= Len(shape')
    BY <1>1, <1>3, <1>4
  <2>4. 1..(0 - 1) = {}
    OBVIOUS
  <2> QED BY <2>2, <2>3, <2>4 DEF Pending
<1>7. Placed(start, 0)'
  <2>1. Ahead(0)' = 1
    BY <1>1, <1>3, <1>4 DEF Ahead
  <2>2. start[1] = 0
    BY DEF IsLayout
  <2> QED BY <1>4, <2>1, <2>2 DEF Placed
<1> QED BY <1>4, <1>5, <1>6, <1>7 DEF InStep

LEMMA SyncInit == AnyRecord => SyncInv
<1> SUFFICES ASSUME AnyRecord PROVE SyncInv
  OBVIOUS
<1>1. phase = "write"
  BY DEF AnyRecord
<1>2. PICK start : IsLayout(cells, start)
  BY DEF AnyRecord
<1> QED BY <1>1, <1>2 DEF SyncInv, ReadInv

LEMMA SyncStep == TypeInv /\ FreeInv /\ WireInv /\ SyncInv /\ [Next]_vars => SyncInv'
<1> SUFFICES ASSUME TypeInv, FreeInv, WireInv, SyncInv, [Next]_vars PROVE SyncInv'
  OBVIOUS
<1>1. PICK start : IsLayout(cells, start) /\ ReadInv(start)
  BY DEF SyncInv
<1>2. ASSUME UNCHANGED <<cells, shape>>, ReadInv(start)' PROVE SyncInv'
  <2>1. IsLayout(cells, start)'
    BY <1>1, <1>2, RecordStays
  <2> QED BY <1>1, <1>2, <2>1 DEF SyncInv
<1>3. CASE Writing
  <2>1. UNCHANGED <<phase, cells, shape>> /\ phase = "write"
    BY <1>3, WritersWrite DEF Wrote
  <2> QED BY <1>2, <2>1 DEF ReadInv
<1>4. CASE Travel
  <2>1. InStep(start, 0)' /\ 0 \in 0..Len(todo')
    BY <1>1, <1>4, TravelInStep
  <2>2. UNCHANGED <<cells, shape>>
    BY <1>4 DEF Travel
  <2>3. ReadInv(start)'
    BY <2>1 DEF ReadInv
  <2> QED BY <1>2, <2>2, <2>3
<1>5. CASE Reader \/ ia_start_vector \/ ia_end_vector \/ Skip
  <2>1. phase = "read"
    BY <1>5 DEF Reader, ia_deserialize_int, ia_deserialize_long, ia_deserialize_bool,
                ia_deserialize_buffer, ia_deserialize_string, ia_start_vector, ia_end_vector,
                Reading, Skip
  <2>2. UNCHANGED <<cells, shape>>
    BY <1>5 DEF Reader, ia_deserialize_int, ia_deserialize_long, ia_deserialize_bool,
                ia_deserialize_buffer, ia_deserialize_string, ia_start_vector, ia_end_vector,
                Reading, Skip
  <2>3. CASE Stumbled
    <3>1. Stumbled'
      BY <1>5, <2>1, <2>3, StumbledStep
    <3>2. ReadInv(start)'
      BY <3>1 DEF ReadInv
    <3> QED BY <1>2, <2>2, <3>2
  <2>4. CASE \E m \in 0..Len(todo) : InStep(start, m)
    <3>1. PICK m \in 0..Len(todo) : InStep(start, m)
      BY <2>4
    <3>2. rc = "ok" /\ m \in Nat
      BY <3>1 DEF InStep, Faithful
    <3>3. (\E i \in 0..Len(todo') : InStep(start, i)') \/ Stumbled'
      <4>1. CASE Reader /\ m = 0
        <5>1. InStep(start, 0)
          BY <3>1, <4>1
        <5>2. \/ InStep(start, 0)' /\ 0 \in 0..Len(todo')
              \/ Stumbled'
          BY <1>1, <2>1, <4>1, <5>1, FieldRead
        <5> QED BY <5>2
      <4>2. CASE Reader /\ m > 0
        <5>1. \/ InStep(start, m - 1)' /\ m - 1 \in 0..Len(todo')
              \/ Stumbled'
          BY <1>1, <2>1, <3>1, <4>2, ElementRead
        <5> DEFINE k == m - 1
        <5> HIDE DEF k
        <5>2. PICK i : i = k
          OBVIOUS
        <5>3. \/ InStep(start, i)' /\ i \in 0..Len(todo')
              \/ Stumbled'
          BY <5>1, <5>2 DEF k
        <5> QED BY <5>3
      <4>3. CASE ia_start_vector
        BY <1>1, <2>1, <3>1, <4>3, CountRead
      <4>4. CASE ia_end_vector
        <5>1. InStep(start, 0)' /\ 0 \in 0..Len(todo')
          BY <1>1, <2>1, <3>1, <4>4, EndPassed
        <5> QED BY <5>1
      <4>5. ~Skip
        BY <3>2 DEF Skip
      <4> QED BY <1>5, <3>2, <4>1, <4>2, <4>3, <4>4, <4>5
    <3>4. ReadInv(start)'
      BY <3>3 DEF ReadInv
    <3> QED BY <1>2, <2>2, <3>4
  <2> QED BY <1>1, <2>1, <2>3, <2>4 DEF ReadInv
<1>6. CASE EndRead \/ Deallocate \/ UNCHANGED vars
  <2>1. UNCHANGED <<cells, shape, ia, todo, rc, got>> /\ (phase' # "write" => phase # "write")
    BY <1>6 DEF EndRead, Deallocate, vars
  <2>2. (\A m : InStep(start, m) => InStep(start, m)') /\ (Stumbled => Stumbled')
    BY <2>1, NothingRead
  <2>3. ReadInv(start)'
    BY <1>1, <2>1, <2>2 DEF ReadInv
  <2> QED BY <1>2, <2>1, <2>3
<1> QED BY <1>3, <1>4, <1>5, <1>6 DEF Next, Writing, Reader

-------------------------------------------------------------------------------
(* What the reader has when it is done                                         *)

LEMMA AgreementIsKept == AnySpec => [](TypeInv /\ FreeInv /\ WireInv /\ SyncInv)
<1>1. AnyRecord => WireInv /\ SyncInv
  BY WireInit, SyncInit
<1>2. TypeInv /\ FreeInv /\ WireInv /\ SyncInv /\ [Next]_vars => (WireInv /\ SyncInv)'
  BY WireStep, SyncStep
<1> QED BY <1>1, <1>2, OwnershipIsKept, PTL DEF AnySpec

(* At the end every cell was read, or the reader stumbled; and what the reader *)
(* got is all of it if no byte is missing.                                     *)
LEMMA AtTheEnd ==
  ASSUME TypeInv, FreeInv, WireInv, SyncInv, Ended
  PROVE  /\ \/ Faithful /\ Here = Len(cells) /\ Whole /\ ia.off = ia.len /\ NullStrings = {}
            \/ Stumbled
         /\ oa.off = WireLength[Len(cells)]
         /\ ~HasVector => AfterVectors = Len(cells)
         /\ AfterVectors \in Nat /\ AfterVectors <= Len(cells)
<1>1. PICK start : IsLayout(cells, start) /\ ReadInv(start)
  BY DEF SyncInv
<1>2. todo = <<>> /\ phase # "write" /\ phase # "read"
  BY DEF FreeInv, Ended
<1>3. shape \in Seq(Fields) /\ cells \in Seq(Cells) /\ Len(cells) \in Nat /\ Len(shape) \in Nat
  BY DEF TypeInv
<1>4. oa.off = WireLength[Len(cells)] /\ ia.len <= oa.off
  <2>1. left = 0 /\ ia.len <= oa.off /\ Holds(Len(cells) - left)
    BY <1>2 DEF WireInv
  <2>2. Len(cells) - left = Len(cells)
    BY <1>3, <2>1
  <2> QED BY <2>1, <2>2 DEF Holds
<1>5. /\ ~HasVector => AfterVectors = Len(cells)
      /\ AfterVectors \in Nat /\ AfterVectors <= Len(cells)
  BY <1>1, <1>3, AfterIs
<1>6. ASSUME NEW m \in 0..Len(todo), InStep(start, m)
      PROVE  Faithful /\ Here = Len(cells) /\ Whole /\ ia.off = ia.len /\ NullStrings = {}
  <2>1. m = 0 /\ Len(todo) = 0
    BY <1>2, <1>6
  <2>2. Ahead(m) = Len(shape) + 1
    BY <1>3, <2>1 DEF Ahead
  <2>3. Faithful /\ Here = start[Len(shape) + 1]
    BY <1>6, <2>1, <2>2 DEF InStep, Placed
  <2>4. Here = Len(cells)
    BY <1>1, <2>3 DEF IsLayout
  <2>5. ia.off = WireLength[Len(cells)]
    BY <2>3, <2>4 DEF Faithful
  <2>6. ia.off \in Nat /\ ia.len \in Nat /\ ia.off <= ia.len /\ oa.off \in Nat
    BY Remaining DEF TypeInv, IsOut
  <2>7. Whole /\ ia.off = ia.len
    BY <1>4, <2>5, <2>6 DEF Whole
  <2>8. NullStrings = {}
    <3>1. \A i \in DOMAIN cells : i \in 1..Here
      BY <1>3, <2>4
    <3>2. \A i \in DOMAIN cells : ~Absent(cells[i])
      BY <2>3, <3>1 DEF Faithful
    <3> QED BY <3>2 DEF NullStrings, Absent
  <2> QED BY <2>3, <2>4, <2>7, <2>8
<1> QED BY <1>1, <1>2, <1>4, <1>5, <1>6 DEF ReadInv

(* A cell that is there, in bytes that all came, trips nobody.                 *)
LEMMA MissingIsMissed ==
  ASSUME TypeInv, NullStrings = {}, NEW f \in 1..Len(cells),
         Absent(cells[f]) \/ WireLength[f] > ia.len,
         NEW i \in 0..Len(cells), WireLength[i] <= ia.len
  PROVE  f > i
<1>1. ~Absent(cells[f])
  <2>1. f \in DOMAIN cells
    BY DEF TypeInv
  <2> QED BY <2>1 DEF Absent, NullStrings
<1>2. Len(cells) \in Nat /\ ia.len \in Nat
  BY DEF TypeInv, Buffers
<1>3. WireLength[f] > ia.len /\ WireLength[f] \in Nat /\ WireLength[i] \in Nat
  <2>1. f \in 0..Len(cells)
    BY <1>2
  <2> QED BY <1>1, <2>1, WireLengthIs
<1>4. ASSUME f <= i PROVE FALSE
  <2>1. f \in 0..Len(cells) /\ i \in f..Len(cells)
    BY <1>2, <1>4
  <2>2. WireLength[i] - WireLength[f] >= i - f
    BY <2>1, WireLengthGrows
  <2> QED BY <1>2, <1>3, <1>4, <2>2
<1> QED BY <1>4

(* What was written is what is read, to the last byte, for every record with   *)
(* every value, in a buffer of any first size.                                 *)
THEOREM ReadingInvertsWriting == (Spec => []RoundTrip) /\ (AnySpec => []RoundTrip)
<1>1. TypeInv /\ FreeInv /\ WireInv /\ SyncInv => RoundTrip
  <2> SUFFICES ASSUME TypeInv, FreeInv, WireInv, SyncInv, Ended, Whole, NullStrings = {}
               PROVE  /\ rc = "ok" /\ ia.off = ia.len
                      /\ [i \in DOMAIN got |-> got[i].val] = [i \in DOMAIN cells |-> Normal(cells[i])]
    BY DEF RoundTrip
  <2>1. /\ \/ Faithful /\ Here = Len(cells) /\ ia.off = ia.len
           \/ Stumbled
        /\ oa.off = WireLength[Len(cells)]
    BY AtTheEnd
  <2>2. ~Stumbled
    <3>1. WireLength[Len(cells)] <= ia.len /\ Len(cells) \in 0..Len(cells)
      BY <2>1 DEF Whole, TypeInv, Buffers
    <3>2. ASSUME NEW f \in 1..Len(cells), Absent(cells[f]) \/ WireLength[f] > ia.len
          PROVE  FALSE
      <4>1. f > Len(cells)
        BY <3>1, <3>2, MissingIsMissed
      <4> QED BY <4>1 DEF TypeInv
    <3> QED BY <3>2 DEF Stumbled
  <2>3. DOMAIN got = 1..Len(got) /\ DOMAIN cells = 1..Len(cells)
    BY DEF TypeInv
  <2>4. DOMAIN got = DOMAIN cells /\ \A i \in DOMAIN got : got[i].val = Normal(cells[i])
    BY <2>1, <2>2, <2>3 DEF Faithful, Here
  <2>5. [i \in DOMAIN got |-> got[i].val] = [i \in DOMAIN cells |-> Normal(cells[i])]
    BY <2>4
  <2> QED BY <2>1, <2>2, <2>5 DEF Faithful
<1> QED BY <1>1, SpecIsAnySpec, AgreementIsKept, PTL

(* A record without vectors is reported as read only if all of it was; and     *)
(* what is cut off after the last vector is reported, whatever the vectors     *)
(* before it hide.                                                             *)
THEOREM LossIsReported == (Spec => []OkMeansWhole) /\ (AnySpec => []OkMeansWhole)
<1>1. TypeInv /\ FreeInv /\ WireInv /\ SyncInv => OkMeansWhole
  <2> SUFFICES ASSUME TypeInv, FreeInv, WireInv, SyncInv, Ended PROVE OkMeansWhole
    BY DEF OkMeansWhole
  <2>1. /\ \/ Faithful /\ Whole /\ NullStrings = {}
           \/ Stumbled
        /\ oa.off = WireLength[Len(cells)]
        /\ ~HasVector => AfterVectors = Len(cells)
        /\ AfterVectors \in Nat /\ AfterVectors <= Len(cells)
    BY AtTheEnd
  <2>2. Len(cells) \in Nat /\ ia.len \in Nat
    BY DEF TypeInv, Buffers
  <2> DEFINE last == Len(cells) - AfterVectors
  <2>3. last \in 0..Len(cells)
    BY <2>1, <2>2
  <2>4. ASSUME NEW f \in 1..Len(cells), f > last,
               f > Len(cells) - AfterVectors => Stuck /\ (NullStrings = {} => rc = "E2BIG")
        PROVE  rc # "ok" /\ (NullStrings = {} => rc = "E2BIG")
    BY <2>4 DEF Stuck
  <2> HIDE DEF last
  <2>5. ASSUME ~HasVector PROVE rc = "ok" <=> Whole /\ NullStrings = {}
    <3>1. last = 0
      BY <2>1, <2>2, <2>5 DEF last
    <3>2. CASE Faithful /\ Whole /\ NullStrings = {}
      BY <3>2 DEF Faithful
    <3>3. CASE Stumbled
      <4>1. PICK f \in 1..Len(cells) :
              /\ Absent(cells[f]) \/ WireLength[f] > ia.len
              /\ f > Len(cells) - AfterVectors => Stuck /\ (NullStrings = {} => rc = "E2BIG")
        BY <3>3 DEF Stumbled
      <4>2. rc # "ok"
        <5>1. f > last
          BY <3>1
        <5> QED BY <2>4, <4>1, <5>1
      <4>3. ~(Whole /\ NullStrings = {})
        <5>1. ASSUME Whole, NullStrings = {} PROVE FALSE
          <6>1. WireLength[Len(cells)] <= ia.len /\ Len(cells) \in 0..Len(cells)
            BY <2>1, <2>2, <5>1 DEF Whole
          <6>2. f > Len(cells)
            BY <4>1, <5>1, <6>1, MissingIsMissed
          <6> QED BY <2>2, <6>2
        <5> QED BY <5>1
      <4> QED BY <4>2, <4>3
    <3> QED BY <2>1, <3>2, <3>3
  <2>6. ASSUME ~Whole, NullStrings = {}, ia.len >= WireLength[last] PROVE rc = "E2BIG"
    <3>1. PICK f \in 1..Len(cells) :
            /\ Absent(cells[f]) \/ WireLength[f] > ia.len
            /\ f > Len(cells) - AfterVectors => Stuck /\ (NullStrings = {} => rc = "E2BIG")
      BY <2>1, <2>6 DEF Stumbled
    <3>2. WireLength[last] <= ia.len
      <4>1. WireLength[last] \in Nat
        BY <2>3, WireLengthIs
      <4> QED BY <2>2, <2>6, <4>1
    <3>3. f > last
      BY <2>3, <2>6, <3>1, <3>2, MissingIsMissed
    <3> QED BY <2>4, <2>6, <3>1, <3>3
  <2> QED BY <2>5, <2>6 DEF OkMeansWhole, last
<1> QED BY <1>1, SpecIsAnySpec, AgreementIsKept, PTL
============================================================================
