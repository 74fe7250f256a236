----------------------------- MODULE MultiOpProofs -----------------------------
(* For any calls, requests and number of lost connections: the entries of a    *)
(* multi request and its reply stay in step, its results are the server's, and *)
(* they are final.                                                             *)
EXTENDS MultiOp, SequenceTheorems, WellFoundedInduction, TLAPS

-------------------------------------------------------------------------------
(* Recursive functions: induction over sets of numbers, and what FlattenSeq    *)
(* and FakedReplies compute                                                    *)

LEMMA LessIsWellFounded == IsWellFoundedOn({p \in Nat \X Nat : p[1] < p[2]}, Nat)
BY NatLessThanWellFounded DEF OpToRel

LEMMA LeastNumber ==
  ASSUME NEW T \in SUBSET Nat, T # {}
  PROVE  \E x \in T : \A y \in T : x <= y
<1> DEFINE less == {p \in Nat \X Nat : p[1] < p[2]}
<1>1. PICK x \in T : \A y \in T : <<y, x>> \notin less
  <2> HIDE DEF less
  <2> QED BY LessIsWellFounded, WFMin DEF less
<1>2. ASSUME NEW y \in T PROVE x <= y
  <2>1. x \in Nat /\ y \in Nat
    OBVIOUS
  <2>2. y < x => <<y, x>> \in less
    BY <2>1
  <2> HIDE DEF less
  <2>3. ~(y < x)
    BY <1>1, <2>2
  <2> QED BY <2>1, <2>3
<1> QED BY <1>2

LEMMA Induction ==
  ASSUME NEW S, 0 \in S, \A n \in Nat : n \in S => n + 1 \in S
  PROVE  Nat \subseteq S
<1> SUFFICES ASSUME Nat \ S # {} PROVE FALSE
  OBVIOUS
<1>1. PICK x \in Nat \ S : \A y \in Nat \ S : x <= y
  BY LeastNumber
<1>2. x # 0 /\ x - 1 \in Nat
  BY <1>1
<1>3. x - 1 \in S
  BY <1>1, <1>2
<1>4. (x - 1) + 1 \in S
  BY <1>2, <1>3
<1> QED BY <1>1, <1>4

(* A sequence of values, each made of the one before, exists.                  *)
Steps(D, step) == \A i \in Nat : \A d \in D : step[<<i, d>>] \in D

Chain(f, D, d0, step, n) ==
  f \in [0..n -> D] /\ f[0] = d0 /\ \A i \in 1..n : f[i] = step[<<i, f[i - 1]>>]

LEMMA Recursion ==
  ASSUME NEW D, NEW d0, d0 \in D, NEW step, Steps(D, step), NEW k, k \in Nat
  PROVE  \E f : Chain(f, D, d0, step, k)
<1> USE DEF Steps
<1> DEFINE Good(n, f) == f[0] = d0 /\ \A i \in 1..n : f[i] = step[<<i, f[i - 1]>>]
           S == {n \in Nat : \E f \in [0..n -> D] : Good(n, f)}
<1>1. 0 \in S
  <2>1. [i \in 0..0 |-> d0] \in [0..0 -> D] /\ Good(0, [i \in 0..0 |-> d0])
    OBVIOUS
  <2> QED BY <2>1
<1>2. ASSUME NEW n \in Nat, n \in S PROVE n + 1 \in S
  <2>1. PICK f \in [0..n -> D] : Good(n, f)
    BY <1>2
  <2> DEFINE g == [i \in 0..(n + 1) |-> IF i = n + 1 THEN step[<<n + 1, f[n]>>] ELSE f[i]]
  <2>2. g \in [0..(n + 1) -> D]
    <3>1. ASSUME NEW i \in 0..(n + 1) PROVE g[i] \in D
      BY n + 1 \in Nat, f[n] \in D
    <3> QED BY <3>1
  <2>3. g[0] = d0
    BY <2>1
  <2>4. ASSUME NEW i \in 1..(n + 1) PROVE g[i] = step[<<i, g[i - 1]>>]
    <3>1. CASE i = n + 1
      <4>1. g[i] = step[<<n + 1, f[n]>>] /\ i - 1 = n /\ g[n] = f[n]
        BY <3>1
      <4> QED BY <3>1, <4>1
    <3>2. CASE i \in 1..n
      <4>1. g[i] = f[i] /\ g[i - 1] = f[i - 1]
        BY <3>2
      <4>2. f[i] = step[<<i, f[i - 1]>>]
        BY <2>1, <3>2
      <4> QED BY <4>1, <4>2
    <3> QED BY <3>1, <3>2
  <2>5. Good(n + 1, g)
    BY <2>3, <2>4
  <2> HIDE DEF Good, g
  <2> QED BY <2>2, <2>5
<1>3. Nat \subseteq S
  <2> HIDE DEF S
  <2> QED BY <1>1, <1>2, Induction
<1>4. PICK f \in [0..k -> D] : Good(k, f)
  BY <1>3
<1>5. Chain(f, D, d0, step, k)
  BY <1>4 DEF Chain
<1> QED BY <1>5

(* The recursive function of FlattenSeq: the first i elements of s, joined.    *)
Joined(s, n) == CHOOSE h : h = [i \in 1..n |-> IF i = 1 THEN s[i] ELSE h[i - 1] \o s[i]]

Closed(D) == \A d, e \in D : d \o e \in D

IsJoin(h, D, s, n) == h \in [1..n -> D] /\ h[1] = s[1] /\ \A i \in 2..n : h[i] = h[i - 1] \o s[i]

LEMMA JoinIs ==
  ASSUME NEW D, NEW n, n \in Nat, n >= 1, NEW s, s \in [1..n -> D], Closed(D)
  PROVE  IsJoin(Joined(s, n), D, s, n)
<1> DEFINE step == [p \in Nat \X D |-> IF p[1] + 1 \in 1..n THEN p[2] \o s[p[1] + 1] ELSE p[2]]
           Is(f) == f = [i \in 1..n |-> IF i = 1 THEN s[i] ELSE f[i - 1] \o s[i]]
<1>1. ASSUME NEW i \in Nat, NEW d \in D
      PROVE  step[<<i, d>>] = IF i + 1 \in 1..n THEN d \o s[i + 1] ELSE d
  <2>1. <<i, d>> \in Nat \X D /\ <<i, d>>[1] = i /\ <<i, d>>[2] = d
    OBVIOUS
  <2> QED BY <2>1
<1> HIDE DEF step
<1>2. ASSUME NEW i \in Nat, NEW d \in D PROVE step[<<i, d>>] \in D
  <2>1. i + 1 \in 1..n => s[i + 1] \in D
    OBVIOUS
  <2> QED BY <1>1, <2>1 DEF Closed
<1>3. s[1] \in D /\ n - 1 \in Nat
  OBVIOUS
<1>4. PICK f : f \in [0..(n - 1) -> D] /\ f[0] = s[1]
               /\ \A i \in 1..(n - 1) : f[i] = step[<<i, f[i - 1]>>]
  <2>1. Steps(D, step)
    BY <1>2 DEF Steps
  <2>2. \E f : Chain(f, D, s[1], step, n - 1)
    BY <1>3, <2>1, Recursion
  <2> QED BY <2>2 DEF Chain
<1>5. ASSUME NEW i \in 1..(n - 1) PROVE f[i] = f[i - 1] \o s[i + 1]
  <2>1. f[i - 1] \in D /\ i \in Nat /\ i + 1 \in 1..n
    BY <1>4
  <2> QED BY <1>1, <1>4, <2>1
<1> DEFINE g == [i \in 1..n |-> f[i - 1]]
<1>6. g \in [1..n -> D] /\ g[1] = s[1] /\ \A i \in 2..n : g[i] = g[i - 1] \o s[i]
  <2>1. \A i \in 1..n : i - 1 \in 0..(n - 1)
    OBVIOUS
  <2>2. g \in [1..n -> D] /\ g[1] = s[1]
    BY <1>4, <2>1
  <2>3. ASSUME NEW i \in 2..n PROVE g[i] = g[i - 1] \o s[i]
    <3>1. i - 1 \in 1..(n - 1) /\ (i - 1) + 1 = i /\ i \in 1..n /\ i - 1 \in 1..n
      OBVIOUS
    <3>2. g[i] = f[i - 1] /\ g[i - 1] = f[(i - 1) - 1]
      BY <3>1
    <3> HIDE DEF g
    <3> QED BY <1>5, <3>1, <3>2
  <2> QED BY <2>2, <2>3
<1> HIDE DEF g
<1>7. Is(g)
  <2>1. g = [i \in 1..n |-> g[i]]
    BY <1>6
  <2>2. ASSUME NEW i \in 1..n PROVE g[i] = IF i = 1 THEN s[i] ELSE g[i - 1] \o s[i]
    <3>1. i = 1 \/ i \in 2..n
      OBVIOUS
    <3> QED BY <1>6, <3>1
  <2> QED BY <2>1, <2>2
<1> DEFINE h == CHOOSE h : Is(h)
<1>8. Is(h)
  <2> HIDE DEF Is
  <2> QED BY <1>7
<1> HIDE DEF h
<1>9. \A i \in 1..n : h[i] = IF i = 1 THEN s[i] ELSE h[i - 1] \o s[i]
  BY <1>8
<1>10. ASSUME NEW i \in 1..n PROVE h[i] = g[i]
  <2> DEFINE S == {j \in Nat : j + 1 \in 1..n => h[j + 1] = g[j + 1]}
  <2>1. 0 \in S
    BY <1>6, <1>9
  <2>2. ASSUME NEW j \in Nat, j \in S PROVE j + 1 \in S
    <3> SUFFICES ASSUME (j + 1) + 1 \in 1..n PROVE h[(j + 1) + 1] = g[(j + 1) + 1]
      OBVIOUS
    <3> DEFINE k == (j + 1) + 1
    <3>1. j + 1 \in 1..n /\ k \in 2..n /\ k \in 1..n /\ k # 1 /\ k - 1 = j + 1
      OBVIOUS
    <3>2. h[j + 1] = g[j + 1]
      BY <2>2, <3>1
    <3> HIDE DEF k
    <3>3. h[k] = h[k - 1] \o s[k]
      BY <3>1, <1>9
    <3>4. g[k] = g[k - 1] \o s[k]
      BY <3>1, <1>6
    <3>5. h[k] = g[k]
      BY <3>1, <3>2, <3>3, <3>4
    <3> QED BY <3>5 DEF k
  <2>3. Nat \subseteq S
    <3> HIDE DEF S
    <3> QED BY <2>1, <2>2, Induction
  <2>4. i - 1 \in Nat /\ (i - 1) + 1 = i
    OBVIOUS
  <2>5. i - 1 \in S
    BY <2>3, <2>4
  <2> QED BY <2>4, <2>5
<1>11. h = g
  <2>1. h = [i \in 1..n |-> h[i]]
    BY <1>8
  <2>2. g = [i \in 1..n |-> g[i]]
    BY <1>6
  <2> QED BY <1>10, <2>1, <2>2
<1>12. h \in [1..n -> D] /\ h[1] = s[1] /\ \A i \in 2..n : h[i] = h[i - 1] \o s[i]
  BY <1>6, <1>11
<1> QED BY <1>12 DEF h, Is, Joined, IsJoin

Associative(D) == \A a, b, c \in D : (a \o b) \o c = a \o (b \o c)

(* A name for \o that the provers do not expand.                               *)
Join(a, b) == a \o b

(* g joins the m elements of s, and h those of its tail.                       *)
JoinsTail(D, m, n, g, s, h, t) ==
  /\ n \in Nat /\ n >= 1 /\ m = n + 1 /\ Associative(D)
  /\ IsJoin(g, D, s, m) /\ IsJoin(h, D, t, n)
  /\ s[1] \in D /\ \A i \in 1..n : t[i] = s[i + 1] /\ t[i] \in D

LEMMA JoinOfTail ==
  ASSUME NEW D, NEW m, NEW n, NEW g, NEW s, NEW h, NEW t, JoinsTail(D, m, n, g, s, h, t)
  PROVE  g[m] = Join(s[1], h[n])
<1> USE DEF JoinsTail, Join
<1> DEFINE P(i) == g[i + 1] = s[1] \o h[i]
           S == {j \in Nat : j + 1 \in 1..n => P(j + 1)}
<1>1. P(1)
  <2>1. g[2] = g[1] \o s[2] /\ g[1] = s[1]
    <3>1. 2 \in 2..(n + 1) /\ 2 - 1 = 1
      OBVIOUS
    <3> QED BY <3>1 DEF IsJoin
  <2>2. h[1] = s[2]
    <3>1. 1 \in 1..n /\ 1 + 1 = 2
      OBVIOUS
    <3> QED BY <3>1 DEF IsJoin
  <2>3. 1 + 1 = 2
    OBVIOUS
  <2> QED BY <2>1, <2>2, <2>3
<1>2. ASSUME NEW i \in 1..(n - 1), P(i) PROVE P(i + 1)
  <2> DEFINE k == i + 1
  <2>1. /\ k \in 2..n /\ k + 1 \in 2..(n + 1) /\ (k + 1) - 1 = k
        /\ k - 1 = i /\ k \in 1..n /\ i \in 1..n
    OBVIOUS
  <2>2. g[k] = s[1] \o h[i]
    BY <1>2
  <2> HIDE DEF k, P
  <2>3. g[k + 1] = g[k] \o s[k + 1]
    BY <2>1 DEF IsJoin
  <2>4. h[k] = h[i] \o t[k] /\ t[k] = s[k + 1] /\ t[k] \in D /\ h[i] \in D
    BY <2>1 DEF IsJoin
  <2>5. (s[1] \o h[i]) \o t[k] = s[1] \o (h[i] \o t[k])
    BY <2>4 DEF Associative
  <2>6. g[k + 1] = s[1] \o h[k]
    BY <2>2, <2>3, <2>4, <2>5
  <2>7. P(k)
    BY <2>6 DEF P
  <2> QED BY <2>7 DEF k
<1> HIDE DEF P
<1>3. 0 \in S
  BY <1>1
<1>4. ASSUME NEW j \in Nat, j \in S PROVE j + 1 \in S
  <2> SUFFICES ASSUME (j + 1) + 1 \in 1..n PROVE P((j + 1) + 1)
    OBVIOUS
  <2>1. j + 1 \in 1..(n - 1) /\ j + 1 \in 1..n
    OBVIOUS
  <2>2. P(j + 1)
    BY <1>4, <2>1
  <2> QED BY <1>2, <2>1, <2>2
<1>5. Nat \subseteq S
  <2> HIDE DEF S
  <2> QED BY <1>3, <1>4, Induction
<1>6. n - 1 \in Nat /\ (n - 1) + 1 = n /\ n \in 1..n
  OBVIOUS
<1>7. n - 1 \in S
  BY <1>5, <1>6
<1>8. P(n)
  BY <1>6, <1>7
<1> QED BY <1>8 DEF P

LEMMA FlattenIs ==
  ASSUME NEW T, NEW s, s \in Seq(Seq(T)), s # <<>>
  PROVE  /\ IsJoin(Joined(s, Len(s)), Seq(T), s, Len(s))
         /\ FlattenSeq(s) = Joined(s, Len(s))[Len(s)]
<1>1. Len(s) \in Nat /\ Len(s) >= 1 /\ s \in [1..Len(s) -> Seq(T)]
  OBVIOUS
<1>2. Closed(Seq(T))
  BY ConcatProperties DEF Closed
<1>3. IsJoin(Joined(s, Len(s)), Seq(T), s, Len(s))
  BY <1>1, <1>2, JoinIs
<1>4. FlattenSeq(s) = Joined(s, Len(s))[Len(s)]
  BY <1>1 DEF FlattenSeq, Joined
<1> QED BY <1>3, <1>4

LEMMA FlattenNothing == FlattenSeq(<<>>) = <<>>
BY DEF FlattenSeq

(* FlattenSeq joins the first element to what it makes of the others.          *)
LEMMA FlattenFirst ==
  ASSUME NEW T, NEW s, s \in Seq(Seq(T)), s # <<>>
  PROVE  FlattenSeq(s) = Join(s[1], FlattenSeq(Tail(s))) /\ FlattenSeq(s) \in Seq(T)
<1>1. PICK n, t : n = Len(s) /\ t = Tail(s)
  OBVIOUS
<1>2. /\ n \in Nat /\ n >= 1 /\ \A i \in 1..n : s[i] \in Seq(T)
      /\ t \in Seq(Seq(T)) /\ Len(t) = n - 1 /\ \A i \in 1..(n - 1) : t[i] = s[i + 1]
  BY <1>1, HeadTailProperties
<1>3. IsJoin(Joined(s, n), Seq(T), s, n) /\ FlattenSeq(s) = Joined(s, n)[n]
  BY <1>1, FlattenIs
<1>4. FlattenSeq(s) \in Seq(T)
  BY <1>2, <1>3 DEF IsJoin
<1>5. CASE n = 1
  <2>1. t = <<>>
    BY <1>2, <1>5
  <2>2. s[1] \o <<>> = s[1]
    BY <1>2, ConcatEmptySeq
  <2>3. FlattenSeq(s) = s[1]
    BY <1>3, <1>5 DEF IsJoin
  <2> QED BY <1>1, <1>4, <2>1, <2>2, <2>3, FlattenNothing DEF Join
<1>6. CASE n # 1
  <2>1. t # <<>> /\ n - 1 \in Nat /\ n - 1 >= 1 /\ (n - 1) + 1 = n
    BY <1>2, <1>6
  <2>2. IsJoin(Joined(t, n - 1), Seq(T), t, n - 1) /\ FlattenSeq(t) = Joined(t, n - 1)[n - 1]
    BY <1>2, <2>1, FlattenIs
  <2>3. Associative(Seq(T))
    BY ConcatAssociative DEF Associative
  <2>4. s[1] \in Seq(T) /\ \A i \in 1..(n - 1) : t[i] = s[i + 1] /\ t[i] \in Seq(T)
    BY <1>2
  <2>5. PICK k \in Nat : k = n - 1
    BY <2>1
  <2>6. JoinsTail(Seq(T), n, k, Joined(s, n), s, Joined(t, k), t)
    <3>1. k + 1 = n
      BY <2>1, <2>5
    <3> QED BY <1>3, <2>1, <2>2, <2>3, <2>4, <2>5, <3>1 DEF JoinsTail
  <2>7. Joined(s, n)[n] = Join(s[1], Joined(t, k)[k])
    BY <2>6, JoinOfTail
  <2> QED BY <1>1, <1>3, <1>4, <2>2, <2>5, <2>7
<1> QED BY <1>5, <1>6

-------------------------------------------------------------------------------
(* The body of a reply                                                         *)

Errors == {Ok, Refused, Inconsistent}
Types  == Kinds \cup {"", "error", "done"}
Tokens == [tok : {"head", "error", "path", "stat"}, type : Types, err : Errors]

LEMMA Names == /\ Ok # Refused /\ Ok # Inconsistent /\ Refused # Inconsistent
               /\ Ok # Gone /\ Refused # Gone /\ Inconsistent # Gone
BY DEF Ok, Refused, Inconsistent, Gone

LEMMA PartsAreTokens ==
  ASSUME NEW m, ops[m] \in Seq(Ops), NEW k \in Nat, NEW i \in 1..Len(ops[m])
  PROVE  /\ ServerError(k, i) \in Errors /\ ops[m][i].kind \in Kinds
         /\ Header(m, k, i) \in Tokens /\ Payload(m, k, i) \in Seq(Tokens)
<1>1. ServerError(k, i) \in Errors
  BY DEF ServerError, Errors
<1>2. ops[m][i] \in Ops /\ ops[m][i].kind \in Kinds
  <2>1. ops[m][i] \in Ops
    BY ElementOfSeq
  <2> QED BY <2>1 DEF Ops
<1>3. Header(m, k, i) \in Tokens
  BY <1>1, <1>2 DEF Header, Token, Tokens, Types, Errors
<1>4. \A e \in Errors : Token("error", "", e) \in Tokens
  BY DEF Token, Tokens, Types
<1>5. Token("path", "", Ok) \in Tokens /\ Token("stat", "", Ok) \in Tokens
  BY DEF Token, Tokens, Types, Errors
<1>6. Payload(m, k, i) \in Seq(Tokens)
  <2> HIDE DEF Ok, Refused, Inconsistent
  <2>1. \A t \in Tokens : <<t>> \in Seq(Tokens)
    OBVIOUS
  <2>2. CASE k # 0
    BY <1>1, <1>4, <2>1, <2>2 DEF Payload
  <2>3. CASE k = 0
    <3>1. Payload(m, k, i) \in {<<Token("path", "", Ok)>>, <<Token("stat", "", Ok)>>, <<>>}
      BY <2>3 DEF Payload
    <3>2. <<>> \in Seq(Tokens)
      OBVIOUS
    <3>3. /\ <<Token("path", "", Ok)>> \in Seq(Tokens)
          /\ <<Token("stat", "", Ok)>> \in Seq(Tokens)
      BY <1>5, <2>1
    <3> QED BY <3>1, <3>2, <3>3
  <2> QED BY <2>2, <2>3
<1> QED BY <1>1, <1>2, <1>3, <1>6

(* What the server wrote of operations j and on is its header, its payload and *)
(* what it wrote of the next and on; after the last there is a header only.    *)
LEMMA BodyUnfolds ==
  ASSUME NEW m, ops[m] \in Seq(Ops), NEW k \in Nat, NEW j \in 1..(Len(ops[m]) + 1)
  PROVE  /\ BodyFrom(m, k, j) \in Seq(Tokens)
         /\ j = Len(ops[m]) + 1 => BodyFrom(m, k, j) = <<Done>>
         /\ j <= Len(ops[m]) =>
              BodyFrom(m, k, j) =
                Join(<<Header(m, k, j)>>, Join(Payload(m, k, j), BodyFrom(m, k, j + 1)))
<1>1. PICK n \in Nat : n = Len(ops[m])
  OBVIOUS
<1> DEFINE T == Seq(Tokens)
           part(i) == <<Header(m, k, i)>> \o Payload(m, k, i)
           parts(p) == [i \in 1..(n - p + 1) |-> part(i + p - 1)]
<1>2. \A p : BodyFrom(m, k, p) = FlattenSeq(parts(p)) \o <<Done>>
  BY <1>1 DEF BodyFrom
<1>3. ASSUME NEW i \in 1..n
      PROVE  part(i) \in T /\ <<Header(m, k, i)>> \in T /\ Payload(m, k, i) \in T
  BY <1>1, PartsAreTokens, ConcatProperties
<1>4. <<Done>> \in T
  BY DEF Done, Token, Tokens, Types, Errors
<1> HIDE DEF part, T
<1>5. ASSUME NEW p \in 1..(n + 1)
      PROVE  parts(p) \in Seq(T) /\ Len(parts(p)) = n - p + 1
  <2>1. n - p + 1 \in Nat
    OBVIOUS
  <2>2. ASSUME NEW i \in 1..(n - p + 1) PROVE part(i + p - 1) \in T
    <3>1. i + p - 1 \in 1..n
      OBVIOUS
    <3> QED BY <1>3, <3>1
  <2> QED BY <2>1, <2>2
<1>6. ASSUME NEW p \in 1..(n + 1) PROVE FlattenSeq(parts(p)) \in T
  <2>1. CASE parts(p) = <<>>
    <3>1. FlattenSeq(parts(p)) = <<>> /\ <<>> \in T
      BY <2>1, FlattenNothing DEF T
    <3> QED BY <3>1
  <2>2. CASE parts(p) # <<>>
    <3> HIDE DEF parts
    <3> QED BY <1>5, <2>2, FlattenFirst DEF T
  <2> QED BY <2>1, <2>2
<1>7. BodyFrom(m, k, j) \in T
  <2>1. j \in 1..(n + 1)
    BY <1>1
  <2> HIDE DEF parts
  <2>2. FlattenSeq(parts(j)) \in T
    BY <1>6, <2>1
  <2> QED BY <1>2, <1>4, <2>2, ConcatProperties DEF T
<1>8. ASSUME j = n + 1 PROVE BodyFrom(m, k, j) = <<Done>>
  <2>1. parts(j) = <<>>
    BY <1>8
  <2>2. FlattenSeq(parts(j)) = <<>>
    BY <2>1, FlattenNothing
  <2>3. <<>> \o <<Done>> = <<Done>>
    BY <1>4, ConcatEmptySeq DEF T
  <2> QED BY <1>2, <2>2, <2>3
<1>9. ASSUME j <= n
      PROVE  BodyFrom(m, k, j) =
               Join(<<Header(m, k, j)>>, Join(Payload(m, k, j), BodyFrom(m, k, j + 1)))
  <2>1. PICK s : s = parts(j)
    OBVIOUS
  <2>2. s \in Seq(T) /\ s # <<>> /\ Len(s) = n - j + 1 /\ s[1] = part(j)
    <3>1. j \in 1..n /\ j \in 1..(n + 1) /\ 1 \in 1..(n - j + 1) /\ 1 + j - 1 = j
      BY <1>1, <1>9
    <3>2. parts(j)[1] = part(j)
      BY <3>1
    <3>3. parts(j) \in Seq(T) /\ Len(parts(j)) = n - j + 1 /\ n - j + 1 \in Nat /\ n - j + 1 # 0
      <4> HIDE DEF parts
      <4> QED BY <1>5, <3>1
    <3> HIDE DEF parts
    <3> QED BY <2>1, <3>2, <3>3
  <2>3. Tail(s) = parts(j + 1)
    <3>1. Tail(s) \in Seq(T) /\ Len(Tail(s)) = n - j
          /\ \A i \in 1..(n - j) : Tail(s)[i] = s[i + 1]
      BY <1>1, <2>2, HeadTailProperties
    <3>2. j + 1 \in 1..(n + 1)
      BY <1>1, <1>9
    <3>3. parts(j + 1) \in Seq(T) /\ Len(parts(j + 1)) = n - j
      <4>1. n - (j + 1) + 1 = n - j
        BY <1>1
      <4> HIDE DEF parts
      <4> QED BY <1>5, <3>2, <4>1
    <3>4. ASSUME NEW i \in 1..(n - j) PROVE s[i + 1] = parts(j + 1)[i]
      <4>1. i + 1 \in 1..(n - j + 1) /\ i \in 1..(n - (j + 1) + 1)
            /\ (i + 1) + j - 1 = i + (j + 1) - 1
        BY <1>1
      <4> QED BY <2>1, <4>1
    <3> HIDE DEF parts
    <3> QED BY <3>1, <3>3, <3>4, SeqEqual
  <2>4. PICK f : f = FlattenSeq(parts(j + 1))
    OBVIOUS
  <2>5. f \in T
    <3>1. j + 1 \in 1..(n + 1)
      BY <1>1, <1>9
    <3> HIDE DEF parts
    <3> QED BY <1>6, <2>4, <3>1
  <2>6. FlattenSeq(s) = part(j) \o f
    <3>1. FlattenSeq(s) = Join(s[1], FlattenSeq(Tail(s)))
      BY <2>2, FlattenFirst DEF T
    <3> HIDE DEF parts
    <3> QED BY <2>2, <2>3, <2>4, <3>1 DEF Join
  <2>7. BodyFrom(m, k, j) = (part(j) \o f) \o <<Done>> /\ BodyFrom(m, k, j + 1) = f \o <<Done>>
    <3> HIDE DEF parts
    <3> QED BY <1>2, <2>1, <2>4, <2>6
  <2>8. PICK h, p : h = <<Header(m, k, j)>> /\ p = Payload(m, k, j)
    OBVIOUS
  <2>9. h \in T /\ p \in T /\ part(j) = h \o p
    <3>1. j \in 1..n
      BY <1>1, <1>9
    <3>2. <<Header(m, k, j)>> \in T /\ Payload(m, k, j) \in T
      BY <1>3, <3>1
    <3> QED BY <2>8, <3>2 DEF part
  <2>10. ((h \o p) \o f) \o <<Done>> = h \o (p \o (f \o <<Done>>))
    <3>1. h \o p \in T /\ f \o <<Done>> \in T
      BY <1>4, <2>5, <2>9, ConcatProperties DEF T
    <3>2. Associative(T)
      BY ConcatAssociative DEF Associative, T
    <3>3. PICK e : e = <<Done>>
      OBVIOUS
    <3>4. ((h \o p) \o f) \o e = (h \o p) \o (f \o e)
      BY <1>4, <2>5, <3>1, <3>2, <3>3 DEF Associative
    <3>5. (h \o p) \o (f \o e) = h \o (p \o (f \o e))
      BY <2>9, <3>1, <3>2, <3>3 DEF Associative
    <3> QED BY <3>3, <3>4, <3>5
  <2> QED BY <2>7, <2>8, <2>9, <2>10 DEF Join
<1> QED BY <1>1, <1>7, <1>8, <1>9 DEF T

-------------------------------------------------------------------------------
(* The replies of free_completions                                             *)

Replies == [call : Calls, body : Seq(Tokens)]

FakedReply(m) == [call |-> m, body |-> <<>>]

LEMMA FakedReplyOk ==
  ASSUME NEW m \in Calls
  PROVE  FakedReply(m) \in Replies /\ FakedReply(m).call = m /\ FakedReply(m).body = <<>>
BY DEF FakedReply, Replies

LEMMA FakedUnfolds ==
  ASSUME sent \in Seq(Calls)
  PROVE  /\ FakedReplies[0] = <<>>
         /\ \A i \in 1..Len(sent) :
              FakedReplies[i] = IF sent[i] \in sync THEN FakedReplies[i - 1]
                                ELSE Append(FakedReplies[i - 1], FakedReply(sent[i]))
<1>1. PICK n \in Nat : n = Len(sent) /\ \A i \in 1..n : sent[i] \in Calls
  OBVIOUS
<1> DEFINE D == Seq(Replies)
           step == [p \in Nat \X D |->
                      IF p[1] \notin 1..n \/ sent[p[1]] \in sync THEN p[2]
                      ELSE Append(p[2], FakedReply(sent[p[1]]))]
           Is(f) == f = [i \in 0..n |-> IF i = 0 THEN <<>>
                                        ELSE IF sent[i] \in sync THEN f[i - 1]
                                        ELSE Append(f[i - 1], FakedReply(sent[i]))]
<1>2. ASSUME NEW i \in Nat, NEW d \in D
      PROVE  step[<<i, d>>] = IF i \notin 1..n \/ sent[i] \in sync THEN d
                              ELSE Append(d, FakedReply(sent[i]))
  <2>1. <<i, d>> \in Nat \X D /\ <<i, d>>[1] = i /\ <<i, d>>[2] = d
    OBVIOUS
  <2> QED BY <2>1
<1> HIDE DEF step
<1>3. ASSUME NEW i \in Nat, NEW d \in D PROVE step[<<i, d>>] \in D
  <2>1. i \in 1..n => FakedReply(sent[i]) \in Replies
    BY <1>1, FakedReplyOk
  <2>2. i \in 1..n => Append(d, FakedReply(sent[i])) \in D
    BY <2>1, AppendProperties
  <2> QED BY <1>2, <2>2
<1>4. PICK f : f \in [0..n -> D] /\ f[0] = <<>> /\ \A i \in 1..n : f[i] = step[<<i, f[i - 1]>>]
  <2>1. Steps(D, step) /\ <<>> \in D
    BY <1>3 DEF Steps
  <2> HIDE DEF D
  <2>2. \E f : Chain(f, D, <<>>, step, n)
    BY <1>1, <2>1, Recursion
  <2> QED BY <2>2 DEF Chain
<1>5. Is(f)
  <2>1. f = [i \in 0..n |-> f[i]]
    BY <1>4
  <2>2. ASSUME NEW i \in 0..n
        PROVE  f[i] = IF i = 0 THEN <<>> ELSE IF sent[i] \in sync THEN f[i - 1]
                      ELSE Append(f[i - 1], FakedReply(sent[i]))
    <3>1. CASE i = 0
      BY <1>4, <3>1
    <3>2. CASE i # 0
      <4>1. i \in 1..n /\ i \in Nat
        BY <3>2
      <4>2. f[i - 1] \in D
        BY <1>4, <4>1
      <4>3. f[i] = step[<<i, f[i - 1]>>]
        BY <1>4, <4>1
      <4> HIDE DEF D
      <4> QED BY <1>2, <3>2, <4>1, <4>2, <4>3
    <3> QED BY <3>1, <3>2
  <2> QED BY <2>1, <2>2
<1>6. Is(FakedReplies)
  <2>1. FakedReplies = CHOOSE g : Is(g)
    BY <1>1 DEF FakedReplies, FakedReply
  <2> HIDE DEF Is
  <2> QED BY <1>5, <2>1
<1>7. \A i \in 0..n :
        FakedReplies[i] = IF i = 0 THEN <<>> ELSE IF sent[i] \in sync THEN FakedReplies[i - 1]
                          ELSE Append(FakedReplies[i - 1], FakedReply(sent[i]))
  BY <1>6
<1>8. FakedReplies[0] = <<>>
  BY <1>7
<1>9. ASSUME NEW i \in 1..n
      PROVE  FakedReplies[i] = IF sent[i] \in sync THEN FakedReplies[i - 1]
                               ELSE Append(FakedReplies[i - 1], FakedReply(sent[i]))
  <2>1. i \in 0..n /\ i # 0
    BY <1>1
  <2> QED BY <1>7, <2>1
<1> QED BY <1>1, <1>8, <1>9

(* A reply without a body for each of the first n requests that is             *)
(* asynchronous.                                                               *)
AreFaked(q, n) ==
  /\ q \in Seq(Replies)
  /\ \A i \in 1..Len(q) :
       /\ q[i].body = <<>>
       /\ \E j \in 1..n : q[i].call = sent[j] /\ sent[j] \notin sync
  /\ \A i, j \in 1..Len(q) : q[i].call = q[j].call => i = j

LEMMA FakedRepliesAre ==
  ASSUME sent \in Seq(Calls), \A i, j \in 1..Len(sent) : sent[i] = sent[j] => i = j
  PROVE  AreFaked(FakedReplies[Len(sent)], Len(sent))
<1>1. PICK n \in Nat : n = Len(sent)
  OBVIOUS
<1> DEFINE P(i) == AreFaked(FakedReplies[i], i)
           S == {i \in Nat : i \in 0..n => P(i)}
<1>2. P(0)
  <2>1. FakedReplies[0] = <<>>
    BY FakedUnfolds
  <2>2. AreFaked(<<>>, 0)
    BY DEF AreFaked
  <2> QED BY <2>1, <2>2
<1>3. ASSUME NEW i \in 0..n, i + 1 \in 0..n, P(i) PROVE P(i + 1)
  <2>1. PICK k \in 1..n : k = i + 1
    BY <1>1, <1>3
  <2>2. FakedReplies[k] = IF sent[k] \in sync THEN FakedReplies[i]
                          ELSE Append(FakedReplies[i], FakedReply(sent[k]))
    BY <1>1, <2>1, FakedUnfolds
  <2>3. PICK q : q = FakedReplies[i]
    OBVIOUS
  <2>4. AreFaked(q, i)
    BY <1>3, <2>3
  <2>5. CASE sent[k] \in sync
    <3>1. \A j \in 1..i : j \in 1..k
      BY <2>1
    <3>2. AreFaked(q, k)
      BY <2>4, <3>1 DEF AreFaked
    <3> QED BY <2>1, <2>2, <2>3, <2>5, <3>2
  <2>6. CASE sent[k] \notin sync
    <3>1. PICK x : x = FakedReply(sent[k])
      OBVIOUS
    <3>2. x \in Replies /\ x.call = sent[k] /\ x.body = <<>>
      BY <1>1, <3>1, FakedReplyOk
    <3>3. PICK r : r = Append(q, x)
      OBVIOUS
    <3>4. /\ r \in Seq(Replies) /\ Len(r) = Len(q) + 1 /\ Len(q) \in Nat
          /\ r[Len(q) + 1] = x /\ \A j \in 1..Len(q) : r[j] = q[j]
      BY <2>4, <3>2, <3>3, AppendProperties DEF AreFaked
    <3>5. ASSUME NEW j \in 1..Len(r)
          PROVE  /\ r[j].body = <<>>
                 /\ \E h \in 1..k : r[j].call = sent[h] /\ sent[h] \notin sync
      <4>1. CASE j = Len(q) + 1
        <5>1. k \in 1..k
          BY <1>1
        <5> QED BY <2>6, <3>2, <3>4, <4>1, <5>1
      <4>2. CASE j \in 1..Len(q)
        <5>1. PICK h \in 1..i : q[j].call = sent[h] /\ sent[h] \notin sync
          BY <2>4, <4>2 DEF AreFaked
        <5>2. h \in 1..k /\ q[j].body = <<>>
          BY <2>1, <2>4, <4>2 DEF AreFaked
        <5> QED BY <3>4, <4>2, <5>1, <5>2
      <4> QED BY <3>4, <4>1, <4>2
    <3>6. ASSUME NEW j \in 1..Len(q) PROVE r[j].call # sent[k]
      <4>1. PICK h \in 1..i : q[j].call = sent[h]
        BY <2>4 DEF AreFaked
      <4>2. h \in 1..n /\ h # k
        BY <1>1, <2>1
      <4> QED BY <1>1, <3>4, <4>1, <4>2
    <3>7. ASSUME NEW j \in 1..Len(r), NEW h \in 1..Len(r), r[j].call = r[h].call PROVE j = h
      <4>1. CASE j \in 1..Len(q) /\ h \in 1..Len(q)
        BY <2>4, <3>4, <3>7, <4>1 DEF AreFaked
      <4>2. CASE j = Len(q) + 1 /\ h \in 1..Len(q)
        BY <3>2, <3>4, <3>6, <3>7, <4>2
      <4>3. CASE j \in 1..Len(q) /\ h = Len(q) + 1
        BY <3>2, <3>4, <3>6, <3>7, <4>3
      <4> QED BY <3>4, <4>1, <4>2, <4>3
    <3>8. AreFaked(r, k)
      BY <3>4, <3>5, <3>7 DEF AreFaked
    <3> QED BY <2>1, <2>2, <2>3, <2>6, <3>1, <3>3, <3>8
  <2> QED BY <2>5, <2>6
<1> HIDE DEF P
<1>4. 0 \in S
  BY <1>2
<1>5. ASSUME NEW i \in Nat, i \in S PROVE i + 1 \in S
  <2>1. i + 1 \in 0..n => i \in 0..n
    OBVIOUS
  <2> QED BY <1>3, <1>5, <2>1
<1>6. Nat \subseteq S
  <2> HIDE DEF S
  <2> QED BY <1>4, <1>5, Induction
<1>7. P(n)
  BY <1>1, <1>6
<1> QED BY <1>1, <1>7 DEF P

-------------------------------------------------------------------------------
(* Reading a reply                                                             *)

Readings == [call : Calls, body : Seq(Tokens), type : Types, err : Errors, rc : {Ok, Refused}]

(* The entries that are left of a call are those of its last operations.       *)
Used(m) == Len(ops[m]) - Len(clist[m])
Full(m) == Len(clist[m]) = Len(ops[m])

(* The thread that decodes has read the header of operation j.                 *)
AtOp(r, j) ==
  IF j = Len(ops[r.call]) + 1 THEN r.type = "done" /\ r.body = <<>>
  ELSE LET m == r.call
           k == served[m]
       IN  /\ r.type = Header(m, k, j).type /\ r.err = Header(m, k, j).err
           /\ r.body = Join(Payload(m, k, j), BodyFrom(m, k, j + 1))

LEMMA JoinOne ==
  ASSUME NEW t, t \in Tokens, NEW b, b \in Seq(Tokens)
  PROVE  /\ Join(<<t>>, b) # <<>> /\ Head(Join(<<t>>, b)) = t /\ Tail(Join(<<t>>, b)) = b
         /\ Join(<<>>, b) = b
<1>1. PICK u : u = <<t>>
  OBVIOUS
<1>2. u \in Seq(Tokens) /\ Len(u) = 1 /\ u[1] = t
  BY <1>1
<1>3. PICK s : s = u \o b
  OBVIOUS
<1>4. s \in Seq(Tokens) /\ Len(s) = 1 + Len(b) /\ Len(b) \in Nat
      /\ \A i \in 1..(1 + Len(b)) : s[i] = IF i <= 1 THEN u[i] ELSE b[i - 1]
  BY <1>2, <1>3, ConcatProperties
<1>5. s # <<>> /\ s[1] = t /\ Head(s) = t
  BY <1>2, <1>4
<1>6. /\ Tail(s) \in Seq(Tokens) /\ Len(Tail(s)) = Len(b)
      /\ \A i \in 1..Len(b) : Tail(s)[i] = s[i + 1]
  BY <1>4, <1>5, HeadTailProperties
<1>7. \A i \in 1..Len(b) : Tail(s)[i] = b[i]
  <2> SUFFICES ASSUME NEW i \in 1..Len(b) PROVE Tail(s)[i] = b[i]
    OBVIOUS
  <2>1. i + 1 \in 1..(1 + Len(b)) /\ ~(i + 1 <= 1) /\ (i + 1) - 1 = i
    BY <1>4
  <2> QED BY <1>4, <1>6, <2>1
<1>8. Tail(s) = b
  BY <1>6, <1>7, SeqEqual
<1>9. <<>> \o b = b
  BY ConcatEmptySeq
<1> QED BY <1>1, <1>3, <1>5, <1>8, <1>9 DEF Join

LEMMA HeaderRead ==
  ASSUME NEW r, r \in Readings
  PROVE  /\ deserialize_MultiHeader(r) \in Readings
         /\ deserialize_MultiHeader(r).call = r.call /\ deserialize_MultiHeader(r).rc = r.rc
         /\ r.body = <<>> => deserialize_MultiHeader(r) = r
<1>1. CASE r.body = <<>>
  BY <1>1 DEF deserialize_MultiHeader
<1>2. CASE r.body # <<>>
  <2>1. Head(r.body) \in Tokens /\ Tail(r.body) \in Seq(Tokens)
    BY <1>2, HeadTailProperties DEF Readings
  <2>2. Head(r.body).type \in Types /\ Head(r.body).err \in Errors
    BY <2>1 DEF Tokens
  <2>3. deserialize_MultiHeader(r) =
          [r EXCEPT !.type = Head(r.body).type, !.err = Head(r.body).err, !.body = Tail(r.body)]
    BY <1>2 DEF deserialize_MultiHeader
  <2> QED BY <1>2, <2>1, <2>2, <2>3 DEF Readings
<1> QED BY <1>1, <1>2

LEMMA ReadsNext ==
  ASSUME NEW r, r \in Readings, ops[r.call] \in Seq(Ops), served[r.call] \in Nat,
         NEW j \in 1..(Len(ops[r.call]) + 1), r.body = BodyFrom(r.call, served[r.call], j)
  PROVE  AtOp(deserialize_MultiHeader(r), j)
<1>1. PICK m, k, n : m = r.call /\ k = served[m] /\ n = Len(ops[m])
  OBVIOUS
<1>2. k \in Nat /\ n \in Nat /\ j \in 1..(n + 1) /\ ops[m] \in Seq(Ops)
  BY <1>1
<1>3. PICK d : d = deserialize_MultiHeader(r)
  OBVIOUS
<1>4. ASSUME NEW t, t \in Tokens, NEW b, b \in Seq(Tokens), r.body = Join(<<t>>, b)
      PROVE  d.type = t.type /\ d.err = t.err /\ d.body = b /\ d.call = m
  <2>1. r.body # <<>> /\ Head(r.body) = t /\ Tail(r.body) = b
    BY <1>4, JoinOne
  <2>2. d = [r EXCEPT !.type = t.type, !.err = t.err, !.body = b]
    BY <1>3, <2>1 DEF deserialize_MultiHeader
  <2> QED BY <1>1, <2>2 DEF Readings
<1>5. CASE j = n + 1
  <2>1. Done \in Tokens /\ Done.type = "done" /\ <<>> \in Seq(Tokens)
    BY DEF Done, Token, Tokens, Types, Errors
  <2>2. r.body = <<Done>>
    BY <1>1, <1>2, <1>5, BodyUnfolds
  <2>3. <<Done>> = Join(<<Done>>, <<>>)
    <3>1. <<Done>> \in Seq(Tokens)
      BY <2>1
    <3> HIDE DEF Done
    <3> QED BY <3>1, ConcatEmptySeq DEF Join
  <2>4. d.type = "done" /\ d.body = <<>> /\ d.call = m
    BY <1>4, <2>1, <2>2, <2>3
  <2> QED BY <1>1, <1>3, <1>5, <2>4 DEF AtOp
<1>6. CASE j # n + 1
  <2>1. j \in 1..n /\ j + 1 \in 1..(n + 1)
    BY <1>2, <1>6
  <2>2. PICK h, b : h = Header(m, k, j) /\ b = Join(Payload(m, k, j), BodyFrom(m, k, j + 1))
    OBVIOUS
  <2>3. r.body = Join(<<h>>, b)
    BY <1>1, <1>2, <2>1, <2>2, BodyUnfolds
  <2>4. h \in Tokens /\ b \in Seq(Tokens)
    <3>1. h \in Tokens /\ Payload(m, k, j) \in Seq(Tokens)
      BY <1>1, <1>2, <2>1, <2>2, PartsAreTokens
    <3>2. BodyFrom(m, k, j + 1) \in Seq(Tokens)
      BY <1>1, <1>2, <2>1, BodyUnfolds
    <3> QED BY <2>2, <3>1, <3>2, ConcatProperties DEF Join
  <2>5. d.type = h.type /\ d.err = h.err /\ d.body = b /\ d.call = m
    BY <1>4, <2>3, <2>4
  <2> QED BY <1>1, <1>3, <1>6, <2>2, <2>5 DEF AtOp
<1> QED BY <1>5, <1>6

-------------------------------------------------------------------------------
(* Decoding an operation                                                       *)

RightValue(m, k, i) ==
  CASE k = 0 /\ ops[m][i].kind = "create" -> "path"
    [] k = 0 /\ ops[m][i].kind = "set"    -> "stat"
    [] OTHER                              -> "none"

(* The code of a transaction of which the operations before j were decoded.    *)
RightCode(k, j) == IF k # 0 /\ k < j THEN Refused ELSE Ok

Values   == {"unset", "none", "garbage", "head", "error", "path", "stat"}
Outcomes == [err : Errors \cup {"unset"}, value : Values]
Entries  == {"STRING", "STAT", "VOID"}

(* Whatever it reads, decoding an operation of a reply keeps its type.         *)
LEMMA DecodesTyped ==
  ASSUME NEW r, r \in Readings, r.type # "error" \/ r.body # <<>>, NEW entry, entry \in Entries
  PROVE  LET e == ReadError(r)
             a == AfterValue(entry, e)
         IN  /\ a \in Readings /\ a.call = r.call
             /\ [err |-> e.err, value |-> Value(entry, e)] \in Outcomes
<1>1. PICK e : e = ReadError(r)
  OBVIOUS
<1>2. e \in Readings /\ e.call = r.call
  <2>1. CASE r.type # "error"
    BY <1>1, <2>1 DEF ReadError
  <2>2. CASE r.type = "error"
    <3>1. PICK t, b : t = Head(r.body) /\ b = Tail(r.body)
      OBVIOUS
    <3>2. t \in Tokens /\ b \in Seq(Tokens)
      BY <2>2, <3>1, HeadTailProperties DEF Readings
    <3>3. t.err \in Errors /\ FirstCause(r.rc, t.err) \in {Ok, Refused}
      BY <3>2 DEF Tokens, Errors, FirstCause, Readings
    <3>4. e = [r EXCEPT !.err = t.err, !.rc = FirstCause(r.rc, t.err), !.body = b]
      BY <1>1, <2>2, <3>1 DEF ReadError
    <3> QED BY <3>2, <3>3, <3>4 DEF Readings
  <2> QED BY <2>1, <2>2
<1>3. e.body # <<>> => Head(e.body) \in Tokens /\ Tail(e.body) \in Seq(Tokens)
  BY <1>2, HeadTailProperties DEF Readings
<1>4. AfterValue(entry, e) \in Readings /\ AfterValue(entry, e).call = r.call
  <2>1. CASE AfterValue(entry, e) = e
    BY <1>2, <2>1
  <2>2. CASE e.body # <<>> /\ AfterValue(entry, e) = [e EXCEPT !.body = Tail(e.body)]
    BY <1>2, <1>3, <2>2 DEF Readings
  <2> QED BY <2>1, <2>2 DEF AfterValue
<1>5. Value(entry, e) \in Values
  <2>1. e.body # <<>> => Head(e.body).tok \in Values
    BY <1>3 DEF Tokens, Values
  <2> QED BY <2>1 DEF Value, Values
<1>6. [err |-> e.err, value |-> Value(entry, e)] \in Outcomes
  BY <1>2, <1>5 DEF Readings, Outcomes
<1> QED BY <1>1, <1>4, <1>6

(* A thread at operation j finds what the server said of it, and goes on to    *)
(* what the server wrote next.                                                 *)
LEMMA DecodesRight ==
  ASSUME NEW m, NEW k, NEW j, NEW r, r \in Readings, r.call = m, k = served[m],
         ops[m] \in Seq(Ops), k \in Nat, j \in 1..Len(ops[m]),
         AtOp(r, j), r.rc = RightCode(k, j)
  PROVE  LET entry == Entry(ops[m][j].kind)
             e     == ReadError(r)
             a     == AfterValue(entry, e)
         IN  /\ r.type # "done" /\ (r.type = "error" => r.body # <<>>)
             /\ e.err = ServerError(k, j) /\ Value(entry, e) = RightValue(m, k, j)
             /\ a.body = BodyFrom(m, k, j + 1) /\ a.rc = RightCode(k, j + 1)
<1>1. PICK n \in Nat : n = Len(ops[m])
  OBVIOUS
<1>2. j \in 1..n /\ j \in Int /\ j + 1 \in 1..(n + 1) /\ j # n + 1
  BY <1>1
<1>3. PICK b : b = BodyFrom(m, k, j + 1)
  OBVIOUS
<1>4. b \in Seq(Tokens)
  BY <1>1, <1>2, <1>3, BodyUnfolds
<1>5. /\ r.type = Header(m, k, j).type /\ r.err = Header(m, k, j).err
      /\ r.body = Join(Payload(m, k, j), b)
  BY <1>1, <1>2, <1>3 DEF AtOp
<1>6. ops[m][j].kind \in Kinds /\ ServerError(k, j) \in Errors
  BY PartsAreTokens
<1>7. PICK x : x = ServerError(k, j)
  OBVIOUS
<1>8. CASE k # 0
  <2>1. PICK t : t = Token("error", "", x)
    OBVIOUS
  <2>2. t \in Tokens /\ t.err = x
    BY <1>6, <1>7, <2>1 DEF Token, Tokens, Types
  <2>3. r.body = Join(<<t>>, b) /\ r.type = "error"
    BY <1>5, <1>7, <1>8, <2>1 DEF Payload, Header, Token
  <2>4. r.body # <<>> /\ Head(r.body) = t /\ Tail(r.body) = b
    BY <1>4, <2>2, <2>3, JoinOne
  <2>5. PICK e : e = ReadError(r)
    OBVIOUS
  <2>6. e = [r EXCEPT !.err = x, !.rc = FirstCause(r.rc, x), !.body = b]
    BY <2>2, <2>3, <2>4, <2>5 DEF ReadError
  <2>7. e.err = x /\ e.rc = FirstCause(r.rc, x) /\ e.body = b /\ e.type = "error"
    BY <2>3, <2>6 DEF Readings
  <2>8. FirstCause(r.rc, x) = RightCode(k, j + 1)
    <3>1. k < j => x = Inconsistent /\ r.rc = Refused /\ k < j + 1
      BY <1>2, <1>7, <1>8 DEF ServerError, RightCode
    <3>2. k = j => x = Refused /\ r.rc = Ok /\ k < j + 1
      BY <1>2, <1>7, <1>8 DEF ServerError, RightCode
    <3>3. k > j => x = Ok /\ r.rc = Ok /\ ~(k < j + 1)
      BY <1>2, <1>7, <1>8 DEF ServerError, RightCode
    <3>4. k < j \/ k = j \/ k > j
      BY <1>2
    <3> HIDE DEF Ok, Refused, Inconsistent
    <3> QED BY <1>8, <3>1, <3>2, <3>3, <3>4, Names DEF FirstCause, RightCode
  <2>9. \A entry : Value(entry, e) = "none" /\ AfterValue(entry, e) = e
    BY <2>7 DEF Value, AfterValue
  <2>10. RightValue(m, k, j) = "none"
    BY <1>8 DEF RightValue
  <2> QED BY <1>3, <1>7, <2>3, <2>4, <2>5, <2>7, <2>8, <2>9, <2>10
<1>9. CASE k = 0
  <2>1. r.type = ops[m][j].kind /\ r.err = Ok /\ x = Ok
    BY <1>5, <1>7, <1>9 DEF Header, Token, ServerError
  <2>2. r.type # "error" /\ r.type # "done" /\ r.type \in Kinds
    BY <1>6, <2>1 DEF Kinds
  <2>3. ReadError(r) = r
    BY <2>2 DEF ReadError
  <2>4. r.rc = RightCode(k, j + 1)
    BY <1>9 DEF RightCode
  <2>5. ASSUME NEW t, t \in Tokens, Payload(m, k, j) = <<t>>, NEW entry, entry # "VOID"
        PROVE  Value(entry, r) = t.tok /\ AfterValue(entry, r) = [r EXCEPT !.body = b]
    <3>1. r.body # <<>> /\ Head(r.body) = t /\ Tail(r.body) = b
      BY <1>4, <1>5, <2>5, JoinOne
    <3> QED BY <2>2, <2>5, <3>1 DEF Value, AfterValue
  <2>6. \A t : [r EXCEPT !.body = t].body = t /\ [r EXCEPT !.body = t].rc = r.rc
    BY DEF Readings
  <2>7. CASE ops[m][j].kind = "create"
    <3>1. PICK t : t = Token("path", "", Ok)
      OBVIOUS
    <3>2. t \in Tokens /\ t.tok = "path" /\ Payload(m, k, j) = <<t>>
      BY <1>9, <2>7, <3>1 DEF Token, Tokens, Types, Errors, Payload
    <3>3. Entry(ops[m][j].kind) = "STRING" /\ RightValue(m, k, j) = "path"
      BY <1>9, <2>7 DEF Entry, RightValue
    <3>4. /\ Value("STRING", r) = "path" /\ AfterValue("STRING", r) = [r EXCEPT !.body = b]
      BY <2>5, <3>2
    <3> QED BY <1>3, <1>7, <2>1, <2>2, <2>3, <2>4, <2>6, <3>3, <3>4
  <2>8. CASE ops[m][j].kind = "set"
    <3>1. PICK t : t = Token("stat", "", Ok)
      OBVIOUS
    <3>2. t \in Tokens /\ t.tok = "stat" /\ Payload(m, k, j) = <<t>>
      BY <1>9, <2>8, <3>1 DEF Token, Tokens, Types, Errors, Payload
    <3>3. Entry(ops[m][j].kind) = "STAT" /\ RightValue(m, k, j) = "stat"
      BY <1>9, <2>8 DEF Entry, RightValue
    <3>4. /\ Value("STAT", r) = "stat" /\ AfterValue("STAT", r) = [r EXCEPT !.body = b]
      BY <2>5, <3>2
    <3> QED BY <1>3, <1>7, <2>1, <2>2, <2>3, <2>4, <2>6, <3>3, <3>4
  <2>9. CASE ops[m][j].kind \notin {"create", "set"}
    <3>1. Payload(m, k, j) = <<>>
      BY <1>9, <2>9 DEF Payload
    <3>2. r.body = b
      BY <1>4, <1>5, <3>1, JoinOne, Done \in Tokens DEF Done, Token, Tokens, Types, Errors
    <3>3. Entry(ops[m][j].kind) = "VOID" /\ RightValue(m, k, j) = "none"
      BY <2>9 DEF Entry, RightValue
    <3>4. Value("VOID", r) = "none" /\ AfterValue("VOID", r) = r
      BY DEF Value, AfterValue
    <3> QED BY <1>3, <1>7, <2>1, <2>2, <2>3, <2>4, <3>2, <3>3, <3>4
  <2> QED BY <2>7, <2>8, <2>9
<1> QED BY <1>8, <1>9

-------------------------------------------------------------------------------
(* The invariant                                                               *)

Codes == {Ok, Refused, Inconsistent, Gone, "unimplemented", "marshalling error"}

TypeInv ==
  /\ ops \in [Calls -> {<<>>} \cup Requests]
  /\ sync \in SUBSET Calls
  /\ state \in [Calls -> {"new", "refused", "pending", "ended"}]
  /\ result \in [Calls -> Codes]
  /\ clist \in [Calls -> Seq(Entries)]
  /\ results \in [Calls -> Seq(Outcomes)]
  /\ sent \in Seq(Calls)
  /\ served \in [Calls -> Int]
  /\ replies \in Seq(Replies) /\ toProcess \in Seq(Replies)
  /\ reader \in [Threads -> Seq(Readings)]
  /\ failed \in {"no", "assert", "crash"}

CallOk(m) ==
  /\ Len(results[m]) = Len(ops[m]) /\ Len(clist[m]) <= Len(ops[m])
  /\ \A i \in 1..Len(clist[m]) : clist[m][i] = Entry(ops[m][Used(m) + i].kind)
  /\ served[m] \in -1..Len(ops[m])
  /\ state[m] \in {"new", "refused"} => served[m] = -1
  /\ state[m] = "new" => clist[m] = <<>>

(* x is in the queue s.                                                        *)
Member(x, s) == \E i \in 1..Len(s) : s[i] = x

(* A reply is what the server wrote.                                           *)
Answer(reply) ==
  served[reply.call] # -1 /\ reply.body = BodyFrom(reply.call, served[reply.call], 1)

(* The replies are those of the first requests that were sent, in order; the   *)
(* server has not looked at the others.                                        *)
SentInv ==
  /\ \A i, j \in 1..Len(sent) : sent[i] = sent[j] => i = j
  /\ \A m \in Calls : Member(m, sent) => state[m] = "pending" /\ Full(m)
  /\ Len(replies) <= Len(sent)
  /\ \A i \in 1..Len(replies) : replies[i].call = sent[i]
  /\ \A reply \in Replies : Member(reply, replies) => Answer(reply)
  /\ \A i \in 1..Len(sent) : i > Len(replies) => served[sent[i]] = -1

(* Replies that wait for the completion thread were not looked at.             *)
Waits(reply) ==
  /\ state[reply.call] = "pending" /\ Full(reply.call)
  /\ ~Member(reply.call, sent) /\ reply.call \notin sync
  /\ reply.body = <<>> \/ Answer(reply)

ProcessInv ==
  /\ \A i, j \in 1..Len(toProcess) : toProcess[i].call = toProcess[j].call => i = j
  /\ \A reply \in Replies : Member(reply, toProcess) => Waits(reply)

(* The result of an operation is what the server says.                         *)
IsRight(m, i) ==
  results[m][i] = [err |-> ServerError(served[m], i), value |-> RightValue(m, served[m], i)]

(* A reply as it was faked, and one whose first operations were decoded.       *)
Faked(r) == r.type = "" /\ r.body = <<>>

Decoded(r) ==
  /\ served[r.call] # -1
  /\ \A i \in 1..Used(r.call) : IsRight(r.call, i)
  /\ r.rc = RightCode(served[r.call], Used(r.call) + 1)
  /\ AtOp(r, Used(r.call) + 1)

ToProcess(m) == \E reply \in Replies : Member(reply, toProcess) /\ reply.call = m

(* A reply that is decoded has left the queues, and its call is not over.      *)
Reads(t, r) ==
  /\ state[r.call] = "pending" /\ ~Member(r.call, sent) /\ ~ToProcess(r.call)
  /\ r.call \in sync <=> t = "io"
  /\ Faked(r) \/ Decoded(r)

IsRead(t, r) == reader[t] # <<>> /\ reader[t][1] = r

ReaderInv == \A t \in Threads, r \in Readings : IsRead(t, r) => Reads(t, r)

EndOk(m) ==
  state[m] = "ended" /\ result[m] # Gone =>
    /\ served[m] # -1 /\ result[m] = RightCode(served[m], Len(ops[m]) + 1)
    /\ \A i \in 1..Len(ops[m]) : IsRight(m, i)

CallInv == \A m \in Calls : CallOk(m) /\ EndOk(m)

MultiInv == TypeInv /\ CallInv /\ SentInv /\ ProcessInv /\ ReaderInv

LEMMA OpsTyped ==
  ASSUME TypeInv, NEW m \in Calls
  PROVE  ops[m] \in Seq(Ops) /\ Len(ops[m]) \in Nat /\ Len(clist[m]) \in Nat
<1>1. ops[m] \in {<<>>} \cup Requests /\ clist[m] \in Seq(Entries)
  BY DEF TypeInv
<1>2. ops[m] \in Seq(Ops)
  <2>1. <<>> \in Seq(Ops)
    OBVIOUS
  <2> QED BY <1>1, <2>1, RequestsAssumption
<1> QED BY <1>1, <1>2

LEMMA InitOk == Init => MultiInv
<1> SUFFICES ASSUME Init PROVE MultiInv
  OBVIOUS
<1>1. TypeInv
  <2>1. <<>> \in Seq(Entries) /\ <<>> \in Seq(Outcomes) /\ <<>> \in Seq(Readings)
    OBVIOUS
  <2> QED BY <2>1 DEF Init, TypeInv, Codes
<1>2. ASSUME NEW m \in Calls PROVE CallOk(m) /\ EndOk(m)
  <2>1. /\ ops[m] = <<>> /\ clist[m] = <<>> /\ results[m] = <<>> /\ served[m] = -1
        /\ state[m] = "new"
    BY DEF Init
  <2>2. -1 \in -1..0
    OBVIOUS
  <2> QED BY <2>1, <2>2 DEF CallOk, EndOk
<1>3. SentInv /\ ProcessInv
  BY DEF Init, SentInv, ProcessInv, Member
<1>4. ReaderInv
  BY DEF Init, ReaderInv, IsRead
<1> QED BY <1>1, <1>2, <1>3, <1>4 DEF MultiInv, CallInv

-------------------------------------------------------------------------------
(* What a step leaves alone                                                    *)

Kept(m) ==
  /\ ops'[m] = ops[m] /\ clist'[m] = clist[m] /\ served'[m] = served[m]
  /\ results'[m] = results[m]

LEMMA BodyKept ==
  ASSUME NEW m, ops'[m] = ops[m], NEW k, NEW j
  PROVE  /\ BodyFrom(m, k, j)' = BodyFrom(m, k, j)
         /\ Header(m, k, j)' = Header(m, k, j) /\ Payload(m, k, j)' = Payload(m, k, j)
<1>1. ASSUME NEW i PROVE Header(m, k, i)' = Header(m, k, i) /\ Payload(m, k, i)' = Payload(m, k, i)
  BY DEF Header, Payload, ServerError, Token
<1>2. BodyFrom(m, k, j)' = BodyFrom(m, k, j)
  BY <1>1 DEF BodyFrom
<1> QED BY <1>1, <1>2

LEMMA KeptSame ==
  ASSUME NEW m, Kept(m)
  PROVE  /\ Full(m)' <=> Full(m)
         /\ \A i : IsRight(m, i)' <=> IsRight(m, i)
         /\ \A r : r.call = m => (Decoded(r)' <=> Decoded(r)) /\ (Answer(r)' <=> Answer(r))
<1>1. Used(m)' = Used(m) /\ (Full(m)' <=> Full(m))
  BY DEF Kept, Used, Full
<1>2. ASSUME NEW i PROVE IsRight(m, i)' <=> IsRight(m, i)
  BY DEF Kept, IsRight, RightValue
<1>3. ASSUME NEW r, r.call = m PROVE (Decoded(r)' <=> Decoded(r)) /\ (Answer(r)' <=> Answer(r))
  <2>1. \A j : AtOp(r, j)' <=> AtOp(r, j)
    BY <1>3, BodyKept DEF Kept, AtOp
  <2>2. \A k, j : BodyFrom(m, k, j)' = BodyFrom(m, k, j)
    BY BodyKept DEF Kept
  <2> QED BY <1>1, <1>2, <1>3, <2>1, <2>2 DEF Kept, Decoded, Answer
<1> QED BY <1>1, <1>2, <1>3

LEMMA KeepsCall ==
  ASSUME NEW m, Kept(m), state'[m] = state[m], result'[m] = result[m], CallOk(m), EndOk(m)
  PROVE  CallOk(m)' /\ EndOk(m)'
<1>1. \A i : IsRight(m, i)' <=> IsRight(m, i)
  BY KeptSame
<1>2. Used(m)' = Used(m)
  BY DEF Kept, Used
<1> QED BY <1>1, <1>2 DEF CallOk, EndOk, Kept

LEMMA KeepsReply ==
  ASSUME NEW p, Waits(p), Kept(p.call), state'[p.call] = state[p.call],
         ~Member(p.call, sent'), p.call \notin sync'
  PROVE  Waits(p)'
<1>1. (Full(p.call)' <=> Full(p.call)) /\ (Answer(p)' <=> Answer(p))
  BY KeptSame
<1> QED BY <1>1 DEF Waits

LEMMA KeepsReading ==
  ASSUME NEW t, NEW r, Reads(t, r), Kept(r.call), state'[r.call] = state[r.call],
         ~Member(r.call, sent'), r.call \in sync' <=> r.call \in sync,
         \A p \in Replies : Member(p, toProcess') => p.call # r.call
  PROVE  Reads(t, r)'
<1>1. Decoded(r)' <=> Decoded(r)
  BY KeptSame
<1> QED BY <1>1 DEF Reads, Faked, ToProcess

LEMMA Appended ==
  ASSUME NEW S, NEW s \in Seq(S), NEW x \in S, NEW q, q = Append(s, x)
  PROVE  /\ q \in Seq(S) /\ Len(q) = Len(s) + 1 /\ q[Len(s) + 1] = x /\ Len(s) \in Nat
         /\ \A i \in 1..Len(s) : q[i] = s[i]
         /\ \A i \in 1..Len(q) : i \in 1..Len(s) \/ i = Len(s) + 1
<1>1. /\ q \in Seq(S) /\ Len(q) = Len(s) + 1 /\ q[Len(s) + 1] = x /\ Len(s) \in Nat
      /\ \A i \in 1..Len(s) : q[i] = s[i]
  BY AppendProperties
<1>2. \A i \in 1..Len(q) : i \in 1..Len(s) \/ i = Len(s) + 1
  BY <1>1
<1> QED BY <1>1, <1>2

LEMMA MemberOfAppended ==
  ASSUME NEW S, NEW s \in Seq(S), NEW x \in S, NEW y
  PROVE  Member(y, Append(s, x)) <=> Member(y, s) \/ y = x
<1>1. PICK q : q = Append(s, x)
  OBVIOUS
<1>2. /\ Len(q) = Len(s) + 1 /\ q[Len(s) + 1] = x /\ Len(s) \in Nat
      /\ \A i \in 1..Len(s) : q[i] = s[i]
      /\ \A i \in 1..Len(q) : i \in 1..Len(s) \/ i = Len(s) + 1
  BY <1>1, Appended
<1>3. \A i \in 1..Len(s) : i \in 1..Len(q)
  BY <1>2
<1>4. Len(s) + 1 \in 1..Len(q)
  BY <1>2
<1>5. Member(y, q) <=> Member(y, s) \/ y = x
  BY <1>2, <1>3, <1>4 DEF Member
<1> QED BY <1>1, <1>5

LEMMA Removed ==
  ASSUME NEW S, NEW s \in Seq(S), s # <<>>, NEW q, q = Tail(s)
  PROVE  /\ q \in Seq(S) /\ Len(q) = Len(s) - 1 /\ Len(q) \in Nat
         /\ s[1] \in S /\ Head(s) = s[1] /\ Member(s[1], s)
         /\ \A i \in 1..Len(q) : i + 1 \in 1..Len(s) /\ i + 1 # 1 /\ q[i] = s[i + 1]
<1>1. /\ q \in Seq(S) /\ Len(q) = Len(s) - 1 /\ Len(q) \in Nat /\ Len(s) \in Nat
      /\ \A i \in 1..Len(q) : q[i] = s[i + 1]
  BY HeadTailProperties, EmptySeq
<1>2. 1 \in 1..Len(s) /\ s[1] \in S /\ Head(s) = s[1]
  BY <1>1, EmptySeq
<1>3. \A i \in 1..Len(q) : i + 1 \in 1..Len(s) /\ i + 1 # 1
  BY <1>1
<1> QED BY <1>1, <1>2, <1>3 DEF Member

LEMMA MemberOfRemoved ==
  ASSUME NEW S, NEW s \in Seq(S), s # <<>>, NEW y, Member(y, Tail(s))
  PROVE  Member(y, s)
<1>1. PICK q : q = Tail(s)
  OBVIOUS
<1>2. \A i \in 1..Len(q) : i + 1 \in 1..Len(s) /\ q[i] = s[i + 1]
  BY <1>1, Removed
<1>3. Member(y, q)
  BY <1>1
<1> QED BY <1>2, <1>3 DEF Member

LEMMA QueueTypes ==
  ASSUME TypeInv
  PROVE  /\ Len(sent) \in Nat /\ \A i \in 1..Len(sent) : sent[i] \in Calls
         /\ Len(replies) \in Nat /\ \A i \in 1..Len(replies) : replies[i] \in Replies
         /\ Len(toProcess) \in Nat /\ \A i \in 1..Len(toProcess) : toProcess[i] \in Replies
         /\ \A t \in Threads : reader[t] # <<>> => reader[t][1] \in Readings
         /\ \A r \in Replies : r.call \in Calls /\ r.body \in Seq(Tokens)
         /\ \A r \in Readings : r.call \in Calls
<1>1. /\ Len(sent) \in Nat /\ \A i \in 1..Len(sent) : sent[i] \in Calls
      /\ Len(replies) \in Nat /\ \A i \in 1..Len(replies) : replies[i] \in Replies
      /\ Len(toProcess) \in Nat /\ \A i \in 1..Len(toProcess) : toProcess[i] \in Replies
  BY ElementOfSeq DEF TypeInv
<1>2. ASSUME NEW t \in Threads, reader[t] # <<>> PROVE reader[t][1] \in Readings
  <2>1. reader[t] \in Seq(Readings)
    BY DEF TypeInv
  <2> QED BY <1>2, <2>1, ElementOfSeq
<1> QED BY <1>1, <1>2 DEF Replies, Readings

(* A step that keeps every call, reply and thread keeps the invariant.         *)
LEMMA Stutter ==
  ASSUME MultiInv, UNCHANGED <<ops, sync, state, result, clist, results, sent, served, replies,
                               toProcess, reader>>,
         failed' \in {"no", "assert", "crash"}
  PROVE  MultiInv'
<1> USE DEF MultiInv
<1>1. \A m \in Calls : Kept(m)
  BY DEF Kept
<1>2. TypeInv'
  BY DEF TypeInv
<1>3. CallInv'
  <2>1. ASSUME NEW m \in Calls PROVE CallOk(m)' /\ EndOk(m)'
    BY <1>1, KeepsCall DEF CallInv
  <2> QED BY <2>1 DEF CallInv
<1>4. SentInv'
  <2>1. ASSUME NEW m \in Calls, Member(m, sent') PROVE (state[m] = "pending" /\ Full(m))'
    BY <1>1, <2>1, KeptSame DEF SentInv
  <2>2. ASSUME NEW p \in Replies, Member(p, replies') PROVE Answer(p)'
    BY <1>1, <2>2, KeptSame, QueueTypes DEF SentInv
  <2> QED BY <2>1, <2>2 DEF SentInv
<1>5. ProcessInv'
  <2>1. ASSUME NEW p \in Replies, Member(p, toProcess') PROVE Waits(p)'
    <3>1. Waits(p) /\ Kept(p.call)
      BY <1>1, <2>1, QueueTypes DEF ProcessInv
    <3> QED BY <3>1, KeepsReply DEF Waits
  <2> QED BY <2>1 DEF ProcessInv
<1>6. ReaderInv'
  <2>1. ASSUME NEW t \in Threads, NEW r \in Readings, IsRead(t, r)' PROVE Reads(t, r)'
    <3>1. Reads(t, r) /\ Kept(r.call)
      BY <1>1, <2>1, QueueTypes DEF ReaderInv, IsRead
    <3> QED BY <3>1, KeepsReading DEF Reads, ToProcess
  <2> QED BY <2>1 DEF ReaderInv
<1> QED BY <1>2, <1>3, <1>4, <1>5, <1>6

-------------------------------------------------------------------------------
(* The steps                                                                   *)

(* The call that is made is in no queue, and no thread reads its reply.        *)
LEMMA MakeStep ==
  ASSUME MultiInv, NEW m \in Calls, zoo_amulti(m)
  PROVE  MultiInv'
<1> USE DEF MultiInv
<1>1. PICK os \in Requests, isSync \in BOOLEAN :
        /\ ops' = [ops EXCEPT ![m] = os]
        /\ sync' = IF isSync THEN sync \cup {m} ELSE sync
        /\ results' = [results EXCEPT ![m] =
                         [i \in DOMAIN os |-> [err |-> "unset", value |-> "unset"]]]
        /\ IF Queued(os)
             THEN /\ clist' = [clist EXCEPT ![m] = [i \in DOMAIN os |-> Entry(os[i].kind)]]
                  /\ sent' = Append(sent, m)
             ELSE UNCHANGED <<clist, sent>>
        /\ IF Code(os) = Ok
             THEN state' = [state EXCEPT ![m] = "pending"] /\ UNCHANGED result
             ELSE /\ state' = [state EXCEPT ![m] = "refused"]
                  /\ result' = [result EXCEPT ![m] = Code(os)]
        /\ failed' \in IF FreesWrongly(os) THEN {"no", "crash"} ELSE {"no"}
  BY DEF zoo_amulti
<1>2. state[m] = "new" /\ UNCHANGED <<served, replies, toProcess, reader>>
  BY DEF zoo_amulti
<1>3. os \in Seq(Ops) /\ Len(os) \in Nat /\ DOMAIN os = 1..Len(os)
  BY RequestsAssumption
<1>4. \A kind : Entry(kind) \in Entries
  BY DEF Entry, Entries
<1>5. PICK new : new = [i \in DOMAIN os |-> [err |-> "unset", value |-> "unset"]]
  OBVIOUS
<1>6. new \in Seq(Outcomes) /\ Len(new) = Len(os)
  <2>1. [err |-> "unset", value |-> "unset"] \in Outcomes
    BY DEF Outcomes, Values
  <2> QED BY <1>3, <1>5, <2>1
<1>7. PICK entries : entries = [i \in DOMAIN os |-> Entry(os[i].kind)]
  OBVIOUS
<1>8. /\ entries \in Seq(Entries) /\ Len(entries) = Len(os)
      /\ \A i \in 1..Len(os) : entries[i] = Entry(os[i].kind)
  BY <1>3, <1>4, <1>7
<1>9. Queued(os) <=> Code(os) = Ok
  BY DEF Queued
<1>10. TypeInv'
  <2>1. ops' \in [Calls -> {<<>>} \cup Requests]
    BY <1>1 DEF TypeInv
  <2>2. sync' \in SUBSET Calls
    BY <1>1 DEF TypeInv
  <2>3. /\ state' \in [Calls -> {"new", "refused", "pending", "ended"}]
        /\ result' \in [Calls -> Codes]
    <3>1. Code(os) \in Codes
      BY DEF Code, Codes
    <3> QED BY <1>1, <3>1 DEF TypeInv
  <2>4. clist' \in [Calls -> Seq(Entries)]
    BY <1>1, <1>7, <1>8 DEF TypeInv
  <2>5. results' \in [Calls -> Seq(Outcomes)]
    BY <1>1, <1>5, <1>6 DEF TypeInv
  <2>6. sent' \in Seq(Calls)
    <3>1. sent \in Seq(Calls)
      BY DEF TypeInv
    <3>2. Append(sent, m) \in Seq(Calls)
      BY <3>1, AppendProperties
    <3> QED BY <1>1, <3>1, <3>2
  <2>7. failed' \in {"no", "assert", "crash"}
    BY <1>1
  <2> QED BY <1>2, <2>1, <2>2, <2>3, <2>4, <2>5, <2>6, <2>7 DEF TypeInv
<1>11. ASSUME NEW x \in Calls, x # m
       PROVE  /\ Kept(x) /\ state'[x] = state[x] /\ result'[x] = result[x]
              /\ (x \in sync' <=> x \in sync)
  BY <1>1, <1>2, <1>11 DEF Kept, TypeInv
<1>12. /\ ops'[m] = os /\ results'[m] = new /\ served'[m] = -1 /\ clist[m] = <<>>
       /\ IF Queued(os) THEN clist'[m] = entries /\ state'[m] = "pending"
                        ELSE clist'[m] = <<>> /\ state'[m] = "refused"
  <2>1. served[m] = -1 /\ clist[m] = <<>>
    BY <1>2 DEF CallInv, CallOk
  <2> QED BY <1>1, <1>2, <1>5, <1>7, <1>9, <2>1 DEF TypeInv
<1>13. CallInv'
  <2>1. ASSUME NEW x \in Calls, x # m PROVE CallOk(x)' /\ EndOk(x)'
    BY <1>11, <2>1, KeepsCall DEF CallInv
  <2>2. CallOk(m)' /\ EndOk(m)'
    <3>1. state'[m] \in {"refused", "pending"}
      BY <1>12
    <3>2. Len(results'[m]) = Len(ops'[m]) /\ Len(clist'[m]) <= Len(ops'[m])
      BY <1>3, <1>6, <1>8, <1>12
    <3>3. -1 \in -1..Len(os)
      BY <1>3
    <3>4. \A i \in 1..Len(clist'[m]) : clist'[m][i] = Entry(ops'[m][Used(m)' + i].kind)
      <4>1. CASE Queued(os)
        <5>1. Used(m)' = 0
          BY <1>3, <1>8, <1>12, <4>1 DEF Used
        <5>2. \A i \in 1..Len(os) : 0 + i = i
          BY <1>3
        <5> QED BY <1>8, <1>12, <4>1, <5>1, <5>2
      <4>2. CASE ~Queued(os)
        BY <1>12, <4>2
      <4> QED BY <4>1, <4>2
    <3> QED BY <1>12, <3>1, <3>2, <3>3, <3>4 DEF CallOk, EndOk
  <2> QED BY <2>1, <2>2 DEF CallInv
<1>14. ~Member(m, sent)
  BY <1>2 DEF SentInv
<1>15. /\ \A i, j \in 1..Len(sent') : sent'[i] = sent'[j] => i = j
       /\ \A x \in Calls : Member(x, sent') => Member(x, sent) \/ (x = m /\ Queued(os))
       /\ Len(sent) <= Len(sent') /\ Len(sent) \in Nat
       /\ \A i \in 1..Len(sent) : sent'[i] = sent[i]
       /\ \A i \in 1..Len(sent') : i \in 1..Len(sent) \/ sent'[i] = m
  <2>1. sent \in Seq(Calls) /\ Len(sent) \in Nat
        /\ \A i, j \in 1..Len(sent) : sent[i] = sent[j] => i = j
    BY DEF TypeInv, SentInv
  <2>2. CASE ~Queued(os)
    BY <1>1, <2>1, <2>2
  <2>3. CASE Queued(os)
    <3>1. /\ Len(sent') = Len(sent) + 1 /\ sent'[Len(sent) + 1] = m
          /\ \A i \in 1..Len(sent) : sent'[i] = sent[i]
          /\ \A i \in 1..Len(sent') : i \in 1..Len(sent) \/ i = Len(sent) + 1
      BY <1>1, <2>1, <2>3, Appended
    <3>2. \A x : Member(x, sent') <=> Member(x, sent) \/ x = m
      <4>1. sent' = Append(sent, m)
        BY <1>1, <2>3
      <4> QED BY <2>1, <4>1, MemberOfAppended
    <3>3. \A i \in 1..Len(sent) : sent[i] # m
      BY <1>14 DEF Member
    <3> QED BY <2>1, <2>3, <3>1, <3>2, <3>3
  <2> QED BY <2>2, <2>3
<1>16. SentInv'
  <2>1. ASSUME NEW x \in Calls, Member(x, sent') PROVE state'[x] = "pending" /\ Full(x)'
    <3>1. CASE x = m
      <4>1. Queued(os)
        BY <1>14, <1>15, <2>1, <3>1
      <4> QED BY <1>8, <1>12, <3>1, <4>1 DEF Full
    <3>2. CASE x # m
      BY <1>11, <1>15, <2>1, <3>2, KeptSame DEF SentInv
    <3> QED BY <3>1, <3>2
  <2>2. ASSUME NEW i \in 1..Len(replies) PROVE replies[i].call = sent'[i] /\ i \in 1..Len(sent)
    BY <1>15, QueueTypes DEF SentInv
  <2>3. ASSUME NEW p \in Replies, Member(p, replies) PROVE Answer(p)'
    <3>1. PICK i \in 1..Len(replies) : replies[i] = p
      BY <2>3 DEF Member
    <3>2. Member(p.call, sent)
      BY <2>2, <3>1 DEF SentInv, Member
    <3>3. p.call \in Calls /\ p.call # m
      BY <1>14, <3>2, QueueTypes
    <3> QED BY <1>11, <2>3, <3>3, KeptSame DEF SentInv
  <2>4. ASSUME NEW i \in 1..Len(sent'), i > Len(replies) PROVE served'[sent'[i]] = -1
    <3>1. CASE i \in 1..Len(sent)
      BY <1>2, <1>15, <2>4, <3>1 DEF SentInv
    <3>2. CASE sent'[i] = m
      BY <1>12, <3>2
    <3> QED BY <1>15, <3>1, <3>2
  <2>5. Len(replies) <= Len(sent')
    <3>1. Len(replies) \in Nat /\ Len(sent') \in Nat /\ Len(replies) <= Len(sent)
      BY <1>10, QueueTypes DEF SentInv, TypeInv
    <3> QED BY <1>15, <3>1
  <2> QED BY <1>2, <1>15, <2>1, <2>2, <2>3, <2>4, <2>5 DEF SentInv
<1>17. ProcessInv'
  <2>1. ASSUME NEW p \in Replies, Member(p, toProcess) PROVE Waits(p)'
    <3>1. Waits(p) /\ p.call \in Calls /\ p.call # m
      BY <1>2, <2>1, QueueTypes DEF ProcessInv, Waits
    <3>2. ~Member(p.call, sent') /\ p.call \notin sync'
      BY <1>11, <1>15, <3>1 DEF Waits
    <3> QED BY <1>11, <3>1, <3>2, KeepsReply
  <2> QED BY <1>2, <2>1 DEF ProcessInv
<1>18. ReaderInv'
  <2>1. ASSUME NEW t \in Threads, NEW r \in Readings, IsRead(t, r) PROVE Reads(t, r)'
    <3>1. Reads(t, r) /\ r.call \in Calls /\ r.call # m
      BY <1>2, <2>1, QueueTypes DEF ReaderInv, Reads
    <3>2. ~Member(r.call, sent') /\ \A p \in Replies : Member(p, toProcess') => p.call # r.call
      BY <1>2, <1>15, <3>1 DEF Reads, ToProcess
    <3> QED BY <1>11, <3>1, <3>2, KeepsReading
  <2> QED BY <1>2, <2>1 DEF ReaderInv, IsRead
<1> QED BY <1>10, <1>13, <1>16, <1>17, <1>18

(* The server answers the first request that has no reply yet.                 *)
LEMMA ServerStep ==
  ASSUME MultiInv, ServerAnswers
  PROVE  MultiInv'
<1> USE DEF MultiInv
<1>1. PICK i \in DOMAIN sent :
        /\ served[sent[i]] = -1
        /\ \A j \in 1..(i - 1) : served[sent[j]] # -1
        /\ \E k \in 0..Len(ops[sent[i]]) :
             /\ served' = [served EXCEPT ![sent[i]] = k]
             /\ replies' = Append(replies, [call |-> sent[i], body |-> BodyFrom(sent[i], k, 1)])
  BY DEF ServerAnswers
<1>2. UNCHANGED <<ops, sync, state, result, clist, results, sent, toProcess, reader, failed>>
  BY DEF ServerAnswers
<1>3. PICK m : m = sent[i]
  OBVIOUS
<1>4. PICK k \in 0..Len(ops[m]) :
        /\ served' = [served EXCEPT ![m] = k]
        /\ replies' = Append(replies, [call |-> m, body |-> BodyFrom(m, k, 1)])
  BY <1>1, <1>3
<1>5. i \in 1..Len(sent) /\ m \in Calls /\ Member(m, sent)
  BY <1>3, QueueTypes DEF TypeInv, Member
<1>6. ops[m] \in Seq(Ops) /\ Len(ops[m]) \in Nat /\ k \in Nat
  BY <1>5, OpsTyped
<1>7. PICK p : p = [call |-> m, body |-> BodyFrom(m, k, 1)]
  OBVIOUS
<1>8. p \in Replies /\ p.call = m /\ p.body = BodyFrom(m, k, 1)
  <2>1. 1 \in 1..(Len(ops[m]) + 1)
    BY <1>6
  <2>2. BodyFrom(m, k, 1) \in Seq(Tokens)
    BY <1>6, <2>1, BodyUnfolds
  <2> QED BY <1>5, <1>7, <2>2 DEF Replies
<1>9. /\ replies' \in Seq(Replies) /\ Len(replies') = Len(replies) + 1
      /\ replies'[Len(replies) + 1] = p /\ Len(replies) \in Nat
      /\ \A j \in 1..Len(replies) : replies'[j] = replies[j]
      /\ \A j \in 1..Len(replies') : j \in 1..Len(replies) \/ j = Len(replies) + 1
      /\ \A y : Member(y, replies') <=> Member(y, replies) \/ y = p
  <2>1. replies \in Seq(Replies) /\ replies' = Append(replies, p)
    BY <1>4, <1>7 DEF TypeInv
  <2>2. /\ replies' \in Seq(Replies) /\ Len(replies') = Len(replies) + 1
        /\ replies'[Len(replies) + 1] = p /\ Len(replies) \in Nat
        /\ \A j \in 1..Len(replies) : replies'[j] = replies[j]
        /\ \A j \in 1..Len(replies') : j \in 1..Len(replies) \/ j = Len(replies) + 1
    BY <1>8, <2>1, Appended
  <2>3. \A y : Member(y, replies') <=> Member(y, replies) \/ y = p
    BY <1>8, <2>1, MemberOfAppended
  <2> QED BY <2>2, <2>3
<1>10. i = Len(replies) + 1
  <2>1. ~(i \in 1..Len(replies))
    <3>1. ASSUME i \in 1..Len(replies) PROVE FALSE
      <4>1. replies[i].call = m /\ Member(replies[i], replies) /\ replies[i] \in Replies
        BY <1>3, <3>1, QueueTypes DEF SentInv, Member
      <4>2. PICK x : x = replies[i]
        OBVIOUS
      <4> QED BY <1>1, <1>3, <4>1, <4>2 DEF SentInv, Answer
    <3> QED BY <3>1
  <2>2. ~(Len(replies) + 1 \in 1..(i - 1))
    <3>1. ASSUME Len(replies) + 1 \in 1..(i - 1) PROVE FALSE
      <4>1. PICK j : j = Len(replies) + 1
        OBVIOUS
      <4>2. j \in 1..Len(sent) /\ j > Len(replies)
        BY <1>5, <1>9, <3>1, <4>1, QueueTypes
      <4> QED BY <1>1, <3>1, <4>1, <4>2 DEF SentInv
    <3> QED BY <3>1
  <2> QED BY <1>5, <1>9, <2>1, <2>2, QueueTypes
<1>11. TypeInv'
  <2>1. k \in Int /\ served \in [Calls -> Int]
    BY <1>6 DEF TypeInv
  <2>2. served' \in [Calls -> Int]
    BY <1>4, <2>1
  <2> QED BY <1>2, <1>9, <2>2 DEF TypeInv
<1>12. ASSUME NEW x \in Calls, x # m PROVE Kept(x)
  BY <1>2, <1>4, <1>12 DEF Kept, TypeInv
<1>13. served'[m] = k /\ state[m] = "pending" /\ Full(m)
  BY <1>4, <1>5 DEF TypeInv, SentInv
<1>14. CallInv'
  <2>1. ASSUME NEW x \in Calls, x # m PROVE CallOk(x)' /\ EndOk(x)'
    BY <1>2, <1>12, <2>1, KeepsCall DEF CallInv
  <2>2. CallOk(m)' /\ EndOk(m)'
    <3>1. CallOk(m) /\ Used(m)' = Used(m)
      BY <1>2, <1>5 DEF CallInv, Used
    <3>2. k \in -1..Len(ops[m])
      BY <1>6
    <3> QED BY <1>2, <1>13, <3>1, <3>2 DEF CallOk, EndOk
  <2> QED BY <2>1, <2>2 DEF CallInv
<1>15. SentInv'
  <2>1. \A x \in Calls : Full(x)' <=> Full(x)
    BY <1>2 DEF Full
  <2>2. Answer(p)'
    <3>1. BodyFrom(m, k, 1)' = BodyFrom(m, k, 1)
      BY <1>2, BodyKept
    <3>2. k # -1
      BY <1>6
    <3> QED BY <1>8, <1>13, <3>1, <3>2 DEF Answer
  <2>3. ASSUME NEW j \in 1..Len(replies)
        PROVE  j \in 1..Len(sent) /\ replies[j].call = sent[j] /\ j # i
    BY <1>5, <1>9, <1>10, QueueTypes DEF SentInv
  <2>4. ASSUME NEW x \in Replies, Member(x, replies) PROVE Answer(x)'
    <3>1. PICK j \in 1..Len(replies) : replies[j] = x
      BY <2>4 DEF Member
    <3>2. x.call \in Calls /\ x.call # m
      BY <1>3, <1>5, <2>3, <3>1, QueueTypes DEF SentInv
    <3> QED BY <1>12, <2>4, <3>2, KeptSame DEF SentInv
  <2>5. \A j \in 1..Len(replies') : replies'[j].call = sent[j]
    BY <1>3, <1>8, <1>9, <1>10, <2>3
  <2>6. \A x \in Replies : Member(x, replies') => Answer(x)'
    BY <1>9, <2>2, <2>4
  <2>7. ASSUME NEW j \in 1..Len(sent), j > Len(replies') PROVE served'[sent[j]] = -1
    <3>1. j > Len(replies) /\ j # i
      BY <1>9, <1>10, <2>7
    <3>2. sent[j] # m /\ sent[j] \in Calls
      BY <1>3, <1>5, <3>1, QueueTypes DEF SentInv
    <3> QED BY <1>4, <3>1, <3>2 DEF SentInv, TypeInv
  <2>8. Len(replies') <= Len(sent)
    BY <1>5, <1>9, <1>10, QueueTypes
  <2> QED BY <1>2, <2>1, <2>5, <2>6, <2>7, <2>8 DEF SentInv
<1>16. ProcessInv'
  <2>1. ASSUME NEW x \in Replies, Member(x, toProcess) PROVE Waits(x)'
    <3>1. Waits(x) /\ x.call \in Calls /\ x.call # m
      BY <1>5, <2>1, QueueTypes DEF ProcessInv, Waits
    <3> QED BY <1>2, <1>12, <3>1, KeepsReply DEF Waits
  <2> QED BY <1>2, <2>1 DEF ProcessInv
<1>17. ReaderInv'
  <2>1. ASSUME NEW t \in Threads, NEW r \in Readings, IsRead(t, r) PROVE Reads(t, r)'
    <3>1. Reads(t, r) /\ r.call \in Calls /\ r.call # m
      BY <1>5, <2>1, QueueTypes DEF ReaderInv, Reads
    <3> QED BY <1>2, <1>12, <3>1, KeepsReading DEF Reads, ToProcess
  <2> QED BY <1>2, <2>1 DEF ReaderInv, IsRead
<1> QED BY <1>11, <1>14, <1>15, <1>16, <1>17

(* A thread begins with a reply whose call was not looked at.                  *)
LEMMA Begins ==
  ASSUME MultiInv, NEW p \in Replies, Full(p.call), p.body = <<>> \/ Answer(p),
         NEW r, r = Begin(p)
  PROVE  r \in Readings /\ r.call = p.call /\ (Faked(r) \/ Decoded(r))
<1>1. PICK m, b, q : /\ m = p.call /\ b = p.body
                     /\ q = [call |-> m, body |-> b, type |-> "", err |-> Ok, rc |-> Ok]
  OBVIOUS
<1>2. m \in Calls /\ b \in Seq(Tokens)
  BY <1>1 DEF Replies
<1>3. q \in Readings
  BY <1>1, <1>2 DEF Readings, Types, Errors
<1>4. q.call = m /\ q.body = b /\ q.rc = Ok /\ q.type = ""
  BY <1>1
<1>5. r = deserialize_MultiHeader(q)
  BY <1>1 DEF Begin
<1>6. r \in Readings /\ r.call = m /\ r.rc = Ok
  BY <1>3, <1>4, <1>5, HeaderRead
<1>7. CASE b = <<>>
  <2>1. r = q
    BY <1>3, <1>4, <1>5, <1>7, HeaderRead
  <2> QED BY <1>1, <1>4, <1>6, <1>7, <2>1 DEF Faked
<1>8. CASE Answer(p)
  <2>1. ops[m] \in Seq(Ops) /\ Len(ops[m]) \in Nat /\ Used(m) = 0
    <3>1. ops[m] \in Seq(Ops) /\ Len(ops[m]) \in Nat /\ Len(clist[m]) = Len(ops[m])
      BY <1>1, <1>2, OpsTyped DEF MultiInv, Full
    <3> QED BY <3>1 DEF Used
  <2>2. served[m] \in Nat /\ served[m] # -1
    <3>1. served[m] \in -1..Len(ops[m]) /\ served[m] # -1
      BY <1>1, <1>2, <1>8 DEF MultiInv, CallInv, CallOk, Answer
    <3> QED BY <2>1, <3>1
  <2>3. 1 \in 1..(Len(ops[m]) + 1)
    BY <2>1
  <2>4. q.body = BodyFrom(m, served[m], 1)
    BY <1>1, <1>4, <1>8 DEF Answer
  <2>5. AtOp(r, 1)
    BY <1>3, <1>4, <1>5, <2>1, <2>2, <2>3, <2>4, ReadsNext
  <2>6. Ok = RightCode(served[m], 1)
    BY <2>2 DEF RightCode
  <2>7. Used(m) + 1 = 1 /\ \A i \in 1..Used(m) : FALSE
    BY <2>1
  <2> QED BY <1>1, <1>6, <2>2, <2>5, <2>6, <2>7 DEF Decoded
<1> QED BY <1>1, <1>6, <1>7, <1>8

(* The reply that arrives is that of the first request.                        *)
LEMMA IoReplyStep ==
  ASSUME MultiInv, IoReply
  PROVE  MultiInv'
<1> USE DEF MultiInv
<1>1. /\ reader["io"] = <<>> /\ replies # <<>>
      /\ IF Head(sent) \in sync
           THEN /\ reader' = [reader EXCEPT !["io"] = <<Begin(Head(replies))>>]
                /\ UNCHANGED toProcess
           ELSE /\ toProcess' = Append(toProcess, Head(replies))
                /\ UNCHANGED reader
      /\ replies' = Tail(replies) /\ sent' = Tail(sent)
      /\ UNCHANGED <<ops, sync, state, result, clist, results, served, failed>>
  BY DEF IoReply
<1>2. PICK p, m, r : p = Head(replies) /\ m = Head(sent) /\ r = Begin(p)
  OBVIOUS
<1>3. replies \in Seq(Replies) /\ sent \in Seq(Calls) /\ sent # <<>>
  BY <1>1, QueueTypes, EmptySeq DEF TypeInv, SentInv
<1>4. /\ replies' \in Seq(Replies) /\ Len(replies') = Len(replies) - 1 /\ Len(replies') \in Nat
      /\ p = replies[1] /\ p \in Replies /\ Member(p, replies)
      /\ \A i \in 1..Len(replies') : i + 1 \in 1..Len(replies) /\ replies'[i] = replies[i + 1]
      /\ \A y : Member(y, replies') => Member(y, replies)
  <2>1. \A y : Member(y, replies') => Member(y, replies)
    BY <1>1, <1>3, MemberOfRemoved
  <2>2. PICK q : q = Tail(replies)
    OBVIOUS
  <2>3. /\ q \in Seq(Replies) /\ Len(q) = Len(replies) - 1 /\ Len(q) \in Nat
        /\ replies[1] \in Replies /\ Head(replies) = replies[1] /\ Member(replies[1], replies)
    BY <1>1, <1>3, <2>2, Removed
  <2>4. \A i \in 1..Len(q) : i + 1 \in 1..Len(replies) /\ q[i] = replies[i + 1]
    BY <1>1, <1>3, <2>2, Removed
  <2> QED BY <1>1, <1>2, <2>1, <2>2, <2>3, <2>4
<1>5. /\ sent' \in Seq(Calls) /\ Len(sent') = Len(sent) - 1 /\ Len(sent') \in Nat
      /\ m = sent[1] /\ m \in Calls /\ Member(m, sent)
      /\ \A i \in 1..Len(sent') : i + 1 \in 1..Len(sent) /\ i + 1 # 1 /\ sent'[i] = sent[i + 1]
      /\ \A y : Member(y, sent') => Member(y, sent)
  <2>1. \A y : Member(y, sent') => Member(y, sent)
    BY <1>1, <1>3, MemberOfRemoved
  <2> QED BY <1>1, <1>2, <1>3, <2>1, Removed
<1>6. p.call = m /\ Answer(p) /\ state[m] = "pending" /\ Full(m)
  <2>1. 1 \in 1..Len(replies)
    BY <1>4, QueueTypes
  <2> QED BY <1>4, <1>5, <2>1 DEF SentInv
<1>7. ~Member(m, sent')
  <2>1. 1 \in 1..Len(sent)
    BY <1>5, QueueTypes
  <2>2. ASSUME NEW i \in 1..Len(sent') PROVE sent'[i] # m
    <3>1. PICK j : j = i + 1
      OBVIOUS
    <3>2. j \in 1..Len(sent) /\ j # 1 /\ sent'[i] = sent[j]
      BY <1>5, <3>1
    <3> QED BY <1>5, <2>1, <3>2 DEF SentInv
  <2> QED BY <2>2 DEF Member
<1>8. r \in Readings /\ r.call = m /\ (Faked(r) \/ Decoded(r))
  BY <1>2, <1>4, <1>6, Begins
<1>9. \A x : Kept(x)
  BY <1>1 DEF Kept
<1>10. TypeInv'
  <2>1. reader \in [Threads -> Seq(Readings)] /\ <<r>> \in Seq(Readings)
    BY <1>8 DEF TypeInv
  <2>2. reader' \in [Threads -> Seq(Readings)]
    BY <1>1, <1>2, <2>1
  <2>3. toProcess' \in Seq(Replies)
    <3>1. toProcess \in Seq(Replies)
      BY DEF TypeInv
    <3>2. Append(toProcess, p) \in Seq(Replies)
      BY <1>4, <3>1, AppendProperties
    <3> QED BY <1>1, <1>2, <3>1, <3>2
  <2> QED BY <1>1, <1>4, <1>5, <2>2, <2>3 DEF TypeInv
<1>11. CallInv'
  <2>1. ASSUME NEW x \in Calls PROVE CallOk(x)' /\ EndOk(x)'
    BY <1>1, <1>9, KeepsCall DEF CallInv
  <2> QED BY <2>1 DEF CallInv
<1>12. SentInv'
  <2>1. ASSUME NEW i \in 1..Len(sent'), NEW j \in 1..Len(sent'), sent'[i] = sent'[j] PROVE i = j
    <3>1. PICK g, h : g = i + 1 /\ h = j + 1
      OBVIOUS
    <3>2. g \in 1..Len(sent) /\ h \in 1..Len(sent) /\ sent[g] = sent[h]
      BY <1>5, <2>1, <3>1
    <3>3. g = h
      BY <3>2 DEF SentInv
    <3> QED BY <1>5, <3>1, <3>3
  <2>2. ASSUME NEW x \in Calls, Member(x, sent') PROVE state'[x] = "pending" /\ Full(x)'
    BY <1>1, <1>5, <1>9, <2>2, KeptSame DEF SentInv
  <2>3. Len(replies') <= Len(sent')
    BY <1>4, <1>5, QueueTypes DEF SentInv
  <2>4. ASSUME NEW i \in 1..Len(replies') PROVE replies'[i].call = sent'[i]
    <3>1. PICK j : j = i + 1
      OBVIOUS
    <3>2. j \in 1..Len(replies) /\ replies'[i] = replies[j]
      BY <1>4, <3>1
    <3>3. i \in 1..Len(sent')
      BY <1>4, <1>5, <2>3
    <3>4. sent'[i] = sent[j]
      BY <1>5, <3>1, <3>3
    <3> QED BY <3>2, <3>4 DEF SentInv
  <2>5. ASSUME NEW x \in Replies, Member(x, replies') PROVE Answer(x)'
    BY <1>4, <1>9, <2>5, KeptSame DEF SentInv
  <2>6. ASSUME NEW i \in 1..Len(sent'), i > Len(replies') PROVE served'[sent'[i]] = -1
    <3>1. PICK j : j = i + 1
      OBVIOUS
    <3>2. j \in 1..Len(sent) /\ sent'[i] = sent[j]
      BY <1>5, <3>1
    <3>3. j > Len(replies)
      BY <1>4, <1>5, <2>6, <3>1, QueueTypes
    <3> QED BY <1>1, <3>2, <3>3 DEF SentInv
  <2> QED BY <2>1, <2>2, <2>3, <2>4, <2>5, <2>6 DEF SentInv
<1>13. ASSUME NEW x \in Replies, Member(x, toProcess) PROVE Waits(x)' /\ x.call # m
  <2>1. Waits(x) /\ x.call # m
    BY <1>5, <1>13 DEF ProcessInv, Waits
  <2>2. ~Member(x.call, sent')
    BY <1>5, <2>1 DEF Waits
  <2> QED BY <1>1, <1>9, <2>1, <2>2, KeepsReply DEF Waits
<1>14. ASSUME NEW t \in Threads, NEW x \in Readings, IsRead(t, x),
              \A y \in Replies : Member(y, toProcess') => y.call # x.call
       PROVE  Reads(t, x)'
  <2>1. Reads(t, x)
    BY <1>14 DEF ReaderInv
  <2>2. ~Member(x.call, sent')
    BY <1>5, <2>1 DEF Reads
  <2> QED BY <1>1, <1>9, <1>14, <2>1, <2>2, KeepsReading
<1>15. CASE m \in sync
  <2>1. toProcess' = toProcess /\ reader' = [reader EXCEPT !["io"] = <<r>>]
    BY <1>1, <1>2, <1>15
  <2>2. ProcessInv'
    BY <1>13, <2>1 DEF ProcessInv
  <2>3. Reads("io", r)'
    <3>1. \A y \in Replies : Member(y, toProcess') => y.call # m
      BY <1>13, <2>1
    <3>2. Decoded(r)' <=> Decoded(r)
      BY <1>8, <1>9, KeptSame
    <3> QED BY <1>1, <1>6, <1>7, <1>8, <1>15, <3>1, <3>2 DEF Reads, ToProcess, Faked
  <2>4. ReaderInv'
    <3>1. ASSUME NEW t \in Threads, NEW x \in Readings, IsRead(t, x)' PROVE Reads(t, x)'
      <4>1. CASE t = "io"
        <5>1. reader'["io"] = <<r>> /\ <<r>>[1] = r
          BY <2>1 DEF TypeInv, Threads
        <5> QED BY <2>3, <3>1, <4>1, <5>1 DEF IsRead
      <4>2. CASE t # "io"
        <5>1. reader'[t] = reader[t]
          BY <2>1, <4>2 DEF TypeInv, Threads
        <5>2. IsRead(t, x)
          BY <3>1, <5>1 DEF IsRead
        <5>3. \A y \in Replies : Member(y, toProcess') => y.call # x.call
          BY <2>1, <5>2 DEF ReaderInv, Reads, ToProcess
        <5> QED BY <1>14, <5>2, <5>3
      <4> QED BY <4>1, <4>2
    <3> QED BY <3>1 DEF ReaderInv
  <2> QED BY <1>10, <1>11, <1>12, <2>2, <2>4
<1>16. CASE m \notin sync
  <2>1. toProcess' = Append(toProcess, p) /\ reader' = reader /\ toProcess \in Seq(Replies)
    BY <1>1, <1>2, <1>16 DEF TypeInv
  <2>2. /\ Len(toProcess') = Len(toProcess) + 1 /\ toProcess'[Len(toProcess) + 1] = p
        /\ \A i \in 1..Len(toProcess) : toProcess'[i] = toProcess[i]
        /\ \A i \in 1..Len(toProcess') : i \in 1..Len(toProcess) \/ i = Len(toProcess) + 1
    BY <1>4, <2>1, Appended
  <2>3. \A y : Member(y, toProcess') <=> Member(y, toProcess) \/ y = p
    BY <1>4, <2>1, MemberOfAppended
  <2>4. Waits(p)'
    <3>1. (Full(m)' <=> Full(m)) /\ (Answer(p)' <=> Answer(p))
      BY <1>6, <1>9, KeptSame
    <3> QED BY <1>1, <1>6, <1>7, <1>16, <3>1 DEF Waits
  <2>5. \A i \in 1..Len(toProcess) : toProcess[i].call # m
    BY <1>13, QueueTypes DEF Member
  <2>6. ProcessInv'
    <3>1. \A i, j \in 1..Len(toProcess') : toProcess'[i].call = toProcess'[j].call => i = j
      BY <1>6, <2>2, <2>5 DEF ProcessInv
    <3>2. \A y \in Replies : Member(y, toProcess') => Waits(y)'
      BY <1>13, <2>3, <2>4
    <3> QED BY <3>1, <3>2 DEF ProcessInv
  <2>7. ReaderInv'
    <3>1. ASSUME NEW t \in Threads, NEW x \in Readings, IsRead(t, x)' PROVE Reads(t, x)'
      <4>1. IsRead(t, x)
        BY <2>1, <3>1 DEF IsRead
      <4>2. x.call # m /\ ~ToProcess(x.call)
        BY <1>5, <4>1 DEF ReaderInv, Reads
      <4>3. \A y \in Replies : Member(y, toProcess') => y.call # x.call
        BY <1>6, <2>3, <4>2 DEF ToProcess
      <4> QED BY <1>14, <4>1, <4>3
    <3> QED BY <3>1 DEF ReaderInv
  <2> QED BY <1>10, <1>11, <1>12, <2>6, <2>7
<1> QED BY <1>15, <1>16

LEMMA TakesStep ==
  ASSUME MultiInv, CompletionTakes
  PROVE  MultiInv'
<1> USE DEF MultiInv
<1>1. /\ toProcess # <<>> /\ toProcess' = Tail(toProcess)
      /\ reader' = [reader EXCEPT !["completion"] = <<Begin(Head(toProcess))>>]
      /\ UNCHANGED <<ops, sync, state, result, clist, results, sent, served, replies, failed>>
  BY DEF CompletionTakes
<1>2. PICK p, m, r : p = Head(toProcess) /\ m = p.call /\ r = Begin(p)
  OBVIOUS
<1>3. toProcess \in Seq(Replies)
  BY DEF TypeInv
<1>4. /\ toProcess' \in Seq(Replies) /\ p = toProcess[1] /\ p \in Replies /\ Member(p, toProcess)
      /\ \A y : Member(y, toProcess') => Member(y, toProcess)
  <2>1. \A y : Member(y, toProcess') => Member(y, toProcess)
    BY <1>1, <1>3, MemberOfRemoved
  <2>2. /\ Tail(toProcess) \in Seq(Replies) /\ toProcess[1] \in Replies
        /\ Head(toProcess) = toProcess[1] /\ Member(toProcess[1], toProcess)
    BY <1>1, <1>3, Removed
  <2> QED BY <1>1, <1>2, <2>1, <2>2
<1>5. \A i \in 1..Len(toProcess') :
        i + 1 \in 1..Len(toProcess) /\ i + 1 # 1 /\ toProcess'[i] = toProcess[i + 1]
  BY <1>1, <1>3, Removed
<1>6. Waits(p) /\ m \in Calls
  BY <1>2, <1>4, QueueTypes DEF ProcessInv
<1>7. r \in Readings /\ r.call = m /\ (Faked(r) \/ Decoded(r))
  BY <1>2, <1>4, <1>6, Begins DEF Waits
<1>8. \A x : Kept(x)
  BY <1>1 DEF Kept
<1>9. TypeInv'
  <2>1. reader \in [Threads -> Seq(Readings)] /\ <<r>> \in Seq(Readings)
    BY <1>7 DEF TypeInv
  <2>2. reader' \in [Threads -> Seq(Readings)]
    BY <1>1, <1>2, <2>1
  <2> QED BY <1>1, <1>4, <2>2 DEF TypeInv
<1>10. CallInv'
  <2>1. ASSUME NEW x \in Calls PROVE CallOk(x)' /\ EndOk(x)'
    BY <1>1, <1>8, KeepsCall DEF CallInv
  <2> QED BY <2>1 DEF CallInv
<1>11. SentInv'
  <2>1. ASSUME NEW x \in Calls, Member(x, sent') PROVE state'[x] = "pending" /\ Full(x)'
    BY <1>1, <1>8, <2>1, KeptSame DEF SentInv
  <2>2. ASSUME NEW x \in Replies, Member(x, replies') PROVE Answer(x)'
    BY <1>1, <1>8, <2>2, KeptSame DEF SentInv
  <2> QED BY <1>1, <2>1, <2>2 DEF SentInv
<1>12. ASSUME NEW i \in 1..Len(toProcess')
       PROVE  \E h \in 1..Len(toProcess) : h = i + 1 /\ h # 1 /\ toProcess'[i] = toProcess[h]
  BY <1>5
<1>13. \A y \in Replies : Member(y, toProcess') => y.call # m
  <2>1. ASSUME NEW i \in 1..Len(toProcess') PROVE toProcess'[i].call # m
    <3>1. PICK h \in 1..Len(toProcess) : h # 1 /\ toProcess'[i] = toProcess[h]
      BY <1>12
    <3>2. 1 \in 1..Len(toProcess)
      BY <3>1, QueueTypes
    <3> QED BY <1>2, <1>4, <3>1, <3>2 DEF ProcessInv
  <2> QED BY <2>1 DEF Member
<1>14. ProcessInv'
  <2>1. ASSUME NEW i \in 1..Len(toProcess'), NEW j \in 1..Len(toProcess'),
               toProcess'[i].call = toProcess'[j].call
        PROVE  i = j
    <3>1. PICK g \in 1..Len(toProcess) : g = i + 1 /\ toProcess'[i] = toProcess[g]
      BY <1>12
    <3>2. PICK h \in 1..Len(toProcess) : h = j + 1 /\ toProcess'[j] = toProcess[h]
      BY <1>12
    <3>3. g = h
      BY <2>1, <3>1, <3>2 DEF ProcessInv
    <3>4. Len(toProcess') \in Nat
      BY <1>4
    <3> QED BY <3>1, <3>2, <3>3, <3>4
  <2>2. ASSUME NEW x \in Replies, Member(x, toProcess') PROVE Waits(x)'
    <3>1. Waits(x)
      BY <1>4, <2>2 DEF ProcessInv
    <3> QED BY <1>1, <1>8, <3>1, KeepsReply DEF Waits
  <2> QED BY <2>1, <2>2 DEF ProcessInv
<1>15. Reads("completion", r)'
  <2>1. Decoded(r)' <=> Decoded(r)
    BY <1>7, <1>8, KeptSame
  <2> QED BY <1>1, <1>2, <1>6, <1>7, <1>13, <2>1 DEF Reads, ToProcess, Faked, Waits
<1>16. ReaderInv'
  <2>1. ASSUME NEW t \in Threads, NEW x \in Readings, IsRead(t, x)' PROVE Reads(t, x)'
    <3>1. CASE t = "completion"
      <4>1. reader'["completion"] = <<r>> /\ <<r>>[1] = r
        BY <1>1, <1>2 DEF TypeInv, Threads
      <4> QED BY <1>15, <2>1, <3>1, <4>1 DEF IsRead
    <3>2. CASE t # "completion"
      <4>1. IsRead(t, x)
        BY <1>1, <2>1, <3>2 DEF IsRead, TypeInv, Threads
      <4>2. Reads(t, x)
        BY <4>1 DEF ReaderInv
      <4>3. \A y \in Replies : Member(y, toProcess') => y.call # x.call
        BY <1>4, <4>2 DEF Reads, ToProcess
      <4> QED BY <1>1, <1>8, <4>2, <4>3, KeepsReading DEF Reads
    <3> QED BY <3>1, <3>2
  <2> QED BY <2>1 DEF ReaderInv
<1> QED BY <1>9, <1>10, <1>11, <1>14, <1>16

(* A step of a thread that reads the reply of a call changes nothing for the   *)
(* other calls, wherever they are.                                             *)
LEMMA OnlyOneCall ==
  ASSUME MultiInv, NEW t \in Threads, NEW r \in Readings, IsRead(t, r),
         UNCHANGED <<ops, sync, sent, served, replies, toProcess>>,
         \A x \in Calls : x # r.call => Kept(x) /\ state'[x] = state[x] /\ result'[x] = result[x],
         \A u \in Threads : u # t => reader'[u] = reader[u],
         TypeInv', CallOk(r.call)', EndOk(r.call)',
         \A x \in Readings : IsRead(t, x)' => Reads(t, x)'
  PROVE  MultiInv'
<1> USE DEF MultiInv
<1>1. Reads(t, r) /\ r.call \in Calls
  BY QueueTypes DEF ReaderInv
<1>2. CallInv'
  <2>1. ASSUME NEW x \in Calls, x # r.call PROVE CallOk(x)' /\ EndOk(x)'
    BY <2>1, KeepsCall DEF CallInv
  <2> QED BY <2>1 DEF CallInv
<1>3. ~Member(r.call, sent)
  BY <1>1 DEF Reads
<1>4. SentInv'
  <2>1. ASSUME NEW x \in Calls, Member(x, sent) PROVE state'[x] = "pending" /\ Full(x)'
    <3>1. x # r.call
      BY <1>3, <2>1
    <3>2. Kept(x) /\ state'[x] = state[x] /\ state[x] = "pending" /\ Full(x)
      BY <2>1, <3>1 DEF SentInv
    <3> QED BY <3>2, KeptSame
  <2>2. ASSUME NEW x \in Replies, Member(x, replies) PROVE Answer(x)'
    <3>1. PICK i \in 1..Len(replies) : replies[i] = x
      BY <2>2 DEF Member
    <3>2. Member(x.call, sent)
      BY <3>1, QueueTypes DEF SentInv, Member
    <3>3. Kept(x.call) /\ Answer(x)
      BY <1>3, <2>2, <3>2, QueueTypes DEF SentInv
    <3> QED BY <3>3, KeptSame
  <2> QED BY <2>1, <2>2 DEF SentInv
<1>5. ProcessInv'
  <2>1. ASSUME NEW x \in Replies, Member(x, toProcess) PROVE Waits(x)'
    <3>1. Waits(x) /\ x.call # r.call /\ x.call \in Calls
      BY <1>1, <2>1, QueueTypes DEF ProcessInv, Reads, ToProcess
    <3> QED BY <3>1, KeepsReply DEF Waits
  <2> QED BY <2>1 DEF ProcessInv
<1>6. ReaderInv'
  <2>1. ASSUME NEW u \in Threads, u # t, NEW x \in Readings, IsRead(u, x)' PROVE Reads(u, x)'
    <3>1. IsRead(u, x)
      BY <2>1 DEF IsRead
    <3>2. Reads(u, x) /\ x.call \in Calls
      BY <3>1, QueueTypes DEF ReaderInv
    <3>3. x.call # r.call
      BY <1>1, <2>1, <3>2 DEF Reads, Threads
    <3> QED BY <3>2, <3>3, KeepsReading DEF Reads, ToProcess
  <2> QED BY <2>1 DEF ReaderInv
<1> QED BY <1>2, <1>4, <1>5, <1>6

(* One more operation is decoded, rightly if the reply was not faked.          *)
LEMMA DecodeStep ==
  ASSUME MultiInv, NEW t \in Threads, DecodeOne(t)
  PROVE  MultiInv'
<1> USE DEF MultiInv
<1>1. PICK r, m, n, i, entry, e, a, b, o :
        /\ r = reader[t][1] /\ m = r.call /\ n = Len(ops[m]) /\ i = n - Len(clist[m]) + 1
        /\ entry = Head(clist[m]) /\ e = ReadError(r) /\ a = AfterValue(entry, e)
        /\ b = deserialize_MultiHeader(a) /\ o = [err |-> e.err, value |-> Value(entry, e)]
  OBVIOUS
<1>2. /\ reader[t] # <<>> /\ r.type # "done" /\ clist[m] # <<>>
      /\ results' = [results EXCEPT ![m][i] = o]
      /\ reader' = [reader EXCEPT ![t] = <<b>>]
      /\ failed' \in {"no", "crash"}
      /\ clist' = [clist EXCEPT ![m] = Tail(clist[m])]
      /\ UNCHANGED <<ops, sync, state, result, sent, served, replies, toProcess>>
  BY <1>1 DEF DecodeOne
<1>3. r \in Readings /\ m \in Calls /\ IsRead(t, r) /\ Reads(t, r)
  BY <1>1, <1>2, QueueTypes DEF ReaderInv, IsRead
<1>4. /\ ops[m] \in Seq(Ops) /\ n \in Nat /\ Len(clist[m]) \in Nat
      /\ clist[m] \in Seq(Entries) /\ results[m] \in Seq(Outcomes)
  BY <1>1, <1>3, OpsTyped DEF TypeInv
<1>5. /\ Len(results[m]) = n /\ Len(clist[m]) <= n
      /\ \A h \in 1..Len(clist[m]) : clist[m][h] = Entry(ops[m][Used(m) + h].kind)
      /\ served[m] \in -1..n /\ state[m] = "pending" /\ CallOk(m)
  BY <1>1, <1>3 DEF CallInv, CallOk, Reads
<1>6. PICK rest : rest = Tail(clist[m])
  OBVIOUS
<1>7. /\ rest \in Seq(Entries) /\ Len(rest) = Len(clist[m]) - 1 /\ Len(rest) \in Nat
      /\ entry = clist[m][1] /\ entry \in Entries
      /\ \A h \in 1..Len(rest) : h + 1 \in 1..Len(clist[m]) /\ rest[h] = clist[m][h + 1]
  <2>1. /\ rest \in Seq(Entries) /\ Len(rest) = Len(clist[m]) - 1 /\ Len(rest) \in Nat
        /\ clist[m][1] \in Entries /\ Head(clist[m]) = clist[m][1]
    BY <1>2, <1>4, <1>6, Removed
  <2>2. \A h \in 1..Len(rest) : h + 1 \in 1..Len(clist[m]) /\ rest[h] = clist[m][h + 1]
    BY <1>2, <1>4, <1>6, Removed
  <2> QED BY <1>1, <2>1, <2>2
<1>8. i \in 1..n /\ i = Used(m) + 1 /\ Used(m) \in Nat /\ n - Len(rest) = i
  <2>1. PICK c, u : c = Len(clist[m]) /\ u = Len(rest)
    OBVIOUS
  <2>2. c \in Nat /\ c <= n /\ n \in Nat /\ u \in Nat /\ u = c - 1 /\ i = n - c + 1
    BY <1>1, <1>4, <1>5, <1>7, <2>1
  <2>3. i \in 1..n /\ i = (n - c) + 1 /\ n - c \in Nat /\ n - u = i
    BY <2>2
  <2>4. Used(m) = n - c
    BY <1>1, <2>1 DEF Used
  <2> QED BY <2>1, <2>3, <2>4
<1>9. entry = Entry(ops[m][i].kind)
  <2>1. 1 \in 1..Len(clist[m])
    BY <1>4, <1>7
  <2> QED BY <1>5, <1>7, <1>8, <2>1
<1>10. /\ clist'[m] = rest /\ results'[m] = [results[m] EXCEPT ![i] = o] /\ reader'[t] = <<b>>
       /\ ops'[m] = ops[m] /\ served'[m] = served[m]
  BY <1>2, <1>3, <1>6 DEF TypeInv
<1>11. Used(m)' = i
  BY <1>1, <1>8, <1>10 DEF Used
<1>12. /\ \A h \in 1..Used(m) : results'[m][h] = results[m][h]
       /\ results'[m][i] = o /\ Len(results'[m]) = n
  <2>1. \A h \in 1..Used(m) : h \in 1..n /\ h # i
    BY <1>4, <1>8
  <2>2. DOMAIN results[m] = 1..n
    BY <1>4, <1>5
  <2>3. Len([results[m] EXCEPT ![i] = o]) = n
    BY <1>4, <2>2
  <2> QED BY <1>8, <1>10, <2>1, <2>2, <2>3
<1>13. b \in Readings /\ o \in Outcomes /\ b.call = m /\ (Faked(b) \/ Decoded(b)')
  <2>1. CASE Faked(r)
    <3>1. ReadError(r) = r /\ AfterValue(entry, r) = r /\ deserialize_MultiHeader(r) = r
      BY <2>1 DEF Faked, ReadError, AfterValue, deserialize_MultiHeader
    <3>2. e = r /\ a = r /\ b = r /\ r.type # "error"
      BY <1>1, <2>1, <3>1 DEF Faked
    <3>3. o \in Outcomes
      BY <1>1, <1>3, <1>7, <3>2, DecodesTyped
    <3> QED BY <1>1, <1>3, <2>1, <3>2, <3>3
  <2>2. CASE Decoded(r)
    <3>1. PICK k : k = served[m]
      OBVIOUS
    <3>2. k \in Nat /\ AtOp(r, i) /\ r.rc = RightCode(k, i)
      <4>1. k \in -1..n /\ k # -1
        BY <1>1, <1>5, <2>2, <3>1 DEF Decoded
      <4>2. k \in Nat
        BY <1>4, <4>1
      <4> QED BY <1>1, <1>8, <2>2, <3>1, <4>2 DEF Decoded
    <3>3. /\ r.type = "error" => r.body # <<>>
          /\ e.err = ServerError(k, i) /\ Value(entry, e) = RightValue(m, k, i)
          /\ a.body = BodyFrom(m, k, i + 1) /\ a.rc = RightCode(k, i + 1)
      <4>1. r.call = m /\ i \in 1..Len(ops[m])
        BY <1>1, <1>8
      <4>2. /\ r.type = "error" => r.body # <<>>
            /\ ReadError(r).err = ServerError(k, i)
            /\ Value(Entry(ops[m][i].kind), ReadError(r)) = RightValue(m, k, i)
            /\ AfterValue(Entry(ops[m][i].kind), ReadError(r)).body = BodyFrom(m, k, i + 1)
            /\ AfterValue(Entry(ops[m][i].kind), ReadError(r)).rc = RightCode(k, i + 1)
        BY <1>3, <1>4, <3>1, <3>2, <4>1, DecodesRight
      <4> QED BY <1>1, <1>9, <4>2
    <3>4. a \in Readings /\ a.call = m /\ o \in Outcomes
      BY <1>1, <1>3, <1>7, <3>3, DecodesTyped
    <3>5. b \in Readings /\ b.call = m /\ b.rc = RightCode(k, i + 1)
      BY <1>1, <3>3, <3>4, HeaderRead
    <3>6. PICK j : j = i + 1
      OBVIOUS
    <3>7. j \in 1..(Len(ops[m]) + 1)
      <4>1. j \in 1..(n + 1)
        BY <1>4, <1>8, <3>6
      <4> QED BY <1>1, <4>1
    <3>8. AtOp(b, j)
      BY <1>1, <1>4, <3>1, <3>2, <3>3, <3>4, <3>6, <3>7, ReadsNext
    <3>9. AtOp(b, j)'
      BY <1>10, <3>5, <3>8, BodyKept DEF AtOp
    <3>10. ASSUME NEW h \in 1..i PROVE IsRight(m, h)'
      <4>1. CASE h = i
        <5>1. RightValue(m, k, i)' = RightValue(m, k, i)
          BY <1>10 DEF RightValue
        <5>2. o = [err |-> ServerError(k, i), value |-> RightValue(m, k, i)]
          BY <1>1, <3>3
        <5> QED BY <1>10, <1>12, <3>1, <4>1, <5>1, <5>2 DEF IsRight
      <4>2. CASE h # i
        <5>1. h \in 1..Used(m)
          BY <1>8, <4>2
        <5>2. IsRight(m, h)
          BY <1>1, <2>2, <5>1 DEF Decoded
        <5>3. RightValue(m, k, h)' = RightValue(m, k, h)
          BY <1>10 DEF RightValue
        <5> QED BY <1>10, <1>12, <3>1, <5>1, <5>2, <5>3 DEF IsRight
      <4> QED BY <4>1, <4>2
    <3>11. k # -1
      BY <3>2
    <3> QED BY <1>10, <1>11, <3>1, <3>4, <3>5, <3>6, <3>9, <3>10, <3>11 DEF Decoded
  <2> QED BY <1>3, <2>1, <2>2 DEF Reads
<1>14. TypeInv'
  <2>1. results'[m] \in Seq(Outcomes)
    BY <1>4, <1>5, <1>8, <1>10, <1>13, ExceptSeq
  <2>2. results' \in [Calls -> Seq(Outcomes)]
    BY <1>2, <1>10, <2>1 DEF TypeInv
  <2>3. clist' \in [Calls -> Seq(Entries)]
    BY <1>2, <1>6, <1>7 DEF TypeInv
  <2>4. reader' \in [Threads -> Seq(Readings)]
    <3>1. <<b>> \in Seq(Readings) /\ reader \in [Threads -> Seq(Readings)]
      BY <1>13 DEF TypeInv
    <3> QED BY <1>2, <3>1
  <2> QED BY <1>2, <2>2, <2>3, <2>4 DEF TypeInv
<1>15. CallOk(m)' /\ EndOk(m)'
  <2>1. Len(rest) <= n
    BY <1>4, <1>5, <1>7
  <2>2. ASSUME NEW h \in 1..Len(rest) PROVE rest[h] = Entry(ops[m][i + h].kind)
    <3>1. PICK g : g = h + 1
      OBVIOUS
    <3>2. g \in 1..Len(clist[m]) /\ rest[h] = clist[m][g]
      BY <1>7, <3>1
    <3>3. Used(m) + g = i + h
      BY <1>7, <1>8, <3>1
    <3>4. rest[h] = Entry(ops[m][Used(m) + g].kind)
      BY <1>5, <3>2
    <3> QED BY <3>3, <3>4
  <2> QED BY <1>1, <1>2, <1>5, <1>10, <1>11, <1>12, <2>1, <2>2 DEF CallOk, EndOk
<1>16. ASSUME NEW x \in Calls, x # m PROVE Kept(x) /\ state'[x] = state[x] /\ result'[x] = result[x]
  BY <1>2, <1>16 DEF Kept, TypeInv
<1>17. \A u \in Threads : u # t => reader'[u] = reader[u]
  BY <1>2 DEF TypeInv
<1>18. ASSUME NEW x \in Readings, IsRead(t, x)' PROVE Reads(t, x)'
  <2>1. x = b
    BY <1>10, <1>18 DEF IsRead
  <2> QED BY <1>1, <1>2, <1>3, <1>13, <2>1 DEF Reads, ToProcess, Faked
<1> QED BY <1>1, <1>2, <1>3, <1>14, <1>15, <1>16, <1>17, <1>18, OnlyOneCall

(* The call of a reply that was decoded to its end has the server's results.   *)
LEMMA EndStep ==
  ASSUME MultiInv, NEW t \in Threads, End(t)
  PROVE  MultiInv'
<1> USE DEF MultiInv
<1>1. PICK r, m : r = reader[t][1] /\ m = r.call
  OBVIOUS
<1>2. /\ reader[t] # <<>> /\ r.type = "done"
      /\ state' = [state EXCEPT ![m] = "ended"] /\ result' = [result EXCEPT ![m] = r.rc]
      /\ reader' = [reader EXCEPT ![t] = <<>>]
      /\ UNCHANGED <<ops, sync, clist, results, sent, served, replies, toProcess, failed>>
  BY <1>1 DEF End
<1>3. r \in Readings /\ m \in Calls /\ IsRead(t, r) /\ Reads(t, r)
  BY <1>1, <1>2, QueueTypes DEF ReaderInv, IsRead
<1>4. ops[m] \in Seq(Ops) /\ Len(ops[m]) \in Nat /\ Len(clist[m]) \in Nat
  BY <1>3, OpsTyped
<1>5. Decoded(r) /\ CallOk(m)
  BY <1>2, <1>3 DEF Reads, Faked, CallInv
<1>6. Used(m) = Len(ops[m])
  <2>1. PICK k, j, n, u : k = served[m] /\ j = u + 1 /\ n = Len(ops[m]) /\ u = Used(m)
    OBVIOUS
  <2>2. PICK c : c = Len(clist[m])
    OBVIOUS
  <2>3. u = n - c /\ n \in Nat /\ c \in Nat /\ c <= n /\ k \in -1..n /\ k # -1
    BY <1>1, <1>4, <1>5, <2>1, <2>2 DEF Decoded, CallOk, Used
  <2>4. j \in 1..(n + 1) /\ k \in Nat /\ u \in Nat
    BY <2>1, <2>3
  <2>5. AtOp(r, j)
    BY <1>1, <1>5, <2>1 DEF Decoded
  <2>6. CASE j # n + 1
    <3>1. j \in 1..n
      BY <2>3, <2>4, <2>6
    <3>2. r.type = Header(m, k, j).type
      BY <1>1, <2>1, <2>5, <2>6 DEF AtOp
    <3>3. Header(m, k, j).type # "done"
      <4>1. ops[m][j].kind \in Kinds
        BY <1>4, <2>1, <2>4, <3>1, PartsAreTokens
      <4> QED BY <4>1 DEF Header, Token, Kinds
    <3> QED BY <1>2, <3>2, <3>3
  <2>7. CASE j = n + 1
    BY <2>1, <2>3, <2>4, <2>7
  <2> QED BY <2>6, <2>7
<1>7. \A x : Kept(x)
  BY <1>2 DEF Kept
<1>8. TypeInv'
  <2>1. r.rc \in Codes
    BY <1>3 DEF Readings, Codes
  <2>2. /\ state' \in [Calls -> {"new", "refused", "pending", "ended"}]
        /\ result' \in [Calls -> Codes]
    BY <1>2, <2>1 DEF TypeInv
  <2>3. reader' \in [Threads -> Seq(Readings)]
    <3>1. <<>> \in Seq(Readings) /\ reader \in [Threads -> Seq(Readings)]
      BY DEF TypeInv
    <3> QED BY <1>2, <3>1
  <2> QED BY <1>2, <2>2, <2>3 DEF TypeInv
<1>9. state'[m] = "ended" /\ result'[m] = r.rc
  BY <1>2, <1>3 DEF TypeInv
<1>10. CallOk(m)'
  BY <1>2, <1>5, <1>9 DEF CallOk, Used
<1>11. EndOk(m)'
  <2>1. served[m] # -1 /\ r.rc = RightCode(served[m], Len(ops[m]) + 1)
        /\ \A i \in 1..Len(ops[m]) : IsRight(m, i)
    BY <1>1, <1>5, <1>6 DEF Decoded
  <2>2. \A i : IsRight(m, i)' <=> IsRight(m, i)
    BY <1>7, KeptSame
  <2> QED BY <1>2, <1>9, <2>1, <2>2 DEF EndOk
<1>12. \A x \in Calls : x # m => state'[x] = state[x] /\ result'[x] = result[x]
  BY <1>2 DEF TypeInv
<1>13. /\ \A u \in Threads : u # t => reader'[u] = reader[u]
       /\ reader'[t] = <<>>
  BY <1>2 DEF TypeInv
<1>14. \A x \in Readings : ~IsRead(t, x)'
  BY <1>13 DEF IsRead
<1> QED BY <1>1, <1>2, <1>3, <1>7, <1>8, <1>10, <1>11, <1>12, <1>13, <1>14, OnlyOneCall

LEMMA InToSet == \A x, s : s \in Seq(Calls) => (x \in ToSet(s) <=> Member(x, s))
BY DEF ToSet, Member

(* Every request is failed: the synchronous calls end, the replies of the      *)
(* others are faked.                                                           *)
LEMMA FailStep ==
  ASSUME MultiInv, free_completions
  PROVE  MultiInv'
<1> USE DEF MultiInv
<1>1. /\ reader["io"] = <<>>
      /\ state' = [m \in Calls |-> IF m \in ToSet(sent) \cap sync THEN "ended" ELSE state[m]]
      /\ result' = [m \in Calls |-> IF m \in ToSet(sent) \cap sync THEN Gone ELSE result[m]]
      /\ toProcess' = toProcess \o FakedReplies[Len(sent)]
      /\ sent' = <<>> /\ replies' = <<>>
      /\ UNCHANGED <<ops, sync, clist, results, served, reader, failed>>
  BY DEF free_completions
<1>2. PICK q, n, l : q = FakedReplies[Len(sent)] /\ n = Len(sent) /\ l = Len(toProcess)
  OBVIOUS
<1>3. AreFaked(q, n)
  BY <1>2, FakedRepliesAre DEF TypeInv, SentInv
<1>4. q \in Seq(Replies) /\ toProcess \in Seq(Replies) /\ sent \in Seq(Calls)
      /\ Len(q) \in Nat /\ n \in Nat /\ l \in Nat
  BY <1>2, <1>3 DEF AreFaked, TypeInv
<1>5. PICK s : s = toProcess \o q
  OBVIOUS
<1>6. /\ s \in Seq(Replies) /\ Len(s) = l + Len(q) /\ toProcess' = s
      /\ \A i \in 1..(l + Len(q)) : s[i] = IF i <= l THEN toProcess[i] ELSE q[i - l]
  BY <1>1, <1>2, <1>4, <1>5, ConcatProperties
<1>7. ASSUME NEW i \in 1..Len(s)
      PROVE  \/ i \in 1..l /\ s[i] = toProcess[i]
             \/ \E j \in 1..Len(q) : i = l + j /\ s[i] = q[j]
  <2>1. CASE i <= l
    BY <1>4, <1>6, <2>1
  <2>2. CASE ~(i <= l)
    <3>1. i - l \in 1..Len(q) /\ i = l + (i - l)
      BY <1>4, <1>6, <2>2
    <3> QED BY <1>6, <2>2, <3>1
  <2> QED BY <2>1, <2>2
<1>8. ASSUME NEW j \in 1..Len(q)
      PROVE  /\ q[j] \in Replies /\ q[j].body = <<>> /\ q[j].call \in Calls
             /\ Member(q[j].call, sent) /\ q[j].call \notin sync
  <2>1. q[j].body = <<>> /\ \E h \in 1..n : q[j].call = sent[h] /\ sent[h] \notin sync
    BY <1>3 DEF AreFaked
  <2>2. Member(q[j].call, sent) /\ q[j].call \notin sync
    BY <1>2, <2>1 DEF Member
  <2>3. q[j] \in Replies
    BY <1>4, ElementOfSeq
  <2> QED BY <2>1, <2>2, <2>3, QueueTypes
<1>9. ASSUME NEW i \in 1..l
      PROVE  toProcess[i] \in Replies /\ Waits(toProcess[i]) /\ ~Member(toProcess[i].call, sent)
  <2>1. PICK x : x = toProcess[i]
    OBVIOUS
  <2>2. x \in Replies /\ Member(x, toProcess)
    BY <1>2, <2>1, QueueTypes DEF Member
  <2>3. Waits(x)
    BY <2>2 DEF ProcessInv
  <2>4. ~Member(x.call, sent)
    BY <2>3 DEF Waits
  <2> QED BY <2>1, <2>2, <2>3, <2>4
<1>10. \A m : Kept(m)
  BY <1>1 DEF Kept
<1>11. ASSUME NEW m \in Calls
       PROVE  /\ ~(Member(m, sent) /\ m \in sync) => state'[m] = state[m] /\ result'[m] = result[m]
              /\ Member(m, sent) /\ m \in sync => state'[m] = "ended" /\ result'[m] = Gone
  BY <1>1, <1>4, InToSet
<1>12. TypeInv'
  <2>1. /\ state' \in [Calls -> {"new", "refused", "pending", "ended"}]
        /\ result' \in [Calls -> Codes]
    BY <1>1 DEF TypeInv, Codes
  <2>2. <<>> \in Seq(Calls) /\ <<>> \in Seq(Replies)
    OBVIOUS
  <2> QED BY <1>1, <1>6, <2>1, <2>2 DEF TypeInv
<1>13. CallInv'
  <2>1. ASSUME NEW m \in Calls PROVE CallOk(m)' /\ EndOk(m)'
    <3>1. CallOk(m) /\ EndOk(m)
      BY DEF CallInv
    <3>2. CASE Member(m, sent) /\ m \in sync
      <4>1. state'[m] = "ended" /\ result'[m] = Gone
        BY <1>11, <3>2
      <4> QED BY <1>1, <3>1, <4>1 DEF CallOk, EndOk, Used
    <3>3. CASE ~(Member(m, sent) /\ m \in sync)
      BY <1>10, <1>11, <3>1, <3>3, KeepsCall
    <3> QED BY <3>2, <3>3
  <2> QED BY <2>1 DEF CallInv
<1>14. SentInv'
  <2>1. Len(sent') = 0 /\ Len(replies') = 0
    BY <1>1
  <2>2. (\A x : ~Member(x, sent')) /\ \A x : ~Member(x, replies')
    BY <2>1 DEF Member
  <2> QED BY <2>1, <2>2 DEF SentInv
<1>15. \A x : ~Member(x, sent')
  BY <1>1 DEF Member
<1>16. ProcessInv'
  <2>1. ASSUME NEW i \in 1..Len(s), NEW j \in 1..Len(s), s[i].call = s[j].call PROVE i = j
    <3>1. CASE i \in 1..l /\ s[i] = toProcess[i]
      <4>1. j \in 1..l /\ s[j] = toProcess[j]
        BY <1>7, <1>8, <1>9, <2>1, <3>1
      <4> QED BY <1>2, <2>1, <3>1, <4>1 DEF ProcessInv
    <3>2. CASE \E g \in 1..Len(q) : i = l + g /\ s[i] = q[g]
      <4>1. PICK g \in 1..Len(q) : i = l + g /\ s[i] = q[g]
        BY <3>2
      <4>2. PICK h \in 1..Len(q) : j = l + h /\ s[j] = q[h]
        BY <1>7, <1>8, <1>9, <2>1, <4>1
      <4>3. g = h
        BY <1>3, <2>1, <4>1, <4>2 DEF AreFaked
      <4> QED BY <4>1, <4>2, <4>3
    <3> QED BY <1>7, <3>1, <3>2
  <2>2. ASSUME NEW x \in Replies, Member(x, s) PROVE Waits(x)'
    <3>1. PICK i \in 1..Len(s) : s[i] = x
      BY <2>2 DEF Member
    <3>2. CASE i \in 1..l /\ s[i] = toProcess[i]
      <4>1. Waits(x) /\ x.call \in Calls /\ ~Member(x.call, sent)
        BY <1>9, <3>1, <3>2, QueueTypes
      <4>2. state'[x.call] = state[x.call]
        BY <1>11, <4>1
      <4> QED BY <1>1, <1>10, <1>15, <4>1, <4>2, KeepsReply DEF Waits
    <3>3. CASE \E g \in 1..Len(q) : s[i] = q[g]
      <4>1. x.body = <<>> /\ x.call \in Calls /\ Member(x.call, sent) /\ x.call \notin sync
        BY <1>8, <3>1, <3>3
      <4>2. state'[x.call] = "pending" /\ Full(x.call)
        BY <1>11, <4>1 DEF SentInv
      <4>3. Full(x.call)'
        BY <1>10, <4>2, KeptSame
      <4> QED BY <1>1, <1>15, <4>1, <4>2, <4>3 DEF Waits
    <3> QED BY <1>7, <3>2, <3>3
  <2> QED BY <1>6, <2>1, <2>2 DEF ProcessInv
<1>17. ReaderInv'
  <2>1. ASSUME NEW t \in Threads, NEW r \in Readings, IsRead(t, r)' PROVE Reads(t, r)'
    <3>1. IsRead(t, r) /\ t # "io"
      BY <1>1, <2>1 DEF IsRead
    <3>2. Reads(t, r) /\ r.call \in Calls /\ r.call \notin sync /\ ~Member(r.call, sent)
      BY <3>1, QueueTypes DEF ReaderInv, Reads
    <3>3. state'[r.call] = state[r.call]
      BY <1>11, <3>2
    <3>4. ASSUME NEW y \in Replies, Member(y, toProcess') PROVE y.call # r.call
      <4>1. PICK i \in 1..Len(s) : s[i] = y
        BY <1>6, <3>4 DEF Member
      <4>2. CASE i \in 1..l /\ s[i] = toProcess[i]
        BY <1>2, <3>2, <3>4, <4>1, <4>2 DEF Reads, ToProcess, Member
      <4>3. CASE \E g \in 1..Len(q) : s[i] = q[g]
        BY <1>8, <3>2, <4>1, <4>3
      <4> QED BY <1>7, <4>2, <4>3
    <3> QED BY <1>1, <1>10, <1>15, <3>2, <3>3, <3>4, KeepsReading
  <2> QED BY <2>1 DEF ReaderInv
<1> QED BY <1>12, <1>13, <1>14, <1>16, <1>17

LEMMA StepOk == MultiInv /\ [Next]_vars => MultiInv'
<1> SUFFICES ASSUME MultiInv, [Next]_vars PROVE MultiInv'
  OBVIOUS
<1>1. ASSUME NEW m \in Calls, zoo_amulti(m) PROVE MultiInv'
  BY <1>1, MakeStep
<1>2. ASSUME NEW t \in Threads, DecodeOne(t) \/ NoEntryLeft(t) \/ End(t) PROVE MultiInv'
  <2>1. CASE NoEntryLeft(t)
    BY <2>1, Stutter DEF NoEntryLeft
  <2> QED BY <1>2, <2>1, DecodeStep, EndStep
<1>3. CASE UNCHANGED vars
  BY <1>3, Stutter DEF vars, MultiInv, TypeInv
<1> QED BY <1>1, <1>2, <1>3, ServerStep, IoReplyStep, TakesStep, FailStep DEF Next

LEMMA Always == Spec => []MultiInv
BY InitOk, StepOk, PTL DEF Spec

-------------------------------------------------------------------------------
(* What the invariant means                                                    *)

(* What is left of the body is what the server wrote after the header read.    *)
LEMMA RestOfBody ==
  ASSUME MultiInv, NEW r, r \in Readings, Decoded(r), NEW j, j = Used(r.call) + 1
  PROVE  \/ r.type = "done" /\ clist[r.call] = <<>> /\ r.body = <<>>
         \/ /\ r.type \notin {"done", ""} /\ clist[r.call] # <<>>
            /\ r.body = Tail(BodyFrom(r.call, served[r.call], j))
<1> USE DEF MultiInv
<1>1. PICK m, k, n, c : m = r.call /\ k = served[m] /\ n = Len(ops[m]) /\ c = Len(clist[m])
  OBVIOUS
<1>2. m \in Calls /\ clist[m] \in Seq(Entries) /\ ops[m] \in Seq(Ops) /\ n \in Nat /\ c \in Nat
  BY <1>1, QueueTypes, OpsTyped DEF TypeInv
<1>3. c <= n /\ k \in -1..n /\ k # -1 /\ AtOp(r, j)
  BY <1>1, <1>2 DEF CallInv, CallOk, Decoded
<1>4. j = (n - c) + 1
  BY <1>1 DEF Used
<1>5. k \in Nat /\ j \in 1..(n + 1) /\ (j = n + 1 <=> c = 0)
  BY <1>2, <1>3, <1>4
<1>6. CASE j = n + 1
  <2>1. clist[m] = <<>>
    BY <1>1, <1>2, <1>5, <1>6, EmptySeq
  <2> QED BY <1>1, <1>3, <1>6, <2>1 DEF AtOp
<1>7. CASE j # n + 1
  <2>1. PICK i : i = j + 1
    OBVIOUS
  <2>2. j \in 1..n /\ i \in 1..(n + 1) /\ j <= n
    BY <1>2, <1>5, <1>7, <2>1
  <2>3. r.type = Header(m, k, j).type /\ r.body = Join(Payload(m, k, j), BodyFrom(m, k, i))
    BY <1>1, <1>3, <1>7, <2>1 DEF AtOp
  <2>4. PICK h, b : h = Header(m, k, j) /\ b = Join(Payload(m, k, j), BodyFrom(m, k, i))
    OBVIOUS
  <2>5. BodyFrom(m, k, j) = Join(<<h>>, b) /\ BodyFrom(m, k, i) \in Seq(Tokens)
    <3>1. BodyFrom(m, k, j) = Join(<<h>>, b)
      BY <1>1, <1>2, <1>5, <2>1, <2>2, <2>4, BodyUnfolds
    <3>2. BodyFrom(m, k, i) \in Seq(Tokens)
      BY <1>1, <1>2, <1>5, <2>2, BodyUnfolds
    <3> QED BY <3>1, <3>2
  <2>6. ops[m][j].kind \in Kinds /\ h \in Tokens /\ Payload(m, k, j) \in Seq(Tokens)
    BY <1>1, <1>2, <1>5, <2>2, <2>4, PartsAreTokens
  <2>7. b \in Seq(Tokens)
    BY <2>4, <2>5, <2>6, ConcatProperties DEF Join
  <2>8. Tail(BodyFrom(m, k, j)) = b
    BY <2>5, <2>6, <2>7, JoinOne
  <2>9. h.type \notin {"done", ""}
    BY <2>4, <2>6 DEF Header, Token, Kinds
  <2>10. clist[m] # <<>>
    BY <1>1, <1>5, <1>7
  <2> QED BY <1>1, <2>3, <2>4, <2>8, <2>9, <2>10
<1> QED BY <1>6, <1>7

LEMMA StepMeans == MultiInv => InStep
<1> SUFFICES ASSUME MultiInv PROVE InStep
  OBVIOUS
<1> USE DEF MultiInv
<1>1. TypeOK
  <2>1. ToSet(sent) \subseteq {m \in Calls : state[m] = "pending"}
    <3>1. ASSUME NEW m, m \in ToSet(sent) PROVE m \in Calls /\ state[m] = "pending"
      <4>1. Member(m, sent)
        BY <3>1, InToSet DEF TypeInv
      <4>2. m \in Calls
        BY <4>1, QueueTypes DEF Member
      <4> QED BY <4>1, <4>2 DEF SentInv
    <3> QED BY <3>1
  <2>2. \A m \in Calls : Len(clist[m]) <= Len(ops[m]) /\ Len(results[m]) = Len(ops[m])
    BY DEF CallInv, CallOk
  <2> QED BY <2>1, <2>2 DEF TypeOK, TypeInv, Codes
<1>2. ASSUME NEW t \in Threads, reader[t] # <<>>, NEW r, r = reader[t][1],
             NEW j, j = Len(ops[r.call]) - Len(clist[r.call]) + 1
      PROVE  \/ r.type = "done" /\ clist[r.call] = <<>> /\ r.body = <<>>
             \/ r.type \notin {"done", ""} /\ clist[r.call] # <<>>
                  /\ r.body = Tail(BodyFrom(r.call, served[r.call], j))
             \/ r.type = "" /\ r.body = <<>>
  <2>1. r \in Readings /\ Reads(t, r) /\ j = Used(r.call) + 1
    BY <1>2, QueueTypes DEF ReaderInv, IsRead, Used
  <2> QED BY <2>1, RestOfBody DEF Reads, Faked
<1> QED BY <1>1, <1>2 DEF InStep

LEMMA ResultsMean == MultiInv => ResultsAreTheServers
<1> SUFFICES ASSUME MultiInv PROVE ResultsAreTheServers
  OBVIOUS
<1> USE DEF MultiInv
<1>1. ASSUME NEW m \in Calls, state[m] = "refused" PROVE m \notin ToSet(sent) /\ served[m] = -1
  <2>1. ~Member(m, sent)
    BY <1>1 DEF SentInv
  <2>2. m \notin ToSet(sent)
    BY <2>1, InToSet DEF TypeInv
  <2> QED BY <1>1, <2>2 DEF CallInv, CallOk
<1>2. ASSUME NEW m \in Calls, state[m] = "ended", result[m] # Gone
      PROVE  /\ served[m] # -1
             /\ result[m] = (IF served[m] = 0 THEN Ok ELSE Refused)
             /\ \A i \in DOMAIN ops[m] :
                  /\ results[m][i].err = ServerError(served[m], i)
                  /\ results[m][i].value =
                       (CASE served[m] = 0 /\ ops[m][i].kind = "create" -> "path"
                          [] served[m] = 0 /\ ops[m][i].kind = "set"    -> "stat"
                          [] OTHER                                      -> "none")
  <2>1. PICK k, n : k = served[m] /\ n = Len(ops[m])
    OBVIOUS
  <2>2. k # -1 /\ result[m] = RightCode(k, n + 1) /\ \A i \in 1..n : IsRight(m, i)
    BY <1>2, <2>1 DEF CallInv, EndOk
  <2>3. n \in Nat /\ DOMAIN ops[m] = 1..n /\ k \in -1..n
    BY <2>1, OpsTyped DEF CallInv, CallOk
  <2>4. k < n + 1
    BY <2>3
  <2>5. result[m] = (IF k = 0 THEN Ok ELSE Refused)
    BY <2>2, <2>4 DEF RightCode
  <2>6. ASSUME NEW i \in 1..n
        PROVE  results[m][i].err = ServerError(k, i) /\ results[m][i].value = RightValue(m, k, i)
    <3>1. PICK a, b : a = ServerError(k, i) /\ b = RightValue(m, k, i)
      OBVIOUS
    <3>2. results[m][i] = [err |-> a, value |-> b]
      BY <2>1, <2>2, <3>1 DEF IsRight
    <3> QED BY <3>1, <3>2
  <2> QED BY <2>1, <2>2, <2>3, <2>5, <2>6 DEF RightValue
<1> QED BY <1>1, <1>2 DEF ResultsAreTheServers

LEMMA FinalStep ==
  ASSUME MultiInv, MultiInv', [Next]_vars, NEW m \in Calls, state[m] = "ended"
  PROVE  /\ state'[m] = "ended" /\ result'[m] = result[m] /\ results'[m] = results[m]
         /\ \A t \in Threads : reader'[t] # <<>> => reader'[t][1].call # m
<1>1. state'[m] = "ended" /\ result'[m] = result[m] /\ results'[m] = results[m]
  <2>1. ASSUME NEW t \in Threads, reader[t] # <<>>
        PROVE  reader[t][1].call # m
    <3>1. PICK r : r = reader[t][1]
      OBVIOUS
    <3>2. r \in Readings /\ IsRead(t, r)
      BY <2>1, <3>1, QueueTypes DEF MultiInv, IsRead
    <3>3. state[r.call] = "pending"
      BY <3>2 DEF MultiInv, ReaderInv, Reads
    <3> QED BY <3>1, <3>3
  <2>2. m \notin ToSet(sent)
    <3>1. ~Member(m, sent)
      BY DEF MultiInv, SentInv
    <3> QED BY <3>1, InToSet DEF MultiInv, TypeInv
  <2>3. /\ DOMAIN state = Calls /\ DOMAIN result = Calls /\ DOMAIN results = Calls
    BY DEF MultiInv, TypeInv
  <2>4. ASSUME NEW x \in Calls, zoo_amulti(x)
        PROVE  state'[m] = state[m] /\ result'[m] = result[m] /\ results'[m] = results[m]
    <3>1. x # m
      BY <2>4 DEF zoo_amulti
    <3> QED BY <2>3, <2>4, <3>1 DEF zoo_amulti
  <2>5. CASE free_completions
    BY <2>2, <2>5 DEF free_completions
  <2>6. ASSUME NEW t \in Threads, DecodeOne(t) \/ NoEntryLeft(t) \/ End(t)
        PROVE  state'[m] = state[m] /\ result'[m] = result[m] /\ results'[m] = results[m]
    <3>1. CASE DecodeOne(t)
      <4>1. PICK x, i, o : x = reader[t][1].call /\ results' = [results EXCEPT ![x][i] = o]
        BY <3>1 DEF DecodeOne
      <4> QED BY <2>1, <2>3, <3>1, <4>1 DEF DecodeOne
    <3>2. CASE End(t)
      BY <2>1, <2>3, <3>2 DEF End
    <3> QED BY <2>6, <3>1, <3>2 DEF NoEntryLeft
  <2> QED BY <2>4, <2>5, <2>6 DEF Next, vars, ServerAnswers, IoReply, CompletionTakes
<1>2. ASSUME NEW t \in Threads, reader'[t] # <<>> PROVE reader'[t][1].call # m
  <2>1. PICK r : r = reader'[t][1]
    OBVIOUS
  <2>2. reader'[t] \in Seq(Readings)
    BY DEF MultiInv, TypeInv
  <2>3. r \in Readings
    BY <1>2, <2>1, <2>2, ElementOfSeq
  <2>4. state'[r.call] = "pending"
    BY <1>2, <2>1, <2>3 DEF MultiInv, ReaderInv, IsRead, Reads
  <2> QED BY <1>1, <2>1, <2>4
<1> QED BY <1>1, <1>2

-------------------------------------------------------------------------------
(* The theorems                                                                *)

(* For any calls, requests and number of lost connections: whatever            *)
(* deserialize_multi has left of the reply is what the server wrote for the    *)
(* completion entries it has left, down to the header that says done.          *)
THEOREM StaysInStep == Spec => []InStep
BY Always, StepMeans, PTL

(* A call that ends with a code of the server reports what the server did of   *)
(* its transaction, for each of its operations; one that zoo_amulti refused    *)
(* never reaches the server.                                                   *)
THEOREM ReportsTheServer == Spec => []ResultsAreTheServers
BY Always, ResultsMean, PTL

(* Once zoo_multi returned or the completion was called, nothing writes the    *)
(* results or the code of the call again, and no thread decodes its reply.     *)
THEOREM ResultsAreFinal == Spec => EndedIsFinal
<1>1. MultiInv /\ MultiInv' /\ [Next]_vars =>
        [\A m \in Calls : state[m] = "ended" =>
           /\ state'[m] = "ended" /\ result'[m] = result[m] /\ results'[m] = results[m]
           /\ \A t \in Threads : reader'[t] # <<>> => reader'[t][1].call # m]_vars
  BY FinalStep
<1> QED BY <1>1, Always, PTL DEF Spec, EndedIsFinal

================================================================================
