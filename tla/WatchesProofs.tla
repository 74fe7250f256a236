--------------------------- MODULE WatchesProofs ---------------------------
(***************************************************************************)
(* For any paths, watchers, hash function and table sizes, and any number  *)
(* of reads, changes and reconnects: no watch is lost, none misses a       *)
(* change, an event calls only those who were set before it, and each of   *)
(* them once.                                                              *)
(*                                                                         *)
(* The lemmas on sequences and hash tables come first; the invariant (see  *)
(* "The inductive invariant") speaks of the tables through them, as maps   *)
(* from paths to lists.  Its heart is RegistrationInv: what is promised of *)
(* a watcher in a table has to be promised of every reply on its way that  *)
(* will put one there, relative to the events behind that reply.           *)
(***************************************************************************)
EXTENDS Watches, FiniteSetTheorems, SequenceTheorems, WellFoundedInduction, TLAPS


-----------------------------------------------------------------------------
(* Numbers, recursive functions, sequences                                 *)

(* Induction over sets of numbers; recursive functions exist.              *)

(* Every non-empty set of numbers has a least one.                         *)
LEMMA LeastNumber ==
    ASSUME NEW T \in SUBSET Nat, T # {}
    PROVE  \E x \in T : \A y \in T : x <= y
<1> DEFINE less == {p \in Nat \X Nat : p[1] < p[2]}
<1>1. IsWellFoundedOn(less, Nat)
    BY NatLessThanWellFounded DEF OpToRel
<1>2. PICK x \in T : \A y \in T : <<y, x>> \notin less
    <2> HIDE DEF less
    <2> QED
        BY <1>1, WFMin
<1>3. ASSUME NEW y \in T PROVE x <= y
    <2>1. x \in Nat /\ y \in Nat
        OBVIOUS
    <2>2. y < x => <<y, x>> \in less
        BY <2>1
    <2> HIDE DEF less
    <2>3. ~(y < x)
        BY <1>2, <2>2
    <2> QED
        BY <2>1, <2>3
<1> QED
    BY <1>3

(* Induction, for a set rather than a predicate.                           *)
LEMMA Induction ==
    ASSUME NEW S, 0 \in S, \A n \in Nat : n \in S => n + 1 \in S
    PROVE  Nat \subseteq S
<1> SUFFICES ASSUME Nat \ S # {} PROVE FALSE
    OBVIOUS
<1>1. PICK x \in Nat \ S : \A y \in Nat \ S : x <= y
    BY LeastNumber
<1>2. x # 0 /\ x - 1 \in Nat
    BY <1>1
<1>3. x - 1 \in S
    BY <1>1, <1>2
<1>4. (x - 1) + 1 \in S
    BY <1>2, <1>3
<1> QED
    BY <1>1, <1>4

(* Up to a bound.                                                          *)
LEMMA InductionTo ==
    ASSUME NEW k \in Nat, NEW S, 0 \in S,
           \A n \in 0..(k - 1) : n \in S => n + 1 \in S
    PROVE  0..k \subseteq S
<1> DEFINE T == {n \in Nat : n <= k => n \in S}
<1>1. ASSUME NEW n \in Nat, n \in T PROVE n + 1 \in T
    BY <1>1
<1>2. 0 \in T
    OBVIOUS
<1>3. Nat \subseteq T
    <2> HIDE DEF T
    <2> QED
        BY <1>1, <1>2, Induction
<1> QED
    BY <1>3

(* A sequence of values, each made of the one before, exists.              *)
Stages(f, D, d0, step, n) ==
    f \in [0..n -> D] /\ f[0] = d0
    /\ \A i \in 1..n : f[i] = step[<<i, f[i - 1]>>]

LEMMA Recursion ==
    ASSUME NEW D, NEW d0, d0 \in D, NEW k \in Nat, NEW step,
           \A i \in Nat : \A d \in D : step[<<i, d>>] \in D
    PROVE  \E f : Stages(f, D, d0, step, k)
<1> DEFINE Good(n, f) == f[0] = d0 /\ \A i \in 1..n : f[i] = step[<<i, f[i - 1]>>]
           S == {n \in Nat : \E f \in [0..n -> D] : Good(n, f)}
<1>1. 0 \in S
    <2>1. [i \in 0..0 |-> d0] \in [0..0 -> D] /\ Good(0, [i \in 0..0 |-> d0])
        OBVIOUS
    <2> QED
        BY <2>1
<1>2. ASSUME NEW n \in Nat, n \in S PROVE n + 1 \in S
    <2>1. PICK f \in [0..n -> D] : Good(n, f)
        BY <1>2
    <2> DEFINE g == [i \in 0..(n + 1) |-> IF i = n + 1 THEN step[<<n + 1, f[n]>>]
                                          ELSE f[i]]
    <2>2. g \in [0..(n + 1) -> D]
        <3>1. ASSUME NEW i \in 0..(n + 1) PROVE g[i] \in D
            BY n + 1 \in Nat, f[n] \in D
        <3> QED
            BY <3>1
    <2>3. g[0] = d0
        BY <2>1
    <2>4. ASSUME NEW i \in 1..(n + 1) PROVE g[i] = step[<<i, g[i - 1]>>]
        <3>1. CASE i = n + 1
            <4>1. g[i] = step[<<n + 1, f[n]>>] /\ i - 1 = n /\ g[n] = f[n]
                BY <3>1
            <4> QED
                BY <3>1, <4>1
        <3>2. CASE i \in 1..n
            <4>1. g[i] = f[i] /\ g[i - 1] = f[i - 1]
                BY <3>2
            <4>2. f[i] = step[<<i, f[i - 1]>>]
                BY <2>1, <3>2
            <4> QED
                BY <4>1, <4>2
        <3> QED
            BY <3>1, <3>2
    <2>5. Good(n + 1, g)
        BY <2>3, <2>4
    <2> HIDE DEF Good, g
    <2> QED
        BY <2>2, <2>5
<1>3. Nat \subseteq S
    <2> HIDE DEF S
    <2> QED
        BY <1>1, <1>2, Induction
<1>4. PICK f \in [0..k -> D] : Good(k, f)
    BY <1>3
<1>5. Stages(f, D, d0, step, k)
    BY <1>4 DEF Stages
<1> QED
    BY <1>5

-----------------------------------------------------------------------------
(* Lists of watchers                                                       *)

NoRepeat(l) == \A i, j \in DOMAIN l : l[i] = l[j] => i = j

(* A list with one more in front.                                          *)
LEMMA ConsFacts ==
    ASSUME NEW S, NEW e \in S, NEW s \in Seq(S)
    PROVE  /\ Cons(e, s) \in Seq(S) /\ Len(Cons(e, s)) = Len(s) + 1
           /\ DOMAIN Cons(e, s) = 1..(Len(s) + 1)
           /\ Cons(e, s)[1] = e
           /\ \A i \in 1..Len(s) : Cons(e, s)[i + 1] = s[i]
           /\ \A i \in 2..(Len(s) + 1) : Cons(e, s)[i] = s[i - 1]
           /\ Cons(e, s) # <<>>
<1>1. PICK u : u = <<e>>
    OBVIOUS
<1>2. u \in Seq(S) /\ Len(u) = 1 /\ u[1] = e
    BY <1>1
<1>3. PICK v : v = u \o s
    OBVIOUS
<1>4. v \in Seq(S) /\ Len(v) = 1 + Len(s) /\ Len(s) \in Nat
    BY <1>2, <1>3, ConcatProperties
<1>5. \A i \in 1..(1 + Len(s)) : v[i] = IF i <= Len(u) THEN u[i] ELSE s[i - Len(u)]
    BY <1>2, <1>3, ConcatProperties
<1>6. v[1] = e
    <2>1. 1 \in 1..(1 + Len(s)) /\ 1 <= Len(u)
        BY <1>2, <1>4
    <2> QED
        BY <1>2, <1>5, <2>1
<1>7. ASSUME NEW i \in 2..(Len(s) + 1) PROVE v[i] = s[i - 1]
    <2>1. i \in 1..(1 + Len(s)) /\ ~(i <= Len(u)) /\ i - Len(u) = i - 1
        BY <1>2, <1>4
    <2> QED
        BY <1>5, <2>1
<1>8. ASSUME NEW i \in 1..Len(s) PROVE v[i + 1] = s[i]
    <2>1. i + 1 \in 2..(Len(s) + 1) /\ (i + 1) - 1 = i
        BY <1>4
    <2> QED
        BY <1>7, <2>1
<1>9. DOMAIN v = 1..(Len(s) + 1) /\ v # <<>> /\ Len(v) = Len(s) + 1
    BY <1>4
<1>10. Cons(e, s) = v
    BY <1>1, <1>3 DEF Cons
<1> QED
    BY <1>4, <1>6, <1>7, <1>8, <1>9, <1>10

LEMMA ConsSet ==
    ASSUME NEW S, NEW e \in S, NEW s \in Seq(S)
    PROVE  ToSet(Cons(e, s)) = {e} \cup ToSet(s)
<1>1. PICK u : u = Cons(e, s)
    OBVIOUS
<1>2. /\ DOMAIN u = 1..(Len(s) + 1) /\ u[1] = e /\ DOMAIN s = 1..Len(s)
      /\ \A i \in 1..Len(s) : u[i + 1] = s[i]
      /\ \A i \in 2..(Len(s) + 1) : u[i] = s[i - 1]
    <2>1. DOMAIN s = 1..Len(s)
        OBVIOUS
    <2>2. DOMAIN Cons(e, s) = 1..(Len(s) + 1) /\ Cons(e, s)[1] = e
        BY ConsFacts
    <2>3. \A i \in 1..Len(s) : Cons(e, s)[i + 1] = s[i]
        BY ConsFacts
    <2>4. \A i \in 2..(Len(s) + 1) : Cons(e, s)[i] = s[i - 1]
        BY ConsFacts
    <2> QED
        BY <1>1, <2>1, <2>2, <2>3, <2>4
<1>3. Len(s) \in Nat
    OBVIOUS
<1>4. ASSUME NEW x \in ToSet(u) PROVE x \in {e} \cup ToSet(s)
    <2>1. PICK i \in 1..(Len(s) + 1) : x = u[i]
        BY <1>2 DEF ToSet
    <2>2. CASE i = 1
        BY <1>2, <2>1, <2>2
    <2>3. CASE i # 1
        <3>1. i \in 2..(Len(s) + 1) /\ i - 1 \in DOMAIN s
            BY <1>2, <2>1, <2>3
        <3> QED
            BY <1>2, <2>1, <3>1 DEF ToSet
    <2> QED
        BY <2>2, <2>3
<1>5. ASSUME NEW x \in {e} \cup ToSet(s) PROVE x \in ToSet(u)
    <2>1. CASE x = e
        <3>1. 1 \in DOMAIN u
            BY <1>2, <1>3
        <3> QED
            BY <1>2, <2>1, <3>1 DEF ToSet
    <2>2. CASE x \in ToSet(s)
        <3>1. PICK i \in 1..Len(s) : x = s[i]
            BY <1>2, <2>2 DEF ToSet
        <3>2. i + 1 \in DOMAIN u
            BY <1>2, <1>3
        <3> QED
            BY <1>2, <3>1, <3>2 DEF ToSet
    <2> QED
        BY <2>1, <2>2
<1> QED
    BY <1>1, <1>4, <1>5

LEMMA ConsNoRepeat ==
    ASSUME NEW S, NEW e \in S, NEW s \in Seq(S), NoRepeat(s), e \notin ToSet(s)
    PROVE  NoRepeat(Cons(e, s))
<1>1. PICK u : u = Cons(e, s)
    OBVIOUS
<1>2. /\ DOMAIN u = 1..(Len(s) + 1) /\ u[1] = e /\ DOMAIN s = 1..Len(s)
      /\ \A i \in 2..(Len(s) + 1) : u[i] = s[i - 1]
    <2>1. DOMAIN s = 1..Len(s)
        OBVIOUS
    <2>2. DOMAIN Cons(e, s) = 1..(Len(s) + 1) /\ Cons(e, s)[1] = e
        BY ConsFacts
    <2>3. \A i \in 1..Len(s) : Cons(e, s)[i + 1] = s[i]
        BY ConsFacts
    <2>4. \A i \in 2..(Len(s) + 1) : Cons(e, s)[i] = s[i - 1]
        BY ConsFacts
    <2> QED
        BY <1>1, <2>1, <2>2, <2>3, <2>4
<1>3. Len(s) \in Nat
    OBVIOUS
<1>4. ASSUME NEW i \in DOMAIN u, i # 1
      PROVE  i - 1 \in DOMAIN s /\ u[i] = s[i - 1] /\ u[i] # e
    BY <1>2, <1>3, <1>4 DEF ToSet
<1>5. ASSUME NEW i \in DOMAIN u, NEW j \in DOMAIN u, u[i] = u[j] PROVE i = j
    <2>1. CASE i = 1 \/ j = 1
        BY <1>2, <1>4, <1>5, <2>1
    <2>2. CASE i # 1 /\ j # 1
        <3>1. i - 1 = j - 1
            BY <1>4, <1>5, <2>2 DEF NoRepeat
        <3> QED
            BY <1>2, <3>1
    <2> QED
        BY <2>1, <2>2
<1> QED
    BY <1>1, <1>5 DEF NoRepeat

LEMMA AddFacts ==
    ASSUME NEW S, NEW w \in S, NEW l \in Seq(S)
    PROVE  /\ add_to_list(l, w) \in Seq(S) /\ add_to_list(l, w) # <<>>
           /\ ToSet(add_to_list(l, w)) = ToSet(l) \cup {w}
           /\ NoRepeat(l) => NoRepeat(add_to_list(l, w))
<1>1. CASE w \in ToSet(l)
    <2>1. l # <<>>
        BY <1>1 DEF ToSet
    <2> QED
        BY <1>1, <2>1 DEF add_to_list
<1>2. CASE w \notin ToSet(l)
    <2>1. add_to_list(l, w) = Cons(w, l)
        BY <1>2 DEF add_to_list, Cons
    <2>2. Cons(w, l) \in Seq(S) /\ Cons(w, l) # <<>>
        BY ConsFacts
    <2>3. ToSet(Cons(w, l)) = ToSet(l) \cup {w}
        BY ConsSet
    <2>4. NoRepeat(l) => NoRepeat(Cons(w, l))
        BY <1>2, ConsNoRepeat
    <2> QED
        BY <2>1, <2>2, <2>3, <2>4
<1> QED
    BY <1>1, <1>2

(* copy_watchers adds each watcher of a list that is not there yet.        *)
LEMMA CopyFacts ==
    ASSUME NEW S, NEW from \in Seq(S), NEW to \in Seq(S)
    PROVE  /\ copy_watchers(from, to) \in Seq(S)
           /\ ToSet(copy_watchers(from, to)) = ToSet(from) \cup ToSet(to)
           /\ NoRepeat(to) => NoRepeat(copy_watchers(from, to))
<1>1. PICK n \in Nat : n = Len(from)
    OBVIOUS
<1>2. from \in [1..n -> S]
    BY <1>1
<1> DEFINE Is(f) == f = [i \in 0..n |-> IF i = 0 THEN to
                                        ELSE add_to_list(f[i - 1], from[i])]
           step == [p \in Nat \X Seq(S) |-> IF p[1] \in 1..n
                                            THEN add_to_list(p[2], from[p[1]])
                                            ELSE p[2]]
<1>3. ASSUME NEW i \in Nat, NEW d \in Seq(S)
      PROVE  /\ step[<<i, d>>] \in Seq(S)
             /\ i \in 1..n => step[<<i, d>>] = add_to_list(d, from[i])
    <2>1. step[<<i, d>>] = IF i \in 1..n THEN add_to_list(d, from[i]) ELSE d
        OBVIOUS
    <2>2. i \in 1..n => from[i] \in S
        BY <1>2
    <2> HIDE DEF step
    <2> QED
        BY <2>1, <2>2, AddFacts
<1> HIDE DEF step
<1>4. PICK g : Stages(g, Seq(S), to, step, n)
    BY <1>3, Recursion
<1>5. Is(g)
    <2>1. \A i \in 1..n : i \in Nat /\ i - 1 \in 0..n
        OBVIOUS
    <2>2. \A i \in 1..n : g[i] = add_to_list(g[i - 1], from[i])
        BY <1>3, <1>4, <2>1 DEF Stages
    <2>3. g = [i \in 0..n |-> g[i]] /\ g[0] = to
        BY <1>4 DEF Stages
    <2>4. ASSUME NEW i \in 0..n
          PROVE  g[i] = IF i = 0 THEN to ELSE add_to_list(g[i - 1], from[i])
        <3>1. i = 0 \/ i \in 1..n
            OBVIOUS
        <3> QED
            BY <2>2, <2>3, <3>1
    <2> QED
        BY <2>3, <2>4
<1> DEFINE f == CHOOSE f : Is(f)
<1>6. Is(f)
    <2> HIDE DEF Is
    <2> QED
        BY <1>5
<1>7. copy_watchers(from, to) = f[n]
    BY <1>1 DEF copy_watchers
<1> HIDE DEF f
<1>8. f[0] = to /\ \A i \in 1..n : f[i] = add_to_list(f[i - 1], from[i])
    BY <1>6
<1> DEFINE Upto(i) == {from[j] : j \in 1..i}
           Copied(i) == /\ f[i] \in Seq(S) /\ ToSet(f[i]) = Upto(i) \cup ToSet(to)
                        /\ NoRepeat(to) => NoRepeat(f[i])
           T == {i \in 0..n : Copied(i)}
<1>9. 0 \in T
    BY <1>8
<1>10. ASSUME NEW i \in 0..(n - 1), i \in T PROVE i + 1 \in T
    <2>1. i + 1 \in 1..n /\ (i + 1) - 1 = i
        OBVIOUS
    <2>2. f[i + 1] = add_to_list(f[i], from[i + 1]) /\ from[i + 1] \in S
        BY <1>2, <1>8, <2>1
    <2>3. Upto(i + 1) = Upto(i) \cup {from[i + 1]}
        OBVIOUS
    <2>4. Copied(i)
        BY <1>10
    <2> HIDE DEF Upto
    <2>5. Copied(i + 1)
        BY <2>2, <2>3, <2>4, AddFacts
    <2> QED
        BY <2>1, <2>5
<1>11. n \in T
    <2> HIDE DEF T
    <2>1. 0..n \subseteq T
        BY <1>9, <1>10, InductionTo
    <2>2. n \in 0..n
        OBVIOUS
    <2> QED
        BY <2>1, <2>2
<1>12. Upto(n) = ToSet(from)
    BY <1>2 DEF ToSet
<1> HIDE DEF Upto
<1> QED
    BY <1>7, <1>11, <1>12

LEMMA CopyListsFacts ==
    ASSUME NEW S, NEW lists \in Seq(Seq(S)), NEW to \in Seq(S)
    PROVE  /\ copy_lists(lists, to) \in Seq(S)
           /\ ToSet(copy_lists(lists, to))
                = (UNION {ToSet(lists[i]) : i \in DOMAIN lists}) \cup ToSet(to)
           /\ NoRepeat(to) => NoRepeat(copy_lists(lists, to))
<1>1. PICK n \in Nat : n = Len(lists)
    OBVIOUS
<1>2. lists \in [1..n -> Seq(S)]
    BY <1>1
<1> DEFINE Is(f) == f = [i \in 0..n |-> IF i = 0 THEN to
                                        ELSE copy_watchers(lists[i], f[i - 1])]
           step == [p \in Nat \X Seq(S) |-> IF p[1] \in 1..n
                                            THEN copy_watchers(lists[p[1]], p[2])
                                            ELSE p[2]]
<1>3. ASSUME NEW i \in Nat, NEW d \in Seq(S)
      PROVE  /\ step[<<i, d>>] \in Seq(S)
             /\ i \in 1..n => step[<<i, d>>] = copy_watchers(lists[i], d)
    <2>1. step[<<i, d>>] = IF i \in 1..n THEN copy_watchers(lists[i], d) ELSE d
        OBVIOUS
    <2>2. i \in 1..n => lists[i] \in Seq(S)
        BY <1>2
    <2> HIDE DEF step
    <2> QED
        BY <2>1, <2>2, CopyFacts
<1> HIDE DEF step
<1>4. PICK g : Stages(g, Seq(S), to, step, n)
    BY <1>3, Recursion
<1>5. Is(g)
    <2>1. \A i \in 1..n : i \in Nat /\ i - 1 \in 0..n
        OBVIOUS
    <2>2. \A i \in 1..n : g[i] = copy_watchers(lists[i], g[i - 1])
        BY <1>3, <1>4, <2>1 DEF Stages
    <2>3. g = [i \in 0..n |-> g[i]] /\ g[0] = to
        BY <1>4 DEF Stages
    <2>4. ASSUME NEW i \in 0..n
          PROVE  g[i] = IF i = 0 THEN to ELSE copy_watchers(lists[i], g[i - 1])
        <3>1. i = 0 \/ i \in 1..n
            OBVIOUS
        <3> QED
            BY <2>2, <2>3, <3>1
    <2> QED
        BY <2>3, <2>4
<1> DEFINE f == CHOOSE f : Is(f)
<1>6. Is(f)
    <2> HIDE DEF Is
    <2> QED
        BY <1>5
<1>7. copy_lists(lists, to) = f[n]
    BY <1>1 DEF copy_lists
<1> HIDE DEF f
<1>8. f[0] = to /\ \A i \in 1..n : f[i] = copy_watchers(lists[i], f[i - 1])
    BY <1>6
<1> DEFINE Upto(i) == UNION {ToSet(lists[j]) : j \in 1..i}
           Copied(i) == /\ f[i] \in Seq(S) /\ ToSet(f[i]) = Upto(i) \cup ToSet(to)
                        /\ NoRepeat(to) => NoRepeat(f[i])
           T == {i \in 0..n : Copied(i)}
<1>9. 0 \in T
    BY <1>8
<1>10. ASSUME NEW i \in 0..(n - 1), i \in T PROVE i + 1 \in T
    <2>1. i + 1 \in 1..n /\ (i + 1) - 1 = i
        OBVIOUS
    <2>2. f[i + 1] = copy_watchers(lists[i + 1], f[i]) /\ lists[i + 1] \in Seq(S)
        BY <1>2, <1>8, <2>1
    <2>3. Upto(i + 1) = Upto(i) \cup ToSet(lists[i + 1])
        <3>1. 1..(i + 1) = 1..i \cup {i + 1}
            OBVIOUS
        <3> QED
            BY <3>1
    <2>4. Copied(i)
        BY <1>10
    <2> HIDE DEF Upto
    <2>5. Copied(i + 1)
        BY <2>2, <2>3, <2>4, CopyFacts
    <2> QED
        BY <2>1, <2>5
<1>11. n \in T
    <2> HIDE DEF T
    <2>1. 0..n \subseteq T
        BY <1>9, <1>10, InductionTo
    <2>2. n \in 0..n
        OBVIOUS
    <2> QED
        BY <2>1, <2>2
<1>12. Upto(n) = UNION {ToSet(lists[i]) : i \in DOMAIN lists}
    BY <1>2
<1> HIDE DEF Upto
<1> QED
    BY <1>7, <1>11, <1>12

-----------------------------------------------------------------------------
(* Sequences of entries                                                    *)

Keyed(l) == \A i, j \in DOMAIN l : l[i].k = l[j].k => i = j

Apart(l, m) == \A x \in ToSet(l), y \in ToSet(m) : x.k # y.k

LEMMA ConcatParts ==
    ASSUME NEW S, NEW l \in Seq(S), NEW m \in Seq(S)
    PROVE  /\ l \o m \in Seq(S)
           /\ DOMAIN (l \o m) = 1..(Len(l) + Len(m))
           /\ DOMAIN l = 1..Len(l) /\ DOMAIN m = 1..Len(m)
           /\ Len(l) \in Nat /\ Len(m) \in Nat
           /\ \A i \in 1..Len(l) : (l \o m)[i] = l[i]
           /\ \A i \in 1..Len(m) : (l \o m)[Len(l) + i] = m[i]
<1>1. PICK c : c = l \o m
    OBVIOUS
<1>2. /\ c \in Seq(S) /\ Len(c) = Len(l) + Len(m) /\ Len(l) \in Nat /\ Len(m) \in Nat
      /\ DOMAIN l = 1..Len(l) /\ DOMAIN m = 1..Len(m)
    BY <1>1, ConcatProperties
<1>3. \A i \in 1..(Len(l) + Len(m)) : c[i] = IF i <= Len(l) THEN l[i] ELSE m[i - Len(l)]
    BY <1>1, ConcatProperties
<1>4. ASSUME NEW i \in 1..Len(l) PROVE c[i] = l[i]
    BY <1>2, <1>3
<1>5. ASSUME NEW i \in 1..Len(m) PROVE c[Len(l) + i] = m[i]
    <2>1. /\ Len(l) + i \in 1..(Len(l) + Len(m)) /\ ~(Len(l) + i <= Len(l))
          /\ (Len(l) + i) - Len(l) = i
        BY <1>2
    <2> QED
        BY <1>3, <2>1
<1>6. DOMAIN c = 1..(Len(l) + Len(m))
    BY <1>2
<1> QED
    BY <1>1, <1>2, <1>4, <1>5, <1>6

(* Each place of the concatenation is one of l or one of m.                *)
LEMMA ConcatPlaces ==
    ASSUME NEW S, NEW l \in Seq(S), NEW m \in Seq(S), NEW i \in DOMAIN (l \o m)
    PROVE  \/ i \in DOMAIN l /\ (l \o m)[i] = l[i]
           \/ \E j \in DOMAIN m : i = Len(l) + j /\ (l \o m)[i] = m[j]
<1>1. PICK c : c = l \o m
    OBVIOUS
<1>2. /\ DOMAIN c = 1..(Len(l) + Len(m))
      /\ DOMAIN l = 1..Len(l) /\ DOMAIN m = 1..Len(m)
      /\ Len(l) \in Nat /\ Len(m) \in Nat
    BY <1>1, ConcatParts
<1>3. \A j \in 1..Len(l) : c[j] = l[j]
    BY <1>1, ConcatParts
<1>4. \A j \in 1..Len(m) : c[Len(l) + j] = m[j]
    BY <1>1, ConcatParts
<1>5. i \in 1..(Len(l) + Len(m))
    BY <1>1, <1>2
<1>6. CASE i <= Len(l)
    BY <1>1, <1>2, <1>3, <1>5, <1>6
<1>7. CASE i > Len(l)
    <2>1. i - Len(l) \in 1..Len(m) /\ i = Len(l) + (i - Len(l))
        BY <1>2, <1>5, <1>7
    <2>2. c[Len(l) + (i - Len(l))] = m[i - Len(l)]
        BY <1>4, <2>1
    <2> QED
        BY <1>1, <1>2, <2>1, <2>2
<1> QED
    BY <1>2, <1>5, <1>6, <1>7

LEMMA ConcatSet ==
    ASSUME NEW S, NEW l \in Seq(S), NEW m \in Seq(S)
    PROVE  ToSet(l \o m) = ToSet(l) \cup ToSet(m)
<1>1. ASSUME NEW x \in ToSet(l \o m) PROVE x \in ToSet(l) \cup ToSet(m)
    <2>1. PICK i \in DOMAIN (l \o m) : x = (l \o m)[i]
        BY DEF ToSet
    <2> QED
        BY <2>1, ConcatPlaces DEF ToSet
<1>2. PICK c : c = l \o m
    OBVIOUS
<1>3. /\ DOMAIN c = 1..(Len(l) + Len(m))
      /\ DOMAIN l = 1..Len(l) /\ DOMAIN m = 1..Len(m)
      /\ Len(l) \in Nat /\ Len(m) \in Nat
    BY <1>2, ConcatParts
<1>4. /\ \A j \in 1..Len(l) : c[j] = l[j]
      /\ \A j \in 1..Len(m) : c[Len(l) + j] = m[j]
    BY <1>2, ConcatParts
<1>5. ASSUME NEW x \in ToSet(l) PROVE x \in ToSet(c)
    <2>1. PICK i \in 1..Len(l) : x = l[i]
        BY <1>3 DEF ToSet
    <2>2. i \in DOMAIN c
        BY <1>3
    <2> QED
        BY <1>4, <2>1, <2>2 DEF ToSet
<1>6. ASSUME NEW x \in ToSet(m) PROVE x \in ToSet(c)
    <2>1. PICK i \in 1..Len(m) : x = m[i]
        BY <1>3 DEF ToSet
    <2>2. Len(l) + i \in DOMAIN c
        BY <1>3
    <2> QED
        BY <1>4, <2>1, <2>2 DEF ToSet
<1> QED
    BY <1>1, <1>2, <1>5, <1>6

LEMMA ConcatKeyed ==
    ASSUME NEW S, NEW l \in Seq(S), NEW m \in Seq(S), Keyed(l), Keyed(m), Apart(l, m)
    PROVE  Keyed(l \o m)
<1>1. PICK c : c = l \o m
    OBVIOUS
<1>2. ASSUME NEW i \in DOMAIN c
      PROVE  \/ i \in DOMAIN l /\ c[i] = l[i]
             \/ \E j \in DOMAIN m : i = Len(l) + j /\ c[i] = m[j]
    BY <1>1, ConcatPlaces
<1>3. ASSUME NEW i \in DOMAIN l, NEW j \in DOMAIN m PROVE l[i].k # m[j].k
    <2>1. l[i] \in ToSet(l) /\ m[j] \in ToSet(m)
        BY DEF ToSet
    <2> QED
        BY <2>1 DEF Apart
<1>4. ASSUME NEW i \in DOMAIN c, NEW j \in DOMAIN c, c[i].k = c[j].k PROVE i = j
    <2>1. CASE i \in DOMAIN l /\ c[i] = l[i] /\ j \in DOMAIN l /\ c[j] = l[j]
        BY <1>4, <2>1 DEF Keyed
    <2>2. CASE \E a, b \in DOMAIN m : /\ i = Len(l) + a /\ c[i] = m[a]
                                      /\ j = Len(l) + b /\ c[j] = m[b]
        BY <1>4, <2>2 DEF Keyed
    <2>3. CASE i \in DOMAIN l /\ c[i] = l[i] /\ \E b \in DOMAIN m : c[j] = m[b]
        BY <1>3, <1>4, <2>3
    <2>4. CASE j \in DOMAIN l /\ c[j] = l[j] /\ \E a \in DOMAIN m : c[i] = m[a]
        BY <1>3, <1>4, <2>4
    <2> QED
        BY <1>2, <2>1, <2>2, <2>3, <2>4
<1> QED
    BY <1>1, <1>4 DEF Keyed

LEMMA FlattenStages ==
    ASSUME NEW S, NEW s \in Seq(Seq(S)), s # <<>>
    PROVE  \E f : /\ FlattenSeq(s) = f[Len(s)] /\ f[1] = s[1]
                  /\ \A i \in 1..(Len(s) - 1) : f[i + 1] = f[i] \o s[i + 1]
<1>1. PICK n \in Nat : n = Len(s) /\ n >= 1
    OBVIOUS
<1>2. s \in [1..n -> Seq(S)]
    BY <1>1
<1> DEFINE Is(f) == f = [i \in 1..n |-> IF i = 1 THEN s[i] ELSE f[i - 1] \o s[i]]
           step == [p \in Nat \X Seq(S) |-> IF p[1] + 1 \in 1..n
                                            THEN p[2] \o s[p[1] + 1] ELSE p[2]]
<1>3. ASSUME NEW i \in Nat, NEW d \in Seq(S)
      PROVE  /\ step[<<i, d>>] \in Seq(S)
             /\ i + 1 \in 1..n => step[<<i, d>>] = d \o s[i + 1]
    <2>1. step[<<i, d>>] = IF i + 1 \in 1..n THEN d \o s[i + 1] ELSE d
        OBVIOUS
    <2>2. i + 1 \in 1..n => s[i + 1] \in Seq(S)
        BY <1>2
    <2> HIDE DEF step
    <2> QED
        BY <2>1, <2>2, ConcatProperties
<1> HIDE DEF step
<1>4. s[1] \in Seq(S) /\ n - 1 \in Nat
    BY <1>1, <1>2
<1>5. PICK g : Stages(g, Seq(S), s[1], step, n - 1)
    BY <1>3, <1>4, Recursion
<1> DEFINE h == [i \in 1..n |-> g[i - 1]]
<1>6. Is(h)
    <2>1. ASSUME NEW i \in 1..n
          PROVE  h[i] = IF i = 1 THEN s[i] ELSE h[i - 1] \o s[i]
        <3>1. CASE i = 1
            BY <1>5, <3>1 DEF Stages
        <3>2. CASE i # 1
            <4>1. PICK j : j = i - 1
                OBVIOUS
            <4>2. j \in 1..(n - 1) /\ j \in 1..n /\ j \in Nat /\ j + 1 = i /\ j - 1 \in 0..(n - 1)
                BY <1>1, <3>2, <4>1
            <4>3. g[j] = step[<<j, g[j - 1]>>] /\ g[j - 1] \in Seq(S)
                BY <1>5, <4>2 DEF Stages
            <4>4. g[j] = g[j - 1] \o s[i]
                BY <1>3, <4>2, <4>3
            <4>5. h[i] = g[j] /\ h[j] = g[j - 1]
                BY <4>1, <4>2
            <4> HIDE DEF h
            <4> QED
                BY <3>2, <4>1, <4>4, <4>5
        <3> QED
            BY <3>1, <3>2
    <2>2. h = [i \in 1..n |-> h[i]]
        OBVIOUS
    <2> HIDE DEF h
    <2> QED
        BY <2>1, <2>2
<1> DEFINE f == CHOOSE f : Is(f)
<1>7. Is(f)
    <2> HIDE DEF Is, h
    <2> QED
        BY <1>6
<1>8. FlattenSeq(s) = f[n]
    <2>1. Len(s) # 0
        BY <1>1
    <2> QED
        BY <1>1, <2>1 DEF FlattenSeq
<1> HIDE DEF f
<1>9. \A i \in 1..n : f[i] = IF i = 1 THEN s[i] ELSE f[i - 1] \o s[i]
    BY <1>7
<1>10. ASSUME NEW i \in 1..(n - 1) PROVE f[i + 1] = f[i] \o s[i + 1]
    <2>1. i + 1 \in 1..n /\ i + 1 # 1 /\ (i + 1) - 1 = i
        OBVIOUS
    <2> QED
        BY <1>9, <2>1
<1>11. f[1] = s[1]
    BY <1>1, <1>9
<1> QED
    BY <1>1, <1>8, <1>10, <1>11

LEMMA FlattenFacts ==
    ASSUME NEW S, NEW s \in Seq(Seq(S)), s # <<>>,
           \A i \in DOMAIN s : Keyed(s[i]),
           \A i, j \in DOMAIN s : i < j => Apart(s[i], s[j])
    PROVE  /\ FlattenSeq(s) \in Seq(S) /\ Keyed(FlattenSeq(s))
           /\ ToSet(FlattenSeq(s)) = UNION {ToSet(s[i]) : i \in DOMAIN s}
<1>1. PICK n \in Nat : n = Len(s) /\ n >= 1
    OBVIOUS
<1>2. s \in [1..n -> Seq(S)] /\ n - 1 \in Nat
    BY <1>1
<1>3. PICK f : /\ FlattenSeq(s) = f[n] /\ f[1] = s[1]
               /\ \A i \in 1..(n - 1) : f[i + 1] = f[i] \o s[i + 1]
    BY <1>1, FlattenStages
<1> DEFINE Upto(i) == UNION {ToSet(s[j]) : j \in 1..i}
           Joined(i) == f[i] \in Seq(S) /\ Keyed(f[i]) /\ ToSet(f[i]) = Upto(i)
           T == {i \in 0..(n - 1) : Joined(i + 1)}
<1>4. 0 \in T
    <2>1. Upto(1) = ToSet(s[1])
        <3>1. 1..1 = {1}
            OBVIOUS
        <3> QED
            BY <3>1
    <2>2. 1 \in DOMAIN s /\ s[1] \in Seq(S)
        BY <1>1, <1>2
    <2> HIDE DEF Upto
    <2>3. Joined(1)
        BY <1>3, <2>1, <2>2
    <2> QED
        BY <1>2, <2>3
<1>5. ASSUME NEW i \in 0..((n - 1) - 1), i \in T PROVE i + 1 \in T
    <2>1. PICK j : j = i + 1
        OBVIOUS
    <2>2. j \in 1..(n - 1) /\ j + 1 \in 1..n /\ j \in 0..(n - 1) /\ j + 1 \in DOMAIN s
        BY <1>2, <2>1
    <2>3. Joined(j)
        BY <1>5, <2>1
    <2>4. f[j + 1] = f[j] \o s[j + 1] /\ s[j + 1] \in Seq(S) /\ Keyed(s[j + 1])
        BY <1>2, <1>3, <2>2
    <2>5. Upto(j + 1) = Upto(j) \cup ToSet(s[j + 1])
        <3>1. 1..(j + 1) = 1..j \cup {j + 1}
            BY <2>2
        <3> QED
            BY <3>1
    <2>6. Apart(f[j], s[j + 1])
        <3> SUFFICES ASSUME NEW x \in ToSet(f[j]), NEW y \in ToSet(s[j + 1])
                     PROVE  x.k # y.k
            BY DEF Apart
        <3>1. PICK m \in 1..j : x \in ToSet(s[m])
            BY <2>3
        <3>2. m \in DOMAIN s /\ m < j + 1
            BY <1>2, <2>2
        <3>3. Apart(s[m], s[j + 1])
            BY <2>2, <3>2
        <3> QED
            BY <3>1, <3>3 DEF Apart
    <2> HIDE DEF Upto
    <2>7. Joined(j + 1)
        <3>1. f[j] \o s[j + 1] \in Seq(S)
            BY <2>3, <2>4, ConcatProperties
        <3>2. Keyed(f[j] \o s[j + 1])
            BY <2>3, <2>4, <2>6, ConcatKeyed
        <3>3. ToSet(f[j] \o s[j + 1]) = ToSet(f[j]) \cup ToSet(s[j + 1])
            BY <2>3, <2>4, ConcatSet
        <3> QED
            BY <2>3, <2>4, <2>5, <3>1, <3>2, <3>3
    <2> QED
        BY <2>1, <2>2, <2>7
<1>6. n - 1 \in T
    <2> HIDE DEF T
    <2>1. 0..(n - 1) \subseteq T
        BY <1>2, <1>4, <1>5, InductionTo
    <2>2. n - 1 \in 0..(n - 1)
        BY <1>2
    <2> QED
        BY <2>1, <2>2
<1>7. Joined(n)
    <2>1. (n - 1) + 1 = n
        OBVIOUS
    <2> QED
        BY <1>6, <2>1
<1>8. Upto(n) = UNION {ToSet(s[i]) : i \in DOMAIN s}
    BY <1>2
<1> HIDE DEF Upto
<1> QED
    BY <1>3, <1>7, <1>8

-----------------------------------------------------------------------------
(* Hash tables: what search, insert, expand and remove do to the map       *)

(* Chains: what a search finds in one                                      *)

Entries(V) == [k : Paths, v : V]

PlacesOf(c, p) == {i \in DOMAIN c : c[i].k = p}
ValueIn(c, p)  == IF PlacesOf(c, p) = {} THEN Null ELSE c[Min(PlacesOf(c, p))].v
Under(c, p)    == {e \in ToSet(c) : e.k = p}

(* hashtable_search looks through one chain.                               *)
LEMMA SearchIs ==
    ASSUME NEW h, NEW p
    PROVE  /\ hashtable_search(h, p) = ValueIn(Chain(h, p), p)
           /\ Matches(h, p) = PlacesOf(Chain(h, p), p)
BY DEF hashtable_search, Matches, ValueIn, PlacesOf

LEMMA FoundAt ==
    ASSUME NEW V, NEW c \in Seq(Entries(V)), Keyed(c), NEW n \in DOMAIN c
    PROVE  /\ PlacesOf(c, c[n].k) = {n} /\ Min(PlacesOf(c, c[n].k)) = n
           /\ ValueIn(c, c[n].k) = c[n].v /\ c[n].v \in V /\ c[n].k \in Paths
           /\ Under(c, c[n].k) = {c[n]}
<1>1. PlacesOf(c, c[n].k) = {n}
    BY DEF PlacesOf, Keyed
<1>2. Min({n}) = n
    <2>1. n \in Nat
        OBVIOUS
    <2> QED
        BY <2>1 DEF Min
<1>3. c[n] \in Entries(V)
    OBVIOUS
<1>4. Under(c, c[n].k) = {c[n]}
    BY DEF Under, ToSet, Keyed
<1> QED
    BY <1>1, <1>2, <1>3, <1>4 DEF ValueIn, Entries

LEMMA FoundNowhere ==
    ASSUME NEW c, NEW p
    PROVE  /\ PlacesOf(c, p) = {} <=> Under(c, p) = {}
           /\ Under(c, p) = {} => ValueIn(c, p) = Null
BY DEF PlacesOf, Under, ValueIn, ToSet

(* With one entry of a key, that is what is found.                         *)
LEMMA FoundOnce ==
    ASSUME NEW V, NEW c \in Seq(Entries(V)), Keyed(c), NEW e \in ToSet(c)
    PROVE  ValueIn(c, e.k) = e.v /\ Under(c, e.k) = {e} /\ e.v \in V /\ e.k \in Paths
<1>1. PICK n \in DOMAIN c : c[n] = e
    BY DEF ToSet
<1> QED
    BY <1>1, FoundAt

LEMMA SameFound ==
    ASSUME NEW V, NEW c \in Seq(Entries(V)), Keyed(c),
           NEW d \in Seq(Entries(V)), Keyed(d), NEW p, Under(c, p) = Under(d, p)
    PROVE  ValueIn(c, p) = ValueIn(d, p)
<1>1. CASE Under(c, p) = {}
    BY <1>1, FoundNowhere
<1>2. CASE Under(c, p) # {}
    <2>1. PICK e : e \in ToSet(c) /\ e \in ToSet(d) /\ e.k = p
        BY <1>2 DEF Under
    <2> QED
        BY <2>1, FoundOnce
<1> QED
    BY <1>1, <1>2

-----------------------------------------------------------------------------
(* Tables                                                                  *)

InBucket(c, size, b) == \A n \in DOMAIN c : indexFor(size, c[n].k) = b

Buckets(h) == 0..(tablelength(h) - 1)

Shape(h, V) ==
    /\ h = [primeindex |-> h.primeindex, entrycount |-> h.entrycount,
            table |-> h.table]
    /\ h.primeindex \in 1..Len(Primes) /\ h.entrycount \in Nat
    /\ h.table \in [Buckets(h) -> Seq(Entries(V))]
    /\ \A b \in Buckets(h) : /\ Keyed(h.table[b])
                             /\ InBucket(h.table[b], tablelength(h), b)

KeysIn(h) == {p \in Paths : hashtable_search(h, p) # Null}

IsTable(h, V) ==
    Shape(h, V) /\ IsFiniteSet(KeysIn(h)) /\ h.entrycount = Cardinality(KeysIn(h))

LEMMA SizeOk ==
    ASSUME NEW i \in 1..Len(Primes)
    PROVE  Primes[i] \in Nat /\ Primes[i] > 0 /\ Len(Primes) \in Nat
<1>1. Primes[i] \in Nat \ {0}
    BY WatchesAssumption
<1>2. Len(Primes) \in Nat
    BY WatchesAssumption
<1> QED
    BY <1>1, <1>2

LEMMA IndexOk ==
    ASSUME NEW n \in Nat, n > 0, NEW p \in Paths
    PROVE  indexFor(n, p) \in 0..(n - 1)
<1>1. HashOf[p] \in Nat
    BY WatchesAssumption
<1> QED
    BY <1>1 DEF indexFor

LEMMA ShapeSize ==
    ASSUME NEW V, NEW h, Shape(h, V)
    PROVE  /\ tablelength(h) \in Nat /\ tablelength(h) > 0
           /\ \A p \in Paths : indexFor(tablelength(h), p) \in Buckets(h)
<1>1. tablelength(h) \in Nat /\ tablelength(h) > 0
    BY SizeOk DEF Shape, tablelength
<1> QED
    BY <1>1, IndexOk DEF Buckets

(* What a chain holds.                                                     *)
LEMMA ChainOk ==
    ASSUME NEW V, NEW h, Shape(h, V), NEW p \in Paths
    PROVE  /\ Chain(h, p) = h.table[indexFor(tablelength(h), p)]
           /\ Chain(h, p) \in Seq(Entries(V)) /\ Keyed(Chain(h, p))
BY ShapeSize DEF Shape, Chain

(* A value stored is found; what is found is stored.                       *)
LEMMA SearchOk ==
    ASSUME NEW V, Null \notin V, NEW h, Shape(h, V), NEW p \in Paths
    PROVE  /\ hashtable_search(h, p) = Null <=> Under(Chain(h, p), p) = {}
           /\ hashtable_search(h, p) = Null <=> Matches(h, p) = {}
           /\ hashtable_search(h, p) \in V \cup {Null}
           /\ \A e \in ToSet(Chain(h, p)) :
                  e.k = p => hashtable_search(h, p) = e.v
<1>1. hashtable_search(h, p) = ValueIn(Chain(h, p), p) /\ Matches(h, p) = PlacesOf(Chain(h, p), p)
    BY SearchIs
<1>2. Chain(h, p) \in Seq(Entries(V)) /\ Keyed(Chain(h, p))
    BY ChainOk
<1>3. \A e \in ToSet(Chain(h, p)) : e.k = p => hashtable_search(h, p) = e.v /\ e.v \in V
    BY <1>1, <1>2, FoundOnce
<1>4. CASE Under(Chain(h, p), p) = {}
    BY <1>1, <1>3, <1>4, FoundNowhere
<1>5. CASE Under(Chain(h, p), p) # {}
    <2>1. PICK e \in ToSet(Chain(h, p)) : e.k = p
        BY <1>5 DEF Under
    <2>2. PlacesOf(Chain(h, p), p) # {}
        BY <1>5, FoundNowhere
    <2> QED
        BY <1>1, <1>3, <1>5, <2>1, <2>2
<1> QED
    BY <1>4, <1>5

(* create_hashtable: an empty map.                                         *)
LEMMA CreateOk ==
    ASSUME NEW V, Null \notin V
    PROVE  /\ IsTable(create_hashtable, V)
           /\ \A p \in Paths : hashtable_search(create_hashtable, p) = Null
<1>1. PICK h : h = create_hashtable
    OBVIOUS
<1>2. 1 \in 1..Len(Primes)
    BY WatchesAssumption
<1>3. /\ h = [primeindex |-> h.primeindex, entrycount |-> h.entrycount,
              table |-> h.table]
      /\ h.primeindex = 1 /\ h.entrycount = 0
      /\ h.table = [i \in 0..(Primes[1] - 1) |-> <<>>]
    BY <1>1 DEF create_hashtable
<1>4. tablelength(h) = Primes[1]
    BY <1>3 DEF tablelength
<1>5. Shape(h, V)
    <2>1. <<>> \in Seq(Entries(V)) /\ Keyed(<<>>)
        BY DEF Keyed
    <2>2. h.table \in [Buckets(h) -> Seq(Entries(V))]
        <3>1. PICK e : e = <<>>
            OBVIOUS
        <3>2. h.table = [i \in Buckets(h) |-> e]
            <4>1. Buckets(h) = 0..(Primes[1] - 1)
                BY <1>4 DEF Buckets
            <4> QED
                BY <1>3, <3>1, <4>1
        <3>3. e \in Seq(Entries(V))
            BY <2>1, <3>1
        <3> QED
            BY <3>2, <3>3
    <2>3. ASSUME NEW b \in Buckets(h)
          PROVE  Keyed(h.table[b]) /\ InBucket(h.table[b], tablelength(h), b)
        <3>1. PICK e : e = h.table[b]
            OBVIOUS
        <3>2. e = <<>>
            BY <1>3, <1>4, <3>1 DEF Buckets
        <3>3. DOMAIN e = {}
            BY <3>2
        <3>4. Keyed(e) /\ InBucket(e, tablelength(h), b)
            BY <3>3 DEF Keyed, InBucket
        <3> QED
            BY <3>1, <3>4
    <2> QED
        <3>1. h.primeindex \in 1..Len(Primes) /\ h.entrycount \in Nat
            <4>1. h.primeindex = 1 /\ h.entrycount = 0
                BY <1>3
            <4> QED
                BY <1>2, <4>1
        <3>2. h = [primeindex |-> h.primeindex, entrycount |-> h.entrycount,
                   table |-> h.table]
            BY <1>3
        <3> QED
            BY <2>2, <2>3, <3>1, <3>2 DEF Shape
<1>6. ASSUME NEW p \in Paths PROVE hashtable_search(h, p) = Null
    <2>1. Chain(h, p) = <<>>
        <3>1. indexFor(tablelength(h), p) \in Buckets(h)
            BY <1>5, ShapeSize
        <3> QED
            BY <1>3, <1>4, <3>1 DEF Chain, Buckets
    <2>2. Under(<<>>, p) = {}
        BY DEF Under, ToSet
    <2> QED
        BY <1>5, <2>1, <2>2, SearchOk
<1>7. KeysIn(h) = {}
    BY <1>6 DEF KeysIn
<1>8. IsFiniteSet({}) /\ Cardinality({}) = 0
    BY FS_EmptySet
<1> QED
    BY <1>1, <1>3, <1>5, <1>6, <1>7, <1>8 DEF IsTable

(* A table with another count and one chain exchanged.                     *)
Exchanged(h, n, b, c) == [h EXCEPT !.entrycount = n, !.table[b] = c]

(* One chain exchanged for another of the same bucket.                     *)
LEMMA ExchangeOk ==
    ASSUME NEW V, NEW h, Shape(h, V), NEW n \in Nat, NEW b \in Buckets(h),
           NEW c \in Seq(Entries(V)), Keyed(c), InBucket(c, tablelength(h), b)
    PROVE  LET g == Exchanged(h, n, b, c)
           IN  /\ Shape(g, V) /\ g.entrycount = n
               /\ \A p \in Paths :
                     Chain(g, p) = IF indexFor(tablelength(h), p) = b THEN c
                                   ELSE Chain(h, p)
<1>1. PICK g : g = Exchanged(h, n, b, c)
    OBVIOUS
<1>2. h = [primeindex |-> h.primeindex, entrycount |-> h.entrycount, table |-> h.table]
    BY DEF Shape
<1>3. g = [primeindex |-> h.primeindex, entrycount |-> n,
           table |-> [h.table EXCEPT ![b] = c]]
    BY <1>1, <1>2 DEF Exchanged
<1>4. g.primeindex = h.primeindex /\ g.entrycount = n /\ g.table = [h.table EXCEPT ![b] = c]
    BY <1>3
<1>5. tablelength(g) = tablelength(h) /\ Buckets(g) = Buckets(h)
    BY <1>4 DEF tablelength, Buckets
<1>6. g.table \in [Buckets(h) -> Seq(Entries(V))]
    BY <1>4 DEF Shape
<1>7. \A a \in Buckets(h) : g.table[a] = IF a = b THEN c ELSE h.table[a]
    BY <1>4 DEF Shape
<1>8. Shape(g, V)
    BY <1>3, <1>4, <1>5, <1>6, <1>7 DEF Shape
<1>9. ASSUME NEW p \in Paths
      PROVE  Chain(g, p) = IF indexFor(tablelength(h), p) = b THEN c ELSE Chain(h, p)
    BY <1>5, <1>7, ShapeSize DEF Chain
<1> QED
    BY <1>1, <1>4, <1>8, <1>9

(* The searches in it: those of the keys whose entries are the same find   *)
(* the same.                                                               *)
LEMMA ExchangeSearch ==
    ASSUME NEW V, NEW h, Shape(h, V), NEW n \in Nat, NEW b \in Buckets(h),
           NEW c \in Seq(Entries(V)), Keyed(c), InBucket(c, tablelength(h), b),
           NEW p \in Paths
    PROVE  LET g == Exchanged(h, n, b, c)
           IN  /\ Under(c, p) = Under(h.table[b], p)
                     => hashtable_search(g, p) = hashtable_search(h, p)
               /\ indexFor(tablelength(h), p) = b
                     => hashtable_search(g, p) = ValueIn(c, p)
<1>1. PICK g : g = Exchanged(h, n, b, c)
    OBVIOUS
<1>2. Chain(g, p) = IF indexFor(tablelength(h), p) = b THEN c ELSE Chain(h, p)
    BY <1>1, ExchangeOk
<1>3. /\ hashtable_search(g, p) = ValueIn(Chain(g, p), p)
      /\ hashtable_search(h, p) = ValueIn(Chain(h, p), p)
    BY SearchIs
<1>4. CASE indexFor(tablelength(h), p) = b
    <2>1. Chain(h, p) = h.table[b] /\ Keyed(h.table[b]) /\ h.table[b] \in Seq(Entries(V))
        BY <1>4, ChainOk
    <2>2. Under(c, p) = Under(h.table[b], p) => ValueIn(c, p) = ValueIn(h.table[b], p)
        BY <2>1, SameFound
    <2> QED
        BY <1>1, <1>2, <1>3, <1>4, <2>1, <2>2
<1>5. CASE indexFor(tablelength(h), p) # b
    BY <1>1, <1>2, <1>3, <1>5
<1> QED
    BY <1>4, <1>5

(* The count of a map that changed at one key at most.                     *)
LEMMA CountAfter ==
    ASSUME NEW V, NEW h, IsTable(h, V), NEW g, Shape(g, V), NEW k \in Paths,
           \A p \in Paths \ {k} :
              hashtable_search(g, p) = Null <=> hashtable_search(h, p) = Null
    PROVE  /\ hashtable_search(g, k) # Null /\ hashtable_search(h, k) = Null
              /\ g.entrycount = h.entrycount + 1 => IsTable(g, V)
           /\ hashtable_search(g, k) # Null /\ hashtable_search(h, k) # Null
              /\ g.entrycount = h.entrycount => IsTable(g, V)
           /\ hashtable_search(g, k) = Null /\ hashtable_search(h, k) # Null
              /\ g.entrycount = h.entrycount - 1 => IsTable(g, V)
<1>1. IsFiniteSet(KeysIn(h)) /\ h.entrycount = Cardinality(KeysIn(h))
    BY DEF IsTable
<1>2. ASSUME hashtable_search(g, k) # Null, hashtable_search(h, k) = Null
      PROVE  KeysIn(g) = KeysIn(h) \cup {k} /\ k \notin KeysIn(h)
    BY <1>2 DEF KeysIn
<1>3. ASSUME hashtable_search(g, k) # Null, hashtable_search(h, k) # Null
      PROVE  KeysIn(g) = KeysIn(h)
    BY <1>3 DEF KeysIn
<1>4. ASSUME hashtable_search(g, k) = Null, hashtable_search(h, k) # Null
      PROVE  KeysIn(g) = KeysIn(h) \ {k} /\ k \in KeysIn(h)
    BY <1>4 DEF KeysIn
<1>5. /\ IsFiniteSet(KeysIn(h) \cup {k}) /\ IsFiniteSet(KeysIn(h) \ {k})
      /\ k \notin KeysIn(h) => Cardinality(KeysIn(h) \cup {k}) = h.entrycount + 1
      /\ k \in KeysIn(h) => Cardinality(KeysIn(h) \ {k}) = h.entrycount - 1
    BY <1>1, FS_AddElement, FS_RemoveElement
<1> QED
    BY <1>1, <1>2, <1>3, <1>4, <1>5 DEF IsTable

(* hashtable_update, of a key that is there: it has the new value.         *)
LEMMA UpdateOk ==
    ASSUME NEW V, Null \notin V, NEW h, IsTable(h, V), NEW k \in Paths, NEW v \in V,
           hashtable_search(h, k) # Null
    PROVE  /\ IsTable(hashtable_update(h, k, v), V)
           /\ \A p \in Paths : hashtable_search(hashtable_update(h, k, v), p)
                                  = IF p = k THEN v ELSE hashtable_search(h, p)
<1> Shape(h, V)
    BY DEF IsTable
<1>1. PICK b : b = indexFor(tablelength(h), k)
    OBVIOUS
<1>2. b \in Buckets(h) /\ h.table[b] = Chain(h, k)
    BY <1>1, ShapeSize DEF Chain
<1>3. PICK c : c = h.table[b]
    OBVIOUS
<1>4. c \in Seq(Entries(V)) /\ Keyed(c) /\ InBucket(c, tablelength(h), b)
    BY <1>2, <1>3 DEF Shape
<1>5. PICK d : d = [i \in DOMAIN c |-> IF c[i].k = k THEN [c[i] EXCEPT !.v = v] ELSE c[i]]
    OBVIOUS
<1>6. /\ DOMAIN d = DOMAIN c /\ DOMAIN c = 1..Len(c) /\ Len(c) \in Nat
      /\ \A i \in DOMAIN c : c[i] \in Entries(V)
    BY <1>4, <1>5
<1>7. ASSUME NEW i \in DOMAIN c
      PROVE  /\ d[i] \in Entries(V) /\ d[i].k = c[i].k
             /\ c[i].k # k => d[i] = c[i]
             /\ c[i].k = k => d[i].v = v
    <2>1. c[i] = [k |-> c[i].k, v |-> c[i].v] /\ c[i].k \in Paths /\ c[i].v \in V
        BY <1>6 DEF Entries
    <2>2. d[i] = IF c[i].k = k THEN [c[i] EXCEPT !.v = v] ELSE c[i]
        BY <1>5
    <2>3. [c[i] EXCEPT !.v = v] = [k |-> c[i].k, v |-> v]
        BY <2>1
    <2> QED
        BY <2>1, <2>2, <2>3 DEF Entries
<1>8. d \in Seq(Entries(V))
    <2>1. d \in [1..Len(c) -> Entries(V)]
        BY <1>5, <1>6, <1>7
    <2> QED
        BY <1>6, <2>1, IsASeq
<1>9. Keyed(d) /\ InBucket(d, tablelength(h), b)
    BY <1>4, <1>6, <1>7 DEF Keyed, InBucket
<1>10. PICK g : g = hashtable_update(h, k, v)
    OBVIOUS
<1>11. g = Exchanged(h, h.entrycount, b, d)
    <2>1. h = [primeindex |-> h.primeindex, entrycount |-> h.entrycount, table |-> h.table]
        BY DEF Shape
    <2>2. g = [h EXCEPT !.table[b] = d]
        BY <1>1, <1>3, <1>5, <1>10 DEF hashtable_update
    <2>3. g = [primeindex |-> h.primeindex, entrycount |-> h.entrycount,
               table |-> [h.table EXCEPT ![b] = d]]
        BY <2>1, <2>2
    <2>4. PICK n : n = h.entrycount
        OBVIOUS
    <2>5. PICK x : x = Exchanged(h, n, b, d)
        OBVIOUS
    <2>6. x = [primeindex |-> h.primeindex, entrycount |-> n,
               table |-> [h.table EXCEPT ![b] = d]]
        BY <2>1, <2>5 DEF Exchanged
    <2> QED
        BY <2>3, <2>4, <2>5, <2>6
<1>12. h.entrycount \in Nat
    BY DEF Shape
<1>13. Shape(g, V) /\ g.entrycount = h.entrycount
    BY <1>2, <1>8, <1>9, <1>11, <1>12, ExchangeOk
<1>14. ASSUME NEW p \in Paths, p # k
       PROVE  hashtable_search(g, p) = hashtable_search(h, p)
    <2>1. Under(d, p) = Under(c, p)
        BY <1>6, <1>7, <1>14 DEF Under, ToSet
    <2> QED
        BY <1>2, <1>3, <1>8, <1>9, <1>11, <1>12, <2>1, ExchangeSearch
<1>15. hashtable_search(g, k) = v
    <2>1. hashtable_search(g, k) = ValueIn(d, k)
        BY <1>1, <1>2, <1>8, <1>9, <1>11, <1>12, ExchangeSearch
    <2>2. PICK e \in ToSet(c) : e.k = k
        <3>1. Under(c, k) # {}
            BY <1>2, <1>3, SearchOk
        <3> QED
            BY <3>1 DEF Under
    <2>3. PICK i \in DOMAIN c : c[i].k = k
        BY <2>2 DEF ToSet
    <2>4. d[i].k = k /\ d[i].v = v /\ i \in DOMAIN d
        BY <1>6, <1>7, <2>3
    <2>5. ValueIn(d, k) = v
        BY <1>8, <1>9, <2>4, FoundAt
    <2> QED
        BY <2>1, <2>5
<1>16. IsTable(g, V)
    BY <1>13, <1>14, <1>15, CountAfter
<1> QED
    BY <1>10, <1>14, <1>15, <1>16

(* A chain without one of its entries.                                     *)
LEMMA DropPlace ==
    ASSUME NEW V, NEW c \in Seq(Entries(V)), Keyed(c), NEW m \in DOMAIN c
    PROVE  /\ RemoveAt(c, m) \in Seq(Entries(V)) /\ Keyed(RemoveAt(c, m))
           /\ ToSet(RemoveAt(c, m)) = ToSet(c) \ {c[m]}
<1>1. PICK n \in Nat : n = Len(c) /\ m \in 1..n /\ DOMAIN c = 1..n
    OBVIOUS
<1>2. PICK l : l = SubSeq(c, 1, m - 1)
    OBVIOUS
<1>3. PICK r : r = SubSeq(c, m + 1, n)
    OBVIOUS
<1>4. \A i \in 1..n : c[i] \in Entries(V)
    BY <1>1
<1>5. l \in Seq(Entries(V)) /\ DOMAIN l = 1..(m - 1) /\ \A i \in 1..(m - 1) : l[i] = c[i]
    <2>1. /\ l \in Seq(Entries(V)) /\ Len(l) = IF 1 <= m - 1 THEN (m - 1) - 1 + 1 ELSE 0
          /\ \A i \in 1..((m - 1) - 1 + 1) : l[i] = c[1 + i - 1]
        <3>1. \A i \in 1..(m - 1) : c[i] \in Entries(V)
            BY <1>1, <1>4
        <3>2. 1 \in Int /\ m - 1 \in Int
            BY <1>1
        <3> QED
            BY <1>2, <3>1, <3>2, SubSeqProperties
    <2>2. Len(l) = m - 1
        BY <1>1, <2>1
    <2>3. ASSUME NEW i \in 1..(m - 1) PROVE l[i] = c[i]
        <3>1. i \in 1..((m - 1) - 1 + 1) /\ 1 + i - 1 = i
            BY <1>1
        <3> QED
            BY <2>1, <3>1
    <2> QED
        BY <2>1, <2>2, <2>3
<1>6. r \in Seq(Entries(V)) /\ DOMAIN r = 1..(n - m) /\ \A i \in 1..(n - m) : r[i] = c[m + i]
    <2>1. /\ r \in Seq(Entries(V)) /\ Len(r) = IF m + 1 <= n THEN n - (m + 1) + 1 ELSE 0
          /\ \A i \in 1..(n - (m + 1) + 1) : r[i] = c[(m + 1) + i - 1]
        <3>1. \A i \in (m + 1)..n : c[i] \in Entries(V)
            BY <1>1, <1>4
        <3>2. m + 1 \in Int /\ n \in Int
            BY <1>1
        <3> QED
            BY <1>3, <3>1, <3>2, SubSeqProperties
    <2>2. Len(r) = n - m
        BY <1>1, <2>1
    <2>3. ASSUME NEW i \in 1..(n - m) PROVE r[i] = c[m + i]
        <3>1. i \in 1..(n - (m + 1) + 1) /\ (m + 1) + i - 1 = m + i
            BY <1>1
        <3> QED
            BY <2>1, <3>1
    <2> QED
        BY <2>1, <2>2, <2>3
<1>7. RemoveAt(c, m) = l \o r
    BY <1>1, <1>2, <1>3 DEF RemoveAt
<1>8. Keyed(l) /\ Keyed(r) /\ Apart(l, r)
    <2>1. ASSUME NEW i \in 1..(m - 1) PROVE i \in DOMAIN c
        BY <1>1
    <2>2. ASSUME NEW i \in 1..(n - m) PROVE m + i \in DOMAIN c /\ m + i > m
        BY <1>1
    <2>3. Keyed(l)
        BY <1>5, <2>1 DEF Keyed
    <2>4. Keyed(r)
        <3> SUFFICES ASSUME NEW i \in 1..(n - m), NEW j \in 1..(n - m), r[i].k = r[j].k
                     PROVE  i = j
            BY <1>6 DEF Keyed
        <3>1. m + i = m + j
            BY <1>6, <2>2 DEF Keyed
        <3> QED
            BY <1>1, <3>1
    <2>5. Apart(l, r)
        <3> SUFFICES ASSUME NEW i \in 1..(m - 1), NEW j \in 1..(n - m) PROVE l[i].k # r[j].k
            BY <1>5, <1>6 DEF Apart, ToSet
        <3>1. i # m + j
            BY <1>1
        <3> QED
            BY <1>5, <1>6, <2>1, <2>2, <3>1 DEF Keyed
    <2> QED
        BY <2>3, <2>4, <2>5
<1>9. ToSet(l) \cup ToSet(r) = ToSet(c) \ {c[m]}
    <2>1. ASSUME NEW x \in ToSet(l) PROVE x \in ToSet(c) \ {c[m]}
        <3>1. PICK i \in 1..(m - 1) : x = l[i]
            BY <1>5 DEF ToSet
        <3>2. i \in DOMAIN c /\ i # m
            BY <1>1
        <3> QED
            BY <1>5, <3>1, <3>2 DEF ToSet, Keyed
    <2>2. ASSUME NEW x \in ToSet(r) PROVE x \in ToSet(c) \ {c[m]}
        <3>1. PICK i \in 1..(n - m) : x = r[i]
            BY <1>6 DEF ToSet
        <3>2. m + i \in DOMAIN c /\ m + i # m
            BY <1>1
        <3> QED
            BY <1>6, <3>1, <3>2 DEF ToSet, Keyed
    <2>3. ASSUME NEW x \in ToSet(c) \ {c[m]} PROVE x \in ToSet(l) \cup ToSet(r)
        <3>1. PICK i \in 1..n : x = c[i] /\ i # m
            BY <1>1, <2>3 DEF ToSet
        <3>2. CASE i < m
            <4>1. i \in 1..(m - 1)
                BY <1>1, <3>1, <3>2
            <4> QED
                BY <1>5, <3>1, <4>1 DEF ToSet
        <3>3. CASE i > m
            <4>1. PICK j : j = i - m
                OBVIOUS
            <4>2. j \in 1..(n - m) /\ m + j = i
                BY <1>1, <3>1, <3>3, <4>1
            <4> QED
                BY <1>6, <3>1, <4>2 DEF ToSet
        <3> QED
            BY <1>1, <3>1, <3>2, <3>3
    <2> QED
        BY <2>1, <2>2, <2>3
<1> QED
    BY <1>5, <1>6, <1>7, <1>8, <1>9, ConcatSet, ConcatKeyed, ConcatProperties

(* A chain without one of its entries, in its table: its key is gone.      *)
LEMMA TakenOut ==
    ASSUME NEW V, Null \notin V, NEW h, IsTable(h, V), NEW b \in Buckets(h),
           NEW e \in ToSet(h.table[b]),
           NEW d \in Seq(Entries(V)), Keyed(d), ToSet(d) = ToSet(h.table[b]) \ {e}
    PROVE  LET g == Exchanged(h, h.entrycount - 1, b, d)
           IN  /\ IsTable(g, V) /\ e.k \in Paths /\ hashtable_search(h, e.k) # Null
               /\ \A p \in Paths : hashtable_search(g, p)
                                     = IF p = e.k THEN Null ELSE hashtable_search(h, p)
<1> Shape(h, V)
    BY DEF IsTable
<1>1. PICK c : c = h.table[b]
    OBVIOUS
<1>2. c \in Seq(Entries(V)) /\ Keyed(c) /\ InBucket(c, tablelength(h), b)
    BY <1>1 DEF Shape
<1>3. e.k \in Paths /\ e.v \in V /\ ValueIn(c, e.k) = e.v /\ Under(c, e.k) = {e}
    BY <1>1, <1>2, FoundOnce
<1>4. indexFor(tablelength(h), e.k) = b
    BY <1>1, <1>2 DEF InBucket, ToSet
<1>5. InBucket(d, tablelength(h), b)
    <2> SUFFICES ASSUME NEW n \in DOMAIN d PROVE indexFor(tablelength(h), d[n].k) = b
        BY DEF InBucket
    <2>1. d[n] \in ToSet(c)
        BY <1>1 DEF ToSet
    <2> QED
        BY <1>2, <2>1 DEF InBucket, ToSet
<1>6. hashtable_search(h, e.k) = e.v
    <2>1. Chain(h, e.k) = c
        BY <1>1, <1>3, <1>4, ChainOk
    <2> QED
        BY <1>1, <1>3, <2>1, SearchOk
<1>7. h.entrycount - 1 \in Nat
    <2>1. e.k \in KeysIn(h)
        BY <1>3, <1>6 DEF KeysIn
    <2>2. Cardinality(KeysIn(h)) # 0
        BY <2>1, FS_EmptySet DEF IsTable
    <2> QED
        BY <2>2 DEF IsTable, Shape
<1>8. PICK g : g = Exchanged(h, h.entrycount - 1, b, d)
    OBVIOUS
<1>9. Shape(g, V) /\ g.entrycount = h.entrycount - 1
    BY <1>5, <1>7, <1>8, ExchangeOk
<1>10. ASSUME NEW p \in Paths, p # e.k
       PROVE  hashtable_search(g, p) = hashtable_search(h, p)
    <2>1. Under(d, p) = Under(c, p)
        BY <1>1, <1>10 DEF Under
    <2> QED
        BY <1>1, <1>5, <1>7, <1>8, <2>1, ExchangeSearch
<1>11. hashtable_search(g, e.k) = Null
    <2>1. Under(d, e.k) = {}
        BY <1>1, <1>3 DEF Under
    <2>2. hashtable_search(g, e.k) = ValueIn(d, e.k)
        BY <1>3, <1>4, <1>5, <1>7, <1>8, ExchangeSearch
    <2> QED
        BY <2>1, <2>2, FoundNowhere
<1>12. IsTable(g, V)
    BY <1>3, <1>6, <1>9, <1>10, <1>11, CountAfter
<1> QED
    BY <1>3, <1>6, <1>8, <1>10, <1>11, <1>12

(* hashtable_remove: the map without the key.                              *)
LEMMA RemoveOk ==
    ASSUME NEW V, Null \notin V, NEW h, IsTable(h, V), NEW k \in Paths
    PROVE  /\ IsTable(hashtable_remove(h, k), V)
           /\ \A p \in Paths : hashtable_search(hashtable_remove(h, k), p)
                                  = IF p = k THEN Null ELSE hashtable_search(h, p)
<1> Shape(h, V)
    BY DEF IsTable
<1>1. CASE Matches(h, k) = {}
    <2>1. hashtable_remove(h, k) = h
        BY <1>1 DEF hashtable_remove
    <2>2. hashtable_search(h, k) = Null
        BY <1>1, SearchOk
    <2> QED
        BY <2>1, <2>2
<1>2. CASE Matches(h, k) # {}
    <2>1. PICK b : b = indexFor(tablelength(h), k)
        OBVIOUS
    <2>2. b \in Buckets(h) /\ h.table[b] = Chain(h, k)
        BY <2>1, ShapeSize DEF Chain
    <2>3. PICK c : c = h.table[b]
        OBVIOUS
    <2>4. c \in Seq(Entries(V)) /\ Keyed(c) /\ Matches(h, k) = PlacesOf(c, k)
        BY <2>2, <2>3, ChainOk, SearchIs
    <2>5. PICK m \in DOMAIN c : c[m].k = k
        BY <1>2, <2>4 DEF PlacesOf
    <2>6. Min(Matches(h, k)) = m
        BY <2>4, <2>5, FoundAt
    <2>7. PICK d : d = RemoveAt(c, m)
        OBVIOUS
    <2>8. d \in Seq(Entries(V)) /\ Keyed(d) /\ ToSet(d) = ToSet(c) \ {c[m]}
        BY <2>4, <2>7, DropPlace
    <2>9. c[m] \in ToSet(c)
        BY DEF ToSet
    <2>10. PICK g : g = hashtable_remove(h, k)
        OBVIOUS
    <2>11. g = Exchanged(h, h.entrycount - 1, b, d)
        BY <1>2, <2>1, <2>3, <2>6, <2>7, <2>10 DEF hashtable_remove, Exchanged
    <2> QED
        BY <2>2, <2>3, <2>5, <2>8, <2>9, <2>10, <2>11, TakenOut
<1> QED
    BY <1>1, <1>2

(* hashtable_iterator_remove takes one entry out, and changes none.        *)
LEMMA IteratorRemoveOk ==
    ASSUME NEW V, Null \notin V, NEW h, IsTable(h, V), hashtable_count(h) > 0
    PROVE  LET g == hashtable_iterator_remove(h)
           IN  /\ IsTable(g, V)
               /\ \A p \in Paths : hashtable_search(g, p) \in {Null, hashtable_search(h, p)}
<1> Shape(h, V)
    BY DEF IsTable
<1> DEFINE Full == {i \in Buckets(h) : h.table[i] # <<>>}
<1>1. Full # {}
    <2>1. KeysIn(h) # {}
        BY FS_EmptySet DEF IsTable, hashtable_count
    <2>2. PICK p \in Paths : hashtable_search(h, p) # Null
        BY <2>1 DEF KeysIn
    <2>3. Under(Chain(h, p), p) # {}
        BY <2>2, SearchOk
    <2>4. Chain(h, p) # <<>>
        BY <2>3 DEF Under, ToSet
    <2>5. indexFor(tablelength(h), p) \in Buckets(h)
        BY ShapeSize
    <2> QED
        BY <2>4, <2>5 DEF Chain
<1>2. PICK b \in Full : \A j \in Full : b <= j
    <2>1. Full \in SUBSET Nat
        BY ShapeSize DEF Buckets
    <2> HIDE DEF Full
    <2> QED
        BY <1>1, <2>1, LeastNumber
<1>3. DOMAIN h.table = Buckets(h)
    BY DEF Shape
<1>4. b \in DOMAIN h.table /\ h.table[b] # <<>> /\ \A j \in 0..(b - 1) : h.table[j] = <<>>
    <2>1. ASSUME NEW j \in 0..(b - 1) PROVE h.table[j] = <<>>
        <3>1. j \in Buckets(h) /\ ~(b <= j)
            BY ShapeSize DEF Buckets
        <3> QED
            BY <1>2, <3>1
    <2> QED
        BY <1>2, <1>3, <2>1
<1> HIDE DEF Full
<1>5. PICK a : a = FirstBucket(h)
    OBVIOUS
<1>6. a \in Buckets(h) /\ h.table[a] # <<>>
    BY <1>3, <1>4, <1>5 DEF FirstBucket
<1>7. PICK c : c = h.table[a]
    OBVIOUS
<1>8. c \in Seq(Entries(V)) /\ Keyed(c) /\ c # <<>>
    BY <1>6, <1>7 DEF Shape
<1>9. PICK n \in Nat : n = Len(c) /\ n >= 1 /\ DOMAIN c = 1..n
    BY <1>8
<1>10. PICK d : d = Tail(c)
    OBVIOUS
<1>11. d \in Seq(Entries(V)) /\ DOMAIN d = 1..(n - 1) /\ \A i \in 1..(n - 1) : d[i] = c[i + 1]
    BY <1>8, <1>9, <1>10, HeadTailProperties
<1>12. Keyed(d)
    <2> SUFFICES ASSUME NEW i \in 1..(n - 1), NEW j \in 1..(n - 1), d[i].k = d[j].k
                 PROVE  i = j
        BY <1>11 DEF Keyed
    <2>1. i + 1 \in DOMAIN c /\ j + 1 \in DOMAIN c
        BY <1>9
    <2>2. i + 1 = j + 1
        BY <1>8, <1>11, <2>1 DEF Keyed
    <2> QED
        BY <2>2
<1>13. ToSet(d) = ToSet(c) \ {c[1]} /\ c[1] \in ToSet(c)
    <2>1. 1 \in DOMAIN c
        BY <1>9
    <2>2. ASSUME NEW x \in ToSet(d) PROVE x \in ToSet(c) \ {c[1]}
        <3>1. PICK i \in 1..(n - 1) : x = d[i]
            BY <1>11 DEF ToSet
        <3>2. i + 1 \in DOMAIN c /\ i + 1 # 1
            BY <1>9
        <3> QED
            BY <1>8, <1>11, <2>1, <3>1, <3>2 DEF ToSet, Keyed
    <2>3. ASSUME NEW x \in ToSet(c) \ {c[1]} PROVE x \in ToSet(d)
        <3>1. PICK i \in 1..n : x = c[i] /\ i # 1
            BY <1>9, <2>3 DEF ToSet
        <3>2. PICK j : j = i - 1
            OBVIOUS
        <3>3. j \in 1..(n - 1) /\ j + 1 = i
            BY <3>1, <3>2
        <3> QED
            BY <1>11, <3>1, <3>3 DEF ToSet
    <2> QED
        BY <2>1, <2>2, <2>3 DEF ToSet
<1>14. PICK g : g = hashtable_iterator_remove(h)
    OBVIOUS
<1>15. g = Exchanged(h, h.entrycount - 1, a, d)
    BY <1>5, <1>7, <1>10, <1>14 DEF hashtable_iterator_remove, Exchanged
<1>16. IsTable(g, V) /\ \A p \in Paths : hashtable_search(g, p)
                           = IF p = c[1].k THEN Null ELSE hashtable_search(h, p)
    BY <1>6, <1>7, <1>11, <1>12, <1>13, <1>15, TakenOut
<1> QED
    BY <1>14, <1>16

-----------------------------------------------------------------------------
(* Iteration, and do_clean_hashtable                                       *)

(* The entries of a table in a sequence: those of its chains, once each.   *)
LEMMA IterateFacts ==
    ASSUME NEW V, NEW h, Shape(h, V)
    PROVE  /\ Iterate(h) \in Seq(Entries(V)) /\ Keyed(Iterate(h))
           /\ ToSet(Iterate(h)) = UNION {ToSet(h.table[b]) : b \in Buckets(h)}
           /\ \A p \in Paths : Under(Iterate(h), p) = Under(Chain(h, p), p)
<1>1. PICK m \in Nat : m = tablelength(h) /\ m > 0
    BY ShapeSize
<1>2. PICK s : s = [i \in 1..m |-> h.table[i - 1]]
    OBVIOUS
<1>3. ASSUME NEW i \in 1..m
      PROVE  /\ i - 1 \in Buckets(h) /\ s[i] = h.table[i - 1]
             /\ s[i] \in Seq(Entries(V)) /\ Keyed(s[i]) /\ InBucket(s[i], m, i - 1)
    <2>1. i - 1 \in Buckets(h)
        BY <1>1 DEF Buckets
    <2> QED
        BY <1>1, <1>2, <2>1 DEF Shape
<1>4. s \in Seq(Seq(Entries(V))) /\ DOMAIN s = 1..m /\ s # <<>>
    <2>1. s \in [1..m -> Seq(Entries(V))]
        BY <1>2, <1>3
    <2>2. s \in Seq(Seq(Entries(V)))
        BY <2>1, IsASeq
    <2>3. DOMAIN s = 1..m
        BY <1>2
    <2>4. s # <<>>
        <3>1. 1 \in DOMAIN s
            BY <1>1, <2>3
        <3> QED
            BY <3>1
    <2> QED
        BY <2>2, <2>3, <2>4
<1>5. \A i \in DOMAIN s : Keyed(s[i])
    BY <1>3, <1>4
<1>6. ASSUME NEW i \in DOMAIN s, NEW j \in DOMAIN s, i < j PROVE Apart(s[i], s[j])
    <2> SUFFICES ASSUME NEW x \in ToSet(s[i]), NEW y \in ToSet(s[j]) PROVE x.k # y.k
        BY DEF Apart
    <2>1. indexFor(m, x.k) = i - 1
        BY <1>3, <1>4 DEF InBucket, ToSet
    <2>2. indexFor(m, y.k) = j - 1
        BY <1>3, <1>4 DEF InBucket, ToSet
    <2>3. i - 1 # j - 1
        BY <1>4, <1>6
    <2> QED
        BY <2>1, <2>2, <2>3
<1>7. Iterate(h) = FlattenSeq(s)
    BY <1>1, <1>2 DEF Iterate
<1>8. PICK all : all = Iterate(h)
    OBVIOUS
<1>9. /\ all \in Seq(Entries(V)) /\ Keyed(all)
      /\ ToSet(all) = UNION {ToSet(s[i]) : i \in DOMAIN s}
    <2>1. \A i, j \in DOMAIN s : i < j => Apart(s[i], s[j])
        BY <1>6
    <2> QED
        BY <1>4, <1>5, <1>7, <1>8, <2>1, FlattenFacts
<1>10. ToSet(all) = UNION {ToSet(h.table[b]) : b \in Buckets(h)}
    <2>1. ASSUME NEW x \in ToSet(all) PROVE \E b \in Buckets(h) : x \in ToSet(h.table[b])
        <3>1. PICK i \in 1..m : x \in ToSet(s[i])
            BY <1>4, <1>9
        <3> QED
            BY <1>3, <3>1
    <2>2. ASSUME NEW b \in Buckets(h), NEW x \in ToSet(h.table[b]) PROVE x \in ToSet(all)
        <3>1. PICK i : i = b + 1
            OBVIOUS
        <3>2. i \in 1..m /\ i - 1 = b
            BY <1>1, <3>1 DEF Buckets
        <3>3. x \in ToSet(s[i])
            BY <1>3, <3>2
        <3> QED
            BY <1>4, <1>9, <3>2, <3>3
    <2> QED
        BY <2>1, <2>2
<1>11. ASSUME NEW p \in Paths PROVE Under(all, p) = Under(Chain(h, p), p)
    <2>1. PICK a : a = indexFor(tablelength(h), p)
        OBVIOUS
    <2>2. a \in Buckets(h) /\ Chain(h, p) = h.table[a]
        BY <2>1, ShapeSize, ChainOk
    <2>3. ASSUME NEW x \in Under(all, p) PROVE x \in Under(Chain(h, p), p)
        <3>1. PICK b \in Buckets(h) : x \in ToSet(h.table[b]) /\ x.k = p
            BY <1>10 DEF Under
        <3>2. b = a
            BY <2>1, <3>1 DEF Shape, InBucket, ToSet
        <3> QED
            BY <2>2, <3>1, <3>2 DEF Under
    <2>4. ASSUME NEW x \in Under(Chain(h, p), p) PROVE x \in Under(all, p)
        <3>1. x \in ToSet(h.table[a]) /\ x.k = p
            BY <2>2, <2>4 DEF Under
        <3> QED
            BY <1>10, <2>2, <3>1 DEF Under
    <2> QED
        BY <2>3, <2>4
<1> QED
    BY <1>8, <1>9, <1>10, <1>11

(* The keys of a table, and how many entries.                              *)
LEMMA IterateOk ==
    ASSUME NEW V, Null \notin V, NEW h, IsTable(h, V)
    PROVE  /\ {e.k : e \in ToSet(Iterate(h))} = KeysIn(h)
           /\ Len(Iterate(h)) = h.entrycount
           /\ \A e \in ToSet(Iterate(h)) : e \in Entries(V) /\ hashtable_search(h, e.k) = e.v
           /\ \A p \in KeysIn(h) : \E e \in ToSet(Iterate(h)) :
                                       e.k = p /\ e.v = hashtable_search(h, p)
<1> Shape(h, V)
    BY DEF IsTable
<1>1. PICK all : all = Iterate(h)
    OBVIOUS
<1>2. /\ all \in Seq(Entries(V)) /\ Keyed(all)
      /\ \A p \in Paths : Under(all, p) = Under(Chain(h, p), p)
    BY <1>1, IterateFacts
<1>3. \A i \in DOMAIN all : all[i] \in Entries(V)
    <2>1. all \in Seq(Entries(V))
        BY <1>2
    <2> QED
        BY <2>1
<1>4. ASSUME NEW e \in ToSet(all)
      PROVE  e \in Entries(V) /\ e.k \in KeysIn(h) /\ hashtable_search(h, e.k) = e.v
    <2>1. e \in Entries(V) /\ e.k \in Paths /\ e.v \in V
        BY <1>3 DEF ToSet, Entries
    <2>2. e \in ToSet(Chain(h, e.k))
        <3>1. e \in Under(all, e.k)
            BY DEF Under
        <3>2. e \in Under(Chain(h, e.k), e.k)
            BY <1>2, <2>1, <3>1
        <3> QED
            BY <3>2 DEF Under
    <2>3. hashtable_search(h, e.k) = e.v
        BY <2>1, <2>2, SearchOk
    <2> QED
        BY <2>1, <2>3 DEF KeysIn
<1>5. ASSUME NEW p \in KeysIn(h)
      PROVE  \E e \in ToSet(all) : e.k = p /\ e.v = hashtable_search(h, p)
    <2>1. p \in Paths /\ hashtable_search(h, p) # Null
        BY DEF KeysIn
    <2>2. Under(Chain(h, p), p) # {}
        BY <2>1, SearchOk
    <2>3. PICK e : e \in Under(all, p)
        BY <1>2, <2>1, <2>2
    <2>4. e \in ToSet(all) /\ e.k = p
        BY <2>3 DEF Under
    <2> QED
        BY <1>4, <2>4
<1>6. {e.k : e \in ToSet(all)} = KeysIn(h)
    BY <1>4, <1>5
<1>7. Len(all) = Cardinality(KeysIn(h))
    <2>1. PICK n \in Nat : n = Len(all) /\ DOMAIN all = 1..n
        BY <1>2
    <2> DEFINE f == [i \in 1..n |-> all[i].k]
    <2>2. f \in Bijection(1..n, KeysIn(h))
        <3>1. \A i \in 1..n : f[i] \in KeysIn(h)
            BY <1>4, <2>1 DEF ToSet
        <3>2. \A i, j \in 1..n : f[i] = f[j] => i = j
            BY <1>2, <2>1 DEF Keyed
        <3>3. \A p \in KeysIn(h) : \E i \in 1..n : f[i] = p
            BY <1>5, <2>1 DEF ToSet
        <3>4. f \in [1..n -> KeysIn(h)]
            BY <3>1
        <3> HIDE DEF f
        <3>5. f \in Injection(1..n, KeysIn(h))
            BY <3>2, <3>4 DEF Injection, IsInjective
        <3>6. f \in Surjection(1..n, KeysIn(h))
            BY <3>3, <3>4 DEF Surjection
        <3> QED
            BY <3>5, <3>6 DEF Bijection
    <2>3. ExistsBijection(1..n, KeysIn(h))
        BY <2>2 DEF ExistsBijection
    <2>4. Cardinality(KeysIn(h)) = n
        BY <2>3, FS_CountingElements
    <2> QED
        BY <2>1, <2>4
<1> QED
    BY <1>1, <1>4, <1>5, <1>6, <1>7 DEF IsTable

(* A table of the invariant is WellFormed.                                 *)
LEMMA TableWellFormed ==
    ASSUME NEW V, Null \notin V, NEW h, IsTable(h, V)
    PROVE  WellFormed(h)
<1> Shape(h, V)
    BY DEF IsTable
<1>1. Keyed(Iterate(h)) /\ hashtable_count(h) = Len(Iterate(h))
    BY IterateFacts, IterateOk DEF hashtable_count
<1>2. \A i \in DOMAIN h.table : \A n \in DOMAIN h.table[i] :
          indexFor(tablelength(h), h.table[i][n].k) = i
    BY DEF Shape, InBucket
<1> QED
    BY <1>1, <1>2 DEF WellFormed, Keyed

(* collect_keys: every key, since the count is right.                      *)
LEMMA KeysOk ==
    ASSUME NEW V, Null \notin V, NEW h, IsTable(h, V)
    PROVE  collect_keys(h) = KeysIn(h)
<1> Shape(h, V)
    BY DEF IsTable
<1>1. PICK all : all = Iterate(h)
    OBVIOUS
<1>2. PICK n \in Nat : n = Len(all) /\ n = hashtable_count(h)
    BY <1>1, IterateFacts, IterateOk DEF hashtable_count
<1>3. all \in Seq(Entries(V))
    BY <1>1, IterateFacts
<1>4. SubSeq(all, 1, n) = all
    BY <1>2, <1>3, SubSeqFull
<1>5. {e.k : e \in ToSet(all)} = KeysIn(h)
    BY <1>1, IterateOk
<1>6. collect_keys(h) = {e.k : e \in ToSet(SubSeq(all, 1, n))}
    BY <1>1, <1>2 DEF collect_keys
<1> QED
    BY <1>4, <1>5, <1>6

LEMMA ConsKeyed ==
    ASSUME NEW S, NEW e \in S, NEW s \in Seq(S), Keyed(s),
           \A x \in ToSet(s) : x.k # e.k
    PROVE  Keyed(Cons(e, s))
<1>1. PICK u : u = Cons(e, s)
    OBVIOUS
<1>2. PICK n \in Nat : n = Len(s) /\ DOMAIN s = 1..n
    OBVIOUS
<1>3. DOMAIN u = 1..(n + 1) /\ u[1] = e
    <2>1. DOMAIN Cons(e, s) = 1..(Len(s) + 1) /\ Cons(e, s)[1] = e
        BY ConsFacts
    <2> QED
        BY <1>1, <1>2, <2>1
<1>4. \A i \in 2..(n + 1) : u[i] = s[i - 1]
    <2>1. \A i \in 2..(Len(s) + 1) : Cons(e, s)[i] = s[i - 1]
        BY ConsFacts
    <2> QED
        BY <1>1, <1>2, <2>1
<1>5. ASSUME NEW i \in 1..(n + 1), i # 1
      PROVE  i - 1 \in DOMAIN s /\ u[i] = s[i - 1] /\ u[i].k # e.k
    <2>1. i - 1 \in DOMAIN s
        BY <1>2, <1>5
    <2>2. i \in 2..(n + 1)
        BY <1>5
    <2>3. u[i] = s[i - 1]
        BY <1>4, <2>2
    <2> QED
        BY <2>1, <2>3 DEF ToSet
<1>6. ASSUME NEW i \in 1..(n + 1), NEW j \in 1..(n + 1), u[i].k = u[j].k
      PROVE  i = j
    <2>1. CASE i = 1
        BY <1>3, <1>5, <1>6, <2>1
    <2>2. CASE j = 1
        BY <1>3, <1>5, <1>6, <2>2
    <2>3. CASE i # 1 /\ j # 1
        <3>1. /\ i - 1 \in DOMAIN s /\ u[i] = s[i - 1]
              /\ j - 1 \in DOMAIN s /\ u[j] = s[j - 1]
            BY <1>5, <2>3
        <3>2. i - 1 = j - 1
            BY <1>6, <3>1 DEF Keyed
        <3> QED
            BY <3>2
    <2> QED
        BY <2>1, <2>2, <2>3
<1> QED
    BY <1>1, <1>3, <1>6 DEF Keyed

(* Growing moves every entry, and loses none.                              *)
LEMMA ExpandOk ==
    ASSUME NEW V, Null \notin V, NEW h, Shape(h, V)
    PROVE  LET g == hashtable_expand(h)
           IN  /\ Shape(g, V) /\ g.entrycount = h.entrycount
               /\ \A p \in Paths : hashtable_search(g, p) = hashtable_search(h, p)
<1>1. CASE h.primeindex = Len(Primes)
    <2>1. hashtable_expand(h) = h
        BY <1>1 DEF hashtable_expand
    <2> QED
        BY <2>1
<1>2. CASE h.primeindex # Len(Primes)
    <2>1. PICK q : q = h.primeindex + 1
        OBVIOUS
    <2>2. q \in 1..Len(Primes)
        <3>1. h.primeindex \in 1..Len(Primes) /\ Len(Primes) \in Nat
            BY SizeOk DEF Shape
        <3> QED
            BY <1>2, <2>1, <3>1
    <2>3. PICK m \in Nat : m = Primes[q] /\ m > 0
        BY <2>2, SizeOk
    <2>4. PICK all : all = Iterate(h)
        OBVIOUS
    <2>5. all \in Seq(Entries(V)) /\ Keyed(all)
        BY <2>4, IterateFacts
    <2>6. PICK n \in Nat : n = Len(all) /\ DOMAIN all = 1..n
        BY <2>5
    <2>7. ASSUME NEW i \in 1..n
          PROVE  /\ all[i] \in Entries(V) /\ all[i].k \in Paths
                 /\ indexFor(m, all[i].k) \in 0..(m - 1)
        <3>1. all[i] \in Entries(V)
            BY <2>5, <2>6
        <3>2. all[i].k \in Paths
            BY <3>1 DEF Entries
        <3> QED
            BY <2>3, <3>1, <3>2, IndexOk
    <2> DEFINE B == 0..(m - 1)
               D == [B -> Seq(Entries(V))]
               d0 == [i \in B |-> <<>>]
               put(d, e) == [d EXCEPT ![indexFor(m, e.k)] = <<e>> \o @]
               Is(f) == f = [i \in 0..n |-> IF i = 0 THEN d0 ELSE put(f[i - 1], all[i])]
               step == [x \in Nat \X D |-> IF x[1] \in 1..n THEN put(x[2], all[x[1]]) ELSE x[2]]
    <2>8. ASSUME NEW d \in D, NEW e \in Entries(V), indexFor(m, e.k) \in B
          PROVE  /\ put(d, e) \in D
                 /\ \A b \in B : put(d, e)[b] =
                        IF b = indexFor(m, e.k) THEN Cons(e, d[b]) ELSE d[b]
        <3>1. PICK a \in B : a = indexFor(m, e.k)
            BY <2>8
        <3>2. PICK c : c = Cons(e, d[a])
            OBVIOUS
        <3>3. c \in Seq(Entries(V))
            BY <2>8, <3>2, ConsFacts
        <3>4. put(d, e) = [d EXCEPT ![a] = c]
            BY <3>1, <3>2 DEF Cons
        <3>5. PICK z : z = put(d, e)
            OBVIOUS
        <3> HIDE DEF put
        <3>6. z = [d EXCEPT ![a] = c]
            BY <3>4, <3>5
        <3>7. z \in D /\ \A b \in B : z[b] = IF b = a THEN c ELSE d[b]
            BY <3>3, <3>6
        <3> QED
            BY <3>1, <3>2, <3>5, <3>7
    <2> HIDE DEF put
    <2>9. ASSUME NEW i \in Nat, NEW d \in D
          PROVE  /\ step[<<i, d>>] \in D
                 /\ i \in 1..n => step[<<i, d>>] = put(d, all[i])
        <3>1. step[<<i, d>>] = IF i \in 1..n THEN put(d, all[i]) ELSE d
            OBVIOUS
        <3>2. i \in 1..n => put(d, all[i]) \in D
            BY <2>7, <2>8
        <3> HIDE DEF step, D
        <3> QED
            BY <3>1, <3>2
    <2>10. d0 \in D
        <3>1. PICK e : e = <<>>
            OBVIOUS
        <3>2. d0 = [i \in B |-> e] /\ e \in Seq(Entries(V))
            BY <3>1
        <3> QED
            BY <3>2
    <2> HIDE DEF step, D, d0
    <2>11. PICK g : Stages(g, D, d0, step, n)
        BY <2>9, <2>10, Recursion
    <2>12. Is(g)
        <3>1. \A i \in 1..n : i \in Nat /\ i - 1 \in 0..n
            OBVIOUS
        <3>2. \A i \in 1..n : g[i] = put(g[i - 1], all[i])
            BY <2>9, <2>11, <3>1 DEF Stages
        <3>3. g = [i \in 0..n |-> g[i]] /\ g[0] = d0
            BY <2>11 DEF Stages
        <3>4. ASSUME NEW i \in 0..n
              PROVE  g[i] = IF i = 0 THEN d0 ELSE put(g[i - 1], all[i])
            <4>1. i = 0 \/ i \in 1..n
                OBVIOUS
            <4> QED
                BY <3>2, <3>3, <4>1
        <3> QED
            BY <3>3, <3>4
    <2> DEFINE f == CHOOSE f : Is(f)
    <2>13. Is(f)
        <3> HIDE DEF Is
        <3> QED
            BY <2>12
    <2>14. hashtable_expand(h) = [h EXCEPT !.primeindex = @ + 1, !.table = f[n]]
        BY <1>2, <2>1, <2>3, <2>4, <2>6 DEF hashtable_expand, put, d0
    <2> HIDE DEF f
    <2>15. f[0] = d0 /\ \A i \in 1..n : f[i] = put(f[i - 1], all[i])
        BY <2>13
    <2> DEFINE Moved(i) ==
                   /\ f[i] \in D
                   /\ \A b \in B :
                        /\ Keyed(f[i][b])
                        /\ ToSet(f[i][b]) = {all[j] : j \in {l \in 1..i : indexFor(m, all[l].k) = b}}
               T == {i \in 0..n : Moved(i)}
    <2>16. 0 \in T
        <3>1. \A b \in B : d0[b] = <<>>
            BY DEF d0
        <3>2. ASSUME NEW s, s = <<>> PROVE Keyed(s) /\ ToSet(s) = {}
            <4>1. DOMAIN s = {}
                BY <3>2
            <4> QED
                BY <4>1 DEF Keyed, ToSet
        <3>3. \A b \in B : {l \in 1..0 : indexFor(m, all[l].k) = b} = {}
            OBVIOUS
        <3>4. ASSUME NEW b \in B
              PROVE  /\ Keyed(f[0][b])
                     /\ ToSet(f[0][b]) = {all[j] : j \in {l \in 1..0 : indexFor(m, all[l].k) = b}}
            BY <2>15, <3>1, <3>2, <3>3
        <3> QED
            BY <2>10, <2>15, <3>4
    <2>17. ASSUME NEW i \in 0..(n - 1), i \in T PROVE i + 1 \in T
        <3>1. PICK j : j = i + 1
            OBVIOUS
        <3>2. j \in 1..n /\ j - 1 = i /\ j \in 0..n
            BY <3>1
        <3>3. PICK e : e = all[j]
            OBVIOUS
        <3>4. e \in Entries(V) /\ indexFor(m, e.k) \in B
            BY <2>7, <3>2, <3>3
        <3>5. f[j] = put(f[i], e)
            BY <2>15, <3>2, <3>3
        <3>6. Moved(i)
            BY <2>17
        <3>7. /\ f[j] \in D
              /\ \A b \in B : f[j][b] = IF b = indexFor(m, e.k) THEN Cons(e, f[i][b])
                                        ELSE f[i][b]
            BY <2>8, <3>4, <3>5, <3>6
        <3>8. ASSUME NEW b \in B
              PROVE  /\ Keyed(f[j][b])
                     /\ ToSet(f[j][b]) = {all[a] : a \in {l \in 1..j : indexFor(m, all[l].k) = b}}
            <4>1. PICK s : s = f[i][b]
                OBVIOUS
            <4>2. s \in Seq(Entries(V)) /\ Keyed(s)
                BY <3>6, <4>1 DEF D
            <4>3. ToSet(s) = {all[a] : a \in {l \in 1..i : indexFor(m, all[l].k) = b}}
                BY <3>6, <4>1
            <4>4. CASE b = indexFor(m, e.k)
                <5>1. f[j][b] = Cons(e, s)
                    BY <3>7, <4>1, <4>4
                <5>2. ASSUME NEW x \in ToSet(s) PROVE x.k # e.k
                    <6>1. PICK a \in 1..i : x = all[a]
                        BY <4>3
                    <6>2. a \in DOMAIN all /\ j \in DOMAIN all /\ a # j
                        BY <2>6, <3>1, <3>2
                    <6> QED
                        BY <2>5, <3>3, <6>1, <6>2 DEF Keyed
                <5>3. Keyed(Cons(e, s)) /\ ToSet(Cons(e, s)) = {e} \cup ToSet(s)
                    BY <3>4, <4>2, <5>2, ConsKeyed, ConsSet
                <5>4. {l \in 1..j : indexFor(m, all[l].k) = b}
                        = {l \in 1..i : indexFor(m, all[l].k) = b} \cup {j}
                    BY <3>1, <3>2, <3>3, <4>4
                <5>5. {all[a] : a \in {l \in 1..j : indexFor(m, all[l].k) = b}}
                        = {e} \cup ToSet(s)
                    BY <3>3, <4>3, <5>4
                <5> QED
                    BY <5>1, <5>3, <5>5
            <4>5. CASE b # indexFor(m, e.k)
                <5>1. f[j][b] = s
                    BY <3>7, <4>1, <4>5
                <5>2. {l \in 1..j : indexFor(m, all[l].k) = b}
                        = {l \in 1..i : indexFor(m, all[l].k) = b}
                    BY <3>1, <3>2, <3>3, <4>5
                <5> QED
                    BY <4>2, <4>3, <5>1, <5>2
            <4> QED
                BY <4>4, <4>5
        <3>9. Moved(j)
            BY <3>7, <3>8
        <3> HIDE DEF Moved
        <3> QED
            BY <3>1, <3>2, <3>9
    <2>18. Moved(n)
        <3> HIDE DEF Moved
        <3>1. n \in T
            <4> HIDE DEF T
            <4>1. 0..n \subseteq T
                BY <2>16, <2>17, InductionTo
            <4>2. n \in 0..n
                OBVIOUS
            <4> QED
                BY <4>1, <4>2
        <3> QED
            BY <3>1
    <2>19. PICK t : t = f[n]
        OBVIOUS
    <2>20. t \in [B -> Seq(Entries(V))] /\ \A b \in B : Keyed(t[b])
        BY <2>18, <2>19 DEF D
    <2> DEFINE Places(b) == {l \in 1..n : indexFor(m, all[l].k) = b}
    <2>20a. ASSUME NEW b \in B PROVE ToSet(t[b]) = {all[j] : j \in Places(b)}
        BY <2>18, <2>19
    <2>21. \A b \in B : \A x \in ToSet(t[b]) : x \in ToSet(all) /\ indexFor(m, x.k) = b
        <3> SUFFICES ASSUME NEW b \in B, NEW x \in ToSet(t[b])
                     PROVE  x \in ToSet(all) /\ indexFor(m, x.k) = b
            OBVIOUS
        <3>1. PICK j \in Places(b) : x = all[j]
            BY <2>20a
        <3> QED
            BY <2>6, <3>1 DEF ToSet
    <2>22. \A x \in ToSet(all) : indexFor(m, x.k) \in B => x \in ToSet(t[indexFor(m, x.k)])
        <3> SUFFICES ASSUME NEW x \in ToSet(all), NEW b \in B, b = indexFor(m, x.k)
                     PROVE  x \in ToSet(t[b])
            OBVIOUS
        <3>1. PICK j \in 1..n : x = all[j]
            BY <2>6 DEF ToSet
        <3>2. j \in Places(b)
            BY <3>1
        <3> QED
            BY <2>20a, <3>1, <3>2
    <2>23. PICK g2 : g2 = hashtable_expand(h)
        OBVIOUS
    <2>24. g2 = [primeindex |-> q, entrycount |-> h.entrycount, table |-> t]
        <3>1. h = [primeindex |-> h.primeindex, entrycount |-> h.entrycount,
                   table |-> h.table]
            BY DEF Shape
        <3>2. g2 = [h EXCEPT !.primeindex = @ + 1, !.table = t]
            BY <2>14, <2>19, <2>23
        <3> QED
            BY <2>1, <3>1, <3>2
    <2>25. g2.primeindex = q /\ g2.entrycount = h.entrycount /\ g2.table = t
        BY <2>24
    <2>26. tablelength(g2) = m /\ Buckets(g2) = B
        BY <2>3, <2>25 DEF tablelength, Buckets
    <2>27. Shape(g2, V)
        <3>1. g2.entrycount \in Nat
            BY <2>25 DEF Shape
        <3>2. \A b \in Buckets(g2) : InBucket(g2.table[b], tablelength(g2), b)
            BY <2>21, <2>25, <2>26 DEF InBucket, ToSet
        <3> QED
            BY <2>2, <2>20, <2>24, <2>25, <2>26, <3>1, <3>2 DEF Shape
    <2>28. ASSUME NEW p \in Paths
           PROVE  hashtable_search(g2, p) = hashtable_search(h, p)
        <3>1. PICK b \in B : b = indexFor(m, p)
            BY <2>3, IndexOk
        <3>2. Chain(g2, p) = t[b]
            BY <2>25, <2>26, <3>1 DEF Chain
        <3>3. Under(t[b], p) = Under(all, p)
            <4>1. ASSUME NEW x \in Under(all, p) PROVE x \in Under(t[b], p)
                BY <2>22, <3>1, <4>1 DEF Under
            <4>2. ASSUME NEW x \in Under(t[b], p) PROVE x \in Under(all, p)
                BY <2>21, <4>2 DEF Under
            <4> QED
                BY <4>1, <4>2
        <3>4. Under(all, p) = Under(Chain(h, p), p)
            BY <2>4, IterateFacts
        <3>5. Chain(h, p) \in Seq(Entries(V)) /\ Keyed(Chain(h, p))
            BY ChainOk
        <3>6. Chain(g2, p) \in Seq(Entries(V)) /\ Keyed(Chain(g2, p))
            BY <2>27, ChainOk
        <3>7. ValueIn(Chain(g2, p), p) = ValueIn(Chain(h, p), p)
            BY <3>2, <3>3, <3>4, <3>5, <3>6, SameFound
        <3> QED
            BY <3>7, SearchIs
    <2> QED
        BY <2>23, <2>25, <2>27, <2>28
<1> QED
    BY <1>1, <1>2

LEMMA CountedOk ==
    ASSUME NEW V, NEW h, Shape(h, V)
    PROVE  /\ Shape(Counted(h), V) /\ Counted(h).entrycount = h.entrycount + 1
           /\ \A p \in Paths : hashtable_search(Counted(h), p) = hashtable_search(h, p)
<1>1. PICK c : c = Counted(h)
    OBVIOUS
<1>2. c = [primeindex |-> h.primeindex, entrycount |-> h.entrycount + 1, table |-> h.table]
    BY <1>1 DEF Shape, Counted
<1>3. c.primeindex = h.primeindex /\ c.entrycount = h.entrycount + 1 /\ c.table = h.table
    BY <1>2
<1>4. tablelength(c) = tablelength(h) /\ Buckets(c) = Buckets(h)
    BY <1>3 DEF tablelength, Buckets
<1>5. Shape(c, V)
    BY <1>2, <1>3, <1>4 DEF Shape
<1>6. \A p \in Paths : Chain(c, p) = Chain(h, p)
    BY <1>3, <1>4 DEF Chain
<1> QED
    BY <1>1, <1>3, <1>5, <1>6, SearchIs

(* hashtable_insert, of a key that is not there.                           *)
LEMMA InsertOk ==
    ASSUME NEW V, Null \notin V, NEW h, IsTable(h, V), NEW k \in Paths, NEW v \in V,
           hashtable_search(h, k) = Null
    PROVE  /\ IsTable(hashtable_insert(h, k, v), V)
           /\ \A p \in Paths : hashtable_search(hashtable_insert(h, k, v), p)
                                  = IF p = k THEN v ELSE hashtable_search(h, p)
<1> Shape(h, V)
    BY DEF IsTable
<1>1. PICK g : g = IF Counted(h).entrycount > loadlimit(Counted(h))
                   THEN hashtable_expand(Counted(h)) ELSE Counted(h)
    OBVIOUS
<1>2. /\ Shape(g, V) /\ g.entrycount = h.entrycount + 1
      /\ \A p \in Paths : hashtable_search(g, p) = hashtable_search(h, p)
    BY <1>1, CountedOk, ExpandOk
<1>3. PICK b : b = indexFor(tablelength(g), k)
    OBVIOUS
<1>4. b \in Buckets(g) /\ Chain(g, k) = g.table[b]
    BY <1>2, <1>3, ShapeSize, ChainOk
<1>5. PICK c : c = g.table[b]
    OBVIOUS
<1>6. c \in Seq(Entries(V)) /\ Keyed(c) /\ InBucket(c, tablelength(g), b)
    BY <1>2, <1>4, <1>5 DEF Shape
<1>7. PICK e : e = [k |-> k, v |-> v]
    OBVIOUS
<1>8. e \in Entries(V) /\ e.k = k /\ e.v = v
    BY <1>7 DEF Entries
<1>9. \A x \in ToSet(c) : x.k # e.k
    <2>1. Under(c, k) = {}
        BY <1>2, <1>4, <1>5, SearchOk
    <2> QED
        BY <1>8, <2>1 DEF Under
<1>10. PICK d : d = Cons(e, c)
    OBVIOUS
<1>11. d \in Seq(Entries(V)) /\ Keyed(d) /\ ToSet(d) = {e} \cup ToSet(c)
    <2>1. Cons(e, c) \in Seq(Entries(V))
        BY <1>6, <1>8, ConsFacts
    <2>2. Keyed(Cons(e, c))
        BY <1>6, <1>8, <1>9, ConsKeyed
    <2>3. ToSet(Cons(e, c)) = {e} \cup ToSet(c)
        BY <1>6, <1>8, ConsSet
    <2> QED
        BY <1>10, <2>1, <2>2, <2>3
<1>12. InBucket(d, tablelength(g), b)
    <2> SUFFICES ASSUME NEW n \in DOMAIN d PROVE indexFor(tablelength(g), d[n].k) = b
        BY DEF InBucket
    <2>1. d[n] = e \/ d[n] \in ToSet(c)
        BY <1>11 DEF ToSet
    <2>2. CASE d[n] = e
        BY <1>3, <1>8, <2>2
    <2>3. CASE d[n] \in ToSet(c)
        BY <1>6, <2>3 DEF InBucket, ToSet
    <2> QED
        BY <2>1, <2>2, <2>3
<1>13. PICK n \in Nat : n = g.entrycount
    BY <1>2 DEF Shape
<1>14. PICK r : r = hashtable_insert(h, k, v)
    OBVIOUS
<1>15. r = Exchanged(g, n, b, d)
    <2>1. g = [primeindex |-> g.primeindex, entrycount |-> g.entrycount, table |-> g.table]
        BY <1>2 DEF Shape
    <2>2. r = [g EXCEPT !.table[b] = Cons(e, @)]
        BY <1>1, <1>3, <1>7, <1>14 DEF hashtable_insert, Cons
    <2>3. r = [g EXCEPT !.table[b] = d]
        BY <1>5, <1>10, <2>2
    <2>4. r = [primeindex |-> g.primeindex, entrycount |-> n,
               table |-> [g.table EXCEPT ![b] = d]]
        BY <1>13, <2>1, <2>3
    <2>5. PICK x : x = Exchanged(g, n, b, d)
        OBVIOUS
    <2>6. x = [primeindex |-> g.primeindex, entrycount |-> n,
               table |-> [g.table EXCEPT ![b] = d]]
        BY <2>1, <2>5 DEF Exchanged
    <2> QED
        BY <2>4, <2>5, <2>6
<1>16. Shape(r, V) /\ r.entrycount = h.entrycount + 1
    BY <1>2, <1>4, <1>11, <1>12, <1>13, <1>15, ExchangeOk
<1>17. ASSUME NEW p \in Paths, p # k
       PROVE  hashtable_search(r, p) = hashtable_search(h, p)
    <2>1. Under(d, p) = Under(c, p)
        BY <1>8, <1>11, <1>17 DEF Under
    <2> QED
        BY <1>2, <1>4, <1>5, <1>11, <1>12, <1>13, <1>15, <2>1, ExchangeSearch
<1>18. hashtable_search(r, k) = v
    <2>1. hashtable_search(r, k) = ValueIn(d, k)
        BY <1>2, <1>3, <1>4, <1>11, <1>12, <1>13, <1>15, ExchangeSearch
    <2>2. e \in ToSet(d)
        BY <1>11
    <2> QED
        BY <1>8, <1>11, <2>1, <2>2, FoundOnce
<1>19. IsTable(r, V)
    BY <1>16, <1>17, <1>18, CountAfter
<1> QED
    BY <1>14, <1>17, <1>18, <1>19

-----------------------------------------------------------------------------
(* Lists of watchers                                                       *)

(* What a table holds for a path: a list of different watchers.            *)
Lists == {l \in Seq(Watchers) : l # <<>> /\ NoRepeat(l)}

(* do_insert_watcher_object: the watcher is among those of the path, and   *)
(* nothing else has changed.                                               *)
LEMMA DoInsertOk ==
    ASSUME NEW h, IsTable(h, Lists), NEW p \in Paths, NEW w \in Watchers
    PROVE  LET g == do_insert_watcher_object(h, p, w)
           IN  /\ IsTable(g, Lists)
               /\ ToSet(hashtable_search(g, p)) = ToSet(hashtable_search(h, p)) \cup {w}
               /\ \A q \in Paths \ {p} : hashtable_search(g, q) = hashtable_search(h, q)
<1>0. Null \notin Lists
    BY DEF Lists, Null
<1>1. PICK g : g = do_insert_watcher_object(h, p, w)
    OBVIOUS
<1>2. PICK wl : wl = hashtable_search(h, p)
    OBVIOUS
<1>3. wl \in Lists \cup {Null}
    BY <1>0, <1>2, SearchOk DEF IsTable
<1>4. CASE wl = Null
    <2>1. PICK l : l = Cons(w, wl)
        OBVIOUS
    <2>2. wl \in Seq(Watchers) /\ NoRepeat(wl) /\ ToSet(wl) = {}
        <3>1. DOMAIN wl = {} /\ wl \in Seq(Watchers)
            BY <1>4 DEF Null
        <3> QED
            BY <3>1 DEF NoRepeat, ToSet
    <2>3. l \in Seq(Watchers) /\ NoRepeat(l) /\ ToSet(l) = {w}
        <3>1. Cons(w, wl) \in Seq(Watchers)
            BY <2>2, ConsFacts
        <3>2. NoRepeat(Cons(w, wl))
            BY <2>2, ConsNoRepeat
        <3>3. ToSet(Cons(w, wl)) = {w} \cup ToSet(wl)
            BY <2>2, ConsSet
        <3> QED
            BY <2>1, <2>2, <3>1, <3>2, <3>3
    <2>4. l \in Lists
        <3>1. l # <<>>
            <4>1. \E x : x \in ToSet(l)
                BY <2>3
            <4> QED
                BY <4>1 DEF ToSet
        <3> QED
            BY <2>3, <3>1 DEF Lists
    <2>5. g = hashtable_insert(h, p, l)
        <3>1. l = <<w>>
            <4>1. l = <<w>> \o wl
                BY <2>1 DEF Cons
            <4> QED
                BY <1>4, <2>2, <4>1 DEF Null
        <3> QED
            BY <1>1, <1>2, <1>4, <3>1 DEF do_insert_watcher_object
    <2>6. /\ IsTable(g, Lists)
          /\ \A q \in Paths : hashtable_search(g, q) = IF q = p THEN l
                                                       ELSE hashtable_search(h, q)
        <3>1. hashtable_search(h, p) = Null /\ l \in Lists
            BY <1>2, <1>4, <2>4
        <3>2. IsTable(hashtable_insert(h, p, l), Lists)
            BY <1>0, <3>1, InsertOk
        <3>3. \A q \in Paths : hashtable_search(hashtable_insert(h, p, l), q)
                                   = IF q = p THEN l ELSE hashtable_search(h, q)
            BY <1>0, <3>1, InsertOk
        <3> QED
            BY <2>5, <3>2, <3>3
    <2>7. ToSet(hashtable_search(g, p)) = ToSet(hashtable_search(h, p)) \cup {w}
        BY <1>2, <2>2, <2>3, <2>6
    <2> QED
        BY <1>1, <2>6, <2>7
<1>5. CASE wl # Null
    <2>1. PICK l : l = add_to_list(wl, w)
        OBVIOUS
    <2>2. l \in Lists /\ ToSet(l) = ToSet(wl) \cup {w}
        <3>1. wl \in Seq(Watchers) /\ NoRepeat(wl)
            BY <1>3, <1>5 DEF Lists
        <3> QED
            BY <2>1, <3>1, AddFacts DEF Lists
    <2>3. g = hashtable_update(h, p, l)
        BY <1>1, <1>2, <1>5, <2>1 DEF do_insert_watcher_object
    <2>4. /\ IsTable(g, Lists)
          /\ \A q \in Paths : hashtable_search(g, q) = IF q = p THEN l
                                                       ELSE hashtable_search(h, q)
        <3>1. hashtable_search(h, p) # Null /\ l \in Lists
            BY <1>2, <1>5, <2>2
        <3>2. IsTable(hashtable_update(h, p, l), Lists)
            BY <1>0, <3>1, UpdateOk
        <3>3. \A q \in Paths : hashtable_search(hashtable_update(h, p, l), q)
                                   = IF q = p THEN l ELSE hashtable_search(h, q)
            BY <1>0, <3>1, UpdateOk
        <3> QED
            BY <2>3, <3>2, <3>3
    <2>5. ToSet(hashtable_search(g, p)) = ToSet(hashtable_search(h, p)) \cup {w}
        BY <1>2, <2>2, <2>4
    <2> QED
        BY <1>1, <2>4, <2>5
<1> QED
    BY <1>4, <1>5

-----------------------------------------------------------------------------
(***************************************************************************)
(* The inductive invariant                                                 *)
(***************************************************************************)

(* What travels and waits. *)
Kinds   == {"get", "exists", "children"}
Changes == {"CREATED", "CHANGED", "CHILD", "DELETED"}
Halves  == {"data", "child"}

Reads    == [op : Kinds, path : Paths, watcher : Watchers, xid : Nat \ {0}]
KeySets  == {K \in SUBSET Paths : IsFiniteSet(K)}
Asked    == Reads \cup [op : {"setWatches"}, xid : {SET_WATCHES_XID}, zxid : Nat,
                        keys : [Tables -> KeySets]]
Replies  == [msg : {"reply"}, xid : (Nat \ {0}) \cup {SET_WATCHES_XID},
             rc : {"ZOK", "ZNONODE"}, zxid : Nat \ {0}]
Events   == [msg : {"event"}, xid : {WATCHER_EVENT_XID}, zxid : {-1},
             type : Changes, path : Paths, news : Nat]
Answers  == Replies \cup Events
Deliveries ==
    [type : Changes, path : Paths, list : Seq(Watchers)]
    \cup [type : {"SESSION"}, path : {Null}, list : Seq(Watchers \cup {DefaultWatcher})]

ClientShape ==
    /\ connected \in BOOLEAN /\ phase \in {"open", "cleaning", "gone"}
    /\ toSend \in Seq(Asked) /\ sent \in Seq(Reads)
    /\ lastZxid \in Nat /\ completions \in Seq(Deliveries)
    /\ \A i \in DOMAIN completions : NoRepeat(completions[i].list)
ServerShape ==
    /\ c2s \in Seq(Asked) /\ s2c \in Seq(Answers)
    /\ exists \in [Paths -> BOOLEAN]
    /\ mzxid \in [Paths -> Nat] /\ pzxid \in [Paths -> Nat]
    /\ zxid \in Nat /\ lastZxid <= zxid /\ zxid > 0
    /\ \A p \in Paths : mzxid[p] <= zxid /\ pzxid[p] <= zxid
    /\ armed \in [Halves -> SUBSET Paths]
CountShape ==
    /\ calls \in Nat /\ calls <= MaxCalls /\ Len(sent) <= calls
    /\ since \in [Tables -> [Paths -> [Watchers -> Nat]]]
    /\ owed \in [Paths -> [Watchers -> Int]]
TableInv ==
    /\ active = [t \in Tables |-> active[t]]
    /\ \A t \in Tables : IsTable(active[t], Lists)

(* Who has a positive number is a read or the reply to one. *)
Numbered(q) == {i \in DOMAIN q : q[i].xid > 0}
Numbers(q)  == {q[i].xid : i \in Numbered(q)}
Ascending(q) == \A i, j \in Numbered(q) : i < j => q[i].xid < q[j].xid

(* The reads on their way are those not answered yet, in their order.      *)
OrderInv ==
    /\ Ascending(sent) /\ Ascending(s2c) /\ Ascending(c2s) /\ Ascending(toSend)
    /\ \A x \in Numbers(s2c), y \in Numbers(c2s) : x < y
    /\ \A x \in Numbers(s2c), y \in Numbers(toSend) : x < y
    /\ \A x \in Numbers(c2s), y \in Numbers(toSend) : x < y
    /\ Numbers(s2c) \cup Numbers(c2s) \cup Numbers(toSend) = Numbers(sent)
    /\ \A x \in Numbers(sent) : x <= calls
    /\ \A r \in ToSet(c2s) \cup ToSet(toSend) : r.xid > 0 => r \in ToSet(sent)

(* send_set_watches comes first on a connection, and describes the tables  *)
(* as they are until the server has read it.                               *)
Fresh(m) == /\ armed = [h \in Halves |-> {}] /\ s2c = <<>>
            /\ m.zxid = lastZxid
            /\ \A t \in Tables : m.keys[t] = KeysIn(active[t])
AnnounceInv ==
    /\ \A i \in DOMAIN c2s : c2s[i].op = "setWatches" => i = 1 /\ Fresh(c2s[i])
    /\ \A i \in DOMAIN toSend : toSend[i].op = "setWatches" =>
           i = 1 /\ connected /\ c2s = <<>> /\ Fresh(toSend[i])
    /\ ~connected => c2s = <<>> /\ s2c = <<>>
    /\ ~connected /\ phase = "open" => armed = [h \in Halves |-> {}]
    /\ phase # "open" => ~connected /\ completions = <<>> /\ toSend = <<>>

(* Zxids grow along the connection. *)
ZxidInv ==
    /\ \A i \in DOMAIN s2c : s2c[i].msg = "reply" =>
           lastZxid <= s2c[i].zxid /\ s2c[i].zxid <= zxid
    /\ \A i, j \in DOMAIN s2c : i < j /\ s2c[i].msg = "reply" =>
           IF s2c[j].msg = "reply" THEN s2c[i].zxid <= s2c[j].zxid
           ELSE s2c[i].zxid < s2c[j].news
EventInv ==
    \A i \in DOMAIN s2c : s2c[i].msg = "event" =>
        /\ s2c[i].news <= zxid
        /\ s2c[i].type # "CHILD" => s2c[i].news <= mzxid[s2c[i].path]
        /\ exists[s2c[i].path] /\ s2c[i].type \in {"CHILD", "DELETED"} =>
               s2c[i].news <= pzxid[s2c[i].path]

(* One watches for a node to appear, or for one there to change.           *)
CompatInv ==
    \A p \in Paths : \/ ActiveOn("exist", p) = {}
                     \/ ActiveOn("node", p) = {} /\ ActiveOn("child", p) = {}

(* A registration of t on p since z: of an active watcher (place 0), or in *)
(* a reply on its way, at its place.                                       *)
EventFor(m, t, p) == m.msg = "event" /\ m.path = p /\ t \in ToSet(TablesOf(m.type))
AnswerTo(m, k)    == m.msg = "reply" /\ k \in DOMAIN sent /\ sent[k].xid = m.xid
Registered(n, t, p, z) ==
    \/ n = 0 /\ \E w \in ActiveOn(t, p) : since[t][p][w] = z
    \/ /\ n \in DOMAIN s2c /\ s2c[n].msg = "reply" /\ z = s2c[n].zxid
       /\ \E k \in DOMAIN sent : /\ sent[k].xid = s2c[n].xid /\ sent[k].path = p
                                 /\ t \in checker(sent[k].op, s2c[n].rc)
Between(n, j, t, p) == \E i \in DOMAIN s2c : n < i /\ i < j /\ EventFor(s2c[i], t, p)

(* If the path is as it was, it has changed since.                         *)
Aware(t, p, z) == (exists[p] <=> t = "exist") => z < mzxid[p]
Watched(n, t, p, z) ==
    connected => \/ Between(n, Len(s2c) + 1, t, p)
                 \/ n = 0 /\ Announced(t, p)
                 \/ p \in armed[Half(t)] /\ Unchanged(t, p, z)
News(n, t, p, z) ==
    \A j \in DOMAIN s2c : n < j /\ EventFor(s2c[j], t, p) => z < s2c[j].news
Agree(n, t, p) ==
    \A j \in DOMAIN s2c : \A k \in DOMAIN sent :
        /\ n < j /\ s2c[j].msg = "reply" /\ sent[k].xid = s2c[j].xid
        /\ sent[k].path = p /\ ~Between(n, j, t, p)
        => (s2c[j].rc = "ZNONODE" <=> t = "exist")
UpToDate(t, p, z) ==
    exists[p] => /\ t = "node" /\ mzxid[p] <= lastZxid => mzxid[p] <= z
                 /\ t = "child" /\ pzxid[p] <= lastZxid => pzxid[p] <= z

RegistrationInv ==
    \A n \in Nat, t \in Tables, p \in Paths, z \in Nat : Registered(n, t, p, z) =>
        /\ z <= zxid /\ Aware(t, p, z) /\ Watched(n, t, p, z)
        /\ News(n, t, p, z) /\ Agree(n, t, p)
        /\ n = 0 => z <= lastZxid /\ UpToDate(t, p, z)

ShapeInv == ClientShape /\ ServerShape /\ CountShape /\ TableInv

-----------------------------------------------------------------------------
(* Queues                                                                  *)

(* A queue with one more behind.                                           *)
LEMMA AppendAt ==
    ASSUME NEW S, NEW q \in Seq(S), NEW m \in S
    PROVE  /\ Append(q, m) \in Seq(S) /\ Len(Append(q, m)) = Len(q) + 1
           /\ DOMAIN Append(q, m) = 1..(Len(q) + 1) /\ DOMAIN q = 1..Len(q)
           /\ Len(q) \in Nat
           /\ \A i \in DOMAIN q : Append(q, m)[i] = q[i]
           /\ Append(q, m)[Len(q) + 1] = m
           /\ ToSet(Append(q, m)) = ToSet(q) \cup {m}
<1>1. PICK u : u = Append(q, m)
    OBVIOUS
<1>2. PICK n \in Nat : n = Len(q) /\ DOMAIN q = 1..n
    OBVIOUS
<1>3. u \in Seq(S) /\ Len(u) = n + 1 /\ DOMAIN u = 1..(n + 1)
    BY <1>1, <1>2, AppendProperties
<1>4. u[n + 1] = m
    BY <1>1, <1>2, AppendProperties
<1>5. \A i \in 1..n : u[i] = q[i]
    BY <1>1, <1>2, AppendProperties
<1>6. ToSet(u) = ToSet(q) \cup {m}
    <2>1. ASSUME NEW x \in ToSet(u) PROVE x \in ToSet(q) \cup {m}
        <3>1. PICK i \in 1..(n + 1) : x = u[i]
            BY <1>3 DEF ToSet
        <3>2. i = n + 1 \/ i \in 1..n
            BY <1>2
        <3> QED
            BY <1>2, <1>4, <1>5, <3>1, <3>2 DEF ToSet
    <2>2. ASSUME NEW x \in ToSet(q) PROVE x \in ToSet(u)
        <3>1. PICK i \in 1..n : x = q[i]
            BY <1>2 DEF ToSet
        <3>2. i \in 1..(n + 1)
            BY <1>2
        <3> QED
            BY <1>3, <1>5, <3>1, <3>2 DEF ToSet
    <2>3. m \in ToSet(u)
        <3>1. n + 1 \in 1..(n + 1)
            BY <1>2
        <3> QED
            BY <1>3, <1>4, <3>1 DEF ToSet
    <2> QED
        BY <2>1, <2>2, <2>3
<1> QED
    BY <1>1, <1>2, <1>3, <1>4, <1>5, <1>6

(* A queue without its head.                                               *)
LEMMA TailAt ==
    ASSUME NEW S, NEW q \in Seq(S), q # <<>>
    PROVE  /\ Tail(q) \in Seq(S) /\ Head(q) = q[1] /\ Head(q) \in S
           /\ Len(q) \in Nat /\ Len(q) > 0 /\ Len(Tail(q)) = Len(q) - 1
           /\ DOMAIN q = 1..Len(q) /\ DOMAIN Tail(q) = 1..(Len(q) - 1)
           /\ \A i \in DOMAIN Tail(q) : i + 1 \in DOMAIN q /\ Tail(q)[i] = q[i + 1]
           /\ \A i \in DOMAIN q : i # 1 => i - 1 \in DOMAIN Tail(q) /\ Tail(q)[i - 1] = q[i]
           /\ ToSet(q) = {Head(q)} \cup ToSet(Tail(q))
<1>1. PICK u : u = Tail(q)
    OBVIOUS
<1>2. PICK n \in Nat : n = Len(q) /\ n > 0 /\ DOMAIN q = 1..n
    OBVIOUS
<1>3. u \in Seq(S) /\ Len(u) = n - 1 /\ DOMAIN u = 1..(n - 1)
    BY <1>1, <1>2, HeadTailProperties
<1>4. \A i \in 1..(n - 1) : u[i] = q[i + 1]
    BY <1>1, <1>2, HeadTailProperties
<1>5. Head(q) = q[1] /\ q[1] \in S
    BY <1>2
<1>6. ASSUME NEW i \in 1..(n - 1) PROVE i + 1 \in 1..n
    BY <1>2
<1>7. ASSUME NEW i \in 1..n, i # 1 PROVE i - 1 \in 1..(n - 1) /\ u[i - 1] = q[i]
    <2>1. PICK j : j = i - 1
        OBVIOUS
    <2>2. j \in 1..(n - 1) /\ j + 1 = i
        BY <1>2, <1>7, <2>1
    <2> QED
        BY <1>4, <2>1, <2>2
<1>8. ToSet(q) = {q[1]} \cup ToSet(u)
    <2>1. ASSUME NEW x \in ToSet(q) PROVE x \in {q[1]} \cup ToSet(u)
        <3>1. PICK i \in 1..n : x = q[i]
            BY <1>2 DEF ToSet
        <3> QED
            BY <1>3, <1>7, <3>1 DEF ToSet
    <2>2. ASSUME NEW x \in ToSet(u) PROVE x \in ToSet(q)
        <3>1. PICK i \in 1..(n - 1) : x = u[i]
            BY <1>3 DEF ToSet
        <3> QED
            BY <1>2, <1>4, <1>6, <3>1 DEF ToSet
    <2>3. 1 \in 1..n
        BY <1>2
    <2> QED
        BY <1>2, <2>1, <2>2, <2>3 DEF ToSet
<1> QED
    BY <1>1, <1>2, <1>3, <1>4, <1>5, <1>6, <1>7, <1>8

Countable(S) == \A e \in S : e.xid \in Int

LEMMA NumbersNone == Numbers(<<>>) = {} /\ Ascending(<<>>) /\ ToSet(<<>>) = {}
<1>1. PICK q : q = <<>>
    OBVIOUS
<1>2. DOMAIN q = {}
    BY <1>1
<1>3. Numbers(q) = {} /\ Ascending(q) /\ ToSet(q) = {}
    BY <1>2 DEF Numbers, Ascending, Numbered, ToSet
<1> QED
    BY <1>1, <1>3

(* A number larger than all before it keeps the order.                     *)
LEMMA NumbersAppend ==
    ASSUME NEW S, Countable(S), NEW q \in Seq(S), NEW m \in S, Ascending(q),
           m.xid > 0 => \A x \in Numbers(q) : x < m.xid
    PROVE  /\ Ascending(Append(q, m))
           /\ Numbers(Append(q, m)) = Numbers(q) \cup {x \in {m.xid} : x > 0}
<1>0. PICK x0 \in Int : x0 = m.xid
    BY DEF Countable
<1>1. PICK u : u = Append(q, m)
    OBVIOUS
<1>2. PICK n \in Nat : n = Len(q) /\ DOMAIN q = 1..n
    OBVIOUS
<1>3. DOMAIN u = 1..(n + 1) /\ u[n + 1] = m
    BY <1>1, <1>2, AppendAt
<1>4. \A i \in 1..n : u[i] = q[i]
    BY <1>1, <1>2, AppendAt
<1>5. ASSUME NEW i \in Numbered(u)
      PROVE  i \in 1..(n + 1) /\ (i \in Numbered(q) \/ (i = n + 1 /\ x0 > 0))
    <2>1. i \in 1..(n + 1) /\ u[i].xid > 0
        BY <1>3 DEF Numbered
    <2>2. i = n + 1 \/ i \in 1..n
        BY <1>2, <2>1
    <2>3. CASE i = n + 1
        <3>1. u[i] = m
            BY <1>3, <2>3
        <3>2. x0 > 0
            BY <1>0, <2>1, <3>1
        <3> QED
            BY <2>1, <2>3, <3>2
    <2>4. CASE i \in 1..n
        BY <1>2, <1>4, <2>1, <2>4 DEF Numbered
    <2> QED
        BY <2>1, <2>2, <2>3, <2>4
<1>6. ASSUME NEW i \in Numbered(q) PROVE i \in 1..n /\ i \in Numbered(u) /\ u[i] = q[i]
    <2>1. i \in 1..n /\ q[i].xid > 0
        BY <1>2 DEF Numbered
    <2>2. i \in 1..(n + 1)
        BY <1>2, <2>1
    <2> QED
        BY <1>3, <1>4, <2>1, <2>2 DEF Numbered
<1>7. m.xid > 0 => n + 1 \in Numbered(u)
    <2>1. n + 1 \in 1..(n + 1)
        BY <1>2
    <2> QED
        BY <1>3, <2>1 DEF Numbered
<1>8. Numbers(u) = Numbers(q) \cup {x \in {m.xid} : x > 0}
    <2>1. ASSUME NEW x \in Numbers(u) PROVE x \in Numbers(q) \cup {y \in {m.xid} : y > 0}
        <3>1. PICK i \in Numbered(u) : x = u[i].xid
            BY DEF Numbers
        <3> QED
            BY <1>0, <1>3, <1>5, <1>6, <3>1 DEF Numbers
    <2>2. ASSUME NEW x \in Numbers(q) PROVE x \in Numbers(u)
        BY <1>6 DEF Numbers
    <2>3. m.xid > 0 => m.xid \in Numbers(u)
        BY <1>3, <1>7 DEF Numbers
    <2> QED
        BY <2>1, <2>2, <2>3
<1>9. ASSUME NEW i \in Numbered(u), NEW j \in Numbered(u), i < j
      PROVE  u[i].xid < u[j].xid
    <2>1. i \in Numbered(q)
        BY <1>2, <1>5, <1>9
    <2>2. CASE j \in Numbered(q)
        BY <1>6, <1>9, <2>1, <2>2 DEF Ascending
    <2>3. CASE j = n + 1 /\ x0 > 0
        <3>1. u[i].xid \in Numbers(q)
            BY <1>6, <2>1 DEF Numbers
        <3> QED
            BY <1>0, <1>3, <2>3, <3>1
    <2> QED
        BY <1>5, <2>2, <2>3
<1> QED
    BY <1>1, <1>8, <1>9 DEF Ascending

LEMMA NumbersTail ==
    ASSUME NEW S, Countable(S), NEW q \in Seq(S), q # <<>>, Ascending(q)
    PROVE  /\ Ascending(Tail(q))
           /\ Numbers(q) = Numbers(Tail(q)) \cup {x \in {Head(q).xid} : x > 0}
           /\ Head(q).xid > 0 => \A x \in Numbers(Tail(q)) : Head(q).xid < x
<1>1. PICK u : u = Tail(q)
    OBVIOUS
<1>2. PICK n \in Nat : n = Len(q) /\ n > 0 /\ DOMAIN q = 1..n
    OBVIOUS
<1>3. DOMAIN u = 1..(n - 1) /\ Head(q) = q[1]
    BY <1>1, <1>2, TailAt
<1>4. \A i \in DOMAIN u : i + 1 \in DOMAIN q /\ u[i] = q[i + 1]
    BY <1>1, TailAt
<1>5. \A i \in DOMAIN q : i # 1 => i - 1 \in DOMAIN u /\ u[i - 1] = q[i]
    BY <1>1, TailAt
<1>6. ASSUME NEW i \in Numbered(u)
      PROVE  i \in 1..(n - 1) /\ i + 1 \in Numbered(q) /\ u[i] = q[i + 1]
    BY <1>3, <1>4 DEF Numbered
<1>7. ASSUME NEW i \in Numbered(q), i # 1
      PROVE  i \in 1..n /\ i - 1 \in Numbered(u) /\ u[i - 1] = q[i]
    BY <1>2, <1>5, <1>7 DEF Numbered
<1>8. Ascending(u)
    <2> SUFFICES ASSUME NEW i \in Numbered(u), NEW j \in Numbered(u), i < j
                 PROVE  u[i].xid < u[j].xid
        BY DEF Ascending
    <2>1. i + 1 < j + 1
        BY <1>6
    <2> QED
        BY <1>6, <2>1 DEF Ascending
<1>9. Numbers(q) = Numbers(u) \cup {x \in {q[1].xid} : x > 0}
    <2>1. ASSUME NEW x \in Numbers(q) PROVE x \in Numbers(u) \cup {y \in {q[1].xid} : y > 0}
        <3>1. PICK i \in Numbered(q) : x = q[i].xid
            BY DEF Numbers
        <3>2. x > 0
            BY <3>1 DEF Numbered
        <3>3. CASE i = 1
            BY <3>1, <3>2, <3>3
        <3>4. CASE i # 1
            BY <1>7, <3>1, <3>4 DEF Numbers
        <3> QED
            BY <3>3, <3>4
    <2>2. ASSUME NEW x \in Numbers(u) PROVE x \in Numbers(q)
        <3>1. PICK i \in Numbered(u) : x = u[i].xid
            BY DEF Numbers
        <3> QED
            BY <1>6, <3>1 DEF Numbers
    <2>3. q[1].xid > 0 => q[1].xid \in Numbers(q)
        <3>1. 1 \in DOMAIN q
            BY <1>2
        <3> QED
            BY <3>1 DEF Numbers, Numbered
    <2> QED
        BY <2>1, <2>2, <2>3
<1>10. ASSUME q[1].xid > 0, NEW x \in Numbers(u) PROVE q[1].xid < x
    <2>1. PICK i \in Numbered(u) : x = u[i].xid
        BY DEF Numbers
    <2>2. i + 1 \in Numbered(q) /\ x = q[i + 1].xid /\ 1 < i + 1
        BY <1>6, <2>1
    <2>3. 1 \in Numbered(q)
        BY <1>2, <1>10 DEF Numbered
    <2> QED
        BY <2>2, <2>3 DEF Ascending
<1> QED
    BY <1>1, <1>3, <1>8, <1>9, <1>10

(* Two queues in order, one after the other.                               *)
LEMMA NumbersConcat ==
    ASSUME NEW S, Countable(S), NEW l \in Seq(S), NEW m \in Seq(S),
           Ascending(l), Ascending(m), \A x \in Numbers(l), y \in Numbers(m) : x < y
    PROVE  Ascending(l \o m) /\ Numbers(l \o m) = Numbers(l) \cup Numbers(m)
<1>1. PICK c : c = l \o m
    OBVIOUS
<1>2. PICK a \in Nat : a = Len(l) /\ DOMAIN l = 1..a
    OBVIOUS
<1>3. PICK b \in Nat : b = Len(m) /\ DOMAIN m = 1..b
    OBVIOUS
<1>4. DOMAIN c = 1..(a + b)
    BY <1>1, <1>2, <1>3, ConcatParts
<1>5. \A i \in 1..a : c[i] = l[i]
    BY <1>1, <1>2, ConcatParts
<1>6. \A i \in DOMAIN c : \/ i \in DOMAIN l /\ c[i] = l[i]
                          \/ \E j \in DOMAIN m : i = a + j /\ c[i] = m[j]
    BY <1>1, <1>2, ConcatPlaces
<1>7. \A j \in 1..b : c[a + j] = m[j]
    <2> SUFFICES ASSUME NEW j \in 1..b PROVE c[a + j] = m[j]
        OBVIOUS
    <2>1. a + j \in DOMAIN c /\ a + j \notin DOMAIN l
        BY <1>2, <1>3, <1>4
    <2>2. PICK k \in DOMAIN m : a + j = a + k /\ c[a + j] = m[k]
        BY <1>6, <2>1
    <2>3. k = j
        BY <1>2, <1>3, <2>2
    <2> QED
        BY <2>2, <2>3
<1>8. ASSUME NEW i \in Numbered(c)
      PROVE  \/ i \in Numbered(l) /\ c[i] = l[i]
             \/ \E j \in Numbered(m) : i = a + j /\ c[i] = m[j]
    BY <1>6 DEF Numbered
<1>9. ASSUME NEW i \in Numbered(l) PROVE i \in Numbered(c) /\ c[i] = l[i]
    <2>1. i \in 1..a /\ i \in 1..(a + b)
        BY <1>2, <1>3 DEF Numbered
    <2> QED
        BY <1>4, <1>5, <2>1 DEF Numbered
<1>10. ASSUME NEW j \in Numbered(m) PROVE a + j \in Numbered(c) /\ c[a + j] = m[j]
    <2>1. j \in 1..b /\ a + j \in 1..(a + b)
        BY <1>2, <1>3 DEF Numbered
    <2> QED
        BY <1>4, <1>7, <2>1 DEF Numbered
<1>11. Numbers(c) = Numbers(l) \cup Numbers(m)
    <2>1. ASSUME NEW x \in Numbers(c) PROVE x \in Numbers(l) \cup Numbers(m)
        <3>1. PICK i \in Numbered(c) : x = c[i].xid
            BY DEF Numbers
        <3> QED
            BY <1>8, <3>1 DEF Numbers
    <2>2. ASSUME NEW x \in Numbers(l) PROVE x \in Numbers(c)
        <3>1. PICK i \in Numbered(l) : x = l[i].xid
            BY DEF Numbers
        <3> QED
            BY <1>9, <3>1 DEF Numbers
    <2>3. ASSUME NEW x \in Numbers(m) PROVE x \in Numbers(c)
        <3>1. PICK i \in Numbered(m) : x = m[i].xid
            BY DEF Numbers
        <3> QED
            BY <1>10, <3>1 DEF Numbers
    <2> QED
        BY <2>1, <2>2, <2>3
<1>12. Ascending(c)
    <2> SUFFICES ASSUME NEW i \in Numbered(c), NEW j \in Numbered(c), i < j
                 PROVE  c[i].xid < c[j].xid
        BY DEF Ascending
    <2>1. CASE i \in Numbered(l) /\ c[i] = l[i] /\ j \in Numbered(l) /\ c[j] = l[j]
        BY <2>1 DEF Ascending
    <2>2. CASE i \in Numbered(l) /\ c[i] = l[i] /\ \E k \in Numbered(m) : c[j] = m[k]
        BY <2>2 DEF Numbers
    <2>3. CASE \E k \in Numbered(m) : i = a + k /\ c[i] = m[k]
        <3>1. PICK k \in Numbered(m) : i = a + k /\ c[i] = m[k]
            BY <2>3
        <3>2. k \in 1..b
            BY <1>3 DEF Numbered
        <3>3. j \notin Numbered(l)
            BY <1>2, <3>1, <3>2 DEF Numbered
        <3>4. PICK k2 \in Numbered(m) : j = a + k2 /\ c[j] = m[k2]
            BY <1>8, <3>3
        <3>5. k2 \in 1..b
            BY <1>3 DEF Numbered
        <3>6. k < k2
            BY <1>2, <3>1, <3>2, <3>4, <3>5
        <3> QED
            BY <3>1, <3>4, <3>6 DEF Ascending
    <2> QED
        BY <1>8, <2>1, <2>2, <2>3
<1> QED
    BY <1>1, <1>11, <1>12

-----------------------------------------------------------------------------
(* What the server and the tables answer                                   *)

LEMMA SetToSeqOk ==
    ASSUME NEW S, IsFiniteSet(S)
    PROVE  /\ SetToSeq(S) \in Seq(S) /\ ToSet(SetToSeq(S)) = S
<1>1. PICK n \in Nat : n = Cardinality(S) /\ ExistsBijection(1..n, S)
    BY FS_CardinalityType
<1>2. PICK g : g \in Bijection(1..n, S)
    BY <1>1 DEF ExistsBijection
<1>3. g \in [1..n -> S] /\ IsInjective(g)
    BY <1>2 DEF Bijection, Injection
<1>4. PICK f : f = SetToSeq(S)
    OBVIOUS
<1>5. f \in [1..n -> S] /\ IsInjective(f)
    BY <1>1, <1>3, <1>4 DEF SetToSeq
<1>6. f \in Injection(1..n, S)
    BY <1>5 DEF Injection
<1>7. IsFiniteSet(1..n) /\ Cardinality(1..n) = n
    BY FS_Interval
<1>8. f \in Surjection(1..n, S)
    BY <1>1, <1>6, <1>7, FS_Injection
<1>9. \A y \in S : \E i \in 1..n : f[i] = y
    BY <1>8 DEF Surjection
<1>10. ToSet(f) = S
    BY <1>5, <1>9 DEF ToSet
<1> QED
    BY <1>4, <1>5, <1>10, IsASeq

LEMMA ImageFinite ==
    ASSUME NEW S, IsFiniteSet(S), NEW f, DOMAIN f = S, f = [x \in S |-> f[x]]
    PROVE  IsFiniteSet({f[x] : x \in S})
<1>1. PICK T : T = {f[x] : x \in S}
    OBVIOUS
<1>2. f \in [S -> T]
    BY <1>1
<1>3. f \in Surjection(S, T)
    BY <1>1, <1>2 DEF Surjection
<1> QED
    BY <1>1, <1>3, FS_Surjection

-----------------------------------------------------------------------------
(* What the server answers send_set_watches                                *)

WatchedBy(m)  == {x \in Tables \X Paths : x[2] \in m.keys[x[1]]}
EventOf(e, x) == Event(e, x[2], IF e = "CHILD" THEN pzxid[x[2]] ELSE mzxid[x[2]])
DueEvents(m)  == UNION {{EventOf(e, x) : e \in Overdue(x[1], x[2], m.zxid)} :
                        x \in WatchedBy(m)}
Quiet(m, T)   == {x[2] : x \in {y \in WatchedBy(m) :
                                   y[1] \in T /\ Overdue(y[1], y[2], m.zxid) = {}}}

(* ServerSetWatches, in the names above.                                   *)
LEMMA SetWatchesIs ==
    ASSUME ServerSetWatches
    PROVE  /\ c2s # <<>> /\ Head(c2s).op = "setWatches"
           /\ s2c' = s2c \o SetToSeq(DueEvents(Head(c2s))) \o <<Reply(Head(c2s).xid, "ZOK")>>
           /\ armed' = [data  |-> armed.data \cup Quiet(Head(c2s), {"node", "exist"}),
                        child |-> armed.child \cup Quiet(Head(c2s), {"child"})]
           /\ c2s' = Tail(c2s)
           /\ UNCHANGED <<clientVars, exists, mzxid, pzxid, zxid, calls, connects, history>>
BY DEF ServerSetWatches, WatchedBy, EventOf, DueEvents, Quiet

LEMMA DueIsChange ==
    ASSUME NEW t \in Tables, NEW p, NEW z, NEW e \in Overdue(t, p, z)
    PROVE  e \in Changes
BY DEF Overdue, Changes, Tables

LEMMA DueOk ==
    ASSUME ServerShape, NEW m \in Asked, m.op = "setWatches"
    PROVE  /\ IsFiniteSet(DueEvents(m)) /\ DueEvents(m) \subseteq Events
           /\ m.xid = SET_WATCHES_XID /\ m.zxid \in Nat
<1>1. m.xid = SET_WATCHES_XID /\ m.zxid \in Nat /\ m.keys \in [Tables -> KeySets]
    BY DEF Asked, Reads, Kinds
<1>2. PICK K : K = UNION {m.keys[t] : t \in Tables}
    OBVIOUS
<1>3. IsFiniteSet(Tables)
    <2>1. IsFiniteSet({"node"} \cup {"exist"} \cup {"child"})
        <3>1. IsFiniteSet({"node"}) /\ IsFiniteSet({"exist"}) /\ IsFiniteSet({"child"})
            BY FS_Singleton
        <3>2. IsFiniteSet({"node"} \cup {"exist"})
            BY <3>1, FS_Union
        <3> QED
            BY <3>1, <3>2, FS_Union
    <2>2. Tables = {"node"} \cup {"exist"} \cup {"child"}
        BY DEF Tables
    <2> QED
        BY <2>1, <2>2
<1>4. IsFiniteSet(K) /\ K \subseteq Paths
    <2>1. K = m.keys["node"] \cup m.keys["exist"] \cup m.keys["child"]
        BY <1>2 DEF Tables
    <2>2. /\ IsFiniteSet(m.keys["node"]) /\ IsFiniteSet(m.keys["exist"])
          /\ IsFiniteSet(m.keys["child"])
        BY <1>1 DEF KeySets, Tables
    <2>3. IsFiniteSet(m.keys["node"] \cup m.keys["exist"])
        BY <2>2, FS_Union
    <2>4. IsFiniteSet(K)
        BY <2>1, <2>2, <2>3, FS_Union
    <2> QED
        BY <1>1, <1>2, <2>4 DEF KeySets
<1>5. IsFiniteSet(WatchedBy(m))
    <2>1. IsFiniteSet(Tables \X K)
        BY <1>3, <1>4, FS_Product
    <2>2. WatchedBy(m) \subseteq Tables \X K
        <3> SUFFICES ASSUME NEW x \in WatchedBy(m) PROVE x \in Tables \X K
            OBVIOUS
        <3>1. x \in Tables \X Paths /\ x[2] \in m.keys[x[1]]
            BY DEF WatchedBy
        <3>2. x[1] \in Tables /\ x[2] \in K
            BY <1>2, <3>1
        <3> QED
            BY <3>1, <3>2
    <2> QED
        BY <2>1, <2>2, FS_Subset
<1>6. IsFiniteSet(Changes)
    <2>1. /\ IsFiniteSet({"CREATED"}) /\ IsFiniteSet({"CHANGED"})
          /\ IsFiniteSet({"CHILD"}) /\ IsFiniteSet({"DELETED"})
        BY FS_Singleton
    <2>2. IsFiniteSet({"CREATED"} \cup {"CHANGED"})
        BY <2>1, FS_Union
    <2>3. IsFiniteSet({"CHILD"} \cup {"DELETED"})
        BY <2>1, FS_Union
    <2>4. IsFiniteSet(({"CREATED"} \cup {"CHANGED"}) \cup ({"CHILD"} \cup {"DELETED"}))
        BY <2>2, <2>3, FS_Union
    <2>5. Changes = ({"CREATED"} \cup {"CHANGED"}) \cup ({"CHILD"} \cup {"DELETED"})
        BY DEF Changes
    <2> QED
        BY <2>4, <2>5
<1>7. PICK D : D = WatchedBy(m) \X Changes
    OBVIOUS
<1>8. IsFiniteSet(D)
    BY <1>5, <1>6, <1>7, FS_Product
<1>9. PICK f : f = [y \in D |-> EventOf(y[2], y[1])]
    OBVIOUS
<1>10. IsFiniteSet({f[y] : y \in D})
    BY <1>8, <1>9, ImageFinite
<1>11. ASSUME NEW v \in DueEvents(m)
       PROVE  v \in {f[y] : y \in D} /\ v \in Events
    <2>1. PICK x \in WatchedBy(m) : v \in {EventOf(e, x) : e \in Overdue(x[1], x[2], m.zxid)}
        BY DEF DueEvents
    <2>2. PICK e \in Overdue(x[1], x[2], m.zxid) : v = EventOf(e, x)
        BY <2>1
    <2>3. x[1] \in Tables /\ x[2] \in Paths
        BY DEF WatchedBy
    <2>4. e \in Changes
        BY <2>2, <2>3, DueIsChange
    <2>5. <<x, e>> \in D /\ f[<<x, e>>] = EventOf(e, x)
        BY <1>7, <1>9, <2>1, <2>4
    <2>6. PICK z \in Nat : z = IF e = "CHILD" THEN pzxid[x[2]] ELSE mzxid[x[2]]
        BY <2>3 DEF ServerShape
    <2>7. v = Event(e, x[2], z)
        BY <2>2, <2>6 DEF EventOf
    <2>8. v \in Events
        BY <2>3, <2>4, <2>7 DEF Event, Events
    <2> QED
        BY <2>2, <2>5, <2>8
<1>12. IsFiniteSet(DueEvents(m))
    <2>1. DueEvents(m) \in SUBSET {f[y] : y \in D}
        BY <1>11
    <2> QED
        BY <1>10, <2>1, FS_Subset
<1> QED
    BY <1>1, <1>11, <1>12

(* What comes of a reconnect's answer: events due, then the reply.         *)
LEMMA AnswerOk ==
    ASSUME ServerShape, ServerSetWatches
    PROVE  \E ev \in Seq(Events) :
              /\ ToSet(ev) = DueEvents(Head(c2s))
              /\ s2c' = Append(s2c \o ev, Reply(SET_WATCHES_XID, "ZOK"))
              /\ Reply(SET_WATCHES_XID, "ZOK") \in Replies
              /\ s2c \o ev \in Seq(Answers)
<1>1. c2s # <<>> /\ Head(c2s).op = "setWatches"
    BY SetWatchesIs
<1>2. PICK m \in Asked : m = Head(c2s)
    BY <1>1, TailAt DEF ServerShape
<1>3. IsFiniteSet(DueEvents(m)) /\ DueEvents(m) \subseteq Events /\ m.xid = SET_WATCHES_XID
    BY <1>1, <1>2, DueOk
<1>4. PICK ev : ev = SetToSeq(DueEvents(m))
    OBVIOUS
<1>5. ev \in Seq(DueEvents(m)) /\ ToSet(ev) = DueEvents(m)
    BY <1>3, <1>4, SetToSeqOk
<1>6. ev \in Seq(Events)
    BY <1>3, <1>5, SeqMonotonic
<1>7. PICK r : r = Reply(SET_WATCHES_XID, "ZOK")
    OBVIOUS
<1>8. r \in Replies
    BY <1>7 DEF Reply, Replies, ServerShape
<1>9. s2c \in Seq(Answers) /\ ev \in Seq(Answers)
    BY <1>6, SeqMonotonic DEF ServerShape, Answers
<1>10. s2c \o ev \in Seq(Answers)
    BY <1>9, ConcatProperties
<1>11. s2c' = (s2c \o ev) \o <<r>>
    BY <1>2, <1>3, <1>4, <1>7, SetWatchesIs
<1>12. r \in Answers
    BY <1>8 DEF Answers
<1>13. s2c' = Append(s2c \o ev, r)
    BY <1>10, <1>11, <1>12, AppendIsConcat
<1> QED
    BY <1>2, <1>5, <1>6, <1>7, <1>8, <1>10, <1>13

LEMMA AskedCountable == Countable(Asked) /\ Countable(Answers) /\ Countable(Reads)
<1>1. ASSUME NEW e \in Asked PROVE e.xid \in Int
    BY DEF Asked, Reads, SET_WATCHES_XID
<1>2. ASSUME NEW e \in Answers PROVE e.xid \in Int
    BY DEF Answers, Replies, Events, SET_WATCHES_XID, WATCHER_EVENT_XID
<1>3. ASSUME NEW e \in Reads PROVE e.xid \in Int
    BY DEF Reads
<1> QED
    BY <1>1, <1>2, <1>3 DEF Countable

(* What a message is can be told from its number.                          *)
LEMMA Kind ==
    /\ \A m \in Asked : /\ m.op # "setWatches" <=> m.xid > 0
                        /\ m.op # "setWatches" <=> m \in Reads
                        /\ m.op = "setWatches" <=> m.xid = SET_WATCHES_XID
    /\ \A m \in Answers : /\ m.xid > 0 <=> m.msg = "reply" /\ m.xid # SET_WATCHES_XID
                          /\ m.msg = "reply" <=> m \in Replies
                          /\ m.msg = "event" <=> m \in Events
                          /\ m.msg \in {"reply", "event"}
    /\ \A r \in Reads : r.xid > 0 /\ r.op # "setWatches"
<1>1. ASSUME NEW m \in Reads PROVE m.op # "setWatches" /\ m.xid > 0
    BY DEF Reads, Kinds
<1>2. ASSUME NEW m \in Asked, m \notin Reads
      PROVE  m.op = "setWatches" /\ m.xid = SET_WATCHES_XID
    BY <1>2 DEF Asked
<1>3. SET_WATCHES_XID \in Int /\ ~(SET_WATCHES_XID > 0)
    BY DEF SET_WATCHES_XID
<1>4. ASSUME NEW m \in Replies
      PROVE  m.msg = "reply" /\ (m.xid > 0 <=> m.xid # SET_WATCHES_XID)
    BY <1>3 DEF Replies
<1>5. ASSUME NEW m \in Events PROVE m.msg = "event" /\ ~(m.xid > 0)
    BY DEF Events, WATCHER_EVENT_XID
<1>6. ASSUME NEW m \in Asked
      PROVE  /\ m.op # "setWatches" <=> m.xid > 0
             /\ m.op # "setWatches" <=> m \in Reads
             /\ m.op = "setWatches" <=> m.xid = SET_WATCHES_XID
    <2>1. CASE m \in Reads
        BY <1>1, <1>3, <2>1
    <2>2. CASE m \notin Reads
        BY <1>2, <1>3, <2>2
    <2> QED
        BY <2>1, <2>2
<1>7. ASSUME NEW m \in Answers
      PROVE  /\ m.xid > 0 <=> m.msg = "reply" /\ m.xid # SET_WATCHES_XID
             /\ m.msg = "reply" <=> m \in Replies
             /\ m.msg = "event" <=> m \in Events
             /\ m.msg \in {"reply", "event"}
    <2>1. CASE m \in Replies
        <3>1. m \notin Events
            BY <1>4, <1>5, <2>1
        <3> QED
            BY <1>4, <2>1, <3>1
    <2>2. CASE m \in Events
        <3>1. m \notin Replies
            BY <1>4, <1>5, <2>2
        <3> QED
            BY <1>5, <2>2, <3>1
    <2> QED
        BY <2>1, <2>2 DEF Answers
<1> QED
    BY <1>1, <1>6, <1>7

(* The reply that has come is that of the first request sent.              *)
LEMMA HeadMatches ==
    ASSUME ClientShape, ServerShape, OrderInv, s2c # <<>>,
           Head(s2c).msg = "reply", Head(s2c).xid # SET_WATCHES_XID
    PROVE  sent # <<>> /\ Head(sent).xid = Head(s2c).xid /\ Head(s2c).xid > 0
<1>1. s2c \in Seq(Answers) /\ sent \in Seq(Reads)
    BY DEF ClientShape, ServerShape
<1>2. PICK m \in Answers : m = Head(s2c)
    BY <1>1, TailAt
<1>3. m.xid \in Int /\ m.xid > 0
    BY <1>2, AskedCountable, Kind DEF Countable
<1>4. /\ Ascending(s2c) /\ Ascending(sent)
      /\ Numbers(s2c) \cup Numbers(c2s) \cup Numbers(toSend) = Numbers(sent)
    BY DEF OrderInv
<1>5. m.xid \in Numbers(s2c) /\ \A x \in Numbers(s2c) : x = m.xid \/ m.xid < x
    BY <1>1, <1>2, <1>3, <1>4, AskedCountable, NumbersTail
<1>6. \A x \in Numbers(c2s) \cup Numbers(toSend) : m.xid < x
    BY <1>5 DEF OrderInv
<1>7. \A x \in Numbers(sent) : x = m.xid \/ m.xid < x
    BY <1>4, <1>5, <1>6
<1>8. m.xid \in Numbers(sent)
    BY <1>4, <1>5
<1>9. sent # <<>>
    BY <1>8, NumbersNone
<1>10. PICK r \in Reads : r = Head(sent)
    BY <1>1, <1>9, TailAt
<1>11. r.xid \in Int /\ r.xid > 0
    BY AskedCountable, Kind DEF Countable
<1>12. r.xid \in Numbers(sent) /\ \A x \in Numbers(sent) : x = r.xid \/ r.xid < x
    BY <1>1, <1>4, <1>9, <1>10, <1>11, AskedCountable, NumbersTail
<1>13. r.xid = m.xid
    BY <1>3, <1>7, <1>8, <1>11, <1>12
<1> QED
    BY <1>2, <1>3, <1>9, <1>10, <1>13

-----------------------------------------------------------------------------
(* Tables and lists                                                        *)

(* A list in a table is not Null.                                          *)
LEMMA NoNull == Null \notin Lists
BY DEF Lists, Null

(* Who is active is in the list of the path; the path has a list if anyone *)
(* is.                                                                     *)
LEMMA ActiveList ==
    ASSUME TableInv, NEW t \in Tables, NEW p \in Paths
    PROVE  /\ hashtable_search(active[t], p) \in Seq(Watchers)
           /\ ActiveOn(t, p) \subseteq Watchers
           /\ ActiveOn(t, p) # {} <=> p \in KeysIn(active[t])
<1>1. PICK l : l = hashtable_search(active[t], p)
    OBVIOUS
<1>2. l \in Lists \cup {Null}
    BY <1>1, NoNull, SearchOk DEF TableInv, IsTable
<1>3. CASE l = Null
    <2>1. l \in Seq(Watchers) /\ ToSet(l) = {}
        <3>1. DOMAIN l = {} /\ l \in Seq(Watchers)
            BY <1>3 DEF Null
        <3> QED
            BY <3>1 DEF ToSet
    <2> QED
        BY <1>1, <1>3, <2>1 DEF ActiveOn, KeysIn
<1>4. CASE l \in Lists
    <2>1. l \in Seq(Watchers) /\ l # <<>> /\ l # Null
        BY <1>4, NoNull DEF Lists
    <2>2. l[1] \in ToSet(l) /\ ToSet(l) \subseteq Watchers
        <3>1. 1 \in DOMAIN l /\ \A i \in DOMAIN l : l[i] \in Watchers
            BY <2>1
        <3> QED
            BY <3>1 DEF ToSet
    <2> QED
        BY <1>1, <2>1, <2>2 DEF ActiveOn, KeysIn
<1> QED
    BY <1>2, <1>3, <1>4

LEMMA CopyTableOk ==
    ASSUME NEW h, IsTable(h, Lists), NEW S, Watchers \subseteq S, NEW to \in Seq(S), NoRepeat(to)
    PROVE  copy_table(h, to) \in Seq(S) /\ NoRepeat(copy_table(h, to))
<1>1. PICK all : all = Iterate(h)
    OBVIOUS
<1>2. all \in Seq(Entries(Lists))
    BY <1>1, IterateFacts DEF IsTable
<1>3. PICK ls : ls = [n \in DOMAIN all |-> all[n].v]
    OBVIOUS
<1>4. PICK k \in Nat : k = Len(all) /\ DOMAIN all = 1..k
    BY <1>2
<1>5. ASSUME NEW n \in 1..k PROVE ls[n] \in Seq(S)
    <2>1. all[n] \in Entries(Lists)
        BY <1>2, <1>4
    <2>2. ls[n] \in Seq(Watchers)
        BY <1>3, <1>4, <2>1 DEF Entries, Lists
    <2> QED
        BY <2>2, SeqMonotonic
<1>6. ls \in Seq(Seq(S))
    <2>1. ls \in [1..k -> Seq(S)]
        BY <1>3, <1>4, <1>5
    <2> QED
        BY <2>1, IsASeq
<1>7. copy_table(h, to) = copy_lists(ls, to)
    BY <1>1, <1>3 DEF copy_table
<1> QED
    BY <1>6, <1>7, CopyListsFacts

(* The list of a session event: nobody twice.                              *)
LEMMA SessionOk ==
    ASSUME TableInv
    PROVE  SessionEvent \in Deliveries /\ NoRepeat(SessionEvent.list)
<1>1. PICK S : S = Watchers \cup {DefaultWatcher}
    OBVIOUS
<1>2. Watchers \subseteq S
    BY <1>1
<1>3. PICK l0 : l0 = <<DefaultWatcher>>
    OBVIOUS
<1>4. l0 \in Seq(S) /\ NoRepeat(l0)
    <2>1. DefaultWatcher \in S
        BY <1>1
    <2>2. Len(l0) = 1 /\ DOMAIN l0 = 1..1
        BY <1>3
    <2>3. \A i \in 1..1 : i = 1
        OBVIOUS
    <2>4. NoRepeat(l0)
        BY <2>2, <2>3 DEF NoRepeat
    <2> QED
        BY <1>3, <2>1, <2>4
<1>5. \A t \in Tables : IsTable(active[t], Lists)
    BY DEF TableInv
<1>6. PICK l1 : l1 = copy_table(active["node"], l0)
    OBVIOUS
<1>7. l1 \in Seq(S) /\ NoRepeat(l1)
    BY <1>2, <1>4, <1>5, <1>6, CopyTableOk DEF Tables
<1>8. PICK l2 : l2 = copy_table(active["exist"], l1)
    OBVIOUS
<1>9. l2 \in Seq(S) /\ NoRepeat(l2)
    BY <1>2, <1>5, <1>7, <1>8, CopyTableOk DEF Tables
<1>10. PICK l3 : l3 = copy_table(active["child"], l2)
    OBVIOUS
<1>11. l3 \in Seq(S) /\ NoRepeat(l3)
    BY <1>2, <1>5, <1>9, <1>10, CopyTableOk DEF Tables
<1>12. active.node = active["node"] /\ active.exist = active["exist"] /\ active.child = active["child"]
    OBVIOUS
<1>13. SessionWatchers = l3
    BY <1>3, <1>6, <1>8, <1>10, <1>12 DEF SessionWatchers
<1>14. SessionEvent = [type |-> "SESSION", path |-> Null, list |-> l3]
    BY <1>13 DEF SessionEvent
<1>15. SessionEvent \in Deliveries
    BY <1>1, <1>11, <1>14 DEF Deliveries
<1> QED
    BY <1>11, <1>14, <1>15

(* Which tables an event looks in.                                         *)
LEMMA TablesOfOk ==
    ASSUME NEW e \in Changes
    PROVE  /\ TablesOf(e) \in Seq(Tables) /\ ToSet(TablesOf(e)) \subseteq Tables
           /\ "node" \in ToSet(TablesOf(e)) <=> e # "CHILD"
           /\ "exist" \in ToSet(TablesOf(e)) <=> e # "CHILD"
           /\ "child" \in ToSet(TablesOf(e)) <=> e \in {"CHILD", "DELETED"}
<1>1. CASE e \in {"CREATED", "CHANGED"}
    <2>1. PICK l : l = <<"node", "exist">>
        OBVIOUS
    <2>2. TablesOf(e) = l
        BY <1>1, <2>1 DEF TablesOf
    <2>3. l \in Seq(Tables) /\ DOMAIN l = {1, 2} /\ l[1] = "node" /\ l[2] = "exist"
        BY <2>1 DEF Tables
    <2>4. ToSet(l) = {"node", "exist"}
        BY <2>3 DEF ToSet
    <2> QED
        BY <1>1, <2>2, <2>3, <2>4 DEF Tables
<1>2. CASE e = "CHILD"
    <2>1. PICK l : l = <<"child">>
        OBVIOUS
    <2>2. TablesOf(e) = l
        BY <1>2, <2>1 DEF TablesOf
    <2>3. l \in Seq(Tables) /\ DOMAIN l = {1} /\ l[1] = "child"
        BY <2>1 DEF Tables
    <2>4. ToSet(l) = {"child"}
        BY <2>3 DEF ToSet
    <2> QED
        BY <1>2, <2>2, <2>3, <2>4 DEF Tables
<1>3. CASE e = "DELETED"
    <2>1. PICK l : l = <<"node", "exist", "child">>
        OBVIOUS
    <2>2. TablesOf(e) = l
        BY <1>3, <2>1 DEF TablesOf
    <2>3. l \in Seq(Tables) /\ DOMAIN l = {1, 2, 3} /\ l[1] = "node" /\ l[2] = "exist" /\ l[3] = "child"
        BY <2>1 DEF Tables
    <2>4. ToSet(l) = {"node", "exist", "child"}
        BY <2>3 DEF ToSet
    <2> QED
        BY <1>3, <2>2, <2>3, <2>4 DEF Tables
<1> QED
    BY <1>1, <1>2, <1>3 DEF Changes

(* The watchers an event finds, and what is left.                          *)
LEMMA CollectedOk ==
    ASSUME TableInv, NEW e \in Changes, NEW p \in Paths
    PROVE  /\ Collected(e, p) \in Seq(Watchers) /\ NoRepeat(Collected(e, p))
           /\ ToSet(Collected(e, p)) = UNION {ActiveOn(t, p) : t \in ToSet(TablesOf(e))}
<1>1. PICK from : from = TablesOf(e)
    OBVIOUS
<1>2. from \in Seq(Tables)
    BY <1>1, TablesOfOk
<1>3. PICK k \in Nat : k = Len(from) /\ DOMAIN from = 1..k
    BY <1>2
<1>4. PICK ls : ls = [n \in DOMAIN from |-> hashtable_search(active[from[n]], p)]
    OBVIOUS
<1>5. ASSUME NEW n \in 1..k
      PROVE  ls[n] \in Seq(Watchers) /\ ToSet(ls[n]) = ActiveOn(from[n], p) /\ from[n] \in Tables
    <2>1. from[n] \in Tables
        BY <1>2, <1>3
    <2>2. ls[n] = hashtable_search(active[from[n]], p)
        BY <1>3, <1>4
    <2> QED
        BY <2>1, <2>2, ActiveList DEF ActiveOn
<1>6. ls \in Seq(Seq(Watchers)) /\ DOMAIN ls = 1..k
    <2>1. ls \in [1..k -> Seq(Watchers)]
        BY <1>3, <1>4, <1>5
    <2> QED
        BY <2>1, IsASeq
<1>7. PICK none : none = <<>>
    OBVIOUS
<1>8. none \in Seq(Watchers) /\ NoRepeat(none) /\ ToSet(none) = {}
    <2>1. DOMAIN none = {} /\ none \in Seq(Watchers)
        BY <1>7
    <2> QED
        BY <2>1 DEF NoRepeat, ToSet
<1>9. Collected(e, p) = copy_lists(ls, none)
    BY <1>1, <1>4, <1>7 DEF Collected
<1>10. copy_lists(ls, none) \in Seq(Watchers) /\ NoRepeat(copy_lists(ls, none))
    BY <1>6, <1>8, CopyListsFacts
<1>11. ToSet(copy_lists(ls, none)) = (UNION {ToSet(ls[i]) : i \in DOMAIN ls}) \cup ToSet(none)
    BY <1>6, <1>8, CopyListsFacts
<1>12. UNION {ToSet(ls[i]) : i \in DOMAIN ls} = UNION {ActiveOn(t, p) : t \in ToSet(from)}
    <2>1. ASSUME NEW i \in 1..k
          PROVE  from[i] \in ToSet(from) /\ ToSet(ls[i]) = ActiveOn(from[i], p)
        BY <1>3, <1>5 DEF ToSet
    <2>2. ASSUME NEW t \in ToSet(from) PROVE \E i \in 1..k : ToSet(ls[i]) = ActiveOn(t, p)
        <3>1. PICK i \in 1..k : t = from[i]
            BY <1>3 DEF ToSet
        <3> QED
            BY <2>1, <3>1
    <2>3. \A x : x \in UNION {ToSet(ls[i]) : i \in 1..k}
                    <=> x \in UNION {ActiveOn(t, p) : t \in ToSet(from)}
        BY <2>1, <2>2
    <2> QED
        BY <1>6, <2>3
<1> QED
    BY <1>1, <1>8, <1>9, <1>10, <1>11, <1>12

(* The tables after an event.                                              *)
LEMMA RemainingOk ==
    ASSUME TableInv, NEW e \in Changes, NEW p \in Paths, NEW t \in Tables
    PROVE  /\ IsTable(Remaining(e, p)[t], Lists)
           /\ \A q \in Paths : ToSet(hashtable_search(Remaining(e, p)[t], q))
                 = IF t \in ToSet(TablesOf(e)) /\ q = p THEN {} ELSE ActiveOn(t, q)
<1>1. IsTable(active[t], Lists)
    BY DEF TableInv
<1>2. PICK g : g = Remaining(e, p)[t]
    OBVIOUS
<1>3. CASE t \in ToSet(TablesOf(e))
    <2>1. g = hashtable_remove(active[t], p)
        BY <1>2, <1>3 DEF Remaining
    <2>2. IsTable(g, Lists)
        BY <1>1, <2>1, NoNull, RemoveOk
    <2>3. \A q \in Paths : hashtable_search(g, q)
                             = IF q = p THEN Null ELSE hashtable_search(active[t], q)
        BY <1>1, <2>1, NoNull, RemoveOk
    <2>4. ToSet(Null) = {}
        BY NumbersNone DEF Null
    <2>5. ASSUME NEW q \in Paths
          PROVE  ToSet(hashtable_search(g, q))
                 = IF t \in ToSet(TablesOf(e)) /\ q = p THEN {} ELSE ActiveOn(t, q)
        BY <1>3, <2>3, <2>4 DEF ActiveOn
    <2> QED
        BY <1>2, <2>2, <2>5
<1>4. CASE t \notin ToSet(TablesOf(e))
    <2>1. g = active[t]
        BY <1>2, <1>4 DEF Remaining
    <2> QED
        BY <1>1, <1>2, <1>4, <2>1 DEF ActiveOn
<1> QED
    BY <1>3, <1>4

-----------------------------------------------------------------------------
(* The shapes are kept                                                     *)

LEMMA AnswerNamed ==
    ASSUME NEW rc \in {"ZOK", "ZNONODE"}, NEW x \in (Nat \ {0}) \cup {SET_WATCHES_XID},
           zxid \in Nat, zxid > 0
    PROVE  Reply(x, rc) \in Replies /\ Reply(x, rc) \in Answers
BY DEF Reply, Replies, Answers

LEMMA KeysFinite ==
    ASSUME TableInv, NEW t \in Tables
    PROVE  collect_keys(active[t]) = KeysIn(active[t]) /\ KeysIn(active[t]) \in KeySets
<1>1. IsTable(active[t], Lists)
    BY DEF TableInv
<1>2. collect_keys(active[t]) = KeysIn(active[t])
    BY <1>1, NoNull, KeysOk
<1>3. IsFiniteSet(KeysIn(active[t])) /\ KeysIn(active[t]) \subseteq Paths
    BY <1>1 DEF IsTable, KeysIn
<1> QED
    BY <1>2, <1>3 DEF KeySets

(* What send_set_watches puts in front.                                    *)
LEMMA SetWatchesFirst ==
    ASSUME TableInv, ClientShape
    PROVE  \/ /\ send_set_watches(toSend) = toSend
              /\ \A t \in Tables : KeysIn(active[t]) = {}
           \/ \E a \in Asked :
                 /\ a.op = "setWatches" /\ a.zxid = lastZxid
                 /\ \A t \in Tables : a.keys[t] = KeysIn(active[t])
                 /\ send_set_watches(toSend) = Cons(a, toSend)
<1>1. PICK keys : keys = [t \in Tables |-> collect_keys(active[t])]
    OBVIOUS
<1>2. keys \in [Tables -> KeySets] /\ \A t \in Tables : keys[t] = KeysIn(active[t])
    BY <1>1, KeysFinite
<1>3. CASE \A t \in Tables : keys[t] = {}
    <2>1. send_set_watches(toSend) = toSend
        BY <1>1, <1>3 DEF send_set_watches
    <2> QED
        BY <1>2, <1>3, <2>1
<1>4. CASE \E t \in Tables : keys[t] # {}
    <2>1. PICK a : a = [op |-> "setWatches", xid |-> SET_WATCHES_XID,
                        zxid |-> lastZxid, keys |-> keys]
        OBVIOUS
    <2>2. send_set_watches(toSend) = Cons(a, toSend)
        BY <1>1, <1>4, <2>1 DEF send_set_watches, Cons
    <2>3. a \in Asked /\ a.op = "setWatches" /\ a.zxid = lastZxid /\ a.keys = keys
        BY <1>2, <2>1 DEF ClientShape, Asked
    <2> QED
        BY <1>2, <2>2, <2>3
<1> QED
    BY <1>3, <1>4

-----------------------------------------------------------------------------
(* The steps, one by one                                                   *)

(* Next, action by action.                                                 *)
LEMMA NextCases ==
    ASSUME [Next]_vars
    PROVE  \/ \E kind \in Kinds, p \in Paths, w \in Watchers : Read(kind, p, w)
           \/ Connect \/ Disconnect \/ Flush \/ IoReply \/ IoEvent \/ Deliver
           \/ Close \/ CleanOne
           \/ phase = "open" /\ ServerRead
           \/ phase = "open" /\ ServerSetWatches
           \/ phase = "open" /\ \E type \in Changes, p \in Paths : ServerChange(type, p)
           \/ UNCHANGED vars
<1>1. Changing \subseteq Paths
    BY WatchesAssumption
<1>2. CASE phase = "open" /\ Server
    BY <1>1, <1>2 DEF Server, Changes
<1> QED
    BY <1>2 DEF Next, ClientStep, Kinds

LEMMA ShapeRead ==
    ASSUME ShapeInv, NEW kind \in Kinds, NEW p \in Paths, NEW w \in Watchers,
           Read(kind, p, w)
    PROVE  ShapeInv'
<1>1. PICK r : r = [op |-> kind, path |-> p, watcher |-> w, xid |-> calls']
    OBVIOUS
<1>2. /\ phase = "open" /\ calls < MaxCalls /\ calls' = calls + 1
      /\ sent' = Append(sent, r) /\ toSend' = Append(toSend, r)
      /\ UNCHANGED <<connected, active, lastZxid, completions, phase, c2s, s2c,
                     serverVars, connects, history>>
    BY <1>1 DEF Read
<1>3. calls \in Nat /\ MaxCalls \in Nat
    BY WatchesAssumption DEF ShapeInv, CountShape
<1>4. calls' \in Nat \ {0} /\ calls' <= MaxCalls
    BY <1>2, <1>3
<1>5. r \in Reads /\ r \in Asked
    BY <1>1, <1>4 DEF Reads, Asked
<1>6. sent' \in Seq(Reads) /\ Len(sent') = Len(sent) + 1 /\ toSend' \in Seq(Asked)
    BY <1>2, <1>5, AppendAt DEF ShapeInv, ClientShape
<1>7. ClientShape'
    BY <1>2, <1>6 DEF ShapeInv, ClientShape
<1>8. ServerShape'
    BY <1>2 DEF ShapeInv, ServerShape, serverVars
<1>9. CountShape'
    <2>1. Len(sent') <= calls'
        <3>1. Len(sent) \in Nat /\ Len(sent) <= calls
            BY DEF ShapeInv, ClientShape, CountShape
        <3> QED
            BY <1>2, <1>3, <1>6, <3>1
    <2> QED
        BY <1>2, <1>4, <2>1 DEF ShapeInv, CountShape, history
<1>10. TableInv'
    BY <1>2 DEF ShapeInv, TableInv
<1> QED
    BY <1>7, <1>8, <1>9, <1>10 DEF ShapeInv

(* Steps that leave the tables alone.                                      *)
LEMMA TablesKept ==
    ASSUME TableInv, active' = active
    PROVE  /\ TableInv'
           /\ \A t, p : ActiveOn(t, p)' = ActiveOn(t, p)
           /\ \A t : KeysIn(active[t])' = KeysIn(active[t])
BY DEF TableInv, ActiveOn

LEMMA Queued ==
    ASSUME ClientShape, NEW c \in Deliveries, NoRepeat(c.list),
           completions' = Append(completions, c)
    PROVE  /\ completions' \in Seq(Deliveries)
           /\ \A i \in DOMAIN completions' : NoRepeat(completions'[i].list)
<1>1. PICK u : u = completions'
    OBVIOUS
<1>2. /\ u \in Seq(Deliveries) /\ DOMAIN u = 1..(Len(completions) + 1)
      /\ u[Len(completions) + 1] = c /\ Len(completions) \in Nat
      /\ \A i \in 1..Len(completions) : u[i] = completions[i]
    BY <1>1, AppendAt DEF ClientShape
<1>3. \A i \in 1..Len(completions) : NoRepeat(completions[i].list)
    BY DEF ClientShape
<1>4. ASSUME NEW i \in DOMAIN u PROVE NoRepeat(u[i].list)
    <2>1. i = Len(completions) + 1 \/ i \in 1..Len(completions)
        BY <1>2
    <2> QED
        BY <1>2, <1>3, <2>1
<1> QED
    BY <1>1, <1>2, <1>4

LEMMA ShapeConnect ==
    ASSUME ShapeInv, Connect
    PROVE  ShapeInv'
<1>1. /\ toSend' = send_set_watches(toSend) /\ connected' = TRUE
      /\ completions' = Append(completions, SessionEvent)
      /\ UNCHANGED <<sent, active, lastZxid, phase, c2s, s2c, serverVars, calls, history>>
    BY DEF Connect
<1>2. toSend' \in Seq(Asked)
    BY <1>1, SetWatchesFirst, ConsFacts DEF ShapeInv, ClientShape
<1>3. /\ completions' \in Seq(Deliveries)
      /\ \A i \in DOMAIN completions' : NoRepeat(completions'[i].list)
    BY <1>1, SessionOk, Queued DEF ShapeInv
<1>4. ClientShape'
    BY <1>1, <1>2, <1>3 DEF ShapeInv, ClientShape
<1>5. ServerShape'
    BY <1>1 DEF ShapeInv, ServerShape, serverVars
<1>6. CountShape'
    BY <1>1 DEF ShapeInv, CountShape, history
<1>7. TableInv'
    BY <1>1, TablesKept DEF ShapeInv
<1> QED
    BY <1>4, <1>5, <1>6, <1>7 DEF ShapeInv

LEMMA ShapeFlush ==
    ASSUME ShapeInv, Flush
    PROVE  ShapeInv'
<1>1. /\ c2s' = c2s \o toSend /\ toSend' = <<>>
      /\ UNCHANGED <<connected, sent, active, lastZxid, completions, phase, s2c,
                     serverVars, calls, connects, history>>
    BY DEF Flush
<1>2. c2s' \in Seq(Asked)
    BY <1>1, ConcatProperties DEF ShapeInv, ClientShape, ServerShape
<1>3. ClientShape'
    BY <1>1 DEF ShapeInv, ClientShape
<1>4. ServerShape'
    BY <1>1, <1>2 DEF ShapeInv, ServerShape, serverVars
<1>5. CountShape'
    BY <1>1 DEF ShapeInv, CountShape, history
<1>6. TableInv'
    BY <1>1, TablesKept DEF ShapeInv
<1> QED
    BY <1>3, <1>4, <1>5, <1>6 DEF ShapeInv

LEMMA Emptied ==
    ASSUME toSend' = <<>>, sent' = <<>>, c2s' = <<>>, s2c' = <<>>
    PROVE  /\ toSend' \in Seq(Asked) /\ sent' \in Seq(Reads)
           /\ c2s' \in Seq(Asked) /\ s2c' \in Seq(Answers)
<1>1. /\ toSend' \in Seq(Asked)
    OBVIOUS
<1>2. sent' \in Seq(Reads)
    OBVIOUS
<1>3. c2s' \in Seq(Asked)
    OBVIOUS
<1>4. s2c' \in Seq(Answers)
    OBVIOUS
<1> QED
    BY <1>1, <1>2, <1>3, <1>4

LEMMA NoneSent ==
    ASSUME CountShape, sent' = <<>>, UNCHANGED <<calls, history>>
    PROVE  CountShape'
<1>1. Len(sent') = 0
    OBVIOUS
<1> QED
    BY <1>1 DEF CountShape, history

LEMMA NoneArmed == [h \in Halves |-> {}] \in [Halves -> SUBSET Paths]
OBVIOUS

LEMMA ShapeDisconnect ==
    ASSUME ShapeInv, Disconnect
    PROVE  ShapeInv'
<1>1. /\ connected' = FALSE /\ completions' = Append(completions, SessionEvent)
      /\ toSend' = <<>> /\ sent' = <<>> /\ c2s' = <<>> /\ s2c' = <<>>
      /\ armed' = [t \in Halves |-> {}]
      /\ UNCHANGED <<active, lastZxid, phase, exists, mzxid, pzxid, zxid, calls,
                     connects, history>>
    BY DEF Disconnect, Halves
<1>3. /\ completions' \in Seq(Deliveries)
      /\ \A i \in DOMAIN completions' : NoRepeat(completions'[i].list)
    BY <1>1, SessionOk, Queued DEF ShapeInv
<1>3a. /\ toSend' \in Seq(Asked) /\ sent' \in Seq(Reads)
      /\ c2s' \in Seq(Asked) /\ s2c' \in Seq(Answers)
    BY <1>1, Emptied
<1>4. ClientShape'
    BY <1>1, <1>3a, <1>3 DEF ShapeInv, ClientShape
<1>5. ServerShape'
    BY <1>1, <1>3a, NoneArmed DEF ShapeInv, ServerShape
<1>6. CountShape'
    BY <1>1, NoneSent DEF ShapeInv
<1>7. TableInv'
    BY <1>1, TablesKept DEF ShapeInv
<1> QED
    BY <1>4, <1>5, <1>6, <1>7 DEF ShapeInv

LEMMA ShapeClose ==
    ASSUME ShapeInv, Close
    PROVE  ShapeInv'
<1>1. /\ connected' = FALSE /\ phase' = "cleaning" /\ completions' = <<>>
      /\ toSend' = <<>> /\ sent' = <<>> /\ c2s' = <<>> /\ s2c' = <<>>
      /\ UNCHANGED <<active, lastZxid, serverVars, calls, connects, history>>
    BY DEF Close
<1>2. DOMAIN completions' = {} /\ completions' \in Seq(Deliveries)
    BY <1>1
<1>3a. /\ toSend' \in Seq(Asked) /\ sent' \in Seq(Reads)
      /\ c2s' \in Seq(Asked) /\ s2c' \in Seq(Answers)
    BY <1>1, Emptied
<1>4. ClientShape'
    BY <1>1, <1>3a, <1>2 DEF ShapeInv, ClientShape
<1>5. ServerShape'
    BY <1>1, <1>3a DEF ShapeInv, ServerShape, serverVars
<1>6. CountShape'
    BY <1>1, NoneSent DEF ShapeInv
<1>7. TableInv'
    BY <1>1, TablesKept DEF ShapeInv
<1> QED
    BY <1>4, <1>5, <1>6, <1>7 DEF ShapeInv

LEMMA OneTable ==
    ASSUME TableInv, NEW t \in Tables, NEW g, IsTable(g, Lists),
           active' = [active EXCEPT ![t] = g]
    PROVE  TableInv'
<1>1. active'[t] = g /\ \A x \in Tables \ {t} : active'[x] = active[x]
    BY DEF TableInv
<1>2. active' = [x \in Tables |-> active'[x]]
    BY DEF TableInv
<1>3. \A x \in Tables : IsTable(active'[x], Lists)
    BY <1>1 DEF TableInv
<1> QED
    BY <1>2, <1>3 DEF TableInv

LEMMA ShapeCleanOne ==
    ASSUME ShapeInv, CleanOne
    PROVE  ShapeInv'
<1>1. /\ phase = "cleaning" /\ phase' \in {"cleaning", "gone"}
      /\ UNCHANGED <<connected, toSend, sent, lastZxid, completions, c2s, s2c,
                     serverVars, calls, connects, history>>
    BY DEF CleanOne
<1>2. \/ active' = active
      \/ \E t \in Tables : hashtable_count(active[t]) > 0 /\
            active' = [active EXCEPT ![t] = hashtable_iterator_remove(active[t])]
    BY DEF CleanOne
<1>3. TableInv'
    <2>1. CASE active' = active
        BY <2>1, TablesKept DEF ShapeInv
    <2>2. ASSUME NEW t \in Tables, hashtable_count(active[t]) > 0,
                 active' = [active EXCEPT ![t] = hashtable_iterator_remove(active[t])]
          PROVE  TableInv'
        <3>1. IsTable(active[t], Lists)
            BY DEF ShapeInv, TableInv
        <3>2. IsTable(hashtable_iterator_remove(active[t]), Lists)
            BY <2>2, <3>1, NoNull, IteratorRemoveOk
        <3> QED
            BY <2>2, <3>2, OneTable DEF ShapeInv
    <2> QED
        BY <1>2, <2>1, <2>2
<1>4. ClientShape'
    BY <1>1 DEF ShapeInv, ClientShape
<1>5. ServerShape'
    BY <1>1 DEF ShapeInv, ServerShape, serverVars
<1>6. CountShape'
    BY <1>1 DEF ShapeInv, CountShape, history
<1> QED
    BY <1>3, <1>4, <1>5, <1>6 DEF ShapeInv

(* Where in a list someone is, in numbers.                                 *)
LEMMA PlacesCount ==
    ASSUME NEW S, NEW l \in Seq(S), NEW w
    PROVE  /\ Cardinality({i \in DOMAIN l : l[i] = w}) \in Nat
           /\ NoRepeat(l) => Cardinality({i \in DOMAIN l : l[i] = w})
                                = IF w \in ToSet(l) THEN 1 ELSE 0
<1>1. PICK I : I = {i \in DOMAIN l : l[i] = w}
    OBVIOUS
<1>2. IsFiniteSet(I)
    <2>1. PICK n \in Nat : DOMAIN l = 1..n
        OBVIOUS
    <2>2. IsFiniteSet(1..n)
        BY FS_Interval
    <2>3. I \in SUBSET (1..n)
        BY <1>1, <2>1
    <2> QED
        BY <2>2, <2>3, FS_Subset
<1>3. Cardinality(I) \in Nat
    BY <1>2, FS_CardinalityType
<1>4. ASSUME NoRepeat(l), w \in ToSet(l) PROVE Cardinality(I) = 1
    <2>1. PICK i \in DOMAIN l : l[i] = w
        BY <1>4 DEF ToSet
    <2>2. I = {i}
        BY <1>1, <1>4, <2>1 DEF NoRepeat
    <2> QED
        BY <2>2, FS_Singleton
<1>5. ASSUME w \notin ToSet(l) PROVE Cardinality(I) = 0
    <2>1. I = {}
        BY <1>1, <1>5 DEF ToSet
    <2> QED
        BY <2>1, FS_EmptySet
<1> QED
    BY <1>1, <1>3, <1>4, <1>5

LEMMA DeliveryKinds ==
    ASSUME NEW c \in Deliveries
    PROVE  /\ c.type # "SESSION" => c.path \in Paths /\ c.list \in Seq(Watchers)
                                    /\ c.type \in Changes
           /\ ToSet(c.list) \subseteq Watchers \cup {DefaultWatcher}
<1>1. CASE c \in [type : Changes, path : Paths, list : Seq(Watchers)]
    <2>1. \A i \in DOMAIN c.list : c.list[i] \in Watchers
        <3>1. c.list \in Seq(Watchers)
            BY <1>1
        <3> QED
            BY <3>1
    <2> QED
        BY <1>1, <2>1 DEF ToSet
<1>2. CASE c \in [type : {"SESSION"}, path : {Null}, list : Seq(Watchers \cup {DefaultWatcher})]
    <2>1. \A i \in DOMAIN c.list : c.list[i] \in Watchers \cup {DefaultWatcher}
        <3>1. c.list \in Seq(Watchers \cup {DefaultWatcher})
            BY <1>2
        <3> QED
            BY <3>1
    <2> QED
        BY <1>2, <2>1 DEF ToSet
<1> QED
    BY <1>1, <1>2 DEF Deliveries

LEMMA ShapeDeliver ==
    ASSUME ShapeInv, Deliver
    PROVE  ShapeInv'
<1>1. PICK c : c = Head(completions)
    OBVIOUS
<1>2. /\ completions # <<>> /\ completions' = Tail(completions)
      /\ owed' = IF c.type = "SESSION" THEN owed
                 ELSE [owed EXCEPT ![c.path] = [w \in Watchers |->
                          owed[c.path][w] - Cardinality({i \in DOMAIN c.list : c.list[i] = w})]]
      /\ UNCHANGED <<connected, toSend, sent, active, lastZxid, phase, c2s, s2c,
                     serverVars, calls, connects, since>>
    BY <1>1 DEF Deliver
<1>3. c \in Deliveries
    BY <1>1, <1>2, TailAt DEF ShapeInv, ClientShape
<1>4. owed' \in [Paths -> [Watchers -> Int]]
    <2>1. CASE c.type = "SESSION"
        BY <1>2, <2>1 DEF ShapeInv, CountShape
    <2>2. CASE c.type # "SESSION"
        <3>1. c.path \in Paths /\ c.list \in Seq(Watchers)
            BY <1>3, <2>2, DeliveryKinds
        <3>2. PICK f : f = [w \in Watchers |->
                  owed[c.path][w] - Cardinality({i \in DOMAIN c.list : c.list[i] = w})]
            OBVIOUS
        <3>3. f \in [Watchers -> Int]
            <4>1. ASSUME NEW w \in Watchers PROVE f[w] \in Int
                <5>1. Cardinality({i \in DOMAIN c.list : c.list[i] = w}) \in Nat
                    BY <3>1, PlacesCount
                <5>2. owed[c.path][w] \in Int
                    BY <3>1 DEF ShapeInv, CountShape
                <5> QED
                    BY <3>2, <5>1, <5>2
            <4> QED
                BY <3>2, <4>1
        <3>4. owed' = [owed EXCEPT ![c.path] = f]
            BY <1>2, <2>2, <3>2
        <3> QED
            BY <3>3, <3>4 DEF ShapeInv, CountShape
    <2> QED
        BY <2>1, <2>2
<1>5. /\ completions' \in Seq(Deliveries)
      /\ \A i \in DOMAIN completions' : NoRepeat(completions'[i].list)
    <2>1. PICK u : u = completions'
        OBVIOUS
    <2>2. /\ u \in Seq(Deliveries)
          /\ \A i \in DOMAIN u : i + 1 \in DOMAIN completions /\ u[i] = completions[i + 1]
        BY <1>2, <2>1, TailAt DEF ShapeInv, ClientShape
    <2>3. \A i \in DOMAIN u : NoRepeat(u[i].list)
        BY <2>2 DEF ShapeInv, ClientShape
    <2> QED
        BY <2>1, <2>2, <2>3
<1>6. ClientShape'
    BY <1>2, <1>5 DEF ShapeInv, ClientShape
<1>7. ServerShape'
    BY <1>2 DEF ShapeInv, ServerShape, serverVars
<1>8. CountShape'
    BY <1>2, <1>4 DEF ShapeInv, CountShape
<1>9. TableInv'
    BY <1>2, TablesKept DEF ShapeInv
<1> QED
    BY <1>6, <1>7, <1>8, <1>9 DEF ShapeInv

LEMMA ShapeIoEvent ==
    ASSUME ShapeInv, IoEvent
    PROVE  /\ ShapeInv' /\ Head(s2c) \in Events /\ lastZxid' = lastZxid
<1>1. PICK m : m = Head(s2c)
    OBVIOUS
<1>2. /\ s2c # <<>> /\ m.msg = "event" /\ s2c' = Tail(s2c)
      /\ completions' = Append(completions,
            [type |-> m.type, path |-> m.path, list |-> Collected(m.type, m.path)])
      /\ active' = Remaining(m.type, m.path) /\ TakeZxid(m)
      /\ UNCHANGED <<connected, toSend, sent, phase, c2s, serverVars, calls, connects, history>>
    BY <1>1 DEF IoEvent
<1>3. m \in Events /\ s2c' \in Seq(Answers)
    BY <1>1, <1>2, TailAt, Kind DEF ShapeInv, ServerShape
<1>4. m.type \in Changes /\ m.path \in Paths /\ ~(m.zxid > 0)
    BY <1>3 DEF Events
<1>5. lastZxid' = lastZxid
    BY <1>2, <1>4 DEF TakeZxid
<1>6. PICK c : c = [type |-> m.type, path |-> m.path, list |-> Collected(m.type, m.path)]
    OBVIOUS
<1>7. c \in Deliveries /\ NoRepeat(c.list)
    <2>1. Collected(m.type, m.path) \in Seq(Watchers) /\ NoRepeat(Collected(m.type, m.path))
        BY <1>4, CollectedOk DEF ShapeInv
    <2> QED
        BY <1>4, <1>6, <2>1 DEF Deliveries
<1>8. /\ completions' \in Seq(Deliveries)
      /\ \A i \in DOMAIN completions' : NoRepeat(completions'[i].list)
    BY <1>2, <1>6, <1>7, Queued DEF ShapeInv
<1>9. ClientShape'
    BY <1>2, <1>5, <1>8 DEF ShapeInv, ClientShape
<1>10. ServerShape'
    BY <1>2, <1>3, <1>5 DEF ShapeInv, ServerShape, serverVars
<1>11. CountShape'
    BY <1>2 DEF ShapeInv, CountShape, history
<1>12. TableInv'
    <2>1. \A t \in Tables : IsTable(active'[t], Lists)
        BY <1>2, <1>4, RemainingOk DEF ShapeInv
    <2>2. active' = [t \in Tables |-> active'[t]]
        BY <1>2 DEF Remaining
    <2> QED
        BY <2>1, <2>2 DEF TableInv
<1> QED
    BY <1>1, <1>3, <1>5, <1>9, <1>10, <1>11, <1>12 DEF ShapeInv

(* What a reply activates.                                                 *)
LEMMA CheckerOne ==
    ASSUME NEW kind \in Kinds, NEW rc \in {"ZOK", "ZNONODE"}
    PROVE  checker(kind, rc) = {} \/ \E t \in Tables : checker(kind, rc) = {t}
BY DEF checker, Kinds, Tables

LEMMA Activates ==
    ASSUME NEW r \in Reads, NEW rc \in {"ZOK", "ZNONODE"}, NEW z \in Nat,
           activateWatcher(r, rc, z)
    PROVE  \/ checker(r.op, rc) = {} /\ UNCHANGED <<active, since, owed>>
           \/ \E t \in Tables :
                 /\ checker(r.op, rc) = {t}
                 /\ active' = [active EXCEPT ![t] =
                                  do_insert_watcher_object(active[t], r.path, r.watcher)]
                 /\ since' = [since EXCEPT ![t][r.path][r.watcher] = z]
                 /\ owed' = [owed EXCEPT ![r.path][r.watcher] = owed[r.path][r.watcher] + 1]
<1>1. r.op \in Kinds
    BY DEF Reads
<1>2. CASE checker(r.op, rc) = {}
    BY <1>2 DEF activateWatcher
<1>3. ASSUME NEW t \in Tables, checker(r.op, rc) = {t}
      PROVE  /\ active' = [active EXCEPT ![t] =
                              do_insert_watcher_object(active[t], r.path, r.watcher)]
             /\ since' = [since EXCEPT ![t][r.path][r.watcher] = z]
             /\ owed' = [owed EXCEPT ![r.path][r.watcher] = owed[r.path][r.watcher] + 1]
    <2>1. (CHOOSE x \in checker(r.op, rc) : TRUE) = t
        BY <1>3
    <2> QED
        BY <1>3, <2>1 DEF activateWatcher
<1> QED
    BY <1>1, <1>2, <1>3, CheckerOne

Activation(r, rc, z, t) ==
    /\ checker(r.op, rc) = {t}
    /\ active' = [active EXCEPT ![t] =
                     do_insert_watcher_object(active[t], r.path, r.watcher)]
    /\ since' = [since EXCEPT ![t][r.path][r.watcher] = z]
    /\ owed' = [owed EXCEPT ![r.path][r.watcher] = owed[r.path][r.watcher] + 1]

(* IoReply, once it is known what has come.                                *)
LEMMA ReplyIs ==
    ASSUME ShapeInv, OrderInv, IoReply
    PROVE  /\ s2c # <<>> /\ Head(s2c) \in Replies /\ s2c' = Tail(s2c)
           /\ lastZxid' = Head(s2c).zxid
           /\ UNCHANGED <<connected, toSend, completions, phase, c2s, serverVars, calls, connects>>
           /\ \/ /\ Head(s2c).xid = SET_WATCHES_XID
                 /\ UNCHANGED <<sent, active, since, owed>>
              \/ /\ Head(s2c).xid # SET_WATCHES_XID /\ Head(s2c).xid > 0
                 /\ sent # <<>> /\ Head(sent) \in Reads /\ Head(sent).xid = Head(s2c).xid
                 /\ sent' = Tail(sent)
                 /\ \/ /\ checker(Head(sent).op, Head(s2c).rc) = {}
                       /\ UNCHANGED <<active, since, owed>>
                    \/ \E t \in Tables :
                          Activation(Head(sent), Head(s2c).rc, Head(s2c).zxid, t)
<1>1. PICK m : m = Head(s2c)
    OBVIOUS
<1>2. /\ s2c # <<>> /\ m.msg = "reply" /\ TakeZxid(m) /\ s2c' = Tail(s2c)
      /\ \/ m.xid = SET_WATCHES_XID /\ UNCHANGED <<sent, active, since, owed>>
         \/ /\ m.xid # SET_WATCHES_XID /\ sent' = Tail(sent)
            /\ activateWatcher(Head(sent), m.rc, m.zxid)
      /\ UNCHANGED <<connected, toSend, completions, phase, c2s, serverVars, calls, connects>>
    BY <1>1 DEF IoReply
<1>3. m \in Replies
    BY <1>1, <1>2, TailAt, Kind DEF ShapeInv, ServerShape
<1>4. m.zxid \in Nat /\ m.zxid > 0 /\ m.rc \in {"ZOK", "ZNONODE"}
    BY <1>3 DEF Replies
<1>5. lastZxid' = m.zxid
    BY <1>2, <1>4 DEF TakeZxid
<1>6. CASE m.xid = SET_WATCHES_XID
    BY <1>1, <1>2, <1>3, <1>5, <1>6
<1>7. CASE m.xid # SET_WATCHES_XID
    <2>1. sent # <<>> /\ Head(sent).xid = m.xid /\ m.xid > 0
        BY <1>1, <1>2, <1>7, HeadMatches DEF ShapeInv
    <2>2. PICK r \in Reads : r = Head(sent)
        BY <2>1, TailAt DEF ShapeInv, ClientShape
    <2>3. activateWatcher(r, m.rc, m.zxid)
        BY <1>2, <1>7, <2>2
    <2>4. \/ checker(r.op, m.rc) = {} /\ UNCHANGED <<active, since, owed>>
          \/ \E t \in Tables : Activation(r, m.rc, m.zxid, t)
        BY <1>4, <2>3, Activates DEF Activation
    <2> QED
        BY <1>1, <1>2, <1>3, <1>5, <1>7, <2>1, <2>2, <2>4
<1> QED
    BY <1>6, <1>7

LEMMA Activated ==
    ASSUME ShapeInv, NEW r \in Reads, NEW rc, NEW z \in Nat, NEW t \in Tables,
           Activation(r, rc, z, t)
    PROVE  /\ TableInv'
           /\ since' \in [Tables -> [Paths -> [Watchers -> Nat]]]
           /\ owed' \in [Paths -> [Watchers -> Int]]
<1>1. r.path \in Paths /\ r.watcher \in Watchers
    BY DEF Reads
<1>2. IsTable(active[t], Lists)
    BY DEF ShapeInv, TableInv
<1>3. PICK g : g = do_insert_watcher_object(active[t], r.path, r.watcher)
    OBVIOUS
<1>4. /\ IsTable(g, Lists)
      /\ ToSet(hashtable_search(g, r.path))
            = ToSet(hashtable_search(active[t], r.path)) \cup {r.watcher}
      /\ \A q \in Paths \ {r.path} : hashtable_search(g, q) = hashtable_search(active[t], q)
    BY <1>1, <1>2, <1>3, DoInsertOk
<1>5. active' = [active EXCEPT ![t] = g]
    BY <1>3 DEF Activation
<1>6. TableInv'
    BY <1>4, <1>5, OneTable DEF ShapeInv
<1>9. since \in [Tables -> [Paths -> [Watchers -> Nat]]] /\ owed \in [Paths -> [Watchers -> Int]]
    BY DEF ShapeInv, CountShape
<1>10. since' = [since EXCEPT ![t][r.path][r.watcher] = z]
    BY DEF Activation
<1>11. owed' = [owed EXCEPT ![r.path][r.watcher] = owed[r.path][r.watcher] + 1]
    BY DEF Activation
<1>12. since' \in [Tables -> [Paths -> [Watchers -> Nat]]]
    BY <1>1, <1>9, <1>10
<1>13. owed' \in [Paths -> [Watchers -> Int]]
    BY <1>1, <1>9, <1>11
<1> QED
    BY <1>6, <1>12, <1>13

(* activateWatcher adds its watcher to its table, and nobody else.         *)
LEMMA ActivatedOn ==
    ASSUME ShapeInv, NEW r \in Reads, NEW rc, NEW z \in Nat, NEW t \in Tables,
           Activation(r, rc, z, t)
    PROVE  \A x \in Tables, p \in Paths :
              ActiveOn(x, p)' = IF x = t /\ p = r.path THEN ActiveOn(x, p) \cup {r.watcher}
                                ELSE ActiveOn(x, p)
<1>1. r.path \in Paths /\ r.watcher \in Watchers
    BY DEF Reads
<1>2. IsTable(active[t], Lists)
    BY DEF ShapeInv, TableInv
<1>3. PICK g : g = do_insert_watcher_object(active[t], r.path, r.watcher)
    OBVIOUS
<1>4. /\ ToSet(hashtable_search(g, r.path))
            = ToSet(hashtable_search(active[t], r.path)) \cup {r.watcher}
      /\ \A q \in Paths \ {r.path} : hashtable_search(g, q) = hashtable_search(active[t], q)
    BY <1>1, <1>2, <1>3, DoInsertOk
<1>5. active' = [active EXCEPT ![t] = g]
    BY <1>3 DEF Activation
<1>6. active'[t] = g /\ \A x \in Tables \ {t} : active'[x] = active[x]
    BY <1>5 DEF ShapeInv, TableInv
<1> QED
    BY <1>4, <1>6 DEF ActiveOn

(* It is dated by the reply,                                               *)
LEMMA ActivatedSince ==
    ASSUME ShapeInv, NEW r \in Reads, NEW rc, NEW z \in Nat, NEW t \in Tables,
           Activation(r, rc, z, t)
    PROVE  \A x \in Tables, p \in Paths, w \in Watchers :
              since'[x][p][w] = IF x = t /\ p = r.path /\ w = r.watcher THEN z
                                ELSE since[x][p][w]
<1>1. r.path \in Paths /\ r.watcher \in Watchers
    BY DEF Reads
<1>2. since \in [Tables -> [Paths -> [Watchers -> Nat]]]
    BY DEF ShapeInv, CountShape
<1>3. since' = [since EXCEPT ![t][r.path][r.watcher] = z]
    BY DEF Activation
<1> QED
    BY <1>1, <1>2, <1>3

(* and owed one more call.                                                 *)
LEMMA ActivatedOwed ==
    ASSUME ShapeInv, NEW r \in Reads, NEW rc, NEW z \in Nat, NEW t \in Tables,
           Activation(r, rc, z, t)
    PROVE  \A p \in Paths, w \in Watchers :
              owed'[p][w] = IF p = r.path /\ w = r.watcher THEN owed[p][w] + 1
                            ELSE owed[p][w]
<1>1. r.path \in Paths /\ r.watcher \in Watchers
    BY DEF Reads
<1>2. owed \in [Paths -> [Watchers -> Int]]
    BY DEF ShapeInv, CountShape
<1>3. owed' = [owed EXCEPT ![r.path][r.watcher] = owed[r.path][r.watcher] + 1]
    BY DEF Activation
<1> QED
    BY <1>1, <1>2, <1>3

LEMMA ShapeIoReply ==
    ASSUME ShapeInv, OrderInv, ZxidInv, IoReply
    PROVE  ShapeInv'
<1>1. PICK m \in Replies : m = Head(s2c)
    BY ReplyIs
<1>2. /\ s2c # <<>> /\ s2c' = Tail(s2c) /\ lastZxid' = m.zxid
      /\ UNCHANGED <<connected, toSend, completions, phase, c2s, serverVars, calls, connects>>
    BY <1>1, ReplyIs
<1>3. s2c' \in Seq(Answers) /\ 1 \in DOMAIN s2c /\ m = s2c[1]
    BY <1>1, <1>2, TailAt DEF ShapeInv, ServerShape
<1>4. m.zxid \in Nat /\ m.zxid <= zxid
    <2>1. m.msg = "reply" /\ m.zxid \in Nat
        BY DEF Replies
    <2> QED
        BY <1>3, <2>1 DEF ZxidInv
<1>5. \/ UNCHANGED <<sent, active, since, owed>>
      \/ /\ sent # <<>> /\ sent' = Tail(sent) /\ Head(sent) \in Reads
         /\ \/ UNCHANGED <<active, since, owed>>
            \/ \E t \in Tables : Activation(Head(sent), m.rc, m.zxid, t)
    BY <1>1, ReplyIs
<1>6. sent' \in Seq(Reads) /\ Len(sent') <= calls
    <2>1. CASE sent' = sent
        BY <2>1 DEF ShapeInv, ClientShape, CountShape
    <2>2. CASE sent # <<>> /\ sent' = Tail(sent)
        <3>1. sent' \in Seq(Reads) /\ Len(sent') = Len(sent) - 1 /\ Len(sent) \in Nat
            BY <2>2, TailAt DEF ShapeInv, ClientShape
        <3>2. calls \in Nat /\ Len(sent) <= calls
            BY DEF ShapeInv, CountShape
        <3> QED
            BY <3>1, <3>2
    <2> QED
        BY <1>5, <2>1, <2>2
<1>7. /\ TableInv'
      /\ since' \in [Tables -> [Paths -> [Watchers -> Nat]]]
      /\ owed' \in [Paths -> [Watchers -> Int]]
    <2>1. CASE UNCHANGED <<active, since, owed>>
        BY <2>1, TablesKept DEF ShapeInv, CountShape
    <2>2. CASE Head(sent) \in Reads /\ \E t \in Tables : Activation(Head(sent), m.rc, m.zxid, t)
        BY <1>4, <2>2, Activated
    <2> QED
        BY <1>5, <2>1, <2>2
<1>8. ClientShape'
    BY <1>2, <1>4, <1>6 DEF ShapeInv, ClientShape
<1>9. ServerShape'
    BY <1>2, <1>3, <1>4 DEF ShapeInv, ServerShape, serverVars
<1>10. CountShape'
    BY <1>2, <1>6, <1>7 DEF ShapeInv, CountShape
<1> QED
    BY <1>7, <1>8, <1>9, <1>10 DEF ShapeInv

(* ServerRead, likewise.                                                   *)
HalfOf(kind) == IF kind = "children" THEN "child" ELSE "data"

(* ServerRead: the reply, and what is armed.                               *)
LEMMA ServerReadIs ==
    ASSUME ShapeInv, ServerRead
    PROVE  \E r \in Reads, rc \in {"ZOK", "ZNONODE"} :
             /\ c2s # <<>> /\ r = Head(c2s) /\ c2s' = Tail(c2s)
             /\ r.path \in Paths /\ (rc = "ZOK" <=> exists[r.path])
             /\ s2c' = Append(s2c, Reply(r.xid, rc)) /\ Reply(r.xid, rc) \in Replies
             /\ armed' = IF rc = "ZOK" \/ r.op = "exists"
                         THEN [armed EXCEPT ![HalfOf(r.op)] = @ \cup {r.path}] ELSE armed
             /\ UNCHANGED <<clientVars, exists, mzxid, pzxid, zxid, calls, connects, history>>
<1>1. c2s # <<>> /\ Head(c2s).op # "setWatches"
    BY DEF ServerRead
<1>2. PICK r \in Reads : r = Head(c2s)
    BY <1>1, TailAt, Kind DEF ShapeInv, ServerShape
<1>3. r.path \in Paths /\ r.xid \in Nat \ {0}
    BY DEF Reads
<1>4. PICK rc : rc = IF exists[r.path] THEN "ZOK" ELSE "ZNONODE"
    OBVIOUS
<1>5. rc \in {"ZOK", "ZNONODE"} /\ (rc = "ZOK" <=> exists[r.path])
    BY <1>4
<1>6. Reply(r.xid, rc) \in Replies
    BY <1>3, <1>5, AnswerNamed DEF ShapeInv, ServerShape
<1>7. /\ s2c' = Append(s2c, Reply(r.xid, rc)) /\ c2s' = Tail(c2s)
      /\ armed' = IF rc = "ZOK" \/ r.op = "exists"
                  THEN [armed EXCEPT ![HalfOf(r.op)] = @ \cup {r.path}] ELSE armed
      /\ UNCHANGED <<clientVars, exists, mzxid, pzxid, zxid, calls, connects, history>>
    BY <1>2, <1>4 DEF ServerRead, HalfOf
<1> QED
    BY <1>1, <1>2, <1>3, <1>5, <1>6, <1>7

LEMMA ShapeServerRead ==
    ASSUME ShapeInv, ServerRead
    PROVE  ShapeInv'
<1>1. PICK r \in Reads, rc \in {"ZOK", "ZNONODE"} :
             /\ c2s # <<>> /\ r = Head(c2s) /\ c2s' = Tail(c2s) /\ r.path \in Paths
             /\ s2c' = Append(s2c, Reply(r.xid, rc)) /\ Reply(r.xid, rc) \in Replies
             /\ armed' = IF rc = "ZOK" \/ r.op = "exists"
                         THEN [armed EXCEPT ![HalfOf(r.op)] = @ \cup {r.path}] ELSE armed
             /\ UNCHANGED <<clientVars, exists, mzxid, pzxid, zxid, calls, connects, history>>
    BY ServerReadIs
<1>2. s2c' \in Seq(Answers)
    <2>1. Reply(r.xid, rc) \in Answers
        BY <1>1 DEF Answers
    <2> QED
        BY <1>1, <2>1, AppendAt DEF ShapeInv, ServerShape
<1>3. c2s' \in Seq(Asked)
    BY <1>1, TailAt DEF ShapeInv, ServerShape
<1>4. armed' \in [Halves -> SUBSET Paths]
    <2>1. HalfOf(r.op) \in Halves
        BY DEF HalfOf, Halves
    <2> QED
        BY <1>1, <2>1 DEF ShapeInv, ServerShape
<1>5. ClientShape'
    BY <1>1 DEF ShapeInv, ClientShape, clientVars
<1>6. ServerShape'
    BY <1>1, <1>2, <1>3, <1>4 DEF ShapeInv, ServerShape, clientVars
<1>7. CountShape'
    BY <1>1 DEF ShapeInv, CountShape, clientVars, history
<1>8. TableInv'
    BY <1>1, TablesKept DEF ShapeInv, clientVars
<1> QED
    BY <1>5, <1>6, <1>7, <1>8 DEF ShapeInv

LEMMA ShapeServerSetWatches ==
    ASSUME ShapeInv, ServerSetWatches
    PROVE  ShapeInv'
<1>1. /\ c2s # <<>> /\ c2s' = Tail(c2s)
      /\ armed' = [data  |-> armed.data \cup Quiet(Head(c2s), {"node", "exist"}),
                   child |-> armed.child \cup Quiet(Head(c2s), {"child"})]
      /\ UNCHANGED <<clientVars, exists, mzxid, pzxid, zxid, calls, connects, history>>
    BY SetWatchesIs
<1>2. s2c' \in Seq(Answers)
    <2>1. PICK u \in Seq(Answers), a \in Replies : s2c' = Append(u, a)
        <3>1. ServerShape
            BY DEF ShapeInv
        <3> QED
            BY <3>1, AnswerOk
    <2>2. a \in Answers
        BY DEF Answers
    <2> QED
        BY <2>1, <2>2, AppendAt
<1>3. c2s' \in Seq(Asked)
    BY <1>1, TailAt DEF ShapeInv, ServerShape
<1>4. armed' \in [Halves -> SUBSET Paths]
    <2>1. \A m, T : Quiet(m, T) \subseteq Paths
        BY DEF Quiet, WatchedBy
    <2>2. armed.data \subseteq Paths /\ armed.child \subseteq Paths
        BY DEF ShapeInv, ServerShape, Halves
    <2> QED
        BY <1>1, <2>1, <2>2 DEF Halves
<1>5. ClientShape'
    BY <1>1 DEF ShapeInv, ClientShape, clientVars
<1>6. ServerShape'
    BY <1>1, <1>2, <1>3, <1>4 DEF ShapeInv, ServerShape, clientVars
<1>7. CountShape'
    BY <1>1 DEF ShapeInv, CountShape, clientVars, history
<1>8. TableInv'
    BY <1>1, TablesKept DEF ShapeInv, clientVars
<1> QED
    BY <1>5, <1>6, <1>7, <1>8 DEF ShapeInv

(* ServerChange; halves is the set of the kinds of watch concerned.        *)
HalvesOf(type) == CASE type \in {"CREATED", "CHANGED"} -> {"data"}
                    [] type = "CHILD"   -> {"child"}
                    [] type = "DELETED" -> {"data", "child"}

LEMMA ServerChangeIs ==
    ASSUME ShapeInv, NEW type \in Changes, NEW p \in Paths, ServerChange(type, p)
    PROVE  /\ type = "CREATED" <=> ~exists[p]
           /\ zxid' = zxid + 1
           /\ exists' = [exists EXCEPT ![p] = type # "DELETED"]
           /\ mzxid' = IF type = "CHILD" THEN mzxid ELSE [mzxid EXCEPT ![p] = zxid + 1]
           /\ pzxid' = IF type \in {"CHILD", "CREATED"}
                       THEN [pzxid EXCEPT ![p] = zxid + 1] ELSE pzxid
           /\ armed' = [h \in Halves |-> IF h \in HalvesOf(type) THEN armed[h] \ {p} ELSE armed[h]]
           /\ \/ /\ s2c' = Append(s2c, Event(type, p, zxid + 1))
                 /\ Event(type, p, zxid + 1) \in Events
                 /\ \E h \in HalvesOf(type) : p \in armed[h]
              \/ s2c' = s2c /\ \A h \in HalvesOf(type) : p \notin armed[h]
           /\ UNCHANGED <<clientVars, c2s, calls, connects, history>>
<1>1. zxid' = zxid + 1 /\ zxid + 1 \in Nat
    BY DEF ServerChange, ShapeInv, ServerShape
<1>2. Event(type, p, zxid + 1) \in Events
    BY <1>1 DEF Event, Events
<1>3. \/ s2c' = Append(s2c, Event(type, p, zxid + 1)) /\ \E h \in HalvesOf(type) : p \in armed[h]
      \/ s2c' = s2c /\ \A h \in HalvesOf(type) : p \notin armed[h]
    BY <1>1 DEF ServerChange, HalvesOf
<1>4. armed' = [h \in Halves |-> IF h \in HalvesOf(type) THEN armed[h] \ {p} ELSE armed[h]]
    BY DEF ServerChange, HalvesOf, Halves
<1>5. /\ type = "CREATED" <=> ~exists[p]
      /\ exists' = [exists EXCEPT ![p] = type # "DELETED"]
      /\ mzxid' = IF type = "CHILD" THEN mzxid ELSE [mzxid EXCEPT ![p] = zxid + 1]
      /\ pzxid' = IF type \in {"CHILD", "CREATED"}
                  THEN [pzxid EXCEPT ![p] = zxid + 1] ELSE pzxid
      /\ UNCHANGED <<clientVars, c2s, calls, connects, history>>
    BY <1>1 DEF ServerChange
<1> QED
    BY <1>1, <1>2, <1>3, <1>4, <1>5

LEMMA ShapeServerChange ==
    ASSUME ShapeInv, NEW type \in Changes, NEW p \in Paths, ServerChange(type, p)
    PROVE  ShapeInv'
<1>1. PICK z \in Nat : z = zxid /\ z > 0 /\ lastZxid <= z
    BY DEF ShapeInv, ServerShape
<1>2. /\ zxid' = z + 1
      /\ exists' = [exists EXCEPT ![p] = type # "DELETED"]
      /\ mzxid' = IF type = "CHILD" THEN mzxid ELSE [mzxid EXCEPT ![p] = z + 1]
      /\ pzxid' = IF type \in {"CHILD", "CREATED"} THEN [pzxid EXCEPT ![p] = z + 1] ELSE pzxid
      /\ armed' = [h \in Halves |-> IF h \in HalvesOf(type) THEN armed[h] \ {p} ELSE armed[h]]
      /\ UNCHANGED <<clientVars, c2s, calls, connects, history>>
    BY <1>1, ServerChangeIs
<1>3. exists' \in [Paths -> BOOLEAN]
    BY <1>2 DEF ShapeInv, ServerShape
<1>4. mzxid' \in [Paths -> Nat] /\ \A q \in Paths : mzxid'[q] <= z + 1
    BY <1>1, <1>2 DEF ShapeInv, ServerShape
<1>5. pzxid' \in [Paths -> Nat] /\ \A q \in Paths : pzxid'[q] <= z + 1
    BY <1>1, <1>2 DEF ShapeInv, ServerShape
<1>6. armed' \in [Halves -> SUBSET Paths]
    BY <1>2 DEF ShapeInv, ServerShape
<1>7. s2c' \in Seq(Answers)
    <2>1. CASE s2c' = s2c
        BY <2>1 DEF ShapeInv, ServerShape
    <2>2. CASE s2c' # s2c
        <3>1. PICK e \in Events : s2c' = Append(s2c, e)
            BY <2>2, ServerChangeIs
        <3>2. e \in Answers
            BY DEF Answers
        <3> QED
            BY <3>1, <3>2, AppendAt DEF ShapeInv, ServerShape
    <2> QED
        BY <2>1, <2>2
<1>8. ClientShape'
    BY <1>2 DEF ShapeInv, ClientShape, clientVars
<1>9. ServerShape'
    <2>1. zxid' \in Nat /\ lastZxid' <= zxid' /\ zxid' > 0 /\ c2s' \in Seq(Asked)
        <3>1. lastZxid \in Nat /\ lastZxid' = lastZxid
            BY <1>2 DEF ShapeInv, ClientShape, clientVars
        <3> QED
            BY <1>1, <1>2, <3>1 DEF ShapeInv, ServerShape
    <2> QED
        BY <1>2, <1>3, <1>4, <1>5, <1>6, <1>7, <2>1 DEF ServerShape
<1>10. CountShape'
    BY <1>2 DEF ShapeInv, CountShape, clientVars, history
<1>11. TableInv'
    BY <1>2, TablesKept DEF ShapeInv, clientVars
<1> QED
    BY <1>8, <1>9, <1>10, <1>11 DEF ShapeInv

LEMMA ShapeInit == Init => ShapeInv
<1> SUFFICES ASSUME Init PROVE ShapeInv
    OBVIOUS
<1>1. /\ connected = FALSE /\ phase = "open" /\ toSend = <<>> /\ sent = <<>>
      /\ c2s = <<>> /\ s2c = <<>> /\ lastZxid = 0 /\ completions = <<>>
      /\ exists \in [Paths -> BOOLEAN] /\ zxid = 1 /\ calls = 0
      /\ mzxid = [p \in Paths |-> 1] /\ pzxid = [p \in Paths |-> 1]
    BY DEF Init
<1>2. /\ toSend \in Seq(Asked) /\ sent \in Seq(Reads) /\ Len(sent) = 0
      /\ c2s \in Seq(Asked) /\ s2c \in Seq(Answers)
      /\ completions \in Seq(Deliveries) /\ DOMAIN completions = {}
    BY <1>1
<1>3. ClientShape
    BY <1>1, <1>2 DEF ClientShape
<1>4. armed \in [Halves -> SUBSET Paths]
    BY NoneArmed DEF Init, Halves
<1>5. ServerShape
    BY <1>1, <1>2, <1>4 DEF ServerShape
<1>6. since \in [Tables -> [Paths -> [Watchers -> Nat]]] /\ owed \in [Paths -> [Watchers -> Int]]
    BY DEF Init
<1>7. CountShape
    BY <1>1, <1>2, <1>6, WatchesAssumption DEF CountShape
<1>8. TableInv
    <2>1. active = [t \in Tables |-> create_hashtable]
        BY DEF Init
    <2>2. IsTable(create_hashtable, Lists)
        BY NoNull, CreateOk
    <2> QED
        BY <2>1, <2>2 DEF TableInv
<1> QED
    BY <1>3, <1>5, <1>7, <1>8 DEF ShapeInv

(* Every step keeps the shapes.                                            *)
LEMMA ShapeStep ==
    ASSUME ShapeInv, OrderInv, ZxidInv, [Next]_vars
    PROVE  ShapeInv'
<1>1. CASE UNCHANGED vars
    <2>1. ClientShape' /\ ServerShape' /\ CountShape'
        BY <1>1 DEF vars, clientVars, serverVars, history, ShapeInv, ClientShape, ServerShape, CountShape
    <2>2. TableInv'
        BY <1>1, TablesKept DEF ShapeInv, vars, clientVars
    <2> QED
        BY <2>1, <2>2 DEF ShapeInv
<1> QED
    BY <1>1, NextCases, ShapeRead, ShapeConnect, ShapeDisconnect, ShapeFlush, ShapeIoReply,
       ShapeIoEvent, ShapeDeliver, ShapeClose, ShapeCleanOne, ShapeServerRead,
       ShapeServerSetWatches, ShapeServerChange

-----------------------------------------------------------------------------
(* send_set_watches comes first                                            *)

NoneAnnounced == /\ \A i \in DOMAIN c2s : c2s[i].op # "setWatches"
                 /\ \A i \in DOMAIN toSend : toSend[i].op # "setWatches"

LEMMA NothingAnnounced ==
    ASSUME AnnounceInv, \/ s2c # <<>>
                        \/ c2s # <<>> /\ c2s[1].op # "setWatches"
                        \/ phase # "open"
    PROVE  NoneAnnounced
<1>1. CASE s2c # <<>>
    BY <1>1 DEF AnnounceInv, Fresh, NoneAnnounced
<1>2. CASE c2s # <<>> /\ c2s[1].op # "setWatches"
    BY <1>2 DEF AnnounceInv, NoneAnnounced
<1>3. CASE phase # "open"
    <2>1. DOMAIN c2s = {} /\ DOMAIN toSend = {}
        BY <1>3 DEF AnnounceInv
    <2> QED
        BY <2>1 DEF NoneAnnounced
<1> QED
    BY <1>1, <1>2, <1>3

LEMMA AnnounceNone ==
    ASSUME NoneAnnounced',
           ~connected' => c2s' = <<>> /\ s2c' = <<>>,
           ~connected' /\ phase' = "open" => armed' = [h \in Halves |-> {}],
           phase' # "open" => ~connected' /\ completions' = <<>> /\ toSend' = <<>>
    PROVE  AnnounceInv'
BY DEF AnnounceInv, NoneAnnounced

LEMMA AnnounceRead ==
    ASSUME ShapeInv, AnnounceInv, NEW kind \in Kinds, NEW p \in Paths, NEW w \in Watchers,
           Read(kind, p, w)
    PROVE  AnnounceInv'
<1>1. PICK r : r = [op |-> kind, path |-> p, watcher |-> w, xid |-> calls']
    OBVIOUS
<1>2. /\ phase = "open" /\ toSend' = Append(toSend, r)
      /\ UNCHANGED <<connected, active, lastZxid, completions, phase, c2s, s2c, armed>>
    BY <1>1 DEF Read, serverVars
<1>3. r \in Asked /\ r.op # "setWatches"
    <2>1. calls' \in Nat \ {0}
        <3>1. calls \in Nat /\ calls' = calls + 1
            BY DEF ShapeInv, CountShape, Read
        <3> QED
            BY <3>1
    <2> QED
        BY <1>1, <2>1 DEF Asked, Reads, Kinds
<1>4. PICK u : u = toSend'
    OBVIOUS
<1>5. /\ DOMAIN u = 1..(Len(toSend) + 1) /\ DOMAIN toSend = 1..Len(toSend) /\ Len(toSend) \in Nat
      /\ u[Len(toSend) + 1] = r /\ \A i \in DOMAIN toSend : u[i] = toSend[i]
    BY <1>2, <1>3, <1>4, AppendAt DEF ShapeInv, ClientShape
<1>6. ASSUME NEW i \in DOMAIN u, u[i].op = "setWatches"
      PROVE  i \in DOMAIN toSend /\ u[i] = toSend[i]
    <2>1. i # Len(toSend) + 1
        BY <1>3, <1>5, <1>6
    <2> QED
        BY <1>5, <2>1
<1>7. \A i \in DOMAIN toSend' : toSend'[i].op = "setWatches" =>
           i = 1 /\ connected' /\ c2s' = <<>> /\ Fresh(toSend[i])'
    <2> SUFFICES ASSUME NEW i \in DOMAIN toSend', toSend'[i].op = "setWatches"
                 PROVE  i = 1 /\ connected' /\ c2s' = <<>> /\ Fresh(toSend[i])'
        OBVIOUS
    <2>1. i \in DOMAIN toSend /\ toSend'[i] = toSend[i]
        BY <1>4, <1>6
    <2>2. i = 1 /\ connected /\ c2s = <<>> /\ Fresh(toSend[i])
        BY <1>4, <2>1 DEF AnnounceInv
    <2> QED
        BY <1>2, <2>1, <2>2 DEF Fresh
<1>8. \A i \in DOMAIN c2s' : c2s'[i].op = "setWatches" => i = 1 /\ Fresh(c2s[i])'
    BY <1>2 DEF AnnounceInv, Fresh
<1> QED
    BY <1>2, <1>7, <1>8 DEF AnnounceInv

(* Steps after which what was announced is as it was.                      *)
LEMMA AnnounceKept ==
    ASSUME AnnounceInv, UNCHANGED <<connected, phase, c2s, toSend, s2c, armed, lastZxid, active>>,
           completions = <<>> => completions' = <<>> \/ phase = "open"
    PROVE  AnnounceInv'
BY DEF AnnounceInv, Fresh

LEMMA AnnounceConnect ==
    ASSUME ShapeInv, AnnounceInv, Connect
    PROVE  AnnounceInv'
<1>1. /\ phase = "open" /\ connected = FALSE
      /\ toSend' = send_set_watches(toSend) /\ connected' = TRUE
      /\ UNCHANGED <<active, lastZxid, phase, c2s, s2c, armed>>
    BY DEF Connect, serverVars, ShapeInv, ClientShape
<1>2. /\ c2s = <<>> /\ s2c = <<>> /\ armed = [h \in Halves |-> {}]
      /\ \A i \in DOMAIN toSend : toSend[i].op # "setWatches"
    BY <1>1 DEF AnnounceInv
<1>3. PICK u : u = toSend'
    OBVIOUS
<1>4. ASSUME NEW i \in DOMAIN u, u[i].op = "setWatches"
      PROVE  /\ i = 1 /\ u[i].zxid = lastZxid
             /\ \A t \in Tables : u[i].keys[t] = KeysIn(active[t])
    <2>1. u # toSend
        BY <1>2, <1>4
    <2>2. PICK a \in Asked : /\ a.zxid = lastZxid
                             /\ \A t \in Tables : a.keys[t] = KeysIn(active[t])
                             /\ u = Cons(a, toSend)
        BY <1>1, <1>3, <2>1, SetWatchesFirst DEF ShapeInv
    <2>3. /\ DOMAIN u = 1..(Len(toSend) + 1) /\ u[1] = a /\ Len(toSend) \in Nat
          /\ DOMAIN toSend = 1..Len(toSend)
          /\ \A j \in 1..Len(toSend) : u[j + 1] = toSend[j]
        <3>1. toSend \in Seq(Asked)
            BY DEF ShapeInv, ClientShape
        <3>2. DOMAIN toSend = 1..Len(toSend) /\ Len(toSend) \in Nat
            BY <3>1
        <3>3. DOMAIN Cons(a, toSend) = 1..(Len(toSend) + 1) /\ Cons(a, toSend)[1] = a
            BY <3>1, ConsFacts
        <3>4. \A j \in 1..Len(toSend) : Cons(a, toSend)[j + 1] = toSend[j]
            BY <3>1, ConsFacts
        <3> QED
            BY <2>2, <3>2, <3>3, <3>4
    <2>4. CASE i = 1
        BY <2>2, <2>3, <2>4
    <2>5. CASE i # 1
        <3>1. i - 1 \in 1..Len(toSend) /\ (i - 1) + 1 = i
            BY <2>3, <2>5
        <3> QED
            BY <1>2, <1>4, <2>3, <3>1
    <2> QED
        BY <2>4, <2>5
<1>5. \A i \in DOMAIN toSend' : toSend'[i].op = "setWatches" =>
           i = 1 /\ connected' /\ c2s' = <<>> /\ Fresh(toSend[i])'
    BY <1>1, <1>2, <1>3, <1>4 DEF Fresh
<1>6. DOMAIN c2s' = {}
    BY <1>1, <1>2
<1> QED
    BY <1>1, <1>5, <1>6 DEF AnnounceInv

LEMMA AnnounceFlush ==
    ASSUME ShapeInv, AnnounceInv, Flush
    PROVE  AnnounceInv'
<1>1. /\ connected /\ c2s' = c2s \o toSend /\ toSend' = <<>>
      /\ UNCHANGED <<connected, active, lastZxid, completions, phase, s2c, armed>>
    BY DEF Flush, serverVars
<1>2. PICK u : u = c2s'
    OBVIOUS
<1>3. ASSUME NEW i \in DOMAIN u, u[i].op = "setWatches"
      PROVE  i = 1 /\ armed = [h \in Halves |-> {}] /\ s2c = <<>> /\ u[i].zxid = lastZxid
             /\ \A t \in Tables : u[i].keys[t] = KeysIn(active[t])
    <2>1. \/ i \in DOMAIN c2s /\ u[i] = c2s[i]
          \/ \E j \in DOMAIN toSend : i = Len(c2s) + j /\ u[i] = toSend[j]
        BY <1>1, <1>2, ConcatPlaces DEF ShapeInv, ClientShape, ServerShape
    <2>2. CASE i \in DOMAIN c2s /\ u[i] = c2s[i]
        BY <1>3, <2>2 DEF AnnounceInv, Fresh
    <2>3. ASSUME NEW j \in DOMAIN toSend, i = Len(c2s) + j, u[i] = toSend[j]
          PROVE  i = 1 /\ Fresh(toSend[j])
        <3>1. j = 1 /\ c2s = <<>> /\ Fresh(toSend[j])
            BY <1>3, <2>3 DEF AnnounceInv
        <3>2. Len(c2s) = 0
            BY <3>1
        <3> QED
            BY <2>3, <3>1, <3>2
    <2> QED
        BY <2>1, <2>2, <2>3 DEF Fresh
<1>4. \A i \in DOMAIN c2s' : c2s'[i].op = "setWatches" => i = 1 /\ Fresh(c2s[i])'
    BY <1>1, <1>2, <1>3 DEF Fresh
<1>5. DOMAIN toSend' = {}
    BY <1>1
<1> QED
    BY <1>1, <1>4, <1>5 DEF AnnounceInv

LEMMA AnnounceEmptied ==
    ASSUME AnnounceInv, Disconnect \/ Close
    PROVE  AnnounceInv'
<1>1. DOMAIN c2s' = {} /\ DOMAIN toSend' = {}
    BY DEF Disconnect, Close
<1>2. NoneAnnounced'
    BY <1>1 DEF NoneAnnounced
<1>3. CASE Disconnect
    BY <1>2, <1>3, AnnounceNone DEF Disconnect, Halves
<1>4. CASE Close
    BY <1>2, <1>4, AnnounceNone DEF Close
<1> QED
    BY <1>3, <1>4

LEMMA AnnounceIo ==
    ASSUME ShapeInv, AnnounceInv, IoReply \/ IoEvent
    PROVE  AnnounceInv'
<1>1. /\ s2c # <<>> /\ UNCHANGED <<connected, toSend, phase, c2s, armed>>
    BY DEF IoReply, IoEvent, serverVars
<1>2. connected /\ phase = "open"
    BY <1>1 DEF AnnounceInv
<1>3. NoneAnnounced
    BY <1>1, NothingAnnounced
<1>4. NoneAnnounced'
    BY <1>1, <1>3 DEF NoneAnnounced
<1> QED
    BY <1>1, <1>2, <1>4, AnnounceNone

LEMMA AnnounceCleanOne ==
    ASSUME AnnounceInv, CleanOne
    PROVE  AnnounceInv'
<1>1. /\ phase = "cleaning" /\ phase' # "open"
      /\ UNCHANGED <<connected, toSend, completions, c2s, s2c>>
    BY DEF CleanOne
<1>2. ~connected /\ completions = <<>> /\ toSend = <<>> /\ c2s = <<>> /\ s2c = <<>>
    BY <1>1 DEF AnnounceInv
<1>3. NoneAnnounced
    BY <1>1, NothingAnnounced
<1>4. NoneAnnounced'
    BY <1>1, <1>3 DEF NoneAnnounced
<1> QED
    BY <1>1, <1>2, <1>4, AnnounceNone

LEMMA AnnounceServes ==
    ASSUME ShapeInv, AnnounceInv, phase = "open", ServerRead \/ ServerSetWatches
    PROVE  AnnounceInv'
<1>1. /\ c2s # <<>> /\ c2s' = Tail(c2s) /\ UNCHANGED clientVars
    BY SetWatchesIs DEF ServerRead
<1>2. connected /\ connected' /\ phase' = "open"
    BY <1>1 DEF AnnounceInv, clientVars
<1>3. PICK u : u = c2s'
    OBVIOUS
<1>4. \A i \in DOMAIN u : i \in 1..(Len(c2s) - 1) /\ i + 1 \in DOMAIN c2s /\ u[i] = c2s[i + 1]
    BY <1>1, <1>3, TailAt DEF ShapeInv, ServerShape
<1>5. ASSUME NEW i \in DOMAIN u PROVE u[i].op # "setWatches"
    <2>1. i \in Nat /\ i >= 1 /\ u[i] = c2s[i + 1] /\ i + 1 \in DOMAIN c2s
        BY <1>4
    <2>2. i + 1 # 1
        BY <2>1
    <2> QED
        BY <2>1, <2>2 DEF AnnounceInv
<1>6. \A i \in DOMAIN toSend : toSend[i].op # "setWatches"
    BY <1>1 DEF AnnounceInv
<1>7. NoneAnnounced'
    BY <1>1, <1>3, <1>5, <1>6 DEF NoneAnnounced, clientVars
<1> QED
    BY <1>2, <1>7, AnnounceNone

LEMMA AnnounceServerChange ==
    ASSUME ShapeInv, AnnounceInv, phase = "open", NEW type \in Changes, NEW p \in Paths,
           ServerChange(type, p)
    PROVE  AnnounceInv'
<1>1. /\ armed' = [h \in Halves |-> IF h \in HalvesOf(type) THEN armed[h] \ {p} ELSE armed[h]]
      /\ (\A h \in HalvesOf(type) : p \notin armed[h]) => s2c' = s2c
      /\ UNCHANGED <<clientVars, c2s>>
    BY ServerChangeIs
<1>2. HalvesOf(type) \subseteq Halves
    BY DEF HalvesOf, Halves, Changes
<1>3. CASE armed = [h \in Halves |-> {}]
    <2>1. armed' = armed /\ s2c' = s2c
        BY <1>1, <1>2, <1>3
    <2> QED
        BY <1>1, <2>1, AnnounceKept DEF clientVars
<1>4. CASE armed # [h \in Halves |-> {}]
    <2>1. NoneAnnounced /\ connected
        BY <1>4 DEF AnnounceInv, NoneAnnounced, Fresh
    <2>2. NoneAnnounced' /\ connected' /\ phase' = "open"
        BY <1>1, <2>1 DEF NoneAnnounced, clientVars
    <2> QED
        BY <2>2, AnnounceNone
<1> QED
    BY <1>3, <1>4

(* Every step keeps send_set_watches in its place.                         *)
LEMMA AnnounceStep ==
    ASSUME ShapeInv, AnnounceInv, [Next]_vars
    PROVE  AnnounceInv'
<1>1. CASE UNCHANGED vars
    BY <1>1, AnnounceKept DEF vars, clientVars, serverVars
<1>2. CASE Deliver
    BY <1>2, AnnounceKept DEF Deliver, serverVars
<1> QED
    BY <1>1, <1>2, NextCases, AnnounceRead, AnnounceConnect, AnnounceEmptied, AnnounceFlush,
       AnnounceIo, AnnounceCleanOne, AnnounceServes, AnnounceServerChange

-----------------------------------------------------------------------------
(* The reads on their way keep their order                                 *)

LEMMA NumberOf ==
    /\ \A q : \A r \in ToSet(q) : r.xid > 0 => r.xid \in Numbers(q)
    /\ \A q : \A x \in Numbers(q) : x > 0 /\ \E i \in DOMAIN q : x = q[i].xid
BY DEF ToSet, Numbers, Numbered

LEMMA NumbersInt ==
    ASSUME NEW S, Countable(S), NEW q \in Seq(S), NEW x \in Numbers(q)
    PROVE  x \in Int /\ x > 0
<1>1. PICK i \in DOMAIN q : x = q[i].xid /\ x > 0
    BY NumberOf
<1>2. q[i] \in S
    OBVIOUS
<1> QED
    BY <1>1, <1>2 DEF Countable

LEMMA NumbersCons ==
    ASSUME NEW S, Countable(S), NEW a \in S, ~(a.xid > 0), NEW q \in Seq(S), Ascending(q)
    PROVE  Ascending(Cons(a, q)) /\ Numbers(Cons(a, q)) = Numbers(q)
<1>1. PICK n \in Nat : n = Len(q) /\ DOMAIN q = 1..n
    OBVIOUS
<1>2. PICK u : u = Cons(a, q)
    OBVIOUS
<1>3. DOMAIN u = 1..(n + 1) /\ u[1] = a
    BY <1>1, <1>2, ConsFacts
<1>4. \A i \in 1..n : u[i + 1] = q[i]
    <2>1. \A i \in 1..Len(q) : Cons(a, q)[i + 1] = q[i]
        BY ConsFacts
    <2> QED
        BY <1>1, <1>2, <2>1
<1>5. ASSUME NEW i \in Numbered(u)
      PROVE  i \in 1..(n + 1) /\ i - 1 \in Numbered(q) /\ u[i] = q[i - 1]
    <2>1. i \in 1..(n + 1) /\ u[i].xid > 0 /\ i # 1
        BY <1>3 DEF Numbered
    <2>2. i - 1 \in 1..n /\ (i - 1) + 1 = i
        BY <1>1, <2>1
    <2>3. u[i] = q[i - 1]
        BY <1>4, <2>2
    <2> QED
        BY <1>1, <2>1, <2>2, <2>3 DEF Numbered
<1>6. ASSUME NEW i \in Numbered(q) PROVE i + 1 \in Numbered(u) /\ u[i + 1] = q[i]
    <2>1. i \in 1..n /\ q[i].xid > 0
        BY <1>1 DEF Numbered
    <2>2. i + 1 \in 1..(n + 1)
        BY <1>1, <2>1
    <2> QED
        BY <1>3, <1>4, <2>1, <2>2 DEF Numbered
<1>7. Ascending(u)
    <2> SUFFICES ASSUME NEW i \in Numbered(u), NEW j \in Numbered(u), i < j
                 PROVE  u[i].xid < u[j].xid
        BY DEF Ascending
    <2>1. i - 1 < j - 1
        BY <1>5
    <2> QED
        BY <1>5, <2>1 DEF Ascending
<1>8. Numbers(u) = Numbers(q)
    <2>1. ASSUME NEW x \in Numbers(u) PROVE x \in Numbers(q)
        BY <1>5 DEF Numbers
    <2>2. ASSUME NEW x \in Numbers(q) PROVE x \in Numbers(u)
        BY <1>6 DEF Numbers
    <2> QED
        BY <2>1, <2>2
<1> QED
    BY <1>2, <1>7, <1>8

LEMMA OrderKept ==
    ASSUME OrderInv, UNCHANGED <<sent, s2c, c2s, toSend, calls>>
    PROVE  OrderInv'
BY DEF OrderInv

LEMMA OrderEmptied ==
    ASSUME Disconnect \/ Close
    PROVE  OrderInv'
<1>1. toSend' = <<>> /\ sent' = <<>> /\ c2s' = <<>> /\ s2c' = <<>>
    BY DEF Disconnect, Close
<1>2. PICK q : q = <<>>
    OBVIOUS
<1>3. Numbers(q) = {} /\ Ascending(q) /\ ToSet(q) = {}
    BY <1>2, NumbersNone
<1> QED
    BY <1>1, <1>2, <1>3 DEF OrderInv

LEMMA OrderRead ==
    ASSUME ShapeInv, OrderInv, NEW kind \in Kinds, NEW p \in Paths, NEW w \in Watchers,
           Read(kind, p, w)
    PROVE  OrderInv'
<1>1. PICK n \in Nat : n = calls
    BY DEF ShapeInv, CountShape
<1>2. PICK r : r = [op |-> kind, path |-> p, watcher |-> w, xid |-> n + 1]
    OBVIOUS
<1>3. /\ sent' = Append(sent, r) /\ toSend' = Append(toSend, r)
      /\ calls' = n + 1 /\ UNCHANGED <<c2s, s2c>>
    BY <1>1, <1>2 DEF Read
<1>4. r \in Reads /\ r \in Asked /\ r.xid = n + 1 /\ n + 1 > 0
    BY <1>1, <1>2 DEF Reads, Asked
<1>5. toSend \in Seq(Asked) /\ sent \in Seq(Reads)
    BY DEF ShapeInv, ClientShape
<1>6. \A x \in Numbers(sent) : x \in Int /\ x < n + 1
    BY <1>1, <1>5, AskedCountable, NumbersInt DEF OrderInv
<1>7. /\ \A x \in Numbers(s2c) \cup Numbers(c2s) \cup Numbers(toSend) : x < n + 1
    BY <1>6 DEF OrderInv
<1>8. Ascending(sent) /\ Ascending(toSend)
    BY DEF OrderInv
<1>9. {x \in {r.xid} : x > 0} = {n + 1}
    BY <1>1, <1>4
<1>10. Ascending(sent') /\ Numbers(sent') = Numbers(sent) \cup {n + 1}
    <2>1. \A x \in Numbers(sent) : x < r.xid
        BY <1>4, <1>6
    <2> QED
        BY <1>3, <1>4, <1>5, <1>8, <1>9, <2>1, NumbersAppend, AskedCountable
<1>11. Ascending(toSend') /\ Numbers(toSend') = Numbers(toSend) \cup {n + 1}
    <2>1. \A x \in Numbers(toSend) : x < r.xid
        BY <1>4, <1>7
    <2> QED
        BY <1>3, <1>4, <1>5, <1>8, <1>9, <2>1, NumbersAppend, AskedCountable
<1>12. ToSet(sent') = ToSet(sent) \cup {r} /\ ToSet(toSend') = ToSet(toSend) \cup {r}
    BY <1>3, <1>4, <1>5, AppendAt
<1>13. \A x \in Numbers(sent) \cup {n + 1} : x <= n + 1
    BY <1>1, <1>6
<1>14. Ascending(s2c') /\ Ascending(c2s') /\ Numbers(s2c') = Numbers(s2c)
       /\ Numbers(c2s') = Numbers(c2s) /\ ToSet(c2s') = ToSet(c2s)
    BY <1>3 DEF OrderInv
<1>15. \A x \in Numbers(s2c'), y \in Numbers(c2s') : x < y
    BY <1>14 DEF OrderInv
<1>16. /\ \A x \in Numbers(s2c'), y \in Numbers(toSend') : x < y
       /\ \A x \in Numbers(c2s'), y \in Numbers(toSend') : x < y
    BY <1>7, <1>11, <1>14 DEF OrderInv
<1>17. Numbers(s2c') \cup Numbers(c2s') \cup Numbers(toSend') = Numbers(sent')
    BY <1>10, <1>11, <1>14 DEF OrderInv
<1>18. \A x \in Numbers(sent') : x <= calls'
    BY <1>3, <1>10, <1>13
<1>19. \A y \in ToSet(c2s') \cup ToSet(toSend') : y.xid > 0 => y \in ToSet(sent')
    BY <1>12, <1>14 DEF OrderInv
<1> QED
    BY <1>10, <1>11, <1>14, <1>15, <1>16, <1>17, <1>18, <1>19 DEF OrderInv

LEMMA OrderConnect ==
    ASSUME ShapeInv, OrderInv, Connect
    PROVE  OrderInv'
<1>1. toSend' = send_set_watches(toSend) /\ UNCHANGED <<sent, c2s, s2c, calls>>
    BY DEF Connect
<1>2. PICK u : u = toSend'
    OBVIOUS
<1>3. toSend \in Seq(Asked) /\ Ascending(toSend)
    BY DEF ShapeInv, ClientShape, OrderInv
<1>4. /\ Ascending(u) /\ Numbers(u) = Numbers(toSend)
      /\ \A r \in ToSet(u) : r.xid > 0 => r \in ToSet(toSend)
    <2>1. CASE u = toSend
        BY <1>3, <2>1
    <2>2. ASSUME NEW a \in Asked, a.op = "setWatches", u = Cons(a, toSend)
          PROVE  /\ Ascending(u) /\ Numbers(u) = Numbers(toSend)
                 /\ \A r \in ToSet(u) : r.xid > 0 => r \in ToSet(toSend)
        <3>1. ~(a.xid > 0)
            BY <2>2, Kind
        <3>2. ToSet(u) = {a} \cup ToSet(toSend)
            BY <1>3, <2>2, ConsSet
        <3>3. Ascending(u) /\ Numbers(u) = Numbers(toSend)
            BY <1>3, <2>2, <3>1, NumbersCons, AskedCountable
        <3> QED
            BY <3>1, <3>2, <3>3
    <2>3. TableInv /\ ClientShape
        BY DEF ShapeInv
    <2> QED
        BY <1>1, <1>2, <2>1, <2>2, <2>3, SetWatchesFirst
<1> QED
    BY <1>1, <1>2, <1>4 DEF OrderInv

LEMMA OrderFlush ==
    ASSUME ShapeInv, OrderInv, Flush
    PROVE  OrderInv'
<1>1. c2s' = c2s \o toSend /\ toSend' = <<>> /\ UNCHANGED <<sent, s2c, calls>>
    BY DEF Flush
<1>2. PICK u : u = c2s'
    OBVIOUS
<1>3. /\ toSend \in Seq(Asked) /\ c2s \in Seq(Asked) /\ Ascending(toSend) /\ Ascending(c2s)
      /\ \A x \in Numbers(c2s), y \in Numbers(toSend) : x < y
    BY DEF ShapeInv, ClientShape, ServerShape, OrderInv
<1>4. Ascending(u) /\ Numbers(u) = Numbers(c2s) \cup Numbers(toSend)
    BY <1>1, <1>2, <1>3, NumbersConcat, AskedCountable
<1>5. ToSet(u) = ToSet(c2s) \cup ToSet(toSend)
    BY <1>1, <1>2, <1>3, ConcatSet
<1>6. PICK e : e = toSend'
    OBVIOUS
<1>7. Numbers(e) = {} /\ Ascending(e) /\ ToSet(e) = {}
    BY <1>1, <1>6, NumbersNone
<1> QED
    BY <1>1, <1>2, <1>4, <1>5, <1>6, <1>7 DEF OrderInv

(* A step of the connection: what the three queues of numbers become.      *)
LEMMA OrderIoReply ==
    ASSUME ShapeInv, OrderInv, IoReply
    PROVE  OrderInv'
<1>1. PICK m \in Replies : m = Head(s2c)
    BY ReplyIs
<1>2. /\ s2c # <<>> /\ s2c' = Tail(s2c) /\ UNCHANGED <<toSend, c2s, calls>>
      /\ \/ m.xid = SET_WATCHES_XID /\ sent' = sent
         \/ m.xid > 0 /\ sent # <<>> /\ Head(sent).xid = m.xid /\ sent' = Tail(sent)
    BY <1>1, ReplyIs
<1>3. /\ s2c \in Seq(Answers) /\ sent \in Seq(Reads) /\ c2s \in Seq(Asked) /\ toSend \in Seq(Asked)
      /\ Ascending(s2c) /\ Ascending(sent)
    BY DEF ShapeInv, ClientShape, ServerShape, OrderInv
<1>4. PICK u : u = s2c'
    OBVIOUS
<1>5. /\ Ascending(u)
      /\ Numbers(s2c) = Numbers(u) \cup {x \in {m.xid} : x > 0}
      /\ m.xid > 0 => \A x \in Numbers(u) : m.xid < x
    BY <1>1, <1>2, <1>3, <1>4, NumbersTail, AskedCountable
<1>6. CASE m.xid = SET_WATCHES_XID /\ sent' = sent
    <2>1. Numbers(s2c) = Numbers(u)
        BY <1>5, <1>6 DEF SET_WATCHES_XID
    <2> QED
        BY <1>2, <1>4, <1>5, <1>6, <2>1 DEF OrderInv
<1>7. CASE m.xid > 0 /\ sent # <<>> /\ Head(sent).xid = m.xid /\ sent' = Tail(sent)
    <2>1. PICK v : v = sent'
        OBVIOUS
    <2>2. /\ Ascending(v) /\ Numbers(sent) = Numbers(v) \cup {m.xid}
          /\ \A x \in Numbers(v) : m.xid < x
        <3>1. /\ Ascending(v) /\ Numbers(sent) = Numbers(v) \cup {x \in {Head(sent).xid} : x > 0}
              /\ Head(sent).xid > 0 => \A x \in Numbers(v) : Head(sent).xid < x
            BY <1>3, <1>7, <2>1, NumbersTail, AskedCountable
        <3> QED
            BY <1>7, <3>1
    <2>3. m.xid \in Int
        BY DEF Replies, SET_WATCHES_XID
    <2>4. Numbers(s2c) = Numbers(u) \cup {m.xid}
        BY <1>5, <1>7
    <2>5. \A x \in Numbers(c2s) \cup Numbers(toSend) : m.xid < x
        BY <2>4 DEF OrderInv
    <2>6. Numbers(u) \cup Numbers(c2s) \cup Numbers(toSend) = Numbers(v)
        <3>1. m.xid \notin Numbers(u) \cup Numbers(c2s) \cup Numbers(toSend)
            BY <1>5, <1>7, <2>3, <2>5
        <3>2. m.xid \notin Numbers(v)
            BY <2>2, <2>3
        <3>3. Numbers(s2c) \cup Numbers(c2s) \cup Numbers(toSend) = Numbers(sent)
            BY DEF OrderInv
        <3> QED
            BY <2>2, <2>4, <3>1, <3>2, <3>3
    <2>7. ASSUME NEW r \in ToSet(c2s) \cup ToSet(toSend), r.xid > 0
          PROVE  r \in ToSet(v)
        <3>1. r.xid \in Numbers(c2s) \cup Numbers(toSend)
            BY <2>7, NumberOf
        <3>2. r # Head(sent)
            BY <1>7, <2>3, <2>5, <3>1
        <3>3. ToSet(sent) = {Head(sent)} \cup ToSet(v)
            BY <1>3, <1>7, <2>1, TailAt
        <3>4. r \in ToSet(sent)
            BY <2>7 DEF OrderInv
        <3> QED
            BY <3>2, <3>3, <3>4
    <2>8. /\ \A x \in Numbers(u), y \in Numbers(c2s) : x < y
          /\ \A x \in Numbers(u), y \in Numbers(toSend) : x < y
        BY <2>4 DEF OrderInv
    <2>9. \A x \in Numbers(v) : x <= calls
        BY <2>2 DEF OrderInv
    <2> QED
        BY <1>2, <1>4, <1>5, <2>1, <2>2, <2>6, <2>7, <2>8, <2>9 DEF OrderInv
<1> QED
    BY <1>2, <1>6, <1>7

LEMMA OrderIoEvent ==
    ASSUME ShapeInv, OrderInv, IoEvent
    PROVE  OrderInv'
<1>1. s2c # <<>> /\ s2c' = Tail(s2c) /\ UNCHANGED <<toSend, c2s, calls, sent>>
    BY DEF IoEvent
<1>2. PICK m \in Events : m = Head(s2c)
    BY ShapeIoEvent
<1>3. ~(m.xid > 0)
    BY DEF Events, WATCHER_EVENT_XID
<1>4. s2c \in Seq(Answers) /\ Ascending(s2c)
    BY DEF ShapeInv, ServerShape, OrderInv
<1>5. PICK u : u = s2c'
    OBVIOUS
<1>6. Ascending(u) /\ Numbers(s2c) = Numbers(u) \cup {x \in {Head(s2c).xid} : x > 0}
    BY <1>1, <1>4, <1>5, NumbersTail, AskedCountable
<1>7. Numbers(s2c) = Numbers(u)
    BY <1>2, <1>3, <1>6
<1> QED
    BY <1>1, <1>5, <1>6, <1>7 DEF OrderInv

LEMMA OrderServerRead ==
    ASSUME ShapeInv, OrderInv, ServerRead
    PROVE  OrderInv'
<1>1. PICK r \in Reads, a \in Replies :
             /\ c2s # <<>> /\ r = Head(c2s) /\ c2s' = Tail(c2s)
             /\ s2c' = Append(s2c, a) /\ a.xid = r.xid
             /\ UNCHANGED <<sent, toSend, calls>>
    BY ServerReadIs DEF clientVars, Reply
<1>2. r.xid \in Int /\ r.xid > 0 /\ a \in Answers
    BY DEF Reads, Answers
<1>3. /\ s2c \in Seq(Answers) /\ c2s \in Seq(Asked) /\ Ascending(s2c) /\ Ascending(c2s)
    BY DEF ShapeInv, ServerShape, OrderInv
<1>4. PICK u : u = c2s'
    OBVIOUS
<1>5. PICK v : v = s2c'
    OBVIOUS
<1>6. /\ Ascending(u) /\ Numbers(c2s) = Numbers(u) \cup {r.xid}
      /\ \A x \in Numbers(u) : r.xid < x
    <2>1. /\ Ascending(u) /\ Numbers(c2s) = Numbers(u) \cup {x \in {Head(c2s).xid} : x > 0}
          /\ Head(c2s).xid > 0 => \A x \in Numbers(u) : Head(c2s).xid < x
        BY <1>1, <1>3, <1>4, NumbersTail, AskedCountable
    <2> QED
        BY <1>1, <1>2, <2>1
<1>7. \A x \in Numbers(s2c) : x < r.xid
    BY <1>6 DEF OrderInv
<1>8. Ascending(v) /\ Numbers(v) = Numbers(s2c) \cup {r.xid}
    <2>1. a.xid > 0 => \A x \in Numbers(s2c) : x < a.xid
        BY <1>1, <1>7
    <2>2. Ascending(v) /\ Numbers(v) = Numbers(s2c) \cup {x \in {a.xid} : x > 0}
        BY <1>1, <1>2, <1>3, <1>5, <2>1, NumbersAppend, AskedCountable
    <2> QED
        BY <1>1, <1>2, <2>2
<1>9. ToSet(c2s) = {r} \cup ToSet(u)
    BY <1>1, <1>3, <1>4, TailAt
<1>10. /\ \A x \in Numbers(v), y \in Numbers(u) : x < y
       /\ \A x \in Numbers(v), y \in Numbers(toSend) : x < y
       /\ \A x \in Numbers(u), y \in Numbers(toSend) : x < y
    BY <1>6, <1>8 DEF OrderInv
<1>11. Numbers(v) \cup Numbers(u) \cup Numbers(toSend) = Numbers(sent)
    BY <1>6, <1>8 DEF OrderInv
<1> QED
    BY <1>1, <1>4, <1>5, <1>6, <1>8, <1>9, <1>10, <1>11 DEF OrderInv

(* Events have no number: they change nothing.                             *)
LEMMA NumbersEvents ==
    ASSUME NEW ev \in Seq(Events)
    PROVE  Numbers(ev) = {} /\ Ascending(ev) /\ ev \in Seq(Answers)
<1>1. \A i \in DOMAIN ev : ev[i] \in Events
    OBVIOUS
<1>2. \A i \in DOMAIN ev : ~(ev[i].xid > 0)
    BY <1>1 DEF Events, WATCHER_EVENT_XID
<1>3. Numbers(ev) = {} /\ Ascending(ev)
    BY <1>2 DEF Numbers, Numbered, Ascending
<1>4. ev \in Seq(Answers)
    BY SeqMonotonic DEF Answers
<1> QED
    BY <1>3, <1>4

LEMMA OrderServerSetWatches ==
    ASSUME ShapeInv, OrderInv, ServerSetWatches
    PROVE  OrderInv'
<1>1. ServerShape
    BY DEF ShapeInv
<1>2. PICK ev \in Seq(Events), a \in Replies :
          /\ s2c' = Append(s2c \o ev, a) /\ a.xid = SET_WATCHES_XID /\ s2c \o ev \in Seq(Answers)
    BY <1>1, AnswerOk DEF Reply
<1>3. /\ c2s # <<>> /\ Head(c2s).op = "setWatches" /\ c2s' = Tail(c2s)
      /\ UNCHANGED <<sent, toSend, calls>>
    BY SetWatchesIs DEF clientVars
<1>4. /\ s2c \in Seq(Answers) /\ c2s \in Seq(Asked) /\ Ascending(s2c) /\ Ascending(c2s)
    BY DEF ShapeInv, ServerShape, OrderInv
<1>5. PICK w : w = s2c \o ev
    OBVIOUS
<1>6. Ascending(w) /\ Numbers(w) = Numbers(s2c)
    <2>1. PICK e : e = ev
        OBVIOUS
    <2>2. Numbers(e) = {} /\ Ascending(e) /\ e \in Seq(Answers)
        BY <2>1, NumbersEvents
    <2>3. \A x \in Numbers(s2c), y \in Numbers(e) : x < y
        BY <2>2
    <2>4. Ascending(s2c \o e) /\ Numbers(s2c \o e) = Numbers(s2c) \cup Numbers(e)
        <3> HIDE <2>1
        <3> QED
            BY <1>4, <2>2, <2>3, NumbersConcat, AskedCountable, Zenon
    <2> QED
        BY <1>5, <2>1, <2>2, <2>4
<1>7. PICK v : v = s2c'
    OBVIOUS
<1>8. a \in Answers /\ ~(a.xid > 0)
    BY <1>2 DEF Answers, SET_WATCHES_XID
<1>9. Ascending(v) /\ Numbers(v) = Numbers(w) \cup {x \in {a.xid} : x > 0}
    <2>1. w \in Seq(Answers) /\ v = Append(w, a)
        BY <1>2, <1>5, <1>7
    <2> QED
        BY <1>6, <1>8, <2>1, NumbersAppend, AskedCountable
<1>10. Numbers(v) = Numbers(s2c)
    BY <1>6, <1>8, <1>9
<1>11. PICK u : u = c2s'
    OBVIOUS
<1>12. Ascending(u) /\ Numbers(c2s) = Numbers(u) \cup {x \in {Head(c2s).xid} : x > 0}
    BY <1>3, <1>4, <1>11, NumbersTail, AskedCountable
<1>13. Numbers(c2s) = Numbers(u)
    <2>1. Head(c2s) \in Asked
        BY <1>3, <1>4, TailAt
    <2>2. ~(Head(c2s).xid > 0)
        BY <1>3, <2>1, Kind
    <2> QED
        BY <1>12, <2>2
<1>14. ToSet(u) \subseteq ToSet(c2s)
    BY <1>3, <1>4, <1>11, TailAt
<1> QED
    BY <1>3, <1>7, <1>9, <1>10, <1>11, <1>12, <1>13, <1>14 DEF OrderInv

LEMMA OrderServerChange ==
    ASSUME ShapeInv, OrderInv, NEW type \in Changes, NEW p \in Paths, ServerChange(type, p)
    PROVE  OrderInv'
<1>1. UNCHANGED <<sent, toSend, c2s, calls>>
    BY ServerChangeIs DEF clientVars
<1>2. CASE s2c' = s2c
    BY <1>1, <1>2, OrderKept
<1>3. CASE s2c' # s2c
    <2>1. PICK e \in Events : s2c' = Append(s2c, e)
        BY <1>3, ServerChangeIs
    <2>2. e \in Answers /\ ~(e.xid > 0)
        BY DEF Answers, Events, WATCHER_EVENT_XID
    <2>3. s2c \in Seq(Answers) /\ Ascending(s2c)
        BY DEF ShapeInv, ServerShape, OrderInv
    <2>4. PICK v : v = s2c'
        OBVIOUS
    <2>5. Ascending(v) /\ Numbers(v) = Numbers(s2c) \cup {x \in {e.xid} : x > 0}
        BY <2>1, <2>2, <2>3, <2>4, NumbersAppend, AskedCountable
    <2>6. Numbers(v) = Numbers(s2c)
        BY <2>2, <2>5
    <2> QED
        BY <1>1, <2>4, <2>5, <2>6 DEF OrderInv
<1> QED
    BY <1>2, <1>3

(* Every step keeps the reads in their order.                              *)
LEMMA OrderStep ==
    ASSUME ShapeInv, OrderInv, [Next]_vars
    PROVE  OrderInv'
<1>1. CASE UNCHANGED vars
    BY <1>1, OrderKept DEF vars, clientVars
<1>2. CASE Deliver
    BY <1>2, OrderKept DEF Deliver
<1>3. CASE CleanOne
    BY <1>3, OrderKept DEF CleanOne
<1> QED
    BY <1>1, <1>2, <1>3, NextCases, OrderRead, OrderConnect, OrderEmptied, OrderFlush,
       OrderIoReply, OrderIoEvent, OrderServerRead, OrderServerSetWatches, OrderServerChange

-----------------------------------------------------------------------------
(* Zxids grow along the connection                                         *)

(* Zxids grow along the connection                                         *)

LEMMA ZxidEmptied ==
    ASSUME Disconnect \/ Close
    PROVE  ZxidInv' /\ EventInv'
<1>1. DOMAIN s2c' = {}
    BY DEF Disconnect, Close
<1> QED
    BY <1>1 DEF ZxidInv, EventInv

LEMMA ReplyZxid ==
    ASSUME ServerShape
    PROVE  /\ \A i \in DOMAIN s2c : s2c[i] \in Answers
           /\ \A m \in Answers : m.msg = "reply" => m.zxid \in Nat
           /\ \A m \in Answers : m.msg # "reply" =>
                  m.msg = "event" /\ m.news \in Nat /\ m.path \in Paths /\ m.type \in Changes
<1>1. \A i \in DOMAIN s2c : s2c[i] \in Answers
    BY DEF ServerShape
<1>2. \A m \in Replies : m.zxid \in Nat
    BY DEF Replies
<1>3. \A m \in Events : m.news \in Nat /\ m.path \in Paths /\ m.type \in Changes
    BY DEF Events
<1> QED
    BY <1>1, <1>2, <1>3, Kind

(* One answer less.                                                        *)
LEMMA ZxidTail ==
    ASSUME ServerShape, ZxidInv, s2c # <<>>, s2c' = Tail(s2c), zxid' = zxid,
           \/ lastZxid' = lastZxid
           \/ s2c[1].msg = "reply" /\ lastZxid' = s2c[1].zxid
    PROVE  ZxidInv'
<1>1. PICK u : u = s2c'
    OBVIOUS
<1>2. /\ 1 \in DOMAIN s2c
      /\ \A i \in DOMAIN u : i \in Nat /\ i >= 1 /\ i + 1 \in DOMAIN s2c /\ u[i] = s2c[i + 1]
    <2>1. DOMAIN u = 1..(Len(s2c) - 1) /\ DOMAIN s2c = 1..Len(s2c) /\ Len(s2c) \in Nat /\ Len(s2c) > 0
          /\ \A i \in DOMAIN u : i + 1 \in DOMAIN s2c /\ u[i] = s2c[i + 1]
        BY <1>1, TailAt DEF ServerShape
    <2> QED
        BY <2>1
<1>3. ASSUME NEW i \in DOMAIN u, u[i].msg = "reply"
      PROVE  lastZxid' <= u[i].zxid /\ u[i].zxid <= zxid
    <2>1. i + 1 \in DOMAIN s2c /\ s2c[i + 1] = u[i] /\ 1 < i + 1
        BY <1>2
    <2>2. lastZxid <= u[i].zxid /\ u[i].zxid <= zxid
        BY <1>3, <2>1 DEF ZxidInv
    <2>3. s2c[1].msg = "reply" => s2c[1].zxid <= u[i].zxid
        BY <1>2, <1>3, <2>1 DEF ZxidInv
    <2> QED
        BY <2>2, <2>3
<1>4. ASSUME NEW i \in DOMAIN u, NEW j \in DOMAIN u, i < j, u[i].msg = "reply"
      PROVE  IF u[j].msg = "reply" THEN u[i].zxid <= u[j].zxid ELSE u[i].zxid < u[j].news
    <2>1. /\ i + 1 \in DOMAIN s2c /\ s2c[i + 1] = u[i]
          /\ j + 1 \in DOMAIN s2c /\ s2c[j + 1] = u[j] /\ i + 1 < j + 1
        BY <1>2, <1>4
    <2> QED
        BY <1>4, <2>1 DEF ZxidInv
<1> QED
    BY <1>1, <1>3, <1>4 DEF ZxidInv

(* One answer more.                                                        *)
LEMMA ZxidAppend ==
    ASSUME ServerShape, lastZxid \in Nat, ZxidInv, NEW a \in Answers, s2c' = Append(s2c, a),
           lastZxid' = lastZxid, zxid' \in Nat, zxid <= zxid',
           IF a.msg = "reply" THEN a.zxid = zxid /\ zxid' = zxid ELSE zxid < a.news
    PROVE  ZxidInv'
<1>1. PICK u : u = s2c'
    OBVIOUS
<1>2. PICK n \in Nat : n = Len(s2c) /\ DOMAIN s2c = 1..n
    BY DEF ServerShape
<1>3. DOMAIN u = 1..(n + 1) /\ u[n + 1] = a /\ \A i \in 1..n : u[i] = s2c[i]
    BY <1>1, <1>2, AppendAt DEF ServerShape
<1>4. zxid \in Nat /\ lastZxid <= zxid
    BY DEF ServerShape
<1>5. \A i \in 1..n : s2c[i] \in Answers
    BY <1>2 DEF ServerShape
<1>6. ASSUME NEW i \in 1..n, s2c[i].msg = "reply"
      PROVE  s2c[i].zxid \in Nat /\ lastZxid <= s2c[i].zxid /\ s2c[i].zxid <= zxid
    BY <1>2, <1>5, <1>6, ReplyZxid DEF ZxidInv
<1>7. ASSUME NEW i \in DOMAIN u, u[i].msg = "reply"
      PROVE  lastZxid <= u[i].zxid /\ u[i].zxid <= zxid'
    <2>1. i = n + 1 \/ i \in 1..n
        BY <1>2, <1>3
    <2>2. CASE i = n + 1
        BY <1>3, <1>4, <1>7, <2>2
    <2>3. CASE i \in 1..n
        BY <1>3, <1>4, <1>6, <1>7, <2>3
    <2> QED
        BY <2>1, <2>2, <2>3
<1>8. ASSUME NEW i \in DOMAIN u, NEW j \in DOMAIN u, i < j, u[i].msg = "reply"
      PROVE  IF u[j].msg = "reply" THEN u[i].zxid <= u[j].zxid ELSE u[i].zxid < u[j].news
    <2>1. i \in 1..n /\ (j = n + 1 \/ j \in 1..n)
        BY <1>2, <1>3, <1>8
    <2>2. u[i] = s2c[i] /\ u[i].zxid \in Nat /\ u[i].zxid <= zxid
        BY <1>3, <1>6, <1>8, <2>1
    <2>3. CASE j = n + 1
        <3>1. CASE a.msg = "reply"
            BY <1>3, <2>2, <2>3, <3>1
        <3>2. CASE a.msg # "reply"
            <4>1. a.news \in Nat
                BY <3>2, ReplyZxid
            <4> QED
                BY <1>3, <1>4, <2>2, <2>3, <3>2, <4>1
        <3> QED
            BY <3>1, <3>2
    <2>4. CASE j \in 1..n
        BY <1>2, <1>3, <1>8, <2>1, <2>2, <2>4 DEF ZxidInv
    <2> QED
        BY <2>1, <2>3, <2>4
<1> QED
    BY <1>1, <1>7, <1>8 DEF ZxidInv

LEMMA ZxidServerSetWatches ==
    ASSUME ShapeInv, AnnounceInv, ServerSetWatches
    PROVE  ZxidInv'
<1>1. ServerShape /\ lastZxid \in Nat
    BY DEF ShapeInv, ClientShape
<1>2. PICK ev \in Seq(Events), a \in Replies :
          s2c' = Append(s2c \o ev, a) /\ a.zxid = zxid /\ s2c \o ev \in Seq(Answers)
    BY <1>1, AnswerOk DEF Reply
<1>3. c2s # <<>> /\ Head(c2s).op = "setWatches" /\ UNCHANGED <<zxid, clientVars>>
    BY SetWatchesIs
<1>4. s2c = <<>>
    <2>1. 1 \in DOMAIN c2s /\ Head(c2s) = c2s[1]
        BY <1>1, <1>3, TailAt DEF ServerShape
    <2> QED
        BY <1>3, <2>1 DEF AnnounceInv, Fresh
<1>5. PICK e : e = s2c \o ev
    OBVIOUS
<1>6. e = ev
    BY <1>4, <1>5, ConcatEmptySeq
<1>7. PICK u : u = s2c'
    OBVIOUS
<1>8. PICK n \in Nat : n = Len(e) /\ DOMAIN e = 1..n
    BY <1>2, <1>5
<1>9. DOMAIN u = 1..(n + 1) /\ u[n + 1] = a /\ \A i \in 1..n : u[i] = e[i]
    <2>1. e \in Seq(Answers) /\ a \in Answers /\ u = Append(e, a)
        BY <1>2, <1>5, <1>7 DEF Answers
    <2> QED
        BY <1>8, <2>1, AppendAt
<1>10. \A i \in 1..n : u[i] \in Events
    BY <1>6, <1>8, <1>9
<1>11. \A i \in 1..n : u[i].msg # "reply"
    BY <1>10 DEF Events
<1>12. ASSUME NEW i \in DOMAIN u, u[i].msg = "reply"
       PROVE  i = n + 1
    BY <1>8, <1>9, <1>11, <1>12
<1>13. \A i, j \in DOMAIN u : ~(i < j /\ u[i].msg = "reply")
    BY <1>8, <1>9, <1>12
<1>14. \A i \in DOMAIN u : u[i].msg = "reply" => lastZxid <= u[i].zxid /\ u[i].zxid <= zxid
    BY <1>1, <1>2, <1>9, <1>12 DEF ServerShape
<1> QED
    BY <1>3, <1>7, <1>13, <1>14 DEF ZxidInv, clientVars

(* Every step keeps the zxids growing.                                     *)
LEMMA ZxidStep ==
    ASSUME ShapeInv, AnnounceInv, OrderInv, ZxidInv, [Next]_vars
    PROVE  ZxidInv'
<1>1. CASE UNCHANGED <<s2c, lastZxid, zxid>>
    BY <1>1 DEF ZxidInv
<1>2. \A kind, p, w : Read(kind, p, w) => UNCHANGED <<s2c, lastZxid, zxid>>
    BY DEF Read, serverVars
<1>3. Connect \/ Flush \/ Deliver \/ CleanOne \/ UNCHANGED vars => UNCHANGED <<s2c, lastZxid, zxid>>
    BY DEF Connect, Flush, Deliver, CleanOne, serverVars, vars, clientVars
<1>4. ServerShape /\ lastZxid \in Nat /\ zxid \in Nat
    BY DEF ShapeInv, ClientShape, ServerShape
<1>5. CASE IoReply
    <2>1. s2c # <<>> /\ s2c' = Tail(s2c) /\ zxid' = zxid /\ Head(s2c) = s2c[1]
          /\ s2c[1].msg = "reply" /\ lastZxid' = s2c[1].zxid
        <3>1. s2c # <<>> /\ s2c' = Tail(s2c) /\ zxid' = zxid /\ Head(s2c) = s2c[1]
              /\ Head(s2c).msg = "reply"
            <4>1. s2c # <<>> /\ s2c' = Tail(s2c) /\ zxid' = zxid /\ Head(s2c).msg = "reply"
                BY <1>5 DEF IoReply, serverVars
            <4>2. s2c \in Seq(Answers)
                BY <1>4 DEF ServerShape
            <4>3. Head(s2c) = s2c[1]
                BY <4>1, <4>2, TailAt
            <4> QED
                BY <4>1, <4>3
        <3> QED
            BY <1>5, <3>1, ReplyIs
    <2> QED
        BY <1>4, <2>1, ZxidTail
<1>6. CASE IoEvent
    <2>1. s2c # <<>> /\ s2c' = Tail(s2c) /\ zxid' = zxid
        BY <1>6 DEF IoEvent, serverVars
    <2> QED
        BY <1>4, <1>6, <2>1, ShapeIoEvent, ZxidTail
<1>7. CASE ServerRead
    <2>1. PICK a \in Replies : s2c' = Append(s2c, a) /\ a.msg = "reply" /\ a.zxid = zxid
              /\ UNCHANGED <<lastZxid, zxid>>
        BY <1>7, ServerReadIs DEF Reply, clientVars
    <2>2. a \in Answers
        BY DEF Answers
    <2> QED
        BY <1>4, <2>1, <2>2, ZxidAppend
<1>8. ASSUME NEW type \in Changes, NEW p \in Paths, ServerChange(type, p)
      PROVE  ZxidInv'
    <2>1. zxid' = zxid + 1 /\ lastZxid' = lastZxid
        BY <1>8, ServerChangeIs DEF clientVars
    <2>2. CASE s2c' = s2c
        <3>1. \A i \in DOMAIN s2c : s2c[i].msg = "reply" => s2c[i].zxid \in Nat
            BY <1>4, ReplyZxid
        <3> QED
            BY <1>4, <2>1, <2>2, <3>1 DEF ZxidInv
    <2>3. CASE s2c' # s2c
        <3>0. PICK e : e = Event(type, p, zxid + 1)
            OBVIOUS
        <3>1. e \in Events /\ s2c' = Append(s2c, e) /\ e.news = zxid + 1
            <4>1. e \in Events /\ s2c' = Append(s2c, e)
                BY <1>8, <2>3, <3>0, ServerChangeIs
            <4>2. e.news = zxid + 1
                BY <3>0 DEF Event
            <4> QED
                BY <4>1, <4>2
        <3>2. e \in Answers /\ e.msg # "reply"
            BY <3>1 DEF Answers, Events
        <3>3. zxid' \in Nat /\ zxid <= zxid' /\ zxid < e.news
            <4>1. PICK z \in Nat : z = zxid
                BY <1>4
            <4>2. zxid' = z + 1 /\ e.news = z + 1
                BY <2>1, <3>1, <4>1
            <4> QED
                BY <4>1, <4>2
        <3> QED
            BY <1>4, <2>1, <3>1, <3>2, <3>3, ZxidAppend
    <2> QED
        BY <2>2, <2>3
<1> QED
    BY <1>1, <1>2, <1>3, <1>5, <1>6, <1>7, <1>8, NextCases, ZxidEmptied, ZxidServerSetWatches

-----------------------------------------------------------------------------
(* The first theorems                                                      *)

(* The queues, the tables and the server's half keep their shapes,         *)
(* set_watches comes first on a connection and says what the tables hold   *)
(* (send_set_watches), the reads that travel are those in sent_requests,   *)
(* in their order, and zxids only grow along the connection                *)
(* (zookeeper_process).                                                    *)
THEOREM WatchesShape == Spec => [](ShapeInv /\ AnnounceInv /\ OrderInv /\ ZxidInv)
<1>1. Init => ShapeInv /\ AnnounceInv /\ OrderInv /\ ZxidInv
    <2> SUFFICES ASSUME Init PROVE ShapeInv /\ AnnounceInv /\ OrderInv /\ ZxidInv
        OBVIOUS
    <2>1. /\ toSend = <<>> /\ sent = <<>> /\ c2s = <<>> /\ s2c = <<>>
          /\ armed = [h \in Halves |-> {}] /\ phase = "open"
        BY DEF Init, Halves
    <2>2. PICK q : q = <<>>
        OBVIOUS
    <2>3. DOMAIN q = {} /\ Numbers(q) = {} /\ Ascending(q) /\ ToSet(q) = {}
        BY <2>2, NumbersNone
    <2>4. AnnounceInv /\ OrderInv /\ ZxidInv
        BY <2>1, <2>2, <2>3 DEF AnnounceInv, OrderInv, ZxidInv
    <2> QED
        BY <2>4, ShapeInit
<1>2. ShapeInv /\ AnnounceInv /\ OrderInv /\ ZxidInv /\ [Next]_vars
      => (ShapeInv /\ AnnounceInv /\ OrderInv /\ ZxidInv)'
    BY ShapeStep, AnnounceStep, OrderStep, ZxidStep
<1> QED
    BY <1>1, <1>2, PTL DEF Spec

(* The invariant on shapes is more than TablesWellFormed.                  *)
LEMMA ShapeWellFormed ==
    ASSUME ShapeInv
    PROVE  TablesWellFormed
<1>1. ASSUME NEW t \in Tables PROVE IsTable(active[t], Lists)
    BY DEF ShapeInv, TableInv
<1>2. \A t \in Tables : WellFormed(active[t])
    BY <1>1, NoNull, TableWellFormed
<1>3. ASSUME NEW t \in Tables, NEW e \in ToSet(Iterate(active[t]))
      PROVE  e.k \in Paths /\ ToSet(e.v) \subseteq Watchers /\ e.v # Null
    <2>1. e \in Entries(Lists)
        BY <1>1, <1>3, NoNull, IterateOk
    <2>2. e.k \in Paths /\ e.v \in Seq(Watchers) /\ e.v # <<>>
        BY <2>1 DEF Entries, Lists
    <2>3. PICK l : l = e.v
        OBVIOUS
    <2>4. \A i \in DOMAIN l : l[i] \in Watchers
        BY <2>2, <2>3
    <2> QED
        BY <2>2, <2>3, <2>4 DEF ToSet, Null
<1>4. \A c \in ToSet(completions) : ToSet(c.list) \subseteq Watchers \cup {DefaultWatcher}
    <2>1. completions \in Seq(Deliveries)
        BY DEF ShapeInv, ClientShape
    <2>2. \A c \in ToSet(completions) : c \in Deliveries
        BY <2>1 DEF ToSet
    <2> QED
        BY <2>2, DeliveryKinds
<1>5. lastZxid \in 0..zxid
    <2>1. lastZxid \in Nat /\ zxid \in Nat /\ lastZxid <= zxid
        BY DEF ShapeInv, ClientShape, ServerShape
    <2> QED
        BY <2>1
<1>6. Len(sent) <= MaxCalls
    <2>1. sent \in Seq(Reads) /\ calls \in Nat /\ calls <= MaxCalls /\ Len(sent) <= calls
        BY DEF ShapeInv, ClientShape, CountShape
    <2>2. Len(sent) \in Nat /\ MaxCalls \in Nat
        BY <2>1, WatchesAssumption
    <2> QED
        BY <2>1, <2>2
<1>7. connected \in BOOLEAN /\ phase \in {"open", "cleaning", "gone"}
    BY DEF ShapeInv, ClientShape
<1> QED
    BY <1>2, <1>3, <1>4, <1>5, <1>6, <1>7 DEF TablesWellFormed, TypeOK

(* For any paths, hash values and prime sizes, the three tables stay maps  *)
(* through hashtable_insert, hashtable_expand, hashtable_remove and        *)
(* hashtable_iterator_remove: every entry in the chain of its hash, every  *)
(* key once, the count right; and the queues hold what they should.        *)
THEOREM TablesStayWellFormed == Spec => []TablesWellFormed
<1>1. ShapeInv => TablesWellFormed
    BY ShapeWellFormed
<1> QED
    BY <1>1, WatchesShape, PTL

-----------------------------------------------------------------------------
(* Events have a date                                                      *)

(* What EventInv says of one event.                                        *)
Dated(m) == /\ m.news <= zxid
            /\ m.type # "CHILD" => m.news <= mzxid[m.path]
            /\ exists[m.path] /\ m.type \in {"CHILD", "DELETED"} => m.news <= pzxid[m.path]

LEMMA EventTail ==
    ASSUME ServerShape, EventInv, s2c # <<>>, s2c' = Tail(s2c),
           UNCHANGED <<zxid, mzxid, pzxid, exists>>
    PROVE  EventInv'
<1>1. PICK u : u = s2c'
    OBVIOUS
<1>2. \A i \in DOMAIN u : i + 1 \in DOMAIN s2c /\ u[i] = s2c[i + 1]
    BY <1>1, TailAt DEF ServerShape
<1>3. \A i \in DOMAIN u : u[i].msg = "event" => Dated(u[i])
    BY <1>2 DEF EventInv, Dated
<1> QED
    BY <1>1, <1>3 DEF EventInv, Dated

LEMMA EventServerRead ==
    ASSUME ShapeInv, EventInv, ServerRead
    PROVE  EventInv'
<1>1. PICK a \in Replies : s2c' = Append(s2c, a) /\ a.msg = "reply"
          /\ UNCHANGED <<zxid, mzxid, pzxid, exists>>
    BY ServerReadIs DEF Reply, clientVars
<1>2. PICK u : u = s2c'
    OBVIOUS
<1>3. PICK n \in Nat : n = Len(s2c) /\ DOMAIN s2c = 1..n
    BY DEF ShapeInv, ServerShape
<1>4. DOMAIN u = 1..(n + 1) /\ u[n + 1] = a /\ \A i \in 1..n : u[i] = s2c[i]
    <2>1. a \in Answers /\ s2c \in Seq(Answers)
        BY DEF Answers, ShapeInv, ServerShape
    <2> QED
        BY <1>1, <1>2, <1>3, <2>1, AppendAt
<1>5. ASSUME NEW i \in DOMAIN u, u[i].msg = "event" PROVE i \in DOMAIN s2c /\ u[i] = s2c[i]
    <2>1. i # n + 1
        BY <1>1, <1>4, <1>5
    <2> QED
        BY <1>3, <1>4, <2>1
<1>6. \A i \in DOMAIN u : u[i].msg = "event" => Dated(u[i])
    BY <1>5 DEF EventInv, Dated
<1> QED
    BY <1>1, <1>2, <1>6 DEF EventInv, Dated

(* What is in s2c after a reconnect has been answered.                     *)
LEMMA AnswerParts ==
    ASSUME ShapeInv, AnnounceInv, ServerSetWatches
    PROVE  /\ s2c = <<>> /\ Head(c2s) = c2s[1] /\ 1 \in DOMAIN c2s /\ Fresh(Head(c2s))
           /\ Head(c2s) \in Asked /\ Head(c2s).op = "setWatches"
           /\ \A i \in DOMAIN s2c' : \/ s2c'[i] \in DueEvents(Head(c2s)) /\ s2c'[i] \in Events
                                     \/ /\ s2c'[i].msg = "reply"
                                        /\ s2c'[i].xid = SET_WATCHES_XID
           /\ \A m \in DueEvents(Head(c2s)) : \E i \in DOMAIN s2c' : s2c'[i] = m
           /\ s2c' \in Seq(Answers)
<1>1. ServerShape
    BY DEF ShapeInv
<1>2. PICK ev \in Seq(Events), a \in Replies :
          /\ s2c' = Append(s2c \o ev, a) /\ a.xid = SET_WATCHES_XID /\ s2c \o ev \in Seq(Answers)
          /\ ToSet(ev) = DueEvents(Head(c2s))
    BY <1>1, AnswerOk DEF Reply
<1>3. c2s # <<>> /\ Head(c2s).op = "setWatches"
    BY SetWatchesIs
<1>4. 1 \in DOMAIN c2s /\ Head(c2s) = c2s[1] /\ Head(c2s) \in Asked
    BY <1>1, <1>3, TailAt DEF ServerShape
<1>5. Fresh(Head(c2s)) /\ s2c = <<>>
    BY <1>3, <1>4 DEF AnnounceInv, Fresh
<1>6. PICK e : e = s2c \o ev
    OBVIOUS
<1>7. e = ev
    BY <1>5, <1>6, ConcatEmptySeq
<1>8. PICK u : u = s2c'
    OBVIOUS
<1>9. PICK n \in Nat : n = Len(e) /\ DOMAIN e = 1..n
    BY <1>2, <1>6
<1>10. /\ DOMAIN u = 1..(n + 1) /\ u[n + 1] = a /\ \A i \in 1..n : u[i] = e[i]
       /\ u \in Seq(Answers)
    <2>1. e \in Seq(Answers) /\ a \in Answers /\ u = Append(e, a)
        BY <1>2, <1>6, <1>8 DEF Answers
    <2> QED
        BY <1>9, <2>1, AppendAt
<1>11. \A i \in 1..n : u[i] \in Events /\ u[i] \in ToSet(ev)
    BY <1>7, <1>9, <1>10 DEF ToSet
<1>12. ASSUME NEW i \in DOMAIN u
       PROVE  (u[i] \in ToSet(ev) /\ u[i] \in Events) \/ u[i] = a
    <2>1. i = n + 1 \/ i \in 1..n
        BY <1>9, <1>10
    <2> QED
        BY <1>10, <1>11, <2>1
<1>13. ASSUME NEW m \in ToSet(ev) PROVE \E i \in DOMAIN u : u[i] = m
    <2>1. PICK i \in 1..n : ev[i] = m
        BY <1>7, <1>9 DEF ToSet
    <2>2. i \in DOMAIN u
        BY <1>9, <1>10
    <2> QED
        BY <1>7, <1>10, <2>1, <2>2
<1>14. a.msg = "reply"
    BY DEF Replies
<1> QED
    BY <1>2, <1>3, <1>4, <1>5, <1>8, <1>10, <1>12, <1>13, <1>14

(* An event due.                                                           *)
LEMMA DueIs ==
    ASSUME ServerShape, NEW m \in Asked, NEW v \in DueEvents(m)
    PROVE  \E t \in Tables, p \in Paths : \E e \in Overdue(t, p, m.zxid) :
              /\ p \in m.keys[t] /\ e \in Changes
              /\ v.msg = "event" /\ v.type = e /\ v.path = p
              /\ v.news = IF e = "CHILD" THEN pzxid[p] ELSE mzxid[p]
<1>1. PICK x \in WatchedBy(m) : v \in {EventOf(e, x) : e \in Overdue(x[1], x[2], m.zxid)}
    BY DEF DueEvents
<1>2. PICK e \in Overdue(x[1], x[2], m.zxid) : v = EventOf(e, x)
    BY <1>1
<1>3. x[1] \in Tables /\ x[2] \in Paths /\ x[2] \in m.keys[x[1]]
    BY DEF WatchedBy
<1>4. PICK t \in Tables, p \in Paths : t = x[1] /\ p = x[2]
    BY <1>3
<1>5. e \in Changes /\ e \in Overdue(t, p, m.zxid)
    BY <1>2, <1>4, DueIsChange
<1>6. PICK z : z = IF e = "CHILD" THEN pzxid[p] ELSE mzxid[p]
    OBVIOUS
<1>7. v = Event(e, p, z)
    BY <1>2, <1>4, <1>6 DEF EventOf
<1>8. v.msg = "event" /\ v.type = e /\ v.path = p /\ v.news = z
    BY <1>7 DEF Event
<1> QED
    BY <1>3, <1>4, <1>5, <1>6, <1>8

LEMMA EventServerSetWatches ==
    ASSUME ShapeInv, AnnounceInv, ServerSetWatches
    PROVE  EventInv'
<1>1. ServerShape
    BY DEF ShapeInv
<1>2. PICK m \in Asked : m = Head(c2s)
    BY AnswerParts
<1>3. PICK u : u = s2c'
    OBVIOUS
<1>4. ASSUME NEW v \in DueEvents(m) PROVE Dated(v)
    <2>0. PICK t \in Tables, p \in Paths : \E e \in Overdue(t, p, m.zxid) :
              /\ v.type = e /\ v.path = p
              /\ v.news = IF e = "CHILD" THEN pzxid[p] ELSE mzxid[p]
        BY <1>1, DueIs
    <2>1. PICK e \in Overdue(t, p, m.zxid) :
              /\ v.type = e /\ v.path = p
              /\ v.news = IF e = "CHILD" THEN pzxid[p] ELSE mzxid[p]
        BY <2>0
    <2>2. mzxid[p] \in Nat /\ pzxid[p] \in Nat /\ mzxid[p] <= zxid /\ pzxid[p] <= zxid
        BY <1>1 DEF ServerShape
    <2>3. e = "DELETED" => ~exists[p]
        BY <2>1 DEF Overdue, Tables
    <2> QED
        BY <2>1, <2>2, <2>3 DEF Dated
<1>5. \A i \in DOMAIN u : u[i] \in DueEvents(m) \/ u[i].msg = "reply"
    BY <1>2, <1>3, AnswerParts
<1>6. \A i \in DOMAIN u : u[i].msg = "event" => Dated(u[i])
    BY <1>4, <1>5
<1> QED
    BY <1>3, <1>6, SetWatchesIs DEF EventInv, Dated

LEMMA EventServerChange ==
    ASSUME ShapeInv, EventInv, NEW type \in Changes, NEW p \in Paths, ServerChange(type, p)
    PROVE  EventInv'
<1>1. PICK z \in Nat : z = zxid
    BY DEF ShapeInv, ServerShape
<1>2. /\ type = "CREATED" <=> ~exists[p]
      /\ zxid' = z + 1
      /\ exists' = [exists EXCEPT ![p] = type # "DELETED"]
      /\ mzxid' = IF type = "CHILD" THEN mzxid ELSE [mzxid EXCEPT ![p] = z + 1]
      /\ pzxid' = IF type \in {"CHILD", "CREATED"} THEN [pzxid EXCEPT ![p] = z + 1] ELSE pzxid
    BY <1>1, ServerChangeIs
<1>3. /\ exists \in [Paths -> BOOLEAN] /\ mzxid \in [Paths -> Nat] /\ pzxid \in [Paths -> Nat]
      /\ s2c \in Seq(Answers)
    BY DEF ShapeInv, ServerShape
<1>4. /\ \A q \in Paths \ {p} : exists'[q] = exists[q] /\ mzxid'[q] = mzxid[q] /\ pzxid'[q] = pzxid[q]
      /\ exists'[p] <=> type # "DELETED"
      /\ type # "CHILD" => mzxid'[p] = z + 1
      /\ type = "CHILD" => mzxid'[p] = mzxid[p]
      /\ type \in {"CHILD", "CREATED"} => pzxid'[p] = z + 1
      /\ type \notin {"CHILD", "CREATED"} => pzxid'[p] = pzxid[p]
    BY <1>2, <1>3
<1>5. ASSUME NEW i \in DOMAIN s2c, s2c[i].msg = "event"
      PROVE  /\ s2c[i].news <= z + 1
             /\ s2c[i].type # "CHILD" => s2c[i].news <= mzxid'[s2c[i].path]
             /\ exists'[s2c[i].path] /\ s2c[i].type \in {"CHILD", "DELETED"}
                    => s2c[i].news <= pzxid'[s2c[i].path]
    <2>1. PICK m \in Answers : m = s2c[i]
        BY <1>3
    <2>2. m.news \in Nat /\ m.path \in Paths /\ m.type \in Changes
        BY <1>5, <2>1, Kind DEF Events
    <2>3. /\ m.news <= z
          /\ m.type # "CHILD" => m.news <= mzxid[m.path]
          /\ exists[m.path] /\ m.type \in {"CHILD", "DELETED"} => m.news <= pzxid[m.path]
        BY <1>1, <1>5, <2>1 DEF EventInv
    <2>4. m.news <= z + 1
        BY <2>2, <2>3
    <2>5. CASE m.path # p
        BY <1>4, <2>1, <2>2, <2>3, <2>4, <2>5
    <2>6. CASE m.path = p
        <3>1. m.type # "CHILD" => m.news <= mzxid'[p]
            BY <1>4, <2>3, <2>4, <2>6
        <3>2. exists'[p] /\ m.type \in {"CHILD", "DELETED"} => m.news <= pzxid'[p]
            <4>1. CASE type \in {"CHILD", "CREATED"}
                BY <1>4, <2>4, <4>1
            <4>2. CASE type \notin {"CHILD", "CREATED"}
                BY <1>2, <1>4, <2>3, <2>6, <4>2
            <4> QED
                BY <4>1, <4>2
        <3> QED
            BY <2>1, <2>4, <2>6, <3>1, <3>2
    <2> QED
        BY <2>5, <2>6
<1>6. CASE s2c' = s2c
    BY <1>2, <1>5, <1>6 DEF EventInv
<1>7. CASE s2c' # s2c
    <2>1. PICK e : e = Event(type, p, z + 1)
        OBVIOUS
    <2>2. s2c' = Append(s2c, e) /\ e \in Answers
        BY <1>1, <1>7, <2>1, ServerChangeIs DEF Answers
    <2>3. e.news = z + 1 /\ e.path = p /\ e.type = type
        BY <2>1 DEF Event
    <2>4. PICK u : u = s2c'
        OBVIOUS
    <2>5. PICK n \in Nat : n = Len(s2c) /\ DOMAIN s2c = 1..n
        BY <1>3
    <2>6. DOMAIN u = 1..(n + 1) /\ u[n + 1] = e /\ \A i \in 1..n : u[i] = s2c[i]
        BY <1>3, <2>2, <2>4, <2>5, AppendAt
    <2>7. ASSUME NEW i \in DOMAIN u, u[i].msg = "event"
          PROVE  /\ u[i].news <= z + 1
                 /\ u[i].type # "CHILD" => u[i].news <= mzxid'[u[i].path]
                 /\ exists'[u[i].path] /\ u[i].type \in {"CHILD", "DELETED"}
                        => u[i].news <= pzxid'[u[i].path]
        <3>1. i = n + 1 \/ i \in 1..n
            BY <2>5, <2>6
        <3>2. CASE i = n + 1
            BY <1>4, <2>3, <2>6, <3>2
        <3>3. CASE i \in 1..n
            BY <1>5, <2>5, <2>6, <2>7, <3>3
        <3> QED
            BY <3>1, <3>2, <3>3
    <2> QED
        BY <1>2, <2>4, <2>7 DEF EventInv
<1> QED
    BY <1>6, <1>7

(* Every step keeps the events dated.                                      *)
LEMMA EventStep ==
    ASSUME ShapeInv, AnnounceInv, EventInv, [Next]_vars
    PROVE  EventInv'
<1>1. CASE UNCHANGED <<s2c, serverVars>>
    BY <1>1 DEF EventInv, serverVars
<1>2. \A kind, p, w : Read(kind, p, w) => UNCHANGED <<s2c, serverVars>>
    BY DEF Read
<1>3. Connect \/ Flush \/ Deliver \/ CleanOne \/ UNCHANGED vars => UNCHANGED <<s2c, serverVars>>
    BY DEF Connect, Flush, Deliver, CleanOne, vars
<1>4. CASE IoReply \/ IoEvent
    <2>1. s2c # <<>> /\ s2c' = Tail(s2c) /\ UNCHANGED <<zxid, mzxid, pzxid, exists>>
        BY <1>4 DEF IoReply, IoEvent, serverVars
    <2> QED
        BY <2>1, EventTail DEF ShapeInv
<1> QED
    BY <1>1, <1>2, <1>3, <1>4, NextCases, ZxidEmptied, EventServerRead, EventServerSetWatches,
       EventServerChange

-----------------------------------------------------------------------------
(* Registrations are sound                                                 *)

(* Registrations                                                           *)

Sound(n, t, p, z) ==
    /\ z <= zxid /\ Aware(t, p, z) /\ Watched(n, t, p, z) /\ News(n, t, p, z) /\ Agree(n, t, p)
    /\ n = 0 => z <= lastZxid /\ UpToDate(t, p, z)

(* RegistrationInv, one registration at a time.                            *)
LEMMA RegistrationIs ==
    RegistrationInv <=> \A n \in Nat, t \in Tables, p \in Paths, z \in Nat :
                            Registered(n, t, p, z) => Sound(n, t, p, z)
BY DEF RegistrationInv, Sound

(* Nothing is announced when no set_watches is on its way.                 *)
LEMMA AnnouncedNone ==
    ASSUME ShapeInv, NoneAnnounced
    PROVE  \A t, p : ~Announced(t, p)
<1>1. toSend \in Seq(Asked) /\ c2s \in Seq(Asked)
    BY DEF ShapeInv, ClientShape, ServerShape
<1>2. ToSet(toSend \o c2s) = ToSet(toSend) \cup ToSet(c2s)
    BY <1>1, ConcatSet
<1>3. \A m \in ToSet(toSend) \cup ToSet(c2s) : m.op # "setWatches"
    BY DEF NoneAnnounced, ToSet
<1> QED
    BY <1>2, <1>3 DEF Announced

(* A place s2c has, one further on than before.                            *)
LEMMA Shifted ==
    ASSUME ShapeInv, AnnounceInv, RegistrationInv, s2c # <<>>, s2c' = Tail(s2c),
           UNCHANGED <<connected, armed, exists, mzxid, pzxid, zxid>>,
           \A k \in DOMAIN sent' : \E l \in DOMAIN sent : sent[l] = sent'[k],
           NEW n0 \in Nat, NEW n \in Nat, NEW t \in Tables, NEW p \in Paths, NEW z \in Nat,
           Registered(n0, t, p, z),
           n0 = n + 1 \/ (n = 0 /\ n0 = 0 /\ ~EventFor(s2c[1], t, p))
    PROVE  /\ z <= zxid' /\ Aware(t, p, z)' /\ Watched(n, t, p, z)'
           /\ News(n, t, p, z)' /\ Agree(n, t, p)'
<1>1. PICK u : u = s2c'
    OBVIOUS
<1>2. PICK k \in Nat : k = Len(s2c) /\ k > 0 /\ DOMAIN s2c = 1..k
    BY DEF ShapeInv, ServerShape
<1>3. /\ Len(u) = k - 1 /\ DOMAIN u = 1..(k - 1) /\ \A i \in 1..(k - 1) : u[i] = s2c[i + 1]
    BY <1>1, <1>2, TailAt DEF ShapeInv, ServerShape
<1>4. ASSUME NEW i \in 1..k, n0 < i, EventFor(s2c[i], t, p)
      PROVE  i - 1 \in 1..(k - 1) /\ u[i - 1] = s2c[i] /\ n < i - 1
    <2>1. i # 1 /\ i \in Nat
        BY <1>4
    <2>2. i - 1 \in 1..(k - 1) /\ (i - 1) + 1 = i
        BY <1>2, <2>1
    <2>3. n < i - 1
        BY <1>4, <2>1
    <2> QED
        BY <1>3, <2>2, <2>3
<1>5. ASSUME NEW i \in DOMAIN u PROVE i \in Nat /\ i + 1 \in 1..k /\ u[i] = s2c[i + 1]
    BY <1>2, <1>3
<1>6. ASSUME NEW i \in DOMAIN u, n < i PROVE n0 < i + 1
    BY <1>5, <1>6
<1>7. /\ z <= zxid /\ Aware(t, p, z) /\ Watched(n0, t, p, z) /\ News(n0, t, p, z) /\ Agree(n0, t, p)
    BY DEF RegistrationInv
<1>8. Aware(t, p, z)'
    BY <1>7 DEF Aware
<1>9. ~Announced(t, p)
    BY AnnouncedNone, NothingAnnounced
<1>10. ASSUME NEW j \in 1..(k + 1), Between(n0, j, t, p)
       PROVE  \E i \in DOMAIN u : n < i /\ i < j - 1 /\ EventFor(u[i], t, p)
    <2>1. PICK i \in 1..k : n0 < i /\ i < j /\ EventFor(s2c[i], t, p)
        BY <1>2, <1>10 DEF Between
    <2>2. i - 1 \in DOMAIN u /\ u[i - 1] = s2c[i] /\ n < i - 1 /\ i - 1 < j - 1
        BY <1>2, <1>3, <1>4, <2>1
    <2> QED
        BY <2>1, <2>2
<1>11. Watched(n, t, p, z)'
    <2>1. CASE connected /\ Between(n0, Len(s2c) + 1, t, p)
        <3>1. k + 1 \in 1..(k + 1) /\ (k + 1) - 1 = Len(u) + 1
            BY <1>2, <1>3
        <3>2. \E i \in DOMAIN u : n < i /\ i < Len(u) + 1 /\ EventFor(u[i], t, p)
            BY <1>2, <1>10, <2>1, <3>1
        <3> QED
            BY <1>1, <3>2 DEF Watched, Between
    <2>2. CASE ~connected \/ (p \in armed[Half(t)] /\ Unchanged(t, p, z))
        BY <2>2 DEF Watched, Unchanged
    <2> QED
        BY <1>7, <1>9, <2>1, <2>2 DEF Watched
<1>12. News(n, t, p, z)'
    <2>1. ASSUME NEW j \in DOMAIN u, n < j, EventFor(u[j], t, p) PROVE z < u[j].news
        BY <1>2, <1>5, <1>6, <1>7, <2>1 DEF News
    <2> QED
        BY <1>1, <2>1 DEF News
<1>13. Agree(n, t, p)'
    <2>1. ASSUME NEW j \in DOMAIN u, NEW l \in DOMAIN sent',
                 n < j, u[j].msg = "reply", sent'[l].xid = u[j].xid, sent'[l].path = p,
                 ~\E i \in DOMAIN u : n < i /\ i < j /\ EventFor(u[i], t, p)
          PROVE  u[j].rc = "ZNONODE" <=> t = "exist"
        <3>1. PICK l0 \in DOMAIN sent : sent[l0] = sent'[l]
            OBVIOUS
        <3>2. j + 1 \in 1..k /\ u[j] = s2c[j + 1] /\ n0 < j + 1 /\ j + 1 \in 1..(k + 1) /\ (j + 1) - 1 = j
            BY <1>2, <1>5, <1>6, <2>1
        <3>3. ~Between(n0, j + 1, t, p)
            BY <1>10, <2>1, <3>2
        <3> QED
            BY <1>2, <1>7, <2>1, <3>1, <3>2, <3>3 DEF Agree
    <2> QED
        BY <1>1, <2>1 DEF Agree, Between
<1> QED
    BY <1>7, <1>8, <1>11, <1>12, <1>13

(* Who is active after a reply was active before, or has just been made so.*)
LEMMA ActiveAfterReply ==
    ASSUME ShapeInv, OrderInv, IoReply,
           NEW t \in Tables, NEW p \in Paths, NEW w \in ActiveOn(t, p)'
    PROVE  \/ w \in ActiveOn(t, p) /\ since'[t][p][w] = since[t][p][w]
           \/ /\ 1 \in DOMAIN sent /\ sent[1].xid = s2c[1].xid /\ sent[1].path = p
              /\ t \in checker(sent[1].op, s2c[1].rc) /\ since'[t][p][w] = s2c[1].zxid
<1>1. PICK m \in Replies : m = Head(s2c)
    BY ReplyIs
<1>2. m = s2c[1] /\ m.zxid \in Nat
    <2>1. s2c # <<>> /\ s2c \in Seq(Answers)
        BY ReplyIs DEF ShapeInv, ServerShape
    <2> QED
        BY <1>1, <2>1, TailAt DEF Replies
<1>3. CASE UNCHANGED <<active, since>>
    BY <1>3, TablesKept DEF ShapeInv
<1>4. CASE ~UNCHANGED <<active, since>>
    <2>1. /\ sent # <<>> /\ Head(sent) \in Reads /\ Head(sent).xid = m.xid
          /\ \E x \in Tables : Activation(Head(sent), m.rc, m.zxid, x)
        BY <1>1, <1>4, ReplyIs
    <2>2. PICK r \in Reads : r = Head(sent)
        BY <2>1
    <2>3. r = sent[1] /\ 1 \in DOMAIN sent
        BY <2>1, <2>2, TailAt DEF ShapeInv, ClientShape
    <2>3a. PICK rc : rc = m.rc
        OBVIOUS
    <2>3b. PICK z \in Nat : z = m.zxid
        BY <1>2
    <2>4. PICK x \in Tables : Activation(r, rc, z, x)
        BY <2>1, <2>2, <2>3a, <2>3b
    <2>5. checker(r.op, rc) = {x}
        BY <2>4 DEF Activation
    <2>6. \A y \in Tables, q \in Paths :
             ActiveOn(y, q)' = IF y = x /\ q = r.path THEN ActiveOn(y, q) \cup {r.watcher}
                               ELSE ActiveOn(y, q)
        BY <2>4, ActivatedOn
    <2>7. ActiveOn(t, p)' = IF t = x /\ p = r.path THEN ActiveOn(t, p) \cup {r.watcher}
                            ELSE ActiveOn(t, p)
        BY <2>6
    <2>8. w \in Watchers
        <3>1. ActiveOn(t, p) \subseteq Watchers
            BY ActiveList DEF ShapeInv
        <3>2. r.watcher \in Watchers
            BY DEF Reads
        <3> QED
            BY <2>7, <3>1, <3>2
    <2>9. \A y \in Tables, q \in Paths, v \in Watchers :
             since'[y][q][v] = IF y = x /\ q = r.path /\ v = r.watcher THEN z
                               ELSE since[y][q][v]
        BY <2>4, ActivatedSince
    <2>10. since'[t][p][w] = IF t = x /\ p = r.path /\ w = r.watcher THEN z
                             ELSE since[t][p][w]
        BY <2>8, <2>9
    <2>11. r.xid = m.xid
        BY <2>1, <2>2
    <2> QED
        BY <1>2, <2>3, <2>3a, <2>3b, <2>5, <2>7, <2>10, <2>11
<1> QED
    BY <1>3, <1>4

LEMMA SentAfterReply ==
    ASSUME ShapeInv, OrderInv, IoReply
    PROVE  \A k \in DOMAIN sent' : \E l \in DOMAIN sent : sent[l] = sent'[k]
<1>1. sent' = sent \/ (sent # <<>> /\ sent' = Tail(sent))
    BY ReplyIs
<1>2. CASE sent # <<>> /\ sent' = Tail(sent)
    <2>1. PICK u : u = sent'
        OBVIOUS
    <2>2. \A k \in DOMAIN u : k + 1 \in DOMAIN sent /\ u[k] = sent[k + 1]
        BY <1>2, <2>1, TailAt DEF ShapeInv, ClientShape
    <2> QED
        BY <2>1, <2>2
<1> QED
    BY <1>1, <1>2

(* What is on its way after a message has been taken was so before.        *)
LEMMA RegisteredShifted ==
    ASSUME ShapeInv, s2c # <<>>, s2c' = Tail(s2c),
           \A k \in DOMAIN sent' : \E l \in DOMAIN sent : sent[l] = sent'[k],
           NEW n \in Nat, n # 0, NEW t \in Tables, NEW p \in Paths, NEW z \in Nat,
           Registered(n, t, p, z)'
    PROVE  Registered(n + 1, t, p, z)
<1>1. PICK u : u = s2c'
    OBVIOUS
<1>2. \A i \in DOMAIN u : i + 1 \in DOMAIN s2c /\ u[i] = s2c[i + 1]
    BY <1>1, TailAt DEF ShapeInv, ServerShape
<1>3. /\ n \in DOMAIN u /\ u[n].msg = "reply" /\ z = u[n].zxid
      /\ \E k \in DOMAIN sent' : /\ sent'[k].xid = u[n].xid /\ sent'[k].path = p
                                 /\ t \in checker(sent'[k].op, u[n].rc)
    BY <1>1 DEF Registered
<1>4. \E k \in DOMAIN sent : /\ sent[k].xid = u[n].xid /\ sent[k].path = p
                             /\ t \in checker(sent[k].op, u[n].rc)
    BY <1>3
<1> QED
    BY <1>2, <1>3, <1>4 DEF Registered

LEMMA RegisteredNow ==
    ASSUME ShapeInv, s2c \in Seq(Answers), NEW t \in Tables, NEW p \in Paths, NEW z \in Nat
    PROVE  Registered(0, t, p, z) <=> \E w \in ActiveOn(t, p) : since[t][p][w] = z
<1>1. 0 \notin DOMAIN s2c
    OBVIOUS
<1> QED
    BY <1>1 DEF Registered

(* The reply's own registration becomes active; the others move up.        *)
LEMMA RegistrationIoReply ==
    ASSUME ShapeInv, AnnounceInv, OrderInv, ZxidInv, EventInv, RegistrationInv, IoReply
    PROVE  RegistrationInv'
<1>1. /\ s2c # <<>> /\ s2c' = Tail(s2c)
      /\ UNCHANGED <<connected, armed, exists, mzxid, pzxid, zxid>>
    BY ReplyIs DEF serverVars
<1>2. PICK m \in Replies : m = s2c[1] /\ lastZxid' = m.zxid /\ 1 \in DOMAIN s2c
    <2>1. s2c \in Seq(Answers)
        BY DEF ShapeInv, ServerShape
    <2>2. Head(s2c) = s2c[1] /\ 1 \in DOMAIN s2c
        BY <1>1, <2>1, TailAt
    <2> QED
        BY <2>2, ReplyIs
<1>3. m.msg = "reply" /\ m.zxid \in Nat
    BY DEF Replies
<1>4. lastZxid <= m.zxid /\ lastZxid \in Nat
    BY <1>2, <1>3 DEF ZxidInv, ShapeInv, ClientShape
<1>5. \A k \in DOMAIN sent' : \E l \in DOMAIN sent : sent[l] = sent'[k]
    BY SentAfterReply
<1>6. connected
    BY <1>1 DEF AnnounceInv
<1>7. \A i \in DOMAIN s2c : i \in Nat /\ i >= 1
    BY DEF ShapeInv, ServerShape
(* An active watcher that has seen all up to lastZxid has seen all up to m *)
<1>8. ASSUME NEW t \in Tables, NEW p \in Paths, NEW z \in Nat, Sound(0, t, p, z)
      PROVE  z <= m.zxid /\ UpToDate(t, p, z)'
    <2>1. z <= m.zxid
        <3>1. z <= lastZxid
            BY <1>8 DEF Sound
        <3> QED
            BY <1>3, <1>4, <3>1
    <2>2. \/ \E i \in DOMAIN s2c : EventFor(s2c[i], t, p)
          \/ Unchanged(t, p, z)
        <3>1. ~Announced(t, p)
            BY <1>1, AnnouncedNone, NothingAnnounced
        <3> QED
            BY <1>6, <1>8, <3>1 DEF Sound, Watched, Between
    <2>3. mzxid[p] \in Nat /\ pzxid[p] \in Nat
        BY DEF ShapeInv, ServerShape
    <2>4. ASSUME NEW i \in DOMAIN s2c, EventFor(s2c[i], t, p), exists[p]
          PROVE  /\ t = "node" => m.zxid < mzxid[p]
                 /\ t = "child" => m.zxid < pzxid[p]
        <3>1. i # 1 /\ 1 < i
            BY <1>2, <1>3, <1>7, <2>4 DEF EventFor
        <3>2. PICK e \in Answers : e = s2c[i]
            BY DEF ShapeInv, ServerShape
        <3>3. e.msg = "event" /\ e.path = p /\ t \in ToSet(TablesOf(e.type))
            BY <2>4, <3>2 DEF EventFor
        <3>4. e.news \in Nat /\ e.type \in Changes
            BY <3>3, Kind DEF Events
        <3>5. m.zxid < e.news
            BY <1>2, <1>3, <3>1, <3>2, <3>3 DEF ZxidInv
        <3>6. /\ e.type # "CHILD" => e.news <= mzxid[p]
              /\ e.type \in {"CHILD", "DELETED"} => e.news <= pzxid[p]
            BY <2>4, <3>2, <3>3 DEF EventInv
        <3>7. /\ t = "node" => e.type # "CHILD"
              /\ t = "child" => e.type \in {"CHILD", "DELETED"}
            BY <3>3, <3>4, TablesOfOk
        <3> QED
            BY <1>3, <2>3, <3>4, <3>5, <3>6, <3>7
    <2>5. UpToDate(t, p, z)'
        <3>1. SUFFICES ASSUME exists[p]
                       PROVE  /\ t = "node" /\ mzxid[p] <= m.zxid => mzxid[p] <= z
                              /\ t = "child" /\ pzxid[p] <= m.zxid => pzxid[p] <= z
            BY <1>1, <1>2 DEF UpToDate
        <3>2. CASE \E i \in DOMAIN s2c : EventFor(s2c[i], t, p)
            BY <1>3, <2>3, <2>4, <3>1, <3>2
        <3>3. CASE Unchanged(t, p, z)
            BY <3>3 DEF Unchanged
        <3> QED
            BY <2>2, <3>2, <3>3
    <2> QED
        BY <2>1, <2>5
<1>9. ASSUME NEW n \in Nat, NEW t \in Tables, NEW p \in Paths, NEW z \in Nat,
             Registered(n, t, p, z)'
      PROVE  Sound(n, t, p, z)'
    <2>1. CASE n # 0
        <3>0. n + 1 \in Nat
            OBVIOUS
        <3>1. Registered(n + 1, t, p, z)
            BY <1>1, <1>5, <1>9, <2>1, RegisteredShifted
        <3>2. /\ z <= zxid' /\ Aware(t, p, z)' /\ Watched(n, t, p, z)'
              /\ News(n, t, p, z)' /\ Agree(n, t, p)'
            BY <1>1, <1>5, <3>0, <3>1, Shifted
        <3> QED
            BY <2>1, <3>2 DEF Sound
    <2>2. CASE n = 0
        <3>1. PICK w \in ActiveOn(t, p)' : since'[t][p][w] = z
            <4>1. 0 \notin DOMAIN s2c'
                <5>1. s2c' \in Seq(Answers)
                    BY <1>1, TailAt DEF ShapeInv, ServerShape
                <5> QED
                    BY <5>1
            <4> QED
                BY <1>9, <2>2, <4>1 DEF Registered
        <3>2. CASE w \in ActiveOn(t, p) /\ since[t][p][w] = z
            <4>1. Registered(0, t, p, z)
                BY <3>2 DEF Registered
            <4>2. ~EventFor(s2c[1], t, p)
                BY <1>2, <1>3 DEF EventFor
            <4>3. /\ z <= zxid' /\ Aware(t, p, z)' /\ Watched(0, t, p, z)'
                  /\ News(0, t, p, z)' /\ Agree(0, t, p)'
                BY <1>1, <1>5, <4>1, <4>2, Shifted
            <4>4. z <= m.zxid /\ UpToDate(t, p, z)'
                BY <1>8, <4>1, RegistrationIs
            <4> QED
                BY <1>2, <2>2, <4>3, <4>4 DEF Sound
        <3>3. CASE /\ 1 \in DOMAIN sent /\ sent[1].xid = s2c[1].xid /\ sent[1].path = p
                   /\ t \in checker(sent[1].op, s2c[1].rc) /\ z = s2c[1].zxid
            <4>1. Registered(1, t, p, z)
                BY <1>2, <1>3, <3>3 DEF Registered
            <4>2. /\ z <= zxid' /\ Aware(t, p, z)' /\ Watched(0, t, p, z)'
                  /\ News(0, t, p, z)' /\ Agree(0, t, p)'
                <5>1. 1 = 0 + 1
                    OBVIOUS
                <5> QED
                    BY <1>1, <1>5, <4>1, <5>1, Shifted
            <4>3. z <= lastZxid' /\ UpToDate(t, p, z)'
                BY <1>2, <1>3, <3>3 DEF UpToDate
            <4> QED
                BY <2>2, <4>2, <4>3 DEF Sound
        <3> QED
            BY <3>1, <3>2, <3>3, ActiveAfterReply
    <2> QED
        BY <2>1, <2>2
<1> QED
    BY <1>9 DEF RegistrationInv, Sound

(* The checker of a request selects exist for ZNONODE only.                *)
LEMMA CheckerSays ==
    ASSUME NEW kind, NEW rc, NEW t \in checker(kind, rc)
    PROVE  rc = "ZNONODE" <=> t = "exist"
BY DEF checker

(* A reply adds only what agrees with the watchers already there.          *)
LEMMA CompatIoReply ==
    ASSUME ShapeInv, OrderInv, CompatInv, RegistrationInv, IoReply
    PROVE  CompatInv'
<1>1. PICK m : m = s2c[1]
    OBVIOUS
<1>2. 1 \in DOMAIN s2c /\ m.msg = "reply" /\ \A i \in DOMAIN s2c : i \in Nat /\ i >= 1
    <2>1. s2c \in Seq(Answers) /\ s2c # <<>> /\ Head(s2c) = s2c[1] /\ Head(s2c).msg = "reply"
        <3>1. s2c \in Seq(Answers)
            BY DEF ShapeInv, ServerShape
        <3>2. s2c # <<>> /\ Head(s2c).msg = "reply"
            BY DEF IoReply
        <3> QED
            BY <3>1, <3>2, TailAt
    <2> QED
        BY <1>1, <2>1
<1>3. ASSUME NEW t \in Tables, NEW p \in Paths, NEW w \in ActiveOn(t, p),
             1 \in DOMAIN sent, sent[1].xid = m.xid, sent[1].path = p
      PROVE  m.rc = "ZNONODE" <=> t = "exist"
    <2>1. PICK z : z = since[t][p][w]
        OBVIOUS
    <2>2. z \in Nat
        <3>1. w \in Watchers
            BY ActiveList DEF ShapeInv
        <3> QED
            BY <2>1, <3>1 DEF ShapeInv, CountShape
    <2>3. Registered(0, t, p, z)
        BY <2>1 DEF Registered
    <2>4. Agree(0, t, p)
        BY <2>2, <2>3 DEF RegistrationInv
    <2>5. ~Between(0, 1, t, p)
        BY <1>2 DEF Between
    <2> QED
        BY <1>1, <1>2, <1>3, <2>4, <2>5 DEF Agree
<1>4. ASSUME NEW t \in Tables, NEW p \in Paths, NEW w \in ActiveOn(t, p)'
      PROVE  \/ ActiveOn(t, p) # {}
             \/ /\ 1 \in DOMAIN sent /\ sent[1].xid = m.xid /\ sent[1].path = p
                /\ m.rc = "ZNONODE" <=> t = "exist"
    BY <1>1, ActiveAfterReply, CheckerSays
<1>5. ASSUME NEW p \in Paths, ActiveOn("exist", p)' # {}, NEW t \in {"node", "child"},
             ActiveOn(t, p)' # {}
      PROVE  FALSE
    <2>1. "exist" \in Tables /\ t \in Tables /\ t # "exist"
        BY DEF Tables
    <2>2. \/ ActiveOn("exist", p) # {}
          \/ /\ 1 \in DOMAIN sent /\ sent[1].xid = m.xid /\ sent[1].path = p
             /\ m.rc = "ZNONODE"
        BY <1>4, <1>5, <2>1
    <2>3. \/ ActiveOn(t, p) # {}
          \/ /\ 1 \in DOMAIN sent /\ sent[1].xid = m.xid /\ sent[1].path = p
             /\ m.rc # "ZNONODE"
        BY <1>4, <1>5, <2>1
    <2>4. ~(ActiveOn("exist", p) # {} /\ ActiveOn(t, p) # {})
        BY DEF CompatInv
    <2> QED
        BY <1>3, <2>1, <2>2, <2>3, <2>4
<1> QED
    BY <1>5 DEF CompatInv

(* Steps that leave the tables, or only take from them.                    *)
LEMMA CompatLess ==
    ASSUME CompatInv, \A t \in Tables, p \in Paths : ActiveOn(t, p)' \subseteq ActiveOn(t, p)
    PROVE  CompatInv'
<1>1. {"node", "exist", "child"} \subseteq Tables
    BY DEF Tables
<1>2. ASSUME NEW p \in Paths
      PROVE  \/ ActiveOn("exist", p)' = {}
             \/ ActiveOn("node", p)' = {} /\ ActiveOn("child", p)' = {}
    BY <1>1 DEF CompatInv
<1> QED
    BY <1>2 DEF CompatInv

(* collectWatchers empties the tables of its event for its path.           *)
LEMMA ActiveAfterEvent ==
    ASSUME ShapeInv, IoEvent, NEW t \in Tables, NEW p \in Paths
    PROVE  ActiveOn(t, p)' = IF EventFor(Head(s2c), t, p) THEN {} ELSE ActiveOn(t, p)
<1>1. PICK m \in Events : m = Head(s2c)
    BY ShapeIoEvent
<1>2. m.msg = "event" /\ m.type \in Changes /\ m.path \in Paths
    BY DEF Events
<1>3. active' = Remaining(m.type, m.path)
    BY <1>1 DEF IoEvent
<1>4. \A q \in Paths : ToSet(hashtable_search(Remaining(m.type, m.path)[t], q))
                 = IF t \in ToSet(TablesOf(m.type)) /\ q = m.path THEN {} ELSE ActiveOn(t, q)
    BY <1>2, RemainingOk DEF ShapeInv
<1>5. ToSet(hashtable_search(active'[t], p))
                 = IF t \in ToSet(TablesOf(m.type)) /\ p = m.path THEN {} ELSE ActiveOn(t, p)
    BY <1>3, <1>4
<1> QED
    BY <1>1, <1>2, <1>5 DEF ActiveOn, EventFor

(* The event takes out the registrations it was on its way for.            *)
LEMMA RegistrationIoEvent ==
    ASSUME ShapeInv, AnnounceInv, RegistrationInv, IoEvent
    PROVE  RegistrationInv'
<1>1. /\ s2c # <<>> /\ s2c' = Tail(s2c)
      /\ UNCHANGED <<connected, armed, exists, mzxid, pzxid, zxid, sent, since>>
    BY DEF IoEvent, serverVars, history
<1>2. lastZxid' = lastZxid
    BY ShapeIoEvent
<1>3. \A k \in DOMAIN sent' : \E l \in DOMAIN sent : sent[l] = sent'[k]
    BY <1>1
<1>4. Head(s2c) = s2c[1] /\ s2c' \in Seq(Answers)
    <2>1. s2c \in Seq(Answers)
        BY DEF ShapeInv, ServerShape
    <2> QED
        BY <1>1, <2>1, TailAt
<1>5. ASSUME NEW n \in Nat, NEW t \in Tables, NEW p \in Paths, NEW z \in Nat,
             Registered(n, t, p, z)'
      PROVE  Sound(n, t, p, z)'
    <2>1. CASE n # 0
        <3>1. n + 1 \in Nat
            OBVIOUS
        <3>2. Registered(n + 1, t, p, z)
            BY <1>1, <1>3, <1>5, <2>1, RegisteredShifted
        <3>3. /\ z <= zxid' /\ Aware(t, p, z)' /\ Watched(n, t, p, z)'
              /\ News(n, t, p, z)' /\ Agree(n, t, p)'
            BY <1>1, <1>3, <3>1, <3>2, Shifted
        <3> QED
            BY <2>1, <3>3 DEF Sound
    <2>2. CASE n = 0
        <3>1. PICK w \in ActiveOn(t, p)' : since'[t][p][w] = z
            <4>1. 0 \notin DOMAIN s2c'
                BY <1>4
            <4> QED
                BY <1>5, <2>2, <4>1 DEF Registered
        <3>2. ~EventFor(s2c[1], t, p) /\ w \in ActiveOn(t, p)
            BY <1>4, <3>1, ActiveAfterEvent
        <3>3. Registered(0, t, p, z)
            BY <1>1, <3>1, <3>2 DEF Registered
        <3>4. /\ z <= zxid' /\ Aware(t, p, z)' /\ Watched(0, t, p, z)'
              /\ News(0, t, p, z)' /\ Agree(0, t, p)'
            BY <1>1, <1>3, <3>2, <3>3, Shifted
        <3>5. z <= lastZxid' /\ UpToDate(t, p, z)'
            <4>1. z <= lastZxid /\ UpToDate(t, p, z)
                BY <3>3 DEF RegistrationInv
            <4> QED
                BY <1>1, <1>2, <4>1 DEF UpToDate
        <3> QED
            BY <2>2, <3>4, <3>5 DEF Sound
    <2> QED
        BY <2>1, <2>2
<1> QED
    BY <1>5 DEF RegistrationInv, Sound

(* The connection gone, there is nothing to be sound but what is active.   *)
LEMMA RegistrationGone ==
    ASSUME ShapeInv, RegistrationInv, connected' = FALSE, DOMAIN s2c' = {},
           UNCHANGED <<exists, mzxid, pzxid, zxid, lastZxid, since>>,
           \A t \in Tables, p \in Paths : ActiveOn(t, p)' \subseteq ActiveOn(t, p)
    PROVE  RegistrationInv'
<1>1. ASSUME NEW n \in Nat, NEW t \in Tables, NEW p \in Paths, NEW z \in Nat,
             Registered(n, t, p, z)'
      PROVE  Sound(n, t, p, z)'
    <2>1. n = 0 /\ Registered(0, t, p, z)
        BY <1>1 DEF Registered
    <2>2. z <= zxid /\ Aware(t, p, z) /\ z <= lastZxid /\ UpToDate(t, p, z)
        BY <2>1 DEF RegistrationInv
    <2>3. Aware(t, p, z)' /\ UpToDate(t, p, z)'
        BY <2>2 DEF Aware, UpToDate
    <2>4. Watched(n, t, p, z)'
        BY DEF Watched
    <2>5. News(n, t, p, z)' /\ Agree(n, t, p)'
        BY DEF News, Agree
    <2> QED
        BY <2>2, <2>3, <2>4, <2>5 DEF Sound
<1> QED
    BY <1>1 DEF RegistrationInv, Sound

(* Steps that leave the answers and the tables alone.                      *)
LEMMA RegistrationKept ==
    ASSUME RegistrationInv,
           UNCHANGED <<s2c, active, exists, mzxid, pzxid, zxid, lastZxid, since, armed, connected>>,
           \A t \in Tables, p \in Paths : Announced(t, p) => Announced(t, p)',
           \A k \in DOMAIN sent', i \in DOMAIN s2c : sent'[k].xid = s2c[i].xid =>
               \E l \in DOMAIN sent : sent[l] = sent'[k]
    PROVE  RegistrationInv'
<1>1. \A t, p : ActiveOn(t, p)' = ActiveOn(t, p)
    BY DEF ActiveOn
<1>2. ASSUME NEW n \in Nat, NEW t \in Tables, NEW p \in Paths, NEW z \in Nat,
             Registered(n, t, p, z)'
      PROVE  Sound(n, t, p, z)'
    <2>1. Registered(n, t, p, z)
        <3>1. CASE n = 0 /\ \E w \in ActiveOn(t, p) : since[t][p][w] = z
            BY <3>1 DEF Registered
        <3>2. CASE /\ n \in DOMAIN s2c /\ s2c[n].msg = "reply" /\ z = s2c[n].zxid
                   /\ \E k \in DOMAIN sent' :
                         /\ sent'[k].xid = s2c[n].xid /\ sent'[k].path = p
                         /\ t \in checker(sent'[k].op, s2c[n].rc)
            BY <3>2 DEF Registered
        <3> QED
            BY <1>1, <1>2, <3>1, <3>2 DEF Registered
    <2>2. Sound(n, t, p, z)
        BY <2>1, RegistrationIs
    <2>3. Aware(t, p, z)' /\ News(n, t, p, z)'
        BY <2>2 DEF Sound, Aware, News
    <2>4. Watched(n, t, p, z)'
        BY <2>2 DEF Sound, Watched, Between, Unchanged
    <2>5. Agree(n, t, p)'
        <3>1. ASSUME NEW j \in DOMAIN s2c, NEW k \in DOMAIN sent',
                     n < j, s2c[j].msg = "reply", sent'[k].xid = s2c[j].xid,
                     sent'[k].path = p, ~Between(n, j, t, p)
              PROVE  s2c[j].rc = "ZNONODE" <=> t = "exist"
            BY <2>2, <3>1 DEF Sound, Agree
        <3> QED
            BY <3>1 DEF Agree, Between
    <2>6. n = 0 => z <= lastZxid' /\ UpToDate(t, p, z)'
        BY <2>2 DEF Sound, UpToDate
    <2>7. z <= zxid'
        BY <2>2 DEF Sound
    <2> QED
        BY <2>3, <2>4, <2>5, <2>6, <2>7 DEF Sound
<1> QED
    BY <1>2 DEF RegistrationInv, Sound

LEMMA RegistrationRead ==
    ASSUME ShapeInv, OrderInv, RegistrationInv, NEW kind \in Kinds, NEW q \in Paths,
           NEW v \in Watchers, Read(kind, q, v)
    PROVE  RegistrationInv'
<1>1. PICK n \in Nat : n = calls
    BY DEF ShapeInv, CountShape
<1>2. PICK r : r = [op |-> kind, path |-> q, watcher |-> v, xid |-> n + 1]
    OBVIOUS
<1>3. /\ sent' = Append(sent, r) /\ toSend' = Append(toSend, r)
      /\ UNCHANGED <<c2s, s2c, active, exists, mzxid, pzxid, zxid, lastZxid, since, armed, connected>>
    BY <1>1, <1>2 DEF Read, serverVars, history
<1>4. r \in Reads /\ r \in Asked /\ r.xid = n + 1
    BY <1>1, <1>2 DEF Reads, Asked
<1>5. /\ toSend \in Seq(Asked) /\ c2s \in Seq(Asked) /\ sent \in Seq(Reads) /\ s2c \in Seq(Answers)
    BY DEF ShapeInv, ClientShape, ServerShape
<1>6. ASSUME NEW t \in Tables, NEW p \in Paths, Announced(t, p) PROVE Announced(t, p)'
    <2>1. PICK u : u = toSend'
        OBVIOUS
    <2>2. u \in Seq(Asked) /\ ToSet(u) = ToSet(toSend) \cup {r}
        BY <1>3, <1>4, <1>5, <2>1, AppendAt
    <2>3. ToSet(u \o c2s) = ToSet(u) \cup ToSet(c2s)
        BY <1>5, <2>2, ConcatSet
    <2>4. ToSet(toSend \o c2s) = ToSet(toSend) \cup ToSet(c2s)
        BY <1>5, ConcatSet
    <2> QED
        BY <1>3, <1>6, <2>1, <2>2, <2>3, <2>4 DEF Announced
<1>7. ASSUME NEW k \in DOMAIN sent', NEW i \in DOMAIN s2c, sent'[k].xid = s2c[i].xid
      PROVE  \E l \in DOMAIN sent : sent[l] = sent'[k]
    <2>1. PICK u : u = sent'
        OBVIOUS
    <2>2. PICK m \in Nat : m = Len(sent) /\ DOMAIN sent = 1..m
        BY <1>5
    <2>3. DOMAIN u = 1..(m + 1) /\ u[m + 1] = r /\ \A l \in 1..m : u[l] = sent[l]
        BY <1>3, <1>4, <1>5, <2>1, <2>2, AppendAt
    <2>4. k \in 1..m \/ k = m + 1
        BY <2>1, <2>2, <2>3
    <2>5. k # m + 1
        <3>1. SUFFICES ASSUME s2c[i].xid = n + 1 PROVE FALSE
            BY <1>4, <1>7, <2>1, <2>3
        <3>2. s2c[i] \in ToSet(s2c) /\ n + 1 > 0
            BY <1>1 DEF ToSet
        <3>3. n + 1 \in Numbers(s2c)
            BY <3>1, <3>2, NumberOf
        <3>4. n + 1 <= n
            BY <1>1, <3>3 DEF OrderInv
        <3> QED
            BY <3>4
    <2> QED
        BY <2>1, <2>2, <2>3, <2>4, <2>5
<1> QED
    BY <1>3, <1>6, <1>7, RegistrationKept

LEMMA RegistrationFlush ==
    ASSUME ShapeInv, RegistrationInv, Flush
    PROVE  RegistrationInv'
<1>1. /\ c2s' = c2s \o toSend /\ toSend' = <<>>
      /\ UNCHANGED <<sent, s2c, active, exists, mzxid, pzxid, zxid, lastZxid, since, armed, connected>>
    BY DEF Flush, serverVars, history
<1>2. toSend \in Seq(Asked) /\ c2s \in Seq(Asked)
    BY DEF ShapeInv, ClientShape, ServerShape
<1>3. ASSUME NEW t \in Tables, NEW p \in Paths, Announced(t, p) PROVE Announced(t, p)'
    <2>1. PICK u \in Seq(Asked), e \in Seq(Asked) : u = c2s' /\ e = toSend' /\ e = <<>>
        <3>1. c2s' \in Seq(Asked)
            BY <1>1, <1>2, ConcatProperties
        <3>2. toSend' \in Seq(Asked)
            BY <1>1
        <3> QED
            BY <1>1, <3>1, <3>2
    <2>2. ToSet(u) = ToSet(c2s) \cup ToSet(toSend)
        BY <1>1, <1>2, <2>1, ConcatSet
    <2>3. ToSet(e \o u) = ToSet(e) \cup ToSet(u)
        BY ConcatSet
    <2>4. ToSet(toSend \o c2s) = ToSet(toSend) \cup ToSet(c2s)
        BY <1>2, ConcatSet
    <2> QED
        <3>1. PICK m \in ToSet(toSend \o c2s) : m.op = "setWatches" /\ p \in m.keys[t]
            BY <1>3 DEF Announced
        <3>2. ToSet(e \o u) = ToSet(toSend' \o c2s')
            BY <2>1
        <3>3. m \in ToSet(toSend' \o c2s')
            BY <2>2, <2>3, <2>4, <3>2
        <3> QED
            BY <3>1, <3>3 DEF Announced
<1>4. \A k \in DOMAIN sent', i \in DOMAIN s2c : sent'[k].xid = s2c[i].xid =>
               \E l \in DOMAIN sent : sent[l] = sent'[k]
    BY <1>1
<1> QED
    BY <1>1, <1>3, <1>4, RegistrationKept

LEMMA RegistrationIdle ==
    ASSUME RegistrationInv, Deliver \/ UNCHANGED vars
    PROVE  RegistrationInv'
<1>1. UNCHANGED <<sent, s2c, c2s, toSend, active, exists, mzxid, pzxid, zxid, lastZxid, since,
                  armed, connected>>
    BY DEF Deliver, vars, clientVars, serverVars, history
<1>2. \A t \in Tables, p \in Paths : Announced(t, p) => Announced(t, p)'
    BY <1>1 DEF Announced
<1>3. \A k \in DOMAIN sent', i \in DOMAIN s2c : sent'[k].xid = s2c[i].xid =>
               \E l \in DOMAIN sent : sent[l] = sent'[k]
    BY <1>1
<1> QED
    BY <1>1, <1>2, <1>3, RegistrationKept

(* Whoever is active is announced.                                         *)
LEMMA RegistrationConnect ==
    ASSUME ShapeInv, AnnounceInv, RegistrationInv, Connect
    PROVE  RegistrationInv'
<1>1. /\ phase = "open" /\ ~connected
      /\ toSend' = send_set_watches(toSend)
      /\ UNCHANGED <<sent, c2s, s2c, active, exists, mzxid, pzxid, zxid, lastZxid, since>>
    BY DEF Connect, serverVars, history
<1>2. DOMAIN s2c' = {} /\ c2s = <<>>
    <2>1. s2c' = <<>> /\ c2s = <<>>
        BY <1>1 DEF AnnounceInv
    <2> QED
        BY <2>1
<1>3. toSend \in Seq(Asked) /\ c2s \in Seq(Asked)
    BY DEF ShapeInv, ClientShape, ServerShape
<1>4. \A t, p : ActiveOn(t, p)' = ActiveOn(t, p)
    BY <1>1 DEF ActiveOn
<1>5. ASSUME NEW t \in Tables, NEW p \in Paths, ActiveOn(t, p) # {} PROVE Announced(t, p)'
    <2>1. p \in KeysIn(active[t])
        BY <1>5, ActiveList DEF ShapeInv
    <2>2. PICK a \in Asked : /\ a.op = "setWatches" /\ \A x \in Tables : a.keys[x] = KeysIn(active[x])
                             /\ toSend' = Cons(a, toSend)
        BY <1>1, <2>1, SetWatchesFirst DEF ShapeInv
    <2>3. PICK u : u = toSend'
        OBVIOUS
    <2>4. u \in Seq(Asked)
        BY <1>3, <2>2, <2>3, ConsFacts
    <2>5. a \in ToSet(u)
        <3>1. ToSet(Cons(a, toSend)) = {a} \cup ToSet(toSend)
            BY <1>3, ConsSet
        <3> QED
            BY <2>2, <2>3, <3>1
    <2>6. ToSet(u \o c2s) = ToSet(u) \cup ToSet(c2s)
        BY <1>3, <2>4, ConcatSet
    <2>7. p \in a.keys[t]
        BY <2>1, <2>2
    <2> QED
        BY <1>1, <2>2, <2>3, <2>5, <2>6, <2>7 DEF Announced
<1>6. ASSUME NEW n \in Nat, NEW t \in Tables, NEW p \in Paths, NEW z \in Nat,
             Registered(n, t, p, z)'
      PROVE  Sound(n, t, p, z)'
    <2>1. n = 0 /\ Registered(0, t, p, z) /\ ActiveOn(t, p) # {}
        BY <1>1, <1>2, <1>4, <1>6 DEF Registered
    <2>2. z <= zxid /\ Aware(t, p, z) /\ z <= lastZxid /\ UpToDate(t, p, z)
        BY <2>1 DEF RegistrationInv
    <2>3. Aware(t, p, z)' /\ UpToDate(t, p, z)'
        BY <1>1, <2>2 DEF Aware, UpToDate
    <2>4. Watched(n, t, p, z)'
        BY <1>5, <2>1 DEF Watched
    <2>5. News(n, t, p, z)' /\ Agree(n, t, p)'
        BY <1>2 DEF News, Agree
    <2> QED
        BY <1>1, <2>2, <2>3, <2>4, <2>5 DEF Sound
<1> QED
    BY <1>6 DEF RegistrationInv, Sound

(* do_clean_hashtable only takes away.                                     *)
LEMMA ActiveAfterCleanOne ==
    ASSUME ShapeInv, CleanOne, NEW t \in Tables, NEW p \in Paths
    PROVE  ActiveOn(t, p)' \subseteq ActiveOn(t, p)
<1>1. CASE active' = active
    BY <1>1 DEF ActiveOn
<1>2. ASSUME NEW x \in Tables, hashtable_count(active[x]) > 0,
             active' = [active EXCEPT ![x] = hashtable_iterator_remove(active[x])]
      PROVE  ActiveOn(t, p)' \subseteq ActiveOn(t, p)
    <2>1. PICK g : g = hashtable_iterator_remove(active[x])
        OBVIOUS
    <2>2. \A q \in Paths : hashtable_search(g, q) \in {Null, hashtable_search(active[x], q)}
        BY <1>2, <2>1, NoNull, IteratorRemoveOk DEF ShapeInv, TableInv
    <2>3. active'[t] = IF t = x THEN g ELSE active[t]
        BY <1>2, <2>1 DEF ShapeInv, TableInv
    <2>4. ToSet(Null) = {}
        BY NumbersNone DEF Null
    <2> QED
        BY <2>2, <2>3, <2>4 DEF ActiveOn
<1> QED
    BY <1>1, <1>2 DEF CleanOne

(* Nothing is promised of a connection that is gone.                       *)
LEMMA RegistrationEnds ==
    ASSUME ShapeInv, AnnounceInv, RegistrationInv, Disconnect \/ Close \/ CleanOne
    PROVE  RegistrationInv'
<1>1. CASE Disconnect \/ Close
    <2>1. /\ connected' = FALSE /\ DOMAIN s2c' = {}
          /\ UNCHANGED <<exists, mzxid, pzxid, zxid, lastZxid, since, active>>
        BY <1>1 DEF Disconnect, Close, serverVars, history
    <2>2. \A t \in Tables, p \in Paths : ActiveOn(t, p)' \subseteq ActiveOn(t, p)
        BY <2>1 DEF ActiveOn
    <2> QED
        BY <2>1, <2>2, RegistrationGone
<1>2. CASE CleanOne
    <2>1. /\ phase # "open"
          /\ UNCHANGED <<connected, s2c, exists, mzxid, pzxid, zxid, lastZxid, since>>
        BY <1>2 DEF CleanOne, serverVars, history
    <2>2. connected' = FALSE /\ s2c' = <<>>
        BY <2>1 DEF AnnounceInv, ShapeInv, ClientShape
    <2>3. DOMAIN s2c' = {}
        BY <2>2
    <2>4. \A t \in Tables, p \in Paths : ActiveOn(t, p)' \subseteq ActiveOn(t, p)
        BY <1>2, ActiveAfterCleanOne
    <2> QED
        BY <2>1, <2>2, <2>3, <2>4, RegistrationGone
<1> QED
    BY <1>1, <1>2

(* The one who asked.                                                      *)
LEMMA OneAsker ==
    ASSUME ShapeInv, OrderInv, NEW r \in Reads, r \in ToSet(c2s), NEW k \in DOMAIN sent,
           sent[k].xid = r.xid
    PROVE  sent[k] = r
<1>1. r \in ToSet(sent)
    BY Kind DEF OrderInv
<1>2. PICK l \in DOMAIN sent : sent[l] = r
    BY <1>1 DEF ToSet
<1>3. sent \in Seq(Reads)
    BY DEF ShapeInv, ClientShape
<1>4. k \in Numbered(sent) /\ l \in Numbered(sent)
    <2>1. r.xid > 0
        BY Kind
    <2> QED
        BY <1>2, <2>1 DEF Numbered
<1>5. r.xid \in Int
    BY AskedCountable DEF Countable
<1>6. k \in Int /\ l \in Int
    BY <1>3
<1>7. k = l
    <2>1. ~(k < l) /\ ~(l < k)
        BY <1>2, <1>4, <1>5 DEF OrderInv, Ascending
    <2> QED
        BY <1>6, <2>1
<1> QED
    BY <1>2, <1>7

(* The server arms the half that the client's table belongs to.            *)
LEMMA CheckerArms ==
    ASSUME NEW kind \in Kinds, NEW rc \in {"ZOK", "ZNONODE"}, NEW t \in checker(kind, rc)
    PROVE  /\ HalfOf(kind) = Half(t)
           /\ rc = "ZOK" \/ kind = "exists"
           /\ rc = "ZNONODE" <=> t = "exist"
BY DEF checker, Kinds, HalfOf, Half

(* A read arms what its reply will put in a table, as the node is now.     *)
LEMMA RegistrationServerRead ==
    ASSUME ShapeInv, AnnounceInv, OrderInv, RegistrationInv, ServerRead
    PROVE  RegistrationInv'
<1>1. PICK r \in Reads, rc \in {"ZOK", "ZNONODE"} :
         /\ c2s # <<>> /\ r = Head(c2s) /\ r.path \in Paths /\ (rc = "ZOK" <=> exists[r.path])
         /\ s2c' = Append(s2c, Reply(r.xid, rc)) /\ Reply(r.xid, rc) \in Replies
         /\ armed' = IF rc = "ZOK" \/ r.op = "exists"
                     THEN [armed EXCEPT ![HalfOf(r.op)] = @ \cup {r.path}] ELSE armed
         /\ UNCHANGED <<clientVars, exists, mzxid, pzxid, zxid, calls, connects, history>>
    BY ServerReadIs
<1>2. UNCHANGED <<sent, active, connected, lastZxid, since, exists, mzxid, pzxid, zxid>>
    BY <1>1 DEF clientVars, history
<1>3. PICK a \in Replies : /\ a.msg = "reply" /\ a.xid = r.xid /\ a.rc = rc /\ a.zxid = zxid
                           /\ s2c' = Append(s2c, a)
    BY <1>1 DEF Reply
<1>4. PICK u : u = s2c'
    OBVIOUS
<1>5. PICK N \in Nat : N = Len(s2c) /\ DOMAIN s2c = 1..N
    BY DEF ShapeInv, ServerShape
<1>6. DOMAIN u = 1..(N + 1) /\ u[N + 1] = a /\ \A i \in 1..N : u[i] = s2c[i]
    <2>1. a \in Answers /\ s2c \in Seq(Answers)
        BY DEF Answers, ShapeInv, ServerShape
    <2> QED
        BY <1>3, <1>4, <1>5, <2>1, AppendAt
<1>7. \A t \in Tables : armed[Half(t)] \subseteq armed'[Half(t)]
    <2>1. armed \in [Halves -> SUBSET Paths] /\ \A t \in Tables : Half(t) \in Halves
        BY DEF ShapeInv, ServerShape, Half, Halves
    <2> QED
        BY <1>1, <2>1
<1>8. r \in ToSet(c2s) /\ c2s[1] = r /\ r.op # "setWatches"
    <2>1. c2s \in Seq(Asked)
        BY DEF ShapeInv, ServerShape
    <2>2. r \in ToSet(c2s) /\ c2s[1] = r
        BY <1>1, <2>1, TailAt
    <2> QED
        BY <2>2, Kind
<1>9. connected /\ \A t, p : ~Announced(t, p)
    <2>1. NoneAnnounced
        BY <1>1, <1>8, NothingAnnounced
    <2> QED
        BY <1>1, <2>1, AnnouncedNone DEF AnnounceInv
<1>10. \A i \in DOMAIN u : i = N + 1 \/ (i \in 1..N /\ i < N + 1)
    BY <1>5, <1>6
<1>11. \A t, p : \A i \in DOMAIN u : EventFor(u[i], t, p) => i \in 1..N /\ EventFor(s2c[i], t, p)
    BY <1>3, <1>6, <1>10 DEF EventFor
<1>12. \A k \in DOMAIN sent : sent[k].xid = a.xid => sent[k] = r
    BY <1>3, <1>8, OneAsker
(* Registrations there were.                                               *)
<1>13. ASSUME NEW n \in Nat, NEW t \in Tables, NEW p \in Paths, NEW z \in Nat,
              Registered(n, t, p, z), n = 0 \/ n \in 1..N
       PROVE  Sound(n, t, p, z)'
    <2>1. Sound(n, t, p, z)
        BY <1>13, RegistrationIs
    <2>2. \/ Between(n, N + 1, t, p)
          \/ p \in armed[Half(t)] /\ Unchanged(t, p, z)
        BY <1>5, <1>9, <2>1 DEF Sound, Watched
    <2>3. Watched(n, t, p, z)'
        <3>1. CASE Between(n, N + 1, t, p)
            <4>1. PICK i \in 1..N : n < i /\ EventFor(s2c[i], t, p)
                BY <1>5, <3>1 DEF Between
            <4>2. i \in DOMAIN u /\ u[i] = s2c[i] /\ i < Len(u) + 1
                BY <1>4, <1>5, <1>6, <4>1
            <4> QED
                BY <1>4, <4>1, <4>2 DEF Watched, Between
        <3>2. CASE p \in armed[Half(t)] /\ Unchanged(t, p, z)
            BY <1>2, <1>7, <3>2 DEF Watched, Unchanged
        <3> QED
            BY <2>2, <3>1, <3>2
    <2>4. News(n, t, p, z)'
        <3>1. ASSUME NEW j \in DOMAIN u, n < j, EventFor(u[j], t, p) PROVE z < u[j].news
            BY <1>5, <1>6, <1>11, <2>1, <3>1 DEF Sound, News
        <3> QED
            BY <1>4, <3>1 DEF News
    <2>5. Agree(n, t, p)'
        <3>1. ASSUME NEW j \in DOMAIN u, NEW k \in DOMAIN sent, n < j, u[j].msg = "reply",
                     sent[k].xid = u[j].xid, sent[k].path = p,
                     ~\E i \in DOMAIN u : n < i /\ i < j /\ EventFor(u[i], t, p)
              PROVE  u[j].rc = "ZNONODE" <=> t = "exist"
            <4>1. ~Between(n, j, t, p)
                <5>1. \A i \in 1..N : i \in DOMAIN u /\ u[i] = s2c[i]
                    BY <1>5, <1>6
                <5> QED
                    BY <1>5, <3>1, <5>1 DEF Between
            <4>2. CASE j \in 1..N
                BY <1>5, <1>6, <2>1, <3>1, <4>1, <4>2 DEF Sound, Agree
            <4>3. CASE j = N + 1
                <5>1. p = r.path
                    BY <1>6, <1>12, <3>1, <4>3
                <5>2. Unchanged(t, p, z)
                    BY <2>2, <4>1, <4>3
                <5>3. exists[p] <=> t # "exist"
                    BY <5>2 DEF Unchanged, Tables
                <5> QED
                    BY <1>1, <1>3, <1>6, <4>3, <5>1, <5>3
            <4> QED
                BY <1>10, <4>2, <4>3
        <3> QED
            BY <1>2, <1>4, <3>1 DEF Agree, Between
    <2>6. z <= zxid' /\ Aware(t, p, z)' /\ (n = 0 => z <= lastZxid' /\ UpToDate(t, p, z)')
        BY <1>2, <2>1 DEF Sound, Aware, UpToDate
    <2> QED
        BY <2>3, <2>4, <2>5, <2>6 DEF Sound
(* The new one.                                                            *)
<1>14. ASSUME NEW t \in Tables, NEW p \in Paths, NEW k \in DOMAIN sent,
              sent[k].xid = a.xid, sent[k].path = p, t \in checker(sent[k].op, rc)
       PROVE  Sound(N + 1, t, p, zxid)'
    <2>1. sent[k] = r /\ p = r.path /\ t \in checker(r.op, rc) /\ r.op \in Kinds
        BY <1>12, <1>14 DEF Reads
    <2>2. HalfOf(r.op) = Half(t) /\ (rc = "ZOK" \/ r.op = "exists") /\ (rc = "ZNONODE" <=> t = "exist")
        BY <2>1, CheckerArms
    <2>3. exists[p] <=> t # "exist"
        BY <1>1, <2>1, <2>2
    <2>4. p \in armed'[Half(t)]
        <3>1. armed \in [Halves -> SUBSET Paths] /\ Half(t) \in Halves
            BY DEF ShapeInv, ServerShape, Half, Halves
        <3> QED
            BY <1>1, <2>1, <2>2, <3>1
    <2>5. Unchanged(t, p, zxid)
        <3>1. mzxid[p] <= zxid /\ pzxid[p] <= zxid
            BY DEF ShapeInv, ServerShape
        <3> QED
            BY <2>3, <3>1 DEF Unchanged, Tables
    <2>6. Watched(N + 1, t, p, zxid)' /\ Aware(t, p, zxid)'
        BY <1>2, <2>3, <2>4, <2>5 DEF Watched, Aware, Unchanged
    <2>7. ~\E j \in DOMAIN u : N + 1 < j
        BY <1>5, <1>6
    <2>8. News(N + 1, t, p, zxid)' /\ Agree(N + 1, t, p)'
        BY <1>4, <2>7 DEF News, Agree
    <2>9. N + 1 # 0 /\ zxid <= zxid'
        BY <1>2, <1>5 DEF ShapeInv, ServerShape
    <2> QED
        BY <1>2, <2>6, <2>8, <2>9 DEF Sound
<1>15. ASSUME NEW n \in Nat, NEW t \in Tables, NEW p \in Paths, NEW z \in Nat,
              Registered(n, t, p, z)'
       PROVE  Sound(n, t, p, z)'
    <2>1. \A x, q : ActiveOn(x, q)' = ActiveOn(x, q)
        BY <1>2 DEF ActiveOn
    <2>2. CASE n = 0 /\ \E w \in ActiveOn(t, p) : since[t][p][w] = z
        <3>1. Registered(n, t, p, z)
            BY <2>2 DEF Registered
        <3> QED
            BY <1>13, <2>2, <3>1
    <2>3. CASE /\ n \in DOMAIN u /\ u[n].msg = "reply" /\ z = u[n].zxid
               /\ \E k \in DOMAIN sent : /\ sent[k].xid = u[n].xid /\ sent[k].path = p
                                         /\ t \in checker(sent[k].op, u[n].rc)
        <3>1. CASE n \in 1..N
            <4>1. Registered(n, t, p, z)
                BY <1>5, <1>6, <2>3, <3>1 DEF Registered
            <4> QED
                BY <1>13, <3>1, <4>1
        <3>2. CASE n = N + 1
            <4>1. z = zxid
                BY <1>3, <1>6, <2>3, <3>2
            <4>2. Sound(N + 1, t, p, zxid)'
                BY <1>3, <1>6, <1>14, <2>3, <3>2
            <4>3. zxid' = zxid
                BY <1>2
            <4> QED
                BY <3>2, <4>1, <4>2, <4>3 DEF Sound, Aware, Watched, News, UpToDate, Unchanged
        <3> QED
            BY <1>10, <2>3, <3>1, <3>2
    <2> QED
        BY <1>2, <1>4, <1>15, <2>1, <2>2, <2>3 DEF Registered
<1> QED
    BY <1>15 DEF RegistrationInv, Sound

(* What a watch announced is due, against what it was registered for.      *)
LEMMA DueOrQuiet ==
    ASSUME ServerShape, NEW t \in Tables, NEW p \in Paths, NEW z \in Nat, z <= lastZxid,
           UpToDate(t, p, z), lastZxid \in Nat
    PROVE  \/ Overdue(t, p, lastZxid) = {} /\ Unchanged(t, p, z)
           \/ \E e \in Overdue(t, p, lastZxid) : e \in Changes /\ t \in ToSet(TablesOf(e))
<1>1. mzxid[p] \in Nat /\ pzxid[p] \in Nat
    BY DEF ServerShape
<1>2. \A e \in Changes : /\ "node" \in ToSet(TablesOf(e)) <=> e # "CHILD"
                         /\ "exist" \in ToSet(TablesOf(e)) <=> e # "CHILD"
                         /\ "child" \in ToSet(TablesOf(e)) <=> e \in {"CHILD", "DELETED"}
    BY TablesOfOk
<1>3. CASE t = "node"
    BY <1>1, <1>2, <1>3 DEF Overdue, Unchanged, UpToDate, Changes
<1>4. CASE t = "exist"
    BY <1>1, <1>2, <1>4 DEF Overdue, Unchanged, UpToDate, Changes
<1>5. CASE t = "child"
    BY <1>1, <1>2, <1>5 DEF Overdue, Unchanged, UpToDate, Changes
<1> QED
    BY <1>3, <1>4, <1>5 DEF Tables

(* A due event is newer than whoever it finds.                             *)
LEMMA DueIsNews ==
    ASSUME ServerShape, CompatInv, NEW t \in Tables, NEW s \in Tables, NEW p \in Paths,
           NEW z \in Nat, z <= lastZxid, lastZxid \in Nat, Aware(t, p, z),
           ActiveOn(t, p) # {}, ActiveOn(s, p) # {},
           NEW e \in Overdue(s, p, lastZxid), t \in ToSet(TablesOf(e))
    PROVE  z < IF e = "CHILD" THEN pzxid[p] ELSE mzxid[p]
<1>1. mzxid[p] \in Nat /\ pzxid[p] \in Nat
    BY DEF ServerShape
<1>2. e \in Changes
    BY DueIsChange
<1>3. /\ "node" \in ToSet(TablesOf(e)) <=> e # "CHILD"
      /\ "exist" \in ToSet(TablesOf(e)) <=> e # "CHILD"
      /\ "child" \in ToSet(TablesOf(e)) <=> e \in {"CHILD", "DELETED"}
    BY <1>2, TablesOfOk
<1>4. \/ ActiveOn("exist", p) = {}
      \/ ActiveOn("node", p) = {} /\ ActiveOn("child", p) = {}
    BY DEF CompatInv
<1>5. t = "exist" <=> s = "exist"
    BY <1>4 DEF Tables
<1>6. CASE s = "node"
    BY <1>1, <1>3, <1>5, <1>6 DEF Overdue, Aware
<1>7. CASE s = "exist"
    BY <1>1, <1>3, <1>5, <1>7 DEF Overdue, Aware
<1>8. CASE s = "child"
    BY <1>1, <1>3, <1>5, <1>8 DEF Overdue, Aware
<1> QED
    BY <1>6, <1>7, <1>8 DEF Tables

(* What was announced is armed again, or its event is sent.                *)
LEMMA RegistrationServerSetWatches ==
    ASSUME ShapeInv, AnnounceInv, CompatInv, RegistrationInv, ServerSetWatches
    PROVE  RegistrationInv'
<1>1. PICK m \in Asked : /\ m = Head(c2s) /\ m.zxid = lastZxid
                         /\ \A t \in Tables : m.keys[t] = KeysIn(active[t])
    BY AnswerParts DEF Fresh
<1>2. /\ UNCHANGED <<sent, active, connected, lastZxid, since, exists, mzxid, pzxid, zxid>>
      /\ armed' = [data  |-> armed.data \cup Quiet(m, {"node", "exist"}),
                   child |-> armed.child \cup Quiet(m, {"child"})]
    BY <1>1, SetWatchesIs DEF clientVars, history
<1>3. PICK u : u = s2c'
    OBVIOUS
<1>4. PICK N \in Nat : N = Len(u) /\ DOMAIN u = 1..N
    BY <1>3, AnswerParts
<1>5. /\ \A i \in DOMAIN u : u[i] \in DueEvents(m) \/ (u[i].msg = "reply" /\ u[i].xid = SET_WATCHES_XID)
      /\ \A v \in DueEvents(m) : \E i \in DOMAIN u : u[i] = v
    BY <1>1, <1>3, AnswerParts
<1>6. lastZxid \in Nat /\ ServerShape /\ TableInv /\ sent \in Seq(Reads)
    BY DEF ShapeInv, ClientShape
<1>7. \A k \in DOMAIN sent : sent[k].xid # SET_WATCHES_XID
    <2>1. \A k \in DOMAIN sent : sent[k] \in Reads
        BY <1>6
    <2>2. \A r \in Reads : r.xid # SET_WATCHES_XID
        BY DEF Reads, SET_WATCHES_XID
    <2> QED
        BY <2>1, <2>2
<1>8. \A v \in DueEvents(m) :
          \E t \in Tables, p \in Paths : \E e \in Overdue(t, p, lastZxid) :
              /\ p \in m.keys[t] /\ e \in Changes
              /\ v.msg = "event" /\ v.type = e /\ v.path = p
              /\ v.news = IF e = "CHILD" THEN pzxid[p] ELSE mzxid[p]
    BY <1>1, <1>6, DueIs
<1>9. ASSUME NEW n \in Nat, NEW t \in Tables, NEW p \in Paths, NEW z \in Nat,
             Registered(n, t, p, z)'
      PROVE  n = 0 /\ ActiveOn(t, p) # {} /\ Registered(0, t, p, z)
    <2>1. ActiveOn(t, p)' = ActiveOn(t, p)
        BY <1>2 DEF ActiveOn
    <2>2. CASE n = 0 /\ \E w \in ActiveOn(t, p) : since[t][p][w] = z
        BY <2>2 DEF Registered
    <2>3. CASE /\ n \in DOMAIN u /\ u[n].msg = "reply"
               /\ \E k \in DOMAIN sent : sent[k].xid = u[n].xid
        BY <1>5, <1>7, <1>8, <2>3
    <2> QED
        BY <1>2, <1>3, <1>9, <2>1, <2>2, <2>3 DEF Registered
<1>10. ASSUME NEW t \in Tables, NEW p \in Paths, NEW z \in Nat, Registered(0, t, p, z),
              ActiveOn(t, p) # {}
       PROVE  Sound(0, t, p, z)'
    <2>1. Sound(0, t, p, z)
        BY <1>10, RegistrationIs
    <2>2. p \in m.keys[t]
        BY <1>1, <1>6, <1>10, ActiveList
    <2>3. Watched(0, t, p, z)'
        <3>1. CASE Overdue(t, p, lastZxid) = {} /\ Unchanged(t, p, z)
            <4>1. PICK x : x = <<t, p>>
                OBVIOUS
            <4>2. x \in WatchedBy(m) /\ x[1] = t /\ x[2] = p
                BY <2>2, <4>1 DEF WatchedBy
            <4>3. \A T : t \in T => p \in Quiet(m, T)
                BY <1>1, <3>1, <4>2 DEF Quiet
            <4>4. p \in armed'[Half(t)]
                <5>1. t \in {"node", "exist"} => p \in Quiet(m, {"node", "exist"})
                    BY <4>3
                <5>2. t = "child" => p \in Quiet(m, {"child"})
                    BY <4>3
                <5> QED
                    BY <1>2, <5>1, <5>2 DEF Half, Tables
            <4>5. Unchanged(t, p, z)'
                BY <1>2, <3>1 DEF Unchanged
            <4> QED
                BY <4>4, <4>5 DEF Watched
        <3>2. CASE \E e \in Overdue(t, p, lastZxid) : e \in Changes /\ t \in ToSet(TablesOf(e))
            <4>1. PICK e \in Overdue(t, p, lastZxid) : e \in Changes /\ t \in ToSet(TablesOf(e))
                BY <3>2
            <4>2. PICK x : x = <<t, p>>
                OBVIOUS
            <4>3. x \in WatchedBy(m) /\ x[1] = t /\ x[2] = p
                BY <2>2, <4>2 DEF WatchedBy
            <4>4. PICK v : v = EventOf(e, x)
                OBVIOUS
            <4>5. v \in DueEvents(m)
                BY <1>1, <4>1, <4>3, <4>4 DEF DueEvents
            <4>6. v.msg = "event" /\ v.path = p /\ v.type = e
                BY <4>3, <4>4 DEF EventOf, Event
            <4>7. PICK i \in DOMAIN u : u[i] = v
                BY <1>5, <4>5
            <4>8. EventFor(u[i], t, p) /\ 0 < i /\ i < Len(u) + 1
                BY <1>4, <4>1, <4>6, <4>7 DEF EventFor
            <4> QED
                BY <1>3, <4>8 DEF Watched, Between
        <3> QED
            BY <1>6, <2>1, <3>1, <3>2, DueOrQuiet DEF Sound
    <2>4. News(0, t, p, z)'
        <3>1. ASSUME NEW j \in DOMAIN u, EventFor(u[j], t, p) PROVE z < u[j].news
            <4>1. PICK v : v = u[j]
                OBVIOUS
            <4>2. v \in DueEvents(m) /\ v.path = p /\ t \in ToSet(TablesOf(v.type))
                BY <1>5, <3>1, <4>1 DEF EventFor
            <4>3. PICK s \in Tables, q \in Paths : \E e \in Overdue(s, q, lastZxid) :
                      /\ q \in m.keys[s] /\ v.type = e /\ v.path = q
                      /\ v.news = IF e = "CHILD" THEN pzxid[q] ELSE mzxid[q]
                BY <1>8, <4>2
            <4>4. PICK e \in Overdue(s, q, lastZxid) :
                      /\ q \in m.keys[s] /\ v.type = e /\ v.path = q
                      /\ v.news = IF e = "CHILD" THEN pzxid[q] ELSE mzxid[q]
                BY <4>3
            <4>5. q = p /\ ActiveOn(s, p) # {}
                BY <1>1, <1>6, <4>2, <4>4, ActiveList
            <4>6. z <= lastZxid /\ Aware(t, p, z) /\ t \in ToSet(TablesOf(e)) /\ e \in Overdue(s, p, lastZxid)
                BY <2>1, <4>2, <4>4, <4>5 DEF Sound
            <4>7. z < IF e = "CHILD" THEN pzxid[p] ELSE mzxid[p]
                BY <1>6, <1>10, <4>5, <4>6, DueIsNews
            <4> QED
                BY <4>1, <4>4, <4>5, <4>7
        <3> QED
            BY <1>3, <3>1 DEF News
    <2>5. Agree(0, t, p)'
        <3>1. \A j \in DOMAIN u : \A k \in DOMAIN sent : u[j].msg = "reply" => sent[k].xid # u[j].xid
            BY <1>5, <1>7, <1>8
        <3> QED
            BY <1>2, <1>3, <3>1 DEF Agree
    <2>6. z <= zxid' /\ Aware(t, p, z)' /\ z <= lastZxid' /\ UpToDate(t, p, z)'
        BY <1>2, <2>1 DEF Sound, Aware, UpToDate
    <2> QED
        BY <2>3, <2>4, <2>5, <2>6 DEF Sound
<1> QED
    BY <1>9, <1>10 DEF RegistrationInv, Sound

(* The halves a change disarms are those of the tables its event looks in. *)
LEMMA ChangeSeen ==
    ASSUME NEW type \in Changes, NEW t \in Tables, Half(t) \in HalvesOf(type)
    PROVE  t \in ToSet(TablesOf(type))
<1>1. /\ "node" \in ToSet(TablesOf(type)) <=> type # "CHILD"
      /\ "exist" \in ToSet(TablesOf(type)) <=> type # "CHILD"
      /\ "child" \in ToSet(TablesOf(type)) <=> type \in {"CHILD", "DELETED"}
    BY TablesOfOk
<1> QED
    BY <1>1 DEF Half, HalvesOf, Tables, Changes

(* Who watched the path has an event coming; who did not is not concerned. *)
LEMMA RegistrationServerChange ==
    ASSUME ShapeInv, RegistrationInv, NEW type \in Changes, NEW q \in Paths, ServerChange(type, q)
    PROVE  RegistrationInv'
<1>1. PICK Z \in Nat : Z = zxid /\ lastZxid \in Nat /\ lastZxid <= Z
    BY DEF ShapeInv, ServerShape, ClientShape
<1>2. /\ type = "CREATED" <=> ~exists[q]
      /\ zxid' = Z + 1
      /\ exists' = [exists EXCEPT ![q] = type # "DELETED"]
      /\ mzxid' = IF type = "CHILD" THEN mzxid ELSE [mzxid EXCEPT ![q] = Z + 1]
      /\ pzxid' = IF type \in {"CHILD", "CREATED"} THEN [pzxid EXCEPT ![q] = Z + 1] ELSE pzxid
      /\ armed' = [h \in Halves |-> IF h \in HalvesOf(type) THEN armed[h] \ {q} ELSE armed[h]]
      /\ UNCHANGED <<sent, toSend, c2s, active, connected, lastZxid, since>>
    BY <1>1, ServerChangeIs DEF clientVars, history
<1>3. /\ exists \in [Paths -> BOOLEAN] /\ mzxid \in [Paths -> Nat] /\ pzxid \in [Paths -> Nat]
      /\ s2c \in Seq(Answers) /\ \A t : Half(t) \in Halves
    BY DEF ShapeInv, ServerShape, Half, Halves
<1>4. /\ \A p \in Paths \ {q} : exists'[p] = exists[p] /\ mzxid'[p] = mzxid[p] /\ pzxid'[p] = pzxid[p]
      /\ exists'[q] <=> type # "DELETED"
      /\ type # "CHILD" => mzxid'[q] = Z + 1
      /\ type = "CHILD" => mzxid'[q] = mzxid[q]
      /\ type \in {"CHILD", "CREATED"} => pzxid'[q] = Z + 1
      /\ type \notin {"CHILD", "CREATED"} => pzxid'[q] = pzxid[q]
    BY <1>2, <1>3
<1>5. PICK u : u = s2c'
    OBVIOUS
<1>6. PICK N \in Nat : N = Len(s2c) /\ DOMAIN s2c = 1..N
    BY <1>3
<1>7. PICK e : e = Event(type, q, Z + 1)
    OBVIOUS
<1>8. e.msg = "event" /\ e.news = Z + 1 /\ e.path = q /\ e.type = type
    BY <1>7 DEF Event
<1>9. \/ /\ DOMAIN u = 1..(N + 1) /\ Len(u) = N + 1 /\ u[N + 1] = e
         /\ \A i \in 1..N : u[i] = s2c[i]
      \/ u = s2c /\ \A h \in HalvesOf(type) : q \notin armed[h]
    <2>1. CASE u = Append(s2c, e)
        <3>1. e \in Answers
            BY <1>1, <1>7, ServerChangeIs, <2>1, AppendProperties DEF Answers, Events, Event, WATCHER_EVENT_XID
        <3> QED
            BY <1>3, <1>6, <2>1, <3>1, AppendAt
    <2>2. CASE u = s2c /\ \A h \in HalvesOf(type) : q \notin armed[h]
        BY <2>2
    <2> QED
        BY <1>1, <1>5, <1>7, <2>1, <2>2, ServerChangeIs
<1>10. \A i \in 1..N : i \in DOMAIN u /\ u[i] = s2c[i]
    BY <1>6, <1>9
<1>11. \A i \in DOMAIN u : i \in 1..N \/ (i = N + 1 /\ u[i] = e)
    BY <1>6, <1>9
<1>12. Len(u) \in {N, N + 1}
    BY <1>6, <1>9
<1>13. ASSUME NEW n \in Nat, NEW t \in Tables, NEW p \in Paths, NEW z \in Nat,
              Registered(n, t, p, z)'
       PROVE  Registered(n, t, p, z) /\ (n = 0 \/ n \in 1..N)
    <2>1. ActiveOn(t, p)' = ActiveOn(t, p)
        BY <1>2 DEF ActiveOn
    <2>2. CASE n = 0 /\ \E w \in ActiveOn(t, p) : since[t][p][w] = z
        BY <2>2 DEF Registered
    <2>3. CASE /\ n \in DOMAIN u /\ u[n].msg = "reply" /\ z = u[n].zxid
               /\ \E k \in DOMAIN sent : /\ sent[k].xid = u[n].xid /\ sent[k].path = p
                                         /\ t \in checker(sent[k].op, u[n].rc)
        <3>1. n \in 1..N
            BY <1>8, <1>11, <2>3
        <3> QED
            BY <1>6, <1>10, <2>3, <3>1 DEF Registered
    <2> QED
        BY <1>2, <1>5, <1>13, <2>1, <2>2, <2>3 DEF Registered
<1>14. ASSUME NEW n \in Nat, NEW t \in Tables, NEW p \in Paths, NEW z \in Nat,
              Registered(n, t, p, z), n = 0 \/ n \in 1..N
       PROVE  Sound(n, t, p, z)'
    <2>1. Sound(n, t, p, z)
        BY <1>14, RegistrationIs
    <2>2. z <= Z /\ Aware(t, p, z)
        BY <1>1, <2>1 DEF Sound
    <2>3. (exists'[p] <=> t = "exist") => z < mzxid'[p]
        <3>1. CASE p # q
            BY <1>4, <2>2, <3>1 DEF Aware
        <3>2. CASE p = q /\ type = "CHILD"
            BY <1>2, <1>4, <2>2, <3>2 DEF Aware
        <3>3. CASE p = q /\ type # "CHILD"
            BY <1>4, <2>2, <3>3
        <3> QED
            BY <3>1, <3>2, <3>3
    <2>4. Watched(n, t, p, z)'
        <3>1. CASE ~connected
            BY <1>2, <3>1 DEF Watched
        <3>2. CASE Between(n, N + 1, t, p)
            <4>1. PICK i \in 1..N : n < i /\ EventFor(s2c[i], t, p)
                BY <1>6, <3>2 DEF Between
            <4>2. i \in DOMAIN u /\ u[i] = s2c[i] /\ i < Len(u) + 1
                BY <1>10, <1>12, <4>1
            <4> QED
                BY <1>5, <4>1, <4>2 DEF Watched, Between
        <3>3. CASE n = 0 /\ Announced(t, p)
            BY <1>2, <3>3 DEF Watched, Announced
        <3>4. CASE p \in armed[Half(t)] /\ Unchanged(t, p, z)
            <4>1. CASE p # q
                <5>1. p \in armed'[Half(t)]
                    BY <1>2, <1>3, <3>4, <4>1
                <5>2. Unchanged(t, p, z)'
                    BY <1>4, <3>4, <4>1 DEF Unchanged
                <5> QED
                    BY <5>1, <5>2 DEF Watched
            <4>2. CASE p = q /\ Half(t) \in HalvesOf(type)
                <5>1. N + 1 \in DOMAIN u /\ u[N + 1] = e /\ n < N + 1 /\ Len(u) = N + 1
                    <6>1. DOMAIN u = 1..(N + 1) /\ u[N + 1] = e /\ Len(u) = N + 1
                        BY <1>9, <3>4, <4>2
                    <6> QED
                        BY <1>14, <6>1
                <5>2. EventFor(u[N + 1], t, p)
                    BY <1>8, <4>2, <5>1, ChangeSeen DEF EventFor
                <5>3. N + 1 < Len(u) + 1
                    BY <5>1
                <5> QED
                    BY <1>5, <5>1, <5>2, <5>3 DEF Watched, Between
            <4>3. CASE p = q /\ Half(t) \notin HalvesOf(type)
                <5>1. p \in armed'[Half(t)]
                    BY <1>2, <1>3, <3>4, <4>3
                <5>2. Unchanged(t, p, z)'
                    <6>1. CASE t = "node"
                        BY <1>2, <1>4, <3>4, <4>3, <6>1 DEF Unchanged, Half, HalvesOf, Changes
                    <6>2. CASE t = "exist"
                        BY <1>2, <1>4, <3>4, <4>3, <6>2 DEF Unchanged, Half, HalvesOf, Changes
                    <6>3. CASE t = "child"
                        BY <1>2, <1>4, <3>4, <4>3, <6>3 DEF Unchanged, Half, HalvesOf, Changes
                    <6> QED
                        BY <6>1, <6>2, <6>3 DEF Tables
                <5> QED
                    BY <5>1, <5>2 DEF Watched
            <4> QED
                BY <4>1, <4>2, <4>3
        <3> QED
            BY <1>6, <2>1, <3>1, <3>2, <3>3, <3>4 DEF Sound, Watched
    <2>5. News(n, t, p, z)'
        <3>1. ASSUME NEW j \in DOMAIN u, n < j, EventFor(u[j], t, p) PROVE z < u[j].news
            <4>1. CASE j \in 1..N
                BY <1>6, <1>10, <2>1, <3>1, <4>1 DEF Sound, News
            <4>2. CASE u[j] = e
                BY <1>8, <2>2, <4>2
            <4> QED
                BY <1>11, <4>1, <4>2
        <3> QED
            BY <1>5, <3>1 DEF News
    <2>6. Agree(n, t, p)'
        <3>1. ASSUME NEW j \in DOMAIN u, NEW k \in DOMAIN sent, n < j, u[j].msg = "reply",
                     sent[k].xid = u[j].xid, sent[k].path = p,
                     ~\E i \in DOMAIN u : n < i /\ i < j /\ EventFor(u[i], t, p)
              PROVE  u[j].rc = "ZNONODE" <=> t = "exist"
            <4>1. j \in 1..N
                BY <1>8, <1>11, <3>1
            <4>2. ~Between(n, j, t, p)
                BY <1>6, <1>10, <3>1 DEF Between
            <4> QED
                BY <1>6, <1>10, <2>1, <3>1, <4>1, <4>2 DEF Sound, Agree
        <3> QED
            BY <1>2, <1>5, <3>1 DEF Agree, Between
    <2>7. n = 0 => UpToDate(t, p, z)'
        <3>1. SUFFICES ASSUME n = 0, UpToDate(t, p, z)
                       PROVE  exists'[p] => /\ t = "node" /\ mzxid'[p] <= lastZxid => mzxid'[p] <= z
                                            /\ t = "child" /\ pzxid'[p] <= lastZxid => pzxid'[p] <= z
            BY <1>2, <2>1 DEF Sound, UpToDate
        <3>2. CASE p # q
            BY <1>4, <3>1, <3>2 DEF UpToDate
        <3>3. CASE p = q
            <4>1. ~(Z + 1 <= lastZxid)
                BY <1>1
            <4>2. exists'[q] /\ mzxid'[q] <= lastZxid => exists[q] /\ mzxid'[q] = mzxid[q]
                BY <1>2, <1>4, <4>1
            <4>3. exists'[q] /\ pzxid'[q] <= lastZxid => exists[q] /\ pzxid'[q] = pzxid[q]
                BY <1>2, <1>4, <4>1
            <4> QED
                BY <3>1, <3>3, <4>2, <4>3 DEF UpToDate
        <3> QED
            BY <3>2, <3>3
    <2>8. z <= zxid' /\ Aware(t, p, z)' /\ (n = 0 => z <= lastZxid')
        <3>1. z <= Z + 1
            BY <2>2
        <3>2. n = 0 => z <= lastZxid
            BY <2>1 DEF Sound
        <3> QED
            BY <1>2, <2>3, <3>1, <3>2 DEF Aware
    <2> QED
        BY <2>4, <2>5, <2>6, <2>7, <2>8 DEF Sound
<1> QED
    BY <1>13, <1>14 DEF RegistrationInv, Sound

-----------------------------------------------------------------------------
(* The theorems about registrations                                        *)

LEMMA RegistrationStep ==
    ASSUME ShapeInv, AnnounceInv, OrderInv, ZxidInv, EventInv, CompatInv, RegistrationInv, [Next]_vars
    PROVE  RegistrationInv'
BY NextCases, RegistrationRead, RegistrationConnect, RegistrationEnds, RegistrationFlush,
   RegistrationIoReply, RegistrationIoEvent, RegistrationIdle, RegistrationServerRead,
   RegistrationServerSetWatches, RegistrationServerChange

(* Every step keeps the watches for a node to appear apart from the        *)
(* others.                                                                 *)
LEMMA CompatStep ==
    ASSUME ShapeInv, OrderInv, CompatInv, RegistrationInv, [Next]_vars
    PROVE  CompatInv'
<1>1. CASE UNCHANGED active
    BY <1>1, CompatLess DEF ActiveOn
<1>2. CASE IoEvent
    BY <1>2, ActiveAfterEvent, CompatLess
<1>3. CASE CleanOne
    BY <1>3, ActiveAfterCleanOne, CompatLess
<1>4. \A kind, p, w : Read(kind, p, w) => UNCHANGED active
    BY DEF Read
<1>5. Connect \/ Disconnect \/ Flush \/ Deliver \/ Close => UNCHANGED active
    BY DEF Connect, Disconnect, Flush, Deliver, Close
<1>6. ServerRead \/ ServerSetWatches \/ UNCHANGED vars => UNCHANGED active
    BY DEF ServerRead, ServerSetWatches, vars, clientVars
<1>7. \A type, p : ServerChange(type, p) => UNCHANGED active
    BY DEF ServerChange, clientVars
<1> QED
    BY <1>1, <1>2, <1>3, <1>4, <1>5, <1>6, <1>7, NextCases, CompatIoReply

LEMMA RegistrationInit == Init => EventInv /\ CompatInv /\ RegistrationInv
<1> SUFFICES ASSUME Init PROVE EventInv /\ CompatInv /\ RegistrationInv
    OBVIOUS
<1>1. DOMAIN s2c = {}
    BY DEF Init
<1>2. ASSUME NEW t \in Tables, NEW p \in Paths PROVE ActiveOn(t, p) = {}
    <2>1. active[t] = create_hashtable
        BY DEF Init
    <2>2. hashtable_search(active[t], p) = Null
        BY <2>1, NoNull, CreateOk
    <2> QED
        BY <2>2, NumbersNone DEF ActiveOn, Null
<1>3. CompatInv
    BY <1>2 DEF CompatInv, Tables
<1>4. \A n \in Nat, t \in Tables, p \in Paths, z \in Nat : ~Registered(n, t, p, z)
    BY <1>1, <1>2 DEF Registered
<1> QED
    BY <1>1, <1>3, <1>4 DEF EventInv, RegistrationInv

(* Every watcher that is active, or about to be by a reply on its way, is  *)
(* armed at the server with its path unchanged, or announced, or has its   *)
(* event coming, and only watchers set before a change get its event       *)
(* (activateWatcher, collectWatchers, send_set_watches together).          *)
THEOREM RegistrationsSound == Spec => [](ShapeInv /\ CompatInv /\ RegistrationInv)
<1>1. Init => EventInv /\ CompatInv /\ RegistrationInv
    BY RegistrationInit
<1>2. /\ ShapeInv /\ AnnounceInv /\ OrderInv /\ ZxidInv
      /\ EventInv /\ CompatInv /\ RegistrationInv /\ [Next]_vars
      => EventInv' /\ CompatInv' /\ RegistrationInv'
    BY EventStep, CompatStep, RegistrationStep
<1> QED
    BY <1>1, <1>2, WatchesShape, PTL DEF Spec

(* What RegistrationInv says of an active watcher.                         *)
LEMMA ActiveSound ==
    ASSUME ShapeInv, RegistrationInv, NEW t \in Tables, NEW p \in Paths, NEW w \in ActiveOn(t, p)
    PROVE  /\ connected => \/ OnTheWay(t, p)
                           \/ Announced(t, p)
                           \/ p \in armed[Half(t)] /\ Unchanged(t, p, since[t][p][w])
           /\ \A j \in DOMAIN s2c : EventFor(s2c[j], t, p) => since[t][p][w] < s2c[j].news
<1>1. PICK z : z = since[t][p][w]
    OBVIOUS
<1>2. z \in Nat
    <2>1. w \in Watchers
        BY ActiveList DEF ShapeInv
    <2> QED
        BY <1>1, <2>1 DEF ShapeInv, CountShape
<1>3. Registered(0, t, p, z)
    BY <1>1 DEF Registered
<1>4. Watched(0, t, p, z) /\ News(0, t, p, z)
    BY <1>2, <1>3 DEF RegistrationInv
<1>5. \A j \in DOMAIN s2c : 0 < j
    <2>1. s2c \in Seq(Answers)
        BY DEF ShapeInv, ServerShape
    <2> QED
        BY <2>1
<1>6. Between(0, Len(s2c) + 1, t, p) => OnTheWay(t, p)
    BY DEF Between, OnTheWay, EventFor, ToSet
<1> QED
    BY <1>1, <1>4, <1>5, <1>6 DEF Watched, News

(* While the client is connected, the server knows of every watcher in the *)
(* tables, or is about to be told, or has already sent the event that      *)
(* takes it out (activateWatcher against collectWatchers and               *)
(* send_set_watches).                                                      *)
THEOREM NoWatchIsEverLost == Spec => []NoWatchIsLost
<1>1. ShapeInv /\ RegistrationInv => NoWatchIsLost
    BY ActiveSound DEF NoWatchIsLost
<1> QED
    BY <1>1, RegistrationsSound, PTL

(* A watch that is armed, with nothing announced and no event coming,      *)
(* watches a path that has not changed since the read that set it, over    *)
(* any number of reconnects (relativeZxid of send_set_watches, last_zxid   *)
(* of zookeeper_process).                                                  *)
THEOREM NoChangeIsEverMissed == Spec => []NoChangeIsMissed
<1>1. ShapeInv /\ RegistrationInv => NoChangeIsMissed
    BY ActiveSound DEF NoChangeIsMissed
<1> QED
    BY <1>1, RegistrationsSound, PTL

(* An event on its way finds in the tables only watchers set by a reply    *)
(* older than the change it reports (collectWatchers takes out all it      *)
(* calls).                                                                 *)
THEOREM EventsAreAlwaysNews == Spec => []EventsAreNews
<1>1. ASSUME ShapeInv, RegistrationInv, NEW m \in ToSet(s2c), m.msg = "event",
             NEW t \in ToSet(TablesOf(m.type)), NEW w \in ActiveOn(t, m.path)
      PROVE  since[t][m.path][w] < m.news
    <2>1. PICK j \in DOMAIN s2c : s2c[j] = m
        BY DEF ToSet
    <2>2. m \in Answers
        <3>1. s2c \in Seq(Answers)
            BY <1>1 DEF ShapeInv, ServerShape
        <3> QED
            BY <2>1, <3>1
    <2>3. m.type \in Changes /\ m.path \in Paths
        BY <1>1, <2>2, Kind DEF Events
    <2>4. t \in Tables
        BY <2>3, TablesOfOk
    <2>5. EventFor(s2c[j], t, m.path)
        BY <1>1, <2>1 DEF EventFor
    <2> QED
        BY <1>1, <2>1, <2>3, <2>4, <2>5, ActiveSound
<1>2. ShapeInv /\ RegistrationInv => EventsAreNews
    BY <1>1 DEF EventsAreNews
<1> QED
    BY <1>2, RegistrationsSound, PTL

-----------------------------------------------------------------------------
(* Who waits has been counted in                                           *)

(* Watchers that wait: in tables, and in places on the delivery lists.     *)
Tabled(p, w)     == {t \in Tables : w \in ActiveOn(t, p)}
Waits(c, p, w)   == c.type # "SESSION" /\ c.path = p /\ w \in ToSet(c.list)
Waiting(q, p, w) == {i \in DOMAIN q : Waits(q[i], p, w)}

LEMMA PendingIs ==
    \A p, w : Pending(p, w) = Cardinality(Tabled(p, w)) + Cardinality(Waiting(completions, p, w))
BY DEF Pending, Tabled, Waiting, Waits

LEMMA PendingNext ==
    \A p, w : Pending(p, w)' = Cardinality(Tabled(p, w))' + Cardinality(Waiting(completions', p, w))
BY DEF Pending, Tabled, Waiting, Waits

LEMMA WaitingFinite ==
    ASSUME NEW S, NEW q \in Seq(S), NEW p, NEW w
    PROVE  IsFiniteSet(Waiting(q, p, w)) /\ Cardinality(Waiting(q, p, w)) \in Nat
<1>1. PICK n \in Nat : DOMAIN q = 1..n
    OBVIOUS
<1>2. Waiting(q, p, w) \in SUBSET (1..n)
    BY <1>1 DEF Waiting
<1>3. IsFiniteSet(Waiting(q, p, w))
    <2>1. IsFiniteSet(1..n)
        BY FS_Interval
    <2> QED
        BY <1>2, <2>1, FS_Subset
<1> QED
    BY <1>3, FS_CardinalityType

(* One more delivery,                                                      *)
LEMMA WaitingAppend ==
    ASSUME NEW S, NEW q \in Seq(S), NEW c \in S, NEW p, NEW w
    PROVE  Cardinality(Waiting(Append(q, c), p, w))
              = Cardinality(Waiting(q, p, w)) + (IF Waits(c, p, w) THEN 1 ELSE 0)
<1>1. PICK u : u = Append(q, c)
    OBVIOUS
<1>2. PICK n \in Nat : n = Len(q) /\ DOMAIN q = 1..n
    OBVIOUS
<1>3. DOMAIN u = 1..(n + 1) /\ u[n + 1] = c /\ \A i \in 1..n : u[i] = q[i]
    BY <1>1, <1>2, AppendAt
<1>4. PICK W : W = Waiting(q, p, w)
    OBVIOUS
<1>5. IsFiniteSet(W) /\ Cardinality(W) \in Nat
    BY <1>4, WaitingFinite
<1>6. \A i \in 1..(n + 1) : i = n + 1 \/ i \in 1..n
    BY <1>2
<1>7. n + 1 \notin W /\ n + 1 \in 1..(n + 1) /\ \A i \in 1..n : i \in 1..(n + 1)
    BY <1>2, <1>4 DEF Waiting
<1>8. CASE Waits(c, p, w)
    <2>1. Waiting(u, p, w) = W \cup {n + 1}
        BY <1>2, <1>3, <1>4, <1>6, <1>7, <1>8 DEF Waiting
    <2>2. Cardinality(W \cup {n + 1}) = Cardinality(W) + 1
        BY <1>5, <1>7, FS_AddElement
    <2> QED
        BY <1>1, <1>4, <1>8, <2>1, <2>2
<1>9. CASE ~Waits(c, p, w)
    <2>1. Waiting(u, p, w) = W
        BY <1>2, <1>3, <1>4, <1>6, <1>7, <1>9 DEF Waiting
    <2> QED
        BY <1>1, <1>4, <1>5, <1>9, <2>1
<1> QED
    BY <1>8, <1>9

(* and one less.                                                           *)
LEMMA WaitingTail ==
    ASSUME NEW S, NEW q \in Seq(S), q # <<>>, NEW p, NEW w
    PROVE  Cardinality(Waiting(q, p, w))
              = Cardinality(Waiting(Tail(q), p, w)) + (IF Waits(Head(q), p, w) THEN 1 ELSE 0)
<1>1. PICK u : u = Tail(q)
    OBVIOUS
<1>2. PICK n \in Nat : n = Len(q) /\ n > 0 /\ DOMAIN q = 1..n
    OBVIOUS
<1>3. /\ DOMAIN u = 1..(n - 1) /\ Head(q) = q[1] /\ u \in Seq(S)
      /\ \A i \in 1..(n - 1) : i + 1 \in 1..n /\ u[i] = q[i + 1]
    BY <1>1, <1>2, TailAt
<1>4. PICK W : W = Waiting(q, p, w)
    OBVIOUS
<1>5. PICK V : V = Waiting(u, p, w)
    OBVIOUS
<1>6. IsFiniteSet(W) /\ IsFiniteSet(V) /\ Cardinality(V) \in Nat /\ Cardinality(W) \in Nat
    BY <1>3, <1>4, <1>5, WaitingFinite
<1>7. PICK f : f = [i \in V |-> i + 1]
    OBVIOUS
<1>8. V \subseteq 1..(n - 1) /\ W \subseteq 1..n
    BY <1>2, <1>3, <1>4, <1>5 DEF Waiting
<1>9. \A i \in V : i + 1 \in W \ {1}
    <2> SUFFICES ASSUME NEW i \in V PROVE i + 1 \in W \ {1}
        OBVIOUS
    <2>1. i \in 1..(n - 1) /\ Waits(u[i], p, w)
        BY <1>3, <1>5 DEF Waiting
    <2>2. i + 1 \in 1..n /\ Waits(q[i + 1], p, w) /\ i + 1 # 1
        BY <1>3, <2>1
    <2> QED
        BY <1>2, <1>4, <2>2 DEF Waiting
<1>10. \A j \in W \ {1} : j - 1 \in V /\ (j - 1) + 1 = j
    <2> SUFFICES ASSUME NEW j \in W \ {1} PROVE j - 1 \in V /\ (j - 1) + 1 = j
        OBVIOUS
    <2>1. j \in 1..n /\ Waits(q[j], p, w)
        BY <1>2, <1>4 DEF Waiting
    <2>2. PICK i : i = j - 1
        OBVIOUS
    <2>3. i \in 1..(n - 1) /\ i + 1 = j
        BY <1>2, <2>1, <2>2
    <2>4. u[i] = q[j]
        BY <1>3, <2>3
    <2> QED
        BY <1>3, <1>5, <2>1, <2>2, <2>3, <2>4 DEF Waiting
<1>11. f \in Bijection(V, W \ {1})
    <2>1. f \in [V -> W \ {1}]
        BY <1>7, <1>9
    <2>2. \A i, j \in V : f[i] = f[j] => i = j
        BY <1>7, <1>8
    <2>3. \A j \in W \ {1} : \E i \in V : f[i] = j
        BY <1>7, <1>10
    <2> QED
        BY <2>1, <2>2, <2>3 DEF Bijection, Injection, Surjection, IsInjective
<1>12. Cardinality(W \ {1}) = Cardinality(V)
    BY <1>6, <1>11, FS_Bijection DEF ExistsBijection
<1>13. Cardinality(W \ {1}) = IF 1 \in W THEN Cardinality(W) - 1 ELSE Cardinality(W)
    BY <1>6, FS_RemoveElement
<1>14. 1 \in W <=> Waits(Head(q), p, w)
    BY <1>2, <1>3, <1>4 DEF Waiting
<1> QED
    BY <1>1, <1>4, <1>5, <1>6, <1>12, <1>13, <1>14

(* At most three tables.                                                   *)
LEMMA TabledFinite ==
    \A p, w : IsFiniteSet(Tabled(p, w)) /\ Cardinality(Tabled(p, w)) \in Nat
<1>1. IsFiniteSet(Tables)
    <2>1. IsFiniteSet({"node"})
        BY FS_Singleton
    <2>2. IsFiniteSet({"node"} \cup {"exist"})
        BY <2>1, FS_AddElement
    <2>3. IsFiniteSet(({"node"} \cup {"exist"}) \cup {"child"})
        BY <2>2, FS_AddElement
    <2>4. Tables = ({"node"} \cup {"exist"}) \cup {"child"}
        BY DEF Tables
    <2> QED
        BY <2>3, <2>4
<1>2. \A p, w : IsFiniteSet(Tabled(p, w))
    BY <1>1, FS_Subset DEF Tabled
<1> QED
    BY <1>2, FS_CardinalityType

(* Fewer active watchers, fewer tables.                                    *)
LEMMA TabledLess ==
    ASSUME NEW p \in Paths, NEW w, \A t \in Tables : ActiveOn(t, p)' \subseteq ActiveOn(t, p)
    PROVE  /\ Cardinality(Tabled(p, w))' \in Nat
           /\ Cardinality(Tabled(p, w))' <= Cardinality(Tabled(p, w))
           /\ \A t \in Tables : w \in ActiveOn(t, p) /\ w \notin ActiveOn(t, p)'
                  => Cardinality(Tabled(p, w))' < Cardinality(Tabled(p, w))
<1>1. PICK A : A = Tabled(p, w)
    OBVIOUS
<1>2. PICK B : B = Tabled(p, w)'
    OBVIOUS
<1>3. B \in SUBSET A
    BY <1>1, <1>2 DEF Tabled
<1>4. IsFiniteSet(A) /\ Cardinality(A) \in Nat
    BY <1>1, TabledFinite
<1>5. IsFiniteSet(B) /\ Cardinality(B) <= Cardinality(A) /\ (Cardinality(A) = Cardinality(B) => A = B)
    BY <1>3, <1>4, FS_Subset
<1>6. Cardinality(B) \in Nat
    BY <1>5, FS_CardinalityType
<1>7. ASSUME NEW t \in Tables, w \in ActiveOn(t, p), w \notin ActiveOn(t, p)'
      PROVE  Cardinality(B) < Cardinality(A)
    <2>1. t \in A /\ t \notin B
        BY <1>1, <1>2, <1>7 DEF Tabled
    <2>2. Cardinality(A) # Cardinality(B)
        BY <1>5, <2>1
    <2> QED
        BY <1>4, <1>5, <1>6, <2>2
<1> QED
    BY <1>1, <1>2, <1>5, <1>6, <1>7

(* Everyone who waits has been counted in.                                 *)
FiresInv == \A p \in Paths, w \in Watchers : Pending(p, w) <= owed[p][w]

LEMMA FiresCompletions ==
    ASSUME ShapeInv, FiresInv, UNCHANGED owed,
           \A t \in Tables, p \in Paths : ActiveOn(t, p)' \subseteq ActiveOn(t, p),
           \/ UNCHANGED completions
           \/ completions' = <<>>
           \/ \E c \in Deliveries : c.type = "SESSION" /\ completions' = Append(completions, c)
    PROVE  FiresInv'
<1> SUFFICES ASSUME NEW p \in Paths, NEW w \in Watchers
             PROVE  Pending(p, w)' <= owed'[p][w]
    BY DEF FiresInv
<1>1. PICK a : a = Cardinality(Tabled(p, w))
    OBVIOUS
<1>2. PICK b : b = Cardinality(Waiting(completions, p, w))
    OBVIOUS
<1>3. completions \in Seq(Deliveries)
    BY DEF ShapeInv, ClientShape
<1>4. a \in Nat /\ b \in Nat
    BY <1>1, <1>2, <1>3, TabledFinite, WaitingFinite
<1>5. a + b <= owed[p][w] /\ owed[p][w] \in Int
    BY <1>1, <1>2, PendingIs DEF FiresInv, ShapeInv, CountShape
<1>6. PICK x : x = Cardinality(Tabled(p, w))'
    OBVIOUS
<1>7. x \in Nat /\ x <= a
    BY <1>1, <1>6, TabledLess
<1>8. PICK v : v = completions'
    OBVIOUS
<1>9. PICK y : y = Cardinality(Waiting(v, p, w))
    OBVIOUS
<1>10. y \in Nat /\ y <= b
    <2>1. CASE v = completions
        BY <1>2, <1>4, <1>9, <2>1
    <2>2. CASE DOMAIN v = {}
        <3>1. Waiting(v, p, w) = {}
            BY <2>2 DEF Waiting
        <3> QED
            BY <1>4, <1>9, <3>1, FS_EmptySet
    <2>3. ASSUME NEW c \in Deliveries, c.type = "SESSION", v = Append(completions, c)
          PROVE  y = b
        <3>1. ~Waits(c, p, w)
            BY <2>3 DEF Waits
        <3> QED
            BY <1>2, <1>3, <1>4, <1>9, <2>3, <3>1, WaitingAppend
    <2> QED
        BY <1>4, <1>8, <2>1, <2>2, <2>3
<1>11. Pending(p, w)' = x + y
    BY <1>6, <1>8, <1>9, PendingNext
<1> QED
    BY <1>4, <1>5, <1>7, <1>10, <1>11

(* From the tables to one list: whoever it names has left at least one     *)
(* table.                                                                  *)
LEMMA FiresIoEvent ==
    ASSUME ShapeInv, FiresInv, IoEvent
    PROVE  FiresInv'
<1> SUFFICES ASSUME NEW p \in Paths, NEW w \in Watchers
             PROVE  Pending(p, w)' <= owed'[p][w]
    BY DEF FiresInv
<1>1. PICK m \in Events : m = Head(s2c)
    BY ShapeIoEvent
<1>2. m.type \in Changes /\ m.path \in Paths /\ m.msg = "event" /\ UNCHANGED owed
    BY DEF Events, IoEvent, history
<1>3. PICK l : l = Collected(m.type, m.path)
    OBVIOUS
<1>4. l \in Seq(Watchers) /\ ToSet(l) = UNION {ActiveOn(t, m.path) : t \in ToSet(TablesOf(m.type))}
    BY <1>2, <1>3, CollectedOk DEF ShapeInv
<1>5. PICK c : c = [type |-> m.type, path |-> m.path, list |-> l]
    OBVIOUS
<1>6. c \in Deliveries /\ c.type = m.type /\ c.path = m.path /\ c.list = l /\ c.type # "SESSION"
    BY <1>2, <1>4, <1>5 DEF Deliveries, Changes
<1>7. completions' = Append(completions, c) /\ completions \in Seq(Deliveries)
    BY <1>1, <1>3, <1>5 DEF IoEvent, ShapeInv, ClientShape
<1>8. PICK a : a = Cardinality(Tabled(p, w))
    OBVIOUS
<1>9. PICK b : b = Cardinality(Waiting(completions, p, w))
    OBVIOUS
<1>10. a \in Nat /\ b \in Nat
    BY <1>7, <1>8, <1>9, TabledFinite, WaitingFinite
<1>11. a + b <= owed[p][w] /\ owed[p][w] \in Int
    BY <1>8, <1>9, PendingIs DEF FiresInv, ShapeInv, CountShape
<1>12. PICK x : x = Cardinality(Tabled(p, w))'
    OBVIOUS
<1>13. \A t \in Tables : ActiveOn(t, p)' = IF EventFor(m, t, p) THEN {} ELSE ActiveOn(t, p)
    BY <1>1, ActiveAfterEvent
<1>14. /\ x \in Nat /\ x <= a
       /\ \A t \in Tables : w \in ActiveOn(t, p) /\ EventFor(m, t, p) => x < a
    <2>1. \A t \in Tables : ActiveOn(t, p)' \subseteq ActiveOn(t, p)
        BY <1>13
    <2> QED
        BY <1>8, <1>12, <1>13, <2>1, TabledLess
<1>15. PICK y : y = Cardinality(Waiting(completions', p, w))
    OBVIOUS
<1>16. y = b + (IF Waits(c, p, w) THEN 1 ELSE 0)
    BY <1>6, <1>7, <1>9, <1>15, WaitingAppend
<1>17. Pending(p, w)' = x + y
    BY <1>12, <1>15, PendingNext
<1>18. Waits(c, p, w) => x < a
    <2> SUFFICES ASSUME Waits(c, p, w) PROVE x < a
        OBVIOUS
    <2>1. m.path = p /\ w \in ToSet(l)
        BY <1>6 DEF Waits
    <2>2. PICK t \in ToSet(TablesOf(m.type)) : w \in ActiveOn(t, p)
        BY <1>4, <2>1
    <2>3. t \in Tables /\ EventFor(m, t, p)
        BY <1>2, <2>1, <2>2, TablesOfOk DEF EventFor
    <2> QED
        BY <1>14, <2>2, <2>3
<1> QED
    BY <1>2, <1>10, <1>11, <1>14, <1>16, <1>17, <1>18

(* Everyone named is called once.                                          *)
LEMMA FiresDeliver ==
    ASSUME ShapeInv, FiresInv, Deliver
    PROVE  FiresInv'
<1> SUFFICES ASSUME NEW p \in Paths, NEW w \in Watchers
             PROVE  Pending(p, w)' <= owed'[p][w]
    BY DEF FiresInv
<1>1. PICK c : c = Head(completions)
    OBVIOUS
<1>2. /\ completions # <<>> /\ completions' = Tail(completions)
      /\ owed' = IF c.type = "SESSION" THEN owed
                 ELSE [owed EXCEPT ![c.path] = [x \in Watchers |->
                          owed[c.path][x] - Cardinality({i \in DOMAIN c.list : c.list[i] = x})]]
      /\ UNCHANGED active
    BY <1>1 DEF Deliver
<1>3. completions \in Seq(Deliveries) /\ owed \in [Paths -> [Watchers -> Int]]
    BY DEF ShapeInv, ClientShape, CountShape
<1>4. c \in Deliveries /\ NoRepeat(c.list)
    <2>1. c = completions[1] /\ c \in Deliveries /\ 1 \in DOMAIN completions
        BY <1>1, <1>2, <1>3, TailAt
    <2> QED
        BY <2>1 DEF ShapeInv, ClientShape
<1>5. PICK a : a = Cardinality(Tabled(p, w))
    OBVIOUS
<1>6. PICK y : y = Cardinality(Waiting(completions', p, w))
    OBVIOUS
<1>7. a \in Nat /\ y \in Nat
    <2>1. completions' \in Seq(Deliveries)
        BY <1>2, <1>3, TailAt
    <2> QED
        BY <1>5, <1>6, <2>1, TabledFinite, WaitingFinite
<1>8. Cardinality(Waiting(completions, p, w)) = y + (IF Waits(c, p, w) THEN 1 ELSE 0)
    BY <1>1, <1>2, <1>3, <1>6, WaitingTail
<1>9. a + (y + (IF Waits(c, p, w) THEN 1 ELSE 0)) <= owed[p][w]
    BY <1>5, <1>8, PendingIs DEF FiresInv
<1>10. owed'[p][w] = owed[p][w] - (IF Waits(c, p, w) THEN 1 ELSE 0)
    <2>1. owed[p][w] \in Int
        BY <1>3
    <2>2. CASE c.type = "SESSION"
        <3>1. ~Waits(c, p, w)
            BY <2>2 DEF Waits
        <3> QED
            BY <1>2, <2>1, <2>2, <3>1
    <2>3. CASE c.type # "SESSION"
        <3>1. c.path \in Paths /\ c.list \in Seq(Watchers)
            BY <1>4, <2>3, DeliveryKinds
        <3>2. PICK g : g = [x \in Watchers |-> owed[c.path][x]
                                - Cardinality({i \in DOMAIN c.list : c.list[i] = x})]
            OBVIOUS
        <3>3. owed' = [owed EXCEPT ![c.path] = g]
            BY <1>2, <2>3, <3>2
        <3>4. CASE p # c.path
            <4>1. ~Waits(c, p, w)
                BY <3>4 DEF Waits
            <4>2. owed'[p] = owed[p]
                BY <1>3, <3>3, <3>4
            <4> QED
                BY <2>1, <4>1, <4>2
        <3>5. CASE p = c.path
            <4>1. owed'[p] = g
                BY <1>3, <3>1, <3>3, <3>5
            <4>2. g[w] = owed[p][w] - Cardinality({i \in DOMAIN c.list : c.list[i] = w})
                BY <3>2, <3>5
            <4>3. Cardinality({i \in DOMAIN c.list : c.list[i] = w})
                     = IF w \in ToSet(c.list) THEN 1 ELSE 0
                BY <1>4, <3>1, PlacesCount
            <4>4. Waits(c, p, w) <=> w \in ToSet(c.list)
                BY <2>3, <3>5 DEF Waits
            <4> QED
                BY <4>1, <4>2, <4>3, <4>4
        <3> QED
            BY <3>4, <3>5
    <2> QED
        BY <2>2, <2>3
<1>11. Cardinality(Tabled(p, w))' = a
    <2>1. Tabled(p, w)' = Tabled(p, w)
        BY <1>2 DEF Tabled, ActiveOn
    <2> QED
        BY <1>5, <2>1
<1>12. Pending(p, w)' = a + y
    BY <1>6, <1>11, PendingNext
<1>13. owed[p][w] \in Int
    BY <1>3
<1> QED
    BY <1>7, <1>9, <1>10, <1>12, <1>13

(* Activated once more, in one table more at most, and owed once more.     *)
LEMMA FiresIoReply ==
    ASSUME ShapeInv, OrderInv, FiresInv, IoReply
    PROVE  FiresInv'
<1> SUFFICES ASSUME NEW p \in Paths, NEW w \in Watchers
             PROVE  Pending(p, w)' <= owed'[p][w]
    BY DEF FiresInv
<1>1. UNCHANGED completions
    BY ReplyIs
<1>2. CASE UNCHANGED <<active, owed>>
    <2>1. Pending(p, w)' = Pending(p, w)
        BY <1>1, <1>2 DEF Pending, ActiveOn
    <2> QED
        BY <1>2, <2>1 DEF FiresInv
<1>3. ASSUME NEW r \in Reads, NEW rc, NEW z \in Nat, NEW t \in Tables, Activation(r, rc, z, t)
      PROVE  Pending(p, w)' <= owed'[p][w]
    <2>1. PICK A : A = Tabled(p, w)
        OBVIOUS
    <2>2. PICK B : B = Tabled(p, w)'
        OBVIOUS
    <2>3. PICK b : b = Cardinality(Waiting(completions, p, w))
        OBVIOUS
    <2>4. IsFiniteSet(A) /\ Cardinality(A) \in Nat /\ b \in Nat
        <3>1. completions \in Seq(Deliveries)
            BY DEF ShapeInv, ClientShape
        <3> QED
            BY <2>1, <2>3, <3>1, TabledFinite, WaitingFinite
    <2>5. Cardinality(A) + b <= owed[p][w] /\ owed[p][w] \in Int
        BY <2>1, <2>3, PendingIs DEF FiresInv, ShapeInv, CountShape
    <2>6. Pending(p, w)' = Cardinality(B) + b
        BY <1>1, <2>2, <2>3, PendingNext
    <2>7. owed'[p][w] = IF p = r.path /\ w = r.watcher THEN owed[p][w] + 1 ELSE owed[p][w]
        BY <1>3, ActivatedOwed
    <2>8. \A x \in Tables : ActiveOn(x, p)' = IF x = t /\ p = r.path
                                              THEN ActiveOn(x, p) \cup {r.watcher} ELSE ActiveOn(x, p)
        BY <1>3, ActivatedOn
    <2>9. CASE p = r.path /\ w = r.watcher
        <3>1. B = A \cup {t}
            BY <2>1, <2>2, <2>8, <2>9 DEF Tabled
        <3>2. Cardinality(A \cup {t}) = IF t \in A THEN Cardinality(A) ELSE Cardinality(A) + 1
            BY <2>4, FS_AddElement
        <3>3. Cardinality(B) <= Cardinality(A) + 1 /\ Cardinality(B) \in Nat
            BY <2>4, <3>1, <3>2
        <3> QED
            BY <2>4, <2>5, <2>6, <2>7, <2>9, <3>3
    <2>10. CASE ~(p = r.path /\ w = r.watcher)
        <3>1. B = A
            BY <2>1, <2>2, <2>8, <2>10 DEF Tabled
        <3> QED
            BY <2>5, <2>6, <2>7, <2>10, <3>1
    <2> QED
        BY <2>9, <2>10
<1>4. \/ UNCHANGED <<active, owed>>
      \/ \E r \in Reads, z \in Nat : \E t \in Tables : Activation(r, Head(s2c).rc, z, t)
    <2>1. Head(s2c) \in Replies
        BY ReplyIs
    <2>2. Head(s2c).zxid \in Nat
        BY <2>1 DEF Replies
    <2> QED
        BY <2>2, ReplyIs
<1> QED
    BY <1>2, <1>3, <1>4

(* Every step keeps the count.                                             *)
LEMMA FiresStep ==
    ASSUME ShapeInv, OrderInv, FiresInv, [Next]_vars
    PROVE  FiresInv'
<1>1. ASSUME UNCHANGED <<active, owed>>,
             \/ UNCHANGED completions
             \/ completions' = <<>>
             \/ \E c \in Deliveries : c.type = "SESSION" /\ completions' = Append(completions, c)
      PROVE  FiresInv'
    BY <1>1, FiresCompletions DEF ActiveOn
<1>2. \A kind, p, w : Read(kind, p, w) => UNCHANGED <<active, owed, completions>>
    BY DEF Read, history
<1>3. Flush \/ ServerRead \/ ServerSetWatches \/ UNCHANGED vars => UNCHANGED <<active, owed, completions>>
    BY DEF Flush, ServerRead, ServerSetWatches, vars, clientVars, history
<1>4. \A type, p : ServerChange(type, p) => UNCHANGED <<active, owed, completions>>
    BY DEF ServerChange, clientVars, history
<1>5. Close => UNCHANGED <<active, owed>> /\ completions' = <<>>
    BY DEF Close, history
<1>6. Connect \/ Disconnect => UNCHANGED <<active, owed>> /\ completions' = Append(completions, SessionEvent)
    BY DEF Connect, Disconnect, history
<1>7. SessionEvent \in Deliveries /\ SessionEvent.type = "SESSION"
    BY SessionOk DEF SessionEvent, ShapeInv
<1>8. CASE CleanOne
    <2>1. UNCHANGED <<owed, completions>>
        BY <1>8 DEF CleanOne, history
    <2> QED
        BY <1>8, <2>1, ActiveAfterCleanOne, FiresCompletions
<1> QED
    BY <1>1, <1>2, <1>3, <1>4, <1>5, <1>6, <1>7, <1>8, NextCases, FiresIoReply, FiresIoEvent,
       FiresDeliver

(* Nobody stands on a list twice.                                          *)
LEMMA OnceOnAList ==
    ASSUME ShapeInv
    PROVE  \A c \in ToSet(completions) : Cardinality(ToSet(c.list)) = Len(c.list)
<1> SUFFICES ASSUME NEW c \in ToSet(completions)
             PROVE  Cardinality(ToSet(c.list)) = Len(c.list)
    OBVIOUS
<1>1. PICK i \in DOMAIN completions : completions[i] = c
    BY DEF ToSet
<1>2. completions \in Seq(Deliveries)
    BY DEF ShapeInv, ClientShape
<1>3. NoRepeat(c.list) /\ c \in Deliveries
    BY <1>1, <1>2 DEF ShapeInv, ClientShape
<1>4. PICK l : l = c.list
    OBVIOUS
<1>5. l \in Seq(Watchers) \/ l \in Seq(Watchers \cup {DefaultWatcher})
    BY <1>3, <1>4 DEF Deliveries
<1>6. PICK n \in Nat : n = Len(l) /\ DOMAIN l = 1..n
    BY <1>5
<1>7. l \in Bijection(1..n, ToSet(l))
    <2>1. l \in [1..n -> ToSet(l)]
        BY <1>5, <1>6 DEF ToSet
    <2>2. \A j, k \in 1..n : l[j] = l[k] => j = k
        BY <1>3, <1>4, <1>6 DEF NoRepeat
    <2>3. \A x \in ToSet(l) : \E j \in 1..n : l[j] = x
        BY <1>6 DEF ToSet
    <2> QED
        BY <2>1, <2>2, <2>3 DEF Bijection, Injection, Surjection, IsInjective
<1>8. Cardinality(ToSet(l)) = n
    BY <1>7, FS_CountingElements DEF ExistsBijection
<1> QED
    BY <1>4, <1>6, <1>8

LEMMA FiresInit == Init => FiresInv
<1> SUFFICES ASSUME Init, NEW p \in Paths, NEW w \in Watchers
             PROVE  Pending(p, w) <= owed[p][w]
    BY DEF FiresInv
<1>1. \A t \in Tables : ActiveOn(t, p) = {}
    <2> SUFFICES ASSUME NEW t \in Tables PROVE ActiveOn(t, p) = {}
        OBVIOUS
    <2>1. active[t] = create_hashtable
        BY DEF Init
    <2>2. hashtable_search(active[t], p) = Null
        BY <2>1, NoNull, CreateOk
    <2> QED
        BY <2>2, NumbersNone DEF ActiveOn, Null
<1>2. Tabled(p, w) = {}
    BY <1>1 DEF Tabled
<1>3. Waiting(completions, p, w) = {}
    <2>1. completions = <<>>
        BY DEF Init
    <2>2. DOMAIN completions = {}
        BY <2>1
    <2> QED
        BY <2>2 DEF Waiting
<1>4. owed[p][w] = 0
    BY DEF Init
<1> QED
    BY <1>2, <1>3, <1>4, PendingIs, FS_EmptySet

(* A watcher waits, in tables and on delivery lists together, at most once *)
(* for each read that activated it and has not been called for, and no     *)
(* list names anyone twice (add_to_list, copy_watchers, deliverWatchers).  *)
THEOREM FiresOnlyOncePerRead == Spec => []FiresOncePerRead
<1>1. Init => FiresInv
    BY FiresInit
<1>2. ShapeInv /\ OrderInv /\ FiresInv /\ [Next]_vars => FiresInv'
    BY FiresStep
<1>3. ShapeInv /\ FiresInv => FiresOncePerRead
    BY OnceOnAList DEF FiresOncePerRead, FiresInv
<1> QED
    BY <1>1, <1>2, <1>3, WatchesShape, PTL DEF Spec
=============================================================================
