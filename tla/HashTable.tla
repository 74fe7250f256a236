----------------------------- MODULE HashTable -----------------------------
(***************************************************************************)
(* The chained hash table of hashtable.c, hashtable_itr.c, as a value: the *)
(* index of its length in the table of primes, the number of entries, and  *)
(* the chains.  A chain is read from its head.  The functions that change  *)
(* the table return the new one.  Memory does not run out.                 *)
(***************************************************************************)
EXTENDS Integers, Sequences, SequencesExt

CONSTANTS
    Keys,
    HashOf,   \* hash(): a number for each key
    Primes    \* primes[]: the lengths a table goes through

Null == <<>>   \* hashtable_search finds nothing; no stored value is empty

tablelength(h) == Primes[h.primeindex]
loadlimit(h)   == (tablelength(h) * 65 + 99) \div 100  \* ceil(length * 0.65)

indexFor(len, k) == HashOf[k] % len

(* hashtable_count *)
hashtable_count(h) == h.entrycount

(* The entries in the order an iterator visits them: bucket by bucket. *)
Iterate(h) == FlattenSeq([i \in 1..tablelength(h) |-> h.table[i - 1]])

create_hashtable ==
    [primeindex |-> 1, entrycount |-> 0,
     table |-> [i \in 0..(Primes[1] - 1) |-> <<>>]]

(* hashtable_expand moves the entries one by one, each to the head of its  *)
(* new chain, so that chains end up reversed; at the last prime it does    *)
(* nothing.                                                                *)
hashtable_expand(h) ==
    IF h.primeindex = Len(Primes) THEN h
    ELSE LET newsize == Primes[h.primeindex + 1]
             all     == Iterate(h)
             moved[n \in 0..Len(all)] ==
                 IF n = 0 THEN [i \in 0..(newsize - 1) |-> <<>>]
                 ELSE [moved[n - 1] EXCEPT ![indexFor(newsize, all[n].k)] =
                           <<all[n]>> \o @]
         IN  [h EXCEPT !.primeindex = @ + 1, !.table = moved[Len(all)]]

Counted(h) == [h EXCEPT !.entrycount = @ + 1]

(* The bucket is computed for the table as it was. *)            
InsertAtOldIndex(h, k, v) ==                                  \* a mutation
    LET c == Counted(h)
        g == IF c.entrycount > loadlimit(c) THEN hashtable_expand(c) ELSE c
    IN  [g EXCEPT !.table[indexFor(tablelength(h), k)] =
                      <<[k |-> k, v |-> v]>> \o @]

hashtable_insert(h, k, v) ==
    LET c == Counted(h)
        g == IF c.entrycount > loadlimit(c) THEN hashtable_expand(c) ELSE c
    IN  [g EXCEPT !.table[indexFor(tablelength(g), k)] =
                      <<[k |-> k, v |-> v]>> \o @]

Chain(h, k) == h.table[indexFor(tablelength(h), k)]

(* The places in its chain at which the key is found; the first counts. *)
Matches(h, k) == {i \in DOMAIN Chain(h, k) : Chain(h, k)[i].k = k}

hashtable_search(h, k) ==
    IF Matches(h, k) = {} THEN Null ELSE Chain(h, k)[Min(Matches(h, k))].v

(* The list a search returned is changed where it is. *)
hashtable_update(h, k, v) ==
    [h EXCEPT !.table[indexFor(tablelength(h), k)] =
        [i \in DOMAIN @ |-> IF @[i].k = k THEN [@[i] EXCEPT !.v = v] ELSE @[i]]]

(* hashtable_remove: the entry's value is what the search returned. *)
hashtable_remove(h, k) ==
    IF Matches(h, k) = {} THEN h
    ELSE [h EXCEPT !.entrycount = @ - 1,
                   !.table[indexFor(tablelength(h), k)] =
                       RemoveAt(@, Min(Matches(h, k)))]

(* The entry an iterator starts at, and its removal by                     *)
(* hashtable_iterator_remove: the head of the first chain there is.        *)
FirstBucket(h) == CHOOSE i \in DOMAIN h.table :
                      /\ h.table[i] # <<>>
                      /\ \A j \in 0..(i - 1) : h.table[j] = <<>>

hashtable_iterator_remove(h) ==
    [h EXCEPT !.entrycount = @ - 1, !.table[FirstBucket(h)] = Tail(@)]

-----------------------------------------------------------------------------
(* Every entry is in the bucket a search looks in, no key has two, and the *)
(* count is right.                                                         *)
WellFormed(h) ==
    LET all == Iterate(h)
    IN  /\ hashtable_count(h) = Len(all)
        /\ \A i \in DOMAIN h.table : \A n \in DOMAIN h.table[i] :
              indexFor(tablelength(h), h.table[i][n].k) = i
        /\ \A m, n \in DOMAIN all : all[m].k = all[n].k => m = n

=============================================================================
