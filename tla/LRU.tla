---------------------------------- MODULE LRU ---------------------------------
(***************************************************************************)
(* identityclient.lruCache (identityclient/client.go): the list of entries, *)
(* most recently used first.  The map items always indexes exactly the      *)
(* elements of the list, so the list alone is the state.                    *)
(***************************************************************************)
EXTENDS Integers, Sequences, FiniteSets

CONSTANT MaxSize

ASSUME MaxSizeAssumption == MaxSize \in Nat \ {0}

\* What is left of seq at the positions in kept, in the same order: the n-th of
\* them is the one with n positions of kept up to it.
Rank(kept, i) == Cardinality({j \in kept : j <= i})
Nth(kept, n) == CHOOSE i \in kept : Rank(kept, i) = n
Subsequence(seq, kept) == [n \in 1..Cardinality(kept) |-> seq[Nth(kept, n)]]

Entries(cache) == {cache[i] : i \in DOMAIN cache}
Keys(cache) == {cache[i].key : i \in DOMAIN cache}
Entry(cache, key) == cache[CHOOSE i \in DOMAIN cache : cache[i].key = key]
Without(cache, key) == Subsequence(cache, {i \in DOMAIN cache : cache[i].key # key})

\* Mutant: a hit does not promote.
Get_NoPromotion(cache, key) == cache

\* Get finds the entry if there is one and promotes it.
Get(cache, key) ==
    IF key \in Keys(cache) THEN <<Entry(cache, key)>> \o Without(cache, key) ELSE cache

\* Put updates or inserts at the front; an insertion may push out the back.
Put(cache, entry) ==
    LET front == <<entry>> \o Without(cache, entry.key)
    IN  IF Len(front) > MaxSize THEN SubSeq(front, 1, Len(front) - 1) ELSE front

Delete(cache, key) == Without(cache, key)

\* DeleteFunc, with the entries for which fn returns true.
DeleteFunc(cache, matching) ==
    Subsequence(cache, {i \in DOMAIN cache : cache[i] \notin matching})
===============================================================================
