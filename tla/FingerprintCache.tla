-------------------------- MODULE FingerprintCache --------------------------
(***************************************************************************)
(* The bounded LRU set of fingerprints of ingester.go (fingerprintCache):  *)
(* a map from fingerprint to list element, and a doubly linked list whose  *)
(* front is the most recently seen fingerprint.                            *)
(*                                                                         *)
(* A cache is a record: "items" is the key set of the map, "order" the     *)
(* list, front first.  The map's values are list elements, and the list    *)
(* holds one per key, so the key set is all of the map that the code       *)
(* reads.  The map and the list are kept apart because the code keeps them *)
(* apart: that they agree is something to check.                           *)
(***************************************************************************)
LOCAL INSTANCE Naturals
LOCAL INSTANCE Sequences

NewFingerprintCache == [items |-> {}, order |-> << >>]

\* add reports whether the fingerprint was newly added, ...
IsNew(cache, f) == f \notin cache.items

\* ... moves the element of one that was there to the front, ...
MoveToFront(order, f) ==
    LET k == CHOOSE i \in DOMAIN order : order[i] = f
    IN  [i \in DOMAIN order |-> IF i = 1 THEN f
                                ELSE IF i <= k THEN order[i - 1] ELSE order[i]]

RefreshNothing(cache, f) == cache       \* slip: first in, first out
Refresh(cache, f) == [cache EXCEPT !.order = MoveToFront(@, f)]

\* ... puts a new one in front, ...
Push(cache, f) == [items |-> cache.items \cup {f}, order |-> << f >> \o cache.order]

\* ... and then removes the oldest when there are too many.
RemoveOldest(cache) ==
    [items |-> cache.items \ {cache.order[Len(cache.order)]},
     order |-> SubSeq(cache.order, 1, Len(cache.order) - 1)]

EvictEarly(cache, capacity) ==          \* slip: off by one
    IF Len(cache.order) >= capacity THEN RemoveOldest(cache) ELSE cache
EvictFromList(cache, capacity) ==       \* slip: the map entry stays
    IF Len(cache.order) > capacity THEN [RemoveOldest(cache) EXCEPT !.items = cache.items]
                                   ELSE cache
Evict(cache, capacity) ==
    IF Len(cache.order) > capacity THEN RemoveOldest(cache) ELSE cache

Add(cache, f, capacity) ==
    IF IsNew(cache, f) THEN Evict(Push(cache, f), capacity) ELSE Refresh(cache, f)
=============================================================================
