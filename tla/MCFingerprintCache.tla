------------------------- MODULE MCFingerprintCache -------------------------
(***************************************************************************)
(* Drives the LRU cache with every sequence of at most MaxAdds fingerprints *)
(* and compares it with what an LRU set is: a function of the history of   *)
(* the fingerprints it was given.                                          *)
(***************************************************************************)
EXTENDS FingerprintCache, Naturals, Sequences, FiniteSets

CONSTANTS Fingerprints, Capacity, MaxAdds

ASSUME CapacityAssumption == Capacity \in Nat \ {0}

VARIABLES cache, history, reportedNew
vars == << cache, history, reportedNew >>

Init == /\ cache = NewFingerprintCache
        /\ history = << >>
        /\ reportedNew = << >>

AddFingerprint(f) ==
    /\ Len(history) < MaxAdds
    /\ cache' = Add(cache, f, Capacity)
    /\ history' = Append(history, f)
    /\ reportedNew' = Append(reportedNew, IsNew(cache, f))

Next == \E f \in Fingerprints : AddFingerprint(f)

Spec == Init /\ [][Next]_vars

-----------------------------------------------------------------------------
(***************************************************************************)
(* The reference: after the history h, the fingerprint f is cached iff it  *)
(* occurs in h and fewer than Capacity other fingerprints occur after its  *)
(* last occurrence.                                                        *)
(***************************************************************************)
LastSeen(h, f) == CHOOSE i \in DOMAIN h :
                     h[i] = f /\ \A j \in DOMAIN h : j > i => h[j] # f

SeenAfter(h, f) == {h[j] : j \in {i \in DOMAIN h : i > LastSeen(h, f)}}

MostRecent(h) == {f \in Fingerprints :
                     (\E i \in DOMAIN h : h[i] = f) /\ Cardinality(SeenAfter(h, f)) < Capacity}

(***************************************************************************)
(* The map and the list hold the same fingerprints, the list each of them  *)
(* once, and neither outgrows the capacity: a list element whose map entry *)
(* is gone, or the reverse, would leak memory for as long as the server    *)
(* runs (add, ingester.go:231-245).                                        *)
(***************************************************************************)
MapMatchesList ==
    /\ cache.items = {cache.order[i] : i \in DOMAIN cache.order}
    /\ Cardinality(cache.items) = Len(cache.order)
    /\ Len(cache.order) <= Capacity

(***************************************************************************)
(* The cache is the set of the Capacity most recently seen fingerprints,   *)
(* most recent first: a hit refreshes, and what is evicted is the one seen *)
(* longest ago (add's MoveToFront and Back, ingester.go:232-243).          *)
(***************************************************************************)
IsLRU ==
    /\ cache.items = MostRecent(history)
    /\ \A i, j \in DOMAIN cache.order :
          i < j => LastSeen(history, cache.order[i]) > LastSeen(history, cache.order[j])

(***************************************************************************)
(* add answers "new" exactly when the fingerprint is not one of the        *)
(* Capacity most recently seen: a metadata row is skipped only for a       *)
(* series seen recently, and is written again after an eviction            *)
(* (ingester.go:170-175).                                                  *)
(***************************************************************************)
NewIffNotRecent ==
    \A i \in DOMAIN history :
        reportedNew[i] <=> history[i] \notin MostRecent(SubSeq(history, 1, i - 1))

=============================================================================
