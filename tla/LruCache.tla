------------------------------- MODULE LruCache -------------------------------
(***************************************************************************)
(* What the recent list of a product promises: a least-recently-used cache  *)
(* of keys whose capacity may change at any time.  A smaller capacity takes *)
(* effect with the next use.                                                *)
(***************************************************************************)
EXTENDS Integers, Sequences

CONSTANTS
    Keys,        \* what may be cached
    MinCapacity  \* the capacity to begin with, and the smallest one

VARIABLES
    cached,      \* the cached keys, latest use first
    capacity

LruInit == cached = <<>> /\ capacity = MinCapacity

(* Where a key stands, or the place after the last.                         *)
Place(k) ==
    IF \E i \in DOMAIN cached : cached[i] = k
    THEN CHOOSE i \in DOMAIN cached : cached[i] = k
    ELSE Len(cached) + 1

Smaller(m, n) == IF m <= n THEN m ELSE n

(* The key moves to the front, those before it move back, and those beyond  *)
(* the capacity are dropped.                                                *)
Use(k) ==
    /\ cached' = [i \in 1 .. Smaller(capacity, IF Place(k) > Len(cached) THEN Place(k)
                                               ELSE Len(cached)) |->
                    IF i = 1 THEN k ELSE IF i <= Place(k) THEN cached[i - 1] ELSE cached[i]]
    /\ UNCHANGED capacity

Resize ==
    /\ capacity' \in Nat /\ capacity' >= MinCapacity
    /\ UNCHANGED cached

LruNext == Resize \/ \E k \in Keys : Use(k)

LruSpec == LruInit /\ [][LruNext]_<<cached, capacity>>
=============================================================================
