---------------------------- MODULE HeapContract -----------------------------
(***************************************************************************)
(* What malloc, calloc, realloc and free promise, without headers, lists   *)
(* or a placement policy: each pointer a caller holds owns a run of bytes  *)
(* of the pool that it shares with no other pointer.                       *)
(***************************************************************************)
EXTENDS Integers

CONSTANT PoolSize

VARIABLE alloc   \* pointer -> bytes it owns

(* q owning n bytes lies in the pool, apart from the pointers in others.   *)
Apart(q, n, others) ==
  /\ q >= 0 /\ n >= 0 /\ q + n <= PoolSize
  /\ \A p \in others : p # q /\ (p + alloc[p] <= q \/ q + n <= p)

Init == alloc = [p \in {} |-> 0]

(* The holders are others, apart from q which owns n bytes.                *)
Place(q, n, others) ==
  /\ Apart(q, n, others)
  /\ alloc' = [x \in others \cup {q} |-> IF x = q THEN n ELSE alloc[x]]

Acquire(q, n) == q \notin DOMAIN alloc /\ Place(q, n, DOMAIN alloc)
Release(p) == alloc' = [x \in DOMAIN alloc \ {p} |-> alloc[x]]
Shrink(p, n) == n <= alloc[p] /\ Place(p, n, DOMAIN alloc \ {p})
(* The old bytes are still owned while they are copied.                    *)
Move(p, q, n) ==
  /\ Apart(q, n, DOMAIN alloc)
  /\ Place(q, n, DOMAIN alloc \ {p})

(* The new holdings name the pointer and the bytes the step hands out.      *)
Next ==
  \/ \E q \in DOMAIN alloc' : Acquire(q, alloc'[q])
  \/ \E p \in DOMAIN alloc : Release(p)
  \/ \E p \in DOMAIN alloc \cap DOMAIN alloc' : Shrink(p, alloc'[p])
  \/ \E p \in DOMAIN alloc, q \in DOMAIN alloc' : Move(p, q, alloc'[q])

Spec == Init /\ [][Next]_alloc
==============================================================================
