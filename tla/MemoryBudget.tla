----------------------------- MODULE MemoryBudget -----------------------------
(***************************************************************************)
(* src/memory_budget.c: what each region of RAM is charged, and the swap   *)
(* slots whose memory can be given up and taken back.  A charge is         *)
(* returned once, with the size it was made for.  The functions on slots   *)
(* take any handle, also one whose slot was freed, or freed and allocated  *)
(* again: they look at the slot the handle names and at nothing else.      *)
(* malloc may fail at any time.                                            *)
(***************************************************************************)
EXTENDS Integers, FiniteSets, FiniteSetsExt

CONSTANTS
  Regions,         \* budget_region_t
  SwapRegion,      \* BUDGET_SWAP_CACHE
  SWAP_SLOT_MAX,
  Unit,            \* bytes in a KB
  WordSize,        \* 2^32
  Sizes,           \* sizes callers ask for, in bytes
  Limits,          \* the limits that are set, the first one by init
  Charges,         \* names of the charges made outside the swap layer
  MaxUsed          \* bound of the model: no region is charged more KB

ASSUME BudgetAssumption ==
  /\ SwapRegion \in Regions
  /\ {SWAP_SLOT_MAX, Unit, WordSize} \subseteq Nat \ {0} /\ Unit <= WordSize
  /\ Sizes \subseteq 0..(WordSize - 1)
  /\ Limits \subseteq 0..(WordSize - 1) /\ Limits # {}
  /\ MaxUsed \in 0..(WordSize - 1)

VARIABLES
  limit, used,     \* region -> limit_kb, used_kb
  slot,            \* swap_slots: in_use, whether local_ptr is set, size
  charge,          \* ghost: the charges outstanding, name -> [region, size]
  stranded,        \* ghost: KB charged for slots freed while they were evicted
  revived          \* ghost: a restore has put memory behind a slot that is free

vars == <<limit, used, slot, charge, stranded, revived>>

Slots == 0..(SWAP_SLOT_MAX - 1)
Unused == [in_use |-> FALSE, loaded |-> FALSE, size |-> 0]
-------------------------------------------------------------------------------
(* Bytes in KB, rounded up in 32 bits: the last sizes of the range give 0. *)
Kb(size) == ((size + Unit - 1) % WordSize) \div Unit

(* memory_budget_init *)
Init ==
  /\ limit \in [Regions -> Limits]
  /\ used = [r \in Regions |-> 0]
  /\ slot = [i \in Slots |-> Unused]
  /\ charge = [c \in {} |-> 0]
  /\ stranded = 0 /\ revived = FALSE

(* memory_budget_set_limit; usage above the new limit stays.               *)
MemoryBudgetSetLimit(r, kb) ==
  /\ limit' = [limit EXCEPT ![r] = kb]
  /\ UNCHANGED <<used, slot, charge, stranded, revived>>

BadWithin(r, size) == limit[r] = 0 \/ used[r] < limit[r]   \* ignores the size

(* The test of memory_budget_alloc and memory_budget_can_alloc.            *)
Within(r, size) == limit[r] = 0 \/ (used[r] + Kb(size)) % WordSize <= limit[r]

Charged(u, r, size) == [u EXCEPT ![r] = (@ + Kb(size)) % WordSize]

BadReleased(u, r, size) ==   \* rounds down what it gives back
  [u EXCEPT ![r] = IF size \div Unit > @ THEN 0 ELSE @ - size \div Unit]

(* memory_budget_free: never below 0.                                      *)
Released(u, r, size) ==
  [u EXCEPT ![r] = IF Kb(size) > @ THEN 0 ELSE @ - Kb(size)]

InModel(r, size) == used[r] + Kb(size) <= MaxUsed

(* memory_budget_alloc by code other than the swap layer                   *)
MemoryBudgetAlloc(c, r, size) ==
  /\ c \notin DOMAIN charge /\ InModel(r, size)
  /\ \/ ~Within(r, size) /\ UNCHANGED vars
     \/ /\ Within(r, size)
        /\ used' = Charged(used, r, size)
        /\ charge' = [x \in DOMAIN charge \cup {c} |->
                        IF x = c THEN [region |-> r, size |-> size] ELSE charge[x]]
        /\ UNCHANGED <<limit, slot, stranded, revived>>

MemoryBudgetFree(c) ==
  /\ c \in DOMAIN charge
  /\ used' = Released(used, charge[c].region, charge[c].size)
  /\ charge' = [x \in DOMAIN charge \ {c} |-> charge[x]]
  /\ UNCHANGED <<limit, slot, stranded, revived>>
-------------------------------------------------------------------------------
FreeSlots == {i \in Slots : ~slot[i].in_use}

NewSlot(size) == [slot EXCEPT ![Min(FreeSlots)] =
                    [in_use |-> TRUE, loaded |-> TRUE, size |-> size]]

(* swap_slot_alloc: no memory (-2; always for 0 bytes) and over budget     *)
(* (-3) change nothing; with no slot left (-4) the charge is taken back.   *)
SwapSlotAlloc(size) ==
  \/ UNCHANGED vars
  \/ /\ size # 0 /\ Within(SwapRegion, size) /\ InModel(SwapRegion, size)
     /\ LET u == Charged(used, SwapRegion, size) IN
        \/ FreeSlots # {} /\ used' = u /\ slot' = NewSlot(size)
        \/ FreeSlots = {} /\ used' = Released(u, SwapRegion, size) /\ UNCHANGED slot
     /\ UNCHANGED <<limit, charge, stranded, revived>>

(* swap_evict: the memory, if there is any, goes; charge and slot stay.    *)
SwapEvict(i) ==
  /\ slot' = [slot EXCEPT ![i].loaded = FALSE]
  /\ UNCHANGED <<limit, used, charge, stranded, revived>>

(* swap_restore: nothing to do, no memory (-2; always for 0 bytes, the     *)
(* size of a slot never used), or loaded again, whether in use or not.     *)
SwapRestore(i) ==
  /\ \/ UNCHANGED <<slot, revived>>
     \/ /\ ~slot[i].loaded /\ slot[i].size # 0
        /\ slot' = [slot EXCEPT ![i].loaded = TRUE]
        /\ revived' = (revived \/ ~slot[i].in_use)
  /\ UNCHANGED <<limit, used, charge, stranded>>

(* swap_slot_free: the charge of an evicted slot is not given back.  Once  *)
(* a slot was revived stranded is no longer counted.                       *)
SwapSlotFree(i) ==
  /\ used' = IF slot[i].loaded THEN Released(used, SwapRegion, slot[i].size) ELSE used
  /\ stranded' = IF slot[i].in_use /\ ~slot[i].loaded /\ ~revived
                 THEN stranded + Kb(slot[i].size) ELSE stranded
  /\ slot' = [slot EXCEPT ![i].in_use = FALSE, ![i].loaded = FALSE]
  /\ UNCHANGED <<limit, charge, revived>>

Next ==
  \/ \E r \in Regions, kb \in Limits : MemoryBudgetSetLimit(r, kb)
  \/ \E c \in Charges, r \in Regions, s \in Sizes : MemoryBudgetAlloc(c, r, s)
  \/ \E c \in Charges : MemoryBudgetFree(c)
  \/ \E s \in Sizes : SwapSlotAlloc(s)
  \/ \E i \in Slots : SwapEvict(i) \/ SwapRestore(i) \/ SwapSlotFree(i)

Spec == Init /\ [][Next]_vars
-------------------------------------------------------------------------------
(* The counters stay inside 32 bits and the charges in the model's bound.  *)
TypeOK ==
  /\ limit \in [Regions -> 0..(WordSize - 1)]
  /\ used \in [Regions -> 0..(WordSize - 1)]
  /\ slot \in [Slots -> [in_use : BOOLEAN, loaded : BOOLEAN, size : 0..(WordSize - 1)]]
  /\ DOMAIN charge \subseteq Charges
  /\ stranded \in 0..MaxUsed /\ revived \in BOOLEAN

(* The KB that holders of these sizes need, one by one: the k-th is needed *)
(* when the k - 1 before it are too small.  A size in the last Unit - 1    *)
(* bytes of the range needs most and is charged nothing, because rounding  *)
(* it up wraps: such holders do not count.                                 *)
HeldKb(size) ==
  {h \in (DOMAIN size) \X (1..WordSize) :
     (h[2] - 1) * Unit < size[h[1]] /\ size[h[1]] + Unit <= WordSize}

ChargesOf(r) == [c \in {x \in DOMAIN charge : charge[x].region = r} |-> charge[c].size]
SlotSizes == [i \in {j \in Slots : slot[j].in_use} |-> slot[i].size]

(* What a region is charged is the number of KB its holders need: the      *)
(* outstanding charges, and for the swap region the slots in use, whether  *)
(* in RAM or evicted.  Two things come between, and only these: a slot     *)
(* freed while evicted leaves its KB behind, and a restore through a       *)
(* handle whose slot is free ends the claim for the swap region, because   *)
(* the next free of that handle gives back what somebody else was charged. *)
(* Evictions and frees through such handles do no harm to the accounts.    *)
ChargesAccounted ==
  \A r \in Regions : r # SwapRegion \/ ~revived =>
    used[r] = Cardinality(HeldKb(ChargesOf(r)))
            + IF r # SwapRegion THEN 0 ELSE stranded + Cardinality(HeldKb(SlotSizes))

(* No charge takes a region with a limit past it, whatever limit was set   *)
(* and whoever charges: swap_slot_alloc and other callers share it.        *)
LimitRespected ==
  [][\A r \in Regions : used'[r] > used[r] /\ limit[r] # 0 => used'[r] <= limit[r]]_vars
===============================================================================
